\* One request at a time; an id may be spelled in upper case.
CONSTANTS
  ClassID = {"c1", "c2"}
  PathID = {"c1", "C1", "c2", "bad"}
  BadID = "bad"
  CanonID <- MCCanonID
  RawName = {"", "A"}
  Blank = ""
  Trim <- MCTrim
  Grade = {1}
  NoGrade = NoGrade
  NoRow = NoRow
  NoInput = NoInput
  Role = {"ADMIN"}
  Admin = "ADMIN"
  Request = {r1}
  Failures = FALSE
  Overlap = TRUE
SPECIFICATION Spec
PROPERTIES OwnNameAccepted
