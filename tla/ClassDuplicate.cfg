\* One request at a time; a name may be sent with a leading space.
CONSTANTS
  ClassID = {"c1", "c2"}
  PathID = {"c1", "c2", "bad"}
  BadID = "bad"
  CanonID <- MCCanonID
  RawName = {"", "A", " A"}
  Blank = ""
  Trim <- MCTrim
  Grade = {1}
  NoGrade = NoGrade
  NoRow = NoRow
  NoInput = NoInput
  Role = {"ADMIN"}
  Admin = "ADMIN"
  Request = {r1}
  Failures = FALSE
  Overlap = TRUE
SPECIFICATION Spec
INVARIANTS DuplicateIs422
