\* Two updates of one class at a time.
CONSTANTS
  ClassID = {"c1", "c2"}
  PathID = {"c1", "c2", "bad"}
  BadID = "bad"
  CanonID <- MCCanonID
  RawName = {"", "A", "B"}
  Blank = ""
  Trim <- MCTrim
  Grade = {1, 2}
  NoGrade = NoGrade
  NoRow = NoRow
  NoInput = NoInput
  Role = {"ADMIN"}
  Admin = "ADMIN"
  Request = {r1, r2}
  Failures = FALSE
  Overlap = TRUE
SPECIFICATION Spec
PROPERTIES GradeUpdateKeepsName
