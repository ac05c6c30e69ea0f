\* Updates of one class do not overlap: the atomic store is implemented.
CONSTANTS
  ClassID = {"c1", "c2"}
  PathID = {"c1", "C1", "c2", "bad"}
  BadID = "bad"
  CanonID <- MCCanonID
  RawName = {"", " ", "A", " A"}
  Blank = ""
  Trim <- MCTrim
  Grade = {1, 2}
  NoGrade = NoGrade
  NoRow = NoRow
  NoInput = NoInput
  Role = {"ADMIN", "TEACHER"}
  Admin = "ADMIN"
  Request = {r1, r2}
  Failures = TRUE
  Overlap = FALSE
SYMMETRY RequestSymmetry
SPECIFICATION Spec
PROPERTIES AtomicStore
