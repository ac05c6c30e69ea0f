\* Two requests at a time, failing statements, overlapping updates.
CONSTANTS
  ClassID = {"c1", "c2"}
  PathID = {"c1", "c2", "bad"}
  BadID = "bad"
  CanonID <- MCCanonID
  RawName = {"", "A", " A", "B"}
  Blank = ""
  Trim <- MCTrim
  Grade = {0, 1}
  NoGrade = NoGrade
  NoRow = NoRow
  NoInput = NoInput
  Role = {"ADMIN", "TEACHER"}
  Admin = "ADMIN"
  Request = {r1, r2}
  Failures = TRUE
  Overlap = TRUE
SPECIFICATION LiveSpec
INVARIANTS TypeOK UniqueNames RowsWellFormed
PROPERTIES OnlyAdminsWrite NoResurrection Answered
