\* One request at a time; its statements may fail.
CONSTANTS
  Request = {r1}
  UserID = {u1, u2}
  Email = {"e1"}
  Name = {n1}
  Blank = Blank
  GoogleName <- MCGoogleName
  Role = {"STUDENT", "ADMIN"}
  Student = "STUDENT"
  Unset = ""
  NoRow = NoRow
  NoInput = NoInput
  Driver = "sqlite"
  Failures = TRUE
SPECIFICATION Spec
INVARIANTS SignedUpHasGrant
