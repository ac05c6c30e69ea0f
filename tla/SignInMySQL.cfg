\* One request at a time, on MySQL; nothing fails.
CONSTANTS
  Request = {r1}
  UserID = {u1, u2}
  Email = {"e1"}
  Name = {n1}
  Blank = Blank
  GoogleName <- MCGoogleName
  Role = {"STUDENT", "ADMIN"}
  Student = "STUDENT"
  Unset = ""
  NoRow = NoRow
  NoInput = NoInput
  Driver = "mysql"
  Failures = FALSE
SPECIFICATION Spec
PROPERTIES DuplicateEmailIs400
