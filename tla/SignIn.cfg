\* Two requests at a time, failing statements, crashes.
CONSTANTS
  Request = {r1, r2}
  UserID = {u1, u2}
  Email = {"e1", "e2"}
  Name = {n1}
  Blank = Blank
  GoogleName <- MCGoogleName
  Role = {"STUDENT", "ADMIN"}
  Student = "STUDENT"
  Unset = ""
  NoRow = NoRow
  NoInput = NoInput
  Driver = "sqlite"
  Failures = TRUE
SPECIFICATION LiveSpec
INVARIANTS TypeOK OneAccountPerEmail AtMostOneGrant NoNeedlessSignUp RowsReadable
PROPERTIES TokensAreFresh FreshStart AtomicAccounts Answered
