\* One account request and one class request at a time; a token lives two ticks.
CONSTANTS
  Table = {"users", "subjects", "classes"}
  Order <- MCOrder
  Indexed = {"users", "classes"}
  Filed = {"users", "subjects"}
  MaxAttempts = 5
  Users = "users"
  AccountRequest = {r1}
  AccountInput <- MCAccountInput
  Email = {"e1"}
  UserID = {"u1"}
  Student = "STUDENT"
  Unset = ""
  ClassRequest = {q1}
  ClassInput <- MCClassInput
  TTL = 2
  ClassID = {"c1"}
  PathID = {"c1", "bad"}
  BadID = "bad"
  CanonID <- MCCanonID
  RawName = {"", "A"}
  Blank = ""
  Trim <- MCTrim
  Grade = {1}
  NoGrade = NoGrade
  NoRow = NoRow
  NoInput = NoInput
  Role = {"STUDENT", "ADMIN"}
  Admin = "ADMIN"
SPECIFICATION LiveSpec
INVARIANTS TypeOK StaleAuthorityBounded SchemaBeforeData
PROPERTIES WritesByAdmins AuthorityEnds ComesUp
