\* One request, two classes, two users with teacher profiles, failing statements.
CONSTANTS
  Request = {r1}
  ClassID = {c1, c2}
  TeacherID = {t1, t2}
  UserID = {u1, u2}
  Nobody = Nobody
  NoClass = NoClass
  BadID = BadID
  NoInput = NoInput
  Failures = TRUE
SPECIFICATION LiveSpec
INVARIANTS TypeOK
PROPERTIES OnlyInScope NothingMissed Answered
