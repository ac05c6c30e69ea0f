\* One student, one class, failing statements.
CONSTANTS
  Request = {r1}
  ClassID = {c1}
  TeacherID = {t1}
  UserID = {u1}
  Nobody = Nobody
  NoClass = NoClass
  BadID = BadID
  NoInput = NoInput
  Failures = TRUE
SPECIFICATION Spec
PROPERTIES OwnClassNotDenied
