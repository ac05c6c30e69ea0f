------------------------------ MODULE ClassRead ------------------------------
(***************************************************************************)
(* GET /classes and GET /classes/{classId}.  What a token may see depends  *)
(* on four tables, which a request reads in up to three statements outside *)
(* any transaction, while classes are created and the operators of the     *)
(* database assign teachers and move students.  One action is the code     *)
(* from one statement to the next.                                         *)
(***************************************************************************)
EXTENDS FiniteSets

CONSTANTS
  Request,   \* the requests that may be open at one time
  ClassID,   \* the ids of classes
  TeacherID, \* the ids of teacher profiles
  UserID,    \* the users that hold tokens
  Nobody,    \* the user of a teacher id that has no row
  NoClass,   \* the homeroom of a user without a row in "students"
  BadID,     \* a path text uuid.Parse refuses
  NoInput,   \* a slot that serves no request
  Failures   \* TRUE: statements may fail

ASSUME ValueAssumption ==
  /\ Nobody \notin UserID
  /\ {NoClass, BadID} \cap ClassID = {} /\ ClassID \cap TeacherID = {}
  /\ Failures \in BOOLEAN

\* The roles RoleAdmin, RoleTeacher and RoleStudent, and any other text.
Role == {"ADMIN", "TEACHER", "STUDENT", "OTHER"}

\* The path of a GET /classes/{classId} stands for what uuid.Parse makes of it.
Input ==
  [op : {"list"}, role : Role, user : UserID] \cup
  [op : {"byid"}, role : Role, user : UserID, path : ClassID \cup {BadID}]

ASSUME NoInputAssumption == NoInput \notin Input

VARIABLES
  classes,   \* the ids that have a row in "classes"
  teachers,  \* table teachers: TeacherID -> its user, or Nobody
  assigned,  \* table class_subjects: pairs of a class and a teacher
  homeroom,  \* table students: UserID -> its class, or NoClass
  retired,   \* class and teacher ids that are not handed out again
  pc,        \* where the goroutine of each request is
  input,     \* what each request asks for
  found,     \* the ids a request has read in its earlier statements
  answer,    \* the last status code and classes a request was answered with
  \* History, for the properties:
  scopes     \* scopes[r]: what r was entitled to see, at each time it was open

tables == <<classes, teachers, assigned, homeroom, retired>>
vars == <<classes, teachers, assigned, homeroom, retired,
          pc, input, found, answer, scopes>>

Init ==
  /\ classes = {}
  /\ teachers = [t \in TeacherID |-> Nobody]
  /\ assigned = {}
  /\ homeroom = [u \in UserID |-> NoClass]
  /\ retired = {}
  /\ pc = [r \in Request |-> "idle"]
  /\ input = [r \in Request |-> NoInput]
  /\ found = [r \in Request |-> {}]
  /\ answer = [r \in Request |-> [code |-> 0, body |-> {}]]
  /\ scopes = [r \in Request |-> {}]

\* The classes a token is entitled to see: an administrator all, a teacher the
\* classes it is assigned to, a student its homeroom class.
Scope(i) ==
  CASE i.role = "ADMIN"   -> classes
    [] i.role = "TEACHER" ->
         {c \in classes : \E t \in TeacherID :
                            teachers[t] = i.user /\ <<c, t>> \in assigned}
    [] i.role = "STUDENT" -> {homeroom[i.user]} \cap classes
    [] i.role = "OTHER"   -> {}

ScopeOf(r) == Scope(input[r])

Observe ==
  scopes' = [r \in Request |-> IF pc'[r] = "idle" THEN {}
                               ELSE scopes[r] \cup {ScopeOf(r)'}]

Goto(r, l) == pc' = [pc EXCEPT ![r] = l]

Answer(r, code, body) ==
  /\ Goto(r, "idle")
  /\ answer' = [answer EXCEPT ![r] = [code |-> code, body |-> body]]
  /\ input' = [input EXCEPT ![r] = NoInput]
  /\ found' = [found EXCEPT ![r] = {}]

ReadOn(r, l, ids) ==
  /\ Goto(r, l)
  /\ found' = [found EXCEPT ![r] = ids]
  /\ UNCHANGED <<input, answer>>

-----------------------------------------------------------------------------
\* JWTAuth lets the request through.
Receive(r, i) ==
  /\ pc[r] = "idle"
  /\ Goto(r, "start")
  /\ input' = [input EXCEPT ![r] = i]
  /\ answer' = [answer EXCEPT ![r] = [code |-> 0, body |-> {}]]
  /\ UNCHANGED <<tables, found>>

\* JWTAuth answers 401.
TurnAway(r) ==
  /\ pc[r] = "idle"
  /\ answer' = [answer EXCEPT ![r] = [code |-> 401, body |-> {}]]
  /\ UNCHANGED <<tables, pc, input, found>>

\* ParseID fails, or the role is none of the three.
Denied(i) == i.role = "OTHER" \/ (i.op = "byid" /\ i.path = BadID)

Deny(r) ==
  /\ pc[r] = "start" /\ Denied(input[r])
  /\ Answer(r, 401, {})
  /\ UNCHANGED tables

Starts(r, role) == pc[r] = "start" /\ ~Denied(input[r]) /\ input[r].role = role

\* The answer made of the classes that were found: a list of them all, or the
\* one the path names, if it is among them.
Reply_Unscoped(r, ids) ==
  IF input[r].op = "list" THEN Answer(r, 200, ids) ELSE Answer(r, 200, {input[r].path})
Reply(r, ids) ==
  IF input[r].op = "list"      THEN Answer(r, 200, ids)
  ELSE IF input[r].path \in ids THEN Answer(r, 200, {input[r].path})
  ELSE Answer(r, 401, {})

\* A statement fails.
Fail(r) == Failures /\ Answer(r, 500, {})

\* Administrators: FindAll, or FindByID.
ReadAll(r) ==
  /\ Starts(r, "ADMIN")
  /\ Reply(r, classes) \/ Fail(r)
  /\ UNCHANGED tables

\* FindByTeacherUserID, first statement: the profile of the user.
ReadTeacher(r) ==
  /\ Starts(r, "TEACHER")
  /\ LET profiles == {t \in TeacherID : teachers[t] = input[r].user} IN
     \/ profiles = {} /\ Reply(r, {})
     \/ profiles # {} /\ ReadOn(r, "subjects", profiles)
     \/ Fail(r)
  /\ UNCHANGED tables

\* Second statement: the class_subjects of the profile.
ReadSubjects_TeacherIDs(r) ==
  /\ pc[r] = "subjects"
  /\ ReadOn(r, "rows", found[r])
  /\ UNCHANGED tables
ReadSubjects(r) ==
  /\ pc[r] = "subjects"
  /\ LET ids == {c \in ClassID : \E t \in found[r] : <<c, t>> \in assigned} IN
     \/ ids = {} /\ Reply(r, {})
     \/ ids # {} /\ ReadOn(r, "rows", ids)
     \/ Fail(r)
  /\ UNCHANGED tables

\* Third statement: the classes of these ids.
ReadClasses(r) ==
  /\ pc[r] = "rows"
  /\ Reply(r, found[r] \cap classes) \/ Fail(r)
  /\ UNCHANGED tables

\* GetClasses answers a student's failing statement 500, GetClassByID 401.
FailStudent(r) == Failures /\ Answer(r, IF input[r].op = "list" THEN 500 ELSE 401, {})

\* FindByStudentUserID, first statement: the homeroom of the user.
ReadStudent(r) ==
  /\ Starts(r, "STUDENT")
  /\ LET c == homeroom[input[r].user] IN
     \/ c = NoClass /\ Answer(r, 401, {})
     \/ c # NoClass /\ ReadOn(r, "homeroom", {c})
     \/ FailStudent(r)
  /\ UNCHANGED tables

\* Second statement: the class of this id; ErrClassNotFound is answered 401.
ReadHomeroom_UntilFound(r) ==
  /\ pc[r] = "homeroom"
  /\ found[r] \subseteq classes /\ Reply(r, found[r])
  /\ UNCHANGED tables
ReadHomeroom(r) ==
  /\ pc[r] = "homeroom"
  /\ \/ found[r] \subseteq classes /\ Reply(r, found[r])
     \/ ~(found[r] \subseteq classes) /\ Answer(r, 401, {})
     \/ FailStudent(r)
  /\ UNCHANGED tables

Step(r) ==
  \/ Deny(r) \/ ReadAll(r)
  \/ ReadTeacher(r) \/ ReadSubjects(r) \/ ReadClasses(r)
  \/ ReadStudent(r) \/ ReadHomeroom(r)

-----------------------------------------------------------------------------
\* What changes the tables.  POST /classes makes classes; the rest is done by
\* the operators of the database, row by row, and within the foreign keys and
\* the 1:1 profiles of rbac-explanation.md.
requests == <<pc, input, found, answer>>

CreateClass(c) ==
  /\ c \notin classes \cup retired
  /\ classes' = classes \cup {c}
  /\ UNCHANGED <<teachers, assigned, homeroom, retired>>

RemoveClass(c) ==
  /\ c \in classes
  /\ \A t \in TeacherID : <<c, t>> \notin assigned
  /\ \A u \in UserID : homeroom[u] # c
  /\ classes' = classes \ {c}
  /\ retired' = retired \cup {c}
  /\ UNCHANGED <<teachers, assigned, homeroom>>

AddTeacher(t, u) ==
  /\ teachers[t] = Nobody /\ t \notin retired
  /\ \A s \in TeacherID : teachers[s] # u
  /\ teachers' = [teachers EXCEPT ![t] = u]
  /\ UNCHANGED <<classes, assigned, homeroom, retired>>

RemoveTeacher(t) ==
  /\ teachers[t] # Nobody
  /\ \A c \in ClassID : <<c, t>> \notin assigned
  /\ teachers' = [teachers EXCEPT ![t] = Nobody]
  /\ retired' = retired \cup {t}
  /\ UNCHANGED <<classes, assigned, homeroom>>

Assign(c, t) ==
  /\ c \in classes /\ teachers[t] # Nobody
  /\ assigned' = assigned \cup {<<c, t>>}
  /\ UNCHANGED <<classes, teachers, homeroom, retired>>

Unassign(c, t) ==
  /\ assigned' = assigned \ {<<c, t>>}
  /\ UNCHANGED <<classes, teachers, homeroom, retired>>

Enrol(u, c) ==
  /\ c \in classes \cup {NoClass}
  /\ homeroom' = [homeroom EXCEPT ![u] = c]
  /\ UNCHANGED <<classes, teachers, assigned, retired>>

Change ==
  /\ \/ \E c \in ClassID : CreateClass(c) \/ RemoveClass(c)
     \/ \E t \in TeacherID : RemoveTeacher(t) \/ \E u \in UserID : AddTeacher(t, u)
     \/ \E c \in ClassID, t \in TeacherID : Assign(c, t) \/ Unassign(c, t)
     \/ \E u \in UserID, c \in ClassID \cup {NoClass} : Enrol(u, c)
  /\ UNCHANGED requests

Next ==
  /\ \/ \E r \in Request : (\E i \in Input : Receive(r, i)) \/ TurnAway(r) \/ Step(r)
     \/ Change
  /\ Observe

\* A goroutine that can run runs, and a statement returns or fails.
Fairness == \A r \in Request : WF_vars(Step(r) /\ Observe)

Spec == Init /\ [][Next]_vars
LiveSpec == Spec /\ Fairness

-----------------------------------------------------------------------------
TypeOK ==
  /\ classes \subseteq ClassID
  /\ teachers \in [TeacherID -> UserID \cup {Nobody}]
  /\ assigned \subseteq ClassID \X TeacherID
  /\ homeroom \in [UserID -> ClassID \cup {NoClass}]
  /\ retired \subseteq ClassID \cup TeacherID
  /\ pc \in [Request -> {"idle", "start", "subjects", "rows", "homeroom"}]
  /\ input \in [Request -> Input \cup {NoInput}]
  /\ found \in [Request -> (SUBSET ClassID) \cup (SUBSET TeacherID)]
  /\ \A r \in Request :
       found[r] \subseteq IF pc[r] = "subjects" THEN TeacherID ELSE ClassID
  /\ answer \in [Request -> [code : {0, 200, 401, 500}, body : SUBSET ClassID]]
  /\ scopes \in [Request -> SUBSET SUBSET ClassID]

\* Nobody sees a class out of scope: everything an answer shows was in the
\* scope of its token at one single moment since the request arrived, although
\* the code puts it together from statements at different moments.
OnlyInScope ==
  [][\A r \in Request : pc[r] # "idle" /\ pc'[r] = "idle" =>
       answer'[r].body = {} \/ \E S \in scopes[r] : answer'[r].body \subseteq S]_vars

\* What a list answered 200 leaves out, and what a teacher or an administrator
\* is denied by id, was out of scope at some moment since the request arrived:
\* a class whose assignment nobody touches is never missing.
NothingMissed ==
  [][\A r \in Request :
       /\ pc[r] # "idle" /\ pc'[r] = "idle"
       /\ IF input[r].op = "list" THEN answer'[r].code = 200
          ELSE answer'[r].code = 401 /\ input[r].role # "STUDENT"
       => \A c \in ClassID \ answer'[r].body :
            (input[r].op = "byid" => c = input[r].path) =>
              \E S \in scopes[r] : c \notin S]_vars

\* Every request that gets past JWTAuth is answered.
Answered == \A r \in Request : pc[r] # "idle" ~> pc[r] = "idle"

-----------------------------------------------------------------------------
\* Promises of the documentation that the code does not keep.

\* GS-002: errors 401 and 500, 401 also if the class does not exist.  So a
\* student is not told 401 about the class it has been in all the time.
OwnClassNotDenied ==
  [][\A r \in Request :
       /\ pc[r] # "idle" /\ pc'[r] = "idle"
       /\ input[r].op = "byid" /\ input[r].role = "STUDENT"
       /\ \A S \in scopes[r] : input[r].path \in S
       => answer'[r].code # 401]_vars

=============================================================================
