----------------------------- MODULE ClassWrite -----------------------------
(***************************************************************************)
(* POST /classes and PUT /classes/{classId}.  Every open request is a      *)
(* goroutine that runs middleware, binding, validator, use case and        *)
(* repository; goroutines meet only in the table "classes", at one SQL     *)
(* statement at a time and outside any transaction.  One action is the     *)
(* code from one statement to the next.                                    *)
(***************************************************************************)
EXTENDS ClassDomain, FiniteSets

CONSTANTS
  Request,      \* the requests that may be open at one time
  Failures,     \* TRUE: statements may fail, or succeed unacknowledged, and
                \* the server may crash
  Overlap       \* FALSE: clients never send two updates of one class at once

ASSUME SwitchAssumption == Failures \in BOOLEAN /\ Overlap \in BOOLEAN

VARIABLES
  classes,  \* the table: ClassID -> its row, or NoRow
  used,     \* the ids handed out by uuid.New so far
  pc,       \* where the goroutine of each request is
  input,    \* what each request asks for
  entity,   \* the class an update has read and modified in memory
  status    \* the status code a request was answered with, 0 before

vars == <<classes, used, pc, input, entity, status>>

Init ==
  /\ classes = [c \in ClassID |-> NoRow]
  /\ used = {}
  /\ pc = [r \in Request |-> "idle"]
  /\ input = [r \in Request |-> NoInput]
  /\ entity = [r \in Request |-> NoRow]
  /\ status = [r \in Request |-> 0]

Goto(r, l) == pc' = [pc EXCEPT ![r] = l]

\* The handler writes its response and the goroutine ends.
Answer(r, code) ==
  /\ Goto(r, "idle")
  /\ status' = [status EXCEPT ![r] = code]
  /\ input' = [input EXCEPT ![r] = NoInput]
  /\ entity' = [entity EXCEPT ![r] = NoRow]

Target(r) == CanonID[input[r].path]

-----------------------------------------------------------------------------
\* Bound: creates are admitted while the pool of ids has one for each of them.
IDsLeft ==
  Cardinality({r \in Request : pc[r] # "idle" /\ input[r].op = "create"})
    < Cardinality(ClassID \ used)

Updating(r, c) == pc[r] # "idle" /\ input[r].op = "update" /\ Target(r) = c

\* JWTAuth and Bind let the request through.
Receive(r, i) ==
  /\ pc[r] = "idle"
  /\ i.op = "create" => IDsLeft
  /\ i.op = "update" => \/ Overlap
                        \/ \A s \in Request : ~Updating(s, CanonID[i.path])
  /\ Goto(r, "validate")
  /\ input' = [input EXCEPT ![r] = i]
  /\ status' = [status EXCEPT ![r] = 0]
  /\ UNCHANGED <<classes, used, entity>>

\* JWTAuth answers 401, or Bind fails and the handler answers 400.
TurnAway(r) ==
  /\ pc[r] = "idle"
  /\ \E code \in {400, 401} : status' = [status EXCEPT ![r] = code]
  /\ UNCHANGED <<classes, used, pc, input, entity>>

\* The tags required, min and notblank of the request bodies.
FieldsOk(i) ==
  IF i.op = "create" THEN ValidName(i.name) /\ ValidGrade(i.grade)
                     ELSE i.grade # NoGrade => ValidGrade(i.grade)

\* unique_in counts the rows that have the name as it was sent and whose id
\* is not the text of the path (the path of a create is BadID: no exclusion).
Unique(i) == ~NameTaken(classes, i.name, i.path)

\* ValidateCtx: all tags, among them the SELECT count(*) of unique_in, whose
\* failure counts as "not unique".
Validate(r) ==
  /\ pc[r] = "validate"
  /\ \/ /\ FieldsOk(input[r]) /\ Unique(input[r])
        /\ Goto(r, "usecase")
        /\ UNCHANGED <<input, entity, status>>
     \/ /\ ~FieldsOk(input[r]) \/ ~Unique(input[r]) \/ Failures
        /\ Answer(r, 422)
  /\ UNCHANGED <<classes, used>>

\* What the use case checks before it touches the repository.
Allowed_Anyone(i) == i.op = "update" => CanonID[i.path] # BadID
Allowed(i) == i.role = Admin /\ (i.op = "update" => CanonID[i.path] # BadID)

Deny(r) ==
  /\ pc[r] = "usecase"
  /\ ~Allowed(input[r])
  /\ Answer(r, 401)
  /\ UNCHANGED <<classes, used>>

\* The unique index of the table: a row other than c may not get the name n.
IndexRefuses_NoIndex(n, c) == FALSE
IndexRefuses(n, c) == NameTaken(classes, n, c)

\* CreateClass, INSERT: a violation of the unique index is an unknown error.
Insert_ErrorDropped(r) ==
  /\ pc[r] = "usecase" /\ Allowed(input[r]) /\ input[r].op = "create"
  /\ \E c \in ClassID \ used :
       /\ classes' = IF IndexRefuses(NewClass(input[r]).name, c) THEN classes
                     ELSE [classes EXCEPT ![c] = NewClass(input[r])]
       /\ used' = used \cup {c}
  /\ Answer(r, 201)
Insert(r) ==
  /\ pc[r] = "usecase" /\ Allowed(input[r]) /\ input[r].op = "create"
  /\ LET row == NewClass(input[r]) IN
     \/ \E c \in ClassID \ used :
          /\ ~IndexRefuses(row.name, c)
          /\ classes' = [classes EXCEPT ![c] = row]
          /\ used' = used \cup {c}
          /\ Answer(r, 201) \/ (Failures /\ Answer(r, 500))
     \/ /\ Failures \/ IndexRefuses(row.name, BadID)
        /\ Answer(r, 500)
        /\ UNCHANGED <<classes, used>>

\* UpdateClass, SELECT: read the whole row, then modify the copy.
Find_WaitForRow(r) ==
  /\ pc[r] = "usecase" /\ Allowed(input[r]) /\ input[r].op = "update"
  /\ LET row == classes[Target(r)]
         badName == input[r].name # Blank /\ ~ValidName(input[r].name) IN
     /\ row # NoRow
     /\ \/ /\ ~badName
           /\ Goto(r, "save")
           /\ entity' = [entity EXCEPT ![r] = Merge(row, input[r])]
           /\ UNCHANGED <<input, status>>
        \/ badName /\ Answer(r, 422)
        \/ Failures /\ Answer(r, 500)
  /\ UNCHANGED <<classes, used>>
Find(r) ==
  /\ pc[r] = "usecase" /\ Allowed(input[r]) /\ input[r].op = "update"
  /\ LET row == classes[Target(r)]
         badName == input[r].name # Blank /\ ~ValidName(input[r].name) IN
     \/ /\ row # NoRow /\ ~badName
        /\ Goto(r, "save")
        /\ entity' = [entity EXCEPT ![r] = Merge(row, input[r])]
        /\ UNCHANGED <<input, status>>
     \/ row # NoRow /\ badName /\ Answer(r, 422)
     \/ row = NoRow /\ Answer(r, 401)
     \/ Failures /\ Answer(r, 500)
  /\ UNCHANGED <<classes, used>>

\* UPDATE ... SET every field of row WHERE id = c: no row with that id is no
\* error.  (GORM leaves out zero fields; RowsWellFormed says there are none.)
UpdateRow_Upsert(table, c, row) == [table EXCEPT ![c] = row]
UpdateRow(table, c, row) ==
  IF table[c] = NoRow THEN table ELSE [table EXCEPT ![c] = row]

\* UpdateClass, UPDATE: write back the copy.
Save(r) ==
  /\ pc[r] = "save"
  /\ LET c == Target(r)
         clash == classes[c] # NoRow /\ IndexRefuses(entity[r].name, c) IN
     \/ /\ ~clash
        /\ classes' = UpdateRow(classes, c, entity[r])
        /\ Answer(r, 200) \/ (Failures /\ Answer(r, 500))
     \/ (clash \/ Failures) /\ Answer(r, 500) /\ UNCHANGED classes
  /\ UNCHANGED used

\* The operators of the database remove a class (no endpoint does).
Remove(c) ==
  /\ classes[c] # NoRow
  /\ classes' = [classes EXCEPT ![c] = NoRow]
  /\ UNCHANGED <<used, pc, input, entity, status>>

\* The process ends and is started again: every open request is lost.  (A
\* statement that took effect just before is one answered 500: no client is
\* told, and nothing takes it up.)
Crash ==
  /\ Failures
  /\ pc' = [r \in Request |-> "idle"]
  /\ input' = [r \in Request |-> NoInput]
  /\ entity' = [r \in Request |-> NoRow]
  /\ UNCHANGED <<classes, used, status>>

Step(r) == Validate(r) \/ Deny(r) \/ Insert(r) \/ Find(r) \/ Save(r)

Next ==
  \/ \E r \in Request : (\E i \in Input : Receive(r, i)) \/ TurnAway(r) \/ Step(r)
  \/ \E c \in ClassID : Remove(c)
  \/ Crash

\* A goroutine that can run runs, and a statement returns or fails.
Fairness == \A r \in Request : WF_vars(Step(r))

Spec == Init /\ [][Next]_vars
LiveSpec == Spec /\ Fairness

-----------------------------------------------------------------------------
TypeOK ==
  /\ classes \in [ClassID -> Row \cup {NoRow}]
  /\ used \subseteq ClassID
  /\ pc \in [Request -> {"idle", "validate", "usecase", "save"}]
  /\ input \in [Request -> Input \cup {NoInput}]
  /\ entity \in [Request -> Row \cup {NoRow}]
  /\ status \in [Request -> {0, 200, 201, 400, 401, 422, 500}]

\* No two classes ever have the same name, although unique_in is only a check
\* before the write and the name it checks is not the name that is stored.
UniqueNames ==
  \A c, d \in ClassID :
    classes[c] # NoRow /\ classes[d] # NoRow /\ classes[c].name = classes[d].name
      => c = d

\* Every stored class can be read back: its name is trimmed and not blank and
\* its grade positive, so that no row makes ToClassDomain (and with it FindAll)
\* fail.
RowsWellFormed ==
  \A c \in ClassID : classes[c] # NoRow => WellFormed(classes[c])

\* A class appears or changes only at the write of a request whose token says
\* ADMIN and that is answered at that write, never with a refusal.
OnlyAdminsWrite ==
  [][\A c \in ClassID :
       classes'[c] # classes[c] /\ classes'[c] # NoRow =>
         \E r \in Request : /\ pc[r] # "idle" /\ input[r].role = Admin
                            /\ pc'[r] = "idle" /\ status'[r] \in {200, 201, 500}]_vars

\* A class that was removed stays removed: an update that read it before does
\* not bring it back, and no create gets its id.
NoResurrection ==
  [][\A c \in used : classes[c] = NoRow => classes'[c] = NoRow]_vars

\* Every request that gets past JWTAuth and Bind is answered, unless the server
\* crashes first.
Answered == \A r \in Request : pc[r] # "idle" ~> pc[r] = "idle"

\* The atomic store the endpoints promise, which they implement as long as
\* clients do not update one class twice at a time.
Store == INSTANCE ClassStore WITH asked <- input, answer <- status
AtomicStore == Store!Spec

-----------------------------------------------------------------------------
\* Promises of the documentation that the code does not keep.

\* GS-003-test-plan, TC-066: a duplicate name is answered 422, not 500.
\* (Without database failures nothing else is answered 500.)
DuplicateIs422 == \A r \in Request : status[r] # 500

\* GS-003-test-plan, TC-062: own name is not treated as a duplicate.
OwnNameAccepted ==
  [][\A r \in Request :
       /\ pc[r] = "validate" /\ input[r].op = "update" /\ FieldsOk(input[r])
       /\ Target(r) \in ClassID /\ classes[Target(r)] # NoRow
       /\ classes[Target(r)].name = input[r].name
       => status'[r] # 422]_vars

\* GS-003-test-plan, TC-022: update only grade, name unchanged.
GradeUpdateKeepsName ==
  [][\A r \in Request :
       pc[r] = "save" /\ pc'[r] = "idle" /\ input[r].name = Blank
       /\ classes[Target(r)] # NoRow
       => classes'[Target(r)].name = classes[Target(r)].name]_vars

=============================================================================
