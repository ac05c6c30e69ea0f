-------------------------- MODULE ClassWriteProofs --------------------------
(***************************************************************************)
(* Proofs about ClassWrite, for any number of requests, ids, names and     *)
(* grades, with or without failing statements.                             *)
(***************************************************************************)
EXTENDS ClassWrite, TLAPS

-----------------------------------------------------------------------------
\* The value objects.

\* The fields of the body and the path of a POST or PUT request.
LEMMA InputFields ==
  ASSUME NEW i \in Input
  PROVE  /\ i.op \in {"create", "update"}
         /\ i.role \in Role /\ i.path \in PathID /\ i.name \in RawName
         /\ i.op = "create" => i \in CreateInput /\ i.grade \in Grade /\ i.path = BadID
         /\ i.op = "update" => i \in UpdateInput /\ i.grade \in Grade \cup {NoGrade}
<1>1. CASE i \in CreateInput
  BY <1>1, IDAssumption DEF CreateInput
<1>2. CASE i \in UpdateInput
  BY <1>2 DEF UpdateInput
<1> QED BY <1>1, <1>2 DEF Input

\* NewClass makes a well-formed row of a create the validator let through.
LEMMA NewClassWellFormed ==
  ASSUME NEW i \in Input, i.op = "create", FieldsOk(i)
  PROVE  NewClass(i) \in Row /\ WellFormed(NewClass(i))
BY InputFields, NameAssumption
   DEF NewClass, Row, WellFormed, FieldsOk, ValidName, ValidGrade

\* UpdateName and UpdateGrade keep a well-formed row well-formed.
LEMMA MergeWellFormed ==
  ASSUME NEW i \in Input, i.op = "update", FieldsOk(i),
         i.name = Blank \/ ValidName(i.name),
         NEW row \in Row, WellFormed(row)
  PROVE  Merge(row, i) \in Row /\ WellFormed(Merge(row, i))
<1>1. /\ i.name \in RawName /\ i.grade \in Grade \cup {NoGrade}
      /\ i.grade # NoGrade => ValidGrade(i.grade)
  BY InputFields DEF FieldsOk
<1>2. row.name \in RawName /\ row.grade \in Grade
  BY DEF Row
<1> DEFINE n == IF i.name = Blank THEN row.name ELSE Trim[i.name]
           g == IF i.grade = NoGrade THEN row.grade ELSE i.grade
<1>3. n \in RawName /\ Trim[n] = n /\ n # Blank
  BY <1>1, <1>2, NameAssumption DEF WellFormed, ValidName
<1>4. g \in Grade /\ ValidGrade(g)
  BY <1>1, <1>2 DEF WellFormed
<1> HIDE DEF n, g
<1>5. [name |-> n, grade |-> g] \in Row /\ WellFormed([name |-> n, grade |-> g])
  BY <1>3, <1>4 DEF Row, WellFormed
<1>6. Merge(row, i) = [name |-> n, grade |-> g]
  BY DEF Merge, n, g
<1> QED BY <1>5, <1>6

-----------------------------------------------------------------------------
\* The inductive invariant.  Safety of the table rests on what the code knows
\* about a request between two statements: the validator ran before the use
\* case, and an update carries a well-formed copy to its UPDATE.

RequestOK(r) ==
  /\ pc[r] = "idle" => input[r] = NoInput
  /\ pc[r] # "idle" => input[r] \in Input
  /\ pc[r] \in {"usecase", "save"} => FieldsOk(input[r])
  /\ pc[r] = "save" => /\ input[r].op = "update" /\ Allowed(input[r])
                       /\ entity[r] \in Row /\ WellFormed(entity[r])
                       /\ Target(r) \in used

RowsUsed == \A c \in ClassID : classes[c] # NoRow => c \in used

Inv ==
  /\ TypeOK
  /\ UniqueNames
  /\ RowsWellFormed
  /\ RowsUsed
  /\ \A r \in Request : RequestOK(r)

TableOK == UniqueNames /\ RowsWellFormed /\ RowsUsed

LEMMA InitInv == Init => Inv
BY DEF Init, Inv, TypeOK, UniqueNames, RowsWellFormed, RowsUsed, RequestOK

\* Setting the row of c to a well-formed row under a free name keeps the table
\* in order.
LEMMA WriteRow ==
  ASSUME Inv, NEW c \in ClassID, NEW row \in Row, WellFormed(row),
         ~NameTaken(classes, row.name, c),
         classes' = [classes EXCEPT ![c] = row],
         used' \subseteq ClassID, used \cup {c} \subseteq used'
  PROVE  classes' \in [ClassID -> Row \cup {NoRow}] /\ TableOK'
<1>1. classes \in [ClassID -> Row \cup {NoRow}]
  BY DEF Inv, TypeOK
<1>2. \A d \in ClassID : classes'[d] = IF d = c THEN row ELSE classes[d]
  BY <1>1
<1>3. classes' \in [ClassID -> Row \cup {NoRow}]
  BY <1>1
<1>4. UniqueNames'
  BY <1>2 DEF Inv, UniqueNames, NameTaken
<1>5. RowsWellFormed'
  BY <1>2 DEF Inv, RowsWellFormed
<1>6. RowsUsed'
  BY <1>2 DEF Inv, RowsUsed
<1> QED BY <1>3, <1>4, <1>5, <1>6 DEF TableOK

\* A step that leaves the table and moves no other request.
LEMMA AnswerOK ==
  ASSUME TypeOK, NEW r \in Request, NEW code \in {200, 201, 401, 422, 500},
         Answer(r, code), \A s \in Request : RequestOK(s), used \subseteq used'
  PROVE  /\ pc' \in [Request -> {"idle", "validate", "usecase", "save"}]
         /\ input' \in [Request -> Input \cup {NoInput}]
         /\ entity' \in [Request -> Row \cup {NoRow}]
         /\ status' \in [Request -> {0, 200, 201, 400, 401, 422, 500}]
         /\ \A s \in Request : RequestOK(s)'
<1>1. \A s \in Request : s # r => /\ pc'[s] = pc[s] /\ input'[s] = input[s]
                                  /\ entity'[s] = entity[s]
  BY DEF TypeOK, Answer, Goto
<1>2. pc'[r] = "idle" /\ input'[r] = NoInput
  BY DEF TypeOK, Answer, Goto
<1>3. \A s \in Request : RequestOK(s)'
  BY <1>1, <1>2 DEF RequestOK, Target, Allowed, FieldsOk
<1>4. QED BY <1>3 DEF TypeOK, Answer, Goto

LEMMA NextInv == Inv /\ [Next]_vars => Inv'
<1> SUFFICES ASSUME Inv, [Next]_vars PROVE Inv'
  OBVIOUS
<1> USE DEF Inv
<1>1. ASSUME NEW r \in Request, NEW i \in Input, Receive(r, i) PROVE Inv'
  <2>1. /\ UNCHANGED <<classes, used>> /\ TypeOK'
    BY <1>1 DEF Receive, TypeOK, Goto
  <2>2. \A s \in Request : RequestOK(s)'
    BY <1>1, <2>1, NoInputAssumption
       DEF Receive, TypeOK, Goto, RequestOK, Target, Allowed, FieldsOk
  <2> QED BY <2>1, <2>2 DEF UniqueNames, RowsWellFormed, RowsUsed
<1>2. ASSUME NEW r \in Request, TurnAway(r) PROVE Inv'
  BY <1>2 DEF TurnAway, TypeOK, UniqueNames, RowsWellFormed, RowsUsed,
              RequestOK, Target, Allowed, FieldsOk
<1>3. ASSUME NEW r \in Request, Validate(r) PROVE Inv'
  <2>1. UNCHANGED <<classes, used>>
    BY <1>3 DEF Validate
  <2>2. CASE Answer(r, 422)
    BY <2>1, <2>2, AnswerOK DEF TypeOK, UniqueNames, RowsWellFormed, RowsUsed
  <2>3. CASE FieldsOk(input[r]) /\ Goto(r, "usecase") /\ UNCHANGED <<input, entity, status>>
    <3>1. TypeOK'
      BY <2>1, <2>3 DEF TypeOK, Goto
    <3>2. \A s \in Request : RequestOK(s)'
      BY <1>3, <2>1, <2>3 DEF Validate, TypeOK, Goto, RequestOK, Target, Allowed, FieldsOk
    <3> QED BY <2>1, <3>1, <3>2 DEF UniqueNames, RowsWellFormed, RowsUsed
  <2> QED BY <1>3, <2>2, <2>3 DEF Validate
<1>4. ASSUME NEW r \in Request, Deny(r) PROVE Inv'
  BY <1>4, AnswerOK DEF Deny, TypeOK, UniqueNames, RowsWellFormed, RowsUsed
<1>5. ASSUME NEW r \in Request, Insert(r) PROVE Inv'
  <2> DEFINE row == NewClass(input[r])
  <2>1. row \in Row /\ WellFormed(row)
    BY <1>5, NewClassWellFormed DEF Insert, RequestOK
  <2>2. PICK code \in {201, 500} : Answer(r, code)
    BY <1>5 DEF Insert
  <2>3. CASE UNCHANGED <<classes, used>>
    BY <2>2, <2>3, AnswerOK DEF TypeOK, UniqueNames, RowsWellFormed, RowsUsed
  <2>4. CASE \E c \in ClassID \ used : /\ ~IndexRefuses(row.name, c)
                                       /\ classes' = [classes EXCEPT ![c] = row]
                                       /\ used' = used \cup {c}
    <3>1. PICK c \in ClassID \ used : /\ ~IndexRefuses(row.name, c)
                                      /\ classes' = [classes EXCEPT ![c] = row]
                                      /\ used' = used \cup {c}
      BY <2>4
    <3>2. used' \subseteq ClassID /\ used \cup {c} \subseteq used'
      BY <3>1 DEF TypeOK
    <3> HIDE DEF row
    <3>3. classes' \in [ClassID -> Row \cup {NoRow}] /\ TableOK'
      BY <2>1, <3>1, <3>2, WriteRow DEF IndexRefuses
    <3> QED BY <2>2, <3>2, <3>3, AnswerOK DEF TypeOK, TableOK
  <2> QED BY <1>5, <2>3, <2>4 DEF Insert
<1>6. ASSUME NEW r \in Request, Find(r) PROVE Inv'
  <2>1. UNCHANGED <<classes, used>>
    BY <1>6 DEF Find
  <2>2. CASE \E code \in {401, 422, 500} : Answer(r, code)
    BY <2>1, <2>2, AnswerOK DEF TypeOK, UniqueNames, RowsWellFormed, RowsUsed
  <2>3. CASE /\ classes[Target(r)] # NoRow
             /\ ~(input[r].name # Blank /\ ~ValidName(input[r].name))
             /\ Goto(r, "save")
             /\ entity' = [entity EXCEPT ![r] = Merge(classes[Target(r)], input[r])]
             /\ UNCHANGED <<input, status>>
    <3>1. /\ input[r] \in Input /\ input[r].op = "update" /\ FieldsOk(input[r])
          /\ Allowed(input[r])
      BY <1>6 DEF Find, RequestOK
    <3>2. Target(r) \in ClassID
      BY <3>1, InputFields, IDAssumption DEF Target, Allowed
    <3>3. Target(r) \in used /\ classes[Target(r)] \in Row /\ WellFormed(classes[Target(r)])
      BY <2>3, <3>2 DEF TypeOK, RowsUsed, RowsWellFormed
    <3>4. entity'[r] \in Row /\ WellFormed(entity'[r])
      BY <2>3, <3>1, <3>3, MergeWellFormed DEF TypeOK
    <3>5. TypeOK'
      BY <2>1, <2>3, <3>4 DEF TypeOK, Goto
    <3>6. \A s \in Request : RequestOK(s)'
      <4> SUFFICES ASSUME NEW s \in Request PROVE RequestOK(s)'
        OBVIOUS
      <4>1. CASE s = r
        BY <2>1, <2>3, <3>1, <3>3, <3>4, <4>1 DEF TypeOK, Goto, RequestOK, Target, Allowed, FieldsOk
      <4>2. CASE s # r
        BY <2>1, <2>3, <4>2 DEF TypeOK, Goto, RequestOK, Target, Allowed, FieldsOk
      <4> QED BY <4>1, <4>2
    <3> QED BY <2>1, <3>5, <3>6 DEF UniqueNames, RowsWellFormed, RowsUsed
  <2> QED BY <1>6, <2>2, <2>3 DEF Find
<1>7. ASSUME NEW r \in Request, Save(r) PROVE Inv'
  <2> DEFINE c == Target(r)
             row == entity[r]
  <2>1. /\ c \in ClassID /\ c \in used /\ row \in Row /\ WellFormed(row)
    BY <1>7 DEF Save, RequestOK, TypeOK
  <2>2. PICK code \in {200, 500} : Answer(r, code)
    BY <1>7 DEF Save
  <2>3. used' = used
    BY <1>7 DEF Save
  <2>4. CASE classes' = classes
    BY <2>2, <2>3, <2>4, AnswerOK DEF TypeOK, UniqueNames, RowsWellFormed, RowsUsed
  <2>5. CASE ~IndexRefuses(row.name, c) /\ classes' = [classes EXCEPT ![c] = row]
    <3>1. used' \subseteq ClassID /\ used \cup {c} \subseteq used'
      BY <2>1, <2>3 DEF TypeOK
    <3>2. ~NameTaken(classes, row.name, c)
      BY <2>5 DEF IndexRefuses
    <3> HIDE DEF c, row
    <3>3. classes' \in [ClassID -> Row \cup {NoRow}] /\ TableOK'
      BY <2>1, <2>5, <3>1, <3>2, WriteRow
    <3> QED BY <2>2, <2>3, <3>3, AnswerOK DEF TypeOK, TableOK
  <2> QED BY <1>7, <2>4, <2>5 DEF Save, UpdateRow
<1>8. ASSUME NEW c \in ClassID, Remove(c) PROVE Inv'
  <2>1. \A d \in ClassID : classes'[d] = IF d = c THEN NoRow ELSE classes[d]
    BY <1>8 DEF Remove, TypeOK
  <2>2. TypeOK'
    BY <1>8 DEF Remove, TypeOK
  <2>3. UniqueNames' /\ RowsWellFormed' /\ RowsUsed'
    BY <1>8, <2>1 DEF Remove, UniqueNames, RowsWellFormed, RowsUsed
  <2>4. \A s \in Request : RequestOK(s)'
    BY <1>8 DEF Remove, RequestOK, Target, Allowed, FieldsOk
  <2> QED BY <2>2, <2>3, <2>4
<1>9. CASE Crash
  BY <1>9 DEF Crash, TypeOK, UniqueNames, RowsWellFormed, RowsUsed, RequestOK
<1>10. CASE UNCHANGED vars
  BY <1>10 DEF vars, TypeOK, UniqueNames, RowsWellFormed, RowsUsed, RequestOK,
               Target, Allowed, FieldsOk
<1> QED
  BY <1>1, <1>2, <1>3, <1>4, <1>5, <1>6, <1>7, <1>8, <1>9, <1>10 DEF Next, Step

LEMMA Invariance == Spec => []Inv
BY InitInv, NextInv, PTL DEF Spec

\* The variables of POST and PUT keep their types: no copy of a class is ever
\* incomplete and no other status code is answered.
THEOREM TypeCorrect == Spec => []TypeOK
<1>1. Inv => TypeOK
  BY DEF Inv
<1> QED BY <1>1, Invariance, PTL

\* However creates and updates interleave and fail, no two classes share a
\* name.
THEOREM NamesStayUnique == Spec => []UniqueNames
<1>1. Inv => UniqueNames
  BY DEF Inv
<1> QED BY <1>1, Invariance, PTL

\* Every stored class can be read back by ToClassDomain.
THEOREM RowsStayWellFormed == Spec => []RowsWellFormed
<1>1. Inv => RowsWellFormed
  BY DEF Inv
<1> QED BY <1>1, Invariance, PTL

-----------------------------------------------------------------------------
\* A class appears or changes only at the write of an ADMIN's request.
THEOREM WritesAreAdmins == Spec => OnlyAdminsWrite
<1>1. ASSUME Inv, [Next]_vars, NEW c \in ClassID,
             classes'[c] # classes[c], classes'[c] # NoRow
      PROVE  \E r \in Request : /\ pc[r] # "idle" /\ input[r].role = Admin
                                /\ pc'[r] = "idle" /\ status'[r] \in {200, 201, 500}
  <2>1. PICK r \in Request : Insert(r) \/ Save(r)
    <3>1. ~\E d \in ClassID : Remove(d)
      BY <1>1 DEF Remove, Inv, TypeOK
    <3> QED BY <1>1, <3>1 DEF Next, Step, vars, Receive, TurnAway, Validate, Deny, Find, Crash
  <2>2. pc[r] # "idle" /\ Allowed(input[r])
    BY <1>1, <2>1 DEF Insert, Save, Inv, RequestOK
  <2>3. \E code \in {200, 201, 500} : Answer(r, code)
    BY <2>1 DEF Insert, Save
  <2> QED BY <1>1, <2>2, <2>3 DEF Allowed, Answer, Goto, Inv, TypeOK
<1>2. Inv /\ [Next]_vars =>
        [\A c \in ClassID :
           classes'[c] # classes[c] /\ classes'[c] # NoRow =>
             \E r \in Request : /\ pc[r] # "idle" /\ input[r].role = Admin
                                /\ pc'[r] = "idle" /\ status'[r] \in {200, 201, 500}]_vars
  BY <1>1
<1> QED BY <1>2, Invariance, PTL DEF Spec, OnlyAdminsWrite

\* No update and no create brings a removed class back.
THEOREM RemovedStaysRemoved == Spec => NoResurrection
<1>1. ASSUME Inv, [Next]_vars, NEW c \in used, classes[c] = NoRow
      PROVE  classes'[c] = NoRow
  <2> USE DEF Inv, TypeOK
  <2>1. ASSUME NEW r \in Request, Insert(r) PROVE classes'[c] = NoRow
    BY <1>1, <2>1 DEF Insert
  <2>2. ASSUME NEW r \in Request, Save(r) PROVE classes'[c] = NoRow
    BY <1>1, <2>2 DEF Save, UpdateRow
  <2>3. ASSUME NEW d \in ClassID, Remove(d) PROVE classes'[c] = NoRow
    BY <1>1, <2>3 DEF Remove
  <2> QED BY <1>1, <2>1, <2>2, <2>3
          DEF Next, Step, vars, Receive, TurnAway, Validate, Deny, Find, Crash
<1>2. Inv /\ [Next]_vars =>
        [\A c \in used : classes[c] = NoRow => classes'[c] = NoRow]_vars
  BY <1>1
<1> QED BY <1>2, Invariance, PTL DEF Spec, NoResurrection

-----------------------------------------------------------------------------
\* The atomic store.  When no two updates of one class are open at a time, the
\* copy an update carries to its UPDATE is still the stored row with the fields
\* of the request: creates add other rows and a removal leaves nothing to write.

OneUpdate ==
  \A r, s \in Request :
    /\ pc[r] # "idle" /\ input[r].op = "update"
    /\ pc[s] # "idle" /\ input[s].op = "update"
    /\ Target(r) = Target(s)
    => r = s

FreshCopy ==
  \A r \in Request :
    pc[r] = "save" => \/ classes[Target(r)] = NoRow
                      \/ entity[r] = Merge(classes[Target(r)], input[r])

AtomicInv == Inv /\ OneUpdate /\ FreshCopy

LEMMA InitAtomic == Init => AtomicInv
BY InitInv DEF Init, AtomicInv, OneUpdate, FreshCopy

\* A step of r that keeps the inputs of the open requests, or closes r.
LEMMA OneUpdateKept ==
  ASSUME Inv, OneUpdate, NEW r \in Request,
         \/ \E code \in {200, 201, 401, 422, 500} : Answer(r, code)
         \/ input' = input /\ pc[r] # "idle" /\ \E l \in {"usecase", "save"} : Goto(r, l)
  PROVE  OneUpdate'
BY DEF Inv, TypeOK, OneUpdate, Answer, Goto, Target

\* Clients that wait for one another's updates keep them apart.
LEMMA UpdatesStayApart ==
  ASSUME ~Overlap, Inv, OneUpdate, [Next]_vars
  PROVE  OneUpdate'
<1>0. TypeOK
  BY DEF Inv
<1>1. ASSUME NEW r \in Request, NEW i \in Input, Receive(r, i) PROVE OneUpdate'
  <2>1. \A s \in Request : s # r => pc'[s] = pc[s] /\ input'[s] = input[s]
    BY <1>0, <1>1 DEF TypeOK, Receive, Goto
  <2>2. /\ pc'[r] = "validate" /\ input'[r] = i
        /\ i.op = "update" => \A s \in Request : ~Updating(s, CanonID[i.path])
    BY <1>0, <1>1 DEF TypeOK, Receive, Goto
  <2> QED BY <2>1, <2>2 DEF OneUpdate, Target, Updating
<1>2. ASSUME NEW r \in Request, TurnAway(r) PROVE OneUpdate'
  BY <1>2 DEF TurnAway, OneUpdate, Target
<1>3. ASSUME NEW r \in Request, Step(r) PROVE OneUpdate'
  BY <1>3, OneUpdateKept DEF Step, Validate, Deny, Insert, Find, Save
<1>4. ASSUME NEW c \in ClassID, Remove(c) PROVE OneUpdate'
  BY <1>4 DEF Remove, OneUpdate, Target
<1>5. CASE Crash
  BY <1>5 DEF Crash, OneUpdate
<1>6. CASE UNCHANGED vars
  BY <1>6 DEF vars, OneUpdate, Target
<1> QED BY <1>1, <1>2, <1>3, <1>4, <1>5, <1>6 DEF Next

\* While updates are apart, nobody outdates the copy an update carries.
LEMMA CopiesStayFresh ==
  ASSUME AtomicInv, [Next]_vars
  PROVE  FreshCopy'
<1> USE DEF AtomicInv
<1>0. TypeOK
  BY DEF Inv
<1>1. ASSUME NEW r \in Request, NEW i \in Input, Receive(r, i) PROVE FreshCopy'
  <2>1. /\ pc'[r] = "validate" /\ UNCHANGED <<classes, entity>>
        /\ \A s \in Request : s # r => pc'[s] = pc[s] /\ input'[s] = input[s]
    BY <1>0, <1>1 DEF TypeOK, Receive, Goto
  <2> QED BY <2>1 DEF FreshCopy, Target
<1>2. ASSUME NEW r \in Request, TurnAway(r) PROVE FreshCopy'
  BY <1>2 DEF TurnAway, FreshCopy, Target
<1>3. ASSUME NEW r \in Request, Validate(r) \/ Deny(r) PROVE FreshCopy'
  BY <1>0, <1>3 DEF Validate, Deny, Answer, Goto, TypeOK, FreshCopy, Target
<1>4. ASSUME NEW r \in Request, Insert(r) PROVE FreshCopy'
  <2>1. \A s \in Request : pc'[s] = "save" =>
           s # r /\ pc[s] = "save" /\ input'[s] = input[s] /\ entity'[s] = entity[s]
    BY <1>0, <1>4 DEF Insert, Answer, Goto, TypeOK
  <2>2. \A c \in used : classes'[c] = classes[c]
    BY <1>0, <1>4 DEF Insert, TypeOK
  <2> QED BY <2>1, <2>2 DEF FreshCopy, Target, Inv, RequestOK
<1>5. ASSUME NEW r \in Request, Find(r) PROVE FreshCopy'
  BY <1>0, <1>5 DEF Find, Answer, Goto, TypeOK, FreshCopy, Target
<1>6. ASSUME NEW r \in Request, Save(r) PROVE FreshCopy'
  <2>1. \A s \in Request : pc'[s] = "save" =>
           s # r /\ pc[s] = "save" /\ input'[s] = input[s] /\ entity'[s] = entity[s]
    BY <1>0, <1>6 DEF Save, Answer, Goto, TypeOK
  <2>2. \A s \in Request : s # r /\ pc[s] = "save" => Target(s) # Target(r)
    BY <1>6 DEF OneUpdate, Save, Inv, RequestOK
  <2>3. \A c \in ClassID : c # Target(r) => classes'[c] = classes[c]
    BY <1>0, <1>6 DEF Save, UpdateRow, TypeOK
  <2>4. \A s \in Request : pc[s] = "save" => Target(s) \in ClassID
    BY <1>0 DEF Inv, RequestOK, TypeOK
  <2> QED BY <2>1, <2>2, <2>3, <2>4 DEF FreshCopy, Target
<1>7. ASSUME NEW c \in ClassID, Remove(c) PROVE FreshCopy'
  BY <1>0, <1>7 DEF Remove, TypeOK, FreshCopy, Target
<1>8. CASE Crash
  BY <1>8 DEF Crash, FreshCopy
<1>9. CASE UNCHANGED vars
  BY <1>9 DEF vars, FreshCopy, Target
<1> QED
  BY <1>1, <1>2, <1>3, <1>4, <1>5, <1>6, <1>7, <1>8, <1>9 DEF Next, Step

\* Every step of the code is a step of the atomic store, or invisible to it.
LEMMA StepIsAtomic ==
  ASSUME AtomicInv, [Next]_vars
  PROVE  [Store!Next]_(Store!vars)
<1> USE DEF Store!vars
<1>0. Inv /\ TypeOK
  BY DEF AtomicInv, Inv
<1>a. ASSUME NEW r \in Request, NEW code \in {401, 422, 500}, pc[r] # "idle",
             Answer(r, code), UNCHANGED classes
      PROVE  Store!Refuse(r)
  <2>1. input[r] # NoInput
    BY <1>0, <1>a, NoInputAssumption DEF Inv, RequestOK
  <2>2. Store!Close(r, code)
    BY <1>a DEF Answer, Store!Close
  <2> QED BY <1>a, <2>1, <2>2 DEF Store!Refuse
<1>1. ASSUME NEW r \in Request, NEW i \in Input, Receive(r, i)
      PROVE  Store!Ask(r, i) /\ i \in Store!Input
  BY <1>0, <1>1 DEF Receive, Store!Ask, Inv, RequestOK, Input, CreateInput, UpdateInput,
                    Store!Input, Store!CreateInput, Store!UpdateInput
<1>2. ASSUME NEW r \in Request, TurnAway(r) PROVE Store!TurnAway(r) \/ UNCHANGED Store!vars
  BY <1>0, <1>2 DEF TurnAway, Store!TurnAway, Inv, RequestOK
<1>3. ASSUME NEW r \in Request, Validate(r) \/ Deny(r)
      PROVE  Store!Refuse(r) \/ UNCHANGED Store!vars
  BY <1>3, <1>a DEF Validate, Deny
<1>4. ASSUME NEW r \in Request, Insert(r)
      PROVE  Store!Refuse(r) \/ \E c \in ClassID : Store!Create(r, c)
  <2> DEFINE row == NewClass(input[r])
  <2>1. /\ input[r] \in Store!CreateInput /\ input[r].role = Admin
        /\ row = Store!NewClass(input[r]) /\ Store!WellFormed(row)
    BY <1>0, <1>4, InputFields, NewClassWellFormed
       DEF Insert, Inv, RequestOK, Allowed, CreateInput, Store!CreateInput, NewClass,
           Store!NewClass, WellFormed, Store!WellFormed, ValidGrade, Store!ValidGrade
  <2>2. CASE Answer(r, 500) /\ UNCHANGED classes
    BY <1>4, <2>2, <1>a DEF Insert
  <2>3. ASSUME NEW c \in ClassID \ used, ~IndexRefuses(row.name, c),
               classes' = [classes EXCEPT ![c] = row],
               NEW code \in {201, 500}, Answer(r, code)
        PROVE  Store!Create(r, c)
    <3>1. classes[c] = NoRow
      BY <1>0, <2>3 DEF Inv, RowsUsed
    <3>2. ~Store!NameTaken(classes, row.name, c)
      BY <2>3 DEF IndexRefuses, NameTaken, Store!NameTaken
    <3> HIDE DEF row
    <3> QED BY <2>1, <2>3, <3>1, <3>2 DEF Store!Create, Answer, Store!Close
  <2> QED BY <1>4, <2>2, <2>3 DEF Insert
<1>5. ASSUME NEW r \in Request, Find(r) PROVE Store!Refuse(r) \/ UNCHANGED Store!vars
  <2>1. pc[r] # "idle" /\ UNCHANGED classes
    BY <1>5 DEF Find
  <2>2. CASE \E code \in {401, 422, 500} : Answer(r, code)
    BY <2>1, <2>2, <1>a
  <2>3. CASE UNCHANGED <<input, status>>
    BY <2>1, <2>3
  <2> QED BY <1>5, <2>2, <2>3 DEF Find
<1>6. ASSUME NEW r \in Request, Save(r)
      PROVE  Store!Update(r) \/ Store!UpdateNothing(r) \/ Store!Refuse(r)
  <2> DEFINE c == Target(r)
             row == entity[r]
  <2>1. /\ input[r] \in Store!UpdateInput /\ input[r].role = Admin
        /\ c \in ClassID /\ pc[r] # "idle"
    <3>1. input[r] \in Input /\ input[r].op = "update" /\ Allowed(input[r]) /\ c \in used
      BY <1>0, <1>6 DEF Save, Inv, RequestOK
    <3> QED BY <1>0, <1>6, <3>1, InputFields
            DEF Save, TypeOK, Allowed, UpdateInput, Store!UpdateInput
  <2>2. Store!WellFormed(row) /\ c = CanonID[input[r].path]
    BY <1>0, <1>6 DEF Save, Inv, RequestOK, WellFormed, Store!WellFormed, ValidGrade,
                      Store!ValidGrade, Target
  <2>3. CASE Answer(r, 500) /\ UNCHANGED classes
    BY <2>1, <2>3, <1>a
  <2>4. CASE classes[c] = NoRow /\ Answer(r, 200) /\ UNCHANGED classes
    BY <2>1, <2>2, <2>4 DEF Store!UpdateNothing, Answer, Store!Close
  <2>5. ASSUME classes[c] # NoRow, ~IndexRefuses(row.name, c),
               classes' = [classes EXCEPT ![c] = row],
               NEW code \in {200, 500}, Answer(r, code)
        PROVE  Store!Update(r)
    <3>1. row = Store!Merge(classes[c], input[r])
      BY <1>6, <2>5 DEF Save, AtomicInv, FreshCopy, Merge, Store!Merge
    <3>2. ~Store!NameTaken(classes, row.name, c)
      BY <2>5 DEF IndexRefuses, NameTaken, Store!NameTaken
    <3> HIDE DEF row
    <3> QED BY <2>1, <2>2, <2>5, <3>1, <3>2 DEF Store!Update, Answer, Store!Close
  <2> QED BY <1>6, <2>3, <2>4, <2>5 DEF Save, UpdateRow
<1>7. ASSUME NEW c \in ClassID, Remove(c) PROVE Store!Remove(c)
  BY <1>7 DEF Remove, Store!Remove
<1>8. ASSUME Crash PROVE Store!Lose
  BY <1>8 DEF Crash, Store!Lose
<1>9. CASE UNCHANGED vars
  BY <1>9 DEF vars
<1> QED
  BY <1>1, <1>2, <1>3, <1>4, <1>5, <1>6, <1>7, <1>8, <1>9 DEF Next, Step, Store!Next

LEMMA AtomicInvariance == Spec /\ []OneUpdate => []AtomicInv
<1>1. AtomicInv /\ OneUpdate' /\ [Next]_vars => AtomicInv'
  BY CopiesStayFresh, NextInv DEF AtomicInv
<1> QED BY <1>1, InitAtomic, PTL DEF Spec

\* POST and PUT implement the atomic store they promise in every behaviour in
\* which no two updates of one class are open at a time, whatever the clients
\* do otherwise, and whatever fails or crashes.
THEOREM AtomicWhileUpdatesAreApart == Spec /\ []OneUpdate => AtomicStore
<1>1. Init => Store!Init
  BY DEF Init, Store!Init
<1>2. AtomicInv /\ [Next]_vars => [Store!Next]_(Store!vars)
  BY StepIsAtomic
<1> QED BY <1>1, <1>2, AtomicInvariance, PTL DEF Spec, AtomicStore, Store!Spec

\* POST and PUT implement the atomic store they promise, if clients do not
\* update one class twice at a time.
THEOREM AtomicWhenUpdatesDoNotOverlap ==
  ASSUME Overlap = FALSE
  PROVE  Spec => AtomicStore
<1>1. Init => OneUpdate
  BY DEF Init, OneUpdate
<1>2. Inv /\ OneUpdate /\ [Next]_vars => OneUpdate'
  BY UpdatesStayApart
<1>3. Spec => []OneUpdate
  BY <1>1, <1>2, Invariance, PTL DEF Spec
<1> QED BY <1>3, AtomicWhileUpdatesAreApart, PTL

-----------------------------------------------------------------------------
\* What stands behind Answered.

\* How many steps a request still makes at most.
StepsLeft == [idle |-> 0, save |-> 1, usecase |-> 2, validate |-> 3]

\* A request comes closer to its answer with every step of its own, and nothing
\* sends it back: a name that is taken, a row that is gone and a statement that
\* fails end it, and none is tried again.
THEOREM RequestsDescend ==
  Spec => [][\A r \in Request : pc[r] # "idle" =>
               /\ StepsLeft[pc'[r]] <= StepsLeft[pc[r]]
               /\ Step(r) => StepsLeft[pc'[r]] < StepsLeft[pc[r]]]_vars
<1> DEFINE Down(r) == StepsLeft[pc'[r]] < StepsLeft[pc[r]]
           Label == {"idle", "validate", "usecase", "save"}
<1> USE DEF Inv, TypeOK
<1>1. ASSUME Inv, NEW r \in Request, NEW l, Goto(r, l)
      PROVE  pc'[r] = l /\ \A s \in Request : s # r => pc'[s] = pc[s]
  BY <1>1 DEF Goto
<1>2. ASSUME Inv, NEW r \in Request, Step(r) PROVE Down(r) /\ \E l : Goto(r, l)
  <2>1. CASE Goto(r, "idle")
    <3>1. pc[r] \in {"validate", "usecase", "save"}
      BY <1>2 DEF Step, Validate, Deny, Insert, Find, Save
    <3> QED BY <1>1, <1>2, <2>1, <3>1 DEF StepsLeft
  <2>2. CASE \/ pc[r] = "validate" /\ Goto(r, "usecase")
             \/ pc[r] = "usecase" /\ Goto(r, "save")
    BY <1>1, <1>2, <2>2 DEF StepsLeft
  <2> QED BY <1>2, <2>1, <2>2 DEF Step, Validate, Deny, Insert, Find, Save, Answer
<1>3. ASSUME Inv, Inv', [Next]_vars, NEW r \in Request, pc[r] # "idle"
      PROVE  StepsLeft[pc'[r]] <= StepsLeft[pc[r]] /\ (Step(r) => Down(r))
  <2>1. /\ pc[r] \in Label /\ pc'[r] \in Label
        /\ \A l \in Label : StepsLeft[l] \in Nat /\ StepsLeft["idle"] <= StepsLeft[l]
    BY <1>3 DEF StepsLeft
  <2>2. CASE Step(r)
    BY <1>2, <1>3, <2>1, <2>2
  <2>3. CASE pc'[r] = pc[r]
    BY <1>2, <1>3, <2>1, <2>3
  <2>4. CASE Crash
    BY <1>2, <1>3, <2>1, <2>4 DEF Crash
  <2>5. ASSUME NEW s \in Request, s # r, Step(s) PROVE pc'[r] = pc[r]
    BY <1>1, <1>2, <1>3, <2>5
  <2>6. ASSUME NEW s \in Request, (\E i \in Input : Receive(s, i)) \/ TurnAway(s)
        PROVE  pc'[r] = pc[r]
    BY <1>1, <1>3, <2>6 DEF Receive, TurnAway
  <2>7. CASE UNCHANGED vars \/ \E c \in ClassID : Remove(c)
    BY <2>3, <2>7 DEF Remove, vars
  <2> QED BY <1>3, <2>2, <2>3, <2>4, <2>5, <2>6, <2>7 DEF Next
<1>4. Inv /\ Inv' /\ [Next]_vars =>
        [\A r \in Request : pc[r] # "idle" =>
           /\ StepsLeft[pc'[r]] <= StepsLeft[pc[r]]
           /\ Step(r) => Down(r)]_vars
  BY <1>3
<1> QED BY <1>4, Invariance, PTL DEF Spec

=============================================================================
