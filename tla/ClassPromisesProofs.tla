------------------------ MODULE ClassPromisesProofs ------------------------
(***************************************************************************)
(* The sentences of the documentation that ClassWrite violates, each with  *)
(* the conditions under which it is true after all: what clients or the    *)
(* database would have to do for the code to keep its promise.             *)
(***************************************************************************)
EXTENDS ClassWriteProofs

-----------------------------------------------------------------------------
\* A name survives an update of the grade.

\* TC-022 of GS-003: an update that carries only a grade leaves the name as it
\* is, in every behaviour in which no two updates of one class are open at a
\* time.  Failing statements, crashes and operators do not matter.
THEOREM RenamesSurvive == Spec /\ []OneUpdate => GradeUpdateKeepsName
<1>1. ASSUME AtomicInv, [Next]_vars, NEW r \in Request,
             pc[r] = "save", pc'[r] = "idle", input[r].name = Blank,
             classes[Target(r)] # NoRow
      PROVE  classes'[Target(r)].name = classes[Target(r)].name
  <2>1. TypeOK
    BY <1>1 DEF AtomicInv, Inv
  <2>2. CASE UNCHANGED classes
    BY <2>2
  <2>3. ASSUME Save(r) PROVE classes'[Target(r)].name = classes[Target(r)].name
    <3>1. entity[r] = Merge(classes[Target(r)], input[r])
      BY <1>1 DEF AtomicInv, FreshCopy
    <3>2. entity[r].name = classes[Target(r)].name
      BY <1>1, <3>1 DEF Merge
    <3> QED BY <1>1, <2>1, <2>3, <3>2 DEF Save, UpdateRow, TypeOK
  <2>4. \A s \in Request : s # r => ~(Insert(s) \/ Save(s))
    BY <1>1, <2>1 DEF Insert, Save, Answer, Goto, TypeOK
  <2>5. ~Insert(r) /\ \A c \in ClassID : ~Remove(c)
    BY <1>1 DEF Insert, Remove
  <2> QED
    BY <1>1, <2>2, <2>3, <2>4, <2>5
       DEF Next, Step, vars, Receive, TurnAway, Validate, Deny, Find, Crash
<1>2. AtomicInv /\ [Next]_vars =>
        [\A r \in Request :
           pc[r] = "save" /\ pc'[r] = "idle" /\ input[r].name = Blank
           /\ classes[Target(r)] # NoRow
           => classes'[Target(r)].name = classes[Target(r)].name]_vars
  BY <1>1
<1> QED BY <1>2, AtomicInvariance, PTL DEF Spec, GradeUpdateKeepsName

-----------------------------------------------------------------------------
\* A class's own name is no duplicate.

\* Clients write an id in no other way than the server does.
CanonicalPaths == \A p \in PathID : CanonID[p] # BadID => p \in ClassID

Unanswered == \A r \in Request : pc[r] # "idle" => status[r] = 0

LEMMA NextUnanswered ==
  ASSUME Inv, Unanswered, [Next]_vars PROVE Unanswered'
<1>0. TypeOK
  BY DEF Inv
<1>1. ASSUME NEW r \in Request, (\E i \in Input : Receive(r, i)) \/ TurnAway(r)
      PROVE  Unanswered'
  BY <1>0, <1>1 DEF Receive, TurnAway, Goto, TypeOK, Unanswered
<1>2. ASSUME NEW r \in Request, NEW code \in {200, 201, 401, 422, 500}, Answer(r, code)
      PROVE  Unanswered'
  BY <1>0, <1>2 DEF Answer, Goto, TypeOK, Unanswered
<1>3. ASSUME NEW r \in Request, NEW l \in {"usecase", "save"}, pc[r] # "idle", Goto(r, l),
             UNCHANGED status
      PROVE  Unanswered'
  BY <1>0, <1>3 DEF Goto, TypeOK, Unanswered
<1>4. ASSUME NEW r \in Request, Step(r) PROVE Unanswered'
  BY <1>2, <1>3, <1>4 DEF Step, Validate, Deny, Insert, Find, Save
<1>5. CASE Crash \/ UNCHANGED vars \/ \E c \in ClassID : Remove(c)
  BY <1>5 DEF Crash, vars, Remove, Unanswered
<1> QED BY <1>1, <1>4, <1>5 DEF Next

\* TC-062 of GS-003: unique_in does not take a class's own name for a
\* duplicate, if ids are spelled as the server spells them and no statement
\* fails.  Any number of requests may be open.
THEOREM OwnNameStaysFree ==
  ASSUME ~Failures, CanonicalPaths
  PROVE  Spec => OwnNameAccepted
<1>1. Init => Unanswered
  BY DEF Init, Unanswered
<1>2. Inv /\ Unanswered /\ [Next]_vars => Unanswered'
  BY NextUnanswered
<1>3. ASSUME Inv, Unanswered, [Next]_vars, NEW r \in Request,
             pc[r] = "validate", input[r].op = "update", FieldsOk(input[r]),
             Target(r) \in ClassID, classes[Target(r)] # NoRow,
             classes[Target(r)].name = input[r].name
      PROVE  status'[r] # 422
  <2>1. TypeOK /\ status[r] = 0
    BY <1>3 DEF Inv, Unanswered
  <2>2. input[r].path = Target(r)
    <3>1. input[r].path \in PathID
      BY <1>3, InputFields DEF Inv, RequestOK
    <3> QED BY <1>3, <3>1, IDAssumption DEF CanonicalPaths, Target
  <2>3. Unique(input[r])
    BY <1>3, <2>2 DEF Unique, NameTaken, Inv, UniqueNames
  <2>4. ASSUME Validate(r) PROVE status'[r] # 422
    BY <1>3, <2>1, <2>3, <2>4 DEF Validate
  <2>5. ASSUME NEW s \in Request, NEW code, s # r, Answer(s, code)
        PROVE  status'[r] = 0
    BY <2>1, <2>5 DEF Answer, TypeOK
  <2>6. ASSUME NEW s \in Request, s # r, Step(s) PROVE status'[r] = 0
    BY <2>1, <2>5, <2>6 DEF Step, Validate, Deny, Insert, Find, Save
  <2>7. ~(Deny(r) \/ Insert(r) \/ Find(r) \/ Save(r))
    BY <1>3 DEF Deny, Insert, Find, Save
  <2>8. ASSUME NEW s \in Request, (\E i \in Input : Receive(s, i)) \/ TurnAway(s)
        PROVE  status'[r] = 0
    BY <1>3, <2>1, <2>8 DEF Receive, TurnAway, TypeOK
  <2>9. CASE Crash \/ UNCHANGED vars \/ \E c \in ClassID : Remove(c)
    BY <2>1, <2>9 DEF Crash, vars, Remove
  <2> QED BY <1>3, <2>4, <2>6, <2>7, <2>8, <2>9 DEF Next, Step
<1>4. Inv /\ Unanswered /\ [Next]_vars =>
        [\A r \in Request :
           /\ pc[r] = "validate" /\ input[r].op = "update" /\ FieldsOk(input[r])
           /\ Target(r) \in ClassID /\ classes[Target(r)] # NoRow
           /\ classes[Target(r)].name = input[r].name
           => status'[r] # 422]_vars
  BY <1>3
<1> QED BY <1>1, <1>2, <1>4, Invariance, PTL DEF Spec, OwnNameAccepted

-----------------------------------------------------------------------------
\* A duplicate name is found by the validator, and not by the unique index.

\* Clients take turns.
OneAtATime == \A r, s \in Request : pc[r] # "idle" /\ pc[s] # "idle" => r = s

\* Names arrive as they are stored, or blank.
TrimmedNames == \A n \in RawName : Trim[n] \in {n, Blank}

\* What unique_in found out about a name is still so at the write.
NamesStayFree ==
  \A r \in Request :
    /\ pc[r] = "usecase" => Unique(input[r])
    /\ pc[r] = "save" => \/ classes[Target(r)] = NoRow
                         \/ ~NameTaken(classes, entity[r].name, Target(r))

\* A path that is no canonical id excludes no row from unique_in's count.
LEMMA UniqueIsEnough ==
  ASSUME NEW i \in Input, Unique(i), CanonID[i.path] # BadID
  PROVE  ~NameTaken(classes, i.name, CanonID[i.path])
<1>1. i.path \in ClassID => CanonID[i.path] = i.path
  BY IDAssumption
<1> QED BY <1>1 DEF Unique, NameTaken

\* A removed row takes no name.
LEMMA FreeAfterRemoval ==
  ASSUME TypeOK, NEW c \in ClassID, Remove(c), NEW n, NEW d, ~NameTaken(classes, n, d)
  PROVE  ~NameTaken(classes', n, d)
BY DEF TypeOK, Remove, NameTaken

LEMMA NextNamesStayFree ==
  ASSUME ~Failures, TrimmedNames, Inv, OneAtATime, NamesStayFree, DuplicateIs422,
         [Next]_vars
  PROVE  NamesStayFree' /\ DuplicateIs422'
<1> USE DEF NamesStayFree, DuplicateIs422
<1>0. TypeOK
  BY DEF Inv
<1>a. ASSUME NEW r \in Request, pc[r] # "idle",
             NEW code \in {200, 201, 401, 422}, Answer(r, code)
      PROVE  NamesStayFree' /\ DuplicateIs422'
  <2>1. \A s \in Request : pc'[s] = "idle"
    BY <1>0, <1>a DEF Answer, Goto, TypeOK, OneAtATime
  <2>2. DuplicateIs422'
    BY <1>0, <1>a DEF Answer, TypeOK
  <2> QED BY <2>1, <2>2
<1>1. ASSUME NEW r \in Request, NEW i \in Input, Receive(r, i)
      PROVE  NamesStayFree' /\ DuplicateIs422'
  BY <1>0, <1>1 DEF Receive, Goto, TypeOK, Unique, NameTaken, Target
<1>2. ASSUME NEW r \in Request, TurnAway(r) PROVE NamesStayFree' /\ DuplicateIs422'
  BY <1>0, <1>2 DEF TurnAway, TypeOK, Unique, NameTaken, Target
<1>3. ASSUME NEW r \in Request, Validate(r) PROVE NamesStayFree' /\ DuplicateIs422'
  <2>1. CASE Answer(r, 422)
    BY <1>3, <1>a, <2>1 DEF Validate
  <2>2. CASE /\ Unique(input[r]) /\ Goto(r, "usecase")
             /\ UNCHANGED <<input, entity, status>>
    BY <1>0, <1>3, <2>2 DEF Validate, Goto, TypeOK, Unique, NameTaken, Target
  <2> QED BY <1>3, <2>1, <2>2 DEF Validate
<1>4. ASSUME NEW r \in Request, Deny(r) PROVE NamesStayFree' /\ DuplicateIs422'
  BY <1>4, <1>a DEF Deny
<1>5. ASSUME NEW r \in Request, Insert(r) PROVE NamesStayFree' /\ DuplicateIs422'
  <2>1. /\ input[r] \in Input /\ input[r].op = "create" /\ FieldsOk(input[r])
        /\ Unique(input[r])
    BY <1>5 DEF Insert, Inv, RequestOK
  <2>2. input[r].path = BadID /\ input[r].name \in RawName
    BY <2>1, InputFields
  <2>3. NewClass(input[r]).name = input[r].name
    BY <2>1, <2>2 DEF NewClass, TrimmedNames, FieldsOk, ValidName
  <2>4. ~IndexRefuses(NewClass(input[r]).name, BadID)
    BY <2>1, <2>2, <2>3 DEF IndexRefuses, Unique
  <2>5. Answer(r, 201)
    BY <1>5, <2>4 DEF Insert
  <2> QED BY <1>5, <1>a, <2>5 DEF Insert
<1>6. ASSUME NEW r \in Request, Find(r) PROVE NamesStayFree' /\ DuplicateIs422'
  <2>1. CASE \E code \in {401, 422} : Answer(r, code)
    BY <1>6, <1>a, <2>1 DEF Find
  <2>2. CASE /\ classes[Target(r)] # NoRow
             /\ ~(input[r].name # Blank /\ ~ValidName(input[r].name))
             /\ Goto(r, "save")
             /\ entity' = [entity EXCEPT ![r] = Merge(classes[Target(r)], input[r])]
             /\ UNCHANGED <<input, status>>
    <3>1. /\ input[r] \in Input /\ Unique(input[r]) /\ input[r].op = "update"
          /\ Allowed(input[r]) /\ UNCHANGED classes
      BY <1>6 DEF Find, Inv, RequestOK
    <3>2. Target(r) \in ClassID /\ input[r].name \in RawName /\ Target(r) # BadID
      BY <3>1, InputFields, IDAssumption DEF Target, Allowed
    <3>3. ~NameTaken(classes, input[r].name, Target(r))
      BY <3>1, <3>2, UniqueIsEnough DEF Target
    <3>4. ~NameTaken(classes, classes[Target(r)].name, Target(r))
      BY <2>2, <3>2 DEF Inv, UniqueNames, NameTaken
    <3>5. Merge(classes[Target(r)], input[r]).name
            \in {classes[Target(r)].name, input[r].name}
      BY <2>2, <3>2 DEF Merge, TrimmedNames, ValidName
    <3>6. /\ entity'[r] = Merge(classes[Target(r)], input[r])
          /\ pc'[r] = "save" /\ UNCHANGED <<classes, input, status>>
      BY <1>0, <2>2, <3>1 DEF Goto, TypeOK
    <3>7. \A s \in Request : s # r => pc'[s] = "idle"
      BY <1>0, <1>6, <2>2 DEF Find, Goto, TypeOK, OneAtATime
    <3>8. ~NameTaken(classes', entity'[r].name, Target(r)')
      <4>1. ~NameTaken(classes, entity'[r].name, Target(r))
        BY <3>3, <3>4, <3>5, <3>6
      <4> QED BY <3>6, <4>1 DEF Target, NameTaken
    <3> QED BY <3>6, <3>7, <3>8
  <2> QED BY <1>6, <2>1, <2>2 DEF Find
<1>7. ASSUME NEW r \in Request, Save(r) PROVE NamesStayFree' /\ DuplicateIs422'
  <2>1. Answer(r, 200)
    BY <1>7 DEF Save, IndexRefuses
  <2> QED BY <1>7, <1>a, <2>1 DEF Save
<1>8. ASSUME NEW c \in ClassID, Remove(c) PROVE NamesStayFree' /\ DuplicateIs422'
  <2>1. UNCHANGED <<pc, input, entity, status>>
    BY <1>8 DEF Remove
  <2>2. ASSUME NEW s \in Request, pc[s] = "usecase" PROVE Unique(input[s])'
    BY <1>0, <1>8, <2>1, <2>2, FreeAfterRemoval DEF Unique
  <2>3. ASSUME NEW s \in Request, pc[s] = "save"
        PROVE  \/ classes'[Target(s)'] = NoRow
               \/ ~NameTaken(classes', entity'[s].name, Target(s)')
    <3>1. CASE classes[Target(s)] = NoRow
      BY <1>0, <1>8, <2>1, <3>1 DEF Remove, TypeOK, Target
    <3>2. CASE ~NameTaken(classes, entity[s].name, Target(s))
      <4>1. ~NameTaken(classes', entity[s].name, Target(s))
        BY <1>0, <1>8, <3>2, FreeAfterRemoval
      <4> QED BY <2>1, <4>1 DEF Target, NameTaken
    <3> QED BY <2>3, <3>1, <3>2
  <2> QED BY <2>1, <2>2, <2>3
<1>9. CASE UNCHANGED vars
  BY <1>9 DEF vars, Unique, NameTaken, Target
<1> QED
  BY <1>1, <1>2, <1>3, <1>4, <1>5, <1>6, <1>7, <1>8, <1>9 DEF Next, Step, Crash

\* TC-066 of GS-003: a duplicate name is answered 422 and never 500, if one
\* request is open at a time, names come without spaces around them and no
\* statement fails.  Ids may be spelled in any way.
THEOREM DuplicatesAre422 ==
  ASSUME ~Failures, TrimmedNames
  PROVE  Spec /\ []OneAtATime => []DuplicateIs422
<1>1. Init => NamesStayFree /\ DuplicateIs422
  BY DEF Init, NamesStayFree, DuplicateIs422
<1>2. /\ Inv /\ OneAtATime /\ NamesStayFree /\ DuplicateIs422 /\ [Next]_vars
      => NamesStayFree' /\ DuplicateIs422'
  BY NextNamesStayFree
<1> QED BY <1>1, <1>2, Invariance, PTL DEF Spec

=============================================================================
