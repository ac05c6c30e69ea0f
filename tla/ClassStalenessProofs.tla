------------------------ MODULE ClassStalenessProofs ------------------------
(***************************************************************************)
(* What overlapping updates of one class may do to each other at worst.    *)
(* They are no atomic store (a rename can be lost), but none undoes more   *)
(* than what happened while it was open itself.  A history variable added  *)
(* to ClassWrite says what there was to see.                               *)
(***************************************************************************)
EXTENDS ClassWriteProofs

VARIABLE bases  \* bases[r]: what the row of an open update was since it arrived

hvars == <<vars, bases>>

Updates(r) == pc[r] # "idle" /\ input[r].op = "update" /\ Target(r) \in ClassID

Observe ==
  bases' = [r \in Request |->
              IF Updates(r)' THEN bases[r] \cup {classes'[Target(r)']} ELSE {}]

HInit == Init /\ bases = [r \in Request |-> {}]
HSpec == HInit /\ [][Next /\ Observe]_hvars

\* The variable only watches.
LEMMA HistoryWatches == HSpec => Spec
<1>1. [Next /\ Observe]_hvars => [Next]_vars
  BY DEF hvars
<1> QED BY <1>1, PTL DEF HSpec, HInit, Spec

\* The row as it is belongs to what an open update may have seen, and a copy was
\* made of one row that it may have seen.
Watched == \A r \in Request : Updates(r) => classes[Target(r)] \in bases[r]
CopyOf(r, row) == row # NoRow /\ entity[r] = Merge(row, input[r])
Copied == \A r \in Request : pc[r] = "save" => \E row \in bases[r] : CopyOf(r, row)

\* What was there to see stays so as long as the request is open.
LEMMA BasesGrow ==
  ASSUME Observe, NEW r \in Request, UNCHANGED <<pc[r], input[r]>>, Updates(r)
  PROVE  bases[r] \subseteq bases'[r]
BY DEF Observe, Updates, Target

LEMMA SaveUpdates ==
  ASSUME Inv, NEW r \in Request, pc[r] = "save" PROVE Updates(r)
<1>1. input[r] \in Input /\ input[r].op = "update" /\ Allowed(input[r])
  BY DEF Inv, RequestOK
<1>2. CanonID[input[r].path] \in ClassID
  BY <1>1, InputFields, IDAssumption DEF Allowed
<1> QED BY <1>1, <1>2 DEF Updates, Target

LEMMA NextWatched ==
  ASSUME Observe PROVE Watched'
BY DEF Observe, Watched

\* A copy that was made before the step, of a request that the step leaves alone.
LEMMA CopyKept ==
  ASSUME Inv, Copied, Observe, NEW r \in Request, pc[r] = "save",
         UNCHANGED <<pc[r], input[r], entity[r]>>
  PROVE  \E row \in bases'[r] : CopyOf(r, row)'
<1>1. PICK row \in bases[r] : CopyOf(r, row)
  BY DEF Copied
<1>2. row \in bases'[r]
  BY <1>1, SaveUpdates, BasesGrow
<1> QED BY <1>1, <1>2 DEF CopyOf

LEMMA NextCopied ==
  ASSUME Inv, Watched, Copied, [Next /\ Observe]_hvars PROVE Copied'
<1> USE DEF Inv, TypeOK
<1>1. CASE UNCHANGED hvars
  BY <1>1 DEF hvars, vars, Copied, CopyOf
<1> SUFFICES ASSUME Next, Observe, NEW r \in Request, pc'[r] = "save"
             PROVE  \E row \in bases'[r] : CopyOf(r, row)'
  BY <1>1 DEF Copied
<1>2. CASE UNCHANGED <<pc[r], input[r], entity[r]>>
  <2>1. pc[r] = "save"
    BY <1>2
  <2> QED BY <1>2, <2>1, CopyKept
<1>3. CASE Find(r)
  <2>1. /\ classes[Target(r)] # NoRow /\ pc[r] = "usecase"
        /\ entity' = [entity EXCEPT ![r] = Merge(classes[Target(r)], input[r])]
        /\ UNCHANGED <<classes, input>> /\ input[r].op = "update" /\ Allowed(input[r])
    BY <1>3 DEF Find, Answer, Goto
  <2>2. Updates(r)' /\ Target(r)' = Target(r)
    <3>1. Target(r) \in ClassID
      BY <2>1, InputFields, IDAssumption DEF RequestOK, Allowed, Target
    <3> QED BY <2>1, <3>1 DEF Updates, Target
  <2>3. classes[Target(r)] \in bases'[r]
    BY <2>1, <2>2 DEF Observe
  <2>4. entity'[r] = Merge(classes[Target(r)], input'[r])
    BY <2>1
  <2> QED BY <2>1, <2>3, <2>4 DEF CopyOf
<1>4. ASSUME NEW s \in Request, s # r, Step(s)
      PROVE  UNCHANGED <<pc[r], input[r], entity[r]>>
  BY <1>4 DEF Step, Validate, Deny, Insert, Find, Save, Answer, Goto
<1>5. ~(Validate(r) \/ Deny(r) \/ Insert(r) \/ Save(r))
  BY DEF Validate, Deny, Insert, Save, Answer, Goto
<1>6. ASSUME NEW s \in Request, (\E i \in Input : Receive(s, i)) \/ TurnAway(s)
      PROVE  UNCHANGED <<pc[r], input[r], entity[r]>>
  BY <1>6 DEF Receive, TurnAway, Goto
<1>7. ASSUME NEW c \in ClassID, Remove(c) PROVE UNCHANGED <<pc[r], input[r], entity[r]>>
  BY <1>7 DEF Remove
<1>8. ~Crash
  BY DEF Crash
<1> QED BY <1>2, <1>3, <1>4, <1>5, <1>6, <1>7, <1>8 DEF Next, Step

\* An update changes its row to one whose carried fields are those of the request
\* and whose other fields are, together, those of the row at one moment since the
\* request arrived: however many updates of the class overlap, with failures and
\* restarts, none brings back what was overwritten before it was sent, and none
\* mixes the fields of rows of two moments.
UpdatesAreRecent ==
  [][\A r \in Request :
       LET new == classes'[Target(r)] IN
       pc[r] = "save" /\ pc'[r] = "idle" /\ new # classes[Target(r)] /\ new # NoRow =>
         \E row \in bases[r] \ {NoRow} :
           /\ new.name = IF input[r].name = Blank THEN row.name ELSE Trim[input[r].name]
           /\ new.grade = IF input[r].grade = NoGrade THEN row.grade ELSE input[r].grade]_hvars

\* The promise that is left of TC-022 of GS-003 when updates overlap: it is the
\* other updates in flight that an update may undo, and nothing else.
THEOREM OverlapsUndoNothingOlder == HSpec => UpdatesAreRecent
<1> DEFINE New(r) == classes'[Target(r)]
           Recent(r) ==
             \E row \in bases[r] \ {NoRow} :
               /\ New(r).name = IF input[r].name = Blank THEN row.name ELSE Trim[input[r].name]
               /\ New(r).grade = IF input[r].grade = NoGrade THEN row.grade ELSE input[r].grade
<1>1. HInit => Copied /\ Watched
  BY DEF HInit, Init, Copied, Watched, Updates
<1>2. Inv /\ Copied /\ Watched /\ [Next /\ Observe]_hvars => Copied' /\ Watched'
  <2>1. UNCHANGED hvars /\ Watched => Watched'
    BY DEF hvars, vars, Watched, Updates, Target
  <2> QED BY <2>1, NextCopied, NextWatched
<1>3. ASSUME Inv, Copied, [Next /\ Observe]_hvars, NEW r \in Request,
             pc[r] = "save", pc'[r] = "idle", New(r) # classes[Target(r)], New(r) # NoRow
      PROVE  Recent(r)
  <2>1. TypeOK /\ Target(r) \in ClassID
    BY <1>3, SaveUpdates DEF Inv, Updates
  <2>2. \A s \in Request : s # r => ~(Insert(s) \/ Save(s))
    BY <1>3, <2>1 DEF Insert, Save, Answer, Goto, TypeOK
  <2>3. \A c \in ClassID : ~Remove(c)
    BY <1>3 DEF Remove
  <2>4. Save(r)
    BY <1>3, <2>2, <2>3
       DEF Next, Step, hvars, vars, Receive, TurnAway, Validate, Deny, Find, Insert, Crash
  <2>5. New(r) = entity[r]
    BY <1>3, <2>1, <2>4 DEF Save, UpdateRow, TypeOK
  <2>6. PICK row \in bases[r] : CopyOf(r, row)
    BY <1>3 DEF Copied
  <2> QED BY <2>5, <2>6 DEF CopyOf, Merge
<1>4. Inv /\ Copied /\ [Next /\ Observe]_hvars =>
        [\A r \in Request :
           pc[r] = "save" /\ pc'[r] = "idle" /\ New(r) # classes[Target(r)] /\ New(r) # NoRow
             => Recent(r)]_hvars
  BY <1>3
<1> QED BY <1>1, <1>2, <1>4, HistoryWatches, Invariance, PTL DEF HSpec, UpdatesAreRecent

=============================================================================
