----------------------------- MODULE ClassStore -----------------------------
(***************************************************************************)
(* What the class endpoints promise: POST and PUT act on the table as if   *)
(* each took effect at one moment between the request and its answer, and  *)
(* an update touches only the fields it carries.  A refused request has no *)
(* effect, a request that is answered 2xx has had its effect exactly once, *)
(* and after a 500, or no answer at all, the client does not know.         *)
(***************************************************************************)
EXTENDS ClassDomain

CONSTANT Request    \* the requests that may be open at one time

VARIABLES
  classes,  \* the table
  asked,    \* asked[r]: what r asks for, NoInput when r is not open
  answer    \* answer[r]: the last status code r got, 0 while it is open

vars == <<classes, asked, answer>>

Init ==
  /\ classes = [c \in ClassID |-> NoRow]
  /\ asked = [r \in Request |-> NoInput]
  /\ answer = [r \in Request |-> 0]

Close(r, code) ==
  /\ asked' = [asked EXCEPT ![r] = NoInput]
  /\ answer' = [answer EXCEPT ![r] = code]

\* A request arrives.
Ask(r, i) ==
  /\ asked[r] = NoInput
  /\ asked' = [asked EXCEPT ![r] = i]
  /\ answer' = [answer EXCEPT ![r] = 0]
  /\ UNCHANGED classes

\* A request without a token or with an unreadable body.
TurnAway(r) ==
  /\ asked[r] = NoInput
  /\ \E code \in {400, 401} : answer' = [answer EXCEPT ![r] = code]
  /\ UNCHANGED <<classes, asked>>

\* A create of an admin takes effect: a new row, under a name nobody has.
Create(r, c) ==
  /\ asked[r] \in CreateInput
  /\ asked[r].role = Admin
  /\ classes[c] = NoRow
  /\ WellFormed(NewClass(asked[r]))
  /\ ~NameTaken(classes, NewClass(asked[r]).name, c)
  /\ classes' = [classes EXCEPT ![c] = NewClass(asked[r])]
  /\ \E code \in {201, 500} : Close(r, code)

\* An update of an admin takes effect: only the fields it carries change.
Update(r) ==
  /\ asked[r] \in UpdateInput
  /\ asked[r].role = Admin
  /\ LET c == CanonID[asked[r].path] IN
       /\ c \in ClassID
       /\ classes[c] # NoRow
       /\ WellFormed(Merge(classes[c], asked[r]))
       /\ ~NameTaken(classes, Merge(classes[c], asked[r]).name, c)
       /\ classes' = [classes EXCEPT ![c] = Merge(classes[c], asked[r])]
  /\ \E code \in {200, 500} : Close(r, code)

\* The row was removed under an admin's update, which is answered 200.
UpdateNothing(r) ==
  /\ asked[r] \in UpdateInput
  /\ asked[r].role = Admin
  /\ CanonID[asked[r].path] \in ClassID
  /\ classes[CanonID[asked[r].path]] = NoRow
  /\ Close(r, 200)
  /\ UNCHANGED classes

\* A request is answered without effect.
Refuse(r) ==
  /\ asked[r] # NoInput
  /\ \E code \in {401, 422, 500} : Close(r, code)
  /\ UNCHANGED classes

\* A row is removed by the operators of the database.
Remove(c) ==
  /\ classes[c] # NoRow
  /\ classes' = [classes EXCEPT ![c] = NoRow]
  /\ UNCHANGED <<asked, answer>>

\* The server crashes: the open requests are lost, without effect or answer.
Lose ==
  /\ asked' = [r \in Request |-> NoInput]
  /\ UNCHANGED <<classes, answer>>

Next ==
  \/ \E r \in Request : \/ \E i \in Input : Ask(r, i)
                        \/ TurnAway(r)
                        \/ \E c \in ClassID : Create(r, c)
                        \/ Update(r)
                        \/ UpdateNothing(r)
                        \/ Refuse(r)
  \/ \E c \in ClassID : Remove(c)
  \/ Lose

Spec == Init /\ [][Next]_vars

=============================================================================
