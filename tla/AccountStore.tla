---------------------------- MODULE AccountStore ----------------------------
(***************************************************************************)
(* What the account endpoints promise: every request acts on the accounts  *)
(* at one moment between its arrival and its answer.  At that moment a     *)
(* sign-in earns the token that its account is entitled to, or a new       *)
(* account if the email has none; an answer hands out nothing but what was *)
(* earned.  A request that is answered 500, or lost, may have acted.       *)
(***************************************************************************)
EXTENDS Integers

CONSTANTS
  Request,  \* the requests that may be open at one time
  Input,    \* what a request may ask for
  UserID,   \* the ids of accounts
  Role, Student, Unset,  \* the roles, that of new users, and none
  NoRow, NoInput

VARIABLES
  accounts,  \* accounts[u]: the email and the role of u, or NoRow
  used,      \* the ids of all accounts there ever were
  tokens,    \* the tokens that are good
  asked,     \* what each request asks for, NoInput when it is not open
  earned,    \* the token an open sign-in has earned, or NoRow
  answer     \* the last status code a request got, 0 while it is open

vars == <<accounts, used, tokens, asked, earned, answer>>

Init ==
  /\ accounts = [u \in UserID |-> NoRow]
  /\ used = {}
  /\ tokens = {}
  /\ asked = [r \in Request |-> NoInput]
  /\ earned = [r \in Request |-> NoRow]
  /\ answer = [r \in Request |-> 0]

Open(r, op) == asked[r] # NoInput /\ asked[r].op = op

Close(r, code) ==
  /\ asked' = [asked EXCEPT ![r] = NoInput]
  /\ earned' = [earned EXCEPT ![r] = NoRow]
  /\ answer' = [answer EXCEPT ![r] = code]

Earn(r, token) ==
  /\ earned' = [earned EXCEPT ![r] = token]
  /\ UNCHANGED <<asked, answer>>

\* A request arrives, or is turned away at once.
Ask(r, i) ==
  /\ asked[r] = NoInput
  /\ asked' = [asked EXCEPT ![r] = i]
  /\ answer' = [answer EXCEPT ![r] = 0]
  /\ UNCHANGED <<accounts, used, tokens, earned>>

TurnAway(r) ==
  /\ asked[r] = NoInput
  /\ answer' = [answer EXCEPT ![r] = 400]
  /\ UNCHANGED <<accounts, used, tokens, asked, earned>>

\* A sign-in takes effect on the account of its email.
SignIn(r, u) ==
  /\ Open(r, "google") /\ earned[r] = NoRow
  /\ accounts[u] # NoRow /\ accounts[u].email = asked[r].email
  /\ LET role == accounts[u].role IN
       Earn(r, [user |-> u, role |-> IF role = Unset THEN Student ELSE role])
  /\ UNCHANGED <<accounts, used, tokens>>

\* A new account, with a new id, under an email that has none.
Add(u, email, role) ==
  /\ u \notin used
  /\ \A v \in UserID : accounts[v] # NoRow => accounts[v].email # email
  /\ accounts' = [accounts EXCEPT ![u] = [email |-> email, role |-> role]]
  /\ used' = used \cup {u}
  /\ UNCHANGED tokens

SignUp(r, u) ==
  /\ Open(r, "google") /\ earned[r] = NoRow
  /\ Add(u, asked[r].email, Student)
  /\ Earn(r, [user |-> u, role |-> Student]) \/ Close(r, 500)

Create(r, u) ==
  /\ Open(r, "create")
  /\ Add(u, asked[r].email, Unset)
  /\ \E code \in {201, 500} : Close(r, code)

\* A sign-in is answered with what it has earned.
Issue(r) ==
  /\ earned[r] # NoRow
  /\ tokens' = tokens \cup {earned[r]}
  /\ Close(r, 200)
  /\ UNCHANGED <<accounts, used>>

Delete(r) ==
  /\ Open(r, "delete")
  /\ accounts[asked[r].id] # NoRow
  /\ accounts' = [accounts EXCEPT ![asked[r].id] = NoRow]
  /\ \E code \in {204, 500} : Close(r, code)
  /\ UNCHANGED <<used, tokens>>

\* A read is answered; a read or delete of an account there is not, 404.
Show(r) ==
  /\ \/ Open(r, "list") /\ Close(r, 200)
     \/ Open(r, "get") /\ accounts[asked[r].id] # NoRow /\ Close(r, 200)
     \/ /\ Open(r, "get") \/ Open(r, "delete")
        /\ accounts[asked[r].id] = NoRow
        /\ Close(r, 404)
  /\ UNCHANGED <<accounts, used, tokens>>

\* A request is refused: Google does not vouch for it, the email is taken, or
\* something failed.
Refuse(r) ==
  /\ asked[r] # NoInput
  /\ \/ Open(r, "google") /\ earned[r] = NoRow /\ Close(r, 401)
     \/ /\ Open(r, "create")
        /\ \E v \in UserID : accounts[v] # NoRow /\ accounts[v].email = asked[r].email
        /\ Close(r, 400)
     \/ Close(r, 500)
  /\ UNCHANGED <<accounts, used, tokens>>

\* Tokens expire, operators change roles, crashes lose the open requests.
Expire(old) ==
  tokens' = tokens \ old /\ UNCHANGED <<accounts, used, asked, earned, answer>>

SetRole(u, role) ==
  /\ accounts[u] # NoRow
  /\ accounts' = [accounts EXCEPT ![u].role = role]
  /\ UNCHANGED <<used, tokens, asked, earned, answer>>

Lose ==
  /\ asked' = [r \in Request |-> NoInput]
  /\ earned' = [r \in Request |-> NoRow]
  /\ UNCHANGED <<accounts, used, tokens, answer>>

Next ==
  \/ \E r \in Request :
       \/ \E i \in Input : Ask(r, i)
       \/ TurnAway(r) \/ Issue(r) \/ Delete(r) \/ Show(r) \/ Refuse(r)
       \/ \E u \in UserID : SignIn(r, u) \/ SignUp(r, u) \/ Create(r, u)
  \/ \E old \in SUBSET tokens : Expire(old)
  \/ \E u \in UserID, role \in Role : SetRole(u, role)
  \/ Lose

Spec == Init /\ [][Next]_vars

=============================================================================
