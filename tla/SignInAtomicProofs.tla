------------------------- MODULE SignInAtomicProofs -------------------------
(***************************************************************************)
(* The account endpoints implement AccountStore, for any number of         *)
(* requests, accounts and emails: every step of SignIn is a step of the    *)
(* store, or leaves it alone.                                              *)
(***************************************************************************)
EXTENDS SignInProofs

-----------------------------------------------------------------------------
\* The refinement mapping, one account and one request at a time.

LEMMA AccountAt ==
  ASSUME TypeOK, NEW u \in UserID
  PROVE  /\ Accounts[u] = NoRow <=> users[u] = NoRow
         /\ users[u] # NoRow => /\ Accounts[u].email = users[u].email
                                /\ Accounts[u].role = users[u].role
<1>1. CASE users[u] = NoRow
  BY <1>1 DEF Accounts
<1>2. CASE users[u] # NoRow
  <2>1. Accounts[u] = [email |-> users[u].email, role |-> users[u].role]
    BY <1>2 DEF Accounts
  <2>2. Accounts[u] \in [email : Email, role : Role \cup {Unset}]
    BY <1>2, <2>1 DEF TypeOK, Account
  <2> QED BY <1>2, <2>1, <2>2, NilAssumption
<1> QED BY <1>1, <1>2

LEMMA AccountsChange ==
  ASSUME TypeOK, NEW u \in UserID, NEW row, users' = [users EXCEPT ![u] = row]
  PROVE  Accounts' = [Accounts EXCEPT ![u] =
                        IF row = NoRow THEN NoRow
                        ELSE [email |-> row.email, role |-> row.role]]
BY DEF TypeOK, Accounts

LEMMA AccountGoes ==
  ASSUME TypeOK, NEW u \in UserID, users' = [users EXCEPT ![u] = NoRow]
  PROVE  Accounts' = [Accounts EXCEPT ![u] = NoRow]
BY DEF TypeOK, Accounts

LEMMA AccountsStay == ASSUME UNCHANGED users PROVE UNCHANGED Accounts
BY DEF Accounts

\* A request that is not open has earned nothing, an open one asks something.
LEMMA RequestAt ==
  ASSUME Inv, NEW r \in Request
  PROVE  /\ pc[r] = "idle" <=> input[r] = NoInput
         /\ pc[r] \in {"grant", "issue"} => Earned[r] = Claim(r) /\ Claim(r) # NoRow
         /\ pc[r] \notin {"grant", "issue"} => Earned[r] = NoRow
<1>1. pc[r] = "idle" <=> input[r] = NoInput
  BY NilAssumption DEF Inv, RequestOK
<1>2. pc[r] \in {"grant", "issue"} => Claim(r) \in Token
  BY RoleAssumption DEF Inv, RequestOK, Claim, Loaded, Token, TokenRole
<1> QED BY <1>1, <1>2, NilAssumption DEF Earned

LEMMA EarnedStays ==
  ASSUME UNCHANGED <<pc, loaded>> PROVE UNCHANGED Earned
BY DEF Earned, Claim

LEMMA AnswerCloses ==
  ASSUME Inv, NEW r \in Request, NEW code, Answer(r, code)
  PROVE  Store!Close(r, code)
<1>1. Earned' = [Earned EXCEPT ![r] = NoRow]
  BY DEF Answer, Goto, Earned, Claim, Inv, TypeOK
<1> QED BY <1>1 DEF Answer, Store!Close

\* A request that goes on without having earned anything, before or after.
LEMMA Unearned ==
  ASSUME Inv, NEW r \in Request, NEW l \in {"find", "insert"},
         pc[r] \notin {"grant", "issue"}, Proceed(r, l), UNCHANGED <<users, used, tokens>>
  PROVE  UNCHANGED Store!vars
<1>1. UNCHANGED Earned
  BY DEF Proceed, Goto, Earned, Claim, Inv, TypeOK
<1> QED BY <1>1, AccountsStay DEF Proceed, Store!vars

LEMMA Earns ==
  ASSUME Inv, NEW r \in Request, NEW l \in {"grant", "issue"}, Goto(r, l),
         NEW u, NEW role, loaded' = [loaded EXCEPT ![r] = [id |-> u, role |-> role]],
         UNCHANGED <<input, status>>
  PROVE  Store!Earn(r, [user |-> u, role |-> TokenRole(role)])
<1>1. Earned' = [Earned EXCEPT ![r] = [user |-> u, role |-> TokenRole(role)]]
  BY DEF Goto, Earned, Claim, TokenRole, Inv, TypeOK
<1> QED BY <1>1 DEF Store!Earn

-----------------------------------------------------------------------------
\* Every step maps to a step of the store, or to none.

LEMMA RefusedOK ==
  ASSUME Inv, NEW r \in Request, pc[r] # "idle", Answer(r, 500), UNCHANGED <<users, used, tokens>>
  PROVE  Store!Refuse(r)
BY RequestAt, AnswerCloses, AccountsStay DEF Store!Refuse

LEMMA VerifyMaps ==
  ASSUME Inv, NEW r \in Request, Verify(r)
  PROVE  Store!Refuse(r) \/ UNCHANGED Store!vars
<1>1. CASE Proceed(r, "find")
  BY <1>1, Unearned DEF Verify
<1>2. CASE Answer(r, 401)
  BY <1>2, RequestAt, AnswerCloses, AccountsStay
     DEF Verify, Inv, RequestOK, Store!Refuse, Store!Open
<1> QED BY <1>1, <1>2 DEF Verify

LEMMA FindMaps ==
  ASSUME Inv, NEW r \in Request, Find(r)
  PROVE  \/ Store!Refuse(r) \/ UNCHANGED Store!vars
         \/ \E u \in UserID : Store!SignIn(r, u)
<1>1. ASSUME NEW u \in UserID, users[u] # NoRow, users[u].email = input[r].email,
             Goto(r, "issue"),
             loaded' = [loaded EXCEPT ![r] = [id |-> u, role |-> users[u].role]],
             UNCHANGED <<input, status>>
      PROVE  Store!SignIn(r, u)
  <2>1. Store!Open(r, "google") /\ Earned[r] = NoRow
    BY RequestAt DEF Find, Inv, RequestOK, Store!Open
  <2>2. /\ Accounts[u] # NoRow /\ Accounts[u].email = input[r].email
        /\ Accounts[u].role = users[u].role
    BY <1>1, AccountAt DEF Inv
  <2>3. Store!Earn(r, [user |-> u, role |-> TokenRole(users[u].role)])
    BY <1>1, Earns
  <2>4. UNCHANGED <<Accounts, used, tokens>>
    BY AccountsStay DEF Find
  <2> QED BY <2>1, <2>2, <2>3, <2>4 DEF Store!SignIn, TokenRole
<1>2. ASSUME Proceed(r, "insert") PROVE UNCHANGED Store!vars
  BY <1>2, Unearned DEF Find
<1>3. ASSUME Answer(r, 500) PROVE Store!Refuse(r)
  BY <1>3, RefusedOK DEF Find
<1>4. CASE \E u \in UserID :
             /\ users[u] # NoRow /\ users[u].email = input[r].email
             /\ \/ /\ Goto(r, "issue")
                   /\ loaded' = [loaded EXCEPT ![r] = [id |-> u, role |-> users[u].role]]
                   /\ UNCHANGED <<input, status>>
                \/ Answer(r, 500)
  BY <1>1, <1>3, <1>4
<1> QED BY <1>2, <1>3, <1>4 DEF Find

LEMMA InsertMaps ==
  ASSUME Inv, NEW r \in Request, Insert(r)
  PROVE  \/ Store!Refuse(r)
         \/ \E u \in UserID : Store!SignUp(r, u) \/ Store!Create(r, u)
<1> DEFINE e == input[r].email
           signUp == input[r].op = "google"
           row == NewAccount(input[r])
<1>1. /\ pc[r] = "insert" /\ input[r].op \in {"google", "create"} /\ e \in Email
      /\ input[r] # NoInput /\ Earned[r] = NoRow
  BY InputFields, RequestAt DEF Inv, RequestOK, Insert
<1>2. CASE UNCHANGED <<users, used>> /\ Answer(r, 500)
  BY <1>1, <1>2, RefusedOK DEF Insert
<1>3. CASE IndexRefuses(e) /\ UNCHANGED <<users, used>> /\ Answer(r, 400) /\ input[r].op = "create"
  <2>1. \E v \in UserID : Accounts[v] # NoRow /\ Accounts[v].email = e
    BY <1>3, AccountAt DEF IndexRefuses, Registered, Inv
  <2> QED BY <1>1, <1>3, <2>1, AnswerCloses, AccountsStay
             DEF Store!Refuse, Store!Open, Insert
<1>4. ASSUME NEW u \in NewID, ~IndexRefuses(e), users' = [users EXCEPT ![u] = row],
             used' = used \cup {u}
      PROVE  u \in UserID /\ Store!Add(u, e, row.role)
  <2>1. u \in UserID /\ u \notin used
    BY DEF NewID
  <2>2. \A v \in UserID : Accounts[v] # NoRow => Accounts[v].email # e
    BY <1>4, AccountAt DEF IndexRefuses, Registered, Inv
  <2>3. row \in Account /\ row.email = e
    <3>1. NameFor(input[r]) \in Name \cup Email \cup {Blank}
      BY <1>1, InputFields, TextAssumption DEF NameFor, Inv, RequestOK
    <3> QED BY <1>1, <3>1, RoleAssumption DEF NewAccount, Account
  <2>4. Accounts' = [Accounts EXCEPT ![u] = [email |-> e, role |-> row.role]]
    <3> HIDE DEF row, e
    <3> QED BY <1>4, <2>1, <2>3, AccountsChange, NilAssumption DEF Inv
  <2> QED BY <1>4, <2>1, <2>2, <2>4 DEF Store!Add, Insert
<1>5. ASSUME NEW u \in NewID, ~IndexRefuses(e), users' = [users EXCEPT ![u] = row],
             used' = used \cup {u}, ~signUp, Answer(r, 201) \/ Answer(r, 500)
      PROVE  u \in UserID /\ Store!Create(r, u)
  <2>1. row.role = Unset
    BY <1>5 DEF NewAccount
  <2>2. Store!Close(r, 201) \/ Store!Close(r, 500)
    BY <1>5, AnswerCloses
  <2> QED BY <1>1, <1>4, <1>5, <2>1, <2>2 DEF Store!Create, Store!Open
<1>6. ASSUME NEW u \in NewID, ~IndexRefuses(e), users' = [users EXCEPT ![u] = row],
             used' = used \cup {u}, signUp,
             \/ /\ Goto(r, "grant")
                /\ loaded' = [loaded EXCEPT ![r] = [id |-> u, role |-> row.role]]
                /\ UNCHANGED <<input, status>>
             \/ Answer(r, 500)
      PROVE  u \in UserID /\ Store!SignUp(r, u)
  <2>1. row.role = Student /\ TokenRole(Student) = Student
    BY <1>6, RoleAssumption DEF NewAccount, TokenRole
  <2>2. Store!Earn(r, [user |-> u, role |-> Student]) \/ Store!Close(r, 500)
    BY <1>6, <2>1, Earns, AnswerCloses
  <2> QED BY <1>1, <1>4, <1>6, <2>1, <2>2 DEF Store!SignUp, Store!Open
<1> QED BY <1>2, <1>3, <1>5, <1>6 DEF Insert, DuplicateCode

LEMMA GrantMaps ==
  ASSUME Inv, NEW r \in Request, Grant(r)
  PROVE  Store!Refuse(r) \/ UNCHANGED Store!vars
<1>1. CASE Proceed(r, "issue")
  <2>1. UNCHANGED Earned
    BY <1>1 DEF Grant, Proceed, Goto, Earned, Claim, Inv, TypeOK
  <2> QED BY <1>1, <2>1, AccountsStay DEF Grant, Proceed, Store!vars
<1>2. CASE Answer(r, 500)
  BY <1>2, RefusedOK DEF Grant
<1> QED BY <1>1, <1>2 DEF Grant

LEMMA IssueMaps ==
  ASSUME Inv, NEW r \in Request, Issue(r)
  PROVE  Store!Refuse(r) \/ Store!Issue(r)
<1>1. CASE tokens' = tokens \cup {Claim(r)} /\ Answer(r, 200)
  BY <1>1, RequestAt, AnswerCloses, AccountsStay DEF Issue, tables, Store!Issue
<1>2. CASE UNCHANGED tokens /\ Answer(r, 500)
  BY <1>2, RefusedOK DEF Issue, tables
<1> QED BY <1>1, <1>2 DEF Issue

LEMMA DeleteMaps ==
  ASSUME Inv, NEW r \in Request, Delete(r)
  PROVE  Store!Refuse(r) \/ Store!Delete(r) \/ Store!Show(r)
<1> DEFINE u == input[r].id
<1>1. Store!Open(r, "delete") /\ u \in UserID /\ pc[r] # "idle"
  BY RequestAt, InputFields DEF Inv, RequestOK, Delete, Store!Open
<1>2. CASE users[u] # NoRow /\ users' = [users EXCEPT ![u] = NoRow]
           /\ (Answer(r, 204) \/ Answer(r, 500))
  <2>1. Accounts[u] # NoRow
    BY <1>1, <1>2, AccountAt DEF Inv
  <2>2. Accounts' = [Accounts EXCEPT ![u] = NoRow]
    BY <1>1, <1>2, AccountGoes DEF Inv
  <2>3. PICK code \in {204, 500} : Store!Close(r, code)
    BY <1>2, AnswerCloses
  <2> QED BY <1>1, <2>1, <2>2, <2>3 DEF Delete, Store!Delete
<1>3. CASE users[u] = NoRow /\ Answer(r, 404) /\ UNCHANGED users
  BY <1>1, <1>3, AccountAt, AccountsStay, AnswerCloses DEF Delete, Store!Show, Inv
<1>4. CASE Answer(r, 500) /\ UNCHANGED users
  BY <1>1, <1>4, RefusedOK DEF Delete
<1> QED BY <1>2, <1>3, <1>4 DEF Delete

LEMMA ReadMaps ==
  ASSUME Inv, NEW r \in Request, Read(r)
  PROVE  Store!Refuse(r) \/ Store!Show(r)
<1> DEFINE u == input[r].id
<1>1. /\ Store!Open(r, "get") \/ Store!Open(r, "list")
      /\ Store!Open(r, "get") => u \in UserID
      /\ pc[r] # "idle" /\ UNCHANGED <<Accounts, used, tokens>>
  BY RequestAt, InputFields, AccountsStay DEF Inv, RequestOK, Read, Store!Open
<1>2. CASE Answer(r, 500)
  BY <1>2, RefusedOK DEF Read
<1>3. CASE Answer(r, 404) /\ input[r].op = "get" /\ users[u] = NoRow
  BY <1>1, <1>3, AccountAt, AnswerCloses DEF Store!Show, Store!Open, Inv
<1>4. CASE Answer(r, 200) /\ (input[r].op = "get" => users[u] # NoRow)
  BY <1>1, <1>4, AccountAt, AnswerCloses DEF Store!Show, Store!Open, Inv
<1>5. \/ Answer(r, 500)
      \/ Answer(r, 404) /\ input[r].op = "get" /\ users[u] = NoRow
      \/ Answer(r, 200) /\ (input[r].op = "get" => users[u] # NoRow)
  BY <1>1 DEF Read, Store!Open
<1> QED BY <1>2, <1>3, <1>4, <1>5

LEMMA SetRoleMaps ==
  ASSUME Inv, NEW u \in UserID, NEW role \in Role, SetRole(u, role)
  PROVE  Store!SetRole(u, role)
<1>1. users[u] \in Account /\ users' = [users EXCEPT ![u] = [users[u] EXCEPT !.role = role]]
  BY DEF Inv, TypeOK, SetRole
<1>2. [users[u] EXCEPT !.role = role] \in Account
  BY <1>1 DEF Account
<1>3. Accounts[u] = [email |-> users[u].email, role |-> users[u].role]
  BY DEF SetRole, Accounts
<1>4. Accounts' = [Accounts EXCEPT ![u] = [email |-> users[u].email, role |-> role]]
  <2> DEFINE row == [users[u] EXCEPT !.role = role]
  <2>1. row # NoRow /\ row.email = users[u].email /\ row.role = role
    BY <1>1, <1>2, NilAssumption DEF Account
  <2>2. users' = [users EXCEPT ![u] = row]
    BY <1>1
  <2> HIDE DEF row
  <2> QED BY <2>1, <2>2, AccountsChange DEF Inv
<1>5. Accounts' = [Accounts EXCEPT ![u].role = role]
  BY <1>3, <1>4 DEF Accounts
<1> QED BY <1>5, AccountAt, EarnedStays DEF SetRole, Store!SetRole, Inv

LEMMA CrashMaps ==
  ASSUME Crash PROVE Store!Lose
BY AccountsStay DEF Crash, Store!Lose, Earned

LEMMA RequestMaps ==
  ASSUME Inv, NEW r \in Request,
         (\E i \in Input : Receive(r, i)) \/ TurnAway(r) \/ Step(r)
  PROVE  [Store!Next]_(Store!vars)
<1>1. ASSUME NEW i \in Input, Receive(r, i) PROVE Store!Ask(r, i)
  <2>1. input[r] = NoInput
    BY <1>1 DEF Receive, Inv, RequestOK
  <2>2. UNCHANGED Earned
    BY <1>1 DEF Receive, Goto, Earned, Claim, Inv, TypeOK
  <2> QED BY <1>1, <2>1, <2>2, AccountsStay DEF Receive, Store!Ask
<1>2. ASSUME TurnAway(r) PROVE Store!TurnAway(r)
  BY <1>2, AccountsStay, EarnedStays, RequestAt DEF TurnAway, Store!TurnAway
<1> USE DEF Store!Next
<1>3. CASE \E i \in Input : Receive(r, i)
  BY <1>1, <1>3
<1>4. CASE TurnAway(r)
  BY <1>2, <1>4
<1>5. CASE Verify(r) \/ Grant(r)
  BY <1>5, VerifyMaps, GrantMaps
<1>6. CASE Find(r)
  BY <1>6, FindMaps
<1>7. CASE Insert(r)
  BY <1>7, InsertMaps
<1>8. CASE Issue(r) \/ Delete(r) \/ Read(r)
  BY <1>8, IssueMaps, DeleteMaps, ReadMaps
<1> QED BY <1>3, <1>4, <1>5, <1>6, <1>7, <1>8 DEF Step

LEMMA NextMaps == Inv /\ [Next]_vars => [Store!Next]_(Store!vars)
<1> SUFFICES ASSUME Inv, [Next]_vars PROVE [Store!Next]_(Store!vars)
  OBVIOUS
<1>1. CASE UNCHANGED vars
  BY <1>1, AccountsStay, EarnedStays DEF vars, Store!vars
<1>2. ASSUME NEW u \in UserID, NEW role \in Role, SetRole(u, role)
      PROVE  Store!Next
  BY <1>2, SetRoleMaps DEF Store!Next
<1>3. ASSUME NEW old \in SUBSET tokens, Expire(old) PROVE Store!Next
  BY <1>3, AccountsStay, EarnedStays DEF Expire, Store!Expire, Store!Next
<1>4. ASSUME Crash PROVE Store!Next
  BY <1>4, CrashMaps DEF Store!Next
<1> QED BY <1>1, <1>2, <1>3, <1>4, RequestMaps DEF Next

-----------------------------------------------------------------------------
\* Every sign-in, sign-up, POST, GET and DELETE of /users acts on the accounts
\* at one moment between its arrival and its answer.
THEOREM AccountsAreAtomic == Spec => AtomicAccounts
<1>1. Init => Store!Init
  BY DEF Init, Store!Init, Accounts, Earned
<1> QED BY <1>1, Invariance, NextMaps, PTL DEF Spec, AtomicAccounts, Store!Spec

=============================================================================
