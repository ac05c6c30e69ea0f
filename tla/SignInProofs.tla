---------------------------- MODULE SignInProofs ----------------------------
(***************************************************************************)
(* Proofs about SignIn, for any number of requests, accounts and emails,   *)
(* either database driver, with or without failures and crashes.           *)
(***************************************************************************)
EXTENDS SignIn, TLAPS

Label == {"idle", "verify", "find", "insert", "grant", "issue", "delete",
          "read"}

-----------------------------------------------------------------------------
\* The inductive invariant: what a goroutine knows between two statements.

RequestOK(r) ==
  /\ pc[r] = "idle" => input[r] = NoInput
  /\ pc[r] # "idle" => input[r] \in Input
  /\ pc[r] \in {"verify", "find", "grant", "issue"} => input[r].op = "google"
  /\ pc[r] = "insert" => input[r].op \in {"google", "create"}
  /\ pc[r] = "delete" => input[r].op = "delete"
  /\ pc[r] = "read" => input[r].op \in {"get", "list"}
  /\ loaded[r] # NoRow => loaded[r].id \in used
  /\ pc[r] \in {"insert", "grant"} /\ input[r].op = "google" => NoRow \in seen[r]
  /\ pc[r] \in {"grant", "issue"} => loaded[r] \in Loaded /\ Claim(r) \in seen[r]
  /\ pc[r] = "grant" => grants[loaded[r].id] = 0

\* No two sign-ups are about to add the casbin_rule row of one account.
GrantsApart ==
  \A r, s \in Request :
    pc[r] = "grant" /\ pc[s] = "grant" /\ loaded[r].id = loaded[s].id => r = s

TablesOK ==
  /\ OneAccountPerEmail
  /\ AtMostOneGrant
  /\ RowsReadable
  /\ \A t \in tokens : t.user \in used
  /\ \A u \in UserID : users[u] # NoRow => u \in used
  /\ \A u \in UserID : grants[u] > 0 => u \in used

Inv ==
  /\ TypeOK
  /\ TablesOK
  /\ GrantsApart
  /\ \A r \in Request : RequestOK(r)

-----------------------------------------------------------------------------
\* Requests, and what their emails stand for.

LEMMA InputFields ==
  ASSUME NEW i \in Input
  PROVE  /\ i.op \in {"google", "create", "get", "delete", "list"}
         /\ i.op \in {"google", "create"} => i.email \in Email
         /\ i.op = "create" => i.name \in Name
         /\ i.op \in {"get", "delete"} => i.id \in UserID
BY DEF Input

LEMMA StandingType ==
  ASSUME NEW table \in [UserID -> Account \cup {NoRow}], NEW e \in Email
  PROVE  Standing(table, e) \subseteq Token \cup {NoRow}
<1>1. ASSUME NEW u \in UserID, table[u] # NoRow
      PROVE  [user |-> u,
              role |-> IF table[u].role = Unset THEN Student ELSE table[u].role] \in Token
  <2>1. table[u].role \in Role \cup {Unset}
    BY <1>1 DEF Account
  <2> QED BY <2>1, RoleAssumption DEF Token
<1> QED BY <1>1 DEF Standing

\* The token of the account that has the email e is among what e stands for.
LEMMA StandingAccount ==
  ASSUME NEW table, NEW e, NEW u \in UserID, table[u] # NoRow, table[u].email = e
  PROVE  [user |-> u, role |-> TokenRole(table[u].role)] \in Standing(table, e)
BY DEF Standing, TokenRole

LEMMA ObserveOK ==
  ASSUME TypeOK, Observe,
         users' \in [UserID -> Account \cup {NoRow}], pc' \in [Request -> Label],
         \A r \in Request : pc'[r] # "idle" => input'[r] \in Input
  PROVE  /\ seen' \in [Request -> SUBSET (Token \cup {NoRow})]
         /\ \A r \in Request : pc'[r] # "idle" /\ input'[r].op = "google" =>
              seen'[r] = seen[r] \cup Standing(users', input'[r].email)
<1>1. ASSUME NEW r \in Request, pc'[r] # "idle", input'[r].op = "google"
      PROVE  Standing(users', input'[r].email) \subseteq Token \cup {NoRow}
  BY <1>1, InputFields, StandingType
<1> QED BY <1>1 DEF TypeOK, Observe

\* A request that stays where it is, while accounts and grants of others may
\* change and more is seen.
LEMMA FrameOK ==
  ASSUME NEW s \in Request, RequestOK(s),
         pc'[s] = pc[s], input'[s] = input[s], loaded'[s] = loaded[s],
         pc[s] # "idle" /\ input[s].op = "google" => seen[s] \subseteq seen'[s],
         used \subseteq used',
         pc[s] = "grant" => grants'[loaded[s].id] = grants[loaded[s].id]
  PROVE  RequestOK(s)'
BY DEF RequestOK, Claim

-----------------------------------------------------------------------------
\* The invariant is inductive.

\* A step that moves no request but r.
Moves(r) ==
  /\ pc' \in [Request -> Label]
  /\ input' \in [Request -> Input \cup {NoInput}]
  /\ loaded' \in [Request -> Loaded \cup {NoRow}]
  /\ status' \in [Request -> {0, 200, 201, 204, 400, 401, 404, 500}]
  /\ \A s \in Request : s # r => /\ pc'[s] = pc[s] /\ input'[s] = input[s]
                                  /\ loaded'[s] = loaded[s]
  /\ pc'[r] # "idle" => input'[r] \in Input

TablesTyped ==
  /\ users \in [UserID -> Account \cup {NoRow}]
  /\ grants \in [UserID -> Nat]
  /\ tokens \subseteq Token
  /\ used \subseteq UserID

LEMMA AnswerMoves ==
  ASSUME TypeOK, NEW r \in Request,
         NEW code \in {200, 201, 204, 400, 401, 404, 500}, Answer(r, code)
  PROVE  Moves(r) /\ pc'[r] = "idle" /\ input'[r] = NoInput /\ loaded'[r] = NoRow
BY DEF TypeOK, Answer, Goto, Moves, Label

\* What a request sees in a step that moves no other request.
LEMMA SeenAfter ==
  ASSUME Inv, Observe, NEW r \in Request, Moves(r), TablesTyped'
  PROVE  /\ seen' \in [Request -> SUBSET (Token \cup {NoRow})]
         /\ \A s \in Request : pc'[s] # "idle" /\ input'[s].op = "google" =>
              seen'[s] = seen[s] \cup Standing(users', input'[s].email)
<1>1. \A s \in Request : pc'[s] # "idle" => input'[s] \in Input
  BY DEF Inv, RequestOK, Moves
<1> QED BY <1>1, ObserveOK DEF Inv, Moves, TablesTyped

LEMMA Assemble ==
  ASSUME Inv, Observe, NEW r \in Request, Moves(r), RequestOK(r)',
         TablesTyped', TablesOK', used \subseteq used',
         \A u \in UserID : grants'[u] # grants[u] => pc[r] = "grant" /\ u = loaded[r].id,
         pc'[r] = "grant" => loaded'[r].id \notin used
  PROVE  Inv'
<1>1. /\ seen' \in [Request -> SUBSET (Token \cup {NoRow})]
      /\ \A s \in Request : pc'[s] # "idle" /\ input'[s].op = "google" =>
           seen'[s] = seen[s] \cup Standing(users', input'[s].email)
  BY SeenAfter
<1>2. TypeOK'
  BY <1>1 DEF Moves, TablesTyped, TypeOK, Label
<1>3. ASSUME NEW s \in Request, s # r PROVE RequestOK(s)'
  <2>1. pc'[s] = pc[s] /\ input'[s] = input[s] /\ loaded'[s] = loaded[s]
    BY <1>3 DEF Moves
  <2>2. pc[s] # "idle" /\ input[s].op = "google" => seen[s] \subseteq seen'[s]
    BY <1>1, <2>1
  <2>3. pc[s] = "grant" => grants'[loaded[s].id] = grants[loaded[s].id]
    BY <1>3 DEF Inv, RequestOK, Loaded, GrantsApart
  <2> QED BY <2>1, <2>2, <2>3, FrameOK DEF Inv
<1>4. GrantsApart'
  BY NilAssumption DEF Inv, GrantsApart, RequestOK, Moves
<1> QED BY <1>2, <1>3, <1>4 DEF Inv

LEMMA InitInv == Init => Inv
BY DEF Init, Inv, TypeOK, TablesOK, OneAccountPerEmail, AtMostOneGrant, RowsReadable, GrantsApart,
       RequestOK

\* A request that is answered without a change of the tables.
LEMMA AnswerOK ==
  ASSUME Inv, Observe, NEW r \in Request,
         NEW code \in {200, 201, 204, 400, 401, 404, 500}, Answer(r, code),
         UNCHANGED <<users, grants, tokens, used>>
  PROVE  Inv'
<1>1. Moves(r) /\ RequestOK(r)' /\ pc'[r] = "idle"
  BY AnswerMoves DEF Inv, RequestOK
<1>2. TablesTyped' /\ TablesOK'
  BY DEF Inv, TypeOK, TablesTyped, TablesOK, OneAccountPerEmail, AtMostOneGrant,
         RowsReadable
<1> QED BY <1>1, <1>2, Assemble

\* A request that goes on without a change of the tables.
LEMMA GoOn ==
  ASSUME Inv, Observe, NEW r \in Request, Moves(r), RequestOK(r)',
         pc'[r] # "grant", UNCHANGED <<users, grants, tokens, used>>
  PROVE  Inv'
<1>1. TablesTyped' /\ TablesOK'
  BY DEF Inv, TypeOK, TablesTyped, TablesOK, OneAccountPerEmail, AtMostOneGrant,
         RowsReadable
<1> QED BY <1>1, Assemble

LEMMA ReceiveInv ==
  ASSUME Inv, Observe, NEW r \in Request, NEW i \in Input, Receive(r, i)
  PROVE  Inv'
<1>1. Moves(r) /\ input'[r] = i
  BY InputFields DEF Inv, TypeOK, Receive, Goto, Moves, Label
<1>2. pc'[r] \in {"verify", "insert", "delete", "read"} /\ RequestOK(r)'
  BY <1>1, InputFields DEF Inv, TypeOK, Receive, Goto, RequestOK
<1> QED BY <1>1, <1>2, GoOn DEF Receive

LEMMA TurnAwayInv ==
  ASSUME Inv, Observe, NEW r \in Request, TurnAway(r)
  PROVE  Inv'
<1>1. Moves(r) /\ RequestOK(r)' /\ pc'[r] = "idle"
  BY DEF Inv, TypeOK, TurnAway, Moves, Label, RequestOK
<1> QED BY <1>1, GoOn DEF TurnAway

LEMMA VerifyInv ==
  ASSUME Inv, Observe, NEW r \in Request, Verify(r)
  PROVE  Inv'
<1>1. CASE Answer(r, 401)
  BY <1>1, AnswerOK DEF Verify
<1>2. CASE Proceed(r, "find")
  <2>1. Moves(r) /\ pc'[r] = "find"
    BY <1>2 DEF Inv, TypeOK, Verify, Proceed, Goto, Moves, Label, RequestOK
  <2>2. RequestOK(r)'
    BY <1>2, <2>1 DEF Inv, RequestOK, Verify, Proceed
  <2> QED BY <2>1, <2>2, GoOn DEF Verify
<1> QED BY <1>1, <1>2 DEF Verify

LEMMA FindInv ==
  ASSUME Inv, Observe, NEW r \in Request, Find(r)
  PROVE  Inv'
<1> DEFINE e == input[r].email
<1>1. /\ pc[r] = "find" /\ input[r] \in Input /\ input[r].op = "google"
      /\ UNCHANGED <<users, grants, tokens, used>>
  BY DEF Inv, RequestOK, Find
<1>2. CASE Answer(r, 500)
  BY <1>1, <1>2, AnswerOK
<1>3. ASSUME \E u \in UserID :
             /\ users[u] # NoRow /\ users[u].email = e
             /\ Goto(r, "issue")
             /\ loaded' = [loaded EXCEPT ![r] = [id |-> u, role |-> users[u].role]]
             /\ UNCHANGED <<input, status>>
      PROVE  Inv'
  <2>1. PICK u \in UserID :
             /\ users[u] # NoRow /\ users[u].email = e
             /\ Goto(r, "issue")
             /\ loaded' = [loaded EXCEPT ![r] = [id |-> u, role |-> users[u].role]]
             /\ UNCHANGED <<input, status>>
    BY <1>3
  <2>2. u \in used /\ users[u].role \in Role \cup {Unset}
    BY <2>1 DEF Inv, TypeOK, TablesOK, Account
  <2>3. loaded'[r] = [id |-> u, role |-> users[u].role] /\ loaded'[r] \in Loaded
    BY <2>1, <2>2 DEF Inv, TypeOK, Loaded
  <2>4. Moves(r) /\ pc'[r] = "issue" /\ input'[r] = input[r]
    BY <1>1, <2>1, <2>3 DEF Inv, TypeOK, Goto, Moves, Label
  <2>5. TablesTyped'
    BY <1>1 DEF Inv, TypeOK, TablesTyped
  <2>6. seen'[r] = seen[r] \cup Standing(users, e)
    BY <1>1, <2>4, <2>5, SeenAfter
  <2>7. [user |-> u, role |-> TokenRole(users[u].role)] \in Standing(users, e)
    BY <2>1, StandingAccount
  <2>8. Claim(r)' = [user |-> u, role |-> TokenRole(users[u].role)]
    BY <2>3 DEF Claim, TokenRole
  <2>9. RequestOK(r)'
    BY <1>1, <2>2, <2>3, <2>4, <2>6, <2>7, <2>8 DEF RequestOK
  <2> QED BY <1>1, <2>4, <2>9, GoOn
<1>4. CASE ~Registered(users, e) /\ Proceed(r, "insert")
  <2>1. Moves(r) /\ pc'[r] = "insert" /\ input'[r] = input[r]
    BY <1>1, <1>4 DEF Inv, TypeOK, Proceed, Goto, Moves, Label
  <2>2. TablesTyped'
    BY <1>1 DEF Inv, TypeOK, TablesTyped
  <2>3. seen'[r] = seen[r] \cup Standing(users, e)
    BY <1>1, <2>1, <2>2, SeenAfter
  <2>4. NoRow \in Standing(users, e)
    BY <1>4 DEF Standing
  <2>5. RequestOK(r)'
    BY <1>1, <1>4, <2>1, <2>3, <2>4 DEF Inv, RequestOK, Proceed
  <2> QED BY <1>1, <2>1, <2>5, GoOn
<1>5. CASE \E u \in UserID :
             /\ users[u] # NoRow /\ users[u].email = e
             /\ \/ /\ Goto(r, "issue")
                   /\ loaded' = [loaded EXCEPT ![r] = [id |-> u, role |-> users[u].role]]
                   /\ UNCHANGED <<input, status>>
                \/ Answer(r, 500)
  BY <1>2, <1>3, <1>5
<1> QED BY <1>2, <1>4, <1>5 DEF Find

\* A new account under an email that has none keeps the tables in order.
LEMMA AddAccountOK ==
  ASSUME Inv, NEW u \in UserID \ used, NEW row \in Account,
         ~Registered(users, row.email), Readable(row),
         users' = [users EXCEPT ![u] = row], used' = used \cup {u},
         UNCHANGED <<grants, tokens>>
  PROVE  /\ TablesTyped' /\ TablesOK' /\ used \subseteq used'
         /\ users'[u] = row
<1>1. \A v \in UserID : users'[v] = IF v = u THEN row ELSE users[v]
  BY DEF Inv, TypeOK
<1>2. TablesTyped'
  BY DEF Inv, TypeOK, TablesTyped
<1>3. OneAccountPerEmail'
  BY <1>1 DEF Inv, TablesOK, OneAccountPerEmail, Registered
<1>4. TablesOK'
  BY <1>1, <1>3 DEF Inv, TablesOK, AtMostOneGrant, RowsReadable
<1> QED BY <1>1, <1>2, <1>4

LEMMA InsertInv ==
  ASSUME Inv, Observe, NEW r \in Request, Insert(r)
  PROVE  Inv'
<1> DEFINE e == input[r].email
           signUp == input[r].op = "google"
           role == IF signUp THEN Student ELSE Unset
           row == [email |-> e, name |-> NameFor(input[r]), role |-> role,
                   google |-> signUp]
<1>1. /\ pc[r] = "insert" /\ input[r] \in Input /\ input[r].op \in {"google", "create"}
      /\ e \in Email /\ UNCHANGED <<grants, tokens>>
  BY InputFields DEF Inv, RequestOK, Insert
<1>2. role \in Role \cup {Unset} /\ row \in Account /\ Readable(row)
  <2>1. NameFor(input[r]) \in (Name \cup Email) \ {Blank}
    BY <1>1, InputFields, TextAssumption DEF NameFor
  <2> QED BY <1>1, <2>1, RoleAssumption DEF Account, Readable
<1>3. CASE UNCHANGED <<users, used>> /\ \E code \in {400, 500} : Answer(r, code)
  BY <1>1, <1>3, AnswerOK
<1>4. ASSUME NEW u \in NewID, ~IndexRefuses(e),
             users' = [users EXCEPT ![u] = row], used' = used \cup {u}
      PROVE  /\ TablesTyped' /\ TablesOK' /\ used \subseteq used'
             /\ users'[u] = row
  <2>1. ~Registered(users, row.email)
    BY <1>4 DEF IndexRefuses
  <2>2. u \in UserID \ used
    BY DEF NewID
  <2> HIDE DEF row
  <2> QED BY <1>1, <1>2, <1>4, <2>1, <2>2, AddAccountOK
<1>5. ASSUME NEW u \in NewID, ~IndexRefuses(e),
             users' = [users EXCEPT ![u] = row], used' = used \cup {u},
             \E code \in {201, 500} : Answer(r, code)
      PROVE  Inv'
  <2>1. Moves(r) /\ RequestOK(r)' /\ pc'[r] = "idle"
    BY <1>5, AnswerMoves DEF Inv, RequestOK
  <2> QED BY <1>1, <1>4, <1>5, <2>1, Assemble
<1>6. ASSUME NEW u \in NewID, ~IndexRefuses(e),
             users' = [users EXCEPT ![u] = row], used' = used \cup {u},
             signUp, Goto(r, "grant"),
             loaded' = [loaded EXCEPT ![r] = [id |-> u, role |-> role]],
             UNCHANGED <<input, status>>
      PROVE  Inv'
  <2>1. loaded'[r] = [id |-> u, role |-> role] /\ loaded'[r] \in Loaded
    BY <1>2, <1>6 DEF Inv, TypeOK, Loaded, NewID
  <2>2. Moves(r) /\ pc'[r] = "grant" /\ input'[r] = input[r]
    BY <1>1, <1>6, <2>1 DEF Inv, TypeOK, Goto, Moves, Label
  <2>3. /\ TablesTyped' /\ TablesOK' /\ used \subseteq used'
        /\ users'[u] = row
    BY <1>4, <1>6
  <2>4. seen'[r] = seen[r] \cup Standing(users', e)
    BY <1>6, <2>2, <2>3, SeenAfter
  <2>5. u \in UserID /\ users'[u] # NoRow /\ users'[u].email = e /\ users'[u].role = role
    BY <1>2, <2>3, NilAssumption DEF NewID
  <2>6. [user |-> u, role |-> TokenRole(role)] \in Standing(users', e)
    <3> HIDE DEF role, row
    <3> QED BY <1>6, <2>5, StandingAccount
  <2>7. Claim(r)' = [user |-> u, role |-> TokenRole(role)]
    BY <2>1 DEF Claim, TokenRole
  <2>8. NoRow \in seen[r]
    BY <1>1, <1>6 DEF Inv, RequestOK
  <2>9. grants[u] = 0
    BY <1>6 DEF Inv, TypeOK, TablesOK, NewID
  <2>10. RequestOK(r)'
    <3>1. input'[r] \in Input /\ input'[r].op = "google"
      BY <1>1, <1>6, <2>2
    <3>2. NoRow \in seen'[r] /\ Claim(r)' \in seen'[r]
      BY <2>4, <2>6, <2>7, <2>8
    <3>3. loaded'[r].id \in used' /\ grants'[loaded'[r].id] = 0
      BY <1>1, <1>6, <2>1, <2>9
    <3> QED BY <2>1, <2>2, <3>1, <3>2, <3>3 DEF RequestOK
  <2>11. u \notin used
    BY DEF NewID
  <2> QED BY <1>1, <1>6, <2>1, <2>2, <2>3, <2>10, <2>11, Assemble
<1>7. NewAccount(input[r]) = row /\ row.role = role
  BY DEF NewAccount
<1> QED BY <1>3, <1>5, <1>6, <1>7 DEF Insert, DuplicateCode

LEMMA GrantInv ==
  ASSUME Inv, Observe, NEW r \in Request, Grant(r)
  PROVE  Inv'
<1> DEFINE u == loaded[r].id
<1>1. /\ pc[r] = "grant" /\ input[r] \in Input /\ input[r].op = "google"
      /\ u \in UserID /\ u \in used /\ grants[u] = 0
      /\ loaded[r] \in Loaded /\ Claim(r) \in seen[r]
      /\ UNCHANGED <<users, tokens, used>>
  BY NilAssumption DEF Inv, RequestOK, Grant, Loaded
<1>2. CASE UNCHANGED grants /\ Answer(r, 500)
  BY <1>1, <1>2, AnswerOK
<1>3. CASE grants' = [grants EXCEPT ![u] = @ + 1]
  <2>1. \A v \in UserID : grants'[v] = IF v = u THEN 1 ELSE grants[v]
    BY <1>1, <1>3 DEF Inv, TypeOK
  <2>2. TablesTyped' /\ TablesOK'
    BY <1>1, <1>3, <2>1
       DEF Inv, TypeOK, TablesTyped, TablesOK, OneAccountPerEmail, AtMostOneGrant,
         RowsReadable
  <2>3. Moves(r) /\ pc'[r] # "grant" /\ RequestOK(r)'
    <3>1. CASE Answer(r, 500)
      BY <3>1, AnswerMoves DEF Inv, RequestOK
    <3>2. CASE Proceed(r, "issue")
      <4>1. /\ Moves(r) /\ pc'[r] = "issue" /\ input'[r] = input[r]
            /\ loaded'[r] = loaded[r]
        BY <1>1, <3>2 DEF Inv, TypeOK, Proceed, Goto, Moves, Label
      <4>2. seen[r] \subseteq seen'[r]
        BY <1>1, <2>2, <4>1, SeenAfter
      <4> QED BY <1>1, <4>1, <4>2 DEF RequestOK, Claim
    <3> QED BY <1>1, <1>3, <3>1, <3>2 DEF Grant
  <2> QED BY <1>1, <2>1, <2>2, <2>3, Assemble
<1> QED BY <1>2, <1>3 DEF Grant

LEMMA IssueInv ==
  ASSUME Inv, Observe, NEW r \in Request, Issue(r)
  PROVE  Inv'
<1>1. /\ pc[r] = "issue" /\ loaded[r] \in Loaded /\ loaded[r].id \in used
      /\ UNCHANGED <<users, grants, used>>
  BY NilAssumption DEF Inv, RequestOK, Issue, tables
<1>2. PICK code \in {200, 500} : Answer(r, code)
  BY DEF Issue
<1>3. CASE UNCHANGED tokens
  BY <1>1, <1>2, <1>3, AnswerOK
<1>4. CASE tokens' = tokens \cup {Claim(r)}
  <2>1. Claim(r) \in Token /\ Claim(r).user \in used
    BY <1>1, RoleAssumption DEF Claim, Loaded, Token, TokenRole
  <2>2. TablesTyped' /\ TablesOK'
    BY <1>1, <1>4, <2>1
       DEF Inv, TypeOK, TablesTyped, TablesOK, OneAccountPerEmail, AtMostOneGrant,
         RowsReadable
  <2>3. Moves(r) /\ RequestOK(r)' /\ pc'[r] = "idle"
    BY <1>2, AnswerMoves DEF Inv, RequestOK
  <2> QED BY <1>1, <2>2, <2>3, Assemble
<1> QED BY <1>3, <1>4 DEF Issue

LEMMA DeleteInv ==
  ASSUME Inv, Observe, NEW r \in Request, Delete(r)
  PROVE  Inv'
<1> DEFINE u == input[r].id
<1>1. /\ u \in UserID /\ UNCHANGED <<grants, tokens, used>>
  BY InputFields DEF Inv, RequestOK, Delete
<1>2. PICK code \in {204, 404, 500} : Answer(r, code)
  BY DEF Delete
<1>3. CASE UNCHANGED users
  BY <1>1, <1>2, <1>3, AnswerOK
<1>4. CASE users' = [users EXCEPT ![u] = NoRow]
  <2>1. \A v \in UserID : users'[v] = IF v = u THEN NoRow ELSE users[v]
    BY <1>4 DEF Inv, TypeOK
  <2>2. TablesTyped' /\ TablesOK'
    BY <1>1, <1>4, <2>1
       DEF Inv, TypeOK, TablesTyped, TablesOK, OneAccountPerEmail, AtMostOneGrant,
         RowsReadable
  <2>3. Moves(r) /\ RequestOK(r)' /\ pc'[r] = "idle"
    BY <1>2, AnswerMoves DEF Inv, RequestOK
  <2> QED BY <1>1, <2>2, <2>3, Assemble
<1> QED BY <1>3, <1>4 DEF Delete

LEMMA ReadInv ==
  ASSUME Inv, Observe, NEW r \in Request, Read(r)
  PROVE  Inv'
<1>1. PICK code \in {200, 404, 500} : Answer(r, code)
  BY DEF Read
<1> QED BY <1>1, AnswerOK DEF Read

\* Steps that leave the requests alone.
LEMMA Elsewhere ==
  ASSUME Inv, Observe, UNCHANGED <<grants, pc, input, loaded, status, used>>,
         TablesTyped', TablesOK'
  PROVE  Inv'
<1>1. \A r \in Request : pc'[r] # "idle" => input'[r] \in Input
  BY DEF Inv, RequestOK
<1>2. /\ seen' \in [Request -> SUBSET (Token \cup {NoRow})]
      /\ \A r \in Request : pc'[r] # "idle" /\ input'[r].op = "google" =>
           seen'[r] = seen[r] \cup Standing(users', input'[r].email)
  BY <1>1, ObserveOK DEF Inv, TypeOK, TablesTyped, Label
<1>3. ASSUME NEW r \in Request PROVE RequestOK(r)'
  <2>1. pc[r] # "idle" /\ input[r].op = "google" => seen[r] \subseteq seen'[r]
    BY <1>2
  <2> QED BY <2>1, FrameOK DEF Inv
<1>4. TypeOK'
  BY <1>2 DEF Inv, TypeOK, TablesTyped
<1> QED BY <1>3, <1>4 DEF Inv, GrantsApart

LEMMA ExpireInv ==
  ASSUME Inv, Observe, NEW old \in SUBSET tokens, Expire(old)
  PROVE  Inv'
<1>1. TablesTyped' /\ TablesOK'
  BY DEF Inv, TypeOK, Expire, TablesTyped, TablesOK, OneAccountPerEmail, AtMostOneGrant,
         RowsReadable
<1> QED BY <1>1, Elsewhere DEF Expire

LEMMA SetRoleInv ==
  ASSUME Inv, Observe, NEW u \in UserID, NEW role \in Role, SetRole(u, role)
  PROVE  Inv'
<1>1. users[u] \in Account /\ users' = [users EXCEPT ![u] = [users[u] EXCEPT !.role = role]]
  BY DEF Inv, TypeOK, SetRole
<1>2. \A v \in UserID :
        /\ users'[v] # NoRow => users[v] # NoRow /\ users'[v].email = users[v].email
        /\ users'[v] # NoRow => (Readable(users[v]) => Readable(users'[v]))
        /\ users'[v] \in Account \cup {NoRow}
  BY <1>1 DEF Inv, TypeOK, SetRole, Account, Readable
<1>3. TablesTyped' /\ TablesOK'
  BY <1>1, <1>2
     DEF Inv, TypeOK, SetRole, TablesTyped, TablesOK, OneAccountPerEmail, AtMostOneGrant,
         RowsReadable
<1> QED BY <1>3, Elsewhere DEF SetRole

LEMMA CrashInv ==
  ASSUME Inv, Observe, Crash
  PROVE  Inv'
<1>1. \A r \in Request : pc'[r] = "idle" /\ input'[r] = NoInput /\ loaded'[r] = NoRow
  BY DEF Crash
<1>2. TypeOK'
  BY <1>1 DEF Inv, TypeOK, Crash, Observe
<1>3. TablesOK'
  BY DEF Inv, Crash, TablesOK, OneAccountPerEmail, AtMostOneGrant,
         RowsReadable
<1> QED BY <1>1, <1>2, <1>3 DEF Inv, GrantsApart, RequestOK

LEMMA NextInv == Inv /\ [Next]_vars => Inv'
<1> SUFFICES ASSUME Inv, [Next]_vars PROVE Inv'
  OBVIOUS
<1>1. CASE UNCHANGED vars
  <2>1. TypeOK' /\ TablesOK' /\ GrantsApart'
    BY <1>1 DEF vars, Inv, TypeOK, TablesOK, OneAccountPerEmail, AtMostOneGrant,
                RowsReadable, GrantsApart
  <2>2. \A r \in Request : RequestOK(r)'
    BY <1>1, FrameOK DEF vars, Inv
  <2> QED BY <2>1, <2>2 DEF Inv
<1>2. ASSUME NEW r \in Request, Step(r) PROVE Inv'
  BY <1>2, VerifyInv, FindInv, InsertInv, GrantInv, IssueInv, DeleteInv, ReadInv
     DEF Step
<1> QED BY <1>1, <1>2, ReceiveInv, TurnAwayInv, SetRoleInv, ExpireInv, CrashInv DEF Next

LEMMA Invariance == Spec => []Inv
BY InitInv, NextInv, PTL DEF Spec

-----------------------------------------------------------------------------
\* The theorems.

\* The tables, tokens and requests of the account endpoints keep their types:
\* a token always has a role, and no other status code is answered.
THEOREM TypeCorrect == Spec => []TypeOK
<1>1. Inv => TypeOK
  BY DEF Inv
<1> QED BY <1>1, Invariance, PTL

\* However sign-ups, POST /users and DELETE /users race, fail and crash, no two
\* accounts have one email.
THEOREM EmailsStayUnique == Spec => []OneAccountPerEmail
<1>1. Inv => OneAccountPerEmail
  BY DEF Inv, TablesOK
<1> QED BY <1>1, Invariance, PTL

\* No account ever gets its casbin_rule row twice.
THEOREM GrantsStaySingle == Spec => []AtMostOneGrant
<1>1. Inv => AtMostOneGrant
  BY DEF Inv, TablesOK
<1> QED BY <1>1, Invariance, PTL

\* A sign-in creates an account only under an email that it saw without one.
THEOREM SignUpsAreNeeded == Spec => []NoNeedlessSignUp
<1>1. Inv => NoNeedlessSignUp
  BY DEF Inv, RequestOK, NoNeedlessSignUp
<1> QED BY <1>1, Invariance, PTL

\* A token says what the account of the vouched email was entitled to at some
\* time since the request that gets it arrived.
THEOREM TokensStayFresh == Spec => TokensAreFresh
<1>1. Inv /\ [Next]_vars =>
        [\A t \in tokens' \ tokens :
           \E r \in Request : pc[r] = "issue" /\ t \in seen[r]]_vars
  <2> SUFFICES ASSUME Inv, [Next]_vars, NEW t \in tokens' \ tokens
               PROVE  \E r \in Request : pc[r] = "issue" /\ t \in seen[r]
    OBVIOUS
  <2>1. PICK r \in Request : Issue(r)
    BY DEF vars, Next, Step, Receive, TurnAway, Verify, Find, Insert, Grant, Delete,
           Read, SetRole, Expire, Crash
  <2>2. pc[r] = "issue" /\ t = Claim(r)
    BY <2>1 DEF Issue, Claim
  <2> QED BY <2>2 DEF Inv, RequestOK
<1> QED BY <1>1, Invariance, PTL DEF Spec, TokensAreFresh

\* Every stored account can be read back, so one row never breaks GET /users.
THEOREM RowsStayReadable == Spec => []RowsReadable
<1>1. Inv => RowsReadable
  BY DEF Inv, TablesOK
<1> QED BY <1>1, Invariance, PTL

\* What DELETE /users leaves behind never passes to a new account.
THEOREM AccountsStartFresh == Spec => FreshStart
<1>1. Inv /\ [Next]_vars =>
        [\A u \in UserID :
           users[u] = NoRow /\ users'[u] # NoRow =>
             /\ grants[u] = 0
             /\ \A t \in tokens : t.user # u
             /\ \A r \in Request : loaded[r] # NoRow => loaded[r].id # u]_vars
  <2> SUFFICES ASSUME Inv, [Next]_vars, NEW u \in UserID,
                      users[u] = NoRow, users'[u] # NoRow
               PROVE  u \notin used /\ grants[u] \in Nat
    BY DEF Inv, TablesOK, RequestOK
  <2>1. PICK r \in Request : Insert(r) \/ Delete(r)
    BY DEF vars, Next, Step, Receive, TurnAway, Verify, Find, Grant, Issue, tables,
           Read, SetRole, Expire, Crash, Inv, TypeOK
  <2>2. Insert(r)
    BY <2>1 DEF Delete, Inv, TypeOK
  <2>3. PICK v \in NewID : users' = [users EXCEPT ![v] = NewAccount(input[r])]
    BY <2>2 DEF Insert
  <2>4. u = v
    BY <2>3 DEF Inv, TypeOK
  <2> QED BY <2>4 DEF NewID, Inv, TypeOK
<1> QED BY <1>1, Invariance, PTL DEF Spec, FreshStart

-----------------------------------------------------------------------------
\* The casbin_rule row of a sign-up: when it is there, and when it never comes.

GrantPending(u) == \E r \in Request : pc[r] = "grant" /\ loaded[r].id = u

\* Every account of a sign-up has its row, or its sign-up is about to add it.
GrantsFollow ==
  \A u \in UserID : users[u] # NoRow /\ users[u].google => grants[u] > 0 \/ GrantPending(u)

\* A step that moves only r, which was not about to add a row.
LEMMA PendingKept ==
  ASSUME Inv, NEW r \in Request, pc[r] # "grant", NEW u \in UserID, GrantPending(u),
         \A s \in Request : s # r => pc'[s] = pc[s] /\ loaded'[s] = loaded[s]
  PROVE  GrantPending(u)'
BY DEF GrantPending

\* The request that a step of a goroutine moves.
LEMMA StepMovesOne ==
  ASSUME Inv, NEW r \in Request,
         \/ Verify(r) \/ Find(r) \/ Insert(r) \/ Grant(r) \/ Issue(r)
         \/ Delete(r) \/ Read(r)
  PROVE  \A s \in Request : s # r => pc'[s] = pc[s] /\ loaded'[s] = loaded[s]
<1> USE DEF Inv, TypeOK
<1>1. ASSUME NEW code, Answer(r, code)
      PROVE  \A s \in Request : s # r => pc'[s] = pc[s] /\ loaded'[s] = loaded[s]
  BY <1>1 DEF Answer, Goto
<1>2. ASSUME NEW l, Goto(r, l), NEW x, loaded' = [loaded EXCEPT ![r] = x] \/ loaded' = loaded
      PROVE  \A s \in Request : s # r => pc'[s] = pc[s] /\ loaded'[s] = loaded[s]
  BY <1>2 DEF Goto
<1>3. CASE Verify(r) \/ Grant(r) \/ Issue(r) \/ Delete(r) \/ Read(r)
  BY <1>1, <1>2, <1>3 DEF Verify, Grant, Issue, Delete, Read, Proceed
<1>4. CASE Find(r)
  BY <1>1, <1>2, <1>4 DEF Find, Proceed
<1>5. CASE Insert(r)
  BY <1>1, <1>2, <1>5 DEF Insert
<1> QED BY <1>3, <1>4, <1>5

LEMMA NextGrantsFollow ==
  ASSUME ~Failures, Inv, GrantsFollow, [Next]_vars
  PROVE  GrantsFollow'
<1> SUFFICES ASSUME NEW u \in UserID, users'[u] # NoRow, users'[u].google
             PROVE  grants'[u] > 0 \/ GrantPending(u)'
  BY DEF GrantsFollow
<1> USE DEF Inv, TypeOK
<1>1. ASSUME NEW r \in Request, Insert(r) PROVE grants'[u] > 0 \/ GrantPending(u)'
  <2>1. CASE UNCHANGED users
    BY <1>1, <2>1, StepMovesOne, PendingKept DEF Insert, GrantsFollow
  <2>2. ASSUME NEW v \in NewID, users' = [users EXCEPT ![v] = NewAccount(input[r])],
               \/ /\ input[r].op = "google" /\ Goto(r, "grant")
                  /\ loaded' = [loaded EXCEPT ![r] =
                                  [id |-> v, role |-> NewAccount(input[r]).role]]
               \/ input[r].op # "google"
        PROVE  grants'[u] > 0 \/ GrantPending(u)'
    <3>1. CASE u = v
      <4>1. users'[u] = NewAccount(input[r])
        BY <2>2, <3>1 DEF NewID
      <4>2. Goto(r, "grant")
            /\ loaded' = [loaded EXCEPT ![r] = [id |-> v, role |-> NewAccount(input[r]).role]]
        <5>1. NewAccount(input[r]).google
          BY <4>1
        <5>2. input[r].op = "google"
          BY <5>1 DEF NewAccount
        <5> QED BY <2>2, <5>2
      <4>3. pc'[r] = "grant" /\ loaded'[r].id = u
        BY <3>1, <4>2 DEF Goto
      <4> QED BY <4>3 DEF GrantPending
    <3>2. CASE u # v
      BY <1>1, <2>2, <3>2, StepMovesOne, PendingKept DEF Insert, GrantsFollow, NewID
    <3> QED BY <3>1, <3>2
  <2> QED BY <1>1, <2>1, <2>2 DEF Insert
<1>2. ASSUME NEW r \in Request, Grant(r) PROVE grants'[u] > 0 \/ GrantPending(u)'
  <2>1. /\ pc[r] = "grant" /\ loaded[r].id \in UserID /\ UNCHANGED users
        /\ grants' = [grants EXCEPT ![loaded[r].id] = @ + 1]
    BY <1>2, NilAssumption DEF Grant, RequestOK, Loaded
  <2>2. CASE u = loaded[r].id
    BY <2>1, <2>2
  <2>3. CASE u # loaded[r].id
    BY <1>2, <2>1, <2>3, StepMovesOne DEF GrantsFollow, GrantPending
  <2> QED BY <2>2, <2>3
<1>3. ASSUME NEW r \in Request, Verify(r) \/ Find(r) \/ Issue(r) \/ Delete(r) \/ Read(r)
      PROVE  grants'[u] > 0 \/ GrantPending(u)'
  <2>1. pc[r] # "grant" /\ UNCHANGED grants
    BY <1>3 DEF Verify, Find, Issue, Delete, Read, tables
  <2>2. users[u] # NoRow /\ users[u].google
    BY <1>3 DEF Verify, Find, Issue, Delete, Read, tables
  <2> QED BY <1>3, <2>1, <2>2, StepMovesOne, PendingKept DEF GrantsFollow
<1>4. ASSUME NEW r \in Request, (\E i \in Input : Receive(r, i)) \/ TurnAway(r)
      PROVE  grants'[u] > 0 \/ GrantPending(u)'
  BY <1>4 DEF Receive, TurnAway, Goto, GrantsFollow, GrantPending
<1>5. ASSUME NEW v \in UserID, NEW role \in Role, SetRole(v, role)
      PROVE  grants'[u] > 0 \/ GrantPending(u)'
  <2>1. users[u] # NoRow /\ users[u].google
    BY <1>5 DEF SetRole, Account
  <2> QED BY <1>5, <2>1 DEF SetRole, GrantsFollow, GrantPending
<1>6. CASE (\E old \in SUBSET tokens : Expire(old)) \/ UNCHANGED vars
  BY <1>6 DEF Expire, vars, GrantsFollow, GrantPending
<1> QED BY <1>1, <1>2, <1>3, <1>4, <1>5, <1>6 DEF Next, Step, Crash

\* GS-001: if no statement fails and the server does not crash, an account made
\* by a sign-up has its casbin_rule row whenever no sign-up is between its two
\* INSERTs, however many requests were open.
THEOREM SignUpsGetTheirGrant ==
  ASSUME ~Failures
  PROVE  Spec => []((\A r \in Request : pc[r] # "grant") => SignedUpHasGrant)
<1>1. Init => GrantsFollow
  BY DEF Init, GrantsFollow
<1>2. Inv /\ GrantsFollow /\ [Next]_vars => GrantsFollow'
  BY NextGrantsFollow
<1>3. Inv /\ GrantsFollow => ((\A r \in Request : pc[r] # "grant") => SignedUpHasGrant)
  BY DEF Inv, TypeOK, Token, GrantsFollow, GrantPending, SignedUpHasGrant
<1> QED BY <1>1, <1>2, <1>3, Invariance, PTL DEF Spec

\* An account that was cut off between its two INSERTs never gets its row: no
\* later sign-in, retry or restart makes up for it.
THEOREM LostGrantsStayLost ==
  Spec => [][\A u \in used : grants[u] = 0 /\ ~GrantPending(u) =>
                               grants'[u] = 0 /\ ~GrantPending(u)']_vars
<1>1. ASSUME Inv, [Next]_vars, NEW u \in used, grants[u] = 0, ~GrantPending(u)
      PROVE  grants'[u] = 0 /\ ~GrantPending(u)'
  <2> USE <1>1 DEF Inv, TypeOK
  <2>1. ASSUME NEW r \in Request, UNCHANGED grants, pc'[r] = "grant" => loaded'[r].id # u,
               \A s \in Request : s # r => pc'[s] = pc[s] /\ loaded'[s] = loaded[s]
        PROVE  grants'[u] = 0 /\ ~GrantPending(u)'
    BY <2>1 DEF GrantPending
  <2>2. ASSUME NEW r \in Request, Insert(r) PROVE grants'[u] = 0 /\ ~GrantPending(u)'
    <3>1. UNCHANGED grants
      BY <2>2 DEF Insert
    <3>2. ASSUME pc'[r] = "grant" PROVE loaded'[r].id # u
      <4>1. ASSUME NEW code PROVE ~Answer(r, code)
        BY <3>2 DEF Answer, Goto
      <4>2. PICK v \in NewID :
              loaded' = [loaded EXCEPT ![r] = [id |-> v, role |-> NewAccount(input[r]).role]]
        BY <2>2, <4>1 DEF Insert
      <4>3. loaded'[r].id = v
        BY <4>2
      <4> QED BY <4>3 DEF NewID
    <3> QED BY <2>1, <2>2, <3>1, <3>2, StepMovesOne
  <2>3. ASSUME NEW r \in Request, Grant(r) PROVE grants'[u] = 0 /\ ~GrantPending(u)'
    <3>1. pc[r] = "grant" /\ loaded[r].id \in UserID /\ loaded[r].id # u /\ u \in UserID
      BY <2>3, NilAssumption DEF Grant, RequestOK, Loaded, GrantPending
    <3>2. grants'[u] = 0
      BY <2>3, <3>1 DEF Grant
    <3>3. pc'[r] # "grant"
      BY <2>3 DEF Grant, Proceed, Answer, Goto
    <3> QED BY <2>3, <3>2, <3>3, StepMovesOne DEF GrantPending
  <2>4. ASSUME NEW r \in Request, Verify(r) \/ Find(r) \/ Issue(r) \/ Delete(r) \/ Read(r)
        PROVE  grants'[u] = 0 /\ ~GrantPending(u)'
    <3>1. UNCHANGED grants
      BY <2>4 DEF Verify, Find, Issue, Delete, Read, tables
    <3>2. ASSUME NEW l, l # "grant", Goto(r, l) PROVE pc'[r] # "grant"
      BY <3>2 DEF Goto
    <3>3. pc'[r] # "grant"
      <4>1. ASSUME NEW code, Answer(r, code) PROVE pc'[r] # "grant"
        BY <3>2, <4>1 DEF Answer
      <4>2. ASSUME NEW l, l # "grant", Proceed(r, l) PROVE pc'[r] # "grant"
        BY <3>2, <4>2 DEF Proceed
      <4>3. CASE Verify(r)
        BY <4>1, <4>2, <4>3 DEF Verify
      <4>4. CASE Find(r)
        BY <3>2, <4>1, <4>2, <4>4 DEF Find
      <4>5. CASE Issue(r) \/ Read(r)
        BY <4>1, <4>5 DEF Issue, Read
      <4>6. CASE Delete(r)
        BY <4>1, <4>6 DEF Delete
      <4> QED BY <2>4, <4>3, <4>4, <4>5, <4>6
    <3> QED BY <2>1, <2>4, <3>1, <3>3, StepMovesOne
  <2>5. ASSUME NEW r \in Request, NEW i \in Input, Receive(r, i)
        PROVE  grants'[u] = 0 /\ ~GrantPending(u)'
    <3>1. pc'[r] # "grant" /\ UNCHANGED <<grants, loaded>>
      BY <2>5 DEF Receive, Goto
    <3>2. \A s \in Request : s # r => pc'[s] = pc[s]
      BY <2>5 DEF Receive, Goto
    <3> QED BY <2>1, <3>1, <3>2
  <2>6. CASE \/ \E r \in Request : TurnAway(r)
             \/ \E v \in UserID, role \in Role : SetRole(v, role)
             \/ \E old \in SUBSET tokens : Expire(old)
             \/ UNCHANGED vars
    BY <2>6 DEF TurnAway, SetRole, Expire, vars, GrantPending
  <2>7. CASE Crash
    BY <2>7 DEF Crash, GrantPending
  <2> QED BY <2>2, <2>3, <2>4, <2>5, <2>6, <2>7 DEF Next, Step
<1>2. Inv /\ [Next]_vars =>
        [\A u \in used : grants[u] = 0 /\ ~GrantPending(u) =>
                           grants'[u] = 0 /\ ~GrantPending(u)']_vars
  BY <1>1
<1> QED BY <1>2, Invariance, PTL DEF Spec

-----------------------------------------------------------------------------
\* What stands behind Answered.

\* How many steps a request still makes at most.
StepsLeft ==
  [idle |-> 0, delete |-> 1, read |-> 1, issue |-> 1, grant |-> 2, insert |-> 3,
   find |-> 4, verify |-> 5]

\* A request comes closer to its answer with every step of its own, and nothing
\* sends it back: a sign-up whose INSERT the index refuses because another one
\* was faster is answered, and does not look for the account again.
THEOREM RequestsDescend ==
  Spec => [][\A r \in Request : pc[r] # "idle" =>
               /\ StepsLeft[pc'[r]] <= StepsLeft[pc[r]]
               /\ Step(r) => StepsLeft[pc'[r]] < StepsLeft[pc[r]]]_vars
<1> DEFINE Down(r) == StepsLeft[pc'[r]] < StepsLeft[pc[r]]
<1> USE DEF Inv, TypeOK, Label
<1>1. ASSUME Inv, NEW r \in Request, NEW l, Goto(r, l)
      PROVE  pc'[r] = l /\ \A s \in Request : s # r => pc'[s] = pc[s]
  BY <1>1 DEF Goto
<1>2. ASSUME Inv, NEW r \in Request, Step(r) PROVE Down(r) /\ \E l : Goto(r, l)
  <2>1. CASE Goto(r, "idle")
    <3>1. pc[r] \in Label \ {"idle"}
      BY <1>2 DEF Step, Verify, Find, Insert, Grant, Issue, Delete, Read
    <3> QED BY <1>1, <1>2, <2>1, <3>1 DEF StepsLeft
  <2>2. CASE \/ pc[r] = "verify" /\ Goto(r, "find")
             \/ pc[r] = "find" /\ (Goto(r, "issue") \/ Goto(r, "insert"))
             \/ pc[r] = "insert" /\ Goto(r, "grant")
             \/ pc[r] = "grant" /\ Goto(r, "issue")
    BY <1>1, <1>2, <2>2 DEF StepsLeft
  <2>3. CASE Verify(r) \/ Grant(r) \/ Issue(r) \/ Delete(r) \/ Read(r)
    BY <2>1, <2>2, <2>3 DEF Verify, Grant, Issue, Delete, Read, Answer, Proceed
  <2>4. CASE Find(r)
    BY <2>1, <2>2, <2>4 DEF Find, Answer, Proceed
  <2>5. CASE Insert(r)
    BY <2>1, <2>2, <2>5 DEF Insert, Answer
  <2> QED BY <1>2, <2>3, <2>4, <2>5 DEF Step
<1>3. ASSUME Inv, Inv', [Next]_vars, NEW r \in Request, pc[r] # "idle"
      PROVE  StepsLeft[pc'[r]] <= StepsLeft[pc[r]] /\ (Step(r) => Down(r))
  <2>1. /\ pc[r] \in Label /\ pc'[r] \in Label
        /\ \A l \in Label : StepsLeft[l] \in Nat /\ StepsLeft["idle"] <= StepsLeft[l]
    BY <1>3 DEF StepsLeft
  <2>2. CASE Step(r)
    BY <1>2, <1>3, <2>1, <2>2
  <2>3. CASE pc'[r] = pc[r]
    BY <1>2, <1>3, <2>1, <2>3
  <2>4. CASE Crash
    BY <1>2, <1>3, <2>1, <2>4 DEF Crash
  <2>5. ASSUME NEW s \in Request, s # r, Step(s) PROVE pc'[r] = pc[r]
    BY <1>1, <1>2, <1>3, <2>5
  <2>6. ASSUME NEW s \in Request, (\E i \in Input : Receive(s, i)) \/ TurnAway(s)
        PROVE  pc'[r] = pc[r]
    BY <1>1, <1>3, <2>6 DEF Receive, TurnAway
  <2>7. CASE \/ UNCHANGED vars
             \/ \E u \in UserID, role \in Role : SetRole(u, role)
             \/ \E old \in SUBSET tokens : Expire(old)
    BY <2>3, <2>7 DEF SetRole, Expire, vars
  <2> QED BY <1>3, <2>2, <2>3, <2>4, <2>5, <2>6, <2>7 DEF Next
<1>4. Inv /\ Inv' /\ [Next]_vars =>
        [\A r \in Request : pc[r] # "idle" =>
           /\ StepsLeft[pc'[r]] <= StepsLeft[pc[r]]
           /\ Step(r) => Down(r)]_vars
  BY <1>3
<1> QED BY <1>4, Invariance, PTL DEF Spec

=============================================================================
