---------------------------- MODULE SystemProofs ----------------------------
(***************************************************************************)
(* Proofs about System, for any tables and migration files, any number of  *)
(* requests, accounts and classes, and any lifetime of the tokens.         *)
(***************************************************************************)
EXTENDS System, TLAPS

-----------------------------------------------------------------------------
\* The inductive invariant.

Types ==
  /\ accounts \in [UserID -> Account \cup {NoRow}]
  /\ used \subseteq UserID
  /\ accountAsked \in [AccountRequest -> AccountInput \cup {NoInput}]
  /\ earned \in [AccountRequest -> Token \cup {NoRow}]
  /\ classes \in [ClassID -> Row \cup {NoRow}]
  /\ classAsked \in [ClassRequest -> ClassInput \cup {NoInput}]
  /\ caller \in [ClassRequest -> Token \cup {NoRow}]

\* What a token says is as old as it may be, and new if it is deserved.
Ages ==
  /\ left \in [Token -> 0..TTL]
  /\ age \in [Token -> 0..Never]
  /\ \A t \in Token : left[t] > 0 => left[t] + age[t] <= TTL
  /\ \A t \in Token : Deserved(t) => age[t] = 0

\* An open class request has the role of a token that was deserved once.
Callers ==
  \A r \in ClassRequest : classAsked[r] # NoInput =>
    /\ caller[r] \in Token
    /\ age[caller[r]] # Never
    /\ classAsked[r].role = caller[r].role

\* AutoMigrate leaves a table only when it is current, and none is touched
\* before the process has ended.
Progress ==
  /\ S!TypeOK
  /\ \A k \in 1..Len(Order) :
       phase = "migrating" /\ k < next => schema[Order[k]] = "current"
  /\ phase # "migrating" => next = 1
  /\ phase # "opening" => attempt = 0
  /\ attempt < MaxAttempts
  /\ S!ServesMigrated

Closed ==
  /\ \A r \in AccountRequest : accountAsked[r] = NoInput /\ earned[r] = NoRow
  /\ \A r \in ClassRequest : classAsked[r] = NoInput

Inv ==
  /\ Types
  /\ Ages
  /\ Callers
  /\ Progress
  /\ phase # "serving" => Closed
  /\ (\E u \in UserID : accounts[u] # NoRow) => schema[Users] = "current"

-----------------------------------------------------------------------------
\* Ages.

LEMMA AgesKept ==
  ASSUME Ages, Remember, UNCHANGED left
  PROVE  Ages' /\ \A t \in Token : age[t] # Never => age'[t] # Never
<1>1. \A t \in Token : age'[t] = IF Deserved(t)' THEN 0 ELSE age[t]
  BY DEF Remember
<1>2. TTL \in Nat /\ Never \in Nat /\ Never # 0
  BY SystemAssumption DEF Never
<1>3. age' \in [Token -> 0..Never]
  BY <1>2 DEF Ages, Remember
<1> QED BY <1>1, <1>2, <1>3 DEF Ages

LEMMA AgesIssue ==
  ASSUME Types, Ages, Remember, NEW r \in AccountRequest, earned[r] # NoRow,
         left' = [left EXCEPT ![earned[r]] = TTL]
  PROVE  Ages' /\ \A t \in Token : age[t] # Never => age'[t] # Never
<1>1. \A t \in Token : age'[t] = IF Deserved(t)' THEN 0 ELSE age[t]
  BY DEF Remember
<1>2. TTL \in Nat /\ Never \in Nat /\ Never # 0
  BY SystemAssumption DEF Never
<1>3. earned[r] \in Token /\ age[earned[r]] = 0
  BY DEF Types, Ages, Deserved
<1>4. age' \in [Token -> 0..Never] /\ left' \in [Token -> 0..TTL]
  <2>1. age' \in [Token -> 0..Never]
    BY <1>2 DEF Ages, Remember
  <2>2. TTL \in 0..TTL
    BY <1>2
  <2>3. left' \in [Token -> 0..TTL]
    BY <1>3, <2>2 DEF Ages
  <2> QED BY <2>1, <2>3
<1>5. \A t \in Token : left'[t] = IF t = earned[r] THEN TTL ELSE left[t]
  BY <1>3 DEF Ages
<1> QED BY <1>1, <1>2, <1>3, <1>4, <1>5 DEF Ages

LEMMA AgesTick ==
  ASSUME Ages, Tick
  PROVE  Ages' /\ \A t \in Token : age[t] # Never => age'[t] # Never
<1>1. TTL \in Nat /\ Never = TTL + 1
  BY SystemAssumption DEF Never
<1>2. \A t \in Token :
        /\ left'[t] = IF left[t] > 0 THEN left[t] - 1 ELSE 0
        /\ age'[t] = IF Deserved(t) \/ age[t] >= TTL THEN age[t] ELSE age[t] + 1
        /\ left[t] \in 0..TTL /\ age[t] \in 0..Never
  BY DEF Tick, Ages
<1>3. age' \in [Token -> 0..Never] /\ left' \in [Token -> 0..TTL]
  <2>1. \A t \in Token : age'[t] \in 0..Never /\ left'[t] \in 0..TTL
    BY <1>1, <1>2
  <2>2. age' = [t \in Token |-> age'[t]] /\ left' = [t \in Token |-> left'[t]]
    BY DEF Tick
  <2> QED BY <2>1, <2>2
<1>4. \A t \in Token : Deserved(t)' <=> Deserved(t)
  BY DEF Tick, Deserved, accountVars
<1> QED BY <1>1, <1>2, <1>3, <1>4 DEF Ages

-----------------------------------------------------------------------------
\* The stores keep their types.

LEMMA EmailOf ==
  ASSUME NEW i \in AccountInput, i.op = "google" \/ i.op = "create"
  PROVE  i.email \in Email
BY AccountAssumption

LEMMA VisitTypes ==
  ASSUME Types, NEW r \in AccountRequest, NEW i \in AccountInput, A!Ask(r, i)
  PROVE  /\ UNCHANGED <<accounts, used, earned>>
         /\ accountAsked' \in [AccountRequest -> AccountInput \cup {NoInput}]
BY DEF Types, A!Ask

LEMMA AccountsClose ==
  ASSUME Types, NEW r \in AccountRequest, NEW code, A!Close(r, code)
  PROVE  /\ accountAsked' \in [AccountRequest -> AccountInput \cup {NoInput}]
         /\ earned' \in [AccountRequest -> Token \cup {NoRow}]
BY DEF Types, A!Close

LEMMA AccountsEarn ==
  ASSUME Types, NEW r \in AccountRequest, NEW t \in Token, A!Earn(r, t)
  PROVE  /\ accountAsked' \in [AccountRequest -> AccountInput \cup {NoInput}]
         /\ earned' \in [AccountRequest -> Token \cup {NoRow}]
BY DEF Types, A!Earn

LEMMA ServeTypes ==
  ASSUME Types, NEW r \in AccountRequest, Serve(r) PROVE Types'
<1>1. UNCHANGED <<classes, classAsked, caller>>
  BY DEF Serve, classVars
<1>2. accountAsked[r] # NoInput => accountAsked[r] \in AccountInput
  BY DEF Types
<1>3. CASE A!Refuse(r) \/ A!Show(r)
  <2>1. UNCHANGED <<accounts, used>>
    BY <1>3 DEF A!Refuse, A!Show
  <2>2. \/ A!Close(r, 200) \/ A!Close(r, 400) \/ A!Close(r, 401)
        \/ A!Close(r, 404) \/ A!Close(r, 500)
    BY <1>3 DEF A!Refuse, A!Show
  <2> QED BY <1>1, <2>1, <2>2, AccountsClose DEF Types
<1>4. CASE A!Delete(r)
  <2>1. accounts' \in [UserID -> Account \cup {NoRow}] /\ UNCHANGED used
    BY <1>4 DEF Types, A!Delete
  <2>2. A!Close(r, 204) \/ A!Close(r, 500)
    BY <1>4 DEF A!Delete
  <2> QED BY <1>1, <2>1, <2>2, AccountsClose DEF Types
<1>5. ASSUME NEW u \in UserID, A!SignIn(r, u) PROVE Types'
  <2> DEFINE role == IF accounts[u].role = Unset THEN Student ELSE accounts[u].role
             t == [user |-> u, role |-> role]
  <2>1. role \in Role
    BY <1>5, AccountAssumption DEF Types, A!SignIn, Account
  <2>2. t \in Token
    BY <2>1 DEF Token
  <2>3. A!Earn(r, t) /\ UNCHANGED <<accounts, used>>
    BY <1>5 DEF A!SignIn
  <2> HIDE DEF t
  <2> QED BY <1>1, <2>2, <2>3, AccountsEarn DEF Types
<1>6. ASSUME NEW u \in UserID, A!SignUp(r, u) PROVE Types'
  <2>1. [email |-> accountAsked[r].email, role |-> Student] \in Account
    <3>1. accountAsked[r] \in AccountInput /\ accountAsked[r].op = "google"
      BY <1>2, <1>6 DEF A!SignUp, A!Open
    <3>2. accountAsked[r].email \in Email
      BY <3>1, EmailOf
    <3> QED BY <3>2, AccountAssumption DEF Account
  <2>2. accounts' \in [UserID -> Account \cup {NoRow}] /\ used' \subseteq UserID
    BY <1>6, <2>1 DEF Types, A!SignUp, A!Add
  <2>3. A!Earn(r, [user |-> u, role |-> Student]) \/ A!Close(r, 500)
    BY <1>6 DEF A!SignUp
  <2>4. [user |-> u, role |-> Student] \in Token
    BY AccountAssumption DEF Token
  <2> QED BY <1>1, <2>2, <2>3, <2>4, AccountsEarn, AccountsClose DEF Types
<1>7. ASSUME NEW u \in UserID, A!Create(r, u) PROVE Types'
  <2>1. [email |-> accountAsked[r].email, role |-> Unset] \in Account
    <3>1. accountAsked[r] \in AccountInput /\ accountAsked[r].op = "create"
      BY <1>2, <1>7 DEF A!Create, A!Open
    <3>2. accountAsked[r].email \in Email
      BY <3>1, EmailOf
    <3> QED BY <3>2 DEF Account
  <2>2. accounts' \in [UserID -> Account \cup {NoRow}] /\ used' \subseteq UserID
    BY <1>7, <2>1 DEF Types, A!Create, A!Add
  <2>3. A!Close(r, 201) \/ A!Close(r, 500)
    BY <1>7 DEF A!Create
  <2> QED BY <1>1, <2>2, <2>3, AccountsClose DEF Types
<1> QED BY <1>3, <1>4, <1>5, <1>6, <1>7 DEF Serve

LEMMA WorkTypes ==
  ASSUME Types, NEW r \in ClassRequest, Work(r) PROVE Types'
<1>1. UNCHANGED <<accounts, used, accountAsked, earned>>
  BY DEF Work, accountVars
<1>2. caller' \in [ClassRequest -> Token \cup {NoRow}]
  BY DEF Types, Work
<1>3. \E code : C!Close(r, code)
  BY DEF Work, C!Update, C!UpdateNothing, C!Refuse, C!Create
<1>4. classAsked' \in [ClassRequest -> ClassInput \cup {NoInput}]
  BY <1>3 DEF Types, C!Close
<1>5. \A i \in CreateInput : NewClass(i) \in Row
  BY NameAssumption DEF CreateInput, NewClass, Row
<1>6. \A i \in UpdateInput, row \in Row : Merge(row, i) \in Row
  BY NameAssumption DEF UpdateInput, Merge, Row
<1>7. classes' \in [ClassID -> Row \cup {NoRow}]
  <2>1. CASE C!Update(r)
    <3> DEFINE c == CanonID[classAsked[r].path]
    <3>1. /\ c \in ClassID /\ classes[c] \in Row
          /\ classAsked[r] \in UpdateInput
          /\ classes' = [classes EXCEPT ![c] = Merge(classes[c], classAsked[r])]
      BY <2>1 DEF Types, C!Update, C!UpdateInput, UpdateInput, Merge, C!Merge
    <3> HIDE DEF c
    <3> QED BY <1>6, <3>1 DEF Types
  <2>2. CASE \E c \in ClassID : C!Create(r, c)
    <3>1. PICK c \in ClassID : C!Create(r, c)
      BY <2>2
    <3>2. /\ classAsked[r] \in CreateInput
          /\ classes' = [classes EXCEPT ![c] = NewClass(classAsked[r])]
      BY <3>1 DEF C!Create, C!CreateInput, CreateInput, NewClass, C!NewClass
    <3> QED BY <1>5, <3>2 DEF Types
  <2>3. CASE C!UpdateNothing(r) \/ C!Refuse(r)
    BY <2>3 DEF Types, C!UpdateNothing, C!Refuse
  <2> QED BY <2>1, <2>2, <2>3 DEF Work
<1> QED BY <1>1, <1>2, <1>4, <1>7 DEF Types

-----------------------------------------------------------------------------
\* The server process.

LEMMA OrderFacts ==
  /\ Len(Order) \in Nat
  /\ \A k \in 1..Len(Order) : Order[k] \in Table
  /\ \A t \in Table : \E k \in 1..Len(Order) : Order[k] = t
  /\ MaxAttempts \in Nat \ {0}
BY ServerAssumption

LEMMA StartProgress ==
  ASSUME Progress, S!Start PROVE Progress'
<1> USE OrderFacts DEF Progress, S!TypeOK, S!ServesMigrated, S!Enter
<1>1. CASE S!Boot
  BY <1>1 DEF S!Boot
<1>2. CASE S!Open
  BY <1>2 DEF S!Open
<1>3. CASE S!Migrate
  <2> DEFINE t == Order[next]
  <2>1. /\ phase = "migrating" /\ next \in 1..Len(Order) /\ t \in Table
        /\ UNCHANGED trouble
    BY <1>3 DEF S!Migrate
  <2>2. CASE S!Enter("down") /\ UNCHANGED schema
    BY <2>1, <2>2
  <2>3. CASE /\ schema' = [schema EXCEPT ![t] = S!Upgraded(t)]
             /\ next' = IF S!Upgraded(t) = "current" THEN next + 1 ELSE next
             /\ UNCHANGED <<phase, attempt>>
    <3>1. /\ S!Upgraded(t) \in {"bare", "current"}
          /\ schema[t] = "current" => S!Upgraded(t) = "current"
      BY DEF S!Upgraded
    <3>2. S!TypeOK'
      BY <2>1, <2>3, <3>1
    <3>3. \A k \in 1..Len(Order) : k < next' => schema'[Order[k]] = "current"
      BY <2>1, <2>3, <3>1
    <3> QED BY <2>1, <2>3, <3>2, <3>3
  <2> QED BY <1>3, <2>2, <2>3 DEF S!Migrate
<1>4. CASE S!Listen
  <2>1. \A t \in Table : schema[t] = "current"
    BY <1>4 DEF S!Listen
  <2> QED BY <1>4, <2>1 DEF S!Listen
<1> QED BY <1>1, <1>2, <1>3, <1>4 DEF S!Start

\* AutoMigrate leaves a current table as it is.
LEMMA StartKeepsCurrent ==
  ASSUME Progress, S!Start, NEW t \in Table, schema[t] = "current"
  PROVE  schema'[t] = "current"
<1>1. CASE S!Boot \/ S!Open \/ S!Listen
  BY <1>1 DEF S!Boot, S!Open, S!Listen
<1>2. CASE S!Migrate
  BY <1>2 DEF S!Migrate, S!Upgraded, Progress, S!TypeOK
<1> QED BY <1>1, <1>2 DEF S!Start

\* A process that starts is not one that serves.
LEMMA StartServes ==
  ASSUME S!Start PROVE phase # "serving"
BY DEF S!Start, S!Boot, S!Open, S!Migrate, S!Listen

LEMMA StopProgress ==
  ASSUME Progress, S!Stop PROVE Progress' /\ phase' = "down" /\ UNCHANGED schema
BY OrderFacts DEF Progress, S!TypeOK, S!ServesMigrated, S!Enter, S!Stop

LEMMA FileProgress ==
  ASSUME Progress, NEW t \in Table, S!FileUp(t) \/ S!FileDown(t)
  PROVE  Progress' /\ phase = "down" /\ UNCHANGED phase
BY OrderFacts DEF Progress, S!TypeOK, S!ServesMigrated, S!FileUp, S!FileDown

LEMMA ProgressStays ==
  ASSUME Progress, UNCHANGED <<phase, attempt, next, schema>>, trouble' \in BOOLEAN
  PROVE  Progress'
BY DEF Progress, S!TypeOK, S!ServesMigrated

LEMMA ServerStays ==
  ASSUME Progress, UNCHANGED serverVars
  PROVE  Progress' /\ UNCHANGED <<phase, schema>>
BY ProgressStays DEF serverVars, Progress, S!TypeOK

-----------------------------------------------------------------------------
\* The invariant is inductive.

LEMMA InitInv == Init => Inv
<1> SUFFICES ASSUME Init PROVE Inv
  OBVIOUS
<1> USE DEF Init, A!Init, C!Init, S!Init
<1>1. TTL \in Nat /\ Never = TTL + 1
  BY SystemAssumption DEF Never
<1>2. Types
  BY DEF Types
<1>3. Ages
  <2>1. \A t \in Token : ~Deserved(t)
    BY AccountAssumption DEF Deserved, Token
  <2> QED BY <1>1, <2>1 DEF Ages
<1>4. Callers /\ Closed
  BY DEF Callers, Closed
<1>5. Progress
  BY OrderFacts DEF Progress, S!TypeOK, S!ServesMigrated
<1> QED BY <1>2, <1>3, <1>4, <1>5 DEF Inv

LEMMA CallersKept ==
  ASSUME Callers, UNCHANGED <<classAsked, caller>>,
         \A t \in Token : age[t] # Never => age'[t] # Never
  PROVE  Callers'
BY DEF Callers

\* A step of the account endpoints.
LEMMA AccountStepInv ==
  ASSUME Inv, phase = "serving", UNCHANGED <<serverVars, classVars, caller>>,
         Types', Ages', \A t \in Token : age[t] # Never => age'[t] # Never
  PROVE  Inv'
<1>1. Progress' /\ UNCHANGED <<phase, schema>>
  BY ServerStays DEF Inv
<1>2. Callers'
  BY CallersKept DEF Inv, classVars
<1>3. schema[Users] = "current"
  BY SystemAssumption DEF Inv, Progress, S!ServesMigrated
<1> QED BY <1>1, <1>2, <1>3 DEF Inv

LEMMA VisitInv ==
  ASSUME Inv, Remember, NEW r \in AccountRequest, Visit(r) PROVE Inv'
<1>1. PICK i \in AccountInput : A!Ask(r, i)
  BY DEF Visit
<1>2. Types'
  BY <1>1, VisitTypes DEF Inv, Types, Visit, classVars
<1> QED BY <1>2, AgesKept, AccountStepInv DEF Inv, Visit

LEMMA ServeInv ==
  ASSUME Inv, Remember, NEW r \in AccountRequest, Serve(r) PROVE Inv'
BY ServeTypes, AgesKept, AccountStepInv DEF Inv, Serve

LEMMA IssueInv ==
  ASSUME Inv, Remember, NEW r \in AccountRequest, Issue(r) PROVE Inv'
<1>1. A!Close(r, 200) /\ UNCHANGED <<accounts, used>>
  BY DEF Issue, A!Issue
<1>2. Types'
  BY <1>1, AccountsClose DEF Inv, Types, Issue, classVars
<1> QED BY <1>2, AgesIssue, AccountStepInv DEF Inv, Issue

LEMMA AdmitInv ==
  ASSUME Inv, Remember, NEW r \in ClassRequest, NEW t \in Token, NEW i \in ClassInput,
         Admit(r, t, i)
  PROVE  Inv'
<1>1. /\ phase = "serving" /\ left[t] > 0 /\ i.role = t.role
      /\ classAsked' = [classAsked EXCEPT ![r] = i] /\ UNCHANGED classes
      /\ caller' = [caller EXCEPT ![r] = t]
      /\ UNCHANGED <<serverVars, accountVars, left>>
  BY DEF Admit, C!Ask, tokens
<1>2. Ages' /\ \A s \in Token : age[s] # Never => age'[s] # Never
  BY <1>1, AgesKept DEF Inv
<1>3. age[t] # Never
  BY <1>1, SystemAssumption DEF Inv, Ages, Never
<1>4. Callers'
  BY <1>1, <1>2, <1>3 DEF Inv, Types, Callers
<1>5. Types'
  BY <1>1 DEF Inv, Types, accountVars
<1>6. Progress' /\ UNCHANGED <<phase, schema, accounts>>
  BY <1>1, ServerStays DEF Inv, accountVars
<1> QED BY <1>1, <1>2, <1>4, <1>5, <1>6 DEF Inv

LEMMA WorkInv ==
  ASSUME Inv, Remember, NEW r \in ClassRequest, Work(r) PROVE Inv'
<1>1. /\ phase = "serving" /\ caller' = [caller EXCEPT ![r] = NoRow]
      /\ UNCHANGED <<serverVars, accountVars, left>>
  BY DEF Work
<1>2. classAsked' = [classAsked EXCEPT ![r] = NoInput]
  BY DEF Work, C!Update, C!UpdateNothing, C!Refuse, C!Create, C!Close
<1>3. Ages' /\ \A s \in Token : age[s] # Never => age'[s] # Never
  BY <1>1, AgesKept DEF Inv
<1>4. Callers'
  BY <1>1, <1>2, <1>3 DEF Inv, Types, Callers
<1>5. Progress' /\ UNCHANGED <<phase, schema, accounts>>
  BY <1>1, ServerStays DEF Inv, accountVars
<1> QED BY <1>1, <1>3, <1>4, <1>5, WorkTypes DEF Inv

LEMMA StartInv ==
  ASSUME Inv, Remember, Start PROVE Inv'
<1>1. /\ S!Start /\ UNCHANGED <<accounts, used, accountAsked, earned>>
      /\ UNCHANGED <<classes, classAsked, left, caller>>
  BY DEF Start, accountVars, classVars
<1>2. Types' /\ Closed'
  BY <1>1, StartServes DEF Inv, Types, Closed
<1>3. Ages' /\ \A s \in Token : age[s] # Never => age'[s] # Never
  BY <1>1, AgesKept DEF Inv
<1>4. Callers'
  BY <1>1, <1>3, CallersKept DEF Inv
<1>5. Progress'
  BY <1>1, StartProgress DEF Inv
<1>6. schema[Users] = "current" => schema'[Users] = "current"
  BY <1>1, StartKeepsCurrent, SystemAssumption DEF Inv
<1> QED BY <1>1, <1>2, <1>3, <1>4, <1>5, <1>6 DEF Inv

LEMMA StopInv ==
  ASSUME Inv, Remember, Stop PROVE Inv'
<1>1. Progress' /\ UNCHANGED schema
  BY StopProgress DEF Inv, Stop
<1>2. Types' /\ Closed' /\ Callers' /\ UNCHANGED accounts
  BY DEF Inv, Stop, A!Lose, C!Lose, Types, Closed, Callers
<1>3. Ages'
  BY AgesKept DEF Inv, Stop
<1> QED BY <1>1, <1>2, <1>3 DEF Inv

LEMMA RunFileInv ==
  ASSUME Inv, Remember, NEW t \in Table, RunFile(t) PROVE Inv'
<1>1. /\ S!FileUp(t) \/ S!FileDown(t)
      /\ UNCHANGED <<used, accountAsked, earned, classes, classAsked, left, caller>>
  BY DEF RunFile, classVars
<1>2. Progress' /\ phase = "down" /\ UNCHANGED phase
  BY <1>1, FileProgress DEF Inv
<1>3. /\ accounts' \in [UserID -> Account \cup {NoRow}]
      /\ \A u \in UserID : accounts'[u] # NoRow => accounts[u] # NoRow
      /\ t = Users => \A u \in UserID : accounts'[u] = NoRow
  BY DEF RunFile, S!FileUp, Inv, Types
<1>4. t # Users => schema'[Users] = schema[Users]
  BY <1>1, SystemAssumption DEF S!FileUp, S!FileDown, Inv, Progress, S!TypeOK
<1>5. Types' /\ Closed'
  BY <1>1, <1>2, <1>3 DEF Inv, Types, Closed
<1>6. Ages' /\ \A s \in Token : age[s] # Never => age'[s] # Never
  BY <1>1, AgesKept DEF Inv
<1>7. Callers'
  BY <1>1, <1>6, CallersKept DEF Inv
<1> QED BY <1>2, <1>3, <1>4, <1>5, <1>6, <1>7 DEF Inv

LEMMA OperateInv ==
  ASSUME Inv, Remember, Operate PROVE Inv'
<1>1. /\ UNCHANGED <<serverVars, used, accountAsked, earned>>
      /\ UNCHANGED <<classAsked, left, caller>>
  BY DEF Operate, A!SetRole, C!Remove, classVars, accountVars
<1>2. /\ accounts' \in [UserID -> Account \cup {NoRow}]
      /\ \A u \in UserID : accounts'[u] # NoRow => accounts[u] # NoRow
  <2>1. ASSUME NEW u \in UserID, NEW role \in Role, A!SetRole(u, role)
        PROVE  /\ accounts[u] \in Account
               /\ accounts' = [accounts EXCEPT ![u] = [accounts[u] EXCEPT !.role = role]]
    BY <2>1 DEF A!SetRole, Inv, Types
  <2>2. \A row \in Account, role \in Role : [row EXCEPT !.role = role] \in Account
    BY DEF Account
  <2> QED BY <2>1, <2>2 DEF Operate, A!SetRole, Inv, Types, accountVars
<1>3. classes' \in [ClassID -> Row \cup {NoRow}]
  BY DEF Operate, C!Remove, Inv, Types, classVars
<1>4. Types' /\ Progress' /\ UNCHANGED <<phase, schema>>
  BY <1>1, <1>2, <1>3, ServerStays DEF Inv, Types
<1>5. Ages' /\ \A s \in Token : age[s] # Never => age'[s] # Never
  BY <1>1, AgesKept DEF Inv
<1>6. Callers' /\ (Closed => Closed')
  BY <1>1, <1>5, CallersKept DEF Inv, Closed
<1> QED BY <1>2, <1>4, <1>5, <1>6 DEF Inv

LEMMA TurnInv ==
  ASSUME Inv, Remember, Turn PROVE Inv'
<1>1. /\ UNCHANGED <<accounts, used, accountAsked, earned>>
      /\ UNCHANGED <<classes, classAsked, left, caller>>
      /\ UNCHANGED <<phase, attempt, next, schema>> /\ trouble' \in BOOLEAN
  BY DEF Turn, S!Turn, accountVars, classVars
<1>2. Types' /\ (Closed => Closed') /\ Progress'
  BY <1>1, ProgressStays DEF Inv, Types, Closed
<1>3. Ages' /\ \A s \in Token : age[s] # Never => age'[s] # Never
  BY <1>1, AgesKept DEF Inv
<1>4. Callers'
  BY <1>1, <1>3, CallersKept DEF Inv
<1> QED BY <1>1, <1>2, <1>3, <1>4 DEF Inv

LEMMA TickInv ==
  ASSUME Inv, Tick PROVE Inv'
<1>1. /\ UNCHANGED <<accounts, used, accountAsked, earned>>
      /\ UNCHANGED <<classes, classAsked, caller>> /\ UNCHANGED serverVars
  BY DEF Tick, accountVars, classVars
<1>2. Types' /\ (Closed => Closed') /\ Progress' /\ UNCHANGED <<phase, schema>>
  BY <1>1, ServerStays DEF Inv, Types, Closed
<1>3. Ages' /\ \A s \in Token : age[s] # Never => age'[s] # Never
  BY AgesTick DEF Inv
<1>4. Callers'
  BY <1>1, <1>3, CallersKept DEF Inv
<1> QED BY <1>1, <1>2, <1>3, <1>4 DEF Inv

LEMMA StutterInv ==
  ASSUME Inv, UNCHANGED vars PROVE Inv'
BY DEF Inv, vars, serverVars, accountVars, classVars, Types, Ages, Deserved, Callers,
       Progress, S!TypeOK, S!ServesMigrated, Closed

LEMMA NextInv == Inv /\ [Next]_vars => Inv'
BY StutterInv, VisitInv, ServeInv, IssueInv, AdmitInv, WorkInv, StartInv, StopInv,
   RunFileInv, OperateInv, TurnInv, TickInv DEF Next

LEMMA Invariance == Spec => []Inv
BY InitInv, NextInv, PTL DEF Spec

-----------------------------------------------------------------------------
\* The theorems.

\* The composed system keeps its types.
THEOREM TypeCorrect == Spec => []TypeOK
<1>1. Inv => TypeOK
  BY DEF Inv, TypeOK, Types, Ages, Progress
<1> QED BY <1>1, Invariance, PTL

\* What a token says is never older than the token may be.
THEOREM AuthorityIsBounded == Spec => []StaleAuthorityBounded
<1>1. Inv => StaleAuthorityBounded
  BY DEF Inv, Ages, StaleAuthorityBounded, tokens
<1> QED BY <1>1, Invariance, PTL

\* Whatever start-ups broke off and whichever files were run, no request meets
\* an old table and no account is in one.
THEOREM SchemaComesFirst == Spec => []SchemaBeforeData
<1>1. Inv => SchemaBeforeData
  BY DEF Inv, Closed, Progress, S!ServesMigrated, SchemaBeforeData
<1> QED BY <1>1, Invariance, PTL

\* Only those who were administrators write classes.
THEOREM AdminsWrite == Spec => WritesByAdmins
<1> DEFINE Writers == {r \in ClassRequest : classAsked[r] # NoInput /\ classAsked'[r] = NoInput}
<1>1. ASSUME Inv, [Next]_vars, NEW c \in ClassID,
             classes'[c] # classes[c], classes'[c] # NoRow
      PROVE  /\ Writers # {}
             /\ \A r \in Writers : /\ caller[r] # NoRow /\ caller[r].role = Admin
                                    /\ age[caller[r]] # Never
  <2>1. ~Operate
    BY <1>1 DEF Operate, C!Remove, Inv, Types, classVars
  <2>2. PICK r \in ClassRequest : Work(r)
    BY <1>1, <2>1 DEF vars, classVars, Next, Visit, Serve, Issue, Admit, C!Ask, Start, Stop, C!Lose,
                      Turn, RunFile, Tick
  <2>3. C!Update(r) \/ \E d \in ClassID : C!Create(r, d)
    BY <1>1, <2>2 DEF Work, C!UpdateNothing, C!Refuse
  <2>4. classAsked[r].role = Admin
    BY <2>3 DEF C!Update, C!Create
  <2>5. classAsked[r] # NoInput
    BY <2>3, NoInputAssumption
       DEF C!Update, C!Create, C!CreateInput, C!UpdateInput, CreateInput, UpdateInput, Input
  <2>6. caller[r] # NoRow /\ caller[r].role = Admin /\ age[caller[r]] # Never
    BY <1>1, <2>4, <2>5, AccountAssumption DEF Inv, Callers
  \* The write answers its own request and no other.
  <2>7. classAsked' = [classAsked EXCEPT ![r] = NoInput]
    BY <2>3 DEF C!Update, C!Create, C!Close
  <2>8. Writers = {r}
    BY <1>1, <2>5, <2>7 DEF Inv, Types
  <2> QED BY <2>6, <2>8
<1>2. Inv /\ [Next]_vars =>
        [\A c \in ClassID :
           classes'[c] # classes[c] /\ classes'[c] # NoRow =>
             /\ Writers # {}
             /\ \A r \in Writers : /\ caller[r] # NoRow /\ caller[r].role = Admin
                                    /\ age[caller[r]] # Never]_vars
  BY <1>1
<1> QED BY <1>2, Invariance, PTL DEF Spec, WritesByAdmins

-----------------------------------------------------------------------------
\* What the endpoints promise one by one holds in the whole server.

\* The step that the class endpoints see of a step of the system.
LEMMA ClassStep ==
  ASSUME [Next]_vars PROVE [C!Next]_(C!vars)
<1> USE DEF C!vars, classVars
<1>1. C!Input = Input
  BY DEF C!Input, C!CreateInput, C!UpdateInput, Input, CreateInput, UpdateInput
<1>2. ASSUME NEW r \in ClassRequest, NEW t \in Token, NEW i \in ClassInput, Admit(r, t, i)
      PROVE  C!Next
  <2>1. i \in C!Input /\ C!Ask(r, i)
    BY <1>1, <1>2, SystemAssumption DEF Admit
  <2> QED BY <2>1 DEF C!Next
<1>3. ASSUME NEW r \in ClassRequest, Work(r) PROVE C!Next
  BY <1>3 DEF Work, C!Next
<1>4. CASE Stop
  BY <1>4 DEF Stop, C!Next
<1>5. CASE Operate
  <2>1. UNCHANGED classVars \/ \E c \in ClassID : C!Remove(c)
    BY <1>5 DEF Operate
  <2> QED BY <2>1 DEF C!Next
<1>6. CASE UNCHANGED classVars
  BY <1>6
<1>7. CASE \/ \E r \in AccountRequest : Visit(r) \/ Serve(r) \/ Issue(r)
           \/ Start \/ Turn \/ Tick \/ \E t \in Table : RunFile(t)
           \/ UNCHANGED vars
  BY <1>6, <1>7 DEF Visit, Serve, Issue, Start, Turn, Tick, RunFile, vars
<1> QED BY <1>2, <1>3, <1>4, <1>5, <1>7 DEF Next

\* Class clients see the one table of ClassStore, through restarts, migrations
\* and whatever the accounts go through: the server adds nothing to it.
THEOREM ClassClientsSeeTheStore == Spec => C!Spec
<1>1. Init => C!Init
  BY DEF Init
<1> QED BY <1>1, ClassStep, PTL DEF Spec, C!Spec

\* Every row can be read back, and no name stands in two.
RowsOK ==
  /\ \A c \in ClassID : classes[c] # NoRow => WellFormed(classes[c])
  /\ \A c, d \in ClassID :
       classes[c] # NoRow /\ classes[d] # NoRow /\ classes[c].name = classes[d].name
         => c = d

\* A row that is well-formed and whose name nobody has may be written.
LEMMA RowWritten ==
  ASSUME Types, RowsOK, NEW c \in ClassID, NEW row \in Row, WellFormed(row),
         ~NameTaken(classes, row.name, c), classes' = [classes EXCEPT ![c] = row]
  PROVE  RowsOK'
<1>1. \A d \in ClassID : classes'[d] = IF d = c THEN row ELSE classes[d]
  BY DEF Types
<1>2. \A d \in ClassID : classes'[d] # NoRow => WellFormed(classes'[d])
  BY <1>1 DEF RowsOK
<1>3. \A d, e \in ClassID :
        classes'[d] # NoRow /\ classes'[e] # NoRow /\ classes'[d].name = classes'[e].name
          => d = e
  BY <1>1 DEF RowsOK, NameTaken
<1> QED BY <1>2, <1>3 DEF RowsOK, WellFormed

LEMMA StoreKeepsRows ==
  ASSUME Types, RowsOK, [C!Next]_(C!vars) PROVE RowsOK'
<1>1. \A i \in CreateInput : NewClass(i) \in Row
  BY NameAssumption DEF CreateInput, NewClass, Row
<1>2. \A i \in UpdateInput, row \in Row : Merge(row, i) \in Row
  BY NameAssumption DEF UpdateInput, Merge, Row
<1>3. ASSUME NEW r \in ClassRequest, NEW c \in ClassID, C!Create(r, c) PROVE RowsOK'
  <2> DEFINE row == NewClass(classAsked[r])
  <2>1. /\ classAsked[r] \in CreateInput
        /\ WellFormed(row)
        /\ ~NameTaken(classes, row.name, c)
        /\ classes' = [classes EXCEPT ![c] = row]
    BY <1>3 DEF C!Create, C!CreateInput, CreateInput, C!NewClass, NewClass,
                C!WellFormed, WellFormed, C!ValidGrade, ValidGrade,
                C!NameTaken, NameTaken
  <2>2. row \in Row
    BY <1>1, <2>1
  <2> QED BY <2>1, <2>2, RowWritten
<1>4. ASSUME NEW r \in ClassRequest, C!Update(r) PROVE RowsOK'
  <2> DEFINE c == CanonID[classAsked[r].path]
             row == Merge(classes[c], classAsked[r])
  <2>1. /\ classAsked[r] \in UpdateInput
        /\ c \in ClassID /\ classes[c] # NoRow
        /\ WellFormed(row)
        /\ ~NameTaken(classes, row.name, c)
        /\ classes' = [classes EXCEPT ![c] = row]
    BY <1>4 DEF C!Update, C!UpdateInput, UpdateInput, C!Merge, Merge,
                C!WellFormed, WellFormed, C!ValidGrade, ValidGrade,
                C!NameTaken, NameTaken
  <2>2. row \in Row
    BY <1>2, <2>1 DEF Types
  <2> HIDE DEF c, row
  <2> QED BY <2>1, <2>2, RowWritten
<1>5. ASSUME NEW c \in ClassID, C!Remove(c) PROVE RowsOK'
  BY <1>5 DEF C!Remove, Types, RowsOK, WellFormed
<1>6. CASE UNCHANGED classes
  BY <1>6 DEF RowsOK, WellFormed
<1>7. CASE \/ \E r \in ClassRequest : \/ \E i \in C!Input : C!Ask(r, i)
                                      \/ C!TurnAway(r) \/ C!UpdateNothing(r) \/ C!Refuse(r)
           \/ C!Lose \/ UNCHANGED C!vars
  BY <1>6, <1>7 DEF C!Ask, C!TurnAway, C!UpdateNothing, C!Refuse, C!Lose, C!vars
<1> QED BY <1>3, <1>4, <1>5, <1>7 DEF C!Next

\* In the whole server no two classes get the same name and no stored class is
\* one that ToClassDomain refuses, whoever writes them across restarts.
THEOREM RowsStayGood == Spec => []RowsOK
<1>1. Init => RowsOK
  BY DEF Init, C!Init, RowsOK
<1>2. Inv /\ RowsOK /\ [Next]_vars => RowsOK'
  BY ClassStep, StoreKeepsRows DEF Inv
<1> QED BY <1>1, <1>2, Invariance, PTL DEF Spec

-----------------------------------------------------------------------------
\* Identities.

\* An email has one account, under an id that is in use; and whatever was ever
\* deserved, read by a sign-in or issued is about such an id.
IdentityOK ==
  /\ \A u, v \in UserID :
       accounts[u] # NoRow /\ accounts[v] # NoRow /\ accounts[u].email = accounts[v].email
         => u = v
  /\ \A u \in UserID : accounts[u] # NoRow => u \in used
  /\ \A r \in AccountRequest : earned[r] # NoRow => earned[r].user \in used
  /\ \A t \in Token : age[t] # Never => t.user \in used

\* What is deserved after a step is about an id in use.
LEMMA AgesOfUsed ==
  ASSUME Types', Remember, used \subseteq used',
         \A t \in Token : age[t] # Never => t.user \in used,
         \A u \in UserID : accounts'[u] # NoRow => u \in used',
         \A r \in AccountRequest : earned'[r] # NoRow => earned'[r].user \in used'
  PROVE  \A t \in Token : age'[t] # Never => t.user \in used'
<1> SUFFICES ASSUME NEW t \in Token, age'[t] # Never PROVE t.user \in used'
  OBVIOUS
<1>1. age'[t] = IF Deserved(t)' THEN 0 ELSE age[t]
  BY DEF Remember
<1>2. t.user \in UserID /\ t # NoRow
  BY AccountAssumption DEF Token
<1>3. CASE Deserved(t)'
  BY <1>2, <1>3 DEF Deserved
<1>4. CASE ~Deserved(t)'
  BY <1>1, <1>4
<1> QED BY <1>3, <1>4

LEMMA AddKeepsIdentity ==
  ASSUME Types, IdentityOK, NEW u \in UserID, NEW e, NEW role, A!Add(u, e, role)
  PROVE  /\ u \notin used /\ used \subseteq used' /\ u \in used'
         /\ \A v \in UserID : accounts'[v] # NoRow => v \in used'
         /\ \A v, w \in UserID :
              accounts'[v] # NoRow /\ accounts'[w] # NoRow /\ accounts'[v].email = accounts'[w].email
                => v = w
<1>1. /\ u \notin used /\ used' = used \cup {u}
      /\ \A v \in UserID : accounts[v] # NoRow => accounts[v].email # e
      /\ \A v \in UserID :
           accounts'[v] = IF v = u THEN [email |-> e, role |-> role] ELSE accounts[v]
  BY DEF A!Add, Types
<1>2. [email |-> e, role |-> role].email = e
  OBVIOUS
<1> QED BY <1>1, <1>2 DEF IdentityOK

\* An id that is in use stays so; only the account endpoints take one.
LEMMA IdentityStep ==
  ASSUME Inv, Inv', IdentityOK, [Next]_vars PROVE IdentityOK'
<1> USE DEF Inv
<1> DEFINE Mine == /\ used \subseteq used'
                   /\ \A u \in UserID : accounts'[u] # NoRow => u \in used'
                   /\ \A u, v \in UserID :
                        /\ accounts'[u] # NoRow /\ accounts'[v] # NoRow
                        /\ accounts'[u].email = accounts'[v].email
                        => u = v
           Read == \A r \in AccountRequest : earned'[r] # NoRow => earned'[r].user \in used'
<1>1. ASSUME Remember, Mine, Read PROVE IdentityOK'
  BY <1>1, AgesOfUsed DEF IdentityOK
<1>2. ASSUME UNCHANGED <<accounts, used>> PROVE Mine
  BY <1>2 DEF IdentityOK
<1>3. ASSUME used \subseteq used', UNCHANGED earned PROVE Read
  BY <1>3 DEF IdentityOK
<1>4. ASSUME NEW r \in AccountRequest, NEW code, A!Close(r, code), used \subseteq used'
      PROVE  Read
  BY <1>4 DEF A!Close, Types, IdentityOK
<1>5. ASSUME NEW r \in AccountRequest, NEW t \in Token, A!Earn(r, t), t.user \in used',
             used \subseteq used'
      PROVE  Read
  BY <1>5 DEF A!Earn, Types, IdentityOK
<1> HIDE DEF Read
<1>6. ASSUME NEW r \in AccountRequest, Visit(r) PROVE Mine /\ Read
  BY <1>2, <1>3, <1>6 DEF Visit, A!Ask
<1>7. ASSUME NEW r \in AccountRequest, Issue(r) PROVE Mine /\ Read
  BY <1>2, <1>4, <1>7 DEF Issue, A!Issue
<1>8. ASSUME NEW r \in AccountRequest, Serve(r) PROVE Mine /\ Read
  <2>1. CASE A!Refuse(r) \/ A!Show(r)
    <3>1. UNCHANGED <<accounts, used>>
      BY <2>1 DEF A!Refuse, A!Show
    <3>2. \E code : A!Close(r, code)
      BY <2>1 DEF A!Refuse, A!Show
    <3> QED BY <1>2, <1>4, <3>1, <3>2
  <2>2. CASE A!Delete(r)
    <3>1. /\ UNCHANGED used
          /\ \A u \in UserID : accounts'[u] = accounts[u] \/ accounts'[u] = NoRow
      BY <2>2 DEF A!Delete, Types
    <3>2. \E code : A!Close(r, code)
      BY <2>2 DEF A!Delete
    <3>3. Mine
      BY <3>1 DEF IdentityOK
    <3> QED BY <1>4, <3>1, <3>2, <3>3
  <2>3. ASSUME NEW u \in UserID, A!SignIn(r, u) PROVE Mine /\ Read
    <3> DEFINE role == IF accounts[u].role = Unset THEN Student ELSE accounts[u].role
               t == [user |-> u, role |-> role]
    <3>1. accounts[u] # NoRow /\ UNCHANGED <<accounts, used>> /\ A!Earn(r, t)
      BY <2>3 DEF A!SignIn
    <3>2. role \in Role
      BY <3>1, AccountAssumption DEF Types, Account
    <3>3. t \in Token /\ t.user = u
      BY <3>2 DEF Token
    <3>4. u \in used
      BY <3>1 DEF IdentityOK
    <3> QED BY <1>2, <1>5, <3>1, <3>3, <3>4
  <2>4. ASSUME NEW u \in UserID, A!SignUp(r, u) PROVE Mine /\ Read
    <3> DEFINE t == [user |-> u, role |-> Student]
    <3>1. A!Add(u, accountAsked[r].email, Student) /\ (A!Earn(r, t) \/ A!Close(r, 500))
      BY <2>4 DEF A!SignUp
    <3>2. Mine /\ u \in used'
      BY <3>1, AddKeepsIdentity
    <3>3. t \in Token /\ t.user = u
      BY AccountAssumption DEF Token
    <3> QED BY <1>4, <1>5, <3>1, <3>2, <3>3
  <2>5. ASSUME NEW u \in UserID, A!Create(r, u) PROVE Mine /\ Read
    <3>1. A!Add(u, accountAsked[r].email, Unset) /\ \E code : A!Close(r, code)
      BY <2>5 DEF A!Create
    <3>2. Mine
      BY <3>1, AddKeepsIdentity
    <3> QED BY <1>4, <3>1, <3>2
  <2> QED BY <1>8, <2>1, <2>2, <2>3, <2>4, <2>5 DEF Serve
<1>9. ASSUME Stop PROVE Mine /\ Read
  <2>1. UNCHANGED <<accounts, used>> /\ \A r \in AccountRequest : earned'[r] = NoRow
    BY <1>9 DEF Stop, A!Lose
  <2> QED BY <1>2, <2>1 DEF Read
<1>10. ASSUME NEW t \in Table, RunFile(t) PROVE Mine /\ Read
  <2>1. /\ UNCHANGED <<used, earned>>
        /\ \A u \in UserID : accounts'[u] = accounts[u] \/ accounts'[u] = NoRow
    BY <1>10 DEF RunFile
  <2>2. Mine
    BY <2>1 DEF IdentityOK
  <2> QED BY <1>3, <2>1, <2>2
<1>11. ASSUME Operate PROVE Mine /\ Read
  <2>1. ASSUME NEW u \in UserID, NEW role \in Role, A!SetRole(u, role) PROVE Mine /\ Read
    <3>1. /\ UNCHANGED <<used, earned>> /\ accounts[u] \in Account
          /\ accounts' = [accounts EXCEPT ![u] = [accounts[u] EXCEPT !.role = role]]
      BY <2>1 DEF A!SetRole, Types
    <3>2. [accounts[u] EXCEPT !.role = role].email = accounts[u].email
      BY <3>1 DEF Account
    <3>3. \A v \in UserID : accounts'[v] # NoRow =>
            accounts[v] # NoRow /\ accounts'[v].email = accounts[v].email
      BY <2>1, <3>1, <3>2 DEF A!SetRole, Types
    <3>4. Mine
      BY <3>1, <3>3 DEF IdentityOK
    <3> QED BY <1>3, <3>1, <3>4
  <2>2. CASE UNCHANGED accountVars
    BY <1>2, <1>3, <2>2 DEF accountVars
  <2> QED BY <1>11, <2>1, <2>2 DEF Operate
<1>12. ASSUME UNCHANGED accountVars PROVE Mine /\ Read
  BY <1>2, <1>3, <1>12 DEF accountVars
<1>13. ASSUME \/ \E r \in ClassRequest :
                   (\E t \in Token, i \in ClassInput : Admit(r, t, i)) \/ Work(r)
              \/ Start \/ Turn
       PROVE  Mine /\ Read
  BY <1>12, <1>13 DEF Admit, Work, Start, Turn
<1>14. CASE Tick
  <2>1. UNCHANGED accountVars /\ \A t \in Token : age'[t] # Never => age[t] # Never
    <3>1. \A t \in Token : age[t] = Never => age[t] >= TTL
      BY SystemAssumption DEF Never
    <3> QED BY <1>14, <3>1 DEF Tick
  <2> QED BY <2>1 DEF IdentityOK, accountVars
<1>15. CASE UNCHANGED vars
  BY <1>15 DEF vars, accountVars, IdentityOK
<1> HIDE DEF Mine
<1> QED BY <1>1, <1>6, <1>7, <1>8, <1>9, <1>10, <1>11, <1>13, <1>14, <1>15 DEF Next

LEMMA IdentityInvariance == Spec => []IdentityOK
<1>1. Init => IdentityOK
  BY DEF Init, A!Init, IdentityOK
<1>2. Inv /\ Inv' /\ IdentityOK /\ [Next]_vars => IdentityOK'
  BY IdentityStep
<1> QED BY <1>1, <1>2, Invariance, PTL DEF Spec

\* An email has one account in the whole server, however sign-ups, crashes,
\* operators and the migration files of the table follow each other.
THEOREM AccountsStayUnique ==
  Spec => [](\A u, v \in UserID :
               accounts[u] # NoRow /\ accounts[v] # NoRow
                 /\ accounts[u].email = accounts[v].email => u = v)
<1>1. IdentityOK => \A u, v \in UserID :
                      accounts[u] # NoRow /\ accounts[v] # NoRow
                        /\ accounts[u].email = accounts[v].email => u = v
  BY DEF IdentityOK
<1> QED BY <1>1, IdentityInvariance, PTL

\* What an account leaves behind when it is deleted, or dropped with its table
\* by a migration file, never passes to another: no token that is good and no
\* open class request names the id that a new account gets.
THEOREM TokensNeverPassOn ==
  Spec => [][\A u \in UserID :
               accounts[u] = NoRow /\ accounts'[u] # NoRow =>
                 /\ \A t \in tokens : t.user # u
                 /\ \A r \in ClassRequest : classAsked[r] # NoInput => caller[r].user # u]_vars
<1> DEFINE New(u) == accounts[u] = NoRow /\ accounts'[u] # NoRow
           Free(u) == /\ \A t \in tokens : t.user # u
                      /\ \A r \in ClassRequest : classAsked[r] # NoInput => caller[r].user # u
<1>1. ASSUME Inv, IdentityOK, [Next]_vars, NEW u \in UserID, New(u) PROVE u \notin used
  <2>1. ~Operate
    BY <1>1 DEF Operate, A!SetRole, Inv, Types, accountVars
  <2>2. PICK r \in AccountRequest : Serve(r)
    BY <1>1, <2>1 DEF vars, accountVars, Next, Visit, A!Ask, Issue, A!Issue, Admit, Work, Start,
                      Stop, A!Lose, Turn, RunFile, Tick
  <2>3. PICK v \in UserID : A!SignUp(r, v) \/ A!Create(r, v)
    <3>1. ~(A!Delete(r) \/ A!Show(r) \/ A!Refuse(r))
      BY <1>1 DEF A!Delete, A!Show, A!Refuse, Inv, Types
    <3>2. \A v \in UserID : ~A!SignIn(r, v)
      BY <1>1 DEF A!SignIn
    <3> QED BY <2>2, <3>1, <3>2 DEF Serve
  <2>4. \E e, role : A!Add(v, e, role)
    BY <2>3 DEF A!SignUp, A!Create
  <2>5. v \notin used /\ u = v
    BY <1>1, <2>4 DEF A!Add, Inv, Types
  <2> QED BY <2>5
<1>2. ASSUME Inv, IdentityOK, NEW u \in UserID, u \notin used PROVE Free(u)
  <2>1. \A t \in tokens : age[t] # Never
    BY <1>2, SystemAssumption DEF tokens, Inv, Ages, Never
  <2>2. \A r \in ClassRequest : classAsked[r] # NoInput => age[caller[r]] # Never /\ caller[r] \in Token
    BY <1>2 DEF Inv, Callers
  <2> QED BY <1>2, <2>1, <2>2 DEF IdentityOK, tokens
<1>3. Inv /\ IdentityOK /\ [Next]_vars => [\A u \in UserID : New(u) => Free(u)]_vars
  BY <1>1, <1>2
<1> QED BY <1>3, Invariance, IdentityInvariance, PTL DEF Spec

-----------------------------------------------------------------------------
\* What stands behind ComesUp and AuthorityEnds: the steps that lead there
\* lead nowhere else.

\* The steps of the process are those of Server, whatever the requests do.
LEMMA ServerStep ==
  ASSUME [Next]_vars
  PROVE  UNCHANGED serverVars \/ S!Start \/ S!Stop \/ S!Turn
         \/ \E t \in Table : S!FileUp(t) \/ S!FileDown(t)
BY DEF Next, Visit, Serve, Issue, Admit, Work, Start, Stop, RunFile, Operate, Turn, Tick, vars

\* What Server is about holds of the process in the whole system.
THEOREM ServerIsServer == Spec => S!Init /\ [][S!Next]_(S!vars)
<1>1. [Next]_vars => [S!Next]_(S!vars)
  BY ServerStep DEF S!Next, S!vars, serverVars
<1>2. Init => S!Init
  BY DEF Init
<1> QED BY <1>1, <1>2, PTL DEF Spec

\* How many steps a process still has to make before it serves, if none fails:
\* to be started, to connect, two statements for each table that is left (one
\* if it only lacks its index), and to listen.
StepsLeft(p, n, tables) ==
  CASE p = "serving" -> 0
    [] p = "migrating" ->
         1 + 2 * (Len(Order) + 1 - n)
           - (IF n <= Len(Order) /\ tables[Order[n]] = "bare" THEN 1 ELSE 0)
    [] p = "opening" -> 2 * Len(Order) + 2
    [] OTHER -> 2 * Len(Order) + 3
Remaining == StepsLeft(phase, next, schema)

LEMMA StepsLeftValue ==
  ASSUME NEW p \in {"down", "opening", "migrating", "serving"},
         NEW n \in 1..(Len(Order) + 1), NEW tables
  PROVE  /\ StepsLeft(p, n, tables) \in 0..(2 * Len(Order) + 3)
         /\ StepsLeft(p, n, tables) = 0 <=> p = "serving"
<1> USE OrderFacts
<1>1. CASE p = "serving"
  BY <1>1 DEF StepsLeft
<1>2. CASE p = "migrating"
  BY <1>2 DEF StepsLeft
<1>3. CASE p \in {"opening", "down"}
  BY <1>3 DEF StepsLeft
<1> QED BY <1>1, <1>2, <1>3

LEMMA StartDescends ==
  ASSUME Progress, ~trouble, S!Start PROVE Remaining' < Remaining
<1> USE OrderFacts DEF Progress, S!TypeOK, S!Enter
<1>1. CASE S!Boot
  BY <1>1 DEF S!Boot, Remaining, StepsLeft
<1>2. CASE S!Open
  BY <1>2 DEF S!Open, Remaining, StepsLeft
<1>3. CASE S!Migrate
  <2> DEFINE t == Order[next]
  <2>1. /\ phase = "migrating" /\ next \in 1..Len(Order) /\ t \in Table
        /\ phase' = "migrating"
        /\ schema' = [schema EXCEPT ![t] = S!Upgraded(t)]
        /\ next' = IF S!Upgraded(t) = "current" THEN next + 1 ELSE next
    BY <1>3 DEF S!Migrate
  <2>2. CASE S!Upgraded(t) = "bare"
    <3>1. schema[t] # "bare" /\ schema'[Order[next']] = "bare" /\ next' = next
      BY <2>1, <2>2 DEF S!Upgraded
    <3> QED BY <2>1, <3>1 DEF Remaining, StepsLeft
  <2>3. CASE S!Upgraded(t) = "current"
    <3>1. Remaining >= 2 * (Len(Order) + 1 - next)
      BY <2>1 DEF Remaining, StepsLeft
    <3>2. Remaining' <= 1 + 2 * (Len(Order) - next)
      BY <2>1, <2>3 DEF Remaining, StepsLeft
    <3>3. Remaining \in Int /\ Remaining' \in Int
      BY <2>1, <2>3, StepsLeftValue DEF Remaining
    <3> QED BY <2>1, <3>1, <3>2, <3>3
  <2> QED BY <2>2, <2>3 DEF S!Upgraded
<1>4. CASE S!Listen
  BY <1>4 DEF S!Listen, Remaining, StepsLeft
<1> QED BY <1>1, <1>2, <1>3, <1>4 DEF S!Start

\* Without trouble a start-up only comes closer to serving, whatever state the
\* tables are in; it takes two statements a table and three more steps at most,
\* and the process that serves is not taken down again.
THEOREM StartUpDescends ==
  Spec => /\ [](Remaining \in 0..(2 * Len(Order) + 3) /\ (Remaining = 0 <=> phase = "serving"))
          /\ [][~trouble => /\ Remaining' <= Remaining
                            /\ S!Start => Remaining' < Remaining]_vars
<1>1. Inv => Remaining \in 0..(2 * Len(Order) + 3) /\ (Remaining = 0 <=> phase = "serving")
  BY StepsLeftValue DEF Inv, Progress, S!TypeOK, Remaining
<1>2. ASSUME Inv, Inv', [Next]_vars, ~trouble
      PROVE  Remaining' <= Remaining /\ (S!Start => Remaining' < Remaining)
  <2>1. Remaining \in Int /\ Remaining' \in Int
    BY <1>2, StepsLeftValue, OrderFacts DEF Inv, Progress, S!TypeOK, Remaining
  <2>2. CASE S!Start
    BY <1>2, <2>1, <2>2, StartDescends DEF Inv
  <2>3. CASE UNCHANGED serverVars \/ S!Turn
    <3>1. Remaining' = Remaining
      BY <2>3 DEF serverVars, S!Turn, Remaining
    <3>2. ~S!Start
      BY <1>2, <2>1, <3>1, StartDescends DEF Inv
    <3> QED BY <2>1, <3>1, <3>2
  <2>4. CASE \E t \in Table : S!FileUp(t) \/ S!FileDown(t)
    <3>1. phase = "down" /\ phase' = "down"
      BY <2>4 DEF S!FileUp, S!FileDown
    <3>2. Remaining' = Remaining
      BY <3>1 DEF Remaining, StepsLeft
    <3> QED BY <1>2, <2>1, <3>2, StartDescends DEF Inv
  <2>5. ~S!Stop
    BY <1>2 DEF S!Stop
  <2> QED BY <1>2, <2>2, <2>3, <2>4, <2>5, ServerStep
<1>3. Inv /\ Inv' /\ [Next]_vars =>
        [~trouble => Remaining' <= Remaining /\ (S!Start => Remaining' < Remaining)]_vars
  BY <1>2
<1> QED BY <1>1, <1>3, Invariance, PTL DEF Spec

\* While a token is not deserved it only runs down, one tick after the other, at
\* most TTL of them; and when it has run out no class request is let in by it.
THEOREM LostAuthorityRunsOut ==
  Spec => [][\A t \in Token : ~Deserved(t) =>
               /\ left'[t] <= left[t]
               /\ Tick /\ left[t] > 0 => left'[t] < left[t]
               /\ \A r \in ClassRequest :
                    left[t] = 0 /\ caller[r] # t => caller'[r] # t]_vars
<1>1. ASSUME Inv, [Next]_vars, NEW t \in Token, ~Deserved(t)
      PROVE  /\ left'[t] <= left[t]
             /\ Tick /\ left[t] > 0 => left'[t] < left[t]
  <2>1. TTL \in Nat /\ left[t] \in 0..TTL
    BY <1>1, SystemAssumption DEF Inv, Ages
  <2>2. CASE Tick
    BY <2>1, <2>2 DEF Tick
  <2>3. ASSUME NEW r \in AccountRequest, Issue(r) PROVE left'[t] = left[t]
    BY <1>1, <2>3 DEF Issue, Deserved, Inv, Ages
  <2>4. UNCHANGED left \/ Tick \/ \E r \in AccountRequest : Issue(r)
    BY <1>1 DEF Next, Visit, Serve, Admit, Work, Start, Stop, RunFile, Operate, Turn, vars
  <2>5. CASE ~Tick
    BY <2>1, <2>3, <2>4, <2>5
  <2> QED BY <2>2, <2>5
<1>2. ASSUME Inv, [Next]_vars, NEW t \in Token, NEW r \in ClassRequest,
             left[t] = 0, caller[r] # t
      PROVE  caller'[r] # t
  <2>1. t # NoRow
    BY AccountAssumption
  <2>2. ASSUME NEW s \in ClassRequest, NEW u \in Token, NEW i \in ClassInput, Admit(s, u, i)
        PROVE  caller'[r] # t
    BY <1>2, <2>2 DEF Admit, tokens, Inv, Types
  <2>3. ASSUME NEW s \in ClassRequest, Work(s) PROVE caller'[r] # t
    BY <1>2, <2>1, <2>3 DEF Work, Inv, Types
  <2>4. CASE Stop
    BY <2>1, <2>4 DEF Stop
  <2>5. CASE UNCHANGED caller
    BY <1>2, <2>5
  <2> QED BY <1>2, <2>2, <2>3, <2>4, <2>5
          DEF Next, Visit, Serve, Issue, Start, RunFile, Operate, Turn, Tick, vars
<1>3. Inv /\ [Next]_vars =>
        [\A t \in Token : ~Deserved(t) =>
           /\ left'[t] <= left[t]
           /\ Tick /\ left[t] > 0 => left'[t] < left[t]
           /\ \A r \in ClassRequest :
                left[t] = 0 /\ caller[r] # t => caller'[r] # t]_vars
  BY <1>1, <1>2
<1> QED BY <1>3, Invariance, PTL DEF Spec

=============================================================================
