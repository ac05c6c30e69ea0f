------------------------------- MODULE SignIn -------------------------------
(***************************************************************************)
(* Accounts: POST /auth/google (sign-in, and sign-up at the first sign-in),*)
(* and POST, GET and DELETE of /users.  Sign-up writes two tables, "users" *)
(* and "casbin_rule", with two statements and no transaction.  One action  *)
(* is the code from one statement, or call to Google, to the next.         *)
(***************************************************************************)
EXTENDS Integers, FiniteSets

CONSTANTS
  Request,   \* the requests that may be open at one time
  UserID,    \* the ids uuid.New returns
  Email,     \* valid email addresses
  Name,      \* names that are not blank
  Blank,     \* a blank name, or none
  GoogleName,\* GoogleName[e]: the name in the Google account of e, maybe Blank
  Role,      \* ADMIN, TEACHER, STUDENT
  Student,   \* userDomain.DefaultRole
  Unset,     \* the empty role, of accounts made by POST /users
  NoRow,     \* the value of the table at an id without a row
  NoInput,   \* a slot that serves no request
  Driver,    \* DB_DRIVER: "sqlite" or "mysql"
  Failures   \* TRUE: statements and calls may fail and the server may crash

ASSUME TextAssumption ==
  Blank \notin Name \cup Email /\ GoogleName \in [Email -> Name \cup {Blank}]

ASSUME RoleAssumption == Student \in Role /\ Unset \notin Role

ASSUME SwitchAssumption == Driver \in {"sqlite", "mysql"} /\ Failures \in BOOLEAN

Account ==
  [email : Email, name : Name \cup Email \cup {Blank}, role : Role \cup {Unset},
   google : BOOLEAN]
Loaded == [id : UserID, role : Role \cup {Unset}]
Input ==
  [op : {"google"}, email : Email]
  \cup [op : {"create"}, email : Email, name : Name]
  \cup [op : {"get", "delete"}, id : UserID]
  \cup [op : {"list"}]
Token == [user : UserID, role : Role]

ASSUME NilAssumption ==
  /\ NoRow \notin Account \cup Loaded \cup Token \cup [email : Email, role : Role \cup {Unset}]
  /\ NoInput \notin Input

VARIABLES
  users,    \* table users: UserID -> its row, or NoRow
  grants,   \* table casbin_rule: how many rows (g, id, STUDENT) each id has
  tokens,   \* the tokens that are good
  pc,       \* where the goroutine of each request is
  input,    \* what each request asks for
  loaded,   \* the account a sign-in has read or created
  status,   \* the status code a request was answered with, 0 before
  \* History, for the properties:
  used,     \* the ids of all accounts there ever were
  seen      \* seen[r]: what the email of a sign-in stood for since it arrived

tables == <<users, grants, used>>
vars == <<users, grants, tokens, pc, input, loaded, status, used, seen>>

Init ==
  /\ users = [u \in UserID |-> NoRow]
  /\ grants = [u \in UserID |-> 0]
  /\ tokens = {}
  /\ pc = [r \in Request |-> "idle"]
  /\ input = [r \in Request |-> NoInput]
  /\ loaded = [r \in Request |-> NoRow]
  /\ status = [r \in Request |-> 0]
  /\ used = {}
  /\ seen = [r \in Request |-> {}]

Registered(table, e) == \E u \in UserID : table[u] # NoRow /\ table[u].email = e

\* What an email stands for: the token its account is entitled to (an account
\* without a role counts as a student's), or NoRow if it has no account.
Standing(table, e) ==
  {[user |-> u, role |-> IF table[u].role = Unset THEN Student ELSE table[u].role] :
     u \in {v \in UserID : table[v] # NoRow /\ table[v].email = e}}
  \cup (IF Registered(table, e) THEN {} ELSE {NoRow})

Observe ==
  seen' = [r \in Request |->
             IF pc'[r] = "idle" \/ input'[r].op # "google" THEN {}
             ELSE seen[r] \cup Standing(users', input'[r].email)]

Goto(r, l) == pc' = [pc EXCEPT ![r] = l]

Proceed(r, l) == Goto(r, l) /\ UNCHANGED <<input, loaded, status>>

\* The handler writes its response and the goroutine ends.
Answer(r, code) ==
  /\ Goto(r, "idle")
  /\ status' = [status EXCEPT ![r] = code]
  /\ input' = [input EXCEPT ![r] = NoInput]
  /\ loaded' = [loaded EXCEPT ![r] = NoRow]

-----------------------------------------------------------------------------
\* Bound: requests that may create are admitted while there are ids for them.
MayCreate(i) == i.op \in {"google", "create"}
IDsLeft ==
  Cardinality({r \in Request : pc[r] # "idle" /\ MayCreate(input[r])})
    < Cardinality(UserID \ used)

\* Bind lets the request through; NewEmail and NewName accept its fields.
Receive(r, i) ==
  /\ pc[r] = "idle"
  /\ MayCreate(i) => IDsLeft
  /\ Goto(r, CASE i.op = "google" -> "verify"
               [] i.op = "create" -> "insert"
               [] i.op = "delete" -> "delete"
               [] OTHER -> "read")
  /\ input' = [input EXCEPT ![r] = i]
  /\ status' = [status EXCEPT ![r] = 0]
  /\ UNCHANGED <<users, grants, tokens, loaded, used>>

\* Bind fails, or NewEmail or NewName refuses a field of POST /users.
TurnAway(r) ==
  /\ pc[r] = "idle"
  /\ status' = [status EXCEPT ![r] = 400]
  /\ UNCHANGED <<users, grants, tokens, pc, input, loaded, used>>

\* GoogleVerifier.Verify: Google's answer is final; any error is answered 401.
Verify(r) ==
  /\ pc[r] = "verify"
  /\ Proceed(r, "find") \/ Answer(r, 401)
  /\ UNCHANGED <<users, grants, tokens, used>>

\* ToDomain: NewName accepts the stored name.  (NewEmail and NewRole accept
\* every email and role there is in the model.)
Readable(row) == row.name # Blank

\* FindByEmail: sign in with the account of this email, or sign up.
Find_ErrorIsNotFound(r) ==
  /\ pc[r] = "find"
  /\ Proceed(r, "insert")
  /\ UNCHANGED <<users, grants, tokens, used>>
Find_GrantAgain(r) ==
  /\ pc[r] = "find"
  /\ \E u \in UserID :
       /\ users[u] # NoRow /\ users[u].email = input[r].email
       /\ Goto(r, "grant")
       /\ loaded' = [loaded EXCEPT ![r] = [id |-> u, role |-> users[u].role]]
       /\ UNCHANGED <<input, status>>
  /\ UNCHANGED <<users, grants, tokens, used>>
Find(r) ==
  /\ pc[r] = "find"
  /\ \/ \E u \in UserID :
          /\ users[u] # NoRow /\ users[u].email = input[r].email
          /\ \/ /\ Readable(users[u])
                /\ Goto(r, "issue")
                /\ loaded' = [loaded EXCEPT ![r] = [id |-> u, role |-> users[u].role]]
                /\ UNCHANGED <<input, status>>
             \/ ~Readable(users[u]) /\ Answer(r, 500)
     \/ ~Registered(users, input[r].email) /\ Proceed(r, "insert")
     \/ Failures /\ Answer(r, 500)
  /\ UNCHANGED <<users, grants, tokens, used>>

\* The name of a new account: that of the Google account, if NewName accepts
\* it, else the email; or the one that POST /users was sent.
NameFor_AsGiven(i) == IF i.op = "google" THEN GoogleName[i.email] ELSE i.name
NameFor(i) ==
  CASE i.op = "create" -> i.name
    [] i.op = "google" /\ GoogleName[i.email] # Blank -> GoogleName[i.email]
    [] OTHER -> i.email

\* NewGoogleUser, with the default role, and NewUser, without one.
NewAccount(i) ==
  [email |-> i.email, name |-> NameFor(i),
   role |-> IF i.op = "google" THEN Student ELSE Unset, google |-> i.op = "google"]

\* uuid.New: an id no account ever had.
NewID_OfNoRow == {u \in UserID : users[u] = NoRow}
NewID == UserID \ used

\* The unique index of users.email.
IndexRefuses_NoIndex(e) == FALSE
IndexRefuses(e) == Registered(users, e)

\* userRepo.Create maps the error text of a violated index: the one of SQLite
\* becomes ErrUserAlreadyExists (400 from POST /users, but 500 from sign-in),
\* the one of MySQL ("Duplicate entry ... for key ...") stays unknown.
DuplicateCode(op) == IF op = "create" /\ Driver = "sqlite" THEN 400 ELSE 500

\* A loop around INSERT that takes every error for a passing one.
Insert_RetryForever(r) ==
  /\ pc[r] = "insert"
  /\ \/ \E u \in UserID \ used :
          /\ ~IndexRefuses(input[r].email)
          /\ users' = [users EXCEPT ![u] = NewAccount(input[r])]
          /\ used' = used \cup {u}
          /\ Answer(r, 201)
     \/ IndexRefuses(input[r].email) /\ Proceed(r, "insert") /\ UNCHANGED <<users, used>>
  /\ UNCHANGED <<grants, tokens>>
\* A sign-up that takes the account it made in memory for the stored one.
Insert_ErrorDropped(r) ==
  /\ pc[r] = "insert"
  /\ \E u \in NewID :
       /\ users' = IF IndexRefuses(input[r].email) THEN users
                   ELSE [users EXCEPT ![u] = NewAccount(input[r])]
       /\ used' = used \cup {u}
       /\ IF input[r].op = "create" THEN Answer(r, 201)
          ELSE /\ Goto(r, "grant")
               /\ loaded' = [loaded EXCEPT ![r] = [id |-> u, role |-> Student]]
               /\ UNCHANGED <<input, status>>
  /\ UNCHANGED <<grants, tokens>>
\* INSERT INTO users, then the answer to POST /users or the next step of sign-up.
Insert(r) ==
  /\ pc[r] = "insert"
  /\ LET signUp == input[r].op = "google"
         row == NewAccount(input[r]) IN
     \/ \E u \in NewID :
          /\ ~IndexRefuses(input[r].email)
          /\ users' = [users EXCEPT ![u] = row]
          /\ used' = used \cup {u}
          /\ \/ /\ signUp
                /\ Goto(r, "grant")
                /\ loaded' = [loaded EXCEPT ![r] = [id |-> u, role |-> row.role]]
                /\ UNCHANGED <<input, status>>
             \/ ~signUp /\ Answer(r, 201)
             \/ Failures /\ Answer(r, 500)
     \/ /\ \/ IndexRefuses(input[r].email) /\ Answer(r, DuplicateCode(input[r].op))
           \/ Failures /\ Answer(r, 500)
        /\ UNCHANGED <<users, used>>
  /\ UNCHANGED <<grants, tokens>>

\* AddRoleForUser: INSERT INTO casbin_rule, which has no unique index.
Grant(r) ==
  /\ pc[r] = "grant"
  /\ \/ /\ grants' = [grants EXCEPT ![loaded[r].id] = @ + 1]
        /\ Proceed(r, "issue") \/ (Failures /\ Answer(r, 500))
     \/ Failures /\ Answer(r, 500) /\ UNCHANGED grants
  /\ UNCHANGED <<users, tokens, used>>

\* The role of the token: an account without one counts as a student.
TokenRole_NoDefault(role) == role
TokenRole(role) == IF role = Unset THEN Student ELSE role

\* The claims of the token that a sign-in is going to hand out.
Claim(r) == [user |-> loaded[r].id, role |-> TokenRole(loaded[r].role)]

\* GetPermissionsForRole and Sign: no statement, the account is not read again.
Issue(r) ==
  /\ pc[r] = "issue"
  /\ \/ /\ tokens' = tokens \cup {Claim(r)}
        /\ Answer(r, 200)
     \/ Failures /\ Answer(r, 500) /\ UNCHANGED tokens
  /\ UNCHANGED tables

\* DELETE FROM users: the rows of casbin_rule and the tokens stay.
Delete(r) ==
  /\ pc[r] = "delete"
  /\ LET u == input[r].id IN
     \/ /\ users[u] # NoRow
        /\ users' = [users EXCEPT ![u] = NoRow]
        /\ Answer(r, 204) \/ (Failures /\ Answer(r, 500))
     \/ users[u] = NoRow /\ Answer(r, 404) /\ UNCHANGED users
     \/ Failures /\ Answer(r, 500) /\ UNCHANGED users
  /\ UNCHANGED <<grants, tokens, used>>

\* GET /users and GET /users/{id}: one SELECT, then ToDomain of every row.
Read(r) ==
  /\ pc[r] = "read"
  /\ LET rows == {users[u] : u \in {v \in UserID : /\ users[v] # NoRow
                                                   /\ input[r].op = "get" => v = input[r].id}}
         missing == input[r].op = "get" /\ rows = {}
         broken == \E row \in rows : ~Readable(row) IN
     \/ ~missing /\ ~broken /\ Answer(r, 200)
     \/ missing /\ Answer(r, 404)
     \/ (broken \/ Failures) /\ Answer(r, 500)
  /\ UNCHANGED <<users, grants, tokens, used>>

\* Time passes: 24 hours after it was issued a token is refused by JWTAuth.
Expire(old) ==
  /\ tokens' = tokens \ old
  /\ UNCHANGED <<users, grants, pc, input, loaded, status, used>>

\* The operators of the database give an account a role (no endpoint does).
SetRole(u, role) ==
  /\ users[u] # NoRow
  /\ users' = [users EXCEPT ![u].role = role]
  /\ UNCHANGED <<grants, tokens, pc, input, loaded, status, used>>

\* The process ends and is started again: every open request is lost.
Crash ==
  /\ Failures
  /\ pc' = [r \in Request |-> "idle"]
  /\ input' = [r \in Request |-> NoInput]
  /\ loaded' = [r \in Request |-> NoRow]
  /\ UNCHANGED <<users, grants, tokens, status, used>>

Step(r) ==
  /\ \/ Verify(r) \/ Find(r) \/ Insert(r) \/ Grant(r) \/ Issue(r)
     \/ Delete(r) \/ Read(r)
  /\ Observe

Next ==
  \/ \E r \in Request : \/ \E i \in Input : Receive(r, i) /\ Observe
                        \/ TurnAway(r) /\ Observe
                        \/ Step(r)
  \/ \E u \in UserID, role \in Role : SetRole(u, role) /\ Observe
  \/ \E old \in SUBSET tokens : Expire(old) /\ Observe
  \/ Crash /\ Observe

\* A goroutine that can run runs, and a statement returns or fails.  The HTTP
\* client of the verifier has no timeout: Google's answer may never come.
Handle(r) == Step(r) /\ pc[r] # "verify"
Fairness == \A r \in Request : WF_vars(Handle(r))

Spec == Init /\ [][Next]_vars
LiveSpec == Spec /\ Fairness

-----------------------------------------------------------------------------
TypeOK ==
  /\ users \in [UserID -> Account \cup {NoRow}]
  /\ grants \in [UserID -> Nat]
  /\ tokens \subseteq Token
  /\ pc \in [Request -> {"idle", "verify", "find", "insert", "grant", "issue",
                        "delete", "read"}]
  /\ input \in [Request -> Input \cup {NoInput}]
  /\ loaded \in [Request -> Loaded \cup {NoRow}]
  /\ status \in [Request -> {0, 200, 201, 204, 400, 401, 404, 500}]
  /\ used \subseteq UserID
  /\ seen \in [Request -> SUBSET (Token \cup {NoRow})]

\* However sign-ups and POST /users race, an email has one account.
OneAccountPerEmail ==
  \A u, v \in UserID :
    users[u] # NoRow /\ users[v] # NoRow /\ users[u].email = users[v].email => u = v

\* No account gets its casbin_rule row twice, although the table would take it:
\* the row is added by the request whose INSERT made the account, and by no
\* later sign-in or retry.
AtMostOneGrant == \A u \in UserID : grants[u] <= 1

\* A token is issued to the account of the email Google vouched for, with the
\* role that account had at some time since the request arrived; in particular
\* with a role, without which JWTAuth would refuse it.  Sign works from a copy
\* that other requests may have outdated, but never from an older one.
TokensAreFresh ==
  [][\A t \in tokens' \ tokens :
       \E r \in Request : pc[r] = "issue" /\ t \in seen[r]]_vars

\* A sign-in sets out to create an account only if its email had none at some
\* time since the request arrived; a failing SELECT does not count as "none".
NoNeedlessSignUp ==
  \A r \in Request :
    pc[r] \in {"insert", "grant"} /\ input[r].op = "google" => NoRow \in seen[r]

\* Every stored account can be read back: one that could not would make GET
\* /users fail for good and lock its owner out of signing in.
RowsReadable == \A u \in UserID : users[u] # NoRow => Readable(users[u])

\* DELETE leaves rows and tokens behind, and a sign-up may add the grant of an
\* account that is deleted already; none of this ever passes to a new account.
FreshStart ==
  [][\A u \in UserID :
       users[u] = NoRow /\ users'[u] # NoRow =>
         /\ grants[u] = 0
         /\ \A t \in tokens : t.user # u
         /\ \A r \in Request : loaded[r] # NoRow => loaded[r].id # u]_vars

\* Once Google has answered, every request is answered, unless the server
\* crashes first: no sign-in is stuck between its two writes.
Answered == \A r \in Request : pc[r] \notin {"idle", "verify"} ~> pc[r] = "idle"

\* The account endpoints implement the abstract store: although sign-up is two
\* statements after a SELECT, every sign-in acts on the accounts at one moment
\* and hands out what it earned then, or nothing.
Accounts ==
  [u \in UserID |-> IF users[u] = NoRow THEN NoRow
                    ELSE [email |-> users[u].email, role |-> users[u].role]]
Earned == [r \in Request |-> IF pc[r] \in {"grant", "issue"} THEN Claim(r) ELSE NoRow]
Store == INSTANCE AccountStore WITH
  accounts <- Accounts, asked <- input, earned <- Earned, answer <- status
AtomicAccounts == Store!Spec

-----------------------------------------------------------------------------
\* Promises of the documentation that the code does not keep.

\* GS-001: a user created via sign-up has a casbin_rule g row.  (Stated for the
\* accounts whose sign-in was answered 200, to leave open sign-ups aside.)
SignedUpHasGrant ==
  \A t \in tokens :
    users[t.user] # NoRow /\ users[t.user].google => grants[t.user] > 0

\* usecase/user: ErrUserAlreadyExists (400) on a unique index violation.
DuplicateEmailIs400 ==
  [][\A r \in Request :
       /\ pc[r] = "insert" /\ input[r].op = "create"
       /\ Registered(users, input[r].email) /\ pc'[r] = "idle"
       => status'[r] = 400]_vars

=============================================================================
