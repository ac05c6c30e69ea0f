------------------------------- MODULE System -------------------------------
(***************************************************************************)
(* The server, the accounts and the classes together.  The account and the *)
(* class endpoints are the atomic stores they implement; here they meet in *)
(* the token that a sign-in issues and JWTAuth checks, 24 hours long and   *)
(* without a look at the account, and in the one process that runs both.   *)
(***************************************************************************)
EXTENDS ClassDomain, Sequences

CONSTANTS
  Table, Order, Indexed, Filed, MaxAttempts,  \* of Server
  Users,           \* the table that holds the accounts
  AccountRequest,  \* the account requests that may be open at one time
  AccountInput,    \* what an account request may ask for
  Email, UserID, Student, Unset,
  ClassRequest,    \* the class requests that may be open at one time
  ClassInput,      \* what the clients of this instance ask of the classes
  TTL              \* jwtExpiry, in ticks of the clock

Token == [user : UserID, role : Role]
Account == [email : Email, role : Role \cup {Unset}]
Never == TTL + 1

ASSUME SystemAssumption ==
  /\ Users \in Table
  /\ ClassInput \subseteq Input
  /\ TTL \in Nat \ {0}

ASSUME ServerAssumption ==
  /\ Order \in Seq(Table)
  /\ \A t \in Table : \E k \in 1..Len(Order) : Order[k] = t
  /\ MaxAttempts \in Nat \ {0}

ASSUME AccountAssumption ==
  /\ Student \in Role /\ Unset \notin Role
  /\ NoRow \notin Token \cup Account
  /\ NoInput \notin AccountInput
  /\ \A i \in AccountInput : i.op \in {"google", "create"} => i.email \in Email

VARIABLES
  phase, attempt, next, schema, trouble,          \* of Server
  accounts, used, accountAsked, earned, accountAnswer,  \* of AccountStore
  classes, classAsked, classAnswer,               \* of ClassStore
  left,    \* left[t]: how long the youngest token with the claims t lasts
  caller,  \* caller[r]: the token of an open class request, or NoRow
  \* History:
  age      \* age[t]: how long ago t was last deserved; at most TTL, or Never

serverVars == <<phase, attempt, next, schema, trouble>>
accountVars == <<accounts, used, accountAsked, earned, accountAnswer>>
classVars == <<classes, classAsked, classAnswer>>
vars == <<serverVars, accountVars, classVars, left, caller, age>>

\* ParseWithClaims accepts a token until its expiry.
tokens == {t \in Token : left[t] > 0}

S == INSTANCE Server
A == INSTANCE AccountStore WITH
  Request <- AccountRequest, Input <- AccountInput,
  asked <- accountAsked, answer <- accountAnswer
C == INSTANCE ClassStore WITH
  Request <- ClassRequest, asked <- classAsked, answer <- classAnswer

Init ==
  /\ left = [t \in Token |-> 0]
  /\ caller = [r \in ClassRequest |-> NoRow]
  /\ age = [t \in Token |-> Never]
  /\ S!Init
  /\ A!Init
  /\ C!Init

\* The account has the role t says, or a sign-in has read it and is about to
\* issue t.
Deserved(t) ==
  \/ /\ accounts[t.user] # NoRow
     /\ t.role = IF accounts[t.user].role = Unset THEN Student ELSE accounts[t.user].role
  \/ \E r \in AccountRequest : earned[r] = t

Remember == age' = [t \in Token |-> IF Deserved(t)' THEN 0 ELSE age[t]]

-----------------------------------------------------------------------------
\* The account endpoints, while the process serves.
Visit(r) ==
  /\ phase = "serving"
  /\ UNCHANGED <<serverVars, classVars, left, caller>>
  /\ \E i \in AccountInput : A!Ask(r, i)

Serve(r) ==
  /\ phase = "serving"
  /\ UNCHANGED <<serverVars, classVars, left, caller>>
  /\ \/ A!Delete(r) \/ A!Show(r) \/ A!Refuse(r)
     \/ \E u \in UserID : A!SignIn(r, u) \/ A!SignUp(r, u) \/ A!Create(r, u)

\* Sign: ExpiresAt is jwtExpiry from now.
Issue(r) ==
  /\ phase = "serving" /\ earned[r] # NoRow
  /\ left' = [left EXCEPT ![earned[r]] = TTL]
  /\ A!Issue(r)
  /\ UNCHANGED <<serverVars, classVars, caller>>

\* JWTAuth: a good token lets a class request through and lends it its role;
\* the account is not looked at.
Admit_Slides(r, t, i) ==
  /\ phase = "serving"
  /\ t \in tokens /\ i.role = t.role
  /\ C!Ask(r, i)
  /\ caller' = [caller EXCEPT ![r] = t]
  /\ left' = [left EXCEPT ![t] = TTL]
  /\ UNCHANGED <<serverVars, accountVars>>
Admit_RoleAsAsked(r, t, i) ==
  /\ phase = "serving"
  /\ t \in tokens
  /\ C!Ask(r, i)
  /\ caller' = [caller EXCEPT ![r] = t]
  /\ UNCHANGED <<serverVars, accountVars, left>>
Admit(r, t, i) ==
  /\ phase = "serving"
  /\ t \in tokens /\ i.role = t.role
  /\ C!Ask(r, i)
  /\ caller' = [caller EXCEPT ![r] = t]
  /\ UNCHANGED <<serverVars, accountVars, left>>

\* A class request takes effect, if it does, and is answered.
Work(r) ==
  /\ phase = "serving"
  /\ \/ C!Update(r) \/ C!UpdateNothing(r) \/ C!Refuse(r)
     \/ \E c \in ClassID : C!Create(r, c)
  /\ caller' = [caller EXCEPT ![r] = NoRow]
  /\ UNCHANGED <<serverVars, accountVars, left>>

\* The process ends and every open request with it; tables and tokens stay.
Stop ==
  /\ S!Stop
  /\ UNCHANGED left
  /\ A!Lose
  /\ C!Lose
  /\ caller' = [r \in ClassRequest |-> NoRow]

Start == S!Start /\ UNCHANGED <<accountVars, classVars, left, caller>>

\* Operators: migration files (the one of the accounts takes them along), a
\* role for an account, a class removed; and trouble comes and goes.
RunFile(t) ==
  /\ \/ S!FileUp(t) /\ UNCHANGED accounts
     \/ /\ S!FileDown(t)
        /\ accounts' = IF t = Users THEN [u \in UserID |-> NoRow] ELSE accounts
  /\ UNCHANGED <<used, accountAsked, earned, accountAnswer, classVars, left, caller>>

Operate ==
  /\ UNCHANGED <<serverVars, left, caller>>
  /\ \/ \E u \in UserID, role \in Role : A!SetRole(u, role) /\ UNCHANGED classVars
     \/ \E c \in ClassID : C!Remove(c) /\ UNCHANGED accountVars

Turn == S!Turn /\ UNCHANGED <<accountVars, classVars, left, caller>>

\* The clock: tokens run out, and what is not deserved gets older.
Tick ==
  /\ left' = [t \in Token |-> IF left[t] > 0 THEN left[t] - 1 ELSE 0]
  /\ age' = [t \in Token |-> IF Deserved(t) \/ age[t] >= TTL THEN age[t] ELSE age[t] + 1]
  /\ UNCHANGED <<serverVars, accountVars, classVars, caller>>

Next ==
  \/ \E r \in AccountRequest : (Visit(r) \/ Serve(r) \/ Issue(r)) /\ Remember
  \/ \E r \in ClassRequest :
       /\ (\E t \in Token, i \in ClassInput : Admit(r, t, i)) \/ Work(r)
       /\ Remember
  \/ (Start \/ Stop \/ Operate \/ Turn) /\ Remember
  \/ \E t \in Table : RunFile(t) /\ Remember
  \/ Tick

\* Time passes, a goroutine that can run runs, and a server that is down is
\* started again.
Fairness ==
  /\ WF_vars(Tick)
  /\ WF_vars(Start /\ Remember)
  /\ \A r \in ClassRequest : WF_vars(Work(r) /\ Remember)

Spec == Init /\ [][Next]_vars
LiveSpec == Spec /\ Fairness

-----------------------------------------------------------------------------
TypeOK ==
  /\ S!TypeOK
  /\ accounts \in [UserID -> Account \cup {NoRow}]
  /\ used \subseteq UserID
  /\ accountAsked \in [AccountRequest -> AccountInput \cup {NoInput}]
  /\ earned \in [AccountRequest -> Token \cup {NoRow}]
  /\ classes \in [ClassID -> Row \cup {NoRow}]
  /\ classAsked \in [ClassRequest -> ClassInput \cup {NoInput}]
  /\ left \in [Token -> 0..TTL]
  /\ caller \in [ClassRequest -> Token \cup {NoRow}]
  /\ age \in [Token -> 0..Never]

\* A token outlives what it says by at most jwtExpiry: what is left of it and
\* the time since it was last deserved never exceed that, however often the
\* account lost and regained its role, was deleted or signed in again, and
\* whatever the holder does with it.
StaleAuthorityBounded == \A t \in tokens : left[t] + age[t] <= TTL

\* A class is written only at the answer of a request, and every request that is
\* answered at a write came with a token that said administrator and was once
\* deserved: neither a request's own word, nor another's token, nor a restart
\* makes one.
WritesByAdmins ==
  [][\A c \in ClassID :
       classes'[c] # classes[c] /\ classes'[c] # NoRow =>
         LET writers == {r \in ClassRequest : classAsked[r] # NoInput /\ classAsked'[r] = NoInput} IN
         /\ writers # {}
         /\ \A r \in writers : /\ caller[r] # NoRow /\ caller[r].role = Admin
                                /\ age[caller[r]] # Never]_vars

\* No request meets a table that is not what the models say, and no account is
\* in a table that has not the columns for it.
SchemaBeforeData ==
  /\ (\/ \E r \in AccountRequest : accountAsked[r] # NoInput
      \/ \E r \in ClassRequest : classAsked[r] # NoInput)
     => \A t \in Table : schema[t] = "current"
  /\ (\E u \in UserID : accounts[u] # NoRow) => schema[Users] = "current"

\* When an account has lost a role for good, the tokens that say it and the
\* requests under them come to an end.
AuthorityEnds ==
  \A t \in Token :
    <>[]~Deserved(t) => <>[](t \notin tokens /\ \A r \in ClassRequest : caller[r] # t)

\* Once the trouble is over the server comes up and stays up.
ComesUp == S!ComesUp

=============================================================================
