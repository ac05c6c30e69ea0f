# A TLA+ model of go-time-table-be

The server is a Go/echo REST API of a school: Google sign-in, users, and classes
with role-scoped reads and administrator-only writes, over one SQL database (SQLite
or MySQL through GORM). It keeps no state in memory between requests. Every request
is a goroutine of its own, runs a handful of SQL statements **outside any
transaction**, and may be overtaken by any other request between two of them. That
is what the modules are about: one action is the code from one SQL statement (or
call to Google) to the next, and requests interleave at these points only.

## 1. Inventory

| Component | State | Operations | What is hard | What makes it correct |
|---|---|---|---|---|
| Class writes: `handlers/class.go`, `validator/rules`, `usecase/class`, `class-repository.go` | table `classes` (unique index on the name) | `POST /classes`, `PUT /classes/{classId}` | check (`unique_in`) and write are two statements; an update writes back a copy read earlier; names are checked raw and stored trimmed; ids are compared as text | names unique, rows readable, only administrators write, nothing comes back, an update touches what it carries |
| Class reads: same files | `classes`, `teachers`, `class_subjects`, `students` | `GET /classes`, `GET /classes/{classId}` | up to three statements at different moments | nothing out of scope is shown, nothing in scope is missing |
| Sign-in: `usecase/auth`, `google_verifier.go`, `user-repository.go`, `casbin-rule-repository.go` | `users` (unique index on the email), `casbin_rule` (no index) | `POST /auth/google` | the call to Google, a race of first sign-ins, two INSERTs that may be cut apart | one account per email, one grant per account, tokens say what is true of the account |
| Users: `usecase/user`, `handlers/user.go` | `users` | `POST`, `GET`, `DELETE /users` | races with sign-in; the driver's error texts; one unreadable row breaks every list | as above; every row is readable; nothing of a deleted account passes to a new one |
| Permission map: `permission_service.go`, `policies.csv` | none (policies are read once) | `GetPermissionsForRole` | order of rows, random order of Go's maps | the map depends on the rows of the role only |
| Tokens: `jwt-service.go`, `middleware/auth.go` | none | Sign, Verify, `JWTAuth` | a token outlives the facts it states by up to 24 hours; nobody looks them up again | it is never further behind, it ends, and only what it says counts |
| Start-up: `config`, `db/db.go`, `cmd/server`, `di` | the schema of the tables | open with retries, pool, auto-migration, listen | the database comes up late; a migration breaks off halfway | no request before every table is current; the next start repairs what the last one left |
| Migration command: `cmd/migration` | `users`, `subjects`, the library's version table | up, down | makes the tables in an older shape than the models | the server brings them up to date |
| Subjects, DI, generated code | - | - | - | - |

Components meet in the tables, in the token and in the one process: sign-in writes
`users`, the token carries user id and role to the class endpoints
(`ContextPermission`), `POST /classes` feeds the tables that reads go through, and the
process that serves them all ends and starts as a whole. No endpoint writes `teachers`, `students`,
`class_subjects` or `users.role`, and none deletes a class; the operators of the
database do, and the models let them, at any moment, as *external* actions.

## 2. Modules

| Module | What it models |
|---|---|
| `ClassDomain` | value objects, rows and request bodies of classes: what trimming, grade and id parsing do (`domain/class`, `class-model.go`) |
| `ClassWrite` | POST and PUT of classes, extends `ClassDomain` |
| `ClassStore` | abstract: the atomic table that the two endpoints promise |
| `ClassRead` | the two GETs of classes and the operators' changes of the four tables |
| `SignIn` | sign-in, sign-up, and the four endpoints of users |
| `AccountStore` | abstract: what the account endpoints promise, each request acting at one moment |
| `Permissions` | `parsePolicies` and `buildPermissions` |
| `Server` | the process from `main` to `e.Start`, and the migration files |
| `System` | composes `Server`, `AccountStore` and `ClassStore` with the life of tokens and the clock |
| `MC*` | instances for TLC; `ClassWrite`, `SignIn`, `ClassRead`, `Permissions` and `System` have one each |
| `*Proofs` | theorems about the module of that name; `SignInAtomicProofs` has the refinement of `SignIn` |
| `ClassPromisesProofs` | the documentation's sentences that `ClassWrite` violates, under the conditions in which they hold |
| `ClassStalenessProofs` | what overlapping updates may do at worst; adds the history variable `bases` to `ClassWrite` |

`System` is built on the two abstract stores and not on the detailed modules: that they
implement the stores is a property of its own (`AtomicStore`, `AtomicAccounts`), checked
and proved, and the composition would be out of TLC's reach with every statement in it.

How state and actions correspond to the code:

* **ClassWrite.** `classes` is the table, `pc[r]` where request *r* is, `input[r]` its
  body, path and role, `entity[r]` the class that `UpdateClass` holds in memory
  between its SELECT and its UPDATE. `Receive`/`TurnAway` are `JWTAuth` and `Bind`;
  `Validate` is `ValidateCtx` with the SELECT of `unique_in`; `Deny` the role check
  and `ParseID`; `Insert` the rest of `CreateClass`; `Find` and `Save` the two halves
  of `UpdateClass`. A statement may fail without effect or take effect and report an
  error (`Failures`), and `Crash` ends the process with every open request. `Trim` and `CanonID` say what `strings.TrimSpace` and
  `uuid.Parse` make of a text, so raw and stored values differ as in the code. The
  unique index is part of the two writes (`IndexRefuses`).
* **SignIn.** `users`, `grants` (how many `g` rows of `casbin_rule` an id has) and the
  `tokens` that are good; `loaded[r]` is the account a sign-in works from. `Verify` is
  the call to Google, `Find`, `Insert`, `Grant`, `Issue` the statements of `Execute` in
  order; `Insert` is also `POST /users`, `Delete` is `DELETE /users/{id}`, `Read` the two
  GETs, with `ToDomain` of every row (`Readable`). `NameFor` is the fallback from a blank
  Google name to the email. `Crash` ends the process: the tables stay, open requests are
  lost. `Expire` lets tokens run out. `used` and `seen` are history variables: no action
  reads `seen`, and `used` only says which ids are fresh.
* **AccountStore.** The refinement maps the token that a sign-in is about to hand out
  (`Claim`) to `earned`: a sign-in takes effect at its SELECT, a sign-up at its INSERT,
  and what comes after only delivers what was earned then.
* **Server.** `phase` is where `main` is, `attempt` the counter of `openWithRetry`, `next`
  the argument that AutoMigrate has come to, `schema[t]` what the table *t* looks like:
  absent, as a migration file made it (`"filed"`: `users` without `role` and `google_id`),
  without its index (`"bare"`), or current. One `Migrate` is one statement, except that the `ADD COLUMN`s
  of `users`, one for each missing column, are one: a table that has some of them is still
  `"filed"`, and a start that breaks off between them leaves it so. `trouble` is
  the environment's: while it lasts a connection may fail, a statement may fail and the
  process may end, and without it none of that happens.
* **System.** `left[t]` is the time that the youngest token with the claims *t* has left,
  `caller[r]` the token an open class request was let through with, `age[t]` (history) the
  time since *t* was last *deserved*, that is, since the account had the role that *t*
  says, or an open sign-in was about to issue *t*. `Admit` is `JWTAuth` and hands the
  token's role on; `Visit`, `Serve`, `Issue` and `Work` are the endpoints through their
  stores; `Stop` ends the process with all open requests; `Tick` is the clock.
* **ClassRead.** `ReadTeacher`, `ReadSubjects`, `ReadClasses` are the three statements
  of `FindByTeacherUserID`; `ReadStudent`, `ReadHomeroom` the two of
  `FindByStudentUserID`; `ReadAll` is `FindAll` or `FindByID`. `scopes[r]` is history:
  what the token was entitled to see at each moment since the request arrived.
* **Permissions.** `MergeRow` is one turn of the first loop of `buildPermissions`;
  `EmitTop` and `EmitNested` one turn of the range loops, which visit the keys in any
  order.

## 3. Runs

| Run | Bounds | Shows |
|---|---|---|
| `ClassWrite` | 2 requests, 2 ids, names `""`, `"A"`, `" A"`, `"B"`, grades 0 and 1, failing statements, liveness | `TypeOK`, `UniqueNames`, `RowsWellFormed`, `OnlyAdminsWrite`, `NoResurrection`, `Answered` hold |
| `ClassWriteAtomic` | 2 requests, 2 ids and a second spelling of one, blank and padded names, `Overlap = FALSE` | `ClassWrite` implements `ClassStore` as long as no two updates of one class overlap |
| `ClassDuplicate` | 1 request, no failures | *violated*: a duplicate with a leading space is answered 500, not 422 |
| `ClassOwnName` | 1 request, no failures | *violated*: an id in upper case makes a class's own name a duplicate |
| `ClassLostRename` | 2 requests, no failures | *violated*: an update of the grade undoes a concurrent rename |
| `SignIn` | 2 requests, 2 accounts, 2 emails, one Google account without a name, failures, crashes, expiry, liveness | `TypeOK`, `OneAccountPerEmail`, `AtMostOneGrant`, `NoNeedlessSignUp`, `RowsReadable`, `TokensAreFresh`, `FreshStart`, `Answered` hold; `SignIn` implements `AccountStore` (`AtomicAccounts`) |
| `SignInGrant` | 1 request, failures | *violated*: an account cut off between its two INSERTs never gets its grant |
| `SignInMySQL` | 1 request, MySQL | *violated*: a duplicate email is answered 500 |
| `ClassRead` | 1 request, 2 classes, 2 teacher profiles, 2 users, failures, liveness | `TypeOK`, `OnlyInScope`, `NothingMissed`, `Answered` hold |
| `OwnClassDenied` | 1 student, 1 class, failures | *violated*: a failing statement is answered 401 for the student's own class |
| `System` | 3 tables, 5 attempts, 1 account, 1 class, 2 roles, 1 account and 1 class request at a time, tokens of 2 ticks, outages, restarts, migration files, liveness | `TypeOK`, `StaleAuthorityBounded`, `SchemaBeforeData`, `WritesByAdmins`, `AuthorityEnds`, `ComesUp` hold |
| `Permissions` | all files of up to 3 lines out of 20 kinds, 2 resources, 2 roles | `TypeOK`, `MapMatchesPolicy` hold |

The violated runs each check one sentence of the documentation or a comment; PROJECT.json
quotes it under `findings`.

**Bounds.** Ids come from a finite pool and are never used again, as `uuid.New` never
repeats; a request that may create is admitted only while the pool has an id for it
(`IDsLeft`), so the bound never makes a statement impossible that the code could run.
Two requests are enough for the writes: every property relates at most two rows or two
requests, and what further requests can do to a third, the operators' actions or the
second request do as well. The padded name `" A"` next to `"A"`, the second spelling
`"C1"` of `"c1"` and the unparsable id `"bad"` stand for the ways in which a text can
differ from the value made of it. One reader is enough: readers write nothing that
another reader sees, and everything that changes the tables is in the model; two classes
and two profiles let an assignment move from the right one to the wrong one. Three
policy lines about two resources contain every pair of rows that merge or subsume one
another, in both orders, with one more in between. `ClassWriteAtomic` uses symmetry of
the requests (a safety check); the runs with liveness use none.

In `System` the tables are `users` (with an index and a file), `subjects` (with a file
only) and `classes` (with an index only), one of each kind that the seven models have;
`MaxAttempts` is the 5 of the code. Two ticks are enough for a token to be issued, to
become stale in the middle of its life and to end; the proof holds for any number. One
account loses and regains its role, is deleted and cannot come back under its id; a
second would interact with the first in no property of this module. Requests that are
turned away are left out: they change nothing. So are updates of one class that overlap,
for which `ClassStore` is not what the endpoints implement (`ClassLostRename`).

**Fairness.** Every request has weak fairness of its own steps: the Go scheduler runs
every goroutine that can run, and a statement returns or fails (the models give both
outcomes). No fairness is assumed of arrivals, operators or crashes. `SignIn` assumes none of
`Verify`: the HTTP client of the verifier has no timeout (`google_verifier.go:17`),
so Google's answer may never come, and `Answered` speaks of requests that have it. Where
the running process crashes, `Answered` counts the lost request as ended.

In `System` time passes (`Tick`), an admitted class request is worked on (`Work`, which
`ClassWrite`'s `Answered` justifies), and a process that is down is started again and goes
on (`Start`). The restart is not the code's own: `docker-compose.yml:12` says
`restart: unless-stopped`, but what it keeps running is `air`, which waits for a change of
a source file when the server has ended, so that without it somebody has to do it.
`ComesUp` therefore says what the *code* adds: that every start from every state of the
tables gets through once the trouble is over, and none leaves one that blocks the next.
No fairness is assumed of account requests, operators, outages or migration files.

**Deadlock** is checked in every run; there is none, since requests may always arrive or
be turned away.

## 4. Proofs

The theorems hold for any number of requests, ids, names, emails, roles, rows and
resources, under the named assumptions of the modules only (`IDAssumption`,
`NameAssumption`, `NilAssumption`, ...), which TLC evaluates in the runs.

* `ClassWriteProofs`. The inductive invariant adds to type, unique names and well-formed
  rows: every row's id is used, a request past the validator has an input whose fields
  the validator accepts, and a request about to save is an administrator's update, with a
  well-formed entity and an id that is used. Well-formedness of the *copy* is what makes the later UPDATE safe; it
  follows from that of the row read, so the two must be proved together. From it follow
  `TypeCorrect`, `NamesStayUnique`, `RowsStayWellFormed`, and, one lemma per action,
  `WritesAreAdmins` and `RemovedStaysRemoved`.
  `AtomicWhileUpdatesAreApart` proves the refinement to `ClassStore` for every behaviour in
  which no two updates of one class are open at a time (`[]OneUpdate`): the copy then differs
  from the row only in the fields that the request carries, unless the row was removed, so
  that `Save` is the abstract `Update` or `UpdateNothing`. The condition is one on what
  clients do, not on the program; `AtomicWhenUpdatesDoNotOverlap` draws the conclusion for
  `Overlap = FALSE`, the constant by which the run `ClassWriteAtomic` keeps updates apart.
* `ClassPromisesProofs`. Three sentences of the documentation are violated (section 3). Each
  is true under a condition, and the run shows that it is needed:

  | Theorem | Sentence | True if | Counterexample otherwise |
  |---|---|---|---|
  | `RenamesSurvive` | `GradeUpdateKeepsName` | no two updates of one class are open at a time | `ClassLostRename` |
  | `OwnNameStaysFree` | `OwnNameAccepted` | ids are sent as they are stored (`CanonicalPaths`), no statement fails | `ClassOwnName` |
  | `DuplicatesAre422` | `DuplicateIs422` | names are sent trimmed (`TrimmedNames`), one request is open at a time, no statement fails | `ClassDuplicate` |

  `RenamesSurvive` holds through failures, crashes and the operators' changes.
  `OwnNameStaysFree` needs nothing of other requests: at the moment of the check no other row has
  the class's own name (`NamesStayUnique`), and with a canonical id its own row is left out. `DuplicatesAre422` does: its invariant is that what
  `unique_in` found out is still so at the write.
* `ClassStalenessProofs`. `bases[r]` collects what the row of an open update has been since
  the request arrived; it only watches (`HistoryWatches`). The inductive invariant is that
  the copy was made of one member of it. `OverlapsUndoNothingOlder` concludes that the fields
  an UPDATE was not asked for come from *one* row that the class had while the request was
  open. An overlap can lose a rename, but never brings back a value that was overwritten before
  the request arrived, nor pairs the name of one moment with the grade of another.
* `SignInProofs`. The invariant says that a request between its INSERT and its grant is the
  only one about to grant that account, which has no grant yet; that the token a sign-in
  is going to issue is among what its email stood for since it arrived; and that ids not
  used have neither row nor grant. It gives `EmailsStayUnique`, `GrantsStaySingle`,
  `SignUpsAreNeeded` and `TokensStayFresh`. For `RowsStayReadable` a row's name is what
  `NameFor` gives, which is never blank because an email is not; for `AccountsStartFresh`
  every token and every open sign-in is of an id that is used.
  `SignUpsGetTheirGrant` is the sentence that `SignInGrant` violates, under `~Failures`:
  every account made by a sign-up has its grant whenever no request stands between the two
  INSERTs. `LostGrantsStayLost` says what a failure there means: an account without a grant and
  without a request about to add it keeps none, whatever sign-ins, retries and restarts follow.
* `SignInAtomicProofs` proves that `SignIn` implements `AccountStore`, one lemma per
  action. The invariant of `SignInProofs` supplies that an open sign-in has read an
  account before it comes to its grant or its token, so that the abstract token is earned
  exactly once.
* `SystemProofs`. The invariant joins the three parts. *Ages*: what a token has left and
  the time since it was deserved never exceed its life, and a deserved one has age 0; it
  is inductive because a token is issued only to a sign-in that deserves it. *Callers*: an
  open class request has the role of a token that was deserved once. *Progress*: AutoMigrate
  leaves only current tables behind it, and there are no open requests while the process
  does not serve, which is what lets files and restarts change the schema. It gives
  `TypeCorrect`, `AuthorityIsBounded`, `SchemaComesFirst` and `AdminsWrite`.
  `AdminsWrite` ties the write to the request that is answered at it, with any number of class
  requests open; the run has one. `ClassClientsSeeTheStore` is a projection and no more, since
  `System` is built from the actions of `ClassStore`; it carries what the store promises
  (`RowsStayGood`: readable rows, different names) over to the whole server.
  `ServerIsServer` is the same for the process. For `AccountStore` there is no such theorem,
  because it is not true: the file of `users` drops all accounts at once, which the store
  has no step for. What matters is proved directly over that step: `AccountsStayUnique`, and
  `TokensNeverPassOn`, for which every token, sign-in and caller is of an id that is used.
* `ClassReadProofs`. The invariant says that the class ids with which a request goes to its
  last statement are exactly the scope of its token at some moment since it arrived, and
  that the profile a teacher's request has read is still the user's, or was removed and the
  user had nothing in scope then. The first alone is not inductive: the second is what makes
  the SELECT of `class_subjects` return a scope. It gives `AnswersStayInScope` and
  `AnswersMissNothing`.
* `PermissionsProofs`. The loop invariant: after *n* rows the two maps are the strongest
  permission of the first *n* rows, and the range loops have emitted exactly the keys that
  they have visited. `MapFollowsPolicy` holds for files of every length.

**Behind the liveness properties.** Liveness under fairness is out of the prover's reach and
is only model-checked (`Answered`, `ComesUp`, `AuthorityEnds`). What is proved for every
instance is the measure that their arguments go by, leaving only that the measured steps are enabled
and taken:

* `RequestsDescend` (one each in `ClassWriteProofs`, `SignInProofs`, `ClassReadProofs`): each step
  of a request lowers the number of steps it still has, and no step of anyone raises it. In
  particular nothing retries, neither after a lost race nor after a failing statement.
* `StartUpDescends`: without trouble each step of a start lowers `Remaining`, which is at most
  two statements a table and three more steps, is 0 exactly while the server serves, and is never
  raised, from any state that broken starts and migration files can leave.
* `LostAuthorityRunsOut`: a token that is not deserved only runs down, each tick lowers what it
  has left, and when nothing is left no class request is let in by it.

`OwnClassDeniedOnlyByFailure` in `ClassReadProofs` is the sentence that `OwnClassDenied` violates,
under `~Failures`: about a class that stays the student's throughout, only a failing statement
can bring the 401, whatever else operators change between the two statements.

Only model-checked, besides liveness: `DuplicateEmailIs400`, whose violation on MySQL
(`SignInMySQL`) is a matter of the driver's text. A violated run is a counterexample of a small
instance; the theorems above say how far it reaches.

## 5. Not modelled, and why

* Timestamps, response bodies and messages: no property is about them. Of the names of
  users only blank or not matters. User names and emails that the domain refuses are
  `TurnAway`; an email that Google has vouched for is taken to be well-formed.
* The connection pool: its limits (25 for MySQL, 1 for SQLite) delay statements, but no
  request holds a connection while it waits for another, since nothing runs in a
  transaction. Signatures of tokens: taken to be unforgeable.
* The version table and the dirty flag of `golang-migrate`, and `-steps`: the library's. The
  model lets every file be run or undone at any time, in any order, as long as the server
  is down; `down` under a server that serves breaks every request until the next restart,
  and no property could say otherwise. What MySQL makes of the column type `uuid`
  (`user-models.go:10`), which it does not have, is the driver's, too: AutoMigrate
  may be unable to create such a table there; the model takes every type for valid.
* `docs/tasks/GS-003-test-plan.md:599` and `:616` want 403 for a create by a teacher or a
  student; the code, the tests of those names (`integration_test.go:394`, `:409`) and the
  review report `GS-003.md:145` have 401, and so has the model. No property rests on which
  of the two refuses.
* `docs/ONBOARDING.md:643` lists two models for AutoMigrate, `db.go:40` has seven; the
  model follows the code.
* GORM leaves zero fields out of `Updates`; `RowsWellFormed` shows that an entity never has
  one. MySQL compares names without regard to case; the models compare them as SQLite does.
* A crash during a class read: it loses the request, which changes nothing.
* `ClassRead` keeps to the foreign keys and the 1:1 profiles that
  `docs/specs/rbac-explanation.md` describes; the GORM schema does not declare the keys.
  `OnlyInScope` does rest on them where a removed profile or class could leave rows behind.
* A student that changes classes between the two statements of `FindByStudentUserID`, while
  the old class is removed, is told 401; `NothingMissed` leaves students' reads by id aside
  for that reason.
* Subjects (no caller), wiring and generated code beyond what section 2 names.

## 6. Plan

1. *Done*: `ClassWrite` with `ClassStore`, `SignIn` with `AccountStore`, `ClassRead`,
   `Permissions`, `Server`, and their composition `System`; their runs and theorems.
2. An abstract specification of the class reads, so that `System` can compose them, too,
   and more than one reader.
3. *Done*: the proof of the documentation's sentences under the conditions in which they do
   hold (canonical ids, trimmed names, no overlapping updates, no failures).
4. A student's read by id of a class that is removed while it runs, which
   `NothingMissed` leaves aside.
