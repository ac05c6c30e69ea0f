------------------------------- MODULE Server -------------------------------
(***************************************************************************)
(* The server process, from main to e.Start: it connects to the database,  *)
(* with a few attempts, brings the tables to the shape of the models, one  *)
(* statement at a time, and only then takes requests.  The tables are      *)
(* shared with the migration command, which has files for some of them and *)
(* which the operators run while the server is down.                       *)
(***************************************************************************)
EXTENDS Integers, Sequences

CONSTANTS
  Table,       \* the tables of the models
  Order,       \* Table in the order of the arguments of AutoMigrate
  Indexed,     \* the tables whose index takes a statement of its own
  Filed,       \* the tables that cmd/migration/sqls has a file for
  MaxAttempts  \* how often openWithRetry tries

VARIABLES
  phase,    \* of the process: "down", "opening", "migrating" or "serving"
  attempt,  \* how many attempts to connect have failed
  next,     \* the table AutoMigrate has come to
  schema,   \* schema[t]: "absent", "filed" (made by a file, without the later
            \* columns of the model), "bare" (without its index) or "current"
  trouble   \* TRUE while the database may be out of reach, statements may fail
            \* and the process may end

vars == <<phase, attempt, next, schema, trouble>>

Init ==
  /\ phase = "down"
  /\ attempt = 0
  /\ next = 1
  /\ schema = [t \in Table |-> "absent"]
  /\ trouble \in BOOLEAN

-----------------------------------------------------------------------------
\* The process goes on to another phase, or ends; what it counts starts anew.
Enter(p) == phase' = p /\ attempt' = 0 /\ next' = 1

\* The process is started: config.Load and newDialector, which do not fail
\* with a driver they know.
Boot ==
  /\ phase = "down"
  /\ Enter("opening")
  /\ UNCHANGED <<schema, trouble>>

\* openWithRetry: one more attempt; main ends after the last.
Open_OneTooMany ==
  /\ phase = "opening"
  /\ \/ Enter("migrating")
     \/ /\ trouble /\ attempt < MaxAttempts
        /\ attempt' = attempt + 1
        /\ UNCHANGED <<phase, next>>
     \/ trouble /\ attempt = MaxAttempts /\ Enter("down")
  /\ UNCHANGED <<schema, trouble>>
Open ==
  /\ phase = "opening"
  /\ \/ Enter("migrating")
     \/ /\ trouble /\ attempt + 1 < MaxAttempts
        /\ attempt' = attempt + 1
        /\ UNCHANGED <<phase, next>>
     \/ trouble /\ attempt + 1 = MaxAttempts /\ Enter("down")
  /\ UNCHANGED <<schema, trouble>>

\* The next statement of AutoMigrate for t: CREATE TABLE or ALTER TABLE for
\* the missing columns, then CREATE INDEX if there is one to make.  (There is
\* an ALTER TABLE for each column; with some of them a table is still "filed".)
Upgraded(t) ==
  IF schema[t] \in {"absent", "filed"} /\ t \in Indexed THEN "bare" ELSE "current"

\* AutoMigrate looks at each table in turn and does what it lacks; an error
\* ends main, and what was done stays.
Migrate_CreateAlways ==
  /\ phase = "migrating" /\ next <= Len(Order)
  /\ IF schema[Order[next]] = "absent"
     THEN /\ schema' = [schema EXCEPT ![Order[next]] = "current"]
          /\ next' = next + 1
          /\ UNCHANGED <<phase, attempt>>
     ELSE Enter("down") /\ UNCHANGED schema
  /\ UNCHANGED trouble
Migrate ==
  /\ phase = "migrating" /\ next <= Len(Order)
  /\ LET t == Order[next] IN
     \/ /\ schema' = [schema EXCEPT ![t] = Upgraded(t)]
        /\ next' = IF Upgraded(t) = "current" THEN next + 1 ELSE next
        /\ UNCHANGED <<phase, attempt>>
     \/ trouble /\ Enter("down") /\ UNCHANGED schema
  /\ UNCHANGED trouble

\* AutoMigrate is done: the components are wired and e.Start takes requests,
\* or finds its port taken, which ends main.
Listen_BeforeMigration ==
  /\ phase = "migrating"
  /\ Enter("serving")
  /\ UNCHANGED <<schema, trouble>>
Listen ==
  /\ phase = "migrating" /\ next > Len(Order)
  /\ Enter("serving") \/ (trouble /\ Enter("down"))
  /\ UNCHANGED <<schema, trouble>>

\* The process ends: a crash, a kill, a new build.
Stop ==
  /\ trouble /\ phase # "down"
  /\ Enter("down")
  /\ UNCHANGED <<schema, trouble>>

\* The migration command: CREATE TABLE IF NOT EXISTS, DROP TABLE IF EXISTS.
FileUp(t) ==
  /\ phase = "down" /\ t \in Filed /\ schema[t] = "absent"
  /\ schema' = [schema EXCEPT ![t] = "filed"]
  /\ UNCHANGED <<phase, attempt, next, trouble>>
FileDown(t) ==
  /\ phase = "down" /\ t \in Filed /\ schema[t] # "absent"
  /\ schema' = [schema EXCEPT ![t] = "absent"]
  /\ UNCHANGED <<phase, attempt, next, trouble>>

\* Trouble comes and goes.
Turn == trouble' = ~trouble /\ UNCHANGED <<phase, attempt, next, schema>>

\* What a process does of its own accord once it is started, and its start,
\* which is somebody's (the container's restart policy, or a developer).
Start == Boot \/ Open \/ Migrate \/ Listen

Next == Start \/ Stop \/ Turn \/ \E t \in Table : FileUp(t) \/ FileDown(t)

Spec == Init /\ [][Next]_vars /\ WF_vars(Start)

-----------------------------------------------------------------------------
TypeOK ==
  /\ phase \in {"down", "opening", "migrating", "serving"}
  /\ attempt \in 0..(MaxAttempts - 1)
  /\ next \in 1..(Len(Order) + 1)
  /\ schema \in [Table -> {"absent", "filed", "bare", "current"}]
  /\ trouble \in BOOLEAN

\* The server never takes requests before every table is what the models say,
\* wherever earlier starts broke off and whichever files were run since.
ServesMigrated == phase = "serving" => \A t \in Table : schema[t] = "current"

\* Once the trouble is over the server comes up, whatever state the tables are
\* in, if somebody starts it again after it gave up.
ComesUp == <>[]~trouble => <>[](phase = "serving")

=============================================================================
