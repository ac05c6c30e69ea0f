---------------------------- MODULE ClassDomain ----------------------------
(***************************************************************************)
(* The value objects and the entity of the class domain: ids, names,       *)
(* grades, rows of the table "classes", and the body of a POST or PUT      *)
(* request as the handler hands it over after binding.                     *)
(***************************************************************************)
EXTENDS Integers

CONSTANTS
  ClassID,   \* the canonical ids: what uuid.New returns and the table stores
  PathID,    \* the texts a client may put in the path for an id
  BadID,     \* a path text uuid.Parse refuses
  CanonID,   \* CanonID[p]: what uuid.Parse makes of the path text p
  RawName,   \* the names a client may send
  Blank,     \* the empty name (also: the field is absent)
  Trim,      \* Trim[n]: strings.TrimSpace(n)
  Grade,     \* the grades a client may send, illegal ones included
  NoGrade,   \* the field "grade" is absent from an update
  NoRow,     \* the value of the table at an id that has no row
  NoInput,   \* a slot that serves no request
  Role,      \* the roles a token may carry
  Admin      \* userDomain.RoleAdmin

ASSUME IDAssumption ==
  /\ ClassID \subseteq PathID
  /\ BadID \in PathID \ ClassID
  /\ CanonID \in [PathID -> ClassID \cup {BadID}]
  /\ CanonID[BadID] = BadID
  /\ \A c \in ClassID : CanonID[c] = c

ASSUME NameAssumption ==
  /\ Blank \in RawName
  /\ Trim \in [RawName -> RawName]
  /\ Trim[Blank] = Blank
  /\ \A n \in RawName : Trim[Trim[n]] = Trim[n]

ASSUME GradeAssumption == Grade \subseteq Int /\ NoGrade \notin Int

ASSUME RoleAssumption == Admin \in Role

\* NewGrade: a grade the domain accepts.
ValidGrade(g) == g > 0

\* NewName: a name the domain accepts, and the value object it makes of it.
ValidName(n) == Trim[n] # Blank

Row == [name : RawName, grade : Grade]

ASSUME NoRowAssumption == NoRow \notin Row

\* A row the domain could have produced: ToClassDomain reads it back.
WellFormed(row) ==
  /\ Trim[row.name] = row.name
  /\ row.name # Blank
  /\ ValidGrade(row.grade)

CreateInput ==
  [op : {"create"}, role : Role, path : {BadID}, name : RawName, grade : Grade]
UpdateInput ==
  [op : {"update"}, role : Role, path : PathID, name : RawName,
   grade : Grade \cup {NoGrade}]
Input == CreateInput \cup UpdateInput

ASSUME NoInputAssumption == NoInput \notin Input

\* NewClass: the row a create asks for.
NewClass_Untrimmed(i) == [name |-> i.name, grade |-> i.grade]
NewClass(i) == [name |-> Trim[i.name], grade |-> i.grade]

\* UpdateName and UpdateGrade: row with the fields the update carries.
Merge_NoNilCheck(row, i) ==
  [name |-> IF i.name = Blank THEN row.name ELSE Trim[i.name], grade |-> i.grade]
Merge(row, i) ==
  [name  |-> IF i.name = Blank THEN row.name ELSE Trim[i.name],
   grade |-> IF i.grade = NoGrade THEN row.grade ELSE i.grade]

\* The unique index on classes.name: a row other than c has the name n.
NameTaken(table, n, c) ==
  \E d \in ClassID \ {c} : table[d] # NoRow /\ table[d].name = n

=============================================================================
