--------------------------- MODULE ClassReadProofs ---------------------------
(***************************************************************************)
(* Proofs about ClassRead, for any number of requests, classes, teachers   *)
(* and users, with or without failing statements.                          *)
(***************************************************************************)
EXTENDS ClassRead, Integers, TLAPS

Label == {"idle", "start", "subjects", "rows", "homeroom"}

-----------------------------------------------------------------------------
\* The inductive invariant.

\* What the operators of the database keep: foreign keys and 1:1 profiles, and
\* the id of a removed profile is not used again.
KeysOK ==
  /\ \A c \in ClassID, t \in TeacherID :
       <<c, t>> \in assigned => c \in classes /\ teachers[t] # Nobody
  /\ \A s, t \in TeacherID : teachers[s] # Nobody /\ teachers[s] = teachers[t] => s = t
  /\ \A t \in TeacherID : teachers[t] # Nobody => t \notin retired
  /\ \A u \in UserID : homeroom[u] # NoClass => homeroom[u] \in classes

\* The profile t was the user's when it was read; since then it is either
\* untouched, or there was a moment at which the user had nothing in scope.
ProfileRead(r, t) ==
  /\ t \in TeacherID /\ found[r] = {t}
  /\ \/ teachers[t] = input[r].user
     \/ teachers[t] = Nobody /\ t \in retired /\ {} \in scopes[r]

RequestOK(r) ==
  /\ pc[r] = "idle" => input[r] = NoInput /\ found[r] = {}
  /\ pc[r] = "start" => found[r] = {}
  /\ pc[r] # "idle" => input[r] \in Input /\ ScopeOf(r) \in scopes[r]
  /\ pc[r] \in {"subjects", "rows"} => input[r].role = "TEACHER"
  /\ pc[r] = "homeroom" => input[r].role = "STUDENT" /\ \E c \in ClassID : found[r] = {c}
  /\ pc[r] = "subjects" => \E t \in TeacherID : ProfileRead(r, t)
  /\ pc[r] \in {"rows", "homeroom"} => found[r] \in scopes[r]

Inv ==
  /\ TypeOK
  /\ KeysOK
  /\ \A r \in Request : RequestOK(r)

-----------------------------------------------------------------------------
\* Scopes.

LEMMA InputFields ==
  ASSUME NEW i \in Input
  PROVE  i.op \in {"list", "byid"} /\ i.role \in Role /\ i.user \in UserID
BY DEF Input

LEMMA ScopeType ==
  ASSUME TypeOK, NEW i \in Input
  PROVE  Scope(i) \subseteq classes /\ Scope(i) \subseteq ClassID
BY InputFields DEF TypeOK, Scope, Role

\* The scope of a teacher is what is assigned to its profile.
LEMMA TeacherScope ==
  ASSUME TypeOK, KeysOK, NEW i \in Input, i.role = "TEACHER",
         NEW t \in TeacherID, teachers[t] = i.user
  PROVE  Scope(i) = {c \in ClassID : <<c, t>> \in assigned}
<1>1. i.user # Nobody
  BY InputFields, ValueAssumption
<1>2. \A s \in TeacherID : teachers[s] = i.user => s = t
  BY <1>1 DEF KeysOK
<1>3. Scope(i) = {c \in classes : \E s \in TeacherID :
                                    teachers[s] = i.user /\ <<c, s>> \in assigned}
  BY DEF Scope
<1> QED BY <1>2, <1>3 DEF TypeOK, KeysOK

LEMMA NoProfileNoScope ==
  ASSUME NEW i \in Input, i.role = "TEACHER",
         \A t \in TeacherID : teachers[t] # i.user
  PROVE  Scope(i) = {}
BY DEF Scope

LEMMA StudentScope ==
  ASSUME KeysOK, NEW i \in Input, i.role = "STUDENT", homeroom[i.user] # NoClass
  PROVE  Scope(i) = {homeroom[i.user]}
BY InputFields DEF Scope, KeysOK

-----------------------------------------------------------------------------
\* The steps of a request.

\* A step that leaves the tables and moves no request but r.
Moves(r) ==
  /\ UNCHANGED tables
  /\ pc' \in [Request -> Label]
  /\ input' \in [Request -> Input \cup {NoInput}]
  /\ answer' \in [Request -> [code : {0, 200, 401, 500}, body : SUBSET ClassID]]
  /\ found' \in [Request -> (SUBSET ClassID) \cup (SUBSET TeacherID)]
  /\ \A s \in Request : s # r => /\ pc'[s] = pc[s] /\ input'[s] = input[s]
                                  /\ found'[s] = found[s]
  /\ pc'[r] # "idle" => input'[r] \in Input
  /\ found'[r] \subseteq IF pc'[r] = "subjects" THEN TeacherID ELSE ClassID

LEMMA SeenAfter ==
  ASSUME TypeOK, Observe, UNCHANGED tables, NEW s \in Request, pc'[s] # "idle"
  PROVE  /\ ScopeOf(s)' = Scope(input'[s])
         /\ scopes'[s] = scopes[s] \cup {Scope(input'[s])}
<1>1. ScopeOf(s)' = Scope(input'[s])
  BY DEF ScopeOf, Scope, tables
<1> QED BY <1>1 DEF Observe

LEMMA Assemble ==
  ASSUME Inv, Observe, NEW r \in Request, Moves(r),
         pc'[r] # "idle" /\ ScopeOf(r)' \in scopes'[r] => RequestOK(r)',
         pc'[r] = "idle" => input'[r] = NoInput /\ found'[r] = {}
  PROVE  Inv'
<1>1. \A s \in Request : pc'[s] # "idle" => input'[s] \in Input
  BY DEF Inv, RequestOK, Moves
<1>2. \A s \in Request : pc'[s] # "idle" => /\ ScopeOf(s)' = Scope(input'[s])
                                            /\ scopes'[s] = scopes[s] \cup {ScopeOf(s)'}
  BY SeenAfter DEF Inv, Moves
<1>3. scopes' \in [Request -> SUBSET SUBSET ClassID]
  <2>1. \A s \in Request : pc'[s] # "idle" => ScopeOf(s)' \subseteq ClassID
    BY <1>1, <1>2, ScopeType DEF Inv
  <2> QED BY <1>2, <2>1 DEF Observe, Inv, TypeOK
<1>4. TypeOK'
  BY <1>3 DEF Inv, TypeOK, Moves, Label, tables
<1>5. KeysOK'
  BY DEF Inv, KeysOK, Moves, tables
<1>6. ASSUME NEW s \in Request, s # r PROVE RequestOK(s)'
  <2>1. pc'[s] = pc[s] /\ input'[s] = input[s] /\ found'[s] = found[s]
    BY <1>6 DEF Moves
  <2>2. pc[s] # "idle" => scopes[s] \subseteq scopes'[s] /\ ScopeOf(s)' \in scopes'[s]
    BY <1>2, <2>1
  <2>3. \A t : ProfileRead(s, t) /\ pc[s] # "idle" => ProfileRead(s, t)'
    BY <2>1, <2>2 DEF ProfileRead, Moves, tables
  <2> QED BY <2>1, <2>2, <2>3 DEF Inv, RequestOK
<1>7. RequestOK(r)'
  <2>1. CASE pc'[r] = "idle"
    BY <2>1 DEF RequestOK
  <2>2. CASE pc'[r] # "idle"
    BY <1>2, <2>2
  <2> QED BY <2>1, <2>2
<1> QED BY <1>4, <1>5, <1>6, <1>7 DEF Inv

LEMMA AnswerInv ==
  ASSUME Inv, Observe, UNCHANGED tables, NEW r \in Request,
         NEW code \in {200, 401, 500}, NEW body \in SUBSET ClassID, Answer(r, code, body)
  PROVE  Inv'
<1>1. Moves(r) /\ pc'[r] = "idle" /\ input'[r] = NoInput /\ found'[r] = {}
  BY DEF Inv, TypeOK, Answer, Goto, Moves, Label
<1> QED BY <1>1, Assemble

LEMMA ReplyInv ==
  ASSUME Inv, Observe, UNCHANGED tables, NEW r \in Request,
         NEW ids \in SUBSET ClassID, Reply(r, ids)
  PROVE  Inv'
<1>1. input[r].path \in ids => {input[r].path} \in SUBSET ClassID
  OBVIOUS
<1> QED BY <1>1, AnswerInv DEF Reply

LEMMA ReadOnMoves ==
  ASSUME Inv, UNCHANGED tables, NEW r \in Request, pc[r] # "idle",
         NEW l \in Label \ {"idle"},
         NEW ids \in SUBSET (IF l = "subjects" THEN TeacherID ELSE ClassID),
         ReadOn(r, l, ids)
  PROVE  Moves(r) /\ pc'[r] = l /\ input'[r] = input[r] /\ found'[r] = ids
<1>1. ids \in (SUBSET ClassID) \cup (SUBSET TeacherID)
  OBVIOUS
<1>2. pc' = [pc EXCEPT ![r] = l] /\ found' = [found EXCEPT ![r] = ids]
  BY DEF ReadOn, Goto
<1>3. pc' \in [Request -> Label] /\ pc'[r] = l
  BY <1>2 DEF Inv, TypeOK, Label
<1>4. found' \in [Request -> (SUBSET ClassID) \cup (SUBSET TeacherID)] /\ found'[r] = ids
  BY <1>1, <1>2 DEF Inv, TypeOK
<1>5. \A s \in Request : s # r => pc'[s] = pc[s] /\ found'[s] = found[s]
  BY <1>2 DEF Inv, TypeOK
<1> QED BY <1>3, <1>4, <1>5 DEF Inv, TypeOK, RequestOK, ReadOn, Moves

LEMMA ReceiveInv ==
  ASSUME Inv, Observe, NEW r \in Request, NEW i \in Input, Receive(r, i)
  PROVE  Inv'
<1>1. Moves(r) /\ pc'[r] = "start" /\ input'[r] = i /\ found'[r] = {}
  BY DEF Inv, TypeOK, RequestOK, Receive, Goto, Moves, Label
<1> QED BY <1>1, Assemble DEF RequestOK

LEMMA TurnAwayInv ==
  ASSUME Inv, Observe, NEW r \in Request, TurnAway(r)
  PROVE  Inv'
<1>1. Moves(r) /\ pc'[r] = "idle" /\ input'[r] = NoInput /\ found'[r] = {}
  BY DEF Inv, TypeOK, RequestOK, TurnAway, Moves, Label
<1> QED BY <1>1, Assemble

LEMMA ReadTeacherInv ==
  ASSUME Inv, Observe, NEW r \in Request, ReadTeacher(r)
  PROVE  Inv'
<1> DEFINE u == input[r].user
           profiles == {t \in TeacherID : teachers[t] = u}
<1>1. /\ pc[r] = "start" /\ input[r] \in Input /\ input[r].role = "TEACHER"
      /\ u \in UserID /\ UNCHANGED tables
  BY InputFields DEF Inv, RequestOK, ReadTeacher, Starts
<1>2. CASE Reply(r, {}) \/ Fail(r)
  BY <1>1, <1>2, ReplyInv, AnswerInv DEF Fail
<1>3. CASE profiles # {} /\ ReadOn(r, "subjects", profiles)
  <2>1. PICK t \in TeacherID : teachers[t] = u
    BY <1>3
  <2>2. profiles = {t}
    BY <1>1, <2>1, ValueAssumption DEF Inv, KeysOK
  <2> HIDE DEF profiles
  <2>3. Moves(r) /\ pc'[r] = "subjects" /\ input'[r] = input[r] /\ found'[r] = {t}
    BY <1>1, <1>3, <2>2, ReadOnMoves DEF Label
  <2>4. ProfileRead(r, t)'
    BY <1>1, <2>1, <2>3 DEF ProfileRead, tables
  <2> QED BY <1>1, <2>3, <2>4, Assemble DEF RequestOK
<1> QED BY <1>2, <1>3 DEF ReadTeacher

\* What a request reads in class_subjects is the scope of its token at that
\* moment, or there was a moment without any.
LEMMA SubjectsInScope ==
  ASSUME Inv, NEW r \in Request, pc[r] = "subjects",
         NEW ids, ids = {c \in ClassID : \E t \in found[r] : <<c, t>> \in assigned}
  PROVE  ids \in scopes[r]
<1>1. /\ input[r] \in Input /\ input[r].role = "TEACHER"
      /\ Scope(input[r]) \in scopes[r]
  BY DEF Inv, RequestOK, ScopeOf
<1>2. PICK t \in TeacherID : ProfileRead(r, t)
  BY DEF Inv, RequestOK
<1>3. ids = {c \in ClassID : <<c, t>> \in assigned}
  BY <1>2 DEF ProfileRead
<1>4. CASE teachers[t] = input[r].user
  BY <1>1, <1>3, <1>4, TeacherScope DEF Inv
<1>5. CASE teachers[t] = Nobody /\ {} \in scopes[r]
  <2>1. ids = {}
    BY <1>3, <1>5 DEF Inv, KeysOK
  <2> QED BY <1>5, <2>1
<1> QED BY <1>2, <1>4, <1>5 DEF ProfileRead

LEMMA ReadSubjectsInv ==
  ASSUME Inv, Observe, NEW r \in Request, ReadSubjects(r)
  PROVE  Inv'
<1> DEFINE ids == {c \in ClassID : \E t \in found[r] : <<c, t>> \in assigned}
<1>1. /\ pc[r] = "subjects" /\ input[r] \in Input /\ input[r].role = "TEACHER"
      /\ ids \in SUBSET ClassID /\ UNCHANGED tables
  BY DEF Inv, RequestOK, ReadSubjects
<1>2. ids \in scopes[r]
  BY <1>1, SubjectsInScope
<1>3. CASE Reply(r, {}) \/ Fail(r)
  BY <1>1, <1>3, ReplyInv, AnswerInv DEF Fail
<1>4. CASE ReadOn(r, "rows", ids)
  <2> HIDE DEF ids
  <2>1. Moves(r) /\ pc'[r] = "rows" /\ input'[r] = input[r] /\ found'[r] = ids
    BY <1>1, <1>4, ReadOnMoves DEF Label
  <2>2. ids \in scopes'[r]
    BY <1>1, <1>2, <2>1, SeenAfter DEF Inv
  <2> QED BY <1>1, <2>1, <2>2, Assemble DEF RequestOK
<1> QED BY <1>3, <1>4 DEF ReadSubjects

LEMMA ReadStudentInv ==
  ASSUME Inv, Observe, NEW r \in Request, ReadStudent(r)
  PROVE  Inv'
<1> DEFINE c == homeroom[input[r].user]
<1>1. /\ pc[r] = "start" /\ input[r] \in Input /\ input[r].role = "STUDENT"
      /\ c \in ClassID \cup {NoClass} /\ UNCHANGED tables
      /\ Scope(input[r]) \in scopes[r]
  BY InputFields DEF Inv, TypeOK, RequestOK, ReadStudent, Starts, ScopeOf
<1>2. CASE Answer(r, 401, {}) \/ FailStudent(r)
  BY <1>1, <1>2, AnswerInv DEF FailStudent
<1>3. CASE c # NoClass /\ ReadOn(r, "homeroom", {c})
  <2>1. Scope(input[r]) = {c}
    BY <1>1, <1>3, StudentScope DEF Inv
  <2>2. {c} \in SUBSET ClassID /\ c \in ClassID
    BY <1>1, <1>3
  <2> HIDE DEF c
  <2>3. Moves(r) /\ pc'[r] = "homeroom" /\ input'[r] = input[r] /\ found'[r] = {c}
    BY <1>1, <1>3, <2>2, ReadOnMoves DEF Label
  <2>4. {c} \in scopes'[r]
    BY <1>1, <2>1, <2>3, SeenAfter DEF Inv
  <2> QED BY <1>1, <2>2, <2>3, <2>4, Assemble DEF RequestOK
<1> QED BY <1>2, <1>3 DEF ReadStudent

LEMMA StepInv ==
  ASSUME Inv, Observe, NEW r \in Request, Step(r)
  PROVE  Inv'
<1>1. CASE Deny(r)
  BY <1>1, AnswerInv DEF Deny
<1>2. CASE ReadAll(r)
  BY <1>2, ReplyInv, AnswerInv DEF ReadAll, Fail, Inv, TypeOK
<1>3. CASE ReadClasses(r)
  <2>1. found[r] \cap classes \in SUBSET ClassID
    BY DEF Inv, TypeOK
  <2> QED BY <1>3, <2>1, ReplyInv, AnswerInv DEF ReadClasses, Fail
<1>4. CASE ReadHomeroom(r)
  <2>1. found[r] \in SUBSET ClassID
    BY <1>4 DEF Inv, TypeOK, ReadHomeroom
  <2> QED BY <1>4, <2>1, ReplyInv, AnswerInv DEF ReadHomeroom, FailStudent
<1> QED BY <1>1, <1>2, <1>3, <1>4, ReadTeacherInv, ReadSubjectsInv, ReadStudentInv
        DEF Step

-----------------------------------------------------------------------------
\* The steps of the operators.

TablesTyped ==
  /\ classes \subseteq ClassID
  /\ teachers \in [TeacherID -> UserID \cup {Nobody}]
  /\ assigned \subseteq ClassID \X TeacherID
  /\ homeroom \in [UserID -> ClassID \cup {NoClass}]
  /\ retired \subseteq ClassID \cup TeacherID

\* Profiles are added under fresh ids, or removed for good.
ProfilesAdded ==
  \A t \in TeacherID :
    teachers'[t] = teachers[t] \/ (teachers[t] = Nobody /\ t \notin retired)
ProfilesRemoved ==
  \A t \in TeacherID :
    teachers'[t] = teachers[t] \/ (teachers'[t] = Nobody /\ t \in retired')

\* The requests survive whatever the operators do to the tables.
LEMMA RequestsKept ==
  ASSUME Inv, Observe, UNCHANGED requests, TablesTyped', KeysOK',
         retired \subseteq retired', ProfilesAdded \/ ProfilesRemoved
  PROVE  Inv'
<1>1. UNCHANGED <<pc, input, found, answer>>
  BY DEF requests
<1>2. \A s \in Request : pc[s] # "idle" =>
        input[s] \in Input /\ ScopeOf(s)' \subseteq ClassID
  <2> SUFFICES ASSUME NEW s \in Request, pc[s] # "idle"
               PROVE  input[s] \in Input /\ ScopeOf(s)' \subseteq ClassID
    OBVIOUS
  <2>1. input[s] \in Input
    BY DEF Inv, RequestOK
  <2>2. ScopeOf(s)' \subseteq classes'
    BY <1>1, <2>1, InputFields DEF ScopeOf, Scope, Role
  <2> QED BY <2>1, <2>2 DEF TablesTyped
<1>3. \A s \in Request : pc[s] # "idle" => scopes'[s] = scopes[s] \cup {ScopeOf(s)'}
  BY <1>1 DEF Observe
<1>4. scopes' \in [Request -> SUBSET SUBSET ClassID]
  BY <1>1, <1>2, <1>3 DEF Observe, Inv, TypeOK
<1>5. TypeOK'
  BY <1>1, <1>4 DEF Inv, TypeOK, TablesTyped
<1>6. ASSUME NEW s \in Request, NEW t \in TeacherID, pc[s] = "subjects", ProfileRead(s, t)
      PROVE  ProfileRead(s, t)'
  <2>1. /\ input[s] \in Input /\ input[s].role = "TEACHER" /\ input[s].user \in UserID
        /\ input'[s] = input[s] /\ found'[s] = {t} /\ input[s].user # Nobody
    BY <1>1, <1>6, InputFields, ValueAssumption DEF Inv, RequestOK, ProfileRead
  <2>2. CASE teachers[t] = Nobody /\ t \in retired /\ {} \in scopes[s]
    BY <1>3, <1>6, <2>1, <2>2 DEF ProfileRead, ProfilesAdded, ProfilesRemoved
  <2>3. CASE teachers'[t] = input[s].user
    BY <2>1, <2>3 DEF ProfileRead
  <2>4. CASE /\ teachers[t] = input[s].user /\ teachers'[t] = Nobody /\ t \in retired'
             /\ ProfilesRemoved
    <3>1. \A x \in TeacherID : teachers'[x] # input[s].user
      BY <2>1, <2>4 DEF Inv, KeysOK, ProfilesRemoved
    <3>2. ScopeOf(s)' = {}
      BY <1>1, <2>1, <3>1 DEF ScopeOf, Scope
    <3> QED BY <1>3, <1>6, <2>1, <2>4, <3>2 DEF ProfileRead
  <2> QED BY <1>6, <2>1, <2>2, <2>3, <2>4 DEF ProfileRead, ProfilesAdded, ProfilesRemoved
<1>7. \A s \in Request : RequestOK(s)'
  BY <1>1, <1>2, <1>3, <1>6 DEF Inv, RequestOK
<1> QED BY <1>5, <1>7 DEF Inv

LEMMA ChangeInv ==
  ASSUME Inv, Observe, Change
  PROVE  Inv'
<1> USE DEF Inv
<1>1. ASSUME NEW c \in ClassID, CreateClass(c) PROVE Inv'
  <2>1. TablesTyped' /\ KeysOK' /\ retired \subseteq retired' /\ ProfilesAdded
    BY <1>1 DEF CreateClass, TypeOK, TablesTyped, KeysOK, ProfilesAdded
  <2> QED BY <2>1, RequestsKept DEF Change
<1>2. ASSUME NEW c \in ClassID, RemoveClass(c) PROVE Inv'
  <2>1. TablesTyped' /\ retired \subseteq retired' /\ ProfilesAdded
    BY <1>2 DEF RemoveClass, TypeOK, TablesTyped, ProfilesAdded
  <2>2. KeysOK'
    BY <1>2, ValueAssumption DEF RemoveClass, TypeOK, KeysOK
  <2> QED BY <2>1, <2>2, RequestsKept DEF Change
<1>3. ASSUME NEW t \in TeacherID, NEW u \in UserID, AddTeacher(t, u) PROVE Inv'
  <2>1. \A x \in TeacherID : teachers'[x] = IF x = t THEN u ELSE teachers[x]
    BY <1>3 DEF AddTeacher, TypeOK
  <2>2. TablesTyped' /\ retired \subseteq retired' /\ ProfilesAdded
    BY <1>3, <2>1 DEF AddTeacher, TypeOK, TablesTyped, ProfilesAdded
  <2>3. KeysOK'
    BY <1>3, <2>1, ValueAssumption DEF AddTeacher, KeysOK
  <2> QED BY <2>2, <2>3, RequestsKept DEF Change
<1>4. ASSUME NEW t \in TeacherID, RemoveTeacher(t) PROVE Inv'
  <2>1. \A x \in TeacherID : teachers'[x] = IF x = t THEN Nobody ELSE teachers[x]
    BY <1>4 DEF RemoveTeacher, TypeOK
  <2>2. TablesTyped' /\ retired \subseteq retired' /\ ProfilesRemoved
    BY <1>4, <2>1 DEF RemoveTeacher, TypeOK, TablesTyped, ProfilesRemoved
  <2>3. KeysOK'
    BY <1>4, <2>1 DEF RemoveTeacher, KeysOK
  <2> QED BY <2>2, <2>3, RequestsKept DEF Change
<1>5. ASSUME NEW c \in ClassID, NEW t \in TeacherID, Assign(c, t) \/ Unassign(c, t)
      PROVE  Inv'
  <2>1. TablesTyped' /\ KeysOK' /\ retired \subseteq retired' /\ ProfilesAdded
    BY <1>5 DEF Assign, Unassign, TypeOK, TablesTyped, KeysOK, ProfilesAdded
  <2> QED BY <2>1, RequestsKept DEF Change
<1>6. ASSUME NEW u \in UserID, NEW c \in ClassID \cup {NoClass}, Enrol(u, c) PROVE Inv'
  <2>1. TablesTyped' /\ KeysOK' /\ retired \subseteq retired' /\ ProfilesAdded
    BY <1>6 DEF Enrol, TypeOK, TablesTyped, KeysOK, ProfilesAdded
  <2> QED BY <2>1, RequestsKept DEF Change
<1> QED BY <1>1, <1>2, <1>3, <1>4, <1>5, <1>6 DEF Change

LEMMA InitInv == Init => Inv
BY DEF Init, Inv, TypeOK, KeysOK, RequestOK

LEMMA NextInv == Inv /\ [Next]_vars => Inv'
<1> SUFFICES ASSUME Inv, [Next]_vars PROVE Inv'
  OBVIOUS
<1>1. CASE UNCHANGED vars
  <2>1. TypeOK' /\ KeysOK'
    BY <1>1 DEF vars, Inv, TypeOK, KeysOK
  <2>2. \A r \in Request : /\ ScopeOf(r)' = ScopeOf(r)
                           /\ \A t : ProfileRead(r, t) => ProfileRead(r, t)'
    BY <1>1 DEF vars, ScopeOf, Scope, ProfileRead
  <2>3. \A r \in Request : RequestOK(r)'
    BY <1>1, <2>2 DEF vars, Inv, RequestOK
  <2> QED BY <2>1, <2>3 DEF Inv
<1> QED BY <1>1, ReceiveInv, TurnAwayInv, StepInv, ChangeInv DEF Next

LEMMA Invariance == Spec => []Inv
BY InitInv, NextInv, PTL DEF Spec

-----------------------------------------------------------------------------
\* The answers.

\* The ids are in scope at one moment, and what is not among them was out of
\* scope at some moment.
Fits(r, ids) ==
  /\ \E S \in scopes[r] : ids \subseteq S
  /\ \A c \in ClassID \ ids : \E S \in scopes[r] : c \notin S

InScope(r) ==
  answer'[r].body = {} \/ \E S \in scopes[r] : answer'[r].body \subseteq S

Complete(r) ==
  (IF input[r].op = "list" THEN answer'[r].code = 200
   ELSE answer'[r].code = 401 /\ input[r].role # "STUDENT")
  => \A c \in ClassID \ answer'[r].body :
       (input[r].op = "byid" => c = input[r].path) => \E S \in scopes[r] : c \notin S

LEMMA AnswerValue ==
  ASSUME TypeOK, NEW r \in Request, NEW code, NEW body, Answer(r, code, body)
  PROVE  answer'[r].code = code /\ answer'[r].body = body
BY DEF TypeOK, Answer

LEMMA ReplyFits ==
  ASSUME TypeOK, NEW r \in Request, input[r] \in Input, NEW ids, Fits(r, ids),
         Reply(r, ids)
  PROVE  InScope(r) /\ Complete(r)
<1>1. CASE input[r].op = "list" /\ Answer(r, 200, ids)
  <2>1. answer'[r].code = 200 /\ answer'[r].body = ids
    BY <1>1, AnswerValue
  <2> QED BY <1>1, <2>1 DEF Fits, InScope, Complete
<1>2. CASE input[r].path \in ids /\ input[r].op # "list" /\ Answer(r, 200, {input[r].path})
  <2>1. answer'[r].code = 200 /\ answer'[r].body = {input[r].path}
    BY <1>2, AnswerValue
  <2> QED BY <1>2, <2>1 DEF Fits, InScope, Complete
<1>3. CASE input[r].path \notin ids /\ input[r].op # "list" /\ Answer(r, 401, {})
  <2>1. answer'[r].code = 401 /\ answer'[r].body = {}
    BY <1>3, AnswerValue
  <2>2. input[r].op = "byid"
    BY <1>3, InputFields
  <2> QED BY <1>3, <2>1, <2>2 DEF Fits, InScope, Complete
<1> QED BY <1>1, <1>2, <1>3 DEF Reply

\* An answer 500, or a denial of a student, shows nothing and hides nothing.
LEMMA FailureFits ==
  ASSUME TypeOK, NEW r \in Request, input[r] \in Input,
         NEW code, NEW body, Answer(r, code, body), body = {},
         code = 500 \/ (code = 401 /\ input[r].role = "STUDENT")
  PROVE  InScope(r) /\ Complete(r)
<1>1. answer'[r].code = code /\ answer'[r].body = body
  BY AnswerValue
<1>2. InScope(r)
  BY <1>1 DEF InScope
<1>3. CASE input[r].op = "list"
  BY <1>1, <1>2, <1>3 DEF Complete
<1>4. CASE input[r].op # "list"
  BY <1>1, <1>2, <1>4 DEF Complete
<1> QED BY <1>3, <1>4

LEMMA ScopeFits ==
  ASSUME NEW r \in Request, NEW S \in scopes[r]
  PROVE  Fits(r, S)
BY DEF Fits

\* What every step that answers a request answers it.
LEMMA StepAnswers ==
  ASSUME Inv, NEW r \in Request, Step(r), pc'[r] = "idle"
  PROVE  InScope(r) /\ Complete(r)
<1>1. TypeOK /\ RequestOK(r)
  BY DEF Inv
<1>2. pc[r] # "idle"
  BY DEF Step, Deny, ReadAll, ReadTeacher, ReadSubjects, ReadClasses, ReadStudent,
         ReadHomeroom, Starts
<1>3. /\ input[r] \in Input /\ Scope(input[r]) \in scopes[r]
      /\ Scope(input[r]) \subseteq classes
  BY <1>1, <1>2, ScopeType DEF RequestOK, ScopeOf
<1>4. \A l \in Label \ {"idle"} : ~(pc' = [pc EXCEPT ![r] = l])
  BY <1>1 DEF TypeOK
<1>5. CASE Fail(r)
  <2>1. Answer(r, 500, {})
    BY <1>5 DEF Fail
  <2>2. answer'[r].code = 500 /\ answer'[r].body = {}
    BY <1>1, <2>1, AnswerValue
  <2>3. Complete(r)
    BY <2>2 DEF Complete
  <2> QED BY <2>2, <2>3 DEF InScope
<1>6. CASE Deny(r)
  <2>1. answer'[r].code = 401 /\ answer'[r].body = {}
    BY <1>1, <1>6, AnswerValue DEF Deny
  <2>2. CASE input[r].role = "OTHER"
    <3>1. {} \in scopes[r]
      BY <1>3, <2>2 DEF Scope
    <3> QED BY <2>1, <3>1 DEF InScope, Complete
  <2>3. CASE input[r].op = "byid" /\ input[r].path = BadID
    BY <2>1, <2>3, ValueAssumption DEF InScope, Complete
  <2> QED BY <1>6, <2>2, <2>3 DEF Deny, Denied
<1>7. CASE ReadAll(r) /\ Reply(r, classes)
  <2>1. classes \in scopes[r]
    BY <1>3, <1>7 DEF ReadAll, Starts, Scope
  <2> QED BY <1>1, <1>3, <1>7, <2>1, ScopeFits, ReplyFits
<1>8. CASE ReadTeacher(r) /\ Reply(r, {})
              /\ {t \in TeacherID : teachers[t] = input[r].user} = {}
  <2>1. {} \in scopes[r]
    BY <1>3, <1>8, NoProfileNoScope DEF ReadTeacher, Starts
  <2> QED BY <1>1, <1>3, <1>8, <2>1, ScopeFits, ReplyFits
<1>9. CASE ReadSubjects(r) /\ Reply(r, {})
              /\ {c \in ClassID : \E t \in found[r] : <<c, t>> \in assigned} = {}
  <2>1. {} \in scopes[r]
    BY <1>9, SubjectsInScope DEF ReadSubjects
  <2> QED BY <1>1, <1>3, <1>9, <2>1, ScopeFits, ReplyFits
<1>10. CASE ReadClasses(r) /\ Reply(r, found[r] \cap classes)
  <2>1. found[r] \in scopes[r]
    BY <1>1, <1>10 DEF RequestOK, ReadClasses
  <2>2. Fits(r, found[r] \cap classes)
    BY <1>3, <2>1 DEF Fits
  <2> QED BY <1>1, <1>3, <1>10, <2>2, ReplyFits
<1>11. CASE ReadStudent(r) /\ (Answer(r, 401, {}) \/ FailStudent(r))
  BY <1>1, <1>3, <1>11, FailureFits DEF ReadStudent, Starts, FailStudent
<1>12. CASE ReadHomeroom(r) /\ (Answer(r, 401, {}) \/ FailStudent(r))
  BY <1>1, <1>3, <1>12, FailureFits DEF RequestOK, ReadHomeroom, FailStudent
<1>13. CASE ReadHomeroom(r) /\ Reply(r, found[r])
  <2>1. found[r] \in scopes[r]
    BY <1>1, <1>13 DEF RequestOK, ReadHomeroom
  <2> QED BY <1>1, <1>3, <1>13, <2>1, ScopeFits, ReplyFits
<1>14. CASE ReadTeacher(r)
  BY <1>4, <1>5, <1>8, <1>14 DEF ReadTeacher, ReadOn, Goto, Label
<1>15. CASE ReadSubjects(r)
  BY <1>4, <1>5, <1>9, <1>15 DEF ReadSubjects, ReadOn, Goto, Label
<1>16. CASE ReadStudent(r)
  BY <1>4, <1>11, <1>16 DEF ReadStudent, ReadOn, Goto, Label
<1>17. CASE ReadHomeroom(r)
  BY <1>12, <1>13, <1>17 DEF ReadHomeroom
<1> QED BY <1>5, <1>6, <1>7, <1>10, <1>14, <1>15, <1>16, <1>17
        DEF Step, ReadAll, ReadClasses

\* A request is answered by a step of its own goroutine.
LEMMA AnsweredByItself ==
  ASSUME Inv, [Next]_vars, NEW r \in Request, pc[r] # "idle", pc'[r] = "idle"
  PROVE  Step(r)
<1>1. ASSUME NEW s \in Request, Step(s), s # r PROVE FALSE
  BY <1>1 DEF Inv, TypeOK, Step, Deny, ReadAll, ReadTeacher, ReadSubjects, ReadClasses,
              ReadStudent, ReadHomeroom, Reply, Fail, FailStudent, Answer, ReadOn, Goto
<1>2. ASSUME NEW s \in Request, NEW i \in Input, Receive(s, i) PROVE FALSE
  BY <1>2 DEF Inv, TypeOK, Receive, Goto
<1>3. \E s \in Request : Step(s)
  BY <1>2 DEF Next, TurnAway, Change, requests, vars
<1> QED BY <1>1, <1>3

LEMMA NextAnswers ==
  ASSUME Inv, [Next]_vars, NEW r \in Request, pc[r] # "idle", pc'[r] = "idle"
  PROVE  InScope(r) /\ Complete(r)
BY AnsweredByItself, StepAnswers

\* A student whose class was its homeroom all the time: each statement finds it.
LEMMA OwnClassFound ==
  ASSUME ~Failures, Inv, NEW r \in Request, Step(r), pc'[r] = "idle",
         input[r].op = "byid", input[r].role = "STUDENT",
         \A S \in scopes[r] : input[r].path \in S
  PROVE  answer'[r].code # 401
<1> DEFINE path == input[r].path
<1>1. TypeOK /\ KeysOK /\ RequestOK(r)
  BY DEF Inv
<1>2. pc[r] # "idle"
  BY DEF Step, Deny, ReadAll, ReadTeacher, ReadSubjects, ReadClasses, ReadStudent,
         ReadHomeroom, Starts
<1>3. input[r] \in Input /\ path \in Scope(input[r]) /\ path \in ClassID
  BY <1>1, <1>2, ScopeType DEF RequestOK, ScopeOf
<1>4. path = homeroom[input[r].user] /\ path \in classes /\ path # NoClass /\ path # BadID
  BY <1>3, ValueAssumption DEF Scope
<1>5. ~FailStudent(r)
  BY DEF FailStudent
<1>6. CASE Deny(r)
  BY <1>4, <1>6 DEF Deny, Denied
<1>7. CASE ReadStudent(r)
  <2>1. ReadOn(r, "homeroom", {path})
    BY <1>4, <1>5, <1>7 DEF ReadStudent
  <2>2. pc'[r] = "homeroom"
    BY <1>1, <2>1 DEF ReadOn, Goto, TypeOK
  <2> QED BY <2>2
<1>8. CASE ReadHomeroom(r)
  <2>1. found[r] = {path}
    BY <1>1, <1>8 DEF RequestOK, ReadHomeroom
  <2>2. Reply(r, found[r])
    BY <1>4, <1>5, <1>8, <2>1 DEF ReadHomeroom
  <2>3. Answer(r, 200, {path})
    BY <2>1, <2>2 DEF Reply
  <2> QED BY <1>1, <2>3, AnswerValue
<1>9. CASE ReadAll(r) \/ ReadTeacher(r) \/ ReadSubjects(r) \/ ReadClasses(r)
  BY <1>1, <1>9 DEF RequestOK, ReadAll, ReadTeacher, ReadSubjects, ReadClasses, Starts
<1> QED BY <1>6, <1>7, <1>8, <1>9 DEF Step

-----------------------------------------------------------------------------
\* The theorems.

\* The tables and requests keep their types: an id that was read from one
\* table is never taken for the id of another.
THEOREM TypeCorrect == Spec => []TypeOK
<1>1. Inv => TypeOK
  BY DEF Inv
<1> QED BY <1>1, Invariance, PTL

\* However assignments change between the statements of a request, all that it
\* shows was in its scope at one single moment since it arrived.
THEOREM AnswersStayInScope == Spec => OnlyInScope
<1>1. Inv /\ [Next]_vars =>
        [\A r \in Request : pc[r] # "idle" /\ pc'[r] = "idle" =>
           answer'[r].body = {} \/ \E S \in scopes[r] : answer'[r].body \subseteq S]_vars
  BY NextAnswers DEF InScope
<1> QED BY <1>1, Invariance, PTL DEF Spec, OnlyInScope

\* A class that was in scope all the time is never left out of a list, nor
\* denied to a teacher or an administrator.
THEOREM AnswersMissNothing == Spec => NothingMissed
<1>1. Inv /\ [Next]_vars =>
        [\A r \in Request :
           /\ pc[r] # "idle" /\ pc'[r] = "idle"
           /\ IF input[r].op = "list" THEN answer'[r].code = 200
              ELSE answer'[r].code = 401 /\ input[r].role # "STUDENT"
           => \A c \in ClassID \ answer'[r].body :
                (input[r].op = "byid" => c = input[r].path) =>
                  \E S \in scopes[r] : c \notin S]_vars
  BY NextAnswers DEF Complete
<1> QED BY <1>1, Invariance, PTL DEF Spec, NothingMissed

\* GS-002: a student is denied the class it has been in all the time only where
\* a statement failed: GetClassByID then answers 401 instead of 500.  However the
\* operators change the tables between its two statements, nothing else does it.
THEOREM OwnClassDeniedOnlyByFailure ==
  ASSUME ~Failures
  PROVE  Spec => OwnClassNotDenied
<1>1. Inv /\ [Next]_vars =>
        [\A r \in Request :
           /\ pc[r] # "idle" /\ pc'[r] = "idle"
           /\ input[r].op = "byid" /\ input[r].role = "STUDENT"
           /\ \A S \in scopes[r] : input[r].path \in S
           => answer'[r].code # 401]_vars
  BY AnsweredByItself, OwnClassFound
<1> QED BY <1>1, Invariance, PTL DEF Spec, OwnClassNotDenied

-----------------------------------------------------------------------------
\* What stands behind Answered.

\* How many statements a request still makes at most.
Statements ==
  [idle |-> 0, rows |-> 1, homeroom |-> 1, subjects |-> 2, start |-> 3]

\* A request comes closer to its answer with every step of its own, and no
\* other request, operator or table row can send it back: it makes at most three
\* statements, however often what it reads changes under it.
THEOREM RequestsDescend ==
  Spec => [][\A r \in Request : pc[r] # "idle" =>
               /\ Statements[pc'[r]] <= Statements[pc[r]]
               /\ Step(r) => Statements[pc'[r]] < Statements[pc[r]]]_vars
<1> DEFINE Down(r) == Statements[pc'[r]] < Statements[pc[r]]
<1> USE DEF Inv, TypeOK
<1>1. ASSUME Inv, NEW r \in Request, NEW l, Goto(r, l)
      PROVE  pc'[r] = l /\ \A s \in Request : s # r => pc'[s] = pc[s]
  BY <1>1 DEF Goto
<1>2. ASSUME Inv, NEW r \in Request, pc[r] # "idle", Goto(r, "idle") PROVE Down(r)
  BY <1>1, <1>2 DEF Statements
<1>3. ASSUME Inv, NEW r \in Request, NEW ids, Reply(r, ids) PROVE Goto(r, "idle")
  BY <1>3 DEF Reply, Answer
<1>4. ASSUME Inv, NEW r \in Request, Step(r) PROVE Down(r) /\ \E l : Goto(r, l)
  <2>1. CASE Goto(r, "idle")
    BY <1>2, <1>4, <2>1 DEF Step, Deny, ReadAll, ReadTeacher, ReadSubjects, ReadClasses,
                            ReadStudent, ReadHomeroom, Starts
  <2>2. CASE /\ pc[r] = "start"
             /\ Goto(r, "subjects") \/ Goto(r, "homeroom")
    BY <1>1, <1>4, <2>2 DEF Statements
  <2>3. CASE pc[r] = "subjects" /\ Goto(r, "rows")
    BY <1>1, <1>4, <2>3 DEF Statements
  <2> QED BY <1>3, <1>4, <2>1, <2>2, <2>3
          DEF Step, Deny, ReadAll, ReadTeacher, ReadSubjects, ReadClasses, ReadStudent,
              ReadHomeroom, Starts, Answer, Fail, FailStudent, ReadOn
<1>5. ASSUME Inv, Inv', [Next]_vars, NEW r \in Request, pc[r] # "idle"
      PROVE  Statements[pc'[r]] <= Statements[pc[r]] /\ (Step(r) => Down(r))
  <2>1. pc[r] \in Label /\ \A l \in Label : Statements[l] \in Nat
    BY <1>5 DEF Label, Statements
  <2>2. CASE Step(r)
    <3>1. Down(r) /\ pc'[r] \in Label
      BY <1>4, <1>5, <2>2 DEF Label
    <3> QED BY <2>1, <3>1
  <2>3. CASE pc'[r] = pc[r]
    BY <1>4, <1>5, <2>1, <2>3
  <2>4. ASSUME NEW s \in Request, s # r, Step(s) PROVE pc'[r] = pc[r]
    BY <1>1, <1>4, <1>5, <2>4
  <2>5. ASSUME NEW s \in Request, (\E i \in Input : Receive(s, i)) \/ TurnAway(s)
        PROVE  pc'[r] = pc[r]
    BY <1>1, <1>5, <2>5 DEF Receive, TurnAway
  <2>6. CASE Change \/ UNCHANGED vars
    BY <2>3, <2>6 DEF Change, requests, vars
  <2> QED BY <1>5, <2>2, <2>3, <2>4, <2>5, <2>6 DEF Next
<1>6. Inv /\ Inv' /\ [Next]_vars =>
        [\A r \in Request : pc[r] # "idle" =>
           /\ Statements[pc'[r]] <= Statements[pc[r]]
           /\ Step(r) => Down(r)]_vars
  BY <1>5
<1> QED BY <1>6, Invariance, PTL DEF Spec

=============================================================================
