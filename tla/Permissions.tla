----------------------------- MODULE Permissions -----------------------------
(***************************************************************************)
(* The permission map of a role: parsePolicies keeps some lines of the     *)
(* policy file, GetPermissionsForRole selects those of a role, and         *)
(* buildPermissions merges them, first row by row in the order of the file,*)
(* then key by key in the order in which Go ranges over a map, which is    *)
(* any order and another one each time.                                    *)
(***************************************************************************)
EXTENDS Integers, Sequences

CONSTANTS
  Resource,  \* names of resources: "users", "classes", ...
  Role,      \* roles
  Segment,   \* what stands between two slashes: names, ":id", blanks
  Method,    \* HTTP methods as the file spells them
  Get,       \* the spellings of GET
  Files      \* the policy files considered, as sequences of lines

\* A line of the file: "p, role, path, method", or not a policy at all
\* (blank, a comment, too few fields, or another type than p).
Line == [policy : BOOLEAN, role : Role, path : Seq(Segment), method : Method]

ASSUME FilesAssumption == Files \subseteq Seq(Line) /\ Get \subseteq Method

Perm == {"none", "read", "write"}   \* "none": the key is absent

VARIABLES
  file,      \* the lines of the policy file
  pc,        \* "idle", "rows", "tops" or "nests": the loop that is running
  role,      \* the role the map is built for
  row,       \* how many lines the first loop has passed
  topLevel,  \* topLevel[res]
  nested,    \* nested[res][sub]
  left,      \* the keys that the running range loop has not visited
  result     \* result[res]: a permission, or permissions by sub-resource

vars == <<file, pc, role, row, topLevel, nested, left, result>>

NoSubs == [sub \in Resource |-> "none"]
Absent == [top |-> "none", subs |-> NoSubs]

Init ==
  /\ file \in Files
  /\ pc = "idle"
  /\ role \in Role
  /\ row = 0
  /\ topLevel = NoSubs
  /\ nested = [res \in Resource |-> NoSubs]
  /\ left = {}
  /\ result = [res \in Resource |-> Absent]

\* The service keeps nothing but the policies from one call to the next.
Call(r) ==
  /\ pc = "idle"
  /\ pc' = "rows"
  /\ role' = r
  /\ row' = 0
  /\ topLevel' = NoSubs
  /\ nested' = [res \in Resource |-> NoSubs]
  /\ result' = [res \in Resource |-> Absent]
  /\ UNCHANGED <<file, left>>

\* methodToPerm and nonParamSegments.
MethodToPerm_Raw(m) == m
MethodToPerm(m) == IF m \in Get THEN "read" ELSE "write"
IsName(s) == s \in Resource
Segs(l) == SelectSeq(l.path, IsName)

Selected(l, r) == l.policy /\ l.role = r

\* "write" is never overwritten.
Merge_LastWins(old, new) == new
Merge(old, new) == IF old = "write" THEN old ELSE new

\* One row of the first loop.
MergeRow ==
  /\ pc = "rows" /\ row < Len(file)
  /\ row' = row + 1
  /\ LET l == file[row + 1]
         new == MethodToPerm(l.method)
         top == Segs(l)[1]
         sub == Segs(l)[2] IN
     /\ topLevel' = IF Selected(l, role) /\ Len(Segs(l)) = 1
                    THEN [topLevel EXCEPT ![top] = Merge(@, new)] ELSE topLevel
     /\ nested' = IF Selected(l, role) /\ Len(Segs(l)) = 2
                  THEN [nested EXCEPT ![top][sub] = Merge(@, new)]
                  ELSE nested
  /\ UNCHANGED <<file, pc, role, left, result>>

EndRows ==
  /\ pc = "rows" /\ row = Len(file)
  /\ pc' = "tops"
  /\ left' = {res \in Resource : topLevel[res] # "none"}
  /\ UNCHANGED <<file, role, row, topLevel, nested, result>>

\* One key of "for res, perm := range topLevel".
EmitTop(res) ==
  /\ pc = "tops" /\ res \in left
  /\ left' = left \ {res}
  /\ result' = [result EXCEPT ![res] = [top |-> topLevel[res], subs |-> NoSubs]]
  /\ UNCHANGED <<file, pc, role, row, topLevel, nested>>

EndTops ==
  /\ pc = "tops" /\ left = {}
  /\ pc' = "nests"
  /\ left' = {res \in Resource : nested[res] # NoSubs}
  /\ UNCHANGED <<file, role, row, topLevel, nested, result>>

\* One key of "for res, subs := range nested": a key that exists is kept.
EmitNested(res) ==
  /\ pc = "nests" /\ res \in left
  /\ left' = left \ {res}
  /\ result' = [result EXCEPT ![res] =
                  IF @ # Absent THEN @ ELSE [top |-> "none", subs |-> nested[res]]]
  /\ UNCHANGED <<file, pc, role, row, topLevel, nested>>

\* The map is returned.
Return ==
  /\ pc = "nests" /\ left = {}
  /\ pc' = "idle"
  /\ UNCHANGED <<file, role, row, topLevel, nested, left, result>>

Next ==
  \/ \E r \in Role : Call(r)
  \/ MergeRow \/ EndRows \/ EndTops \/ Return
  \/ \E res \in Resource : EmitTop(res) \/ EmitNested(res)

Spec == Init /\ [][Next]_vars

-----------------------------------------------------------------------------
\* What the map should be, whatever the order of rows and keys.
Strongest(lines) ==
  IF \E l \in lines : MethodToPerm(l.method) = "write" THEN "write"
  ELSE IF lines # {} THEN "read" ELSE "none"

\* The rows of role r among the first n lines.
Rows(r, n) == {l \in {file[k] : k \in 1..n} : Selected(l, r)}

TopPerm(rows, res) ==
  Strongest({l \in rows : Len(Segs(l)) = 1 /\ Segs(l)[1] = res})
SubPerm(rows, res, sub) ==
  Strongest({l \in rows : Len(Segs(l)) = 2 /\ Segs(l)[1] = res /\ Segs(l)[2] = sub})

Expected(rows) ==
  [res \in Resource |->
     IF TopPerm(rows, res) # "none" THEN [top |-> TopPerm(rows, res), subs |-> NoSubs]
     ELSE [top |-> "none", subs |-> [sub \in Resource |-> SubPerm(rows, res, sub)]]]

TypeOK ==
  /\ file \in Seq(Line)
  /\ pc \in {"idle", "rows", "tops", "nests"}
  /\ role \in Role
  /\ row \in 0..Len(file)
  /\ topLevel \in [Resource -> Perm]
  /\ nested \in [Resource -> [Resource -> Perm]]
  /\ left \subseteq Resource
  /\ result \in [Resource -> [top : Perm, subs : [Resource -> Perm]]]

\* The map that is returned says "write" of a resource exactly if one of the
\* role's rows allows more than GET on it, "read" if only GET, and goes down to
\* sub-resources only where no row names the resource itself: the order of the
\* rows in the file and the order of the keys make no difference.
MapMatchesPolicy ==
  pc = "idle" /\ row = Len(file) => result = Expected(Rows(role, row))

=============================================================================
