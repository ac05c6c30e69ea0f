-------------------------- MODULE PermissionsProofs --------------------------
(***************************************************************************)
(* Proofs about Permissions, for files of any length and any number of     *)
(* roles and resources.                                                    *)
(***************************************************************************)
EXTENDS Permissions, TLAPS

\* The loop invariant: the two maps of the first loop are what the rows passed
\* so far call for, and the range loops have emitted the keys they visited.
Merged ==
  /\ topLevel = [res \in Resource |-> TopPerm(Rows(role, row), res)]
  /\ nested = [res \in Resource |->
                 [sub \in Resource |-> SubPerm(Rows(role, row), res, sub)]]

Top(res) == [top |-> topLevel[res], subs |-> NoSubs]
Subs(res) == [top |-> "none", subs |-> nested[res]]

EmittedTops ==
  /\ \A res \in left : topLevel[res] # "none"
  /\ \A res \in Resource :
       result[res] = IF topLevel[res] # "none" /\ res \notin left THEN Top(res) ELSE Absent
EmittedNests ==
  \A res \in Resource :
    result[res] = IF topLevel[res] # "none" THEN Top(res)
                  ELSE IF res \notin left THEN Subs(res) ELSE Absent

Inv ==
  /\ TypeOK
  /\ Merged
  /\ pc = "rows" => result = [res \in Resource |-> Absent]
  /\ pc \in {"tops", "nests"} => row = Len(file)
  /\ pc = "tops" => EmittedTops
  /\ pc = "nests" => EmittedNests
  /\ MapMatchesPolicy

-----------------------------------------------------------------------------
\* The order of the rows.

\* One more line: Merge computes the strongest permission.
LEMMA StrongestMerge ==
  ASSUME NEW lines, NEW l
  PROVE  Strongest(lines \cup {l}) = Merge(Strongest(lines), MethodToPerm(l.method))
BY DEF Strongest, Merge, MethodToPerm

LEMMA StrongestType == \A lines : Strongest(lines) \in Perm
BY DEF Strongest, Perm

LEMMA RowsNext ==
  ASSUME NEW r, NEW n \in Nat
  PROVE  Rows(r, n + 1) = IF Selected(file[n + 1], r) THEN Rows(r, n) \cup {file[n + 1]}
                          ELSE Rows(r, n)
<1>1. 1..(n + 1) = 1..n \cup {n + 1}
  OBVIOUS
<1> QED BY <1>1 DEF Rows

LEMMA TopPermNext ==
  ASSUME NEW rows, NEW l, NEW res
  PROVE  TopPerm(rows \cup {l}, res) =
           IF Len(Segs(l)) = 1 /\ Segs(l)[1] = res
           THEN Merge(TopPerm(rows, res), MethodToPerm(l.method)) ELSE TopPerm(rows, res)
<1> DEFINE Names(k) == Len(Segs(k)) = 1 /\ Segs(k)[1] = res
           old == {k \in rows : Names(k)}
<1>1. {k \in rows \cup {l} : Names(k)} = IF Names(l) THEN old \cup {l} ELSE old
  OBVIOUS
<1> HIDE DEF Names
<1>2. Strongest({k \in rows \cup {l} : Names(k)}) =
        IF Names(l) THEN Merge(Strongest(old), MethodToPerm(l.method)) ELSE Strongest(old)
  BY <1>1, StrongestMerge
<1> QED BY <1>2 DEF TopPerm, Names

LEMMA SubPermNext ==
  ASSUME NEW rows, NEW l, NEW res, NEW sub
  PROVE  SubPerm(rows \cup {l}, res, sub) =
           IF Len(Segs(l)) = 2 /\ Segs(l)[1] = res /\ Segs(l)[2] = sub
           THEN Merge(SubPerm(rows, res, sub), MethodToPerm(l.method))
           ELSE SubPerm(rows, res, sub)
<1> DEFINE Names(k) == Len(Segs(k)) = 2 /\ Segs(k)[1] = res /\ Segs(k)[2] = sub
           old == {k \in rows : Names(k)}
<1>1. {k \in rows \cup {l} : Names(k)} = IF Names(l) THEN old \cup {l} ELSE old
  OBVIOUS
<1> HIDE DEF Names
<1>2. Strongest({k \in rows \cup {l} : Names(k)}) =
        IF Names(l) THEN Merge(Strongest(old), MethodToPerm(l.method)) ELSE Strongest(old)
  BY <1>1, StrongestMerge
<1> QED BY <1>2 DEF SubPerm, Names

\* Without rows there is no permission.
LEMMA NoRows ==
  /\ \A r : Rows(r, 0) = {}
  /\ \A res : TopPerm({}, res) = "none"
  /\ \A res, sub : SubPerm({}, res, sub) = "none"
<1>1. \A r : Rows(r, 0) = {}
  <2>1. 1..0 = {}
    OBVIOUS
  <2> QED BY <2>1 DEF Rows
<1>2. Strongest({}) = "none"
  BY DEF Strongest
<1>3. \A res : TopPerm({}, res) = "none"
  BY <1>2 DEF TopPerm
<1>4. \A res, sub : SubPerm({}, res, sub) = "none"
  BY <1>2 DEF SubPerm
<1> QED BY <1>1, <1>3, <1>4

-----------------------------------------------------------------------------
\* The invariant is inductive.

LEMMA EmptyMaps ==
  /\ NoSubs \in [Resource -> Perm]
  /\ [res \in Resource |-> NoSubs] \in [Resource -> [Resource -> Perm]]
  /\ Absent \in [top : Perm, subs : [Resource -> Perm]]
  /\ \A r : /\ NoSubs = [res \in Resource |-> TopPerm(Rows(r, 0), res)]
            /\ [res \in Resource |-> NoSubs] =
                 [res \in Resource |->
                    [sub \in Resource |-> SubPerm(Rows(r, 0), res, sub)]]
            /\ Expected(Rows(r, 0)) = [res \in Resource |-> Absent]
BY NoRows DEF NoSubs, Absent, Perm, Expected

LEMMA InitInv == Init => Inv
<1> SUFFICES ASSUME Init PROVE Inv
  OBVIOUS
<1>1. TypeOK
  <2>1. file \in Seq(Line)
    BY FilesAssumption DEF Init
  <2>2. row \in 0..Len(file)
    BY <2>1 DEF Init
  <2> QED BY <2>1, <2>2, EmptyMaps DEF Init, TypeOK
<1>2. Merged
  BY EmptyMaps DEF Init, Merged
<1>3. MapMatchesPolicy
  BY EmptyMaps DEF Init, MapMatchesPolicy
<1> QED BY <1>1, <1>2, <1>3 DEF Init, Inv

LEMMA CallInv ==
  ASSUME Inv, NEW r \in Role, Call(r)
  PROVE  Inv'
<1>1. TypeOK'
  <2>1. row' \in 0..Len(file)
    BY DEF Inv, TypeOK, Call
  <2> QED BY <2>1, EmptyMaps DEF Inv, TypeOK, Call
<1>2. Merged'
  <2>1. /\ topLevel' = [res \in Resource |-> TopPerm(Rows(r, 0), res)]
        /\ nested' = [res \in Resource |->
                        [sub \in Resource |-> SubPerm(Rows(r, 0), res, sub)]]
    BY EmptyMaps DEF Call
  <2>2. Rows(role, row)' = Rows(r, 0)
    BY DEF Call, Rows, Selected
  <2> QED BY <2>1, <2>2 DEF Merged, TopPerm, SubPerm
<1> QED BY <1>1, <1>2 DEF Inv, Call, MapMatchesPolicy

LEMMA MergeRowInv ==
  ASSUME Inv, MergeRow
  PROVE  Inv'
<1> DEFINE l == file[row + 1]
           new == MethodToPerm(l.method)
           rows == Rows(role, row)
           after == Rows(role, row + 1)
<1>1. /\ pc = "rows" /\ row < Len(file) /\ row \in Nat /\ row' = row + 1
      /\ row' \in 0..Len(file) /\ UNCHANGED <<file, pc, role, left, result>>
  BY DEF Inv, TypeOK, MergeRow
<1>2. after = IF Selected(l, role) THEN rows \cup {l} ELSE rows
  BY <1>1, RowsNext
<1>3. Rows(role, row)' = after
  BY <1>1 DEF Rows, Selected
<1>4. /\ topLevel \in [Resource -> Perm] /\ nested \in [Resource -> [Resource -> Perm]]
      /\ \A res \in Resource : topLevel[res] = TopPerm(rows, res)
      /\ \A res, sub \in Resource : nested[res][sub] = SubPerm(rows, res, sub)
  BY DEF Inv, TypeOK, Merged
<1>5. topLevel' = [res \in Resource |-> TopPerm(after, res)]
  <2>1. topLevel' = [res \in Resource |->
                       IF Selected(l, role) /\ Len(Segs(l)) = 1 /\ Segs(l)[1] = res
                       THEN Merge(topLevel[res], new) ELSE topLevel[res]]
    BY <1>4 DEF MergeRow
  <2>2. \A res \in Resource : TopPerm(after, res) =
          IF Selected(l, role) /\ Len(Segs(l)) = 1 /\ Segs(l)[1] = res
          THEN Merge(TopPerm(rows, res), new) ELSE TopPerm(rows, res)
    <3> HIDE DEF l, rows, after
    <3> QED BY <1>2, TopPermNext
  <2> HIDE DEF l, new, rows, after
  <2> QED BY <1>4, <2>1, <2>2
<1>6. nested' = [res \in Resource |-> [sub \in Resource |-> SubPerm(after, res, sub)]]
  <2>1. nested' = [res \in Resource |-> [sub \in Resource |->
                     IF /\ Selected(l, role) /\ Len(Segs(l)) = 2
                        /\ Segs(l)[1] = res /\ Segs(l)[2] = sub
                     THEN Merge(nested[res][sub], new) ELSE nested[res][sub]]]
    <3>1. CASE Selected(l, role) /\ Len(Segs(l)) = 2
      <4> DEFINE top == Segs(l)[1]
                 sub == Segs(l)[2]
      <4> DEFINE inner == [nested[top] EXCEPT ![sub] = Merge(nested[top][sub], new)]
      <4>1. nested' = [nested EXCEPT ![top] = inner]
        BY <3>1 DEF MergeRow
      <4>2. nested' = [res \in Resource |-> IF res = top THEN inner ELSE nested[res]]
        <5> HIDE DEF inner, top
        <5> QED BY <4>1, <1>4
      <4> HIDE DEF l, new, top, sub
      <4>3. \A res \in Resource : nested[res] = [x \in Resource |-> nested[res][x]]
        BY <1>4
      <4>4. \A res \in Resource :
              [nested[res] EXCEPT ![sub] = Merge(nested[res][sub], new)] =
                [x \in Resource |->
                   IF x = sub THEN Merge(nested[res][x], new) ELSE nested[res][x]]
        BY <1>4
      <4>5. nested' = [res \in Resource |-> [x \in Resource |->
                         IF res = top /\ x = sub
                         THEN Merge(nested[res][x], new) ELSE nested[res][x]]]
        BY <4>2, <4>3, <4>4
      <4> QED BY <3>1, <4>5 DEF top, sub
    <3>2. CASE ~(Selected(l, role) /\ Len(Segs(l)) = 2)
      <4>1. nested' = nested
        BY <3>2 DEF MergeRow
      <4> HIDE DEF l, new
      <4>2. \A res \in Resource : nested[res] = [x \in Resource |-> nested[res][x]]
        BY <1>4
      <4>3. nested = [res \in Resource |-> [x \in Resource |-> nested[res][x]]]
        BY <4>2, <1>4
      <4> QED BY <3>2, <4>1, <4>3
    <3> QED BY <3>1, <3>2
  <2>2. \A res, sub \in Resource : SubPerm(after, res, sub) =
          IF /\ Selected(l, role) /\ Len(Segs(l)) = 2
             /\ Segs(l)[1] = res /\ Segs(l)[2] = sub
          THEN Merge(SubPerm(rows, res, sub), new) ELSE SubPerm(rows, res, sub)
    <3> HIDE DEF l, rows, after
    <3> QED BY <1>2, SubPermNext
  <2> HIDE DEF l, new, rows, after
  <2> QED BY <1>4, <2>1, <2>2
<1>7. Merged'
  BY <1>3, <1>5, <1>6 DEF Merged, TopPerm, SubPerm
<1>8. TypeOK'
  <2>1. topLevel' \in [Resource -> Perm] /\ nested' \in [Resource -> [Resource -> Perm]]
    BY <1>5, <1>6, StrongestType DEF TopPerm, SubPerm
  <2> QED BY <1>1, <2>1 DEF Inv, TypeOK
<1> QED BY <1>1, <1>7, <1>8 DEF Inv, MapMatchesPolicy

\* A step that leaves the rows passed and their two maps alone.
LEMMA MergedStays ==
  ASSUME Merged, UNCHANGED <<file, role, row, topLevel, nested>>
  PROVE  Merged'
BY DEF Merged, Rows, Selected, TopPerm, SubPerm

LEMMA RangeInv ==
  ASSUME Inv, \/ EndRows \/ EndTops
              \/ \E res \in Resource : EmitTop(res) \/ EmitNested(res)
  PROVE  Inv'
<1>1. UNCHANGED <<file, role, row, topLevel, nested>> /\ pc' \in {"tops", "nests"}
  BY DEF EndRows, EndTops, EmitTop, EmitNested
<1>2. Merged' /\ row' = Len(file')
  BY <1>1, MergedStays DEF Inv, EndRows, EndTops, EmitTop, EmitNested
<1>3. CASE EndRows
  BY <1>1, <1>2, <1>3 DEF Inv, TypeOK, EndRows, MapMatchesPolicy, EmittedTops
<1>4. CASE EndTops
  BY <1>1, <1>2, <1>4
     DEF Inv, TypeOK, EndTops, MapMatchesPolicy, EmittedTops, EmittedNests, Top, Subs,
         Absent
<1>5. ASSUME NEW res \in Resource, EmitTop(res) PROVE Inv'
  <2>1. \A x \in Resource : result'[x] = IF x = res THEN Top(res) ELSE result[x]
    BY <1>5 DEF Inv, TypeOK, EmitTop, Top
  <2>2. TypeOK'
    BY <1>5, EmptyMaps DEF Inv, TypeOK, EmitTop
  <2>3. topLevel[res] # "none"
    BY <1>5 DEF Inv, EmitTop, EmittedTops
  <2>4. EmittedTops /\ pc = "tops" /\ pc' = "tops" /\ left' = left \ {res}
    BY <1>5 DEF Inv, EmitTop
  <2>5. EmittedTops'
    <3>1. \A x \in Resource :
            result'[x] = IF topLevel[x] # "none" /\ x \notin left' THEN Top(x) ELSE Absent
      <4> HIDE DEF Top
      <4> QED BY <2>1, <2>3, <2>4 DEF EmittedTops
    <3> QED BY <1>1, <2>4, <3>1 DEF EmittedTops, Top
  <2> QED BY <1>1, <1>2, <2>2, <2>4, <2>5 DEF Inv, MapMatchesPolicy
<1>6. ASSUME NEW res \in Resource, EmitNested(res) PROVE Inv'
  <2>1. \A x \in Resource :
          result'[x] = IF x = res /\ result[x] = Absent THEN Subs(res) ELSE result[x]
    BY <1>6 DEF Inv, TypeOK, EmitNested, Subs
  <2>2. TypeOK'
    <3>1. Subs(res) \in [top : Perm, subs : [Resource -> Perm]]
      <4>1. nested[res] \in [Resource -> Perm]
        BY DEF Inv, TypeOK
      <4>2. "none" \in Perm
        BY DEF Perm
      <4> QED BY <4>1, <4>2 DEF Subs
    <3>2. result' \in [Resource -> [top : Perm, subs : [Resource -> Perm]]]
      <4>1. result' = [result EXCEPT ![res] = IF @ # Absent THEN @ ELSE Subs(res)]
        BY <1>6 DEF EmitNested, Subs
      <4> HIDE DEF Subs
      <4> QED BY <3>1, <4>1 DEF Inv, TypeOK
    <3> QED BY <1>1, <1>6, <3>2 DEF Inv, TypeOK, EmitNested
  <2>3. EmittedNests /\ pc = "nests" /\ pc' = "nests" /\ left' = left \ {res} /\ res \in left
    BY <1>6 DEF Inv, EmitNested
  <2>4. \A x \in Resource : topLevel[x] # "none" => Top(x) # Absent
    BY DEF Top, Absent
  <2>5. EmittedNests'
    <3>1. \A x \in Resource :
            result'[x] = IF topLevel[x] # "none" THEN Top(x)
                         ELSE IF x \notin left' THEN Subs(x) ELSE Absent
      <4> HIDE DEF Top, Subs
      <4> QED BY <2>1, <2>3, <2>4 DEF EmittedNests
    <3> QED BY <1>1, <3>1 DEF EmittedNests, Top, Subs
  <2> QED BY <1>1, <1>2, <2>2, <2>3, <2>5 DEF Inv, MapMatchesPolicy
<1> QED BY <1>3, <1>4, <1>5, <1>6

LEMMA ReturnInv ==
  ASSUME Inv, Return
  PROVE  Inv'
<1>1. /\ pc = "nests" /\ left = {} /\ row = Len(file) /\ pc' = "idle"
      /\ UNCHANGED <<file, role, row, topLevel, nested, left, result>>
  BY DEF Inv, Return
<1>2. TypeOK' /\ Merged'
  BY <1>1, MergedStays DEF Inv, TypeOK
<1>3. result = Expected(Rows(role, row))
  <2> DEFINE rows == Rows(role, row)
  <2>1. \A res \in Resource : /\ topLevel[res] = TopPerm(rows, res)
                              /\ nested[res] = [sub \in Resource |-> SubPerm(rows, res, sub)]
    BY DEF Inv, Merged
  <2>2. \A res \in Resource :
          result[res] = IF topLevel[res] # "none" THEN Top(res) ELSE Subs(res)
    BY <1>1 DEF Inv, EmittedNests
  <2>3. result = [res \in Resource |-> result[res]]
    BY DEF Inv, TypeOK
  <2> HIDE DEF rows
  <2>4. result = Expected(rows)
    BY <2>1, <2>2, <2>3 DEF Expected, Top, Subs
  <2> QED BY <2>4 DEF rows
<1>4. MapMatchesPolicy'
  <2>1. Expected(Rows(role, row))' = Expected(Rows(role, row))
    BY <1>1 DEF Expected, Rows, Selected, TopPerm, SubPerm
  <2> QED BY <1>1, <1>3, <2>1 DEF MapMatchesPolicy
<1> QED BY <1>1, <1>2, <1>4 DEF Inv

LEMMA NextInv == Inv /\ [Next]_vars => Inv'
<1> SUFFICES ASSUME Inv, [Next]_vars PROVE Inv'
  OBVIOUS
<1>1. CASE \E r \in Role : Call(r)
  BY <1>1, CallInv
<1>2. CASE MergeRow
  BY <1>2, MergeRowInv
<1>3. CASE EndRows \/ EndTops \/ \E res \in Resource : EmitTop(res) \/ EmitNested(res)
  BY <1>3, RangeInv
<1>4. CASE Return
  BY <1>4, ReturnInv
<1>5. CASE UNCHANGED vars
  <2>1. UNCHANGED <<file, pc, role, row, topLevel, nested, left, result>>
    BY <1>5 DEF vars
  <2>2. TypeOK' /\ Merged'
    BY <2>1, MergedStays DEF Inv, TypeOK
  <2>3. MapMatchesPolicy'
    BY <2>1 DEF Inv, MapMatchesPolicy, Expected, Rows, Selected, TopPerm, SubPerm
  <2> QED BY <2>1, <2>2, <2>3 DEF Inv, EmittedTops, EmittedNests, Top, Subs
<1> QED BY <1>1, <1>2, <1>3, <1>4, <1>5 DEF Next

LEMMA Invariance == Spec => []Inv
BY InitInv, NextInv, PTL DEF Spec

-----------------------------------------------------------------------------
\* The two maps, the key sets and the map built stay of their types: a permission
\* is only ever absent, "read" or "write" (methodToPerm, buildPermissions).
THEOREM TypeCorrect == Spec => []TypeOK
<1>1. Inv => TypeOK
  BY DEF Inv
<1> QED BY <1>1, Invariance, PTL

\* For every policy file and role, and whatever the order in which Go ranges over
\* the maps, GetPermissionsForRole returns the map the rows of the role call for.
THEOREM MapFollowsPolicy == Spec => []MapMatchesPolicy
<1>1. Inv => MapMatchesPolicy
  BY DEF Inv
<1> QED BY <1>1, Invariance, PTL

=============================================================================
