---------------------------- MODULE MCClassWrite ----------------------------
(***************************************************************************)
(* Instances of ClassWrite for TLC.  Names: "" (absent), " " (blank), "A", *)
(* "B" and " A", the padded spelling of "A".  Path texts: the ids, "C1" (a *)
(* second spelling of c1, as upper case is of a UUID) and "bad".           *)
(***************************************************************************)
EXTENDS ClassWrite, TLC

MCTrim == [n \in RawName |-> CASE n = " A" -> "A" [] n = " " -> "" [] OTHER -> n]

MCCanonID ==
  [p \in PathID |-> IF p = "C1" THEN "c1" ELSE IF p \in ClassID THEN p ELSE "bad"]

RequestSymmetry == Permutations(Request)

=============================================================================
