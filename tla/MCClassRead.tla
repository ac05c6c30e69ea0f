----------------------------- MODULE MCClassRead -----------------------------
(***************************************************************************)
(* Instances of ClassRead for TLC.                                         *)
(***************************************************************************)
EXTENDS ClassRead, TLC

Symmetry == Permutations(ClassID) \cup Permutations(TeacherID)

=============================================================================
