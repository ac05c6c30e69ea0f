---------------------------- MODULE MCPermissions ----------------------------
(***************************************************************************)
(* Instances of Permissions for TLC: all files of up to MaxLines lines out *)
(* of a set of lines that differ in what matters.                          *)
(***************************************************************************)
EXTENDS Permissions, SequencesExt

CONSTANT MaxLines   \* bound on the length of the files

Paths ==
  {<<"a">>, <<"a", ":id">>, <<"a", "b">>, <<"a", ":id", "b">>, <<"a", "a">>,
   <<"b", "">>, <<"b", ":id", "a">>, <<":id">>, <<"a", "b", "a">>}

MCLines ==
  [policy : {TRUE}, role : {"R"}, path : Paths, method : Method] \cup
  {[policy |-> TRUE, role |-> "S", path |-> <<"a">>, method |-> "PUT"],
   [policy |-> FALSE, role |-> "R", path |-> <<"a">>, method |-> "PUT"]}

MCFiles == UNION {[1..n -> MCLines] : n \in 0..MaxLines}

=============================================================================
