------------------------------ MODULE MCSystem ------------------------------
(***************************************************************************)
(* An instance of System for TLC: accounts of one email, one class.        *)
(***************************************************************************)
EXTENDS System

MCOrder == <<"users", "subjects", "classes">>
MCTrim == [n \in RawName |-> n]
MCCanonID == [p \in PathID |-> p]
MCAccountInput ==
  {[op |-> op, email |-> "e1"] : op \in {"google", "create"}}
  \cup {[op |-> "delete", id |-> "u1"]}
MCClassInput ==
  {i \in Input : i.name = "A" /\ (i.op = "update" => i.path = "c1" /\ i.grade = 1)}

=============================================================================
