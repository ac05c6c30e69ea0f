------------------------------ MODULE MCSignIn ------------------------------
(***************************************************************************)
(* Instances of SignIn for TLC.                                            *)
(***************************************************************************)
EXTENDS SignIn

\* The owner of e1 has no name at Google.
MCGoogleName == [e \in Email |-> IF e = "e1" THEN Blank ELSE CHOOSE n \in Name : TRUE]

=============================================================================
