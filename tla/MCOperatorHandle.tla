-------------------------- MODULE MCOperatorHandle --------------------------
(***************************************************************************)
(* Instances of OperatorHandle: two acquisitions that compete for the      *)
(* store with its helpers, and one whose processes or host fail twice.     *)
(***************************************************************************)
EXTENDS OperatorHandle

CONSTANTS h1, h2

Sampled == {[handles |-> {h1, h2}, troubles |-> 0], [handles |-> {h1}, troubles |-> 2]}
=============================================================================
