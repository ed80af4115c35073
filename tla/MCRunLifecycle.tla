--------------------------- MODULE MCRunLifecycle ---------------------------
(* Small instances of RunLifecycle for TLC. *)
EXTENDS RunLifecycle

\* Unit 2 consumes unit 1.
Chain == [u \in Units |-> IF u = 2 THEN {1} ELSE {}]

\* Where candidates are kept a completion is answered; a counterfactual run loses that answer.
Failing == [m \in Modes |-> IF m = "normal" THEN {"lease_answer", "close_fails"} ELSE {"completion_answer"}]
=============================================================================
