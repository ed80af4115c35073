------------------------- MODULE MCControlCommands -------------------------
(***************************************************************************)
(* Instances of ControlCommands: which commands callers submit together.   *)
(***************************************************************************)
EXTENDS ControlCommands

\* A command's name says its operation.
Names == [start |-> "start", clone |-> "clone", bogus |-> "cancel", cancel |-> "cancel", resume |-> "resume",
          again |-> "resume", dispose |-> "dispose", discard |-> "dispose", decide |-> "decide",
          approve |-> "approve", veto |-> "approve", reply |-> "reply", answer |-> "reply",
          ack |-> "ack", noted |-> "ack", register |-> "register",
          initial |-> "initial", first |-> "initial", other |-> "initial", promote |-> "promote", copy |-> "promote",
          hotfix |-> "promote", rollback |-> "rollback", undo |-> "rollback"]
Targets == [c \in DOMAIN Names |->
    CASE c \in {"register", "first"} -> "v4"
      [] c \in {"hotfix", "other"} -> "v3"
      [] c \in {"promote", "copy"} -> "v2"
      [] c = "initial" -> "v1"
      [] OTHER -> None]
Bases == [c \in DOMAIN Names |->
    CASE c \in {"promote", "copy", "hotfix"} -> "v1"
      [] c \in {"rollback", "undo"} -> "v2"
      [] OTHER -> None]
Proofs == [c \in DOMAIN Names |->
    CASE c \in {"promote", "copy"} -> <<"eval", "v2">>
      [] c = "hotfix" -> <<"eval", "v3">>
      [] OTHER -> None]

Submittable == DOMAIN Names

Case(cs, state, past, budget) ==
    [commands |-> cs, status |-> state, promotions |-> past, faults |-> budget]
Move(from, to, proof) == [from |-> from, to |-> to, proof |-> proof]
Bootstrapped == <<Move(None, "v1", <<None, "v1">>)>>
Released == Append(Bootstrapped, Move("v1", "v2", <<"eval", "v2">>))

\* Commands that touch the same facts, two at a time.  The run moves on its own only where
\* the commands are about it.
Contending ==
    {Case({"resume", "again"}, "PARKED", <<>>, 1), Case({"dispose", "resume"}, "RUNNING", <<>>, 1),
     Case({"dispose", "discard"}, "RUNNING", <<>>, 1), Case({"start", "cancel"}, "PENDING", <<>>, 1), Case({"clone"}, "PENDING", <<>>, 2),
     Case({"initial", "other"}, "PENDING", <<>>, 2),
     Case({"register", "first"}, "PENDING", <<>>, 1), Case({"rollback", "undo"}, "PENDING", Released, 2)}
    \cup {Case(w, "PENDING", <<>>, 2) :
          w \in {{"approve", "veto"}, {"approve", "ack"}, {"reply", "answer"}, {"ack", "noted"},
                 {"decide", "bogus"}}}
    \cup {Case(w, "PENDING", Bootstrapped, 2) :
          w \in {{"promote", "copy"}, {"promote", "hotfix"}, {"promote", "rollback"}}}
    \cup {Case({"cancel", "resume"}, "PARKED", <<>>, 1)}
============================================================================
