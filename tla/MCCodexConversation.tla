------------------------ MODULE MCCodexConversation -------------------------
(***************************************************************************)
(* Instances of CodexConversation: a reading turn, a turn with callbacks   *)
(* and a startup, each with a client that adds records of its own, and a   *)
(* well-behaved turn whose client opens connections.                       *)
(***************************************************************************)
EXTENDS CodexConversation

Says(kind, id, body, call) == [kind |-> kind, id |-> id, body |-> body, call |-> call, genuine |-> FALSE]
Forged(id) == Says("reply", id, "pro", "")
Notice(body) == Says("notice", 0, body, "")
Call(id, turn, call) == Says("request", id, turn, call)
Completed(turn) == Says("completed", 0, turn, "")
Evidence == Says("evidence", 0, "foreign", "")
Damage == Says("damaged", 0, "", "")

Alone == {<<r>> : r \in {Forged(2), Forged(7), Forged(9), Notice("account"), Notice("reached"), Notice("prolite"),
                         Completed("ours"), Completed("foreign"), Evidence, Damage, Call(100, "ours", "a")}}
Forgeries == {<<Forged(6), Damage>>, <<Forged(2), Notice("pro")>>, <<Completed("ours"), Forged(6)>>}
Calls == {<<Call(100, "ours", "a"), Call(101, "ours", "b")>>, <<Call(100, "ours", "a"), Call(100, "ours", "b")>>,
          <<Call(100, "ours", "a"), Call(101, "ours", "a")>>, <<Call(100, "foreign", "a")>>,
          <<Call(100, "ours", "a"), Completed("ours")>>, <<Call(100, "ours", "a"), Notice("account")>>,
          <<Call(100, "ours", "a"), Call(101, "ours", "b"), Call(102, "ours", "d")>>}
Notices == {<<Notice("pro"), Notice("prolite")>>, <<Notice("reached")>>, <<Notice("prolite")>>, <<Call(100, "account", "")>>}

World(mode, plans, adds, conns) == [mode |-> mode, plans |-> plans, adds |-> adds, conns |-> conns]
Sampled ==
    {World("read", {"pro"}, a, {}) : a \in Alone \cup Forgeries} \cup {World("write", {"pro"}, a, {}) : a \in Calls}
    \cup {World("startup", Plans, a, {}) : a \in Notices} \cup {World("read", {"pro"}, <<>>, {"k1", "k2"})}
=============================================================================
