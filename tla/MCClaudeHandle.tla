--------------------------- MODULE MCClaudeHandle ---------------------------
(***************************************************************************)
(* Instances of ClaudeHandle: tasks and maintenance sessions whose client  *)
(* adds one or two records of its own, tasks short of input or room, and   *)
(* tasks and sessions that lose something on the way.                      *)
(***************************************************************************)
EXTENDS ClaudeHandle

Match == [i \in 1 .. 7 |-> "match"]
Bad(n) == [Match EXCEPT ![n] = "mismatch"]
World(mode, adds, replies, calls, input, room, trouble) ==
    [mode |-> mode, adds |-> adds, replies |-> replies, calls |-> calls, input |-> input,
     room |-> room, trouble |-> trouble]
Enough(mode) == StartupInput + PostInput + MaxReply * (IF mode = "write" THEN WriteCalls ELSE 1)
Honest(mode, trouble) == World(mode, <<>>, Match, 1, Enough(mode), TRUE, trouble)
Adds(mode, adds) == World(mode, adds, Match, 1, Enough(mode), TRUE, "none")

Sidebands == {Rec("ui", 0, ""), Rec("ui", 0, "foreign"), Rec("side", 0, "foreign"), Rec("lifecycle", 0, "completed"),
              Rec("lifecycle", 0, "cancelled"), Rec("lifecycle", 0, "queued"), Rec("thinking", 0, ""),
              Rec("retry", 0, ""), Rec("heartbeat", 0, ""), Rec("rate", 0, ""), Rec("rate", 0, "rejected"),
              Rec("assistant", 0, ""), Rec("background", 0, ""), Rec("background", 0, "foreign")}
Intrusions == {Rec("user", 0, ""), Rec("init", 0, ""), Rec("result", 0, "success"), Rec("result", 0, "error"),
               Rec("reply", 2, "match"), Rec("mcp", 12, "initialized"), Rec("mcp", 21, "call"), Rec("mcp", 30, "call"),
               Rec("damaged", 0, ""), Rec("cut", 0, ""), Rec("gone", 0, "")}
Turns == {Rec("lifecycle", 0, "completed"), Rec("mcp", 30, "call"), Rec("result", 0, "success"), Rec("assistant", 0, ""),
          Rec("reply", 5, "match")}
Shown == Rec("ui", 0, "")

Sampled ==
    {Adds("read", <<r>>) : r \in Sidebands \cup Intrusions} \cup {Adds("read", <<Shown, Shown>>)}
    \cup {Adds("read", <<x, y>>) : x \in Turns, y \in Turns}
    \cup {World("read", <<>>, [Match EXCEPT ![n] = "silent"], 1, Enough("read"), TRUE, x) : n \in {2, 6}, x \in {"late", "close"}}
    \cup {Adds("write", <<r>>) : r \in {Rec("mcp", 30, "call"), Rec("lifecycle", 0, "completed"), Rec("cut", 0, "")}}
    \cup {World("write", <<>>, Match, k, Enough("write"), TRUE, "none") : k \in {0, 2, 3}}
    \cup {World("read", <<>>, Match, 1, Enough("read") - i, TRUE, "none") : i \in 1 .. 4}
    \cup {World("read", <<>>, Match, 1, Enough("read"), FALSE, "none"), World("read", <<>>, Bad(3), 1, Enough("read"), TRUE, "none"),
          World("read", <<>>, Bad(6), 1, Enough("read"), TRUE, "none")}
    \cup {Honest("read", x) : x \in {"control", "late", "binding", "close", "crash", "worker", "disk"}}
    \cup {Honest("write", x) : x \in {"crash", "disk"}}
    \cup {World(mode, adds, replies, 0, 0, TRUE, x) :
            mode \in {"observe", "reload", "qualify", "login"},
            adds \in {<<>>, <<Shown>>, <<Rec("reply", 1, "match")>>, <<Rec("cut", 0, "")>>},
            replies \in {Match, [Match EXCEPT ![1] = "ambiguous"], Bad(2)}, x \in {"none", "binding", "late"}}
=============================================================================
