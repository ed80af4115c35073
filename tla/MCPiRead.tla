------------------------------ MODULE MCPiRead ------------------------------
(***************************************************************************)
(* Instances of PiRead: a READ task with a client that may say anything,   *)
(* READ tasks with a client that follows the protocol in an invocation     *)
(* that goes wrong, and WRITE workspaces that are reset, edited and        *)
(* captured while they are closed, revoked, interrupted or abandoned.      *)
(***************************************************************************)
EXTENDS PiRead

World(mode, peer, input, ops, own, next, trouble) ==
    [mode |-> mode, peer |-> peer, input |-> input, ops |-> ops, own |-> own, next |-> next, trouble |-> trouble]
Dispositions == {"release", "discard"}

Sampled ==
    {World("pi", "free", 2, <<>>, "release", "discard", "none")}
    \cup {World("pi", "scripted", 2, <<>>, "release", "discard", x) :
            x \in {"none", "crash", "control", "close", "late", "twice", "busy"}}
    \cup {World("pi", "scripted", i, <<>>, "release", "discard", "none") : i \in {0, 1}}
    \cup {World("write", "scripted", 0, ops, own, next, x) :
            ops \in {<<"edit", "capture", "capture">>, <<"reset", "edit", "capture", "reset">>},
            own \in Dispositions, next \in Dispositions,
            x \in {"none", "child", "crash", "control", "close", "late", "busy"}}
=============================================================================
