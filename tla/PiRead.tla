------------------------------- MODULE PiRead -------------------------------
(***************************************************************************)
(* One invocation on contained acquisitions: a scripted READ task in its   *)
(* conversation (executors/pi_read.py), its handle and its provider        *)
(* (executors/pi_provider.py), or the resets and captures of a WRITE       *)
(* workspace, with the disposal of what it acquired and the recovery of    *)
(* what it left (ContainedWorkspace).                                      *)
(***************************************************************************)
EXTENDS ContainedWorkspace, PiDecoder

CONSTANTS
    MaxExtras           \* the updates a client may report, a bound of the model

VARIABLES
    prov,               \* the provider: qualification and its one acquisition
    conv,               \* PiReadConversation
    d,                  \* its decoder
    said,               \* history: the records an undamaged decoder observed
    outcome

piVars == <<prov, conv, d, said, outcome>>
vars == <<world, h, mine, workVars, piVars>>

NewConversation == [at |-> "none", spent |-> 0, stdin |-> TRUE, late |-> FALSE, clean |-> FALSE]

Init ==
    /\ world \in Worlds
    /\ h = NewHost /\ mine = TRUE /\ WorkInit
    /\ prov = [entered |-> FALSE, qualified |-> FALSE, poisoned |-> FALSE, acquired |-> FALSE]
    /\ conv = NewConversation /\ d = NewDecoder /\ said = <<>> /\ outcome = "none"

(***************************************************************************)
(* The provider.                                                           *)
(***************************************************************************)
\* qualify: single use, and poisoned by a second call while the probe runs.
Qualify ==
    /\ Pi /\ At("new") /\ Goes("probing") /\ prov' = [prov EXCEPT !.entered = TRUE]
    /\ UNCHANGED <<mine, workVars, conv, d, said, outcome>>
QualifyAgain ==
    /\ world.trouble = "twice" /\ prov.entered /\ Alive /\ ~ prov.poisoned
    /\ prov' = [prov EXCEPT !.poisoned = TRUE, !.qualified = FALSE]
    /\ UNCHANGED <<h, mine, workVars, conv, d, said, outcome>>
Qualified ==
    /\ At("probing")
    /\ IF prov.poisoned \/ ~ mine THEN Goes("over") /\ UNCHANGED prov
       ELSE Goes("qualified") /\ prov' = [prov EXCEPT !.qualified = TRUE]
    /\ UNCHANGED <<mine, workVars, conv, d, said, outcome>>

\* _check_binding, _check_context
Bound == prov.qualified /\ mine

\* acquire: the provider's one acquisition is spent.  A workspace alone needs no such provider.
Acquire ==
    /\ At(IF Pi THEN "qualified" ELSE "new")
    /\ IF Pi => Bound THEN Goes("acquired") /\ prov' = [prov EXCEPT !.acquired = Pi] ELSE Goes("over") /\ UNCHANGED prov
    /\ UNCHANGED <<mine, workVars, conv, d, said, outcome>>

(***************************************************************************)
(* The handle.                                                             *)
(***************************************************************************)
\* _check
Held == ~ h.shut /\ ~ h.poisoned /\ Bound

\* materialize: the guard of the executor's own acquisition, and its closure under it.
Materialize ==
    /\ Pi /\ At("ready") /\ ~ h.open
    /\ h' = [h EXCEPT !.open = ~ h.shut, !.at = IF Held THEN "guarding" ELSE "failing"]
    /\ UNCHANGED <<mine, workVars, piVars>>
TakeHandle ==
    /\ At("guarding") /\ Lock("p", "task") /\ Goes("guarded")
    /\ UNCHANGED <<mine, view, stage, child, payload, closed, candidate, objects, pub, c, piVars>>
Materialized ==
    /\ At("guarded")
    /\ IF Held /\ ~ closed["p"] THEN h' = [h EXCEPT !.at = "ready", !.ready = TRUE] /\ UNCHANGED guard
                                ELSE Goes("failing") /\ guard' = Unlocked("p", "task")
    /\ UNCHANGED <<mine, view, stage, child, payload, closed, candidate, objects, pub, c, piVars>>

\* execute, and a second call of it, which poisons the acquisition.
Execute ==
    /\ Pi /\ At("ready") /\ h.ready /\ ~ h.executed
    /\ h' = [h EXCEPT !.executed = TRUE, !.at = IF Held /\ Owned THEN "using" ELSE "failing"]
    /\ UNCHANGED <<mine, workVars, piVars>>
ExecuteAgain ==
    /\ world.trouble = "twice" /\ h.executed /\ Alive /\ ~ h.poisoned
    /\ h' = [h EXCEPT !.poisoned = TRUE]
    /\ UNCHANGED <<mine, workVars, piVars>>

\* _execute_owned: both acquisitions are open under both guards, and the client starts with them.
Launch ==
    /\ Pi /\ At("used")
    /\ IF Usable /\ Held /\ ~ closed["p"]
       THEN Spawned("peer") /\ Goes("talking") /\ conv' = [conv EXCEPT !.at = "get_state"]
       ELSE Goes("failing") /\ UNCHANGED <<child, guard, conv>>
    /\ UNCHANGED <<mine, view, stage, payload, closed, candidate, objects, pub, c, prov, d, said, outcome>>

(***************************************************************************)
(* The conversation, and its client.                                       *)
(***************************************************************************)
Talking == At("talking") /\ child = "peer"

\* send: the bytes are spent first, and a request that crosses buffered input is damage.
Sent(command, next) ==
    LET spent == conv.spent + 1 IN
    /\ conv' = [conv EXCEPT !.spent = spent, !.at = next]
    /\ d' = IF spent > world.input THEN Decline(d) ELSE Requested(d, command)
SendState ==
    /\ Talking /\ conv.at = "get_state" /\ Sent("get_state", "state")
    /\ UNCHANGED <<h, mine, workVars, prov, said, outcome>>
SendPrompt ==
    /\ Talking /\ conv.at = "state" /\ d.state /\ ~ Stopped(d) /\ Sent("prompt", "prompted")
    /\ UNCHANGED <<h, mine, workVars, prov, said, outcome>>

\* wait_for, and the half-close that follows it.
CloseStdin ==
    /\ Talking /\ conv.stdin /\ conv.at \in {"state", "prompted"}
    /\ Stopped(d) \/ (conv.at = "prompted" /\ d.accepted /\ d.settled)
    /\ conv' = [conv EXCEPT !.at = "draining", !.stdin = FALSE]
    /\ UNCHANGED <<h, mine, workVars, prov, d, said, outcome>>

\* The client (external) may answer a request it received, and report any event at any time.
Requests == {x \in {"get_state", "prompt"} : IF x = "prompt" THEN d.gen = 2 ELSE d.gen > 0}
Reads == {{k} : k \in Calls}
Replies == {Ev("response", x, {}, b, <<>>) : x \in Requests, b \in {"ok", "failed", "shapeless"}}
Messages ==
    {Ev("message_start", x, {}, "ok", <<>>) : x \in Roles}
    \cup {Ev("message_end", x, {}, b, <<>>) : x \in {"system", "user"}, b \in {"ok", "foreign"}}
    \cup {Ev("message_end", "assistant", k, b, <<>>) : k \in SUBSET Calls, b \in {"stop", "toolUse"}}
    \cup {Ev("message_end", "assistant", {}, b, <<>>) : b \in {"blank", "length"}}
    \cup {Ev("message_end", "toolResult", k, b, <<>>) : k \in Reads, b \in {"x", "y"}}
Updates ==
    {Ev("message_update", x, {}, "ok", <<>>) : x \in {"delta", "error"}}
    \cup {Ev("message_update", "done", k, b, <<>>) : k \in Reads \cup {{}}, b \in {"stop", "toolUse"}}
Executions ==
    {Ev("execution", x, k, b, <<>>) : x \in {"start", "update"}, k \in Reads, b \in {"same", "changed"}}
    \cup {Ev("execution", "end", k, b, <<>>) : k \in Reads, b \in {"x", "error"}}
Bounds ==
    {Ev(x, "", {}, "ok", <<>>) : x \in {"agent_start", "turn_start", "settled", "unknown"}}
    \cup {Ev("turn_end", "", {}, "ok", b) : b \in {TurnCopy(said), <<>>}}
    \cup {Ev("agent_end", "", {}, "ok", b) : b \in {MessagesOf(said), <<>>}}
Vocabulary == Replies \cup Messages \cup Updates \cup Executions \cup Bounds

\* The exchange of a client that follows the protocol, record by record.
Message(role, k, b) == <<Ev("message_start", role, {}, "ok", <<>>), Ev("message_end", role, k, b, <<>>)>>
Script(k) ==
    <<Ev("response", "get_state", {}, "ok", <<>>), Ev("response", "prompt", {}, "ok", <<>>),
      Ev("agent_start", "", {}, "ok", <<>>), Ev("turn_start", "", {}, "ok", <<>>)>>
    \o Message("user", {}, "ok") \o Message("assistant", {k}, "toolUse")
    \o <<Ev("execution", "start", {k}, "same", <<>>), Ev("execution", "end", {k}, "x", <<>>)>>
    \o Message("toolResult", {k}, "x")
    \o <<Ev("turn_end", "", {}, "ok", TurnCopy(said)), Ev("turn_start", "", {}, "ok", <<>>)>>
    \o Message("assistant", {}, "stop")
    \o <<Ev("turn_end", "", {}, "ok", TurnCopy(said)), Ev("agent_end", "", {}, "ok", MessagesOf(said)),
         Ev("settled", "", {}, "ok", <<>>)>>
Scripted ==
    LET s == Script(CHOOSE k \in Calls : TRUE)
    IN  IF Len(said) < Len(s) /\ s[Len(said) + 1].id \notin {"get_state", "prompt"} \ Requests
        THEN {s[Len(said) + 1]} ELSE {}

\* A bound on the client: the records without effect.
Optional(r) == r.kind = "message_update" \/ (r.kind = "execution" /\ r.id = "update")

PeerSays ==
    /\ Talking /\ conv.at # "get_state" /\ ~ Stopped(d)
    /\ \E r \in IF world.peer = "free" THEN Vocabulary ELSE Scripted :
         LET e == Fed(d, r) IN
         /\ Optional(r) /\ ~ Stopped(e) => Cardinality(Where(said, Optional)) < MaxExtras
         /\ d' = e /\ said' = IF e.damaged \/ e.refused THEN <<>> ELSE Append(said, r)
    /\ UNCHANGED <<h, mine, workVars, prov, conv, outcome>>
PeerTears ==
    /\ Talking /\ world.peer = "free" /\ ~ d.torn /\ ~ Stopped(d) /\ d' = Torn(d)
    /\ UNCHANGED <<h, mine, workVars, prov, conv, said, outcome>>
\* It exits once its input is closed, or when it likes.
PeerExits(clean) ==
    /\ Talking /\ ~ d.eof /\ (conv.stdin \/ ~ clean => world.peer = "free")
    /\ d' = Finished(d) /\ conv' = [conv EXCEPT !.clean = clean]
    /\ UNCHANGED <<h, mine, workVars, prov, said, outcome>>

\* A conversation that has nothing more to report is dropped with its decoder.
Dropped == d' = NewDecoder /\ said' = <<>>

\* The exchange is over when its reader saw the end: the client is reaped, and ownership checked again.
Conclude ==
    /\ Talking /\ conv.at = "draining" /\ d.eof /\ Reaped
    /\ Goes("concluded")
    /\ UNCHANGED <<mine, view, stage, payload, closed, candidate, objects, pub, c, piVars>>

\* _execute_owned, after the executor: the handle and the workspace are still this invocation's.
Reports == Held /\ Owned
Report ==
    /\ At("concluded") /\ Pi
    /\ outcome' = IF Reports THEN Outcome(d, conv.late, conv.clean) ELSE "raised"
    /\ guard' = Unlocked("w", "task") /\ Goes("over")
    /\ IF outcome' = "success" THEN UNCHANGED <<d, said>> ELSE Dropped
    /\ UNCHANGED <<mine, view, stage, child, payload, closed, candidate, objects, pub, c, prov, conv>>

\* The deadline of an operation, or a cancellation of its caller: an owned transaction is finished first.
Interruptible == {"opening", "using", "used", "waiting", "imported", "publishing", "talking", "guarding"}
Interrupt ==
    /\ h.at \in Interruptible /\ Goes("failing")
    /\ \/ (h.shut /\ h.open) \/ world.trouble = "late"
       \/ At("talking") /\ ~ (conv.at = "draining" /\ d.eof)
    /\ conv' = [conv EXCEPT !.late = ~ h.shut] /\ Dropped
    /\ UNCHANGED <<mine, workVars, prov, outcome>>

(***************************************************************************)
(* Closing the handle.                                                     *)
(***************************************************************************)
\* close: fence, join, release, dispose.
CloseHandle ==
    /\ Pi /\ Alive /\ mine /\ prov.acquired /\ ~ h.shut /\ c["close"].at = "idle"
    /\ At("over") \/ world.trouble = "close"
    /\ h' = [h EXCEPT !.shut = TRUE]
    /\ c' = IF h.open THEN [c EXCEPT !["close"] = [Idle EXCEPT !.at = "fence", !.acq = "p"]] ELSE c
    /\ UNCHANGED <<mine, view, stage, child, guard, payload, closed, candidate, objects, pub, piVars>>

\* _join_and_release: materialization and task have ended.
Joined == h.at \notin {"guarding", "guarded", "using", "used", "talking", "concluded", "failing"}

\* A failed fence still releases, and disposes of nothing.
JoinAndRelease ==
    /\ Alive /\ c["close"].at \in {"join", "unfenced"}
    /\ Joined /\ guard' = Unlocked("p", "task")
    /\ Party("close", IF c["close"].at = "join" THEN "read" ELSE "failed")
    /\ UNCHANGED <<h, mine, view, stage, child, payload, closed, candidate, objects, pub, piVars>>
\* relinquish: the same without a fence, by an owner that lost the run.
Relinquish ==
    /\ Pi /\ Alive /\ ~ mine /\ ~ h.shut /\ At("over")
    /\ h' = [h EXCEPT !.shut = TRUE] /\ guard' = Unlocked("p", "task")
    /\ UNCHANGED <<mine, view, stage, child, payload, closed, candidate, objects, pub, c, piVars>>

(***************************************************************************)
(* The run changes hands, by a lease that expired or a host that died.     *)
(***************************************************************************)
LoseControl ==
    /\ world.trouble \in {"control", "busy"} /\ mine /\ h.at # "new" /\ mine' = FALSE
    /\ UNCHANGED <<h, workVars, piVars>>
Crash ==
    /\ world.trouble = "crash" /\ Alive /\ h.at # "new" /\ Goes("dead") /\ mine' = FALSE
    /\ guard' = [a \in Acqs |-> guard[a] \ {"task", "close"}]
    /\ UNCHANGED <<view, stage, child, payload, closed, candidate, objects, pub, c, piVars>>

HostStep ==
    \/ WorkspaceStep /\ UNCHANGED piVars
    \/ Qualify \/ Qualified \/ Acquire \/ Materialize \/ TakeHandle \/ Materialized \/ Execute \/ Launch
    \/ SendState \/ SendPrompt \/ CloseStdin \/ Conclude \/ Report \/ Interrupt
    \/ (ChildKilled \/ CloseWorkspace) /\ UNCHANGED piVars
    \/ CloseHandle \/ JoinAndRelease \/ Relinquish
    \/ \E clean \in BOOLEAN : PeerExits(clean)

\* Transactions land, and parties dispose.
Disposal ==
    /\ \/ \E x \in Parties : DisposalStep(x)
       \/ Reconcile
       \/ \E busy \in BOOLEAN : PublishLands(busy)
    /\ UNCHANGED piVars

Next ==
    /\ HostStep \/ Disposal \/ PeerSays \/ PeerTears \/ QualifyAgain \/ ExecuteAgain \/ LoseControl \/ Crash
    /\ UNCHANGED world

\* Hosts and their threads are scheduled, children end, and a deadline comes; what the client
\* says, it may never say.
Fairness == WF_vars(HostStep /\ UNCHANGED world) /\ WF_vars(Disposal /\ UNCHANGED world)
Spec == Init /\ [][Next]_vars /\ Fairness

(***************************************************************************)
(* Properties.                                                             *)
(***************************************************************************)
\* A success is a whole exchange with a client that exited cleanly: the records it wrote,
\* all of them, are one state reply, one accepted prompt and one agent run whose every read was
\* declared, started, ended and answered once and in order with the same content, closed by copies
\* that agree (PiDecoder.observe and outcome, PiReadHandle._execute_owned).
SuccessIsCoherent == outcome = "success" => Coherent(said) /\ conv.clean /\ d.eof /\ conv.spent = 2

\* The candidate ref names a commit the authority verified and holds, and what a capture returned
\* for as long as nobody discards it; and behind its closure an acquisition publishes nothing:
\* not a capture whose owner was replaced after its last check, not the orphaned transaction of a
\* dead host (AcquisitionClosure.publish).
CandidateIsSound ==
    /\ [](candidate # NoCommit => candidate \in objects)
    /\ [](h.returned # NoCommit /\ "discard" \notin {world.own, world.next} => candidate = h.returned)
    /\ [][closed["w"] => candidate' \in {candidate, NoCommit}]_vars

\* A contained process works only on a payload that is there, under the guard it holds; and once
\* a party has reported the disposal of a revoked acquisition, none works on it and its payload
\* is gone, also when a late materialization of the dead or displaced host was under way.
DisposedMeansQuiet ==
    \A a \in Acqs :
        /\ child # "none" /\ a \in Mounts(child) => "child" \in guard[a] /\ (a = "w" => payload["w"] = "made")
        /\ \A x \in Parties : c[x].at = "done" /\ c[x].acq = a /\ closed[a] => guard[a] \cap {"child"} = {} /\ payload[a] # "made"

\* Whatever happened to its host, every acquisition that was entered ends revoked, removed and free.
EverythingIsDisposed ==
    world.trouble # "busy" =>
        <>[](/\ \A a \in Acqs : guard[a] = {}
             /\ child = "none" /\ payload["w"] # "made"
             /\ view.entered => closed["w"]
             /\ h.open => closed["p"])
=============================================================================
