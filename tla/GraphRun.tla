------------------------------ MODULE GraphRun ------------------------------
(***************************************************************************)
(* The walk over an admitted graph (runtime/walker.py): units in           *)
(* dependency order, loops as one unit each, checkpoints restored instead  *)
(* of executed, and a run that can be taken up again after a crash, a      *)
(* failure or a park.  Leases, fences and heartbeats are RunLifecycle's;   *)
(* here one attempt at a time walks, and a crash leaves what is durable.   *)
(*                                                                         *)
(* An implementation is free: an invocation may complete with any values,  *)
(* fail, or park.  A path is <<scope, iteration>>, iteration 0 outside a   *)
(* loop.                                                                   *)
(***************************************************************************)
EXTENDS GraphAdmission

CONSTANTS Worlds,      \* records [graph, supplied, library, later, root, attempts, cancels, drifts]
          Names,       \* every segment name, in string order
          Data         \* the values of an ordinary port

VARIABLES world,       \* what is submitted, and to which registry
          phase,       \* "submitted", "refused", "admitted"
          manifest,    \* the sealed manifest
          order,       \* the units in the order of the walk, a function of the manifest
          status,      \* RunStatus
          cancel,      \* cancel_requested
          ckpt,        \* path -> [inputs, outputs]
          att,         \* the attempt that walks, if any
          attempts,    \* how many more the world allows
          result,      \* the outputs a succeeded attempt returned
          refusal,     \* the error an attempt raised out of the walk
          replay       \* the manifest of a replay under the lock of this one

vars == <<world, phase, manifest, order, status, cancel, ckpt, att, attempts, result, refusal, replay>>

-----------------------------------------------------------------------------
(* What the walker reads off the manifest. *)

Definition(r) == world.library[r.comp].versions[r.version]
Instances(m) == {r \in ToSet(m.resolutions) : r.kind = "atomic"}
InstanceAt(m, scope) == CHOOSE r \in Instances(m) : r.scope = scope
Members(m) == UNION {ToSet(l.members) : l \in ToSet(m.loops)}
LoopScopes(m) == {l.scope : l \in ToSet(m.loops)}
LoopAt(m, scope) == CHOOSE l \in ToSet(m.loops) : l.scope = scope

\* _root_units: the atomic instances outside every loop, and one unit a loop.
Units(m) == ({r.scope : r \in Instances(m)} \ Members(m)) \cup LoopScopes(m)

BindingsOf(m, dest) == {b \in m.bindings : b.dest = dest}
SourcesOf(bindings) == UNION {ToSet(b.sources) : b \in bindings}
InputBindings(m, r) == {b \in m.bindings : \E p \in ToSet(Definition(r).inputs) : b.dest = PortAt(r.scope, p.name)}
UnitInputBindings(m, unit) ==
    IF unit \in LoopScopes(m) THEN LoopAt(m, unit).initial ELSE InputBindings(m, InstanceAt(m, unit))
OutputAddresses(r) == {PortAt(r.scope, p.name) : p \in ToSet(Definition(r).outputs)}
Produces(m, unit) ==
    IF unit \in LoopScopes(m) THEN {e.dest : e \in LoopAt(m, unit).exports}
    ELSE OutputAddresses(InstanceAt(m, unit))

\* The units, and the members of one iteration, a report names as producers.
UnitProducers(m, unit) ==
    {u \in Units(m) : Produces(m, u) \cap SourcesOf(UnitInputBindings(m, unit)) # {}}
MemberProducers(m, loop, scope) ==
    {s \in ToSet(loop.members) : OutputAddresses(InstanceAt(m, s)) \cap SourcesOf(InputBindings(m, InstanceAt(m, scope))) # {}}

Rank(name) == CHOOSE i \in 1..Len(Names) : Names[i] = name
Before(s, t) ==
    \/ IsStrictPrefix(s, t)
    \/ \E i \in 1..Len(s) : /\ i <= Len(t) /\ SubSeq(s, 1, i - 1) = SubSeq(t, 1, i - 1)
                            /\ Rank(s[i]) < Rank(t[i])

RECURSIVE Place(_, _, _)
Place(m, placed, unit) ==
    IF Contains(placed, unit) THEN placed
    ELSE Append(FoldLeft(LAMBDA acc, u : Place(m, acc, u), placed, SetToSortSeq(UnitProducers(m, unit), Before)), unit)
OrderedUnits(m) == FoldLeft(LAMBDA acc, u : Place(m, acc, u), <<>>, SetToSortSeq(Units(m), Before))

-----------------------------------------------------------------------------
(* Values. *)

Put(f, key, value) == [x \in DOMAIN f \cup {key} |-> IF x = key THEN value ELSE f[x]]
Merge(f, g) == [x \in DOMAIN f \cup DOMAIN g |-> IF x \in DOMAIN g THEN g[x] ELSE f[x]]

Collectable(values, sources, port) ==
    ToSet(sources) \subseteq DOMAIN values /\ (port.card = "many" \/ Len(sources) = 1)
Collect(values, sources, port) ==
    IF port.card = "many" THEN [i \in 1..Len(sources) |-> values[sources[i]]] ELSE values[sources[1]]

PortBinding(m, r, port) == BindingsOf(m, PortAt(r.scope, port.name))
InputsReady(m, r, values) ==
    \A p \in ToSet(Definition(r).inputs) :
        IF PortBinding(m, r, p) = {} THEN p.card = "optional"
        ELSE \A b \in PortBinding(m, r, p) : Collectable(values, b.sources, p)
NodeInputs(m, r, values) ==
    [p \in ToSet(Definition(r).inputs) |->
        IF PortBinding(m, r, p) = {} THEN <<"null">>
        ELSE <<Collect(values, (CHOOSE b \in PortBinding(m, r, p) : TRUE).sources, p)>>]

PublishOutputs(r, outputs, values) ==
    Merge(values, [a \in OutputAddresses(r) |-> outputs[CHOOSE p \in ToSet(Definition(r).outputs) : PortAt(r.scope, p.name) = a]])

PortValues(port) == IF port.type = "continue" THEN {"yes", "no", "bad"} ELSE Data
OutputChoices(r) ==
    LET ports == ToSet(Definition(r).outputs)
    IN  {f \in [ports -> UNION {PortValues(p) : p \in ports}] : \A p \in ports : f[p] \in PortValues(p)}

-----------------------------------------------------------------------------
(* Loops. *)

StaleSeed(loop, i, outer, previous) ==
    [a \in {b.dest : b \in loop.initial} |->
        LET b == CHOOSE c \in loop.initial : c.dest = a IN Collect(outer, b.sources, b.port)]
SeedLoop(loop, i, outer, previous) ==
    LET fed == IF i > 1 THEN loop.feedback ELSE {}
        cold == {b \in loop.initial : \A f \in fed : f.dest # b.dest}
    IN  Merge([a \in {b.dest : b \in cold} |->
                  LET b == CHOOSE c \in cold : c.dest = a IN Collect(outer, b.sources, b.port)],
              [a \in {f.dest : f \in fed} |-> previous[(CHOOSE f \in fed : f.dest = a).sources[1]]])

PublishExports(loop, values, outer) ==
    Merge(outer, [a \in {e.dest : e \in loop.exports} |->
                    LET e == CHOOSE x \in loop.exports : x.dest = a IN Collect(values, e.sources, e.port)])

\* _restore_checked_checkpoint for the leading members of an iteration that are durable.
ReplayMembers(m, loop, durable, i, seed) ==
    LET step(acc, scope) ==
            LET r == InstanceAt(m, scope)
            IN  IF ~acc.ok \/ <<scope, i>> \notin DOMAIN durable THEN acc
                ELSE IF ~InputsReady(m, r, acc.values) \/ durable[<<scope, i>>].inputs # NodeInputs(m, r, acc.values)
                THEN [acc EXCEPT !.ok = FALSE]
                ELSE [acc EXCEPT !.values = PublishOutputs(r, durable[<<scope, i>>].outputs, @)]
    IN  FoldLeft(step, [ok |-> TRUE, values |-> seed], loop.members)

History(verdict, last, values) == [verdict |-> verdict, last |-> last, values |-> values]

\* Behind the last iteration the durable matrix may have rows for.
PastMatrix(loop, i) == i > loop.max

\* _inspect_loop_history from iteration i: a contiguous prefix, and nothing after a false decision.
RECURSIVE InspectLoop(_, _, _, _, _, _, _)
InspectLoop(m, loop, durable, outer, i, previous, terminal) ==
    LET have == {j \in 1..Len(loop.members) : <<loop.members[j], i>> \in DOMAIN durable}
        later == \E k \in i + 1..loop.max, j \in 1..Len(loop.members) : <<loop.members[j], k>> \in DOMAIN durable
        gap == \E j, k \in 1..Len(loop.members) : j < k /\ j \notin have /\ k \in have
        full == have = 1..Len(loop.members)
        replayed == ReplayMembers(m, loop, durable, i, SeedLoop(loop, i, outer, previous))
        decision == replayed.values[loop.continue]
    IN  IF PastMatrix(loop, i) THEN History(IF terminal THEN "damaged" ELSE "ok", 0, previous)
        ELSE IF gap \/ (~full /\ later) THEN History("damaged", 0, previous)
        ELSE IF have # {} /\ ~replayed.ok THEN History("conflict", 0, previous)
        ELSE IF ~full THEN History(IF terminal THEN "damaged" ELSE "ok", 0, previous)
        ELSE IF loop.continue \notin DOMAIN replayed.values \/ decision \notin {"yes", "no"}
             THEN History("contract", 0, previous)
        ELSE IF decision = "no"
             THEN History(IF later THEN "damaged" ELSE "ok", i, replayed.values)
        ELSE InspectLoop(m, loop, durable, outer, i + 1, replayed.values, terminal)

-----------------------------------------------------------------------------
(* The run materialized from durable facts alone. *)

Supplied(m) ==
    [a \in {InputAt(<<m.name>>, p) : p \in world.supplied} |-> a[3]]

\* _graph_outputs: the declared outputs that were bound.
Ends(m) == {p \in ToSet(m.outputs) : BindingsOf(m, OutputAt(<<m.name>>, p.name)) # {}}
EndSources(m, port) == (CHOOSE b \in BindingsOf(m, OutputAt(<<m.name>>, port.name)) : TRUE).sources
GraphOutputs(m, values) == [p \in Ends(m) |-> <<Collect(values, EndSources(m, p), p)>>]

Materialize(m, durable) ==
    LET step(acc, unit) ==
            LET history == InspectLoop(m, LoopAt(m, unit), durable, acc.values, 1, <<>>, TRUE)
                r == InstanceAt(m, unit)
                path == <<unit, 0>>
            IN  IF ~acc.ok THEN acc
                ELSE IF unit \in LoopScopes(m)
                THEN IF history.verdict = "ok" THEN [acc EXCEPT !.values = PublishExports(LoopAt(m, unit), history.values, @)]
                     ELSE [acc EXCEPT !.ok = FALSE]
                ELSE IF path \in DOMAIN durable /\ InputsReady(m, r, acc.values)
                        /\ durable[path].inputs = NodeInputs(m, r, acc.values)
                THEN [acc EXCEPT !.values = PublishOutputs(r, durable[path].outputs, @)]
                ELSE [acc EXCEPT !.ok = FALSE]
        walked == FoldLeft(step, [ok |-> TRUE, values |-> Supplied(m)], order)
    IN  [ok |-> walked.ok, outputs |-> IF walked.ok THEN GraphOutputs(m, walked.values) ELSE <<>>]

-----------------------------------------------------------------------------
(* The run. *)

Idle == [on |-> FALSE]
Fresh(m) ==
    [on |-> TRUE, at |-> 1, values |-> Supplied(m), units |-> [u \in Units(m) |-> "queued"], failed |-> FALSE,
     parked |-> FALSE, blocked |-> FALSE, iteration |-> 0, member |-> 0, inner |-> <<>>,
     members |-> <<>>, broken |-> FALSE]

Init ==
    /\ world \in Worlds
    /\ phase = "submitted" /\ manifest = <<>> /\ order = <<>> /\ replay = <<>>
    /\ status = "NONE" /\ cancel = FALSE /\ ckpt = <<>> /\ att = Idle
    /\ attempts = world.attempts /\ result = <<>> /\ refusal = "none"

\* admit, then prepare: a refused graph leaves no run.
Submit ==
    /\ phase = "submitted"
    /\ manifest' = Admit(world.graph, world.supplied, world.library, NoLock, world.root)
    /\ phase' = IF manifest'.faults = {} THEN "admitted" ELSE "refused"
    /\ order' = IF manifest'.faults = {} THEN OrderedUnits(manifest') ELSE <<>>
    /\ status' = IF manifest'.faults = {} THEN "PENDING" ELSE "NONE"
    /\ UNCHANGED <<world, cancel, ckpt, att, attempts, result, refusal, replay>>

\* A replay admits the same graph under the lock, after the registry has moved on.
Replay ==
    /\ phase = "admitted" /\ replay = <<>>
    /\ replay' = Admit(world.graph, world.supplied, world.later, LockOf(manifest), world.root)
    /\ UNCHANGED <<world, phase, manifest, order, status, cancel, ckpt, att, attempts, result, refusal>>

\* RunStarted, RunResumed or RunReclaimed.
Begin ==
    /\ phase = "admitted" /\ ~att.on /\ attempts > 0
    /\ status \in {"PENDING", "RUNNING", "FAILED", "PARKED"}
    /\ status' = "RUNNING" /\ att' = Fresh(manifest) /\ attempts' = attempts - 1
    /\ UNCHANGED <<world, phase, manifest, order, cancel, ckpt, result, refusal, replay>>

\* activate: a component or a capability this process cannot load refuses the attempt before it
\* claims the run, so nothing durable moves.
ActivationRefused ==
    /\ world.drifts /\ phase = "admitted" /\ ~att.on /\ attempts > 0
    /\ status \in {"PENDING", "RUNNING", "FAILED", "PARKED"}
    /\ attempts' = attempts - 1
    /\ UNCHANGED <<world, phase, manifest, order, status, cancel, ckpt, att, result, refusal, replay>>

RequestCancel ==
    /\ world.cancels /\ phase = "admitted" /\ ~cancel /\ status \in {"PENDING", "RUNNING", "FAILED", "PARKED"}
    /\ cancel' = TRUE
    /\ UNCHANGED <<world, phase, manifest, order, status, ckpt, att, attempts, result, refusal, replay>>

\* _check_run_control, before every unit, iteration and member.
Cancelled ==
    /\ att.on /\ cancel /\ att.at <= Len(order)
    /\ status' = "CANCELLED" /\ att' = Idle
    /\ UNCHANGED <<world, phase, manifest, order, cancel, ckpt, attempts, result, refusal, replay>>

Crash ==
    /\ att.on /\ att' = Idle
    /\ UNCHANGED <<world, phase, manifest, order, status, cancel, ckpt, attempts, result, refusal, replay>>

\* An error the walk does not handle leaves the attempt and keeps the run RUNNING.
Raise(kind) ==
    /\ refusal' = kind /\ att' = Idle
    /\ UNCHANGED <<world, phase, manifest, order, status, cancel, ckpt, attempts, result, replay>>

\* _execute_or_restore and _invoke: what one atomic invocation can come to.
Outcomes(path, r, values) ==
    LET inputs == NodeInputs(manifest, r, values)
    IN  IF ~InputsReady(manifest, r, values) THEN {[kind |-> "contract"]}
        ELSE IF path \in DOMAIN ckpt
        THEN IF ckpt[path].inputs = inputs THEN {[kind |-> "done", record |-> ckpt[path]]} ELSE {[kind |-> "conflict"]}
        ELSE {[kind |-> "done", record |-> [inputs |-> inputs, outputs |-> outs]] : outs \in OutputChoices(r)}
             \cup {[kind |-> "failed"], [kind |-> "parked"]}

Walking == att.on /\ ~cancel /\ att.at <= Len(order)
Unit == order[att.at]
AtUnit == Walking /\ att.iteration = 0
InLoop == Walking /\ att.iteration > 0
Loop == LoopAt(manifest, Unit)

\* The unit is decided: its status, and what it adds to the attempt.
Settled(a, kind) ==
    [a EXCEPT !.units[Unit] = kind, !.at = @ + 1, !.failed = @ \/ kind = "failed", !.parked = @ \/ kind = "parked",
              !.blocked = @ \/ kind = "blocked", !.iteration = 0, !.member = 0, !.inner = <<>>, !.members = <<>>,
              !.broken = FALSE]

WaitingIsFine(m, unit) == \A u \in UnitProducers(m, unit) : att.units[u] \notin {"failed", "blocked"}
Ready(m, unit) == \A u \in UnitProducers(m, unit) : att.units[u] = "done"

BlockUnit ==
    /\ AtUnit /\ ~Ready(manifest, Unit)
    /\ att' = Settled(att, "blocked")
    /\ UNCHANGED <<world, phase, manifest, order, status, cancel, ckpt, attempts, result, refusal, replay>>

WalkNode ==
    /\ AtUnit /\ Ready(manifest, Unit) /\ Unit \notin LoopScopes(manifest)
    /\ \E o \in Outcomes(<<Unit, 0>>, InstanceAt(manifest, Unit), att.values) :
        \/ /\ o.kind \in {"contract", "conflict"} /\ Raise(o.kind)
        \/ /\ o.kind \in {"failed", "parked"} /\ att' = Settled(att, o.kind)
           /\ UNCHANGED <<world, phase, manifest, order, status, cancel, ckpt, attempts, result, refusal, replay>>
        \/ /\ o.kind = "done"
           /\ ckpt' = Put(ckpt, <<Unit, 0>>, o.record)
           /\ att' = [Settled(att, "done") EXCEPT
                        !.values = PublishOutputs(InstanceAt(manifest, Unit), o.record.outputs, @)]
           /\ UNCHANGED <<world, phase, manifest, order, status, cancel, attempts, result, refusal, replay>>

OpenIteration(a, i, previous) ==
    [a EXCEPT !.iteration = i, !.member = 1, !.inner = SeedLoop(Loop, i, a.values, previous),
              !.members = [s \in ToSet(Loop.members) |-> "queued"], !.broken = FALSE]

\* The whole durable prefix is judged before any member may run.
EnterLoop ==
    LET history == InspectLoop(manifest, Loop, ckpt, att.values, 1, <<>>, FALSE)
    IN  /\ AtUnit /\ Unit \in LoopScopes(manifest) /\ Ready(manifest, Unit)
        /\ IF history.verdict # "ok" THEN Raise(history.verdict)
           ELSE IF \E b \in Loop.initial : ~Collectable(att.values, b.sources, b.port) THEN Raise("contract")
           ELSE /\ att' = OpenIteration(att, 1, <<>>)
                /\ UNCHANGED <<world, phase, manifest, order, status, cancel, ckpt, attempts, result, refusal, replay>>

MemberReady(scope) == \A s \in MemberProducers(manifest, Loop, scope) : att.members[s] = "done"

\* A failed invocation ends the iteration: its dependents are blocked, the rest skipped.
SkipMember ==
    LET scope == Loop.members[att.member]
    IN  /\ InLoop /\ att.member <= Len(Loop.members) /\ (att.broken \/ ~MemberReady(scope))
        /\ att' = [att EXCEPT !.members[scope] = IF MemberReady(scope) THEN "skipped" ELSE "blocked",
                              !.blocked = @ \/ ~MemberReady(scope), !.broken = TRUE, !.member = @ + 1]
        /\ UNCHANGED <<world, phase, manifest, order, status, cancel, ckpt, attempts, result, refusal, replay>>

WalkMember ==
    LET scope == Loop.members[att.member]
        path == <<scope, att.iteration>>
        r == InstanceAt(manifest, scope)
    IN  /\ InLoop /\ att.member <= Len(Loop.members) /\ ~att.broken /\ MemberReady(scope)
        /\ \E o \in Outcomes(path, r, att.inner) :
            \/ /\ o.kind \in {"contract", "conflict"} /\ Raise(o.kind)
            \/ /\ o.kind = "parked" /\ att' = Settled(att, "parked")
               /\ UNCHANGED <<world, phase, manifest, order, status, cancel, ckpt, attempts, result, refusal, replay>>
            \/ /\ o.kind = "failed"
               /\ att' = [att EXCEPT !.members[scope] = "failed", !.broken = TRUE, !.failed = TRUE, !.member = @ + 1]
               /\ UNCHANGED <<world, phase, manifest, order, status, cancel, ckpt, attempts, result, refusal, replay>>
            \/ /\ o.kind = "done"
               /\ ckpt' = Put(ckpt, path, o.record)
               /\ att' = [att EXCEPT !.members[scope] = "done", !.member = @ + 1,
                                     !.inner = PublishOutputs(r, o.record.outputs, @)]
               /\ UNCHANGED <<world, phase, manifest, order, status, cancel, attempts, result, refusal, replay>>

\* The decision after a completed iteration; a failed one, or no boolean, fails the loop.
EndIteration ==
    LET decision == IF Loop.continue \in DOMAIN att.inner THEN att.inner[Loop.continue] ELSE "bad"
    IN  /\ InLoop /\ att.member > Len(Loop.members)
        /\ att' = CASE att.broken \/ decision \notin {"yes", "no"} -> Settled(att, "failed")
                    [] ~att.broken /\ decision = "no" ->
                          [Settled(att, "done") EXCEPT !.values = PublishExports(Loop, att.inner, @)]
                    [] ~att.broken /\ decision = "yes" ->
                          IF att.iteration = Loop.max THEN Settled(att, "parked")
                          ELSE OpenIteration(att, att.iteration + 1, att.inner)
        /\ UNCHANGED <<world, phase, manifest, order, status, cancel, ckpt, attempts, result, refusal, replay>>

\* Any failure, then any park, then success; blocked units with neither are damage.
Conclude ==
    /\ att.on /\ att.at > Len(order)
    /\ IF ~att.failed /\ ~att.parked /\ att.blocked THEN Raise("damaged")
       ELSE IF ~att.failed /\ ~att.parked /\ \E p \in Ends(manifest) : ~Collectable(att.values, EndSources(manifest, p), p)
       THEN Raise("contract")
       ELSE /\ status' = IF att.failed THEN "FAILED" ELSE IF att.parked THEN "PARKED" ELSE "SUCCEEDED"
            /\ result' = IF status' = "SUCCEEDED" THEN GraphOutputs(manifest, att.values) ELSE result
            /\ att' = Idle
            /\ UNCHANGED <<world, phase, manifest, order, cancel, ckpt, attempts, refusal, replay>>

Next == Submit \/ Replay \/ Begin \/ ActivationRefused \/ RequestCancel \/ Cancelled \/ Crash \/ BlockUnit \/ WalkNode \/ EnterLoop
        \/ SkipMember \/ WalkMember \/ EndIteration \/ Conclude

Spec == Init /\ [][Next]_vars
=============================================================================
