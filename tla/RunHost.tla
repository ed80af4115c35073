------------------------------ MODULE RunHost -------------------------------
(***************************************************************************)
(* RunHost (api/run_host.py): which durable runs have a local coroutine.   *)
(*                                                                         *)
(* The host lives on one asyncio loop.  A coroutine runs until it          *)
(* suspends, so whatever happens between two suspensions is one step here; *)
(* `loop' names the coroutine that has not suspended yet.  The journal is  *)
(* shared with other processes and with the clock, which act at any time.  *)
(*                                                                         *)
(* A run is woken by a launch intent: an expected event sequence (the      *)
(* fence), the statuses it may be claimed from, and its durable cause.     *)
(* Intents come from the control plane and from the pump, which re-derives *)
(* them from the journal at every tick.  The pump's retry timer is always  *)
(* armed (_scan_answered_waits returns a deadline on every path), so a     *)
(* sleeping pump may always tick; an asyncio.Event set during the tick     *)
(* itself makes _wait_for_work return without suspending.                  *)
(***************************************************************************)
EXTENDS Integers, FiniteSets, FiniteSetsExt

CONSTANTS
    LastRun,          \* runs are 1..LastRun, in the order of their journal keys
    LastCommand,      \* runs_resume commands are 1..LastCommand, likewise
    Slots,            \* bound: worker tasks that one run may have at a time
    NoSlot,
    Worlds            \* the situations of an instance, see World

ASSUME SizeAssumption ==
    /\ LastRun \in Nat \ {0} /\ LastCommand \in Nat
    /\ IsFiniteSet(Slots) /\ NoSlot \notin Slots
    /\ Slots \cap {"nobody", "gone", "rival", "rival begun"} = {}      \* the other owners of a lease

Runs == 1 .. LastRun
Commands == 1 .. LastCommand
Workers == Runs \X Slots              \* a worker task is a slot of its run
Unbound == -1                          \* an intent without an expected event sequence
Resumable == {"PENDING", "RUNNING", "FAILED", "PARKED"}
Recoverable == {"PENDING", "RUNNING"}
Statuses == Resumable \cup {"SUCCEEDED"}      \* SUCCEEDED stands for CANCELLED too
NoCause == <<>>
ResumeCause(c) == <<"resume_command", c>>
ReplyCause(seq) == <<"channel_reply", seq>>
NoIntent == [base |-> Unbound, allowed |-> {}, cause |-> NoCause]
IdleWorker == [intent |-> NoIntent, pc |-> "idle", result |-> "none", behind |-> {}]
NoCut == [through |-> 0, after |-> 0]
NoCommand == [state |-> "absent", run |-> 0, base |-> 0]

FaultKinds == {"rival", "stall", "completion", "progress", "activation", "raise", "death", "pump",
               "shutdown", "crash"}

\* What differs between situations, all of it fixed while the host lives.
World == [parked : SUBSET Runs,         \* PARKED at the start
          pending : SUBSET Runs,        \* PENDING at the start; the others are over
          submitted : SUBSET Runs,      \* launched by a start or reproduce command
          bareLaunched : SUBSET Runs,   \* launched without a fence
          answerable : SUBSET Runs,     \* with requests that get replies
          resumed : SUBSET Runs,        \* named by resume commands
          commands : 0 .. LastCommand,  \* how many of them are sent
          maxConcurrency : Nat \ {0},
          scanRows : Nat \ {0},         \* recovery_page_size * resume_pages_per_tick
          faults : SUBSET FaultKinds,   \* which failures happen
          maxFaults : Nat,              \* bound: how many
          maxSeq : Nat,                 \* bound: events of a run
          lasts : BOOLEAN]              \* the process and its clock never just stop

ASSUME WorldsAssumption == Worlds \subseteq World

VARIABLES
    world,
    run,        \* the journal's row of each run: status, event sequence, lease
    replied,    \* <<run, seq>>: the request that run parked on at event seq has a reply
    cmd,        \* the journal's runs_resume commands
    begun,      \* history: the first event of each attempt this host began
    host,       \* the RunHost's own tables and its worker tasks
    cut,        \* where each of the two scans stands
    loop,       \* "free", or who holds the event loop: "pump" or "worker"
    pump,       \* "on" or "off"
    life,       \* "starting", "open", "closing" while shutdown waits for workers, "closed"
    faults      \* failures so far

durable == <<run, replied, cmd, begun>>
vars == <<world, run, replied, cmd, begun, host, cut, loop, pump, life, faults>>

EmptyHost == [requested |-> [r \in Runs |-> NoIntent],
              explicit  |-> [r \in Runs |-> NoIntent],
              tasks     |-> [r \in Runs |-> NoSlot],
              worker    |-> [w \in Workers |-> IdleWorker],
              retry     |-> {},        \* runs whose _claim_retry_at lies ahead
              deferred  |-> {},
              woke      |-> FALSE]     \* _wake was set in the current tick

Init ==
    /\ world \in Worlds
    /\ run = [r \in Runs |-> [status |-> IF r \in world.parked THEN "PARKED"
                                         ELSE IF r \in world.pending THEN "PENDING" ELSE "SUCCEEDED",
                              seq    |-> IF r \in world.pending THEN 0 ELSE 2,
                              owner  |-> "nobody", live |-> FALSE]]
    /\ replied = {}
    /\ cmd = [c \in Commands |-> NoCommand]
    /\ begun = {}
    /\ host = EmptyHost
    /\ cut = [resumes |-> NoCut, waits |-> NoCut]
    /\ loop = "free" /\ pump = "on" /\ life = "starting"
    /\ faults = 0

-----------------------------------------------------------------------------
(* Launch intents *)

Intent(base, allowed, cause) == [base |-> base, allowed |-> allowed, cause |-> cause]
ResumeIntent(c) == Intent(cmd[c].base, Resumable, ResumeCause(c))
ReplyIntent(seq) == Intent(seq, {"PARKED"}, ReplyCause(seq))

\* May the incoming intent i replace j?
Supersedes(i, j) ==
    LET broader == i.allowed # j.allowed /\ j.allowed \subseteq i.allowed
    IN  \/ i.base > j.base
        \/ i.base = j.base /\ i.base = Unbound /\ broader
        \/ /\ i.base = j.base /\ i.base # Unbound
           /\ IF i.cause # j.cause THEN i.cause # NoCause /\ j.cause = NoCause ELSE broader

Working(h, r) == h.tasks[r] # NoSlot /\ h.worker[<<r, h.tasks[r]>>].pc # "done"

\* What launch answers.
Disposition(h, r, i) ==
    LET queued == h.requested[r]
        rival  == IF queued # NoIntent THEN queued
                  ELSE IF Working(h, r) THEN h.explicit[r] ELSE NoIntent
    IN  CASE rival = i -> "coalesced_exact"
          [] rival = NoIntent \/ Supersedes(i, rival) -> "queued"
          [] OTHER -> "superseded"

\* An exact repeat of an intent in flight returns before the pump is signalled.
Signals(h, r, i) ==
    ~ (h.requested[r] = NoIntent /\ Working(h, r) /\ h.explicit[r] = i)

\* launch for a set of offers.  The offers of one run share its fence, so none of them
\* supersedes the first in key order.
Launched(h, offers) ==
    LET first(r) == CHOOSE o \in offers : o.run = r /\ \A p \in offers : p.run = r => o.key =< p.key
        queued == {r \in {o.run : o \in offers} : Disposition(h, r, first(r).intent) = "queued"}
    IN  [h EXCEPT !.requested = [r \in Runs |-> IF r \in queued THEN first(r).intent ELSE @[r]],
                  !.deferred = @ \ queued,
                  !.retry = @ \ queued,
                  !.woke = @ \/ \E o \in offers : Signals(h, o.run, o.intent)]

Offer(r, i) == [key |-> 0, run |-> r, intent |-> i]

\* Does the journal still match the intent?
Fits(r, i) == run[r].status \in i.allowed /\ i.base \in {Unbound, run[r].seq}

LiveOwner(r) == run[r].owner # "nobody" /\ run[r].live
Ready(h, r) == r \notin h.retry /\ ~ LiveOwner(r)

\* _classify_resume_intent
Credited(c) == \E a \in begun : a.run = cmd[c].run /\ a.at = cmd[c].base /\ a.cause = ResumeCause(c)
Launchable(c) == cmd[c].state # "absent" /\ Fits(cmd[c].run, ResumeIntent(c))

-----------------------------------------------------------------------------
(* One tick of the pump *)

\* The bound of the cut, captured when a scan starts.
Through(position, keys) ==
    IF position.through # 0 THEN position.through ELSE IF keys = {} THEN 0 ELSE Max(keys)

Rows(position, keys) == {k \in keys : position.after < k /\ k =< Through(position, keys)}

\* The first scanRows rows of the cut, in key order.
Batch(position, keys) ==
    {k \in Rows(position, keys) : Cardinality({j \in Rows(position, keys) : j < k}) < world.scanRows}

\* Mutant: every tick scans from the start.
AdvancedNever(position, keys) == NoCut

\* The scan starts over at its end and otherwise goes on in the next tick.
Advanced(position, keys) ==
    LET batch == Batch(position, keys)
    IN  IF Cardinality(batch) < world.scanRows \/ Max(batch) = Through(position, keys)
        THEN NoCut
        ELSE [through |-> Through(position, keys), after |-> Max(batch)]

StoredCommands == {c \in Commands : cmd[c].state # "absent"}
ParkedRuns == {r \in Runs : run[r].status = "PARKED"}

\* _scan_committed_resumes and _scan_answered_waits
ResumeOffers ==
    {[key |-> c, run |-> cmd[c].run, intent |-> ResumeIntent(c)] :
        c \in {d \in Batch(cut.resumes, StoredCommands) : cmd[d].state = "committed" /\ Launchable(d)}}
WaitOffers ==
    {Offer(r, ReplyIntent(run[r].seq)) :
        r \in {q \in Batch(cut.waits, ParkedRuns) : <<q, run[q].seq>> \in replied}}

\* _start, for the runs of two disjoint sets.
Started(h, explicit, recovered) ==
    LET slot(r) == CHOOSE s \in Slots : h.worker[<<r, s>>].pc = "idle"
        ended == {w \in Workers : h.worker[w].pc = "done"}
        intent(r) == IF r \in explicit THEN h.requested[r]
                     ELSE Intent(run[r].seq, Recoverable, NoCause)
    IN  [h EXCEPT !.worker = [w \in Workers |->
                     IF w[1] \in explicit \cup recovered /\ w[2] = slot(w[1])
                     THEN [intent |-> intent(w[1]), pc |-> "created", result |-> "none", behind |-> ended]
                     ELSE @[w]],
                  !.tasks = [r \in Runs |-> IF r \in explicit \cup recovered THEN slot(r) ELSE @[r]],
                  !.requested = [r \in Runs |-> IF r \in explicit THEN NoIntent ELSE @[r]],
                  !.explicit = [r \in Runs |-> IF r \in explicit THEN h.requested[r] ELSE @[r]],
                  !.retry = @ \ (explicit \cup recovered)]

\* Those of S that the capacity suffices for, in key order.
Within(S, capacity) == {r \in S : Cardinality({q \in S : q < r}) < capacity}

Recovers(h, r) ==
    /\ run[r].status \in Recoverable
    /\ h.tasks[r] = NoSlot /\ h.requested[r] = NoIntent /\ r \notin h.deferred
    /\ Ready(h, r)

\* _fill_capacity: requested intents in order until the capacity is used up, then
\* recoverable runs.  Intents the journal has moved past are dropped on the way.
FillCapacity(h) ==
    LET capacity == world.maxConcurrency - Cardinality({r \in Runs : h.tasks[r] # NoSlot})
        asked == {r \in Runs : h.requested[r] # NoIntent}
        startable == {r \in asked : Fits(r, h.requested[r]) /\ Ready(h, r)}
        stale == {r \in asked : /\ ~ Fits(r, h.requested[r])
                                /\ Cardinality({q \in startable : q < r}) < capacity}
        explicit == Within(startable, capacity)
        pruned == [h EXCEPT !.requested = [r \in Runs |-> IF r \in stale THEN NoIntent ELSE @[r]],
                            !.retry = @ \ stale]
        recovered == Within({r \in Runs : Recovers(pruned, r)}, capacity - Cardinality(explicit))
    IN  Started(pruned, explicit, recovered)

CutsAdvance ==
    cut' = [resumes |-> Advanced(cut.resumes, StoredCommands), waits |-> Advanced(cut.waits, ParkedRuns)]

\* The loop is first in, first out: the tasks a tick created take their first step before
\* the pump's next tick, unless the pump never suspended.
PumpTurn ==
    /\ pump = "on" /\ life \in {"starting", "open"}
    /\ \/ loop = "pump"
       \/ loop = "free" /\ \A w \in Workers : host.worker[w].pc # "created"

\* One round of the pump; the first completes startup.  When a launch of the round itself set the wake event,
\* _wait_for_work returns without suspending and the pump keeps the loop.
PumpTick ==
    /\ PumpTurn
    /\ life' = "open" /\ UNCHANGED <<durable, pump, faults>>
    /\ \E resumed \in {Launched(host, ResumeOffers)} :
       \E woken \in {Launched(resumed, WaitOffers)} :
       \E filled \in {FillCapacity(woken)} :
          /\ host' = [filled EXCEPT !.woke = FALSE]
          /\ loop' = IF filled.woke THEN "pump" ELSE "free"
    /\ CutsAdvance

Fault(kind) == kind \in world.faults /\ faults < world.maxFaults /\ faults' = faults + 1

\* A failed journal read ends the pump; what the scans queued and passed is kept.
\* During startup the control plane answers it with abort_startup.
PumpFails ==
    /\ PumpTurn /\ Fault("pump")
    /\ pump' = "off" /\ loop' = "free"
    /\ \/ life = "open" /\ UNCHANGED <<host, cut>>
       \/ /\ life = "open" /\ CutsAdvance
          /\ host' = [Launched(Launched(host, ResumeOffers), WaitOffers) EXCEPT !.woke = FALSE]
       \/ life = "starting" /\ host' = EmptyHost /\ cut' = [resumes |-> NoCut, waits |-> NoCut]
    /\ UNCHANGED <<durable, life>>

\* recover, or startup after its abort.
Recover ==
    /\ loop = "free" /\ life \in {"starting", "open"} /\ pump = "off"
    /\ pump' = "on"
    /\ UNCHANGED <<durable, host, cut, loop, life, faults>>

-----------------------------------------------------------------------------
(* Callers of launch *)

\* A call of launch by another coroutine of this process; every accepted or
\* repeated intent revives the pump.
Launch(r, i) ==
    /\ loop = "free" /\ life = "open"
    /\ host' = [Launched(host, {Offer(r, i)}) EXCEPT !.woke = FALSE]
    /\ pump' = IF Signals(host, r, i) THEN "on" ELSE pump
    /\ UNCHANGED <<cut, loop, life, faults>>

\* _launch_new_run: a start or reproduce command, or its replay.
LaunchNew(r) ==
    /\ r \in world.submitted
    /\ run[r].status \in Recoverable
    /\ Launch(r, Intent(run[r].seq, Recoverable, NoCause))
    /\ UNCHANGED durable

\* launch with its defaults.
LaunchUnbound(r) ==
    /\ r \in world.bareLaunched
    /\ Launch(r, Intent(Unbound, Resumable, NoCause))
    /\ UNCHANGED durable

\* channels_reply and runs_approve: the reply is durable before the launch, and
\* a replay of the command repeats the launch at the fence its plan recorded.
DeliverReply(r, seq) ==
    /\ <<r, seq>> \in replied
    /\ Launch(r, ReplyIntent(seq))
    /\ UNCHANGED durable

\* runs_resume: the plan freezes the fence.  Any process may have written it.
PlanResume(c, r) ==
    /\ r \in world.resumed /\ c =< world.commands
    /\ cmd[c].state = "absent" /\ \A d \in Commands : d < c => cmd[d].state # "absent"
    /\ run[r].status \in Resumable /\ ~ (run[r].status = "RUNNING" /\ run[r].live)
    /\ cmd' = [cmd EXCEPT ![c] = [state |-> "prepared", run |-> r, base |-> run[r].seq]]
    /\ UNCHANGED <<run, replied, begun, host, cut, loop, pump, life, faults>>

Complete(c, state) == cmd' = [cmd EXCEPT ![c].state = state]

RefusesResume(h, r, i) == Disposition(h, r, i) = "superseded"

\* runs_resume after its plan, first time or replayed: classify, launch, complete.
\* The launch stands when the completion then fails.
DriveResume(c) ==
    LET r == cmd[c].run
        i == ResumeIntent(c)
    IN  /\ cmd[c].state = "prepared" /\ loop = "free" /\ life = "open"
        /\ \/ /\ Credited(c) /\ Complete(c, "committed")
              /\ UNCHANGED <<host, cut, loop, pump, life, faults>>
           \/ /\ ~ Credited(c) /\ ~ Launchable(c) /\ Complete(c, "rejected")
              /\ UNCHANGED <<host, cut, loop, pump, life, faults>>
           \/ /\ ~ Credited(c) /\ Launchable(c)
              /\ Launch(r, i)
              /\ \/ RefusesResume(host, r, i) /\ Complete(c, "rejected")
                 \/ ~ RefusesResume(host, r, i) /\ Complete(c, "committed")
                 \/ "completion" \in world.faults /\ UNCHANGED cmd
        /\ UNCHANGED <<run, replied, begun>>

\* A replay of a committed command repeats its launch while it is launchable.
ReplayResume(c) ==
    /\ cmd[c].state = "committed" /\ Launchable(c)
    /\ Launch(cmd[c].run, ResumeIntent(c))
    /\ UNCHANGED durable

-----------------------------------------------------------------------------
(* Worker tasks *)

\* The exception clauses of _run, in the step in which the task finishes.
Settled(h, w, result) ==
    LET r == w[1]
        ended == [h EXCEPT !.worker[w].pc = "done", !.worker[w].result = result,
                           !.worker[w].behind = {}]
        requeues == /\ h.explicit[r] # NoIntent /\ life \in {"starting", "open"}
                    /\ h.requested[r] = NoIntent \/ Supersedes(h.explicit[r], h.requested[r])
    IN  CASE result = "lost"   -> [ended EXCEPT !.retry = @ \cup {r},
                                                !.requested[r] = IF requeues THEN h.explicit[r] ELSE @]
          [] result = "failed" -> [ended EXCEPT !.deferred = @ \cup {r}]
          [] OTHER             -> ended

Running(w, pc) == loop = "free" /\ host.worker[w].pc = pc
Owns(w) == run[w[1]].owner = w[2]
Unwind(w, result) ==
    host' = [host EXCEPT !.worker[w].pc = "unwinding", !.worker[w].result = result]

\* Likewise, a task's first step comes after the callbacks of the tasks that had ended
\* when it was created.
FirstStep(w) ==
    /\ Running(w, "created")
    /\ \A v \in host.worker[w].behind : host.worker[v].pc # "done"

\* Registry.activate runs before the claim, so its failure writes no event.
ActivationFails(w) ==
    /\ FirstStep(w) /\ Fault("activation")
    /\ host' = Settled(host, w, "failed")
    /\ UNCHANGED <<durable, cut, loop, pump, life>>

\* Mutant: the claim does not forward the fence.
ClaimUnfenced(r, i) == run[r].status \in Resumable

\* claim_run checks the fence again, in the transaction that takes the lease.
ClaimAdmits(r, i) == Fits(r, i)

Claim(w) ==
    LET r == w[1]
        i == host.worker[w].intent
    IN  /\ FirstStep(w)
        /\ \/ /\ ~ ClaimAdmits(r, i)
              /\ host' = Settled(host, w, "superseded")
              /\ UNCHANGED <<run, loop>>
           \/ /\ ClaimAdmits(r, i) /\ LiveOwner(r)
              /\ host' = Settled(host, w, "lost")
              /\ UNCHANGED <<run, loop>>
           \/ /\ ClaimAdmits(r, i) /\ ~ LiveOwner(r)
              /\ run' = [run EXCEPT ![r].owner = w[2], ![r].live = TRUE]
              /\ host' = [host EXCEPT !.worker[w].pc = "claimed", !.worker[w].behind = {}]
              /\ loop' = "worker"                      \* no await before the attempt's first event
        /\ UNCHANGED <<replied, cmd, begun, cut, pump, life, faults>>

Begin(w) ==
    LET r == w[1]
        i == host.worker[w].intent
    IN  /\ loop = "worker" /\ host.worker[w].pc = "claimed"
        /\ loop' = "free"
        /\ IF Owns(w)
           THEN /\ run' = [run EXCEPT ![r].seq = @ + 1, ![r].status = "RUNNING"]
                /\ begun' = begun \cup {[run |-> r, at |-> run[r].seq, from |-> run[r].status,
                                         cause |-> i.cause, unbound |-> i.base = Unbound]}
                /\ host' = [host EXCEPT !.worker[w].pc = "running"]
           ELSE Unwind(w, "lost") /\ UNCHANGED <<run, begun>>
        /\ UNCHANGED <<replied, cmd, cut, pump, life, faults>>

\* An attempt needs two events; leave room for one more attempt.
Room(r) == run[r].seq + 3 =< world.maxSeq

\* Any other event of the attempt.
Progress(w) ==
    /\ Running(w, "running") /\ Owns(w) /\ "progress" \in world.faults /\ Room(w[1])
    /\ run' = [run EXCEPT ![w[1]].seq = @ + 1]
    /\ UNCHANGED <<replied, cmd, begun, host, cut, loop, pump, life, faults>>

\* The terminal transition keeps the lease.  A reply may be older than the park.
End(w, status) ==
    LET r == w[1]
    IN  /\ Running(w, "running") /\ Owns(w)
        /\ status # "SUCCEEDED" => Room(r)
        /\ run' = [run EXCEPT ![r].seq = @ + 1, ![r].status = status]
        /\ \/ UNCHANGED replied
           \/ /\ status = "PARKED" /\ r \in world.answerable
             /\ replied' = replied \cup {<<r, run[r].seq + 1>>}
        /\ Unwind(w, "ok")
        /\ UNCHANGED <<cmd, begun, cut, loop, pump, life, faults>>

\* A fenced write or a heartbeat finds a newer owner.
Lose(w) ==
    /\ Running(w, "running") /\ ~ Owns(w)
    /\ Unwind(w, "lost")
    /\ UNCHANGED <<durable, cut, loop, pump, life, faults>>

\* An error that is no run outcome: the walker's own, or of its cleanup.
Raise(w) ==
    /\ loop = "free" /\ host.worker[w].pc \in {"running", "unwinding"}
    /\ host.worker[w].result \in {"none", "ok"}
    /\ Fault("raise") /\ Room(w[1])
    /\ Unwind(w, "failed")
    /\ UNCHANGED <<durable, cut, loop, pump, life>>

\* A BaseException leaves the lease as a crash would.
HardDeath(w) ==
    /\ Running(w, "running") /\ Fault("death") /\ Room(w[1])
    /\ host' = [host EXCEPT !.worker[w].pc = "done", !.worker[w].result = "dead"]
    /\ run' = IF Owns(w) THEN [run EXCEPT ![w[1]].owner = "gone"] ELSE run
    /\ UNCHANGED <<replied, cmd, begun, cut, loop, pump, life>>

Released(w) ==
    IF Owns(w) THEN [run EXCEPT ![w[1]].owner = "nobody", ![w[1]].live = FALSE] ELSE run

\* _finish_run releases the lease.  A heartbeat may or may not have seen a loss.
Return(w) ==
    /\ Running(w, "unwinding")
    /\ run' = Released(w)
    /\ \E result \in {host.worker[w].result} \cup (IF Owns(w) THEN {} ELSE {"lost"}) :
          host' = Settled(host, w, result)
    /\ UNCHANGED <<replied, cmd, begun, cut, loop, pump, life, faults>>

\* Mutant: any worker's callback retires the run.
RetiresAny(w) == TRUE

\* The done callback retires the run only for the worker still recorded.
Retires(w) == host.tasks[w[1]] = w[2]

Finished(w) ==
    LET r == w[1]
    IN  /\ Running(w, "done")
        /\ host' = [host EXCEPT !.worker[w] = IdleWorker,
                                !.tasks[r] = IF Retires(w) THEN NoSlot ELSE @,
                                !.explicit[r] = IF Retires(w) THEN NoIntent ELSE @,
                                !.deferred = IF host.worker[w].result = "dead" THEN @ \cup {r} ELSE @]
        /\ UNCHANGED <<durable, cut, loop, pump, life, faults>>

-----------------------------------------------------------------------------
(* The end of a host, and the next one *)

Tracked == {w \in Workers : host.tasks[w[1]] = w[2]}

\* shutdown cancels the pump and the workers it tracks; a task that never ran ends
\* at once.
Shutdown ==
    /\ loop = "free" /\ life = "open" /\ Fault("shutdown")
    /\ \A r \in Runs : run[r].owner \in Slots => Room(r)
    /\ life' = "closing" /\ pump' = "off"
    /\ host' = [host EXCEPT !.worker = [w \in Workers |->
                   IF w \notin Tracked \/ host.worker[w].pc = "done" THEN host.worker[w]
                   ELSE [host.worker[w] EXCEPT
                            !.pc = IF @ = "created" THEN "done" ELSE "unwinding",
                            !.result = "cancelled", !.behind = {}]]]
    /\ UNCHANGED <<durable, cut, loop>>

\* gather has seen every tracked worker end; the tables are cleared.
ShutdownEnds ==
    /\ loop = "free" /\ life = "closing" /\ Tracked = {}
    /\ life' = "closed"
    /\ host' = [EmptyHost EXCEPT !.worker = host.worker]
    /\ cut' = [resumes |-> NoCut, waits |-> NoCut]
    /\ UNCHANGED <<durable, loop, pump, faults>>

\* The process dies and is started again; its leases outlive it.
Crash ==
    /\ Fault("crash") /\ \A r \in Runs : run[r].owner \in Slots => Room(r)
    /\ run' = [r \in Runs |-> IF run[r].owner \in Slots THEN [run[r] EXCEPT !.owner = "gone"]
                              ELSE run[r]]
    /\ host' = EmptyHost /\ cut' = [resumes |-> NoCut, waits |-> NoCut]
    /\ loop' = "free" /\ pump' = "on" /\ life' = "starting"
    /\ UNCHANGED <<replied, cmd, begun>>

-----------------------------------------------------------------------------
(* The clock, other processes, people *)

RetryDue(r) ==
    /\ r \in host.retry
    /\ host' = [host EXCEPT !.retry = @ \ {r}]
    /\ UNCHANGED <<durable, cut, loop, pump, life, faults>>

\* An owner that is gone, or whose heartbeat cannot run, lets its lease expire.
LeaseLapses(r) ==
    /\ LiveOwner(r)
    /\ run[r].owner = "gone" \/ (loop = "pump" /\ run[r].owner \in Slots)
    /\ run' = [run EXCEPT ![r].live = FALSE]
    /\ UNCHANGED <<replied, cmd, begun, host, cut, loop, pump, life, faults>>

\* An owner stalls past its lease.
Stall(r) ==
    /\ LiveOwner(r) /\ run[r].owner # "gone" /\ Room(r) /\ Fault("stall")
    /\ run' = [run EXCEPT ![r].live = FALSE]
    /\ UNCHANGED <<replied, cmd, begun, host, cut, loop, pump, life>>

\* Another process owns the run for one attempt of its own.
RivalClaims(r) ==
    /\ run[r].status \in Resumable /\ ~ LiveOwner(r) /\ Room(r) /\ Fault("rival")
    /\ run' = [run EXCEPT ![r].owner = "rival", ![r].live = TRUE]
    /\ UNCHANGED <<replied, cmd, begun, host, cut, loop, pump, life>>

RivalBegins(r) ==
    /\ run[r].owner = "rival"
    /\ run' = [run EXCEPT ![r].owner = "rival begun", ![r].seq = @ + 1, ![r].status = "RUNNING"]
    /\ UNCHANGED <<replied, cmd, begun, host, cut, loop, pump, life, faults>>

RivalEnds(r, status) ==
    /\ run[r].owner = "rival begun"
    /\ status # "SUCCEEDED" => Room(r)
    /\ run' = [run EXCEPT ![r].seq = @ + 1, ![r].status = status,
                          ![r].owner = "nobody", ![r].live = FALSE]
    /\ UNCHANGED <<replied, cmd, begun, host, cut, loop, pump, life, faults>>

\* A reply is stored, by this process or another.
Reply(r) ==
    /\ r \in world.answerable
    /\ run[r].status = "PARKED" /\ <<r, run[r].seq>> \notin replied
    /\ replied' = replied \cup {<<r, run[r].seq>>}
    /\ UNCHANGED <<run, cmd, begun, host, cut, loop, pump, life, faults>>

-----------------------------------------------------------------------------
WorkerStep(w) ==
    \/ Claim(w) \/ Begin(w) \/ Lose(w) \/ Return(w) \/ Finished(w)
    \/ \E status \in {"SUCCEEDED", "FAILED", "PARKED"} : End(w, status)
WorkerFault(w) == ActivationFails(w) \/ Progress(w) \/ Raise(w) \/ HardDeath(w)
RivalStep(r) ==
    RivalBegins(r) \/ \E status \in {"SUCCEEDED", "FAILED", "PARKED"} : RivalEnds(r, status)

Step ==
    \/ PumpTick \/ PumpFails \/ Recover \/ Shutdown \/ ShutdownEnds \/ Crash
    \/ \E w \in Workers : WorkerStep(w) \/ WorkerFault(w)
    \/ \E c \in Commands : DriveResume(c) \/ ReplayResume(c) \/ \E r \in Runs : PlanResume(c, r)
    \/ \E r \in Runs : \/ LaunchNew(r) \/ LaunchUnbound(r) \/ Reply(r)
                       \/ RetryDue(r) \/ LeaseLapses(r) \/ Stall(r)
                       \/ RivalClaims(r) \/ RivalStep(r)
    \/ \E answer \in replied : DeliverReply(answer[1], answer[2])

Next == Step /\ UNCHANGED world

Spec == Init /\ [][Next]_vars

\* When the pump suspends, asyncio runs the ready tasks before the pump's timer is due,
\* however often the pump takes the loop again: strong fairness.  Timers fire, time
\* passes and attempts end; people and failures are not fair.
Fairness ==
    /\ WF_vars(world.lasts /\ PumpTick /\ UNCHANGED world)
    /\ SF_vars(world.lasts /\ (\E w \in Workers : WorkerStep(w)) /\ UNCHANGED world)
    /\ WF_vars(world.lasts /\ (\E r \in Runs : RetryDue(r) \/ LeaseLapses(r) \/ RivalStep(r)) /\ UNCHANGED world)

FairSpec == Spec /\ Fairness

-----------------------------------------------------------------------------
(* Properties *)

\* Every attempt this host began, began at the fence of the fact that caused it: a
\* resume command at the event sequence its plan froze, a reply at the very park
\* it answers; and nothing but a command, a reply or an unbound launch revives a
\* FAILED or PARKED run.  (claim_run's fence against launch, scans and recovery.)
AttemptsAreFenced ==
    \A a \in begun :
        /\ \A c \in Commands :
              a.cause = ResumeCause(c) => cmd[c].run = a.run /\ cmd[c].base = a.at
        /\ \A n \in 0 .. world.maxSeq :
              a.cause = ReplyCause(n) => n = a.at /\ <<a.run, n>> \in replied /\ a.from = "PARKED"
        /\ a.from \in {"FAILED", "PARKED"} => a.cause # NoCause \/ a.unbound

Held(h, r) == {h.requested[r], h.explicit[r]} \ {NoIntent}
Reported(h, r, i) ==
    \E s \in Slots : /\ h.worker[<<r, s>>].intent = i
                     /\ h.worker[<<r, s>>].pc = "done" /\ h.worker[<<r, s>>].result # "lost"

\* A live host lets go of an explicit, event-fenced intent only for one that supersedes it, or
\* because the journal has moved past it, or after its own worker came to a result:
\* losing the claim to another owner, or the late callback of an older worker of
\* the same run, does not drop it.
IntentKept ==
    [][life' = "open" /\ ~ Crash =>
          \A r \in Runs : \A i \in Held(host, r) :
              \/ i.base = Unbound
              \/ \E j \in Held(host', r) : j = i \/ Supersedes(j, i)
              \/ ~ (Fits(r, i)')
              \/ Reported(host, r, i)]_vars

Answered(r) == run[r].status = "PARKED" /\ <<r, run[r].seq>> \in replied

\* A run whose request carries a reply leaves that park.
AnsweredWaitWakes == \A r \in Runs : Answered(r) ~> ~ Answered(r)

\* Capacity to spare, one kind of cause for each run, and none of the failures that wait for
\* somebody to call the host again.
Undisturbed ==
    /\ world.lasts /\ LastRun < world.maxConcurrency /\ world.answerable \cap world.resumed = {}
    /\ world.faults \subseteq {"rival", "crash", "stall", "completion"}

\* Then every durable cause of an attempt is served: a stored reply wakes its run, whoever stored
\* it and wherever the scan's cut stands, and a committed resume command is credited or
\* superseded, although owners stall, claims are lost and processes die in between.
CausesAreServed ==
    /\ \A r \in Runs : (Undisturbed /\ Answered(r)) ~> ~ Answered(r)
    /\ \A c \in Commands : (Undisturbed /\ cmd[c].state = "committed" /\ Launchable(c)) ~> ~ Launchable(c)
=============================================================================
