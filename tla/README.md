# Constructicon in TLA+

A verification project for Constructicon: TLA+ models of the parts that carry
its durability, recovery and custody logic, TLC configurations that check them
on small instances, and TLAPS proofs about the run lifecycle. Source paths
below are relative to `src/constructicon/`.

## 1. The system and its components

Constructicon executes sealed graphs of agent and tool invocations. Everything
durable is in one SQLite store (the *journal*); every journal call is one
`BEGIN IMMEDIATE` transaction. Several processes may share the store.

| Component | State | Operations | Hard behaviour |
|---|---|---|---|
| **Admission** (`runtime/validator.py`) | none: a compiler from an authored graph to a sealed manifest | resolve, bind, splice, order, seal | what it seals is computed apart from the walk that reads it |
| **Walker** (`runtime/walker.py`) | one attempt: owner epoch, current unit, acquired capabilities, values, loop history | claim, reconcile stale leases, scan units, acquire, invoke, checkpoint, close, conclude, release; heartbeat beside it | zombies after an expired lease; cleanup of siblings with awaits between; a loop cut anywhere by a crash; lost answers of committed transactions |
| **Journal, execution facts** (`substrate/journal/_sqlite_execution.py`) | `runs` row (status, owner, epoch, lease, event sequence, cancel flag), checkpoints, capability-lease rows, effects | claim, heartbeat, release, transitions, completions, lease and effect rows | the epoch fence and the event-sequence fence must be re-checked inside each transaction |
| **Journal, sealed facts and migrations** (`_sqlite_schema.py`, `_sqlite_fact_seals.py` and the readers of every table) | rows, independent seals, fences, witnesses of history; schema 0 to 11 | open and climb, write, prove, look up | two openers racing on an old store; damage told from history |
| **Git authority** (`substrate/git/authority.py`) | protected ref, marker refs, candidate refs, staging directories | acquire/close/reconcile a workspace, import a candidate, `install`, `reconcile_install` | two refs moved by a process that outlives its caller; re-reading after an ambiguous failure |
| **Effect boundary** (`Walker._effect_boundary`, `substrate/effects/git.py`, `core/effect.py`) | a receipt per idempotency key | look up, prepare, reconcile, execute, record | exactly-once over crashes, zombies and reproduced runs that share a key |
| **Run host** (`api/run_host.py`) | queued intents, worker tasks, deferrals, claim retries, two scan cuts | `startup`, `recover`, `launch`, `shutdown`, the pump, worker callbacks | one event loop; scans, callers and worker callbacks interleave; capacity |
| **Command executor and ledger** (`api/_control_commands.py`, `_sqlite_control.py`, `_sqlite_commands.py`) | commands: claimed, planned, terminal | begin, plan, domain mutation, complete, replay | a half-done command; two processes driving one command; a paused driver |
| **Registry** (`runtime/registry.py`, `_sqlite_registry.py`) | component versions, the stable pointer, promotions | register, bootstrap, promote, roll back | compare-and-swap of the stable pointer |
| **Channels, human exchanges, approvals** (`core/channel.py`, `core/human.py`, `substrate/channels/`, `_sqlite_channels.py`) | append-only messages, acknowledgements, replies, approvals, inbox cursors | ask, reply, acknowledge, approve, page | reply racing the park; a second reply; damage under a reader |
| **Operator store** (`substrate/executors/operator_store.py`, `attempt_record.py`) | bundle, retained lock, numbered descriptors, selection; attempt record | provision, publish, maintain, activate, acquire, record | a lock inherited by processes that outlive their controller |
| **Executors** (`codex*.py`, `claude*.py`, `pi*.py`, `linux.py`, `_supervisor.py`, `egress.py`) | a contained client, a conversation, an egress relay | launch, converse, run tool calls, drain, judge, kill, reap | records out of order, repeated, torn or late; a worker that changed its workspace before the exchange failed |
| **Contained workspaces** (`substrate/git/acquisition.py`, `contained.py`, `capture.py`, `pack.py`) | guard, payload, closure ref, candidate | materialize, reset, capture, publish, revoke, dispose | a publication behind the closure; disposal under a living process |
| Panels, SDK, MCP adapter, qualification entries, M9 trial, fakes | none, or data only | aggregate, project, adapt | pure, or assembled from the other parts |

Interaction: the control plane writes commands and calls `RunHost.launch`; the
host's pump also derives launches from the journal; a host worker calls the
walker, which claims the run under the launch's fence and walks the admitted
graph; an invocation uses leased git workspaces, talks to a native client under
the custody of an operator store, may ask a person through a channel, and ends
in an effect that passes through the boundary to the git authority. A reply or
approval is a durable fact that the pump finds. `PROJECT.json` lists each
component with its modelling status, and the hazards at their source lines.

What makes each part correct, in a sentence: a run has one writer at a time and
no attempt loses or leaks what a checkpoint names (walker, journal, workspace);
what admission seals can be walked and taken up again (graph); an effect
happens at most once and its receipt is true (boundary); a run is started only
by, and always after, the durable fact that asks for it (host); a command has
one terminal answer that agrees with what was done (command law); a person sees
exactly what was sent and an answered ask returns (channels); a store is opened
iff it is whole (journal); a client runs only on a qualified store, its success
is earned record by record, and its custody ends when, and only when, nothing
of it runs (executors).

## 2. Modules

| Module | Models | Run through |
|---|---|---|
| `RunLifecycle` | walker attempts, journal execution facts, git workspaces | `MCRunLifecycle` |
| `EffectLaw`, `MergeEffect` | the promise of any effect adapter; the boundary, `merge_verified`, `GitAuthority.install` (refinement) | `MCMergeEffect` |
| `RunHost` | the run host, its callers, and the journal rows it reads | `MCRunHost` |
| `CommandLaw`, `ControlCommands` | the promise of the command ledger; every mutating operation of the control plane (refinement) | `MCControlCommands` |
| `Channels` | asks, replies, acknowledgements, inbox sessions, seals | `MCChannels` |
| `JournalFacts`, `JournalStore` | what readers prove of rows and seals; openers, migrations, writers, damage | `MCJournalStore` |
| `GraphAdmission`, `GraphRun` | the compiler; the walk with loops, checkpoints and resumption | `MCGraphRun` |
| `OperatorStore`, `OperatorHandle` | the store's metadata and helpers; acquisitions, supervisors, recovery | `MCOperatorHandle` |
| `EgressRelay`, `CodexConversation` | the relay; one turn with the Codex client inside it | `MCCodexConversation` |
| `ClaudeStream`, `ClaudeRead`, `ClaudeMaintenance`, `ClaudeHandle` | the client's pipe; a task; maintenance sessions; the provider and its handle | `MCClaudeHandle` |
| `ContainedWorkspace`, `PiDecoder`, `PiRead` | acquisitions and their closure; the decoder; a scripted READ task or a WRITE workspace with disposal and recovery | `MCPiRead` |
| `RunLifecycleProofs`, `MergeEffectProofs`, `RunHostProofs`, `ControlCommandsProofs`, `OperatorHandleProofs`, `ClaudeHandleProofs`, `ChannelsProofs`, `PiReadProofs` | theorems about the module each is named after (section 4); `OperatorHandleProofs` also has the relay's | |

A module that extends another composes the two: `OperatorHandle` acts on the
store of `OperatorStore`, `CodexConversation` runs inside `EgressRelay`,
`ClaudeHandle` around `ClaudeRead`, `PiRead` on `ContainedWorkspace`, `GraphRun`
walks what `GraphAdmission` sealed, `JournalStore` writes what `JournalFacts`
judges.

Many modules have a variable `world` that never changes: which commands,
failures, histories, graphs or clients a behaviour is about. The MC module
lists the worlds of the instance, so one run covers several situations without
multiplying them with each other. Definitions whose comment begins with
"Mutant:" or "Variant:" are deliberately wrong forms of the definition below
them; they show that a property depends on the code's actual choice
(`PROJECT.json`, "mutants"). No specification uses them.

### RunLifecycle

One run. A worker is one call of `Walker._drive`; `pc[w]` is where it stands,
`held[w]` its owner epoch. The journal's variables are `status`, `owner`,
`epoch`, `expired`, `cancel`, the capability rows (`active`, `released`,
`discarded`), `ckpt` and `writer` (the epoch that wrote the last event); git's
are `staging` and `candidates`. Each journal transaction and each git operation
is one action, because another worker can act between any two of them. Time is
one bit, `expired`; it may become true whenever a lease is held, which is the
worker stalling longer than its TTL. After that the old worker is a zombie: it
goes on until a fenced write or a heartbeat refuses it, exactly as in
`_allocate_seq`.

Failures are in the model where the code handles them: crash (`Crash`),
cancellation of the task (`AsyncCancel`) and of the run (`RequestCancel`), and,
switched by `Faults` for runs of each capability mode, a lost answer of `record_capability_lease` or
`record_completion` and a failing physical close. Units are executed in order
with `DependsOn` deciding what is blocked; payloads, ports and loops are
`GraphRun`'s.

### MergeEffect and EffectLaw

An attempt is one call of the boundary for its run's effect. The steps are the
code's: look up the receipt, prepare the request (the first request stored
under a key wins), verify the proof, reconcile against marker and target,
check run control, start the ref transaction, interpret its result, record the
receipt. The `git update-ref` process is separate: it locks two refs, renames
the target and then the marker, and survives the death of the worker that
started it; that the git process itself is killed between the two is not
modelled. That part is external and modelled from how `install` uses it.
Commits are members of a small set with an ancestor relation; proofs are valid
or not, and a valid one was minted by a gate that took the base of the merge off
the target (`ProofMinted`). An attempt that raises under its fence leaves its
run FAILED (`failed`), and only an operator's resume claims it again.

`EffectLaw` is the promise per key: the transition happens at most once, a
`committed` receipt only after it happened, and nothing happens after a
`rejected` or `simulated` receipt. A `rejected` one says that the outside is
not in the state the effect leaves: it never happened, or other transitions
came on top of it. `ImplementsEffectLaw` maps `happened` to the keys that were
installed, `latest` to those whose merge is the tip and `verdict` to the status
of the receipt; it covers merges prepared on each other's merge commits, and
asks nothing where an operator forces the ref (`Governed`).

### RunHost

The host lives on one asyncio loop, so everything between two suspensions is
one step: a whole pump round, a `launch`, a worker up to its next await. `loop`
says who has not suspended: after a round in which the pump's own scan set the
wake event, `_wait_for_work` returns at once and the pump keeps the loop.
Intents carry the fence, the allowed statuses and the cause; `Supersedes`,
`Disposition` and `Signals` are `_supersedes` and the branches of `launch`.
The two scans have persistent cuts over key order (`Through`, `Rows`, `Batch`,
`Advanced`); `scanRows` is page size times pages per tick. A worker task has a
slot of its run, because a superseding worker can run beside the unwinding one;
`FirstStep` states asyncio's FIFO order between callbacks and new tasks. The
walker inside a worker is abstracted to claim, begin, progress, end, lose,
release (its detail is `RunLifecycle`). Other processes are rivals that own a
run for one attempt of their own. Commands are abstracted to their state and
the fence of their plan (their detail is `ControlCommands`).

### ControlCommands and CommandLaw

Two control processes over one ledger. A process is sequential: it claims a
command (or replays a terminal one), decides and stores the plan, applies the
plan's one domain mutation, stores the answer, each a transaction with the
reads that decide it. A command's lease may expire while its driver is paused
or dead; another process then claims it under the next epoch with the stored
plan. A promotion is four transactions: its receipt is looked for, the stable
version is read, the swap is made, and after a refusal the receipt is looked
for again. `Draft` has the plan of each operation, `OwnedFact` what
`_domain_fact_owned_by` looks at before a rejection is stored, `ReplayValid`
what a replay demands of the store (a failure is `JournalDamaged`, kept in
`damaged`). For `runs_resume` the process's own host queue (`hosted`), the scan
and the beginning of the attempt are in the model, so that two hosts can hold
one command. Acknowledging people are one actor; texts, scopes and digests are
left out. `CommandLaw` is the promise: one answer, heard alike by everybody;
`committed` means the mutation is in the store (a resume may still begin
later), anything else that it is not there and never will be. Of an evaluated
promotion or a rollback that *lost* the law promises no such thing
(`Contested`), because the code does not keep it (section 3, disagreements);
refusals of their own, and initial promotions, are under the full law.

### Channels

An ask runs through attestation, append, send receipt, check for a reply and
park; people reply and acknowledge; a reader pages an inbox under the cut of
its first page. Each row has an independent seal; *damage* removes or alters a
row or a seal between two steps, and every read goes through the anomaly checks
of `_sqlite_channels.py`. A worker may crash between any two steps and the next
attempt asks again under the same identity. The in-process transport is a world
of its own; its state dies with its process (`sdk/std.py:68-72`).

### JournalFacts and JournalStore

`JournalFacts` is the journal seen by its readers: a store is a set of rows
`<<table, key>>`, a set of seals, the set of rows whose bytes are no longer
those sealed (`altered`), rows in an older wire form (`old`) and the fences.
"Holds" operators are projections that return, "Answer" operators lookups by
identity. `JournalStore` adds the processes: openers that read the version,
take the write lock, climb one rung per transaction and prove the whole store,
and a writer that continues the story the store was in. A world names a story
(an order in which facts are written), the build that left a prefix of it, and
how much damage or how many crashes there are. Old histories are modelled from
how the migrations read them; an opener's refusal is final. The prechecks at
open run outside the snapshot, but everything they read is monotone.

### GraphAdmission and GraphRun

`GraphAdmission` compiles a graph as `validator.py` does, with recursive
operators that thread a compilation record: versions resolved under the
snapshot or a lock, inputs bound from the pool of earlier and outer sources,
splices flattened, loops with seeds, feedback, exports and their decision,
cycles found, units ordered. Faults are kinds. A type stands for its id and
schema hash; the cycle search is reachability; a binding is judged by
posture, availability, authorization and, for a channel, coherence, endpoint and
the canonical pair of contracts; model selection, effort and isolation
profiles are left out. `GraphRun` walks the result: ready
units, loops iteration by iteration, checkpoints restored instead of executed,
the durable loop matrix inspected when a run is taken up again. An
implementation may complete with any value, fail or park; a crash leaves what
is durable. Properties are in `MCGraphRun`, because the reference for an
input's value (`Truth`) is itself recursive.

### OperatorStore and OperatorHandle

The bundle's files are facts with identities (boot and object), the retained
lock is a set of copies of one open file description, helpers are root's
offline commands, each step of which may fail or be killed. A handle takes its
guard and the lock, checks the selection, records its intent, launches, is
granted or refused, sends, settles and releases; its supervisor inherits guard
and lock and lives until every child is reaped. To stop a payload the
supervisor asks the namespace's PID 1 (`asking`), which signals it and
acknowledges (`NamespaceTerms`); only after that the supervisor may use KILL
("No acknowledgement means no fallback KILL", `_supervisor.py:264-268`), and
until the last child is reaped guard and lock stay with it. Recovery closes an acquisition
and disposes of it when the guard is free. The lock file itself is never
replaced; a repeated check of the lock inside one step is folded into it.

### EgressRelay and CodexConversation

The relay judges a CONNECT head and the first ClientHello of each connection,
dials and pumps; control and deadline may be lost at any await. An admission
(`_admit`) and the send it allows are steps of their own, and a send is
several: `sock_sendall` writes the rest of its buffer from an I/O callback that
asks nothing again, so what the code promises, and `EgressIsMediated` states,
is that every chunk was admitted under control and in time and that after
either is lost a connection sends no more than the rest of that one chunk. A
chunk is the number of writes it takes, up to `ChunkWrites`. The
conversation issues requests, reads chunks that may end inside a record, gates
the turn on the account and spending before and after it, runs tool calls one
at a time, drains and judges. The client answers each request once and adds
what the world says, anywhere. Byte and record ceilings except the pending
queue, answer text and the bridge inside the sandbox are abstracted; a client
that exits inside a record is a damaged record.

### ClaudeStream, ClaudeRead, ClaudeMaintenance, ClaudeHandle

The pipe has three stages (on the wire, captured, framed), because the callback
barrier of `_mcp` sees more than the conversation. A task observes the mode
three times, registers the tool, sends one user message, runs the admitted
calls in a READ or WRITE worker, accepts one result, observes again and drains.
Maintenance sessions are an observation, a pair with a pause between, a
qualification and a login. The handle reserves the attempt, takes custody,
settles the durable record and releases; a crash leaves the record and the next
acquisition finds it. A crash of the host ends client and worker in the same
step; in the code the launcher's supervisor ends them a moment later, holding
the guard and lock it inherited. That interval, and what may not happen in it,
is modelled where the same launcher serves `OperatorHandle` (`ControllerCrash`
leaves the supervisor its copies). A qualification asks for its binding at
every check; the other sessions only for the deadline, and for the binding when
the exchange is over. Shape checks of single records are one value
("foreign"), the output ceiling is `world.room`, ids are unguessable, and
refusal codes are left out.

### ContainedWorkspace, PiDecoder, PiRead

An acquisition is a guard that children inherit, a payload directory and a
closure ref that is created once. Two parties dispose: the host that made it
and the owner that succeeds it; a Git transaction once started lands even if
its host has died. The decoder is the record-by-record state machine of
`pi_protocol.py` with damage and refusal that nothing undoes; `Coherent` is an
independent definition of a whole exchange over everything the client said.
The peer's writes and the host's reads are merged into one step; usage
accounting and byte ceilings are folded into damage; sealed-identity drift is
left out.


## 3. Runs

| Run | Instance | Shows |
|---|---|---|
| `run_handover` | 2 workers, 2 dependent units with one binding, 2 epochs; lost lease answers and failing closes, and lost completion answers in a run that discards its capabilities | verdicts are right, checkpointed candidates survive, the inductive invariant of the proofs holds, a conclusion is final and is reached |
| `effect_law` | a run and its reproduction under one key (one of them with an invalid proof) racing a merge on the same base; two attempts of one run beside a simulated effect; a merge stacked on the result, with and without an operator who forces the ref; up to 3 disruptions | one install per key, lawful receipts (`ImplementsEffectLaw`), proven preparations are receipted unless every run that asks was cancelled or stands FAILED |
| `host_causes` | one parked run with 2 resume commands, replies and every kind of failure (2 of them); two parked runs, one answered and one resumed, a scan of one row per tick | attempts begin only at the fence of their cause, no valid intent is dropped, every durable cause is served |
| `host_saturated` | one worker of capacity, a reply for another run | **violation** of `AnsweredWaitWakes` |
| `control_commands` | 2 processes, 17 workloads of one or two commands over the same facts, up to 2 pauses or deaths | one exact answer, which agrees with the store for good, and which comes |
| `channel_exchange` | 2 asks, 2 people, pages of one row, one crash or up to 2 damages | a page is the cut, an ask is one exchange, an answered ask returns |
| `operator_custody` | 2 handles and no trouble, or one handle and 2 troubles of its helper, controller, host or store | what runs is licensed, what is disposed of is quiet, custody is released; with one authorized handle, that one authorization sends one turn is left to the theorem `TurnsAreLicensed` |
| `codex_turn` | a reading, a writing and a starting client that adds 1 to 3 records; 2 connections against a limit of one | a published result passed every gate, no record is overlooked, no chunk is sent that was not admitted, and after the loss of control or deadline at most the rest of one |
| `journal_opening` | 8 stories, left by builds of schema 0 to 11, with 2 openers, a writer and a crash; the same with one damage | a sound store is opened, damage is reported, lookups are true, old history is told apart from loss |
| `graph_walk` | every way to connect 3 nodes, loops of 1 to 3 members (inline, atomic, composite), components bound to an executor or a channel, 30 graphs refused for their own reason | what admission seals is walked, resumed after any cut, and fed from its producers; a replay under the lock keeps its world, and refuses what only an authorization admitted |
| `claude_task` | clients that add 1 or 2 records, short inputs and short room, one trouble per world; maintenance that observes, reloads, qualifies, logs in | success is earned, a dispatch is on record, custody outlives work, everything ends |
| `contained_work` | a free client (one call, one record too many), scripted READ and WRITE with every disposition and trouble | no incoherent success, disposal means quiet, only sound candidates are published, everything is disposed of |

**Bounds.** `MaxEpoch` = 2 in `RunLifecycle` gives one predecessor and one
successor, which is what a zombie race needs; the theorems hold for every
bound. Failures stop in the last epoch (`FaultsOn`), so that a last attempt can
finish. A world's `disruptions` bound crashes, stalls and forced moves in
`MergeEffect`: one stall makes a zombie, a second hits its successor, a third
the twin. In `RunHost`, `Room` keeps the events of one whole attempt free
before a failure or a non-final end, so that no bound cuts an attempt short;
two faults let a failure meet the recovery of another; four slots are more than
the workers a run has at a time in `host_causes` (`Roomy` of `RunHostProofs`
holds there), three suffice in `host_saturated`. In `ControlCommands` two processes and two
faults give a paused driver, its successor and a further successor; `MaxEpoch`
and `MaxSeq` are never the reason why a command stays unanswered. Two messages
and pages of one row make every inbox session a continuation. Two exposed
generations are the current store and a replaced one. `MaxToolCalls`,
`MaxPending`, `WriteCalls`, `MaxReply` and the input ceilings are the code's
limits made small, so that the limit and the first thing past it are reached.
Three nodes give a chain, a join, a fork and every cycle; loops go round up to
three times, which is once past the first feedback. `Tries`, the attempts of a
ref transaction of `ContainedWorkspace`, is 2 instead of the code's 8. Deadlock checking is off where
the system may stop: a concluded run, answered commands, a released handle.

**Fairness.** A coroutine or process that is alive takes its next step, and
clocks run. In particular: `RunLifecycle`, some attempt steps while one can (attempts are
finite), the claim of a
PENDING or RUNNING run (the pump's recovery scan; a FAILED or PARKED run needs
a decision) and lease expiry; `MergeEffect`, attempts, git processes and claims
of runs with a free lease that are not FAILED; `RunHost`, the pump weakly and workers strongly, because when
the pump does suspend asyncio runs all ready tasks before the pump's timer,
however often the pump takes the loop again, and this only in worlds where the
host stays up; `ControlCommands`, processes step, leases expire and a caller
whose command is unfinished asks again; `Channels`, workers go on and the
host's scan comes round (a host saturated as in `host_saturated` does not keep
that, and then an answered ask waits); `OperatorHandle`, the supervisor, the
namespace's PID 1, stop, settlement and release (were PID 1 never to
acknowledge, there would be no KILL and custody would be kept: that state is
safe, and `CustodyIsReleased` does not speak of it); `ClaudeHandle`, the handle, its
streams and the deadline; `PiRead`, the host's steps and disposal. In
`ClaudeHandle` the streams' steps and a maintenance session's include the
client's answers and the line that the operator types: in worlds that are never
late this stands for the deadline of the code, which ends the same waits (the
worlds with `late` end without them). Apart from that, people, operators,
clients, faults and crashes are never fair. `CodexConversation`, `JournalStore` and `GraphRun` are checked
for safety only.

### Disagreements between code and documents

The first is a run of its own; the others were met while modelling and are
excluded from the passing instances by a named condition.

* **Pump without suspension** (`api/run_host.py:505`). While the host is full,
  an answered wait makes the pump wake itself in every round; it never gives up
  the event loop, so the worker that would free the capacity cannot end.
* **Lost answer of a completion** (`runtime/walker.py:2021`). If
  `record_completion` commits and its answer is lost, the generic clause closes
  with `discard` and deletes the candidate that the checkpoint names, against
  ADR 0009 (lines 21-24). The same situation at `record_capability_lease` is
  settled against durable state. `Faults` of `run_handover` leave it out where
  candidates are kept, and `CandidateOfCheckpointKept` has its absence there as
  a hypothesis; a run that discards its capabilities has nothing to lose by it.
* **Rejected but installed** (`substrate/git/authority.py:603-612`). After a
  failed transaction the marker and the target are read in two calls. A
  zombie's install between them, with a further merge on top, is reported as a
  genuine move, against ADR 0009 (lines 45-46). It needs a merge stacked on the
  first one, as in the world `Stacking`; `EffectLaw` therefore lets a merge be
  rejected that others have come on top of. With `k \notin happened` in
  `Reject`, TLC finds the schedule.
* **Poisoned key** (`substrate/journal/_sqlite_execution.py:538`). The request
  is stored before its proof is verified and wins for ever, so a valid retry is
  verified against the invalid stored request (ADR 0009, lines 52-54).
  `PreparedIsReceipted` therefore speaks of proven preparations.
* **Promotion answered as lost** (`api/_control_commands.py:1708-1716`,
  `substrate/journal/_sqlite_registry.py:125`). Receipt, stable version and
  compare-and-swap are transactions apart, and the swap does not carry the
  command's epoch. One schedule needs only one promotion: its first driver has
  found the base and is paused before the swap; a second one takes the command
  over and finds no receipt; the first swaps; the second reads the moved
  pointer and stores a rejection, without looking for the receipt again as
  `_apply_policy_promotion` does. In another the swap comes after the
  rejection: a hotfix moves the pointer, the second driver rejects, the hotfix
  is rolled back, the first driver resumes and its swap succeeds; a rollback
  can lose the same way. `_sqlite_control.py:712`: "A rejection says the planned
  mutation did not happen." `CommandLaw` leaves this open for `Contested`
  commands; with `Contested` empty TLC finds the first schedule for a promotion
  alone.
* **Twin registrations** (`api/_control_commands.py:2773`). Two commands may
  register the same bytes; both are answered, but a replay demands that the row
  carries the time of the command's own plan, so the later one is reported as
  damage instead of replaying "the exact response that retries replay"
  (`docs/CONTRIBUTING.md:234`). The workload is left out.

### Observations

Reachable in the models or seen while modelling, and left without a property:

* The pump also spins with capacity to spare if a resume is in flight and a
  reply is stored for the same park (`run_host.py:217`).
* `_fill_capacity` counts runs, not coroutines: a worker displaced by a
  superseding one still unwinds and is neither counted (line 416) nor cancelled
  by `shutdown` (line 244).
* A run deferred after a failure before its first event is launched again by
  the pump's own scan (line 219), although the comment at line 93 says that the
  host must not spin on it.
* Two runs that share a key and are rejected at different bases: the second
  receipt differs and is refused as journal damage (`walker.py:2134`).
* A crash between the physical acquisition and the lease row leaves a staging
  directory that no row names (`walker.py:1365`).
* A loop whose decision is not a boolean fails its run; a later resume raises
  `ContractViolation` and leaves the run RUNNING. The architecture document
  says so too, and `AdmittedRunsAreWalkable` names it as the only refusal.
* `registry_rollback` without an earlier stable version raises `RegistryError`
  uncaught; the command stays prepared.
* A `provision` that dies before its anchor is published leaves a bundle that
  `provision` refuses and `publish` cannot finish; a failed write of the
  attempt record leaves a `.next` file over which later replacements fail.
* Of the witnesses of plans written before schema 7, `command_for_id` lists
  those of a resume as dependents and not those of a domain operation
  (`_sqlite_commands.py:876`). With one damage nothing is missed, since the
  plan's own seal is a dependent too.

## 4. Proofs

TLAPS proves the theorems below for every value of the constants that the
`ASSUME`s of the modules allow, so for any number of workers, runs, commands,
keys, acquisitions, worlds and failures. Each proof module holds the inductive
invariant of its theorems, with one lemma per action or per group of conjuncts.

| Theorem | States |
|---|---|
| `RunLifecycleProofs!InductiveInvariant` | `Inductive` |
| `TypeCorrect` | `TypeOK` |
| `EpochsAreUnique` | `UniqueEpochs` |
| `OwnerIsNeverRefused` | `OwnerSeesRunning` |
| `ConcludedRunIsClean` | `ConcludedIsClean` |
| `SuccessIsComplete` | `SucceededIsComplete` |
| `WorkspaceStaysLive` | `LiveWorkspace` |
| `CandidateOfCheckpointKept` | `CheckpointedCandidateKept`, if completion answers are not lost in runs that keep candidates |
| `WritesFollowEpochs` | `EpochOrdered` |
| `ConclusionIsFinal` | `ConcludedIsFinal` |
| `MergeEffectProofs!TypeCorrect` | `TypeOK` |
| `MergesInstalledOnce` | `InstalledOnce` |
| `LawInvariance` | `LawInv`: the target only moves forward and a rejected merge stays overtaken, where the ref is not forced |
| `BoundaryImplementsLaw` | `ImplementsEffectLaw`, the refinement of `EffectLaw` |
| `RunHostProofs!AttemptsFenced` | `AttemptsAreFenced` |
| `IntentsKept` | `IntentKept`, while the bound on worker slots is not reached (`Roomy`) |
| `ControlCommandsProofs!Invariance` | `Inv`: answers that the store bears out, processes that are about to say the truth |
| `ExchangesAreWhole` | `ExchangeIsWhole` |
| `ReplaysExact` | `ReplaysAreExact`, if no definition is registered by two commands |
| `CommandsObeyLaw` | `ImplementsCommandLaw`, the refinement of `CommandLaw` |
| `OperatorHandleProofs!Invariance` | `Inv`: guards, lock, selection and record fit together |
| `TurnsAreLicensed` | `TurnIsLicensed` |
| `DisposalIsQuiet` | `DisposedIsQuiet` |
| `EgressMediated` | `EgressIsMediated` of `CodexConversation`, instantiated as `Codex` |
| `ClaudeHandleProofs!DispatchAccounted` | `DispatchIsAccounted` |
| `CustodyOutlives` | `CustodyOutlivesWork` |
| `WorkSettled` | `WorkIsSettled` |
| `SuccessesAreWhole` | `SuccessIsWhole`, the first part of `SuccessIsEarned` |
| `ChannelsProofs!Invariance` | `Inv`: positions, identities, seals and answers |
| `ExchangesAreSingle` | `OneExchange` |
| `ReadsAreTrue` | `ExactReads`: an absence was never written, a message found is the one written |
| `PiReadProofs!CustodyHolds` | `Custody`: who holds a guard, and what is on the payload under it |
| `DisposalIsQuiet` | `DisposedMeansQuiet` |
| `CandidatesAreSound` | `CandidateIsSound` |
| `SuccessesAreCoherent` | `SuccessIsCoherent` |

**Assumptions on constants.** Bounds are numbers, "nobody" values are not
members of the sets they stand apart from (`NoneAssumption`, `SizeAssumption`,
`StoreBounds`, `HandleBounds`), and worlds have the shape that the MC modules
give them (`WorldsAssumption`, `World`, `WorldAssumption`, `OrderAssumption`).
Those that say more come from the code: `InputAssumption`
(`POST_RESULT_INPUT_BYTES` covers the three controls that follow a result),
`TargetAssumption` (a registration or promotion names its version),
`RequestAssumption` (a request asks for an approval or for advice, and
`runs_approve` refuses the one, `channels_reply` the other),
`HistoryAssumption` (the promotions of a store are a list), `ProofAssumption`
(an evaluation's attestation is not the policy attestation of an initial
promotion), `CallsAssumption` (there is a READ the script can declare), and of
the commits of `MergeEffect` that history has no cycle and a commit fixes its
parents; in `Channels`, that an ask is not among the requests already sent twice.

**Hypotheses of theorems.** Two theorems are false without theirs, and each
is one of the disagreements of section 3: `CandidateOfCheckpointKept` leaves out
lost completion answers, `ReplaysExact` assumes `RegisteredOnce`.
`CommandsObeyLaw` needs none: what a promotion answered as lost breaks is
outside the law, and the theorem shows that nothing else is. `IntentsKept` assumes
`Roomy`: a run never has a worker in every slot. Slots are a bound of the model
(the code creates tasks without one), and the instance of `host_causes` never
reaches it.

### RunLifecycle

The safety properties are not inductive by themselves. `Inductive` adds:

* `Shape`: what each program counter implies for the attempt's own lists. That
  rows in `stale` are older than the attempt's epoch is what keeps a
  reconciliation away from the live owner.
* `EpochsBounded`: no attempt, event, checkpoint or candidate is ahead of the
  run row's epoch. With `UniqueEpochs`, "holds the current epoch" is then the
  same as "is the one owner", and a claim makes every earlier attempt stale.
* `OwnerSeesRunning` and `ConcludedIsClean`: a conclusion needs the fence and
  no active row, so while a fenced owner executes the run is RUNNING.
* `Progress`: the in-memory unit results agree with the checkpoints, which
  carries "every unit completed" over to `SucceededIsComplete`.
* `LiveAcquisitions`: the current owner's recorded acquisitions exist
  physically and in the journal until it closes them.
* `Candidates`: an attempt that is going to discard has not checkpointed its
  unit, and what it imported for the unit is still there. This part, and only
  this part, needs that `record_completion` does not fail after its commit.

The two action properties follow from the invariant and the same lemmas. TLC
checks `Inductive`, which contains the other state properties, in
`run_handover`.

### MergeEffect

Two lemmas say all that a step can do: `GitMoves`, to the refs, and
`OutcomeMoves`, to receipts, durable or in an attempt's hands, with the grounds
on which one is called committed. On these stand `LocksExclude` (no two
transactions hold one ref), `TxnKnows` (while a transaction holds the target's
lock the target is still the base it saw, and while it holds the marker's its
key is not installed), `InstalledIsMarked`, and `RefsAreTrue` and
`OutcomesAreTrue`, which carry "was installed" from refs to receipts. For the
law, `Overtaken` says why a rejection lasts: the target has moved past the base
of the merge and is not the merge, and a target that nobody forces only moves
to commits that contain it, because every proof took its base off the target
(`ProofMoves`). Steps of git map to `Happen`, `Record` to a verdict, everything
else to a stutter.

### RunHost

An intent is *grounded* when the durable fact it names exists and asks for this
run at this fence. Everything that puts an intent into the host's tables
(launches, both scans, requeueing, recovery) puts a grounded one there, and
facts only grow (`FactsGrow`), so it stays grounded. `ClaimsFit`: a worker that
claimed its run and still owns it still fits it, because nobody else can write
the next event; so the first event is at the intent's fence.

For `IntentKept` the tables have to be told apart: what is in flight
(`explicit`, with its task) and what is queued (`requested`). `Owed`: behind an
event-fenced intent in flight that still fits its run, the queue holds nothing,
the same intent or one that supersedes it; and if its worker lost the claim,
the queue does hold one, so the late callback drops nothing. `Tracks` and
`Orderly` say that the task recorded for a run is the one with its explicit
intent and that the others wait behind it, `AnswersPark` that a reply answers
the present park or one that is over; `Supersedes` is shown transitive.

### ControlCommands

A step of any process only adds to what the store and the ledger say
(`StoreGrows`, `PlansKept`), and what it adds to the facts a command owns, it
adds for a command that is still open (`Gains`). Wherever a process is inside a
command, what it is about to answer is already true of the store (`Ready`), so
it stays true however long the process is paused there. `RowFits` ties a closed
command's answer to the store. The stable pointer moves only by `Swaps`
(`PointerMoves`) and is never unset again, so an initial promotion that found it
set and its own receipt missing is out of reach for good (`Blocked`), which
makes its rejection final; for the other moves no such thing is true.

### OperatorHandle

`Fits` relates an acquisition's guard, supervisor and closure to how far its
handle is; `LockFits` says that the retained lock belongs to the helpers and
their lane or to one handle and its supervisor, never to both; `StoreFits` that
what `active.json` says, and what a loss of power would leave of it, selects no
generation older than the last exposure; `Licensed` and `RecordFits` that what
runs was checked under that lock and that one authorization has one attempt.

For the relay, `ChunkFits`: while control and deadline stand nothing is stray,
and what a connection has sent since one was lost, together with what is left
of the chunk it is sending, is at most one chunk, because only an admission
loads a new one. `RelayFits`: a relay that has left has no open connection and
nothing unsent, a reported outcome is behind its exit, and a published one saw
no refusal.

### ClaudeHandle

Of the conversation's rules the proofs need two facts, proved record by record
(`TakenKept`): a transaction past its user message never comes back to the
place where one is sent (`After`), and no record the client writes changes how
many calls were granted and answered. `Account` follows the handle's life from
the reservation of its record to the one settlement, with `TaskFits` while the
task runs: a message is sent only behind a recorded intent, and the record
counts every call unless it was silenced by a failed write. `Holds` is what the
handle holds, and until when.

The second half is about how a task ends. `Funds` is the account of the input
budget: from the first call on, the reply and the controls still to come are
covered, so `bound` is never the reason of a refusal any more. `StreamFits` is
how the client's end comes through the pipe: a record cut short is the last
thing written, and a read returns the end only behind everything. `Caught`
follows what was read while a worker was at work into the harmless, the held
and the judged records, `Turn` ties the calls and the drained stream to the
transaction, `Session` does it for maintenance.

### PiRead

`Custody` is an argument about one lock, the guard of an acquisition. A party
removes a payload only while its descriptor is the only one on the guard
(`Removing`, `PartiesExclude`); whatever still works on the payload shares the
guard, the host by its own descriptor during an operation (`Working`), its
process by the one it inherited (`Mounted`); and a party waits for the guard
only behind the closure (`DisposedFirst`), so nobody enters afterwards.
`CandidateIsSound` adds that the commit of a publication is one that was
imported (`Verified`) and that what was returned is what the ref names where
nobody discards (`Kept`).

For `SuccessIsCoherent`, `Tells` says of every field of the decoder which
records it stands for: a flag for the one record of its kind, the stage of a
read for the records about that read, the lists of messages for the places
where they stand among the records. An accepted record is one of fourteen
moves (`Moves`, shown from `Observe` branch by branch), and each part of
`Tells` is kept by each move. Nothing undoes damage or a refusal, not a torn
frame, a request or the end of the input, so a decoder that is clean at the end
told the truth throughout (`Conversing`). Of the client the proof uses only the
shape of its records (`Shape`), not their order, their number or their copies.

### Channels

The proofs put no bound on damage, and rest on what it cannot forge: a
position, an identity, a seal. So a row, altered or not, stands at the position
where its identity was written (`RowsStand`), and a seal is of a row that was
written (`SealsAreGenuine`). A table with no gap below its high-water mark then
shows every identity ever written, which is why a send may take an absence for
"never sent" (`AbsenceIsTrue`), even when a row was lost together with its
seal; and a row that its seal bears out is the one that was written
(`StoredIsWritten`).

### Only model-checked

* Every liveness property (`RunningConcludes`, `PreparedIsReceipted`,
  `CausesAreServed` and the others of their kind): the prover handles neither
  fairness nor ENABLED.
* `GraphAdmission`, `GraphRun`: recursive operators, and an induction over the
  graph.
* `GatedResult` and `NothingOverlooked` of `CodexConversation`: they compare the
  verdict with a fold over everything the client said, and the second is about
  the sampled clients, not about any world.
* The rest of `SuccessIsEarned` of `ClaudeHandle`: that a client that succeeded
  said nothing but tolerated records of its own. It is about the sampled
  worlds; a client that withholds its reply and adds the same record instead
  cannot be told from one that replied.
* `JournalStore`: its invariants compare readers with stories, sequences of
  rows that the MC module lists; proving them would be a case analysis of those
  lists.
* `PagesAreTheCut` of `Channels`: pages are sorted sequences, and what sorting
  a set yields is defined by recursion over it.

## 5. Not modelled

* The removal of a payload that fails (`acquisition.py:250-257`: something else
  stands in its place, or the file system refuses). It raises after the closure
  is committed and before the transition lands, so the payload is there to be
  removed again and no safety property is touched; `EverythingIsDisposed`
  speaks of removals that succeed.
* Digests, wire encodings and canonical JSON: a digest stands for what it is
  computed from, and a seal for the row it seals. The arithmetic of metering
  totals and of usage is left out with them.
* Panel aggregation, the SDK, the MCP adapter, the M9 trial, the qualification
  entries that are driven by hand, the fakes and the scripts: pure, read-only,
  or assembled from the other parts.
* The command lines, namespaces, mounts and limits under which native clients
  are started, and the bridge inside the sandbox. Their effect is in the model:
  a client can die, be killed, and reach the network only through the relay.
* Model selection, effort and isolation profiles in admission, and the
  hints by which a candidate is selected.
* In `JournalStore` damage is one row lost or altered, one seal lost or one
  fence set back; a consistent forgery of a row with its seal is out of scope,
  as it is for the code. In `ClaudeHandle` a world has one trouble. In
  `ContainedWorkspace` the closure and candidate reads of one party are one
  step, since the transaction verifies them again; the rows a recovery reads
  are well formed and the successor does not crash.

## 6. Possible extensions

* `JournalStore` for stories described by a condition instead of a list, so that
  its readers can be proved right for all of them.
* Panel aggregation and dependency reports as operators, checked against
  reference definitions.
