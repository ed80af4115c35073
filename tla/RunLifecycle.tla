---------------------------- MODULE RunLifecycle ----------------------------
(***************************************************************************)
(* One durable run, driven by any number of workers.                       *)
(*                                                                         *)
(* The journal (src/constructicon/substrate/journal/_sqlite_execution.py)  *)
(* keeps the run row, its capability-lease rows and its checkpoints; every *)
(* journal call is one BEGIN IMMEDIATE transaction, so every journal call  *)
(* is one atomic step here.  A worker is one call of Walker._drive         *)
(* (src/constructicon/runtime/walker.py): it claims the run, executes the  *)
(* units in order, and releases.  Between any two of its steps another     *)
(* worker may take over an expired lease; the first one then is a zombie   *)
(* that keeps going until a fenced write or a heartbeat refuses it.        *)
(*                                                                         *)
(* The physical side of a capability is the git workspace of               *)
(* substrate/git/authority.py: a staging directory and a candidate ref,    *)
(* both named after the acquisition (path, binding, owner epoch).          *)
(*                                                                         *)
(* Wall-clock time is abstracted to one bit: "expired" says that           *)
(* lease_expires_at <= now.  It may become true at any moment, because a   *)
(* worker may be stalled for longer than its TTL between any two steps.    *)
(***************************************************************************)
EXTENDS Integers, FiniteSets

CONSTANTS
    Workers,        \* owner ids
    None,           \* SQL NULL in runs.owner_id
    NumUnits,       \* units of the sealed manifest, in execution order
    DependsOn,      \* unit -> earlier units whose outputs it consumes
    Binds,          \* leased capability bindings of every unit
    MaxEpoch,       \* bound: owner epochs that are ever claimed
    Faults          \* for runs of each capability mode, which of FaultKinds may happen

Units == 1..NumUnits
Epochs == 1..MaxEpoch
Acquisitions == Units \X Binds \X Epochs
FaultKinds == {"lease_answer", "completion_answer", "close_fails"}
Modes == {"normal", "discard"}

ASSUME NoneAssumption == None \notin Workers
ASSUME BoundsAssumption == NumUnits \in Nat /\ MaxEpoch \in Nat
ASSUME DependsOnAssumption ==
    /\ DependsOn \in [Units -> SUBSET Units]
    /\ \A u \in Units : \A d \in DependsOn[u] : d < u
ASSUME FaultsAssumption == Faults \in [Modes -> SUBSET FaultKinds]

VARIABLES
    \* the journal
    status,      \* runs.status
    owner,       \* runs.owner_id
    epoch,       \* runs.owner_epoch
    expired,     \* runs.lease_expires_at <= now
    cancel,      \* runs.cancel_requested
    active,      \* capability_leases in state "active"
    released,    \* capability_leases closed with disposition "released"
    discarded,   \* capability_leases closed with disposition "discarded"
    ckpt,        \* unit -> epoch whose worker checkpointed it, 0 if none
    writer,      \* epoch of the lease under which the last event was written
    mode,        \* RunOrigin.capabilities: "normal" or "discard"
    \* the git authority
    staging,     \* staging directories
    candidates,  \* candidate refs
    imported,    \* history: every candidate that was ever imported
    \* the workers
    pc,          \* where in Walker._drive the worker is
    held,        \* RunLease.epoch, 0 when idle
    lost,        \* the latch "lost" set by _heartbeat_loop
    cancelled,   \* an asyncio cancellation arrived while cleanup was joined
    unit,        \* position in ordered_units
    acquired,    \* bindings of the unit whose acquisition is recorded and open
    result,      \* status_by_unit
    after,       \* why the unit's acquisitions are being closed
    dirty,       \* some cleanup of this attempt failed
    stale        \* stale_rows still to reconcile

rowVars == <<active, released, discarded>>
runRow == <<status, owner, epoch, expired, cancel>>
journal == <<runRow, rowVars, ckpt, writer, mode>>
physical == <<staging, candidates, imported>>
attempt == <<held, lost, cancelled>>
invocation == <<unit, acquired, result, after, dirty, stale>>
vars == <<journal, physical, pc, attempt, invocation>>

Terminal == {"succeeded", "failed", "parked", "cancelled"}
Statuses == {"pending", "running"} \cup Terminal
\* Mutant: a cancelled run may be claimed again.
ClaimableAfterCancel == {"pending", "running", "failed", "parked", "cancelled"}
Claimable == {"pending", "running", "failed", "parked"}
PCs == {"idle", "begin", "readStale", "stale", "staleRow", "scan", "acquire", "record",
        "impl", "complete", "close", "closing", "closeRow", "settle", "cancelling",
        "intent", "finalCancel", "release"}
Results == {"none", "completed", "parked", "failed", "blocked"}
Reasons == {"completed", "parked", "failed", "conflict", "cancelRequested", "asyncCancel"}

JournalTypes ==
    /\ status \in Statuses /\ owner \in Workers \cup {None} /\ epoch \in 0..MaxEpoch
    /\ expired \in BOOLEAN /\ cancel \in BOOLEAN
    /\ ckpt \in [Units -> 0..MaxEpoch] /\ writer \in 0..MaxEpoch
    /\ mode \in Modes

ResourceTypes ==
    /\ active \subseteq Acquisitions
    /\ released \subseteq Acquisitions /\ discarded \subseteq Acquisitions
    /\ staging \subseteq Acquisitions /\ candidates \subseteq Acquisitions
    /\ imported \subseteq Acquisitions

AttemptTypes ==
    /\ pc \in [Workers -> PCs] /\ held \in [Workers -> 0..MaxEpoch]
    /\ lost \in [Workers -> BOOLEAN] /\ cancelled \in [Workers -> BOOLEAN]
    /\ after \in [Workers -> Reasons] /\ dirty \in [Workers -> BOOLEAN]

InvocationTypes ==
    /\ unit \in [Workers -> 1..(NumUnits + 1)]
    /\ acquired \in [Workers -> SUBSET Binds]
    /\ result \in [Workers -> [Units -> Results]]
    /\ stale \in [Workers -> SUBSET Acquisitions]

TypeOK == JournalTypes /\ ResourceTypes /\ AttemptTypes /\ InvocationTypes

Unvisited == [u \in Units |-> "none"]

\* Walker.prepare has persisted one PENDING run; nobody drives it yet.
Init ==
    /\ status = "pending" /\ owner = None /\ epoch = 0 /\ expired = FALSE /\ cancel = FALSE
    /\ active = {} /\ released = {} /\ discarded = {}
    /\ ckpt = [u \in Units |-> 0] /\ writer = 0
    /\ mode \in Modes
    /\ staging = {} /\ candidates = {} /\ imported = {}
    /\ pc = [w \in Workers |-> "idle"]
    /\ held = [w \in Workers |-> 0]
    /\ lost = [w \in Workers |-> FALSE]
    /\ cancelled = [w \in Workers |-> FALSE]
    /\ unit = [w \in Workers |-> 1]
    /\ acquired = [w \in Workers |-> {}]
    /\ result = [w \in Workers |-> Unvisited]
    /\ after = [w \in Workers |-> "completed"]
    /\ dirty = [w \in Workers |-> FALSE]
    /\ stale = [w \in Workers |-> {}]

-----------------------------------------------------------------------------
(* The fence.                                                              *)

\* owner_id and owner_epoch of the run row are the ones of w's lease.
Fenced(w) == owner = w /\ epoch = held[w]

\* Mutant: the writer trusts its own heartbeat latch instead of the run row.
MayWriteByLatch(w) == status = "running" /\ ~lost[w]

\* _allocate_seq with its default expected_statuses.
MayWrite(w) == status = "running" /\ Fenced(w)

\* Faults stop at the last epoch, so that the last attempt is an undisturbed one.
FaultsOn == epoch < MaxEpoch
FaultOn(kind) == kind \in Faults[mode] /\ FaultsOn

Event(w) == writer' = held[w]
Goto(w, label) == pc' = [pc EXCEPT ![w] = label]

\* acquisition_id_for(lease_id_for(run, path, binding), epoch)
AcquisitionOf(w, b) == <<unit[w], b, held[w]>>
\* Bindings, acquisitions and stale rows are visited in some fixed order.
FirstOf(S) == CHOOSE x \in S : TRUE
NextBind(w) == FirstOf(Binds \ acquired[w])
NextAcquired(w) == FirstOf(acquired[w])
NextStale(w) == FirstOf(stale[w])

\* The worker learns that it may not go on: OwnershipLost (or the
\* ContractViolation of a run that a successor already concluded), every
\* local custody relinquished, nothing durable written.
Stop(w) ==
    /\ Goto(w, "release")
    /\ UNCHANGED <<journal, physical, attempt, invocation>>

-----------------------------------------------------------------------------
(* claim_run, _execute's first write, and the reconciliation of stale      *)
(* leases.                                                                 *)

\* Mutant: an expired lease is never taken over.
LeaseFreeIfReleased == owner = None

\* The WHERE clause and the SET clause of claim_run's UPDATE.
LeaseFree == owner = None \/ expired
NextEpoch == epoch + 1

ClaimRun(w) ==
    /\ pc[w] = "idle"
    /\ status \in Claimable
    /\ LeaseFree
    /\ epoch < MaxEpoch
    /\ owner' = w /\ epoch' = NextEpoch /\ expired' = FALSE
    /\ Goto(w, "begin")
    /\ held' = [held EXCEPT ![w] = NextEpoch]
    /\ lost' = [lost EXCEPT ![w] = FALSE]
    /\ cancelled' = [cancelled EXCEPT ![w] = FALSE]
    /\ unit' = [unit EXCEPT ![w] = 1]
    /\ acquired' = [acquired EXCEPT ![w] = {}]
    /\ result' = [result EXCEPT ![w] = Unvisited]
    /\ dirty' = [dirty EXCEPT ![w] = FALSE]
    /\ stale' = [stale EXCEPT ![w] = {}]
    /\ UNCHANGED <<status, cancel, rowVars, ckpt, writer, mode, physical, after>>

\* RunStarted, RunResumed or RunReclaimed.
Begin(w) ==
    /\ pc[w] = "begin"
    /\ \/ /\ Fenced(w) /\ status \in Claimable
          /\ status' = "running" /\ Event(w)
          /\ Goto(w, "readStale")
          /\ UNCHANGED <<owner, epoch, expired, cancel, rowVars, ckpt, mode,
                         physical, attempt, invocation>>
       \/ ~Fenced(w) /\ Stop(w)

ReadStaleLeases(w) ==
    /\ pc[w] = "readStale"
    /\ LET rows == {a \in active : a[3] < held[w]}
       IN  /\ stale' = [stale EXCEPT ![w] = rows]
           /\ Goto(w, IF rows = {} THEN "scan" ELSE "stale")
    /\ UNCHANGED <<journal, physical, attempt, unit, acquired, result, after, dirty>>

\* Mutant: everything a crashed attempt left is discarded.
StaleDispositionDiscard(a) == "discard"

StaleDisposition(a) ==
    IF mode = "normal" /\ ckpt[a[1]] # 0 THEN "release" ELSE "discard"

\* capability.reconcile: staging always goes, the candidate on "discard".
ReconcileStale(w) ==
    /\ pc[w] = "stale"
    /\ staging' = staging \ {NextStale(w)}
    /\ candidates' = IF StaleDisposition(NextStale(w)) = "discard"
                       THEN candidates \ {NextStale(w)} ELSE candidates
    /\ Goto(w, "staleRow")
    /\ UNCHANGED <<journal, imported, attempt, invocation>>

\* transition_capability_lease of acquisition a to "closed" by w.
CloseLeaseRow(w, a, disposition) ==
    LET target == IF disposition = "release" THEN released ELSE discarded
    IN  \/ /\ a \in target
           /\ UNCHANGED journal
        \/ /\ a \notin target /\ a \in active /\ MayWrite(w)
           /\ active' = active \ {a}
           /\ IF disposition = "release"
                THEN released' = released \cup {a} /\ UNCHANGED discarded
                ELSE discarded' = discarded \cup {a} /\ UNCHANGED released
           /\ Event(w)
           /\ UNCHANGED <<runRow, ckpt, mode>>

CloseLeaseRefused(w, a, disposition) ==
    /\ a \notin (IF disposition = "release" THEN released ELSE discarded)
    /\ a \notin active \/ ~MayWrite(w)

CloseStaleRow(w) ==
    /\ pc[w] = "staleRow"
    /\ LET a == NextStale(w)
       IN  \/ /\ CloseLeaseRow(w, a, StaleDisposition(a))
              /\ stale' = [stale EXCEPT ![w] = @ \ {a}]
              /\ Goto(w, IF stale[w] = {a} THEN "scan" ELSE "stale")
              /\ UNCHANGED <<physical, attempt, unit, acquired, result, after, dirty>>
           \/ CloseLeaseRefused(w, a, StaleDisposition(a)) /\ Stop(w)

-----------------------------------------------------------------------------
(* The unit loop of _execute.                                              *)

Blocked(w) == \E d \in DependsOn[unit[w]] : result[w][d] # "completed"

UnitDone(w, outcome) ==
    /\ result' = [result EXCEPT ![w][unit[w]] = outcome]
    /\ unit' = [unit EXCEPT ![w] = @ + 1]
    /\ Goto(w, "scan")
    /\ UNCHANGED <<acquired, dirty, stale>>

\* _check_run_control at the scheduler boundary.
ScanControl(w) ==
    /\ pc[w] = "scan" /\ unit[w] \in Units
    /\ lost[w] \/ cancel
    /\ Goto(w, IF lost[w] THEN "release" ELSE "cancelling")
    /\ UNCHANGED <<journal, physical, attempt, invocation>>

\* NodeBlocked, NodeRestored or NodeStarted, whichever the unit needs.
ScanUnit(w) ==
    /\ pc[w] = "scan" /\ unit[w] \in Units
    /\ ~lost[w] /\ ~cancel
    /\ \/ /\ MayWrite(w) /\ Event(w)
          /\ \/ Blocked(w) /\ UnitDone(w, "blocked")
             \/ ~Blocked(w) /\ ckpt[unit[w]] # 0 /\ UnitDone(w, "completed")
             \/ /\ ~Blocked(w) /\ ckpt[unit[w]] = 0
                /\ Goto(w, IF Binds = {} THEN "impl" ELSE "acquire")
                /\ UNCHANGED <<unit, acquired, result, dirty, stale>>
          /\ UNCHANGED <<runRow, rowVars, ckpt, mode, physical, attempt, after>>
       \/ ~MayWrite(w) /\ Stop(w)

\* transition_run to a terminal status raises CleanupUnresolved while any
\* acquisition of the run is active, and the run then stays RUNNING.
CleanupResolved == active = {}

ConcludeAs(w, target) ==
    /\ IF MayWrite(w) /\ CleanupResolved
         THEN status' = target /\ Event(w)
         ELSE UNCHANGED <<status, writer>>
    /\ Goto(w, "release")
    /\ UNCHANGED <<owner, epoch, expired, cancel, rowVars, ckpt, mode,
                   physical, attempt, invocation>>

\* Mutant: parked units are ignored.
VerdictIgnoresParked(w) ==
    IF \E u \in Units : result[w][u] = "failed" THEN "failed" ELSE "succeeded"

\* Failures first, then parked units; blocked units have one of them upstream.
Verdict(w) ==
    IF \E u \in Units : result[w][u] = "failed" THEN "failed"
    ELSE IF \E u \in Units : result[w][u] = "parked" THEN "parked"
    ELSE "succeeded"

\* The graph closure check: units blocked without a failed or parked root
\* raise JournalDamaged.
OnlyBlocked(w) ==
    /\ Verdict(w) = "succeeded"
    /\ \E u \in Units : result[w][u] = "blocked"

Conclude(w) ==
    /\ pc[w] = "scan" /\ unit[w] = NumUnits + 1
    /\ IF OnlyBlocked(w) THEN Stop(w) ELSE ConcludeAs(w, Verdict(w))

\* except _CancelRequested in _execute.
ConcludeCancelled(w) ==
    /\ pc[w] = "cancelling"
    /\ ConcludeAs(w, "cancelled")

-----------------------------------------------------------------------------
(* _invoke: acquire, run the implementation, checkpoint.                   *)

StartClose(w, reason) ==
    /\ after' = [after EXCEPT ![w] = reason]
    /\ Goto(w, "close")

Acquire(w) ==
    /\ pc[w] = "acquire"
    /\ \/ lost[w] /\ Stop(w)
       \/ /\ ~lost[w]
          /\ \/ cancel /\ StartClose(w, "cancelRequested") /\ UNCHANGED staging
             \/ ~cancel /\ StartClose(w, "failed") /\ UNCHANGED staging
             \/ /\ ~cancel
                /\ staging' = staging \cup {AcquisitionOf(w, NextBind(w))}
                /\ Goto(w, "record") /\ UNCHANGED after
          /\ UNCHANGED <<journal, candidates, imported, attempt, unit, acquired, result, dirty, stale>>

\* record_capability_lease; a refused row leaves nothing but the local
\* discard of _discard_unrecorded_acquisition.
RecordLease(w) ==
    /\ pc[w] = "record"
    /\ LET a == AcquisitionOf(w, NextBind(w))
           all == acquired[w] \cup {NextBind(w)}
       IN  \/ /\ MayWrite(w) /\ Event(w)
              /\ active' = active \cup {a}
              /\ acquired' = [acquired EXCEPT ![w] = all]
              /\ Goto(w, IF all = Binds THEN "impl" ELSE "acquire")
              /\ UNCHANGED <<runRow, released, discarded, ckpt, mode, physical, attempt,
                             unit, result, after, dirty, stale>>
           \/ /\ ~MayWrite(w)
              /\ staging' = staging \ {a}
              /\ Goto(w, "release")
              /\ UNCHANGED <<journal, candidates, imported, attempt, invocation>>

\* The commit's answer is lost.  The row is settled against durable state; if
\* the settling read fails as well, the row stays active behind the local discard.
RecordLeaseAnswerLost(w) ==
    /\ pc[w] = "record" /\ FaultOn("lease_answer") /\ MayWrite(w)
    /\ LET a == AcquisitionOf(w, NextBind(w))
       IN  \/ /\ active' = active \cup {a} /\ Event(w)
              /\ acquired' = [acquired EXCEPT ![w] = @ \cup {NextBind(w)}]
              /\ UNCHANGED staging
           \/ /\ active' = active \cup {a} /\ Event(w)
              /\ staging' = staging \ {a} /\ UNCHANGED acquired
           \/ /\ staging' = staging \ {a}
              /\ UNCHANGED <<active, writer, acquired>>
    /\ StartClose(w, "failed")
    /\ UNCHANGED <<runRow, released, discarded, ckpt, mode, candidates, imported, attempt,
                   unit, result, dirty, stale>>

\* StagedWriteWorkspace.commit_all inside the implementation.
ImportCandidate(w) ==
    /\ pc[w] = "impl"
    /\ \E b \in Binds :
          /\ AcquisitionOf(w, b) \in staging
          /\ candidates' = candidates \cup {AcquisitionOf(w, b)}
          /\ imported' = imported \cup {AcquisitionOf(w, b)}
    /\ UNCHANGED <<journal, staging, pc, attempt, invocation>>

ImplReturns(w) ==
    /\ pc[w] = "impl"
    /\ Goto(w, "complete")
    /\ UNCHANGED <<journal, physical, attempt, invocation>>

\* An ordinary exception, InvocationParked, or _CancelRequested from the
\* control check of the effect boundary.
ImplRaises(w) ==
    /\ pc[w] = "impl"
    /\ \/ StartClose(w, "failed")
       \/ StartClose(w, "parked")
       \/ cancel /\ ~lost[w] /\ StartClose(w, "cancelRequested")
    /\ UNCHANGED <<journal, physical, attempt, unit, acquired, result, dirty, stale>>

\* A fenced call of the effect boundary refuses, or its control check sees the latch.
ImplFencedOut(w) ==
    /\ pc[w] = "impl" /\ (lost[w] \/ ~Fenced(w))
    /\ Stop(w)

\* record_completion: an existing checkpoint is compared before the fence.
RecordCompletion(w) ==
    /\ pc[w] = "complete"
    /\ \/ /\ ckpt[unit[w]] # 0
          /\ \E reason \in {"completed", "conflict"} : StartClose(w, reason)
          /\ UNCHANGED <<journal, physical, attempt, unit, acquired, result, dirty, stale>>
       \/ /\ ckpt[unit[w]] = 0 /\ MayWrite(w) /\ Event(w)
          /\ ckpt' = [ckpt EXCEPT ![unit[w]] = held[w]]
          /\ StartClose(w, "completed")
          /\ UNCHANGED <<runRow, rowVars, mode, physical, attempt,
                         unit, acquired, result, dirty, stale>>
       \/ ckpt[unit[w]] = 0 /\ ~MayWrite(w) /\ Stop(w)

\* The same commit with its answer lost: an ordinary exception to _invoke.
RecordCompletionAnswerLost(w) ==
    /\ pc[w] = "complete" /\ FaultOn("completion_answer")
    /\ ckpt[unit[w]] = 0 /\ MayWrite(w) /\ Event(w)
    /\ ckpt' = [ckpt EXCEPT ![unit[w]] = held[w]]
    /\ StartClose(w, "failed")
    /\ UNCHANGED <<runRow, rowVars, mode, physical, attempt,
                   unit, acquired, result, dirty, stale>>

-----------------------------------------------------------------------------
(* _close_acquired, one acquisition at a time.                             *)

Disposition(w) ==
    IF mode = "normal" /\ after[w] = "completed" THEN "release" ELSE "discard"

\* The heartbeat that affirms ownership before each physical close, and after
\* a failed one.
AffirmOwnership(w) ==
    /\ pc[w] = "close" /\ (acquired[w] # {} \/ dirty[w])
    /\ \/ /\ ~lost[w] /\ Fenced(w)
          /\ expired' = FALSE
          /\ Goto(w, IF acquired[w] = {} THEN "settle" ELSE "closing")
          /\ UNCHANGED <<status, owner, epoch, cancel, rowVars, ckpt, writer, mode,
                         physical, attempt, invocation>>
       \/ (lost[w] \/ ~Fenced(w)) /\ Stop(w)

NothingToClose(w) ==
    /\ pc[w] = "close" /\ acquired[w] = {} /\ ~dirty[w]
    /\ Goto(w, "settle")
    /\ UNCHANGED <<journal, physical, attempt, invocation>>

\* capability.close
ClosePhysical(w) ==
    /\ pc[w] = "closing"
    /\ LET a == AcquisitionOf(w, NextAcquired(w))
       IN  /\ staging' = staging \ {a}
           /\ candidates' = IF Disposition(w) = "discard" THEN candidates \ {a} ELSE candidates
    /\ Goto(w, "closeRow")
    /\ UNCHANGED <<journal, imported, attempt, invocation>>

\* capability.close raises: the acquisition is relinquished, its row stays active.
CloseFails(w) ==
    /\ pc[w] = "closing" /\ FaultOn("close_fails")
    /\ acquired' = [acquired EXCEPT ![w] = @ \ {NextAcquired(w)}]
    /\ dirty' = [dirty EXCEPT ![w] = TRUE]
    /\ Goto(w, "close")
    /\ UNCHANGED <<journal, physical, attempt, unit, result, after, stale>>

CloseRow(w) ==
    /\ pc[w] = "closeRow"
    /\ LET a == AcquisitionOf(w, NextAcquired(w))
       IN  \/ /\ CloseLeaseRow(w, a, Disposition(w))
              /\ acquired' = [acquired EXCEPT ![w] = @ \ {NextAcquired(w)}]
              /\ Goto(w, "close")
              /\ UNCHANGED <<physical, attempt, unit, result, after, dirty, stale>>
           \/ CloseLeaseRefused(w, a, Disposition(w)) /\ Stop(w)

\* Every acquisition is settled.  A failed cleanup aborts the attempt; a
\* cancellation that arrived meanwhile is raised by _finish_cleanup; otherwise
\* the reason for closing decides.
Settle(w) ==
    /\ pc[w] = "settle"
    /\ \/ /\ dirty[w]
          /\ writer' = IF after[w] = "failed" /\ MayWrite(w) THEN held[w] ELSE writer
          /\ Goto(w, IF cancelled[w] THEN "intent" ELSE "release")
          /\ UNCHANGED <<runRow, rowVars, ckpt, mode, physical, attempt, invocation>>
       \/ /\ ~dirty[w] /\ (cancelled[w] \/ after[w] = "asyncCancel")
          /\ Goto(w, "intent")
          /\ UNCHANGED <<journal, physical, attempt, invocation>>
       \/ /\ ~dirty[w] /\ ~cancelled[w]
          /\ \/ /\ after[w] = "completed" /\ UnitDone(w, "completed")
                /\ UNCHANGED <<journal, physical, attempt, after>>
             \/ /\ after[w] \in {"failed", "parked"} /\ MayWrite(w) /\ Event(w)
                /\ UnitDone(w, after[w])
                /\ UNCHANGED <<runRow, rowVars, ckpt, mode, physical, attempt, after>>
             \/ after[w] \in {"failed", "parked"} /\ ~MayWrite(w) /\ Stop(w)
             \/ after[w] = "conflict" /\ Stop(w)
             \/ /\ after[w] = "cancelRequested" /\ Goto(w, "cancelling")
                /\ UNCHANGED <<journal, physical, attempt, invocation>>

-----------------------------------------------------------------------------
(* _finish_run, and what runs beside the attempt.                          *)

\* A cancelled attempt in cancellation mode "cancel" records its durable
\* intent under the fence; one in mode "abandon" records nothing.
RecordIntent(w) ==
    /\ pc[w] = "intent"
    /\ \E onCancel \in {"cancel", "abandon"} :
         LET writes == onCancel = "cancel" /\ ~lost[w] /\ Fenced(w)
         IN  /\ cancel' = (cancel \/ writes)
             /\ Goto(w, IF writes /\ ~dirty[w] THEN "finalCancel" ELSE "release")
    /\ UNCHANGED <<status, owner, epoch, expired, rowVars, ckpt, writer, mode,
                   physical, attempt, invocation>>

FinalCancel(w) ==
    /\ pc[w] = "finalCancel"
    /\ ConcludeAs(w, "cancelled")

\* Every local variable of the attempt is gone; the owner id may claim again.
Forget(w) ==
    /\ Goto(w, "idle")
    /\ held' = [held EXCEPT ![w] = 0]
    /\ lost' = [lost EXCEPT ![w] = FALSE]
    /\ cancelled' = [cancelled EXCEPT ![w] = FALSE]
    /\ unit' = [unit EXCEPT ![w] = 1]
    /\ acquired' = [acquired EXCEPT ![w] = {}]
    /\ result' = [result EXCEPT ![w] = Unvisited]
    /\ after' = [after EXCEPT ![w] = "completed"]
    /\ dirty' = [dirty EXCEPT ![w] = FALSE]
    /\ stale' = [stale EXCEPT ![w] = {}]

\* _release_quietly
ReleaseRun(w) ==
    /\ pc[w] = "release"
    /\ owner' = IF Fenced(w) THEN None ELSE owner
    /\ expired' = IF Fenced(w) THEN FALSE ELSE expired
    /\ Forget(w)
    /\ UNCHANGED <<status, epoch, cancel, rowVars, ckpt, writer, mode, physical>>

Heartbeat(w) ==
    /\ pc[w] \notin {"idle", "begin", "intent", "finalCancel", "release"} /\ ~lost[w]
    /\ IF Fenced(w)
         THEN expired' = FALSE /\ UNCHANGED lost
         ELSE lost' = [lost EXCEPT ![w] = TRUE] /\ UNCHANGED expired
    /\ UNCHANGED <<status, owner, epoch, cancel, rowVars, ckpt, writer, mode, physical,
                   pc, held, cancelled, invocation>>

\* The host cancels the attempt's task and the await it is in raises
\* CancelledError; _finish_cleanup joins the cleanup first and raises it after.
AsyncCancel(w) ==
    /\ FaultsOn
    /\ \/ /\ pc[w] = "stale" \/ (pc[w] = "scan" /\ unit[w] \in Units)
          /\ Goto(w, "intent")
          /\ UNCHANGED <<cancelled, after>>
       \/ /\ pc[w] \in {"acquire", "impl"}
          /\ IF lost[w] THEN Goto(w, "release") /\ UNCHANGED after
                        ELSE StartClose(w, "asyncCancel")
          /\ UNCHANGED cancelled
       \/ /\ pc[w] \in {"closing", "closeRow"} /\ ~cancelled[w]
          /\ cancelled' = [cancelled EXCEPT ![w] = TRUE]
          /\ UNCHANGED <<pc, after>>
    /\ UNCHANGED <<journal, physical, held, lost, unit, acquired, result, dirty, stale>>

\* The process dies, or a hard BaseException escapes _drive.
Crash(w) ==
    /\ pc[w] # "idle" /\ FaultsOn
    /\ Forget(w)
    /\ UNCHANGED <<journal, physical>>

-----------------------------------------------------------------------------
(* The environment.                                                        *)

\* The clock passes lease_expires_at.
Expire ==
    /\ owner # None /\ ~expired /\ FaultsOn
    /\ expired' = TRUE
    /\ UNCHANGED <<status, owner, epoch, cancel, rowVars, ckpt, writer, mode,
                   physical, pc, attempt, invocation>>

\* request_cancel by an operator, outside any lease.
RequestCancel ==
    /\ ~cancel
    /\ cancel' = TRUE
    /\ UNCHANGED <<status, owner, epoch, expired, rowVars, ckpt, writer, mode,
                   physical, pc, attempt, invocation>>

-----------------------------------------------------------------------------
Drive(w) ==
    \/ Begin(w) \/ ReadStaleLeases(w) \/ ReconcileStale(w) \/ CloseStaleRow(w)
    \/ ScanControl(w) \/ ScanUnit(w) \/ Conclude(w) \/ ConcludeCancelled(w)
    \/ Acquire(w) \/ RecordLease(w) \/ RecordLeaseAnswerLost(w)
    \/ ImplReturns(w) \/ ImplRaises(w) \/ ImplFencedOut(w)
    \/ RecordCompletion(w) \/ RecordCompletionAnswerLost(w)
    \/ AffirmOwnership(w) \/ NothingToClose(w) \/ ClosePhysical(w) \/ CloseFails(w)
    \/ CloseRow(w) \/ Settle(w) \/ RecordIntent(w) \/ FinalCancel(w) \/ ReleaseRun(w)

Next ==
    \/ \E w \in Workers :
          \/ ClaimRun(w) \/ Drive(w) \/ ImportCandidate(w)
          \/ Heartbeat(w) \/ AsyncCancel(w) \/ Crash(w)
    \/ Expire \/ RequestCancel

Spec == Init /\ [][Next]_vars

\* While some attempt can take a step one is taken (attempts are finite, so each
\* goes on until it crashes), the clock keeps running, and some host keeps
\* claiming whatever is claimable.
Fairness ==
    /\ WF_vars(\E w \in Workers : Drive(w))
    /\ WF_vars(status \in {"pending", "running"} /\ \E w \in Workers : ClaimRun(w))
    /\ WF_vars(Expire)

FairSpec == Spec /\ Fairness

-----------------------------------------------------------------------------
(* Properties.                                                             *)

\* Two attempts never hold the same owner epoch: claim_run never hands out an
\* epoch twice, however workers crash, stall and come back.
UniqueEpochs ==
    \A v, w \in Workers : v # w /\ held[v] = held[w] => held[v] = 0

\* A run that concluded has no acquisition left for anybody to clean up: the
\* rows of crashed, fenced-out and failed cleanups included (transition_run).
ConcludedIsClean == status \in Terminal => active = {}

\* A run that SUCCEEDED has a checkpoint for every unit, whatever mixture of
\* attempts produced them.
SucceededIsComplete == status = "succeeded" => \A u \in Units : ckpt[u] # 0

\* While an implementation runs under the current lease, its workspace is
\* there and its recovery row is open: no zombie's cleanup and no successor's
\* reconciliation touches the live owner's acquisitions.
LiveWorkspace ==
    \A w \in Workers : pc[w] = "impl" /\ Fenced(w) =>
        \A b \in Binds : AcquisitionOf(w, b) \in staging \cap active

\* A candidate that a durable checkpoint may name is never deleted: neither by
\* the attempt that made it, nor by a successor that reconciles its row.
CheckpointedCandidateKept ==
    mode = "normal" =>
        \A a \in imported : ckpt[a[1]] = a[3] => a \in candidates

\* A fenced owner that is executing always finds its run RUNNING, so the status
\* check of _allocate_seq never refuses the rightful owner.
OwnerSeesRunning ==
    \A w \in Workers :
        Fenced(w) /\ pc[w] \notin {"idle", "begin", "release"} => status = "running"

\* Events are written in epoch order: once a successor has written anything,
\* no predecessor's write lands.
EpochOrdered == [][writer' >= writer]_vars

\* SUCCEEDED and CANCELLED are final: no late write, resume or cancellation
\* changes them, and nothing is checkpointed after them.
ConcludedIsFinal ==
    [][(status \in {"succeeded", "cancelled"}) => (status' = status /\ ckpt' = ckpt)]_vars

\* The inductive invariant behind the theorems of RunLifecycleProofs.

Invoking == {"acquire", "record", "impl", "complete"}
Closing == {"close", "closing", "closeRow", "settle"}
BeforeImpl == {"begin", "readStale", "stale", "staleRow", "scan", "acquire", "record"}

\* What each place in the attempt knows about the attempt's own bookkeeping.
ShapeOf(w) ==
    /\ held[w] = 0 <=> pc[w] = "idle"
    /\ pc[w] \in Invoking \cup Closing => unit[w] \in Units
    /\ pc[w] \in {"stale", "staleRow"} => stale[w] # {}
    /\ \A a \in stale[w] : a[3] < held[w]
    /\ pc[w] \in {"acquire", "record"} => acquired[w] # Binds
    /\ pc[w] = "impl" => acquired[w] = Binds
    /\ pc[w] \in {"closing", "closeRow"} => acquired[w] # {}
    /\ pc[w] \in {"idle", "begin", "readStale", "stale", "staleRow", "scan", "settle"} =>
          acquired[w] = {}

Shape == \A w \in Workers : ShapeOf(w)

\* Epochs only grow, and no attempt, event, checkpoint or candidate is ahead
\* of the run row.
EpochsBounded ==
    /\ \A w \in Workers : held[w] <= epoch
    /\ writer <= epoch
    /\ \A u \in Units : ckpt[u] <= epoch
    /\ \A a \in imported : a[3] <= epoch

\* The acquisitions of the attempt that holds the current epoch.
LiveOf(w) ==
    held[w] = epoch =>
        /\ pc[w] \in {"acquire", "record", "impl"} =>
              \A b \in acquired[w] : AcquisitionOf(w, b) \in staging \cap active
        /\ pc[w] = "record" => AcquisitionOf(w, NextBind(w)) \in staging

LiveAcquisitions == \A w \in Workers : LiveOf(w)

\* status_by_unit agrees with the journal.
ProgressOf(w) ==
    /\ \A u \in Units :
          /\ u < unit[w] => result[w][u] # "none"
          /\ result[w][u] = "completed" => ckpt[u] # 0
    /\ pc[w] \in Closing /\ after[w] = "completed" => ckpt[unit[w]] # 0

Progress == \A w \in Workers : ProgressOf(w)

\* An attempt that will discard has not checkpointed, an attempt imports only
\* in its current unit, and what it imported is there until it closes.
CandidatesOf(w) ==
    /\ pc[w] \in Invoking => ckpt[unit[w]] # held[w]
    /\ pc[w] \in Closing /\ after[w] # "completed" => ckpt[unit[w]] # held[w]
    /\ \A a \in imported : a[3] = held[w] =>
          /\ a[1] <= unit[w]
          /\ pc[w] \in BeforeImpl => a[1] < unit[w]
    /\ pc[w] \in {"impl", "complete"} /\ held[w] = epoch =>
          \A a \in imported : a[1] = unit[w] /\ a[3] = held[w] => a \in candidates

Candidates == \A w \in Workers : CandidatesOf(w)

\* In a run of this mode record_completion never fails behind its commit.
CompletionsAnswered == "completion_answer" \notin Faults[mode]

Inductive ==
    /\ TypeOK /\ Shape /\ UniqueEpochs /\ EpochsBounded
    /\ OwnerSeesRunning /\ ConcludedIsClean
    /\ Progress /\ SucceededIsComplete
    /\ LiveAcquisitions
    /\ CompletionsAnswered => Candidates /\ CheckpointedCandidateKept

\* A running run is eventually concluded, whoever crashes or loses its lease.
RunningConcludes == status = "running" ~> status # "running"
=============================================================================
