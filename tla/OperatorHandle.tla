--------------------------- MODULE OperatorHandle --------------------------
(***************************************************************************)
(* Acquisitions of an operator store by a controller (executors/codex.py,  *)
(* linux.py, _supervisor.py, attempt_record.py, git/acquisition.py).       *)
(*                                                                         *)
(* A handle takes its acquisition guard and then the store's retained      *)
(* lock, checks the selection, and launches one contained process.  The    *)
(* process's supervisor inherits copies of both descriptions and keeps     *)
(* them until every child is reaped, whatever becomes of the controller.   *)
(* Recovery closes an acquisition for ever and disposes of it when its     *)
(* guard is free.  A handle under an authorization has one attempt record. *)
(***************************************************************************)
EXTENDS OperatorStore

CONSTANTS
    Handles,        \* acquisitions
    Authorised,     \* those that share the one authorization and its attempt record
    Worlds          \* which acquisitions there are and how many things go wrong, chosen at the start

ASSUME HandleBounds == Authorised \subseteq Handles /\ Worlds \subseteq [handles : SUBSET Handles, troubles : Nat]

VARIABLES
    handle,         \* acquisition -> the handle's progress
    guard,          \* acquisition -> who has a copy of its guard's description
    pipe,           \* acquisition -> the owner pipe of its supervisor
    supervisor, payload,
    closed,         \* acquisitions with a closure ref
    disposed,       \* acquisitions whose payload directory recovery has removed
    record,         \* the attempt record
    sent,           \* acquisitions whose turn was written to the native client
    answered,       \* acquisitions whose native client completed the turn
    world           \* the acquisitions there are and the troubles still to come

processes == <<pipe, supervisor, payload>>
facts == <<closed, disposed, record, sent, answered>>
vars == <<storeVars, handle, guard, processes, facts, world>>

New == [at |-> "new", sealed |-> [generation |-> 0, live |-> <<0, 0>>], closing |-> FALSE]

Init ==
    /\ StoreInit
    /\ handle = [h \in Handles |-> New] /\ guard = [h \in Handles |-> {}]
    /\ pipe = [h \in Handles |-> "none"] /\ supervisor = [h \in Handles |-> "none"]
    /\ payload = [h \in Handles |-> "none"]
    /\ closed = {} /\ disposed = {} /\ record = "absent" /\ sent = {} /\ answered = {} /\ world \in Worlds

Moves(h, from, to) == handle[h].at = from /\ handle' = [handle EXCEPT ![h].at = to]

\* _check_control and _require_open: neither closed here nor closed durably.
MayGoOn(h) == ~ handle[h].closing /\ h \notin closed

\* BindingStore.check_held, _checked_binding: a fresh reading of the selection.
BindingHolds(h) == SelectionHolds(handle[h].sealed)

\* Both parent copies are closed; inherited copies are not touched.
Releases(h) == lock' = lock \ {Copy("handle", h)} /\ guard' = [guard EXCEPT ![h] = @ \ {"handle"}]
storeFacts == <<boot, store, metadata, offline>>

\* AttemptRecord.reserve: an exclusive creation, the authorization's one attempt.
Reserved(h) == IF h \in Authorised THEN record = "absent" /\ record' = "acquired" ELSE UNCHANGED record

\* CodexOperatorProvider.acquire, by an assembly that sealed some published generation.
Acquire(h) ==
    /\ h \in world.handles /\ handle[h].at = "new" /\ h \notin closed /\ Reserved(h)
    /\ \E g \in DOMAIN descriptors :
            handle' = [handle EXCEPT ![h] = [at |-> "acquired", sealed |-> Sealed(g), closing |-> FALSE]]
    /\ UNCHANGED <<storeFacts, lock, guard, processes, closed, disposed, sent, answered, world>>

(***************************************************************************)
(* Materialization.                                                        *)
(***************************************************************************)
\* acquisition_guard
TakeGuard(h) ==
    /\ Moves(h, "acquired", "guarded") /\ ~ handle[h].closing
    /\ guard[h] = {} /\ guard' = [guard EXCEPT ![h] = {"handle"}]
    /\ UNCHANGED <<storeFacts, lock, processes, facts, world>>

\* open_candidate: an unlocked reading, which only refuses early.
OpenCandidate(h) ==
    /\ handle[h].at = "guarded"
    /\ IF MayGoOn(h) /\ BindingHolds(h)
       THEN Moves(h, "guarded", "candidate") /\ UNCHANGED <<lock, guard>>
       ELSE Moves(h, "guarded", "failed") /\ Releases(h)
    /\ UNCHANGED <<storeFacts, processes, facts, world>>

\* acquire_lock, polled while the acquisition is open.
TakeLock(h) ==
    /\ Moves(h, "candidate", "locked") /\ MayGoOn(h)
    /\ lock = {} /\ lock' = {Copy("handle", h)}
    /\ UNCHANGED <<storeFacts, guard, processes, facts, world>>

StopWaiting(h) ==
    /\ Moves(h, "candidate", "failed") /\ ~ MayGoOn(h) /\ Releases(h)
    /\ UNCHANGED <<storeFacts, processes, facts, world>>

\* Variant: holding the lock is taken for acceptance.
LockIsAcceptance(h) == MayGoOn(h)

\* The initial check, then the closure fence again, with nothing awaited in between.
Accepted(h) == MayGoOn(h) /\ BindingHolds(h)

Ready(h) ==
    /\ handle[h].at = "locked"
    /\ IF Accepted(h) THEN Moves(h, "locked", "ready") /\ UNCHANGED <<lock, guard>>
       ELSE Moves(h, "locked", "failed") /\ Releases(h)
    /\ UNCHANGED <<storeFacts, processes, facts, world>>

(***************************************************************************)
(* One execution.                                                          *)
(***************************************************************************)
\* execute and the launcher's probe; before_spawn is the last thing before the spawn.
Spawn(h) ==
    /\ handle[h].at = "ready"
    /\ IF Accepted(h)
       THEN /\ Moves(h, "ready", "spawned")
            /\ supervisor' = [supervisor EXCEPT ![h] = "setup"] /\ pipe' = [pipe EXCEPT ![h] = "open"]
            /\ lock' = lock \cup {Copy("supervisor", h)}
            /\ guard' = [guard EXCEPT ![h] = @ \cup {"supervisor"}]
       ELSE Moves(h, "ready", "ended") /\ UNCHANGED <<supervisor, pipe, lock, guard>>
    /\ UNCHANGED <<storeFacts, payload, facts, world>>

\* The start byte: the same pipe grants the start and witnesses the owner's life.
Grant(h) ==
    /\ Moves(h, "spawned", "granted") /\ ~ handle[h].closing
    /\ pipe' = [pipe EXCEPT ![h] = "granted"]
    /\ UNCHANGED <<storeFacts, lock, guard, supervisor, payload, facts, world>>

\* AttemptRecord.intend, durable before turn/start; when it cannot be written it refuses.
IntentRecorded(h) == IF h \in Authorised THEN record' = "intent" ELSE UNCHANGED record

\* before_turn and before_task_write.
Intend(h) ==
    /\ handle[h].at = "granted" /\ payload[h] = "alive"
    /\ \/ ~ handle[h].closing /\ IntentRecorded(h) /\ Moves(h, "granted", "intended")
       \/ Moves(h, "granted", "refused") /\ UNCHANGED record
    /\ UNCHANGED <<storeFacts, lock, guard, processes, closed, disposed, sent, answered, world>>

\* turn_sent is set as the write begins: the client may hold the bytes.
Send(h) ==
    /\ Moves(h, "intended", "sent") /\ ~ handle[h].closing
    /\ sent' = sent \cup {h}
    /\ UNCHANGED <<storeFacts, lock, guard, processes, closed, disposed, record, answered, world>>

\* The native client completes the turn, and the exchange goes on to its end.
Answer(h) ==
    /\ handle[h].at = "sent" /\ payload[h] = "alive" /\ h \notin answered
    /\ answered' = answered \cup {h}
    /\ UNCHANGED <<storeFacts, handle, lock, guard, processes, closed, disposed, record, sent, world>>

\* stop: a completed, failed, cancelled or expired exchange closes the owner pipe.
Stop(h) ==
    /\ handle[h].at \in {"spawned", "granted", "refused", "intended", "sent"}
    /\ handle' = [handle EXCEPT ![h].at = "stopping"] /\ pipe' = [pipe EXCEPT ![h] = "closed"]
    /\ UNCHANGED <<storeFacts, lock, guard, supervisor, payload, facts, world>>

\* _settle_attempt: from facts; the terminal binding check is part of an acceptance.
Dispatch(h) ==
    IF h \notin sent THEN "not dispatched"
    ELSE IF h \in answered /\ Accepted(h) THEN "completed" ELSE "possibly dispatched"

\* The launcher's finish: the supervisor is waited for before the launch returns.
Joined(h) == supervisor[h] = "exited"

\* The process has ended and was joined; the record is completed, if it can be.
Settle(h) ==
    /\ Moves(h, "stopping", "ended") /\ Joined(h)
    /\ IF h \in Authorised THEN record' \in {record, Dispatch(h)} ELSE UNCHANGED record
    /\ UNCHANGED <<storeFacts, lock, guard, processes, closed, disposed, sent, answered, world>>

(***************************************************************************)
(* Closing.  The closure ref comes first, then the work is joined, then    *)
(* custody is released.                                                    *)
(***************************************************************************)
\* cleanup commits the closure; relinquish leaves it to the successor.
Close(h) ==
    /\ handle[h].at \notin {"new", "gone", "released"} /\ ~ handle[h].closing
    /\ handle' = [handle EXCEPT ![h].closing = TRUE]
    /\ \/ handle[h].at # "acquired" /\ closed' = closed \cup {h}
       \/ UNCHANGED closed
    /\ UNCHANGED <<storeFacts, lock, guard, processes, disposed, record, sent, answered, world>>

\* _release_local_owned: materialization and exchange are cancelled and joined first.
Release(h) ==
    /\ handle[h].closing /\ handle[h].at \in {"acquired", "guarded", "candidate", "locked", "ready", "failed", "ended"}
    /\ handle' = [handle EXCEPT ![h].at = "released"] /\ Releases(h)
    /\ UNCHANGED <<storeFacts, processes, facts, world>>

(***************************************************************************)
(* The supervisor and the namespace it owns.                               *)
(***************************************************************************)
SupervisorExits(h) ==
    /\ supervisor' = [supervisor EXCEPT ![h] = "exited"]
    /\ lock' = lock \ {Copy("supervisor", h)}
    /\ guard' = [guard EXCEPT ![h] = @ \ {"supervisor"}]

\* A buffered permission does not outlive the owner; the deadline covers a stalled one.
SupervisorRefuses(h) ==
    /\ supervisor[h] = "setup" /\ SupervisorExits(h)
    /\ UNCHANGED <<storeFacts, handle, pipe, payload, facts, world>>

SupervisorStarts(h) ==
    /\ supervisor[h] = "setup" /\ pipe[h] = "granted"
    /\ supervisor' = [supervisor EXCEPT ![h] = "running"] /\ payload' = [payload EXCEPT ![h] = "alive"]
    /\ UNCHANGED <<storeFacts, handle, lock, guard, pipe, facts, world>>

PayloadExits(h) ==
    /\ payload[h] \in {"alive", "termed"} /\ payload' = [payload EXCEPT ![h] = "dead"]
    /\ UNCHANGED <<storeFacts, handle, lock, guard, pipe, supervisor, facts, world>>

\* _reap: at a closed pipe, the deadline or the child's exit the supervisor asks the namespace's
\* PID 1 for TERM, and cannot send one itself.
SupervisorTerms(h) ==
    /\ supervisor[h] = "running" /\ supervisor' = [supervisor EXCEPT ![h] = "asking"]
    /\ UNCHANGED <<storeFacts, handle, lock, guard, pipe, payload, facts, world>>

\* supervise_namespace: PID 1 sends TERM and acknowledges it. One that is gone never does: the
\* kernel has ended its namespace with it.
NamespaceTerms(h) ==
    /\ supervisor[h] = "asking" /\ payload[h] = "alive"
    /\ supervisor' = [supervisor EXCEPT ![h] = "terminating"] /\ payload' = [payload EXCEPT ![h] = "termed"]
    /\ UNCHANGED <<storeFacts, handle, lock, guard, pipe, facts, world>>

\* Variant: a client that ignores TERM is waited for.
TermIsEnough(h) == FALSE /\ UNCHANGED vars

\* KILL after the grace, which begins with the acknowledgement; without one there is no KILL.
SupervisorKills(h) ==
    /\ supervisor[h] = "terminating" /\ payload[h] = "termed"
    /\ payload' = [payload EXCEPT ![h] = "dead"]
    /\ UNCHANGED <<storeFacts, handle, lock, guard, pipe, supervisor, facts, world>>

\* Guards stay until waitpid has no child left.
Reaped(h) == payload[h] = "dead"

SupervisorReaps(h) ==
    /\ supervisor[h] \in {"asking", "terminating"} /\ Reaped(h) /\ SupervisorExits(h)
    /\ UNCHANGED <<storeFacts, handle, pipe, payload, facts, world>>

(***************************************************************************)
(* Recovery and failures.                                                  *)
(***************************************************************************)
\* Variant: the directory is removed as soon as the closure stands.
RemovesAtOnce(h) == TRUE

\* reconcile: revoke first, for a stale row whose handle may still be at work.
CommitClosure(h) ==
    /\ handle[h].at # "new" /\ h \notin closed /\ closed' = closed \cup {h}
    /\ UNCHANGED <<storeFacts, handle, lock, guard, processes, disposed, record, sent, answered, world>>

\* dispose_acquisition waits for the guard, so for the handle and its supervisor.
Quiescent(h) == guard[h] = {}

Dispose(h) ==
    /\ h \in closed \ disposed /\ Quiescent(h)
    /\ disposed' = disposed \cup {h}
    /\ UNCHANGED <<storeFacts, handle, lock, guard, processes, closed, record, sent, answered, world>>

Gone(h) == IF handle[h].at \in {"new", "released"} THEN handle[h] ELSE [handle[h] EXCEPT !.at = "gone"]

Trouble == world.troubles > 0 /\ world' = [world EXCEPT !.troubles = @ - 1]

\* The controller dies: its copies and its ends of the pipes are closed.
ControllerCrash ==
    /\ Trouble
    /\ handle' = [h \in Handles |-> Gone(h)]
    /\ lock' = {c \in lock : c[1] # "handle"}
    /\ guard' = [h \in Handles |-> guard[h] \ {"handle"}]
    /\ pipe' = [h \in Handles |-> IF pipe[h] = "none" THEN "none" ELSE "closed"]
    /\ UNCHANGED <<storeFacts, supervisor, payload, facts>>

StoreTrouble == Trouble /\ (HelperKilled \/ StoreRestored) /\ UNCHANGED <<handle, guard, processes, facts>>

Reboot ==
    /\ Trouble /\ PowerLost
    /\ handle' = [h \in Handles |-> Gone(h)]
    /\ guard' = [h \in Handles |-> {}]
    /\ pipe' = [h \in Handles |-> IF pipe[h] = "none" THEN "none" ELSE "closed"]
    /\ supervisor' = [h \in Handles |-> IF supervisor[h] = "none" THEN "none" ELSE "exited"]
    /\ payload' = [h \in Handles |-> IF payload[h] = "none" THEN "none" ELSE "dead"]
    /\ UNCHANGED facts

SupervisorStep(h) ==
    \/ SupervisorRefuses(h) \/ SupervisorStarts(h) \/ SupervisorTerms(h) \/ NamespaceTerms(h)
    \/ SupervisorKills(h) \/ SupervisorReaps(h)
HandleStep(h) ==
    \/ TakeGuard(h) \/ OpenCandidate(h) \/ TakeLock(h) \/ StopWaiting(h) \/ Ready(h)
    \/ Spawn(h) \/ Grant(h) \/ Intend(h) \/ Send(h) \/ Stop(h) \/ Settle(h) \/ Release(h)

Next ==
    \/ StoreStep /\ UNCHANGED <<handle, guard, processes, facts, world>>
    \/ \E h \in Handles :
        \/ Acquire(h) \/ HandleStep(h) \/ Answer(h) \/ Close(h)
        \/ SupervisorStep(h) \/ PayloadExits(h) \/ CommitClosure(h) \/ Dispose(h)
    \/ ControllerCrash \/ StoreTrouble \/ Reboot

\* While something of a handle can go on it does: its supervisor and the namespace's PID 1 are
\* scheduled, its exchange ends at the deadline, its attempt is settled and a closing handle is released.
Fairness ==
    \A h \in Handles : WF_vars(SupervisorStep(h) \/ Stop(h) \/ Settle(h) \/ Release(h))
Spec == Init /\ [][Next]_vars /\ Fairness

-----------------------------------------------------------------------------

\* A native process, from its spawn to its last child, runs with a generation that was
\* published after the last time maintenance exposed the store, and on the very objects
\* it was published for, whatever helper, host or sync failed in between; and the attempt
\* record never says less than what happened to its turn: one authorization sends one turn,
\* which is recorded as intended before and never as not dispatched.
TurnIsLicensed ==
    /\ \A h \in Handles :
        payload[h] \in {"alive", "termed"} =>
            /\ issued[handle[h].sealed.generation] = exposed
            /\ handle[h].sealed.live = identity
    /\ sent \cap Authorised # {} => record \in {"intent", "possibly dispatched", "completed"}
    /\ record = "completed" => answered \cap Authorised # {}
    /\ Cardinality(sent \cap Authorised) <= 1

\* Recovery removes an acquisition's files only when nothing of it runs, and nothing of
\* it runs afterwards, though its controller is dead or lost its lease unawares.
DisposedIsQuiet ==
    \A h \in disposed : payload[h] \notin {"alive", "termed"} /\ handle[h].at \notin {"ready", "spawned", "granted", "intended", "sent"}

\* Custody does not leak: the lock that a dead or closing controller's process retains
\* becomes free.
CustodyIsReleased ==
    \A h \in Handles : (handle[h].at = "gone" \/ handle[h].closing) ~> (lock \cap {Copy("handle", h), Copy("supervisor", h)} = {})
=============================================================================
