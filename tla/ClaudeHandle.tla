---------------------------- MODULE ClaudeHandle ----------------------------
(***************************************************************************)
(* The Claude operator provider and its handle (claude_provider.py): an    *)
(* acquisition reserves the authorization's one attempt, takes custody of  *)
(* the operator's store, runs one task, settles its record, and releases   *)
(* what it holds only when nothing it started still runs.  A crash leaves  *)
(* the record, and the next acquisition finds it.                          *)
(***************************************************************************)
EXTENDS ClaudeMaintenance

vars == <<world, streamVars, readVars, m, outcome>>

Custody == {"guard", "lock", "credential"}
NewHandle == [at |-> "new", closed |-> FALSE, closing |-> "", entered |-> FALSE, fds |-> {}, intent |-> FALSE,
              settled |-> FALSE, silent |-> FALSE, fence |-> FALSE, released |-> FALSE, disposed |-> FALSE]

Init ==
    /\ world \in Worlds
    /\ StreamInit
    /\ t = Fresh /\ worker = "idle" /\ work = [began |-> 0, caught |-> {}] /\ lost = {} /\ sent = 0
    /\ h = [NewHandle EXCEPT !.at = IF Task THEN "new" ELSE "maintaining"]
    /\ record = [phase |-> "none", dispatch |-> "", started |-> 0, completed |-> 0]
    /\ m = MFresh /\ outcome = "none"

\* acquire: AttemptRecord.reserve is exclusive.
Acquire ==
    /\ h.at = "new"
    /\ IF record.phase = "none"
       THEN record' = [record EXCEPT !.phase = "acquired"] /\ h' = [h EXCEPT !.at = "acquired"] /\ UNCHANGED outcome
       ELSE h' = [h EXCEPT !.at = "over"] /\ outcome' = "refused" /\ UNCHANGED record
    /\ UNCHANGED <<streamVars, t, worker, work, lost, sent>>

\* materialize: the guard first, then the store's lock, its binding and its credential.
Materialize ==
    /\ h.at = "acquired" /\ ~ h.closed
    /\ h' = [h EXCEPT !.at = "opening", !.entered = TRUE, !.fds = {"guard"}]
    /\ UNCHANGED <<streamVars, t, worker, work, lost, record, sent, outcome>>

\* Variant: an outcome that is no success was not dispatched.
OnlySuccessDispatches(o) == IF o = "success" THEN "completed" ELSE "not dispatched"

\* _settle
Dispatch(o) ==
    IF ~ h.intent THEN "not dispatched" ELSE IF o = "success" THEN "completed" ELSE "possibly dispatched"
Settles(o, f) ==
    record' = IF h.settled \/ h.silent THEN record
              ELSE Fate(f, [record EXCEPT !.phase = "outcome", !.dispatch = Dispatch(o)])

\* The end of an operation of the handle: the record is settled, once.
Concludes(o) ==
    \E f \in Flaky :
        /\ Settles(o, f)
        /\ outcome' = IF o = "success" /\ ~ Retained(f) THEN "raised" ELSE o
        /\ h' = [h EXCEPT !.at = "over", !.settled = TRUE]

Opened ==
    /\ h.at = "opening"
    /\ IF Check THEN h' = [h EXCEPT !.at = "ready", !.fds = Custody] /\ UNCHANGED <<record, outcome>>
       ELSE Concludes("raised")
    /\ UNCHANGED <<streamVars, t, worker, work, lost, sent>>

Execute ==
    /\ h.at = "ready" /\ ~ h.closed
    /\ IF Check THEN h' = [h EXCEPT !.at = "running"] /\ UNCHANGED <<record, outcome>> ELSE Concludes("raised")
    /\ UNCHANGED <<streamVars, t, worker, work, lost, sent>>

\* Variant: a drained conversation is a success whatever its client's exit was.
DrainedSucceeds == t.at = "drained" /\ t.calls \in 1 .. CallLimit /\ t.calls = t.done

\* run_read_transaction and _run, once every owned task has joined.
Succeeds == t.at = "drained" /\ clean /\ t.calls \in 1 .. CallLimit /\ t.calls = t.done

Concluded ==
    /\ h.at = "running" /\ Ended /\ ended /\ worker # "running"
    /\ Concludes(IF ~ Check THEN "raised" ELSE IF Succeeds THEN "success" ELSE "failure")
    /\ UNCHANGED <<streamVars, t, worker, work, lost, sent>>

(***************************************************************************)
(* close and relinquish.                                                   *)
(***************************************************************************)
Close(kind) ==
    /\ ~ h.closed /\ h.at \notin {"new", "maintaining"} /\ outcome # "refused"
    /\ h.at = "over" \/ (kind = "close" /\ world.trouble = "close") \/ (kind = "relinquish" /\ "control" \in lost)
    /\ h' = [h EXCEPT !.closed = TRUE, !.closing = kind]
    /\ UNCHANGED <<streamVars, t, worker, work, lost, record, sent, outcome>>

\* closure.commit, before anything is released.
Fence ==
    /\ h.closing = "close" /\ h.entered /\ ~ h.fence
    /\ h' = [h EXCEPT !.fence = TRUE]
    /\ UNCHANGED <<streamVars, t, worker, work, lost, record, sent, outcome>>

\* Variant: the handle's own task is joined, its materialization is not.
TaskIsJoined == h.at # "running"

\* _release_owned: materialization and task are joined before their custody goes.
Joined == h.at \notin {"opening", "running"}

Release ==
    /\ h.closed /\ ~ h.released /\ Joined
    /\ h.closing = "close" /\ h.entered => h.fence
    /\ \E f \in Flaky : Settles("none", f)
    /\ h' = [h EXCEPT !.released = TRUE, !.settled = TRUE, !.fds = {}]
    /\ UNCHANGED <<streamVars, t, worker, work, lost, sent, outcome>>

Dispose ==
    /\ h.closing = "close" /\ h.entered /\ h.released /\ ~ h.disposed
    /\ h' = [h EXCEPT !.disposed = TRUE]
    /\ UNCHANGED <<streamVars, t, worker, work, lost, record, sent, outcome>>

(***************************************************************************)
(* What the host may lose, at most one thing in a world, and its clock.    *)
(***************************************************************************)
Loses(what) ==
    /\ what \notin lost /\ (world.trouble = what \/ (what = "late" /\ lost # {}))
    /\ outcome = "none" /\ h.at # "new"
    /\ lost' = lost \cup {what}
    /\ UNCHANGED <<streamVars, t, worker, work, h, record, sent, m, outcome>>

\* The host of an acquisition dies: the kernel and the supervisor end what it ran, and it
\* starts again.  A maintenance session leaves nothing behind that a restart could find.
Crash ==
    /\ world.trouble = "crash" /\ h.at \notin {"new", "over", "maintaining"}
    /\ h' = NewHandle /\ t' = Fresh /\ worker' = "idle" /\ Kill
    /\ UNCHANGED <<work, lost, record, sent, m, outcome>>

Streams ==
    /\ StreamStep
    /\ work' = IF worker \notin {"running", "finished"} THEN work
               ELSE [work EXCEPT !.caught = @ \cup (IF Len(held') > Len(held) THEN {Head(wire)} ELSE {})
                                             \cup (IF captured' # captured THEN {Rec("end", 0, "")} ELSE {})]
    /\ UNCHANGED <<t, worker, lost, h, record, sent, m, outcome>>

HandleStep ==
    /\ \/ Acquire \/ Materialize \/ Opened \/ Execute \/ Concluded \/ Fence \/ Release \/ Dispose
       \/ \E kind \in {"close", "relinquish"} : Close(kind)
    /\ UNCHANGED m

Next ==
    /\ \/ HandleStep \/ Streams \/ MaintenanceStep \/ Crash
       \/ TransactionStep /\ UNCHANGED <<m, outcome>>
       \/ \E what \in {"control", "late", "binding"} : Loses(what)
    /\ UNCHANGED world

\* The event loop schedules every task that can run, the client answers, reads complete, the
\* deadline comes, and the walker closes what it acquired.
Fairness == WF_vars(HandleStep /\ UNCHANGED world) /\ WF_vars(Streams /\ UNCHANGED world)
            /\ WF_vars(MaintenanceStep /\ UNCHANGED world)
            /\ WF_vars(TransactionStep /\ UNCHANGED <<m, outcome, world>>)
            /\ WF_vars(Loses("late") /\ UNCHANGED world)
Spec == Init /\ [][Next]_vars /\ Fairness

(***************************************************************************)
(* Properties.                                                             *)
(***************************************************************************)
Harmless(r) ==
    /\ r.kind \in {"ui", "side", "lifecycle", "thinking", "retry", "heartbeat", "rate", "assistant", "background"}
    /\ r.body # "foreign"
    /\ r.kind = "lifecycle" => r.body # "cancelled"
    /\ r.kind \in {"rate", "assistant"} => r.body # "rejected"
\* A tool result repeated inside the turn is display too.
Tolerated(r) == Harmless(r) \/ r = Rec("user", 0, "") \/ (r.kind = "side" /\ r.body = "foreign")

\* A published success is one whole exchange: the user message went out once, every admitted call
\* was run and answered, the observations were repeated after the result, and the client exited
\* cleanly after its stream was read to the end (run_read_transaction, _run).  A maintenance
\* session joins only on such an end, and asks for the mode twice only across the pause.
SuccessIsWhole ==
    /\ outcome = "success" =>
        /\ sent = 1 /\ t.accepted /\ t.n = 7 /\ work.began = t.calls /\ t.done = t.calls /\ t.calls > 0
        /\ eof /\ clean /\ ~ torn /\ wire \o held \o recs = <<>>
    /\ outcome = "joined" => m.at = "completed" /\ eof /\ clean /\ wire \o held \o recs = <<>>
    /\ world.mode = "observe" /\ m.n = 2 /\ m.at \notin {"spacing", "refused"} => m.elapsed

\* A success is a whole exchange in which the client never said one of the records the protocol
\* refuses, and a session that joins saw the reply it asked for among display records only.
SuccessIsEarned ==
    /\ SuccessIsWhole
    /\ outcome = "success" => \A r \in Range(Said) : Tolerated(r)
    /\ outcome = "joined" /\ world.mode # "login" =>
        /\ world.replies[m.n] = "match"
        /\ \A r \in Range(Said) : r.kind = "ui" /\ r.body # "foreign"

\* Over every crash and restart one authorization sends at most one user message; from before it
\* goes out the durable record says it may have been, no later record takes that back, and no
\* WRITE worker began that the record does not count (attempt_record.py, _before_user, _settle).
DispatchIsAccounted ==
    /\ sent <= 1
    /\ sent = 1 => record.phase = "intent" \/ (record.phase = "outcome" /\ record.dispatch # "not dispatched")
    /\ record.dispatch = "completed" => sent = 1 /\ record.completed = record.started
    /\ world.mode = "write" => work.began <= record.started

\* Once a worker may have changed its workspace, no write of the conversation is refused for the
\* input budget: its reply and the controls after the result were reserved (_mcp).  And its
\* result is released only if everything captured while it ran was display metadata: a second
\* call, a result, or the end of the stream wins over it (_read_worker).
WorkIsSettled ==
    /\ [](t.why = "bound" => t.calls = 0)
    /\ [][t'.done > t.done => \A r \in work.caught : Harmless(r)]_vars

\* The store's lock, the guard and the credential are held for as long as the native client, a
\* worker or the acquisition itself runs, and the acquisition is disposed of only behind its
\* fence (_release_owned, _close_owned).
CustodyOutlivesWork ==
    /\ (h.at = "running" /\ ~ ended) \/ worker = "running" => h.fds = Custody
    /\ h.released => h.at \notin {"opening", "running"}
    /\ h.disposed => h.fence /\ h.fds = {}

\* Every acquisition is released and every session reports.
EverythingEnds == <>(h.released \/ outcome \in {"refused", "joined", "incomplete"})
=============================================================================
