------------------------- MODULE ContainedWorkspace -------------------------
(***************************************************************************)
(* The physical life of an invocation's acquisitions: the contained        *)
(* workspace "w" (git/contained.py, git/capture.py, git/pack.py) and, for  *)
(* a scripted READ task, the executor's own acquisition "p", under the     *)
(* closure law of git/acquisition.py.                                      *)
(*                                                                         *)
(* An acquisition has a guard, a lock that a child process inherits and    *)
(* keeps after its host; a payload directory; and a closure ref in the     *)
(* authority's repository, created once and never removed.  Two parties    *)
(* dispose of acquisitions: the host that made them ("close") and the      *)
(* owner that succeeds it ("next").  Every git transaction is a process of *)
(* its own, and one that was started lands even if its host has died.      *)
(***************************************************************************)
EXTENDS Naturals, Sequences, FiniteSets, SequencesExt

CONSTANTS
    Worlds,             \* [mode, peer, input, ops, own, next, trouble]: see MCPiRead
    Tries               \* the attempts of a ref transaction

VARIABLES
    world,
    h,                  \* the host's invocation
    mine,               \* whether the host still owns the run
    view,               \* _WorkspacePhase
    stage,              \* the repository in the workspace: its HEAD, and whether it was edited
    child,              \* the process that works on the acquisitions, "none" without one
    guard,              \* guard[a]: the descriptors that keep a's lock
    payload,            \* payload[a]: none, made or gone
    closed,             \* closed[a]: the closure ref
    candidate,          \* the candidate ref, NoCommit without one
    objects,            \* the commits the authority holds
    pub,                \* the publication under way
    c                   \* c[x]: the disposal of party x

workVars == <<view, stage, child, guard, payload, closed, candidate, objects, pub, c>>

Acqs == {"w", "p"}
Parties == {"close", "next"}
NoCommit == 0
Base == 1
ResetTo == 2
Pi == world.mode = "pi"
Alive == h.at # "dead"
NewHost == [at |-> "new", todo |-> world.ops, oid |-> NoCommit, returned |-> NoCommit, open |-> FALSE,
            ready |-> FALSE, shut |-> FALSE, executed |-> FALSE, poisoned |-> FALSE]
NoSight == [closed |-> FALSE, cand |-> NoCommit]
Idle == [at |-> "idle", acq |-> "", todo |-> <<>>, tries |-> 0, seen |-> NoSight]

WorkInit ==
    /\ view = [entered |-> FALSE, ready |-> FALSE, closed |-> FALSE, head |-> NoCommit]
    /\ stage = [head |-> NoCommit, dirty |-> FALSE] /\ child = "none"
    /\ guard = [a \in Acqs |-> {}] /\ payload = [a \in Acqs |-> "none"] /\ closed = [a \in Acqs |-> FALSE]
    /\ candidate = NoCommit /\ objects = {Base, ResetTo}
    /\ pub = [at |-> "none", tries |-> 0, seen |-> NoCommit]
    /\ c = [x \in Parties |-> Idle]

\* acquisition_guard, _guard_at_namespace.
Lock(a, fd) == guard[a] = {} /\ guard' = [guard EXCEPT ![a] = {fd}]
Unlocked(a, fd) == [guard EXCEPT ![a] = @ \ {fd}]

\* owned_view and _check: this epoch's open view, under the run's control.
Owned == view.ready /\ ~ view.closed
Checks == Owned /\ mine

(***************************************************************************)
(* Child processes.  The launcher joins its child before its caller goes   *)
(* on, and kills it when the caller fails.  Without a host it dies.        *)
(***************************************************************************)
Mounts(kind) == IF kind = "peer" THEN Acqs ELSE {"w"}
Spawned(kind) == /\ child' = kind
                 /\ guard' = [a \in Acqs |-> IF a \in Mounts(kind) THEN guard[a] \cup {"child"} ELSE guard[a]]
Reaped == child' = "none" /\ guard' = [a \in Acqs |-> guard[a] \ {"child"}]

At(x) == h.at = x
Goes(x) == h' = [h EXCEPT !.at = x]

\* The contained Git of capture and reset changes the stage.
Worked(kind) ==
    CASE kind = "capture" /\ stage.dirty -> [head |-> stage.head + 2, dirty |-> FALSE]
      [] kind = "reset" -> [head |-> ResetTo, dirty |-> FALSE]
      [] kind = "stage" -> [head |-> Base, dirty |-> FALSE]
      [] OTHER -> stage

ChildEnds(ok) ==
    /\ child \notin {"none", "peer"} /\ At("waiting") /\ Reaped
    /\ stage' = IF ok THEN Worked(child) ELSE stage
    /\ objects' = IF ok /\ child = "import" THEN objects \cup {h.oid} ELSE objects
    /\ Goes(IF ok THEN child ELSE "failing")
    /\ UNCHANGED <<mine, view, payload, closed, candidate, pub, c>>

ChildKilled ==
    /\ child # "none" /\ (At("failing") \/ ~ Alive) /\ Reaped
    /\ stage' \in {stage, Worked(child)}
    /\ UNCHANGED <<h, mine, view, payload, closed, candidate, objects, pub, c>>

(***************************************************************************)
(* The workspace's own operations.                                         *)
(***************************************************************************)
\* materialize: entered before the first await.
EnterWorkspace ==
    /\ At("acquired")
    /\ IF view.closed THEN Goes("failing") /\ UNCHANGED view
       ELSE Goes("opening") /\ view' = [view EXCEPT !.entered = TRUE]
    /\ UNCHANGED <<mine, stage, child, guard, payload, closed, candidate, objects, pub, c>>

OpenWorkspace ==
    /\ At("opening") /\ Lock("w", "task") /\ Goes("opened")
    /\ UNCHANGED <<mine, view, stage, child, payload, closed, candidate, objects, pub, c>>

\* require_open, then the directory, then populate: WRITE stages it in a contained process.
Populate ==
    /\ At("opened")
    /\ IF closed["w"] THEN Goes("failing") /\ UNCHANGED <<payload, child, guard>>
       ELSE /\ payload' = [payload EXCEPT !["w"] = "made"]
            /\ IF Pi THEN Goes("stage") /\ UNCHANGED <<child, guard>> ELSE Goes("waiting") /\ Spawned("stage")
    /\ UNCHANGED <<mine, view, stage, closed, candidate, objects, pub, c>>

Populated ==
    /\ At("stage") /\ Goes("ready")
    /\ view' = [view EXCEPT !.ready = TRUE, !.head = Base] /\ guard' = Unlocked("w", "task")
    /\ UNCHANGED <<mine, stage, child, payload, closed, candidate, objects, pub, c>>

\* A WRITE executor edits the stage between two operations.
Edit ==
    /\ At("ready") /\ h.todo # <<>> /\ Head(h.todo) = "edit"
    /\ h' = [h EXCEPT !.todo = Tail(@)] /\ stage' = [stage EXCEPT !.dirty = TRUE]
    /\ UNCHANGED <<mine, view, child, guard, payload, closed, candidate, objects, pub, c>>

\* reset_to and commit_all: _check, and use takes the guard.
Begin ==
    /\ At("ready") /\ h.todo # <<>> /\ Head(h.todo) \in {"reset", "capture"}
    /\ Goes(IF Checks THEN "using" ELSE "failing")
    /\ UNCHANGED <<mine, workVars>>

Use ==
    /\ At("using") /\ Lock("w", "task") /\ Goes("used")
    /\ UNCHANGED <<mine, view, stage, child, payload, closed, candidate, objects, pub, c>>

\* use, under the guard: the view again, the closure, and the directory.
Usable == Owned /\ ~ closed["w"] /\ payload["w"] = "made"

\* A published candidate ends a capture and forbids a reset.
Operate ==
    /\ At("used") /\ ~ Pi
    /\ IF ~ Usable THEN Goes("failing") /\ UNCHANGED <<child, guard, view>>
       ELSE IF candidate # NoCommit
       THEN /\ IF Head(h.todo) = "capture" /\ Checks
               THEN /\ h' = [h EXCEPT !.at = "left", !.oid = candidate, !.returned = candidate]
                    /\ view' = [view EXCEPT !.head = candidate]
               ELSE Goes("failing") /\ UNCHANGED view
            /\ UNCHANGED <<child, guard>>
       ELSE /\ IF Checks THEN Spawned(Head(h.todo)) /\ Goes("waiting") ELSE Goes("failing") /\ UNCHANGED <<child, guard>>
            /\ UNCHANGED view
    /\ UNCHANGED <<mine, stage, payload, closed, candidate, objects, pub, c>>

ResetDone ==
    /\ At("reset")
    /\ IF Checks THEN Goes("left") /\ view' = [view EXCEPT !.head = ResetTo] ELSE Goes("failing") /\ UNCHANGED view
    /\ UNCHANGED <<mine, stage, child, guard, payload, closed, candidate, objects, pub, c>>

\* capture: the commit's pack is exported by a second process, verified and imported by a third.
Captured ==
    /\ At("capture")
    /\ IF Checks THEN Spawned("export") /\ h' = [h EXCEPT !.at = "waiting", !.oid = stage.head]
                 ELSE Goes("failing") /\ UNCHANGED <<child, guard>>
    /\ UNCHANGED <<mine, view, stage, payload, closed, candidate, objects, pub, c>>

Exported ==
    /\ At("export") /\ Spawned("import") /\ Goes("waiting")
    /\ UNCHANGED <<mine, view, stage, payload, closed, candidate, objects, pub, c>>
Imported ==
    /\ At("import") /\ Goes("imported") /\ guard' = Unlocked("w", "task")
    /\ UNCHANGED <<mine, view, stage, child, payload, closed, candidate, objects, pub, c>>

Publish ==
    /\ At("imported")
    /\ IF Checks THEN Goes("publishing") /\ pub' = [at |-> "read", tries |-> 0, seen |-> NoCommit]
                 ELSE Goes("failing") /\ UNCHANGED pub
    /\ UNCHANGED <<mine, view, stage, child, guard, payload, closed, candidate, objects, c>>

\* publish, one attempt: require_open and the candidate, then the transaction.
PublishReads ==
    /\ Alive /\ pub.at = "read"
    /\ pub' = [pub EXCEPT !.at = IF closed["w"] \/ candidate \notin {NoCommit, h.oid} THEN "refused" ELSE "txn",
                          !.seen = candidate]
    /\ UNCHANGED <<h, mine, view, stage, child, guard, payload, closed, candidate, objects, c>>

\* Variant: the closure was read before, and the transaction names only the candidate.
CandidateAlone == candidate = pub.seen
\* The transaction verifies that the closure is absent and the candidate is what was read.
Publishes == ~ closed["w"] /\ candidate = pub.seen

\* A transaction may also lose the repository's own locks.
Busy == world.trouble = "busy"

PublishLands(busy) ==
    /\ pub.at = "txn" /\ (busy => Busy)
    /\ IF Publishes /\ ~ busy THEN candidate' = h.oid /\ pub' = [pub EXCEPT !.at = "done"]
       ELSE /\ UNCHANGED candidate
            /\ pub' = [pub EXCEPT !.tries = @ + 1, !.at = IF pub.tries + 1 >= Tries THEN "refused" ELSE "read"]
    /\ UNCHANGED <<h, mine, view, stage, child, guard, payload, closed, objects, c>>

Published ==
    /\ At("publishing") /\ pub.at \in {"done", "refused"}
    /\ pub' = [pub EXCEPT !.at = "none"]
    /\ IF pub.at = "done" THEN /\ h' = [h EXCEPT !.at = "left", !.returned = h.oid]
                               /\ view' = [view EXCEPT !.head = h.oid]
                          ELSE Goes("failing") /\ UNCHANGED view
    /\ UNCHANGED <<mine, stage, child, guard, payload, closed, candidate, objects, c>>

\* Leaving use closes the host's descriptor, of a finished operation or a failed one.
Leave ==
    /\ At("left") /\ guard' = Unlocked("w", "task")
    /\ h' = [h EXCEPT !.at = "ready", !.todo = Tail(@)]
    /\ UNCHANGED <<mine, view, stage, child, payload, closed, candidate, objects, pub, c>>

\* Variant: only a finished operation closes it.
FailKeepsGuard ==
    /\ At("failing") /\ child = "none" /\ pub.at \notin {"read", "txn"} /\ Goes("over")
    /\ UNCHANGED <<mine, workVars>>

\* A failed operation has joined its child and its transaction.
Fail ==
    /\ At("failing") /\ child = "none" /\ pub.at \notin {"read", "txn"} /\ Goes("over")
    /\ guard' = Unlocked("w", "task") /\ pub' = [pub EXCEPT !.at = "none"]
    /\ UNCHANGED <<mine, view, stage, child, payload, closed, candidate, objects, c>>
Finish ==
    /\ At("ready") /\ h.todo = <<>> /\ ~ Pi /\ Goes("over") /\ UNCHANGED <<mine, workVars>>

WorkspaceStep ==
    \/ EnterWorkspace \/ OpenWorkspace \/ Populate \/ Populated \/ Edit \/ Begin \/ Use \/ Operate \/ ResetDone
    \/ Captured \/ Exported \/ Imported \/ Publish \/ PublishReads \/ Published \/ Leave \/ Fail \/ Finish
    \/ \E ok \in BOOLEAN : (~ ok => world.trouble = "child") /\ ChildEnds(ok)

(***************************************************************************)
(* dispose_acquisition: revoke, wait for the guard, remove.                *)
(***************************************************************************)
Runs(x) == x = "next" \/ Alive
Disposition(x) == IF x = "next" THEN world.next ELSE world.own
Discards(x) == c[x].acq = "w" /\ ~ Pi /\ Disposition(x) = "discard"
Party(x, at) == c' = [c EXCEPT ![x].at = at]

\* commit, one attempt: the closure and the candidate, then the transaction on both.
DisposeReads(x) ==
    /\ Runs(x) /\ c[x].at \in {"fence", "read"}
    /\ c' = [c EXCEPT ![x].at = IF @ = "fence" THEN "fencing" ELSE "txn",
                      ![x].seen = [closed |-> closed[c[x].acq], cand |-> candidate]]
    /\ UNCHANGED <<h, mine, view, stage, child, guard, payload, closed, candidate, objects, pub>>

Revokes(x) == closed[c[x].acq] = c[x].seen.closed /\ (c[x].acq = "w" => candidate = c[x].seen.cand)
DisposeLands(x, busy) ==
    /\ c[x].at \in {"fencing", "txn"} /\ (busy => Busy)
    /\ IF Revokes(x) /\ ~ busy
       THEN /\ closed' = [closed EXCEPT ![c[x].acq] = TRUE]
            /\ candidate' = IF Discards(x) THEN NoCommit ELSE candidate
            /\ c' = [c EXCEPT ![x].at = IF @ = "fencing" THEN "join" ELSE "guard", ![x].tries = 0]
       ELSE /\ UNCHANGED <<closed, candidate>>
            /\ c' = [c EXCEPT ![x].tries = @ + 1,
                              ![x].at = IF c[x].tries + 1 >= Tries THEN (IF @ = "fencing" THEN "unfenced" ELSE "failed") ELSE IF @ = "fencing" THEN "fence" ELSE "read"]
    /\ UNCHANGED <<h, mine, view, stage, child, guard, payload, objects, pub>>

\* Variant: the payload of a revoked acquisition is removed without its guard.
DisposeUnguarded(x) ==
    /\ Runs(x) /\ c[x].at = "guard" /\ Party(x, "remove")
    /\ UNCHANGED <<h, mine, view, stage, child, guard, payload, closed, candidate, objects, pub>>

DisposeGuard(x) ==
    /\ Runs(x) /\ c[x].at = "guard" /\ Lock(c[x].acq, x) /\ Party(x, "remove")
    /\ UNCHANGED <<h, mine, view, stage, child, payload, closed, candidate, objects, pub>>
\* _remove_at_namespace
RemovePayload(x) ==
    /\ Runs(x) /\ c[x].at = "remove" /\ Party(x, "done")
    /\ payload' = [payload EXCEPT ![c[x].acq] = IF @ = "made" THEN "gone" ELSE @]
    /\ guard' = Unlocked(c[x].acq, x)
    /\ UNCHANGED <<h, mine, view, stage, child, closed, candidate, objects, pub>>

\* reconcile: the successor takes the rows of the stale epoch one by one.
Reconcile ==
    /\ ~ mine /\ c["next"].at \in {"idle", "done", "failed"}
    /\ c["next"].at = "idle" => h.at # "new"
    /\ LET rest == IF c["next"].at = "idle" THEN (IF Pi THEN <<"p", "w">> ELSE <<"w">>) ELSE c["next"].todo
       IN  rest # <<>> /\ c' = [c EXCEPT !["next"] = [Idle EXCEPT !.at = "read", !.acq = Head(rest), !.todo = Tail(rest)]]
    /\ UNCHANGED <<h, mine, view, stage, child, guard, payload, closed, candidate, objects, pub>>

\* ContainedWorkspaceProvider.close
CloseWorkspace ==
    /\ Alive /\ mine /\ ~ view.closed /\ c["close"].at \in {"idle", "done", "failed"}
    /\ At("over") \/ (world.trouble = "close" /\ h.at \notin {"new", "probing", "qualified"})
    /\ Pi => h.shut
    /\ view' = [view EXCEPT !.closed = TRUE]
    /\ c' = IF view.entered THEN [c EXCEPT !["close"] = [Idle EXCEPT !.at = "read", !.acq = "w"]] ELSE c
    /\ UNCHANGED <<h, mine, stage, child, guard, payload, closed, candidate, objects, pub>>

DisposalStep(x) ==
    DisposeReads(x) \/ DisposeGuard(x) \/ RemovePayload(x) \/ \E busy \in BOOLEAN : DisposeLands(x, busy)
=============================================================================
