----------------------------- MODULE ClaudeRead -----------------------------
(***************************************************************************)
(* One task on the native Claude client (executors/claude_read.py): three  *)
(* observations of the client's mode, the registration of the host's tool, *)
(* one user message, the tool calls it admits, one accepted result, the    *)
(* three observations again, and the drain of the stream to its end.       *)
(*                                                                         *)
(* Every step is what the code does between two awaits.  A record framed   *)
(* between two records of one step is appended behind them, so taking one  *)
(* record at a time commutes with the code's loops.                        *)
(***************************************************************************)
EXTENDS ClaudeStream

CONSTANTS
    WriteCalls,         \* call_limit of the WRITE recipe; the READ recipe admits one
    StartupInput,       \* STARTUP_INPUT_BYTES, in writes
    PostInput,          \* POST_RESULT_INPUT_BYTES
    MaxReply            \* callback_reply_bytes: the largest reply to a call

\* POST_RESULT_INPUT_BYTES is the length of the three controls that follow a result.
ASSUME InputAssumption ==
    /\ StartupInput \in Nat /\ MaxReply \in Nat /\ PostInput \in Nat /\ PostInput >= 3
    /\ \A w \in Worlds : w.input \in Nat

VARIABLES
    t,                  \* the transaction
    worker,             \* idle, running, finished, failed or joined
    work,               \* history: the calls a worker began, and the records captured meanwhile
    lost,               \* what the host lost: control, its deadline, the store's binding
    h,                  \* the handle that runs it, see ClaudeHandle
    record,             \* its durable attempt record
    sent                \* history: user messages written, over every restart

readVars == <<t, worker, work, lost, h, record, sent>>

CallLimit == IF world.mode = "write" THEN WriteCalls ELSE 1
Check == lost = {} /\ ~ h.closed

Fresh == [at |-> "control", n |-> 1, st |-> "startup", boot |-> FALSE, init |-> FALSE, hs |-> 0, ids |-> {},
          call |-> 0, calls |-> 0, done |-> 0, over |-> FALSE, ui |-> 0, accepted |-> FALSE,
          spent |-> 0, startup |-> 0, post |-> 0, why |-> ""]

Refuse(d, why) == [d EXCEPT !.at = "refused", !.why = why]
Ended == t.at \in {"drained", "refused"}

(***************************************************************************)
(* The rules for one record, as functions of the transaction.              *)
(***************************************************************************)
\* _quiet and _callback_barrier run at these.
Quiets == {"control", "quiet", "barrier", "worker", "last"}

\* _lifecycle
Lifecycle(d, r) ==
    IF d.st = "startup" \/ r.body \in {"foreign", "cancelled"} \/ (r.body = "completed" /\ d.calls # d.done)
    THEN Refuse(d, "lifecycle")
    ELSE [d EXCEPT !.over = @ \/ r.body = "completed"]

\* _ui: counted.
Ui(d, r) == IF r.body = "foreign" \/ d.ui >= UiRecords THEN Refuse(d, "ui") ELSE [d EXCEPT !.ui = @ + 1]
\* _inert_sideband: correlated once a session is known.
Display(d, r) == IF r.body = "foreign" /\ d.boot THEN Refuse(d, "system") ELSE d
\* _thinking_tokens
Thinking(d, r) == IF d.st = "startup" \/ r.body = "foreign" THEN Refuse(d, "thinking") ELSE d
\* _api_retry, _heartbeat: only while the turn runs, in the session it named.
Running(d, r) == IF d.st # "dispatched" \/ ~ d.init \/ r.body = "foreign" THEN Refuse(d, "running") ELSE d
\* _rate_limit_event, _message
InSession(d, r) == IF ~ d.init \/ r.body \in {"foreign", "rejected"} THEN Refuse(d, "session") ELSE d

Sideband(d, r) ==
    CASE r.kind = "ui" -> Ui(d, r)
      [] r.kind = "side" -> Display(d, r)
      [] r.kind = "lifecycle" -> Lifecycle(d, r)
      [] r.kind = "thinking" -> Thinking(d, r)
      [] r.kind \in {"retry", "heartbeat"} -> Running(d, r)
      [] r.kind \in {"rate", "assistant"} -> InSession(d, r)
      [] r.kind = "background" -> d

\* Which records a loop leaves to the rules above.
Passes(d, r) ==
    \/ r.kind \in {"ui", "side", "lifecycle", "thinking", "retry"}
    \/ r.kind = "rate" /\ d.at # "handshake"
    \/ r.kind = "heartbeat" /\ d.at \in Quiets \cup {"body"}
    \/ r.kind = "assistant" /\ (d.at = "body" \/ (d.at \in Quiets /\ d.st = "dispatched"))
    \/ r.kind = "background" /\ d.boot /\ r.body # "foreign" /\ d.at \in Quiets \cup {"await", "drain"}

\* _write: the bytes are spent before they are delivered.
Written(d, cost, budget) ==
    LET e == [d EXCEPT !.spent = @ + cost,
                       !.startup = IF budget = "startup" THEN @ + cost ELSE @,
                       !.post = IF budget = "post" THEN @ + cost ELSE @]
    IN  IF e.spent > world.input \/ e.startup > StartupInput \/ e.post > PostInput THEN Refuse(e, "bound") ELSE e

\* _mcp, the registration: three requests, in order, under ids never seen.
HandshakeStep(d, r) ==
    IF r.id \in d.ids \/ d.hs >= 3 \/ r.body # Handshake[d.hs + 1] THEN Refuse(d, "handshake")
    ELSE Written([d EXCEPT !.hs = @ + 1, !.ids = @ \cup {r.id}], 1, "startup")

\* _mcp, a call: only of this turn, before its completion, within the limit.
Call(d, r) ==
    IF \/ r.id \in d.ids \/ d.over \/ d.st # "dispatched" \/ ~ d.init \/ r.body # "call" \/ d.calls >= CallLimit
    THEN Refuse(d, "call")
    ELSE [d EXCEPT !.ids = @ \cup {r.id}, !.call = r.id, !.at = "barrier"]

\* The control that follows, or what follows the last one.
Following(d) ==
    CASE d.n \in {1, 2, 3, 5, 6} -> [d EXCEPT !.n = @ + 1, !.at = "control"]
      [] d.n = 4 -> [d EXCEPT !.at = IF d.hs = 3 THEN "quiet" ELSE "handshake"]
      [] d.n = 7 -> [d EXCEPT !.at = "last"]

\* _control: the reply, and after an initialize that registers or follows the result, a snapshot.
Replied(d, r) ==
    IF Verdict(r, d.n) # "match" THEN Refuse(d, "verdict")
    ELSE IF d.n \in {4, 5} THEN [d EXCEPT !.at = "snapshot"] ELSE Following(d)
Snapshot(d, r) ==
    IF r.kind # "background" \/ (d.boot /\ r.body = "foreign") THEN Refuse(d, "snapshot")
    ELSE Following([d EXCEPT !.boot = TRUE])

\* _body, the records of the turn itself.
Named(d, r) == IF d.init \/ r.body = "foreign" THEN Refuse(d, "init") ELSE [d EXCEPT !.init = TRUE]
ToolResult(d, r) == IF ~ d.init \/ r.body = "foreign" \/ d.done \notin 1 .. CallLimit THEN Refuse(d, "message") ELSE d
Result(d, r) ==
    IF ~ d.init \/ r.body # "success" THEN Refuse(d, "result")
    ELSE [d EXCEPT !.accepted = TRUE, !.st = "terminal", !.n = 5, !.at = "control"]

Rule(d, r) ==
    CASE d.at \in {"await", "snapshot"} /\ d.n = 4 /\ r.kind = "mcp" -> HandshakeStep(d, r)
      [] d.at = "await" /\ ~ (d.n = 4 /\ r.kind = "mcp") -> Replied(d, r)
      [] d.at = "snapshot" /\ ~ (d.n = 4 /\ r.kind = "mcp") -> Snapshot(d, r)
      [] d.at = "handshake" -> IF r.kind # "mcp" THEN Refuse(d, "system") ELSE
            LET e == HandshakeStep(d, r) IN IF e.at = "handshake" THEN Following(e) ELSE e
      [] d.at = "body" /\ r.kind = "mcp" -> Call(d, r)
      [] d.at = "body" /\ r.kind = "init" -> Named(d, r)
      [] d.at = "body" /\ r.kind = "user" -> ToolResult(d, r)
      [] d.at = "body" /\ r.kind = "result" -> Result(d, r)
      [] OTHER -> Refuse(d, "barrier")

\* A completion before any call is no quiet stream.
Premature(d) == d.at \in Quiets /\ d.over /\ d.st = "dispatched" /\ d.done = 0

Taken(d, r) ==
    IF r.kind = "damaged" THEN Refuse(d, "record")
    ELSE IF ~ Passes(d, r) THEN Rule(d, r)
    ELSE LET e == Sideband(d, r) IN IF Premature(e) THEN Refuse(e, "lifecycle") ELSE e

(***************************************************************************)
(* The durable attempt record (executors/attempt_record.py).  A write that *)
(* fails may have replaced the file or not.                                *)
(***************************************************************************)
Flaky == IF world.trouble = "disk" THEN {"kept", "replaced", "failed"} ELSE {"kept"}
Retained(f) == f = "kept"
\* The record after a write with this fate.
Fate(f, next) == IF f = "failed" THEN record ELSE next
\* Only WRITE attempts observe their callbacks, and a failure silences the record.
Silenced(f) == h.silent \/ (world.mode = "write" /\ ~ Retained(f))

\* _progress, _worker_result: an observation retained before what depends on it.
Observes(f, next) ==
    /\ world.mode = "write" /\ ~ h.silent
    /\ record' = Fate(f, next) /\ h' = [h EXCEPT !.silent = Silenced(f)]
ObservesNothing(f) == world.mode = "read" /\ f = "kept" /\ UNCHANGED <<record, h>>

(***************************************************************************)
(* The transaction's steps.                                                *)
(***************************************************************************)
Active == h.at = "running" /\ ~ Ended
\* _check, before anything else a step does.
Checked(d) == IF Check THEN d ELSE Refuse(t, "check")

Take ==
    /\ Active /\ Framed /\ t.at \notin {"intended"}
    /\ t' = Checked(Taken(t, Head(recs)))
    /\ IF t'.hs > t.hs /\ t'.at # "refused" THEN ConsumeAndPost(Req("answer", Head(recs).id)) ELSE Consume
    /\ UNCHANGED <<worker, work, lost, h, record, sent>>

\* _next, _quiet: the end of the stream where a record was due.
StreamEnds ==
    /\ Active /\ ~ Framed /\ eof /\ t.at \notin {"drain", "intended"}
    /\ t' = Refuse(t, "end")
    /\ UNCHANGED <<streamVars, worker, work, lost, h, record, sent>>

\* _control: quiet, then the request.
Ask ==
    /\ Active /\ t.at = "control" /\ Still
    /\ LET d == Checked(Written([t EXCEPT !.at = "await"], 1, IF t.accepted THEN "post" ELSE "startup"))
       IN  t' = d /\ (IF d.at = "await" THEN Post(Req("control", t.n)) ELSE UNCHANGED streamVars)
    /\ UNCHANGED <<worker, work, lost, h, record, sent>>

\* _before_user: the intent is durable before the message, and a lasting write renews nothing.
Intend ==
    /\ Active /\ t.at = "quiet" /\ Still
    /\ LET d == Written([t EXCEPT !.st = "dispatched", !.at = "intended"], 1, "startup") IN
       IF ~ Check \/ d.at = "refused" THEN t' = Checked(d) /\ UNCHANGED <<h, record>>
       ELSE \E f \in Flaky :
            /\ record' = Fate(f, [record EXCEPT !.phase = "intent"])
            /\ h' = [h EXCEPT !.silent = Silenced(f)]
            /\ t' = IF Retained(f) THEN d ELSE Refuse(d, "intent")
    /\ UNCHANGED <<streamVars, worker, work, lost, sent>>

Send ==
    /\ Active /\ t.at = "intended"
    /\ t' = Checked([t EXCEPT !.at = "body"])
    /\ IF Check THEN h' = [h EXCEPT !.intent = TRUE] /\ sent' = sent + 1 /\ Post(Req("user", 0))
                ELSE UNCHANGED <<h, sent, streamVars>>
    /\ UNCHANGED <<worker, work, lost, record>>

\* _mcp: the largest reply and what follows the result must fit before the worker may begin.
Reserved == world.room /\ t.spent + MaxReply + PostInput <= world.input

\* Variant: framed records are all there is to wait for.
FramedIsQuiet == Still

\* _callback_barrier
Barrier == Settled

Grant ==
    /\ Active /\ t.at = "barrier" /\ Barrier
    /\ IF ~ Check \/ t.over \/ ~ Reserved
       THEN t' = Checked(Refuse(t, "reserve")) /\ UNCHANGED <<worker, work, h, record>>
       ELSE \E f \in Flaky :
            /\ Observes(f, [record EXCEPT !.started = t.calls + 1]) \/ ObservesNothing(f)
            /\ t' = [t EXCEPT !.calls = @ + 1, !.at = IF Retained(f) THEN "worker" ELSE "refused"]
            /\ worker' = IF Retained(f) THEN "running" ELSE worker
            /\ work' = IF Retained(f) THEN [began |-> work.began + 1, caught |-> {}] ELSE work
    /\ UNCHANGED <<streamVars, lost, sent>>

\* The worker's own ends: its result, a refusal of its own, a result that could not be retained.
Ends == {"finished"} \cup (IF world.trouble = "worker" THEN {"failed"} ELSE {})
                     \cup (IF world.trouble = "disk" /\ world.mode = "write" THEN {"unretained"} ELSE {})

\* _ClaudeWorkspaceWorker.__call__, _worker_result.
WorkerEnds(end) ==
    /\ worker = "running" /\ worker' = end
    /\ t' = IF end # "finished" /\ ~ Ended THEN Refuse(t, "worker") ELSE t
    /\ h' = [h EXCEPT !.silent = @ \/ end = "unretained"]
    /\ UNCHANGED <<streamVars, work, lost, record, sent>>
\* A refusal cancels the worker, and waits for it.
WorkerJoined ==
    /\ worker = "running" /\ t.at = "refused" /\ worker' = "joined"
    /\ UNCHANGED <<streamVars, t, work, lost, h, record, sent>>

Reply(cost) ==
    /\ Active /\ t.at = "worker" /\ worker = "finished" /\ Barrier
    /\ LET d == Written(t, cost, "reply") IN
       IF ~ Check \/ d.at = "refused" THEN t' = Checked(d) /\ UNCHANGED <<streamVars, h, record>>
       ELSE /\ Post(Req("answer", t.call))
            /\ \E f \in Flaky :
                 /\ Observes(f, [record EXCEPT !.completed = t.done + 1]) \/ ObservesNothing(f)
                 /\ t' = [d EXCEPT !.done = @ + 1, !.at = IF Retained(f) THEN "body" ELSE "refused"]
    /\ worker' = "idle"
    /\ UNCHANGED <<work, lost, sent>>

\* _body, the end: stdin is closed on a quiet stream, and the stream drained.
CloseStdin ==
    /\ Active /\ t.at = "last" /\ Still
    /\ t' = Checked([t EXCEPT !.st = "checked", !.at = "drain"])
    /\ IF Check THEN Post(Req("close", 0)) ELSE UNCHANGED streamVars
    /\ UNCHANGED <<worker, work, lost, h, record, sent>>
DrainEnds ==
    /\ Active /\ t.at = "drain" /\ ~ Framed /\ eof
    /\ t' = Checked(IF torn THEN Refuse(t, "tail") ELSE [t EXCEPT !.at = "drained"])
    /\ UNCHANGED <<streamVars, worker, work, lost, h, record, sent>>

\* Variant: the deadline and a close are seen when a record arrives.
SeenWhenReading ==
    /\ Active /\ (h.closed \/ "late" \in lost) /\ Framed
    /\ t' = Refuse(t, "cancelled")
    /\ UNCHANGED <<streamVars, worker, work, lost, h, record, sent>>

\* The deadline and a close cancel the exchange wherever it waits.
Interrupted ==
    /\ Active /\ (h.closed \/ "late" \in lost)
    /\ t' = Refuse(t, "cancelled")
    /\ UNCHANGED <<streamVars, worker, work, lost, h, record, sent>>

ClientKilled ==
    /\ h.at = "running" /\ t.at = "refused" /\ ~ ended /\ Kill
    /\ UNCHANGED <<t, worker, work, lost, h, record, sent>>

TransactionStep ==
    \/ Take \/ StreamEnds \/ Ask \/ Intend \/ Send \/ Grant \/ CloseStdin \/ DrainEnds
    \/ \E cost \in 1 .. MaxReply : Reply(cost)
    \/ \E end \in Ends : WorkerEnds(end)
    \/ WorkerJoined \/ Interrupted \/ ClientKilled
=============================================================================
