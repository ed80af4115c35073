-------------------------- MODULE CodexConversation -------------------------
(***************************************************************************)
(* One turn with the native Codex client (executors/codex.py from          *)
(* CodexConversation on, codex_protocol.py), inside its egress relay.      *)
(*                                                                         *)
(* The client is a process that answers each request once and may add      *)
(* records of its own anywhere: replies nobody asked for, account notices, *)
(* tool calls, completions, damaged bytes.  The conversation reads chunks  *)
(* that may end inside a record, gates the turn on readings of the account *)
(* and of its spending before and after it, runs the client's tool calls   *)
(* one at a time, and drains the stream to its end before anything is      *)
(* accepted.                                                               *)
(*                                                                         *)
(* A record is abstracted to its kind, its id, and what the rules read of  *)
(* its body: a plan, a turn, or that it is malformed.                      *)
(***************************************************************************)
EXTENDS EgressRelay, Sequences, SequencesExt

CONSTANTS
    Worlds,             \* [mode, plans, adds, conns]: the conversation's mode, the plans its
                        \* account may name, the records the client adds and its connections
    MaxToolCalls,       \* MAX_TOOL_CALLS
    MaxPending          \* CALLBACK_PENDING_RECORDS

ASSUME ConversationBounds ==
    /\ {MaxToolCalls, MaxPending} \subseteq Nat \ {0}
    /\ \A w \in Worlds : w.mode \in {"read", "write", "startup"}

VARIABLES
    world,
    c,                  \* the conversation
    wire,               \* records the client wrote that no chunk has completed yet
    torn,               \* whether the first of them was read in part
    ended,              \* whether the client closed its output
    inbox,              \* requests the client has not answered
    answered,           \* ids it answered, once each
    emitted,            \* everything it ever wrote
    outcome

clientVars == <<wire, torn, ended, inbox, answered, emitted>>
vars == <<relayVars, world, c, clientVars, outcome>>

None == [kind |-> "none"]
Methods == <<"initialize", "account", "spend", "thread", "turn", "account again", "spend again">>
Plans == {"pro", "prolite"}

Init ==
    /\ RelayInit /\ world \in Worlds
    /\ c = [at |-> "initialize", next |-> 1, waiting |-> FALSE, owed |-> 0, queue |-> <<>>, pre |-> FALSE,
            fault |-> FALSE, gate |-> FALSE, correlated |-> {}, expected |-> world.plans, plan |-> "",
            requested |-> FALSE, collecting |-> FALSE, transcript |-> <<>>, held |-> <<>>,
            deferred |-> None, early |-> None, serverIds |-> {}, calls |-> {}, runs |-> <<>>,
            pending |-> <<>>, seen |-> 0, completed |-> 0, warned |-> FALSE, unsure |-> FALSE]
    /\ wire = <<>> /\ torn = FALSE /\ ended = FALSE /\ inbox = <<>> /\ answered = {} /\ emitted = <<>>
    /\ outcome = "none"

Callbacks == world.mode = "write"

(***************************************************************************)
(* The rules, as functions of the conversation.                            *)
(***************************************************************************)
Faulted(d) == [d EXCEPT !.fault = TRUE]
\* A refusal also ends the phase: what follows is the drain.
Refused(d) == [d EXCEPT !.fault = TRUE, !.at = "drain"]
Transcribed(d, r) == [d EXCEPT !.transcript = Append(@, r)]

\* The first plan fact is kept, and later ones must agree with it.
PlanConflicts(d, plan) == d.plan \notin {"", plan}

\* account_notice_faults, settings_notice_faults, notice_stop_faults, updated_plan.
NoticeFaults(d, r) ==
    r.kind = "notice" /\
        \/ r.body = "account"
        \/ r.body = "reached" /\ ~ d.requested
        \/ r.body \in Plans /\ (r.body \notin d.expected \/ PlanConflicts(d, r.body))
Noted(d, r) == IF r.kind = "notice" /\ r.body \in Plans THEN [d EXCEPT !.plan = r.body] ELSE d

\* _absorb
Absorbed(d, r, before) ==
    IF NoticeFaults(d, r) THEN Refused(d)
    ELSE LET n == Noted(d, r) IN
        CASE n.collecting -> Transcribed(n, r)
          [] ~ n.collecting /\ r.kind = "completed" ->
                IF n.deferred # None THEN Refused(n) ELSE [n EXCEPT !.deferred = r]
          [] ~ n.collecting /\ r.kind = "evidence" /\ n.requested /\ ~ before -> [n EXCEPT !.held = Append(@, r)]
          [] OTHER -> n

\* _owned: ownership before shape.
Owned(d, id) == id \in 1 .. (d.next - 1)

\* Variant: any reply to an id that was issued is its reply.
IssuedIsAnswer(d, r, awaiting) == IF Owned(d, r.id) THEN d ELSE Refused(d)

\* _judge_identified, _once: the one rule for a record with an id.
Identified(d, r, awaiting) ==
    IF ~ Owned(d, r.id)
    THEN IF r.kind = "reply" \/ r.body = "account" \/ world.mode = "startup" THEN Refused(d) ELSE Transcribed(d, r)
    ELSE IF r.id \in d.correlated \/ r.id # awaiting THEN Refused(d) ELSE d

\* _drain_before: nothing framed already can be a reply to a request not yet sent.
Predates(d, r) ==
    IF d.at = "drain" \/ r.kind = "damaged" THEN Refused(d)
    ELSE IF r.kind \in {"reply", "request"}
    THEN IF r.kind = "request" /\ Callbacks THEN Refused(d) ELSE Identified(d, r, 0)
    ELSE Absorbed(d, r, FALSE)
Drained(d) == [FoldLeft(Predates, d, d.queue) EXCEPT !.queue = <<>>, !.pre = torn]

\* parse_tool_call, against this thread and turn.
Admissible(r) == r.body = "ours"

\* _defer_tool_request: at most one, until the turn has a name.
DeferredCall(d, r) ==
    IF d.deferred # None \/ d.early # None \/ ~ Admissible(r) THEN Refused(d) ELSE [d EXCEPT !.early = r]

\* _dispatch_tool up to the worker: the call is spent before its first effect.
Dispatched(d, r) ==
    IF ~ Admissible(r) \/ r.id \in d.serverIds \/ r.call \in d.calls \/ Cardinality(d.calls) >= MaxToolCalls
    THEN Refused(d)
    ELSE [d EXCEPT !.at = "callback", !.serverIds = @ \cup {r.id}, !.calls = @ \cup {r.call},
                   !.runs = Append(@, r.call), !.seen = 0, !.pending = <<>>]

\* _accept_reply and _judge_account.
Correlates(d, r) == [d EXCEPT !.correlated = @ \cup {r.id}, !.owed = 0, !.waiting = FALSE]
AccountFaults(d, r) == r.body \notin d.expected \/ PlanConflicts(d, r.body)
AccountRead(d, r) == IF r.body \in Plans /\ d.plan = "" THEN [d EXCEPT !.plan = r.body] ELSE d

Step(d, at) == [d EXCEPT !.at = at]

\* _converse after turn/start is answered: held evidence first, then the deferred call,
\* then the deferred completion.
TurnNamed(d, r) ==
    LET n == [d EXCEPT !.collecting = TRUE, !.transcript = @ \o d.held, !.held = <<>>]
        terminal == n.deferred # None /\ n.deferred.body = "ours"
    IN  IF r.body = "bad" \/ (n.early # None /\ n.deferred # None) THEN Refused([d EXCEPT !.collecting = TRUE])
        ELSE IF n.early # None THEN Dispatched([n EXCEPT !.early = None], n.early)
        ELSE IF n.deferred # None
        THEN Step([Transcribed(n, n.deferred) EXCEPT !.deferred = None], IF terminal THEN "account again" ELSE "collect")
        ELSE Step(n, "collect")

\* _converse, by the request that is answered.
Answers(d, r) ==
    CASE d.at = "initialize" -> IF r.body = "bad" THEN Refused(d) ELSE Step(d, "account")
      [] d.at = "account" ->
            IF AccountFaults(d, r) THEN Refused(AccountRead(d, r))
            ELSE Step([AccountRead(d, r) EXCEPT !.expected = {r.body}], "spend")
      [] d.at = "spend" ->
            IF r.body # "ok" THEN Refused(d)
            ELSE IF world.mode = "startup" THEN Step([d EXCEPT !.gate = TRUE], "drain") ELSE Step(d, "thread")
      [] d.at = "thread" -> IF r.body = "bad" THEN Refused(d) ELSE Step(d, "turn")
      [] d.at = "turn" -> TurnNamed(d, r)
      [] d.at = "account again" ->
            Step(IF AccountFaults(d, r) THEN Faulted(d) ELSE d, "spend again")
      [] d.at = "spend again" ->
            [Step(d, "drain") EXCEPT !.gate = TRUE, !.fault = @ \/ r.body = "bad"]

\* _request, one record while its reply is outstanding.
Awaited(d, r) ==
    LET before == d.pre
        n == [d EXCEPT !.pre = FALSE]
        j == Identified(n, r, n.owed)
    IN  CASE r.kind = "damaged" -> Refused(n)
          [] r.kind = "request" ->
                IF ~ before /\ Callbacks /\ n.at = "turn" THEN DeferredCall(n, r) ELSE Refused(n)
          [] r.kind = "reply" ->
                IF before THEN Refused(n) ELSE IF j.at = "drain" THEN j ELSE Answers(Correlates(j, r), r)
          [] OTHER -> Absorbed(n, r, before)

\* _collect, one record of the turn.
Collected(d, r) ==
    CASE r.kind = "damaged" -> Transcribed(d, r)
      [] r.kind = "request" /\ Callbacks -> Dispatched(d, r)
      [] r.kind = "reply" \/ (r.kind = "request" /\ ~ Callbacks) -> Identified(d, r, 0)
      [] OTHER -> LET n == Absorbed(d, r, FALSE) IN
            IF n.at = "collect" /\ r.kind = "completed" /\ r.body = "ours" THEN Step(n, "account again") ELSE n

\* _await_callback, one record while the worker runs.
Meanwhile(d, r) ==
    LET n == [d EXCEPT !.seen = @ + 1]
        known == {n.pending[i].id : i \in DOMAIN n.pending} \cup n.serverIds
        calls == {n.pending[i].call : i \in DOMAIN n.pending} \cup n.calls
    IN  IF n.seen > MaxPending \/ r.kind \in {"damaged", "reply"} THEN Refused(n)
        ELSE IF r.kind = "request"
        THEN IF ~ Admissible(r) \/ r.id \in known \/ r.call \in calls \/ Cardinality(calls) >= MaxToolCalls
             THEN Refused(n) ELSE [n EXCEPT !.pending = Append(@, r)]
        ELSE IF r.kind = "completed" THEN Refused(Transcribed(n, r))
        ELSE Absorbed(n, r, FALSE)

\* _audit: the drain applies every rule once more and resumes nothing.
Audited(d, r) ==
    LET before == d.pre
        n == [d EXCEPT !.pre = FALSE]
        awaiting == IF before THEN 0 ELSE n.owed
        j == Identified(n, r, awaiting)
        reply == j.fault = n.fault /\ n.owed # 0 /\ Owned(n, r.id)
        first == ~ n.requested /\ n.owed = 2
    IN  CASE r.kind = "damaged" -> [n EXCEPT !.unsure = TRUE]
          [] r.kind \in {"reply", "request"} ->
                IF r.kind = "request" /\ Callbacks THEN Faulted(n)
                ELSE IF reply /\ r.kind = "request" THEN Faulted(j)
                ELSE IF reply
                THEN IF (first \/ n.owed = 6) /\ AccountFaults(j, r) THEN Faulted(Correlates(j, r)) ELSE Correlates(j, r)
                ELSE j
          [] OTHER ->
                IF n.collecting THEN Absorbed(n, r, FALSE)
                ELSE IF NoticeFaults(n, r) THEN Faulted(n) ELSE Noted(n, r)

\* The rules see records in order, each at the place where the conversation is.
Judged(d, r) ==
    CASE d.at = "drain" -> Audited(d, r)
      [] d.at = "callback" -> Meanwhile(d, r)
      [] d.at = "collect" -> Collected(d, r)
      [] OTHER -> Awaited(d, r)

(***************************************************************************)
(* The conversation's steps.                                               *)
(***************************************************************************)
Running == relay = "live" /\ c.at # "done" /\ outcome = "none"
AtRequest == c.at \in {Methods[i] : i \in 1 .. 7} /\ ~ c.waiting

\* _request and _send: drain, the last word before the turn, then the write.  A write
\* fails when the client or the scope is gone.
Request ==
    /\ Running /\ AtRequest
    /\ LET id == c.next
           d == Drained([c EXCEPT !.next = @ + 1])
           sent == [d EXCEPT !.waiting = TRUE, !.owed = id, !.requested = @ \/ d.at = "turn"]
       IN  \/ /\ d.at # "drain" /\ ~ late /\ ~ ended
              /\ c' = sent /\ inbox' = Append(inbox, [id |-> id, method |-> d.at])
           \/ /\ d.at = "drain" \/ late \/ ended \/ ~ control
              /\ c' = Refused(d) /\ UNCHANGED inbox
    /\ UNCHANGED <<relayVars, world, wire, torn, ended, answered, emitted, outcome>>

Listening == (c.waiting \/ c.at \in {"collect", "callback", "drain"}) /\ ~ late

\* RecordStream.feed: some records are completed, and the next may be begun.
Read ==
    /\ Running /\ Listening /\ c.queue = <<>> /\ wire # <<>>
    /\ \E n \in 0 .. Len(wire), begun \in BOOLEAN :
        /\ n > 0 \/ (begun /\ ~ torn)
        /\ begun => n < Len(wire)
        /\ c' = [c EXCEPT !.queue = SubSeq(wire, 1, n),
                          !.warned = @ \/ (~ c.requested /\ \E i \in 1 .. n : wire[i].kind = "notice" /\ wire[i].body = "reached")]
        /\ wire' = SubSeq(wire, n + 1, Len(wire)) /\ torn' = begun
    /\ UNCHANGED <<relayVars, world, ended, inbox, answered, emitted, outcome>>

Judge ==
    /\ Running /\ c.queue # <<>> /\ ~ AtRequest
    /\ c' = Judged([c EXCEPT !.queue = Tail(@)], Head(c.queue))
    /\ UNCHANGED <<relayVars, world, clientVars, outcome>>

\* The end of the stream, or the owner's stop, outside the drain.
ReadsNothing ==
    /\ Running /\ c.queue = <<>> /\ (c.waiting \/ c.at \in {"collect", "callback"})
    /\ (ended /\ wire = <<>>) \/ late \/ ~ control
    /\ c' = IF c.at = "collect" THEN Step(c, "account again") ELSE Refused([c EXCEPT !.waiting = FALSE])
    /\ UNCHANGED <<relayVars, world, clientVars, outcome>>

\* The worker returned and its answer was written; calls that came meanwhile are next.
WorkerReturns ==
    /\ Running /\ c.at = "callback" /\ c.queue = <<>>
    /\ \/ ~ late /\ ~ ended /\ c' = [Step(c, "collect") EXCEPT !.completed = @ + 1, !.queue = c.pending, !.pending = <<>>]
       \/ c' = Refused(c)
    /\ UNCHANGED <<relayVars, world, clientVars, outcome>>

\* _finish: the check is complete only at the end of the stream.
Finish ==
    /\ Running /\ c.at = "drain" /\ c.queue = <<>>
    /\ \/ ended /\ wire = <<>> /\ c' = [c EXCEPT !.at = "done", !.fault = @ \/ c.unsure \/ ~ c.gate]
       \/ (late \/ ~ control) /\ c' = [c EXCEPT !.at = "done", !.fault = TRUE]
    /\ UNCHANGED <<relayVars, world, clientVars, outcome>>

(***************************************************************************)
(* The handle's verdict.                                                   *)
(***************************************************************************)
Terminals == {i \in DOMAIN c.transcript : c.transcript[i].kind = "completed" /\ c.transcript[i].body = "ours"}

\* Variant: a later terminal record replaces the first.
LastTerminalStands == Terminals = {} \/ \E i \in DOMAIN c.transcript : c.transcript[i].kind \in {"damaged", "request"}

\* observe_turn: damage is sticky and a second terminal record contradicts the first.
Damaged ==
    \/ Cardinality(Terminals) # 1
    \/ \E i \in DOMAIN c.transcript :
        \/ c.transcript[i].kind \in {"damaged", "request"}
        \/ c.transcript[i].kind \in {"completed", "evidence"} /\ c.transcript[i].body # "ours"

\* relay_denied is assigned after the relay's handlers have been joined.
RelayDenied == denied

\* _converse of the handle and decode_turn, after the relay has exited.
Verdict ==
    /\ c.at = "done" /\ relay \in {"exited", "failed"} /\ outcome = "none"
    /\ outcome' \in
        IF relay = "failed" \/ c.fault \/ RelayDenied # {} \/ ~ control THEN {"refused"}
        ELSE IF late THEN {"timeout"}
        ELSE {"exit", "partial"} \cup (IF Damaged THEN {} ELSE {"success"})
    /\ UNCHANGED <<relayVars, world, c, clientVars>>

\* The relay never opened: nothing was launched.
NotLaunched ==
    /\ relay = "failed" /\ c.at = "initialize" /\ c.next = 1 /\ outcome = "none" /\ outcome' = "refused"
    /\ UNCHANGED <<relayVars, world, c, clientVars>>

(***************************************************************************)
(* The client.                                                             *)
(***************************************************************************)
Reply(id, body, genuine) == [kind |-> "reply", id |-> id, body |-> body, call |-> "", genuine |-> genuine]
Bodies(method) ==
    CASE method \in {"account", "account again"} -> world.plans \cup {"bad"}
      [] method \in {"spend", "spend again"} -> {"ok", "reached"}
      [] OTHER -> {"ok", "bad"}

Emits(r) == wire' = Append(wire, r) /\ emitted' = Append(emitted, r)

ClientAnswers ==
    /\ ~ ended /\ inbox # <<>>
    /\ \E body \in Bodies(Head(inbox).method) : Emits(Reply(Head(inbox).id, body, TRUE))
    /\ answered' = answered \cup {Head(inbox).id} /\ inbox' = Tail(inbox)
    /\ UNCHANGED <<relayVars, world, c, torn, ended, outcome>>

ClientAdds ==
    /\ ~ ended /\ relay = "live" /\ world.adds # <<>>
    /\ Emits(Head(world.adds)) /\ world' = [world EXCEPT !.adds = Tail(@)]
    /\ UNCHANGED <<relayVars, c, torn, ended, inbox, answered, outcome>>

\* The turn's own completion, before or after the reply that names the turn.
Completion == [kind |-> "completed", id |-> 0, body |-> "ours", call |-> "", genuine |-> TRUE]
ClientCompletes ==
    /\ ~ ended /\ c.requested /\ Completion \notin Range(emitted) /\ Emits(Completion)
    /\ UNCHANGED <<relayVars, world, c, torn, ended, inbox, answered, outcome>>

ClientExits ==
    /\ ~ ended /\ relay = "live" /\ ended' = TRUE
    /\ UNCHANGED <<relayVars, world, c, wire, torn, inbox, answered, emitted, outcome>>

\* The launcher has ended the process when the byte scope is over.
Exits == RelayExits /\ c.at = "done" /\ UNCHANGED <<world, c, clientVars, outcome>>

RelayOnly == UNCHANGED <<world, c, clientVars, outcome>>
Conversing == Request \/ Read \/ Judge \/ ReadsNothing \/ WorkerReturns \/ Finish \/ Verdict \/ NotLaunched \/ Exits
Next ==
    \/ Conversing \/ ClientAnswers \/ ClientAdds \/ ClientCompletes \/ ClientExits
    \/ RelayEnters /\ RelayOnly
    \/ \E k \in world.conns : RelayStep(k) /\ RelayOnly
    \/ relay = "live" /\ c.at # "done" /\ world.conns # {} /\ ControlLost /\ RelayOnly
    \/ relay = "live" /\ c.at # "done" /\ DeadlinePasses /\ RelayOnly

Spec == Init /\ [][Next]_vars

-----------------------------------------------------------------------------
Published == outcome \in {"success", "partial", "exit"}
Said == {emitted[i] : i \in DOMAIN emitted}

\* A result is published only of a turn whose gate was answered by the client and not by
\* what it had left in the pipe: where an id was answered by a record that was not its
\* reply, the client never answered it at all; and every account fact it ever wrote names
\* one plan.  No turn is started once a report that spending has reached its limit was read,
\* in whatever chunk, and no tool call runs twice, beyond the ceiling or before the turn.
GatedResult ==
    /\ Published =>
        /\ \A r \in Said : r.kind = "reply" /\ ~ r.genuine => r.id \notin answered
        /\ Cardinality({r.body : r \in {x \in Said : x.kind \in {"reply", "notice"}}} \cap Plans) = 1
    /\ ~ (c.warned /\ c.requested)
    /\ IsInjective(c.runs) /\ Len(c.runs) <= MaxToolCalls
    /\ c.runs # <<>> => c.requested

\* A success overlooks nothing the client wrote, wherever in the stream it came: one
\* completion, no damage, no account event, and each tool call was run and answered.
NothingOverlooked ==
    outcome = "success" =>
        /\ Cardinality({i \in DOMAIN emitted : emitted[i].kind = "completed"}) = 1
        /\ \A r \in Said : r.kind # "damaged" /\ ~ (r.kind = "notice" /\ r.body = "account")
        /\ \A i, j \in DOMAIN emitted :
            emitted[i].kind = "request" => /\ Callbacks /\ emitted[i].call \in c.calls
                                           /\ emitted[j] = emitted[i] => i = j
        /\ c.completed = Len(c.runs)

\* Every chunk that goes to the network was admitted while the acquisition was controlled and in
\* time, and once either is lost no connection sends more than what is left of the one chunk it
\* had admitted, though sock_sendall asks nothing between its writes; no outcome is reported
\* while a connection is open, and none hides a connection that was refused.
EgressIsMediated ==
    /\ unauthorised = {} /\ \A k \in Conns : stray[k] + left[k] <= ChunkWrites
    /\ outcome # "none" => \A k \in Conns : conn[k] \in {"none", "closed"} /\ left[k] = 0
    /\ Published => denied = {}
=============================================================================
