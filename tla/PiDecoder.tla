----------------------------- MODULE PiDecoder ------------------------------
(***************************************************************************)
(* The decoder of a scripted READ exchange (executors/pi_protocol.py): one *)
(* request for the state, one prompt, and the events of one agent run,     *)
(* with damage and refusal that nothing undoes.                            *)
(*                                                                         *)
(* A record is its kind, what it names (a command, a role, a reason), the  *)
(* reads it is about, what the rules see of its body, and the copies it    *)
(* carries of earlier messages.                                            *)
(***************************************************************************)
EXTENDS Naturals, Sequences, FiniteSets, SequencesExt

CONSTANTS
    Calls,              \* the ids of READ declarations
    RecordCount         \* RECORD_COUNT

\* There is something to read.
ASSUME CallsAssumption == Calls # {}

Ev(kind, id, calls, body, copy) == [kind |-> kind, id |-> id, calls |-> calls, body |-> body, copy |-> copy]
The(S) == CHOOSE x \in S : TRUE

Roles == {"system", "user", "assistant", "toolResult"}

NewDecoder ==
    [gen |-> 0, frame |-> 0, torn |-> FALSE, count |-> 0, expected |-> "", state |-> FALSE, accepted |-> FALSE,
     eof |-> FALSE, started |-> FALSE, ended |-> FALSE, settled |-> FALSE, turn |-> FALSE, role |-> "",
     user |-> FALSE, messages |-> <<>>, assistant |-> <<>>, completion |-> <<>>, results |-> <<>>,
     call |-> [k \in Calls |-> "none"], content |-> [k \in Calls |-> ""], final |-> FALSE,
     damaged |-> FALSE, refused |-> FALSE]

Damage(d) == [d EXCEPT !.damaged = TRUE]
Decline(d) == [d EXCEPT !.refused = TRUE]
Stopped(d) == d.damaged \/ d.refused \/ d.eof

\* request: no earlier request is open, and nothing is buffered.
Requested(d, command) ==
    LET e == IF d.expected # "" \/ d.torn \/ d.eof THEN Damage(d) ELSE d
    IN  [e EXCEPT !.gen = @ + 1, !.expected = command]

\* observe, a response: to the one open request, in a frame begun after it.
Response(d, r) ==
    IF d.expected = "" \/ r.id # d.expected \/ d.frame # d.gen THEN Damage(d)
    ELSE LET e == [d EXCEPT !.expected = ""] IN
         CASE r.body = "ok" /\ r.id = "get_state" -> [e EXCEPT !.state = TRUE]
           [] r.body = "ok" /\ r.id = "prompt" -> [e EXCEPT !.accepted = TRUE]
           [] r.body = "shapeless" -> Damage(e)
           [] OTHER -> Decline(e)

Declared(d) == {k \in Calls : d.call[k] # "none"}
\* Every declared read has its result.
Answered(d) == \A k \in Declared(d) : d.call[k] = "answered"

\* message_end: the completed message of each role.
SystemEnd(d, r) == IF d.messages # <<>> \/ r.body # "ok" THEN Damage(d) ELSE d
UserEnd(d, r) == IF d.user \/ r.body # "ok" THEN Damage(d) ELSE [d EXCEPT !.user = TRUE]
ResultEnd(d, r) ==
    LET k == The(r.calls) IN
    IF d.call[k] # "ended" \/ r.body # d.content[k] THEN Damage(d)
    ELSE [d EXCEPT !.call[k] = "answered", !.results = Append(@, r)]
AssistantEnd(d, r) ==
    LET e == [d EXCEPT !.assistant = <<r>>, !.completion = <<>>] IN
    IF \/ ~ d.user \/ d.assistant # <<>> \/ d.final
       \/ d.completion # <<>> /\ d.completion # <<r.body, r.calls>>
    THEN Damage(d)
    ELSE CASE r.body = "stop" -> IF r.calls # {} \/ Declared(d) = {} \/ ~ Answered(d) THEN Damage(d) ELSE [e EXCEPT !.final = TRUE]
           [] r.body = "toolUse" /\ r.calls # {} ->
                IF r.calls \cap Declared(d) # {} THEN Damage(d)
                ELSE [e EXCEPT !.call = [k \in Calls |-> IF k \in r.calls THEN "declared" ELSE @[k]]]
           [] r.body = "blank" -> Damage(d)
           [] OTHER -> Decline(e)

MessageEnd(d, r) ==
    LET e == [d EXCEPT !.role = ""]
        f == CASE r.id = "system" -> SystemEnd(e, r)
               [] r.id = "user" -> UserEnd(e, r)
               [] r.id = "toolResult" -> ResultEnd(e, r)
               [] r.id = "assistant" -> AssistantEnd(e, r)
    IN  IF ~ d.turn \/ d.role # r.id THEN Damage(d) ELSE [f EXCEPT !.messages = Append(@, r)]

MessageStart(d, r) ==
    IF ~ d.turn \/ r.id \notin Roles \/ d.role # "" \/ (r.id = "system" /\ d.messages # <<>>) THEN Damage(d)
    ELSE [d EXCEPT !.role = r.id]

\* message_update: a completion announced by the provider binds the message that follows.
Update(d, r) ==
    IF d.role # "assistant" \/ (r.id = "done" /\ d.completion # <<>>) THEN Damage(d)
    ELSE CASE r.id = "delta" -> d
           [] r.id = "error" -> Decline(d)
           [] r.id = "done" -> LET e == [d EXCEPT !.completion = <<r.body, r.calls>>]
                               IN  IF r.body \in {"stop", "toolUse"} THEN e ELSE Decline(e)

\* tool_execution_*: each read declared, started once and ended once, its arguments unchanged.
Execution(d, r) ==
    LET k == The(r.calls) IN
    IF ~ d.turn THEN Damage(d)
    ELSE CASE r.id = "start" -> IF d.call[k] # "declared" \/ r.body # "same" THEN Damage(d) ELSE [d EXCEPT !.call[k] = "started"]
           [] r.id = "update" -> IF d.call[k] # "started" \/ r.body # "same" THEN Damage(d) ELSE d
           [] r.id = "end" -> IF d.call[k] # "started" THEN Damage(d)
                              ELSE LET e == [d EXCEPT !.call[k] = "ended", !.content[k] = r.body]
                                   IN  IF r.body = "error" THEN Decline(e) ELSE e

TurnStart(d) ==
    IF ~ d.started \/ d.turn \/ d.ended \/ d.final THEN Damage(d)
    ELSE [d EXCEPT !.turn = TRUE, !.assistant = <<>>, !.results = <<>>]
TurnEnd(d, r) ==
    IF ~ d.turn \/ d.role # "" \/ d.assistant = <<>> \/ r.copy # d.assistant \o d.results \/ ~ Answered(d) THEN Damage(d)
    ELSE [d EXCEPT !.turn = FALSE]

\* Variant: the run's copy of its messages is not compared.
AgentEndTrusted(d, r) ==
    IF ~ d.started \/ d.ended \/ d.turn \/ ~ d.final \/ r.body # "ok" THEN Damage(d) ELSE [d EXCEPT !.ended = TRUE]
AgentEnd(d, r) ==
    IF ~ d.started \/ d.ended \/ d.turn \/ ~ d.final \/ r.copy # d.messages \/ r.body # "ok" THEN Damage(d)
    ELSE [d EXCEPT !.ended = TRUE]
Settle(d, r) ==
    LET e == [d EXCEPT !.settled = TRUE] IN IF ~ d.ended \/ r.body # "ok" THEN Decline(e) ELSE e

\* observe, an event: only of the sole dispatch, and before it settled.
Event(d, r) ==
    IF ~ d.state \/ d.gen # 2 \/ d.settled THEN Damage(d)
    ELSE CASE r.kind = "agent_start" -> IF d.started THEN Damage(d) ELSE [d EXCEPT !.started = TRUE]
           [] r.kind = "turn_start" -> TurnStart(d)
           [] r.kind = "message_start" -> MessageStart(d, r)
           [] r.kind = "message_end" -> MessageEnd(d, r)
           [] r.kind = "message_update" -> Update(d, r)
           [] r.kind = "execution" -> Execution(d, r)
           [] r.kind = "turn_end" -> TurnEnd(d, r)
           [] r.kind = "agent_end" -> AgentEnd(d, r)
           [] r.kind = "settled" -> Settle(d, r)
           [] OTHER -> Damage(d)

Observe(d, r) ==
    IF d.damaged \/ d.refused THEN d ELSE IF r.kind = "response" THEN Response(d, r) ELSE Event(d, r)

\* feed: a record begun while the buffer was empty belongs to the generation of that moment.
Torn(d) == [d EXCEPT !.torn = TRUE, !.frame = d.gen]
Fed(d, r) ==
    LET e == [d EXCEPT !.torn = FALSE, !.frame = IF d.torn THEN @ ELSE d.gen, !.count = @ + 1]
    IN  IF e.count > RecordCount THEN Damage(e) ELSE Observe(e, r)
\* finish
Finished(d) == [d EXCEPT !.eof = TRUE, !.damaged = @ \/ d.torn, !.torn = FALSE]

\* outcome: of the decoder and of the process it listened to.
Outcome(d, late, clean) ==
    IF late THEN "timeout"
    ELSE IF d.damaged THEN "partial"
    ELSE IF d.refused \/ ~ d.accepted \/ ~ d.eof \/ ~ d.settled \/ ~ d.final \/ ~ clean THEN "failure"
    ELSE "success"

(***************************************************************************)
(* What a whole exchange is, as a property of the sequence of its records. *)
(***************************************************************************)
Where(s, T(_)) == {i \in 1 .. Len(s) : T(s[i])}
MessagesOf(s) == SelectSeq(s, LAMBDA r : r.kind = "message_end")
\* The messages a turn's copy holds: the assistant's, and the results after it.
TurnCopy(s) ==
    LET begun == Where(s, LAMBDA r : r.kind = "turn_start")
        last == IF begun = {} THEN 0 ELSE CHOOSE i \in begun : \A j \in begun : j <= i
    IN  SelectSeq(SubSeq(s, last + 1, Len(s)), LAMBDA r : r.kind = "message_end" /\ r.id \in {"assistant", "toolResult"})

Once(S) == Cardinality(S) = 1
Before(S, T) == \A i \in S, j \in T : i < j

\* Where in s the records of a kind stand, those that name id, and those about the read k.
Kind(s, kind) == {i \in 1 .. Len(s) : s[i].kind = kind}
Of(s, kind, id) == {i \in Kind(s, kind) : s[i].id = id}
About(s, kind, id, k) == {i \in Of(s, kind, id) : k \in s[i].calls}
Stops(s) == {i \in Of(s, "message_end", "assistant") : s[i].body = "stop"}
\* The messages of the turn that was under way at position i.
InTurn(s, i) ==
    {j \in Of(s, "message_end", "assistant") \cup Of(s, "message_end", "toolResult") :
        j <= i /\ \A l \in j .. i : s[l].kind # "turn_start"}
\* A copy holds the records at these positions, all of them and in their order.
Lists(copy, s, P) ==
    Len(copy) = Cardinality(P) /\ \A i \in P : copy[Cardinality({j \in P : j <= i})] = s[i]

\* One state reply, first of all, and one accepted prompt.
OneDialogue(s) ==
    LET replies == Kind(s, "response")
    IN  /\ Cardinality(replies) = 2 /\ {s[i].id : i \in replies} = {"get_state", "prompt"} /\ \A i \in replies : s[i].body = "ok"
        /\ s[1].id = "get_state"
\* One agent run of whole turns, each with one answer, before the settlement.
OneRun(s) ==
    LET turns == Kind(s, "turn_end")
    IN  /\ Once(Kind(s, "agent_start")) /\ Once(Kind(s, "agent_end")) /\ Once(Kind(s, "settled"))
        /\ Before(Kind(s, "agent_start"), Kind(s, "turn_start"))
        /\ Before(turns, Kind(s, "agent_end")) /\ Before(Kind(s, "agent_end"), Kind(s, "settled"))
        /\ Cardinality(Kind(s, "turn_start")) = Cardinality(turns)
        /\ Cardinality(Of(s, "message_end", "assistant")) = Cardinality(turns)
\* One prompt before every answer, reads in between, and one final answer behind all of them.
OneAnswer(s) ==
    LET users == Of(s, "message_end", "user")
        answers == Of(s, "message_end", "assistant")
    IN  /\ Once(users) /\ Before(users, answers) /\ s[The(users)].body = "ok"
        /\ Once(Stops(s)) /\ Before(answers \ Stops(s), Stops(s)) /\ Before(Of(s, "message_end", "toolResult"), Stops(s))
        /\ \E k \in Calls : \E i \in answers : k \in s[i].calls
\* One read: declared, started, ended and answered with what it produced, each once and in order.
WholeRead(s, k) ==
    LET declared == About(s, "message_end", "assistant", k)
        started == About(s, "execution", "start", k)
        ended == About(s, "execution", "end", k)
        answered == About(s, "message_end", "toolResult", k)
    IN  \/ declared = {} /\ started = {} /\ ended = {} /\ answered = {}
        \/ /\ Once(declared) /\ Once(started) /\ Once(ended) /\ Once(answered)
           /\ Before(declared, started) /\ Before(started, ended) /\ Before(ended, answered)
           /\ s[The(ended)].body = s[The(answered)].body /\ s[The(ended)].body # "error"
\* The run's copy of its messages and every turn's copy of its own are what was said.
TrueCopies(s) ==
    /\ \A i \in Kind(s, "agent_end") : Lists(s[i].copy, s, Kind(s, "message_end"))
    /\ \A i \in Kind(s, "turn_end") : Lists(s[i].copy, s, InTurn(s, i))

Coherent(s) == OneDialogue(s) /\ OneRun(s) /\ OneAnswer(s) /\ (\A k \in Calls : WholeRead(s, k)) /\ TrueCopies(s)
=============================================================================
