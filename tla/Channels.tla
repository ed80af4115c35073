------------------------------ MODULE Channels ------------------------------
(***************************************************************************)
(* Channel exchanges: an invocation asks (runtime/walker.py _BoundChannel, *)
(* substrate/effects/channel.py), people reply, acknowledge and page       *)
(* through their inboxes (substrate/journal/_sqlite_channels.py,           *)
(* _sqlite_queries.py, api/_control_queries.py), and a run parked on a     *)
(* request is woken by the stored reply.                                   *)
(*                                                                         *)
(* Each row of channel_messages and channel_acks has an independent seal   *)
(* with the same key, position and content (_sqlite_fact_seals.py).  A row *)
(* or seal may be lost or altered while nobody looks; what a reader is     *)
(* told must be what was written, or JournalDamaged.  The in-process       *)
(* transport (substrate/channels/in_process.py) keeps independent copies   *)
(* where the mailbox keeps seals, follows the same contract and loses      *)
(* nothing, since its process holds the only copy of everything.           *)
(*                                                                         *)
(* A transaction is one step; commands that reply or acknowledge are here  *)
(* reduced to that transaction (their law is ControlCommands); a decision  *)
(* by runs_approve replies like any other command.                         *)
(***************************************************************************)
EXTENDS Integers, Sequences, FiniteSets, SequencesExt

CONSTANTS
    None,
    Asks,           \* one exchange each: an invocation and its bound channel
    Route,          \* of an ask: channel, recipient or None for an open one, interaction
    Orders,         \* commands of people: [op, ask, actor]
    Readers,        \* inbox sessions: [actor, channel or None, interactions]
    PageSize,
    Worlds          \* the transport, the requests already sent, the commands and sessions to come,
                    \* and the bounds on crashes of the asking worker and on rows or seals that
                    \* are lost or altered

ASSUME RouteAssumption == \A a \in Asks : Route[a].interaction \in {"advice", "approval"}
ASSUME PageAssumption == PageSize \in Nat \ {0}
ASSUME OrderAssumption == \A o \in Orders : o.ask \in Asks
ASSUME WorldAssumption ==
    \A w \in Worlds :
        /\ w.transport \in {"mailbox", "in_process"} /\ w.readers \subseteq Readers /\ w.people \subseteq Orders
        /\ w.sent \in Seq(Asks) /\ \A i, j \in DOMAIN w.sent : w.sent[i] = w.sent[j] => i = j

VARIABLES
    world,
    mail,       \* the message table, its seals and its high-water mark
    acks,       \* the acknowledgement table likewise
    written,    \* the message rows as they were inserted, in order
    acked,      \* the acknowledgement rows as they were inserted, in order
    asker,      \* where the invocation of an ask stands
    proofs,     \* send attestations
    receipts,   \* asks whose send effect has its receipt
    returned,   \* what the invocation of an ask was answered, over all attempts
    reader,     \* inbox sessions
    faults, damage

vars == <<world, mail, acks, written, acked, asker, proofs, receipts, returned, reader, faults, damage>>
tables == <<mail, acks, written, acked>>

Fresh == [at |-> "new", messages |-> 0, acks |-> 0, after |-> 0, got |-> <<>>]

(***************************************************************************)
(* Rows.  An identity is derived: <<"request", a>> and <<"reply", a>>.     *)
(***************************************************************************)
\* message_for_intent: everything but the position is fixed by the sealed binding.
Request(a) == [kind |-> "request", ask |-> a, to |-> Route[a].to, from |-> None, body |-> a]

\* message_for_reply: typed and addressed by its request, with the caller's answer.
Reply(o) == [kind |-> "reply", ask |-> o.ask, to |-> None, from |-> o.actor, body |-> o]

At(seq, fact) == [seq |-> seq, fact |-> fact]
Id(row) == <<row.fact.kind, row.fact.ask>>

\* _insert_message, _insert_ack: the next position, and the seal in the same transaction.
Inserted(table, fact) ==
    LET row == At(table.high + 1, fact)
    IN  [rows |-> table.rows \cup {row}, seals |-> table.seals \cup {row}, high |-> table.high + 1]

Init ==
    /\ world \in Worlds
    /\ written = [i \in DOMAIN world.sent |-> At(i, Request(world.sent[i]))] /\ acked = <<>>
    /\ mail = [rows |-> Range(written), seals |-> Range(written), high |-> Len(written)]
    /\ acks = [rows |-> {}, seals |-> {}, high |-> 0]
    /\ asker = [a \in Asks |-> IF a \in Range(world.sent) THEN "sent" ELSE "running"]
    /\ proofs = Range(world.sent) /\ receipts = Range(world.sent)
    /\ returned = [a \in Asks |-> {}]
    /\ reader = [r \in Readers |-> Fresh]
    /\ faults = world.faults /\ damage = world.damage

(***************************************************************************)
(* What every read and write proves first.                                 *)
(***************************************************************************)
\* _validate_append_only_sequence: no gap up to the high-water mark.
AppendOnly(table) == {row.seq : row \in table.rows} = 1 .. table.high /\ Cardinality(table.rows) = table.high

\* _validate_channel_history: and as many seals as rows.
HistoryWhole ==
    \A table \in {mail, acks} : AppendOnly(table) /\ Cardinality(table.rows) = Cardinality(table.seals)

\* require_durable_fact_seal: the seal of this key and position has this content.
Sealed(table, row) == row \in table.seals

\* The independent proofs behind a fact: the send attestation of a request, the plan of
\* the command that wrote a reply.
Attested(row) == row.fact.ask \in proofs /\ row.fact = Request(row.fact.ask)
Planned(row) == row.fact.body \in Orders /\ row.fact = Reply(row.fact.body)

RowsOf(id) == {row \in mail.rows : Id(row) = id}

\* _channel_message_rows_for_ids: an absent identity must have no seal either.
AbsenceHolds(id) == RowsOf(id) # {} \/ \A seal \in mail.seals : Id(seal) # id

\* _stored_request_fact
RequestHolds(row) == Sealed(mail, row) /\ row.fact.kind = "request" /\ Attested(row)

AckRows(a, actor) == {row \in acks.rows : row.fact.ask = a /\ row.fact.actor = actor}

\* _ack_row: every acknowledgement of the message is proved, and so is an absence.
AcksHold(a, actor) ==
    /\ \A row \in acks.rows : row.fact.ask = a => Sealed(acks, row)
    /\ AckRows(a, actor) = {} => \A seal \in acks.seals : ~ (seal.fact.ask = a /\ seal.fact.actor = actor)

\* _stored_reply_fact: a reply stands only with its request, its sender's acknowledgement
\* and the plan of its command.
ReplyHolds(row) ==
    /\ Sealed(mail, row) /\ Planned(row)
    /\ \E request \in RowsOf(<<"request", row.fact.ask>>) : RequestHolds(request)
    /\ AcksHold(row.fact.ask, row.fact.from) /\ AckRows(row.fact.ask, row.fact.from) # {}

\* _stored_message_fact
FactHolds(row) == IF row.fact.kind = "request" THEN RequestHolds(row) ELSE ReplyHolds(row)

\* The message of one identity as an exact read finds it: a row, nothing, or damage.
Found(id) ==
    IF ~ HistoryWhole \/ ~ AbsenceHolds(id) \/ \E row \in RowsOf(id) : ~ FactHolds(row)
    THEN "damaged" ELSE IF RowsOf(id) = {} THEN "absent" ELSE "stored"

(***************************************************************************)
(* The invocation.                                                         *)
(***************************************************************************)
Moves(a, from, to) == asker[a] = from /\ asker' = [asker EXCEPT ![a] = to]

\* mint_attestation for the intent; the draft is a function of the ask.
Mint(a) ==
    /\ Moves(a, "running", "attested")
    /\ proofs' = proofs \cup {a}
    /\ UNCHANGED <<world, tables, receipts, returned, reader, faults, damage>>

\* Variant: a repeated send is not recognised by its derived identity.
AppendsAnew(a) ==
    /\ mail' = Inserted(mail, Request(a))
    /\ written' = Append(written, At(mail.high + 1, Request(a)))

\* channel_append_request: the stored message of an earlier attempt, or a new row.
AppendRequest(a) ==
    LET row == At(mail.high + 1, Request(a))
    IN  IF Found(<<"request", a>>) = "absent"
        THEN mail' = Inserted(mail, Request(a)) /\ written' = Append(written, row)
        ELSE UNCHANGED <<mail, written>>

\* ChannelSendEffect.execute or reconcile, without a receipt.
Send(a) ==
    /\ a \notin receipts /\ Moves(a, "attested", IF Found(<<"request", a>>) = "damaged" THEN "failed" ELSE "appended")
    /\ IF Found(<<"request", a>>) = "damaged" THEN UNCHANGED <<mail, written>> ELSE AppendRequest(a)
    /\ UNCHANGED <<world, acks, acked, proofs, receipts, returned, reader, faults, damage>>

\* The boundary records the receipt; an attempt that finds one sends nothing.
Receipt(a) ==
    /\ IF a \in receipts THEN Moves(a, "attested", "sent") ELSE Moves(a, "appended", "sent")
    /\ receipts' = receipts \cup {a}
    /\ UNCHANGED <<world, tables, proofs, returned, reader, faults, damage>>

\* channel_reply_for: the one reply, or nothing yet.
ReplyFor(a) == IF Found(<<"request", a>>) = "damaged" THEN "damaged" ELSE Found(<<"reply", a>>)

\* ask looks for the reply once: it returns it, or the invocation is parked.
Look(a) ==
    /\ Moves(a, "sent", CASE ReplyFor(a) = "stored" -> "answered"
                          [] ReplyFor(a) = "absent" -> "parking"
                          [] OTHER -> "failed")
    /\ returned' = [returned EXCEPT ![a] =
            IF ReplyFor(a) = "stored" THEN @ \cup {row.fact.body : row \in RowsOf(<<"reply", a>>)} ELSE @]
    /\ UNCHANGED <<world, tables, proofs, receipts, reader, faults, damage>>

\* InvocationParked becomes durable: a step later, and the reply may come in between.
Park(a) ==
    /\ Moves(a, "parking", "parked")
    /\ UNCHANGED <<world, tables, proofs, receipts, returned, reader, faults, damage>>

\* Variant: only the reply's own launch wakes the run; nobody looks at parked waits.
WakesNothing(a) == FALSE

\* answered_requests over the parked waits; the run is attempted again from the start.
Answered(a) == ReplyFor(a) = "stored"
Wake(a) ==
    /\ Moves(a, "parked", "running")
    /\ Answered(a)
    /\ UNCHANGED <<world, tables, proofs, receipts, returned, reader, faults, damage>>

\* The worker dies; recovery attempts the run again.  An in-process exchange is for
\* composition within the process and does not outlive it.
Crash(a) ==
    /\ faults > 0 /\ world.transport = "mailbox"
    /\ asker[a] \in {"attested", "appended", "sent", "parking"}
    /\ asker' = [asker EXCEPT ![a] = "running"]
    /\ faults' = faults - 1
    /\ UNCHANGED <<world, tables, proofs, receipts, returned, reader, damage>>

(***************************************************************************)
(* People.                                                                 *)
(***************************************************************************)
\* Who may find a request is who may answer it.
Addressed(a, actor) == Route[a].to \in {None, actor}

\* A reply implies its sender's acknowledgement, unless there is one.
ImpliesAck(o) == AckRows(o.ask, o.actor) = {}

AckFact(o) == [ask |-> o.ask, actor |-> o.actor, by |-> o]

\* channel_reply and reply_in_transaction; the first reply is the only one.
ChannelReply(o) ==
    /\ o.op = "reply" /\ Addressed(o.ask, o.actor)
    /\ Found(<<"request", o.ask>>) = "stored" /\ Found(<<"reply", o.ask>>) = "absent"
    /\ AcksHold(o.ask, o.actor)
    /\ mail' = Inserted(mail, Reply(o))
    /\ written' = Append(written, At(mail.high + 1, Reply(o)))
    /\ IF ImpliesAck(o)
       THEN acks' = Inserted(acks, AckFact(o)) /\ acked' = Append(acked, At(acks.high + 1, AckFact(o)))
       ELSE UNCHANGED <<acks, acked>>
    /\ UNCHANGED <<world, asker, proofs, receipts, returned, reader, faults, damage>>

\* channel_acknowledge: a torn reply is damage, never completed by an acknowledgement.
ChannelAcknowledge(o) ==
    /\ o.op = "ack" /\ Addressed(o.ask, o.actor)
    /\ Found(<<"request", o.ask>>) = "stored" /\ Found(<<"reply", o.ask>>) # "damaged"
    /\ AcksHold(o.ask, o.actor) /\ AckRows(o.ask, o.actor) = {}
    /\ acks' = Inserted(acks, AckFact(o))
    /\ acked' = Append(acked, At(acks.high + 1, AckFact(o)))
    /\ UNCHANGED <<world, mail, written, asker, proofs, receipts, returned, reader, faults, damage>>

(***************************************************************************)
(* Inboxes.  A session fixes its cut with the first page and carries it in *)
(* the cursor, with the last position it has seen.                         *)
(***************************************************************************)
InScope(r, a) == (r.channel # None => Route[a].channel = r.channel)
Wanted(r, a) == InScope(r, a) /\ Route[a].interaction \in r.interactions
MaxOf(seqs) == IF seqs = {} THEN 0 ELSE CHOOSE n \in seqs : \A m \in seqs : m <= n

\* _current_revision, and the acknowledgement of a missing message is damage.
Orphaned == \E row \in acks.rows : RowsOf(<<"request", row.fact.ask>>) = {}

Revision(r) ==
    [messages |-> MaxOf({row.seq : row \in {m \in mail.rows : InScope(r, m.fact.ask)}}),
     acks |-> MaxOf({row.seq : row \in {m \in acks.rows : InScope(r, m.fact.ask)}})]

Open(r) ==
    /\ reader[r].at = "new" /\ r \in world.readers
    /\ reader' = [reader EXCEPT ![r] =
            IF HistoryWhole /\ ~ Orphaned
            THEN [@ EXCEPT !.at = "paging", !.messages = Revision(r).messages, !.acks = Revision(r).acks]
            ELSE [@ EXCEPT !.at = "refused"]]
    /\ UNCHANGED <<world, tables, asker, proofs, receipts, returned, faults, damage>>

\* The SQL form of discoverable_by.
Visible(r, row) ==
    \/ row.fact.to = r.actor
    \/ row.fact.kind = "request" /\ row.fact.to = None

\* Variant: rows are selected by their own routing alone.
NoAnomaly(row) == FALSE

\* _INVALID_INBOX_ROUTING and _INBOX_REQUEST_PROOF_MISMATCH: a row whose routing is not
\* what its proof says is selected whoever asks, so that it is found out.
RoutingAnomaly(row) ==
    IF row.fact.kind = "request" THEN row.fact.to # Route[row.fact.ask].to ELSE row.fact.to # None

Selected(r, s) ==
    {row \in mail.rows :
        /\ row.seq <= s.messages
        /\ \/ Visible(r, row) /\ Wanted(r, row.fact.ask) /\ row.seq > s.after
           \/ RoutingAnomaly(row)}

Ordered(rows) == SetToSortSeq(rows, LAMBDA x, y : x.seq < y.seq)
Batch(r, s) ==
    LET all == Ordered(Selected(r, s))
    IN  SubSeq(all, 1, IF Len(all) < PageSize + 1 THEN Len(all) ELSE PageSize + 1)

\* The acknowledgements of a page: each row is proved, and a seal within the cut whose
\* row is gone is damage.
AcksOfPage(r, s, page) ==
    \A a \in {page[i].fact.ask : i \in DOMAIN page} :
        /\ \A row \in acks.rows : row.fact.ask = a /\ row.seq <= s.acks => Sealed(acks, row)
        /\ \A seal \in acks.seals :
                seal.fact.ask = a /\ seal.fact.actor = r.actor /\ seal.seq <= s.acks
                    => \E row \in AckRows(a, r.actor) : row.seq <= s.acks

Delivery(r, s, row) ==
    [seq |-> row.seq, ask |-> row.fact.ask, body |-> row.fact.body,
     acknowledged |-> \E ack \in AckRows(row.fact.ask, r.actor) : ack.seq <= s.acks]

\* _inbox
PageHolds(r, s, page) ==
    /\ HistoryWhole /\ ~ Orphaned
    /\ \A i \in DOMAIN page : RequestHolds(page[i])
    /\ AcksOfPage(r, s, page)

\* channels_inbox: one row more than the page says whether there is another page.
Page(r) ==
    /\ reader[r].at = "paging" /\ world.transport = "mailbox"
    /\ LET s == reader[r]
           batch == Batch(r, s)
           shown == SubSeq(batch, 1, IF Len(batch) < PageSize THEN Len(batch) ELSE PageSize)
       IN  reader' = [reader EXCEPT ![r] =
                IF ~ PageHolds(r, s, batch) THEN [@ EXCEPT !.at = "refused"]
                ELSE [@ EXCEPT !.at = IF Len(batch) > PageSize THEN "paging" ELSE "done",
                               !.after = IF shown = <<>> THEN @ ELSE Last(shown).seq,
                               !.got = @ \o [i \in DOMAIN shown |-> Delivery(r, s, shown[i])]]]
    /\ UNCHANGED <<world, tables, asker, proofs, receipts, returned, faults, damage>>

\* InProcessChannel._validate_history: the indexes and the independent copies name the
\* messages and acknowledgements that the lists hold.
CopiesAgree == \A table \in {mail, acks} : table.rows = table.seals /\ AppendOnly(table)

\* InProcessChannel.inbox: every message of the cut is proved before it is filtered.
PageInProcess(r) ==
    /\ reader[r].at = "paging" /\ world.transport = "in_process"
    /\ LET s == reader[r]
           cut == {row \in mail.rows : row.seq <= s.messages}
           page == Ordered({row \in cut : /\ row.seq > s.after
                                          /\ Visible(r, row) /\ Wanted(r, row.fact.ask)})
           n == IF Len(page) < PageSize THEN Len(page) ELSE PageSize
       IN  reader' = [reader EXCEPT ![r] =
                IF ~ CopiesAgree \/ \E row \in cut : ~ FactHolds(row) THEN [@ EXCEPT !.at = "refused"]
                ELSE [@ EXCEPT !.at = IF n = PageSize THEN "paging" ELSE "done",
                               !.after = IF n = 0 THEN @ ELSE page[n].seq,
                               !.got = @ \o [i \in 1 .. n |-> Delivery(r, s, page[i])]]]
    /\ UNCHANGED <<world, tables, asker, proofs, receipts, returned, faults, damage>>

(***************************************************************************)
(* Damage: a row or a seal is lost, or a row says something else.          *)
(***************************************************************************)
Altered(fact) ==
    {[fact EXCEPT !.to = x] : x \in {r.actor : r \in Readers} \ {fact.to}} \cup {[fact EXCEPT !.body = None]}
AlteredAck(fact) == {[fact EXCEPT !.actor = x] : x \in {r.actor : r \in Readers} \ {fact.actor}}

Damage ==
    /\ damage > 0 /\ damage' = damage - 1 /\ world.transport = "mailbox"
    /\ \/ \E row \in mail.rows : mail' = [mail EXCEPT !.rows = @ \ {row}] /\ UNCHANGED acks
       \/ \E row \in mail.seals : mail' = [mail EXCEPT !.seals = @ \ {row}] /\ UNCHANGED acks
       \/ \E row \in mail.rows : \E fact \in Altered(row.fact) :
            mail' = [mail EXCEPT !.rows = (@ \ {row}) \cup {At(row.seq, fact)}] /\ UNCHANGED acks
       \/ \E row \in acks.rows : acks' = [acks EXCEPT !.rows = @ \ {row}] /\ UNCHANGED mail
       \/ \E row \in acks.seals : acks' = [acks EXCEPT !.seals = @ \ {row}] /\ UNCHANGED mail
       \/ \E row \in acks.rows : \E fact \in AlteredAck(row.fact) :
            acks' = [acks EXCEPT !.rows = (@ \ {row}) \cup {At(row.seq, fact)}] /\ UNCHANGED mail
    /\ UNCHANGED <<world, written, acked, asker, proofs, receipts, returned, reader, faults>>

AskerStep(a) == Mint(a) \/ Send(a) \/ Receipt(a) \/ Look(a) \/ Park(a) \/ Wake(a)
Next ==
    \/ \E a \in Asks : AskerStep(a) \/ Crash(a)
    \/ \E o \in world.people : ChannelReply(o) \/ ChannelAcknowledge(o)
    \/ \E r \in Readers : Open(r) \/ Page(r) \/ PageInProcess(r)
    \/ Damage

\* Workers go on and the host's scan of parked waits comes round (RunHost); people answer
\* when they like.
Spec == Init /\ [][Next]_vars /\ \A a \in Asks : WF_vars(AskerStep(a))

-----------------------------------------------------------------------------

\* The deliveries of a cut, from what was really written.
CutOf(r, s) ==
    LET mine == SelectSeq(written, LAMBDA row : /\ row.seq <= s.messages /\ row.fact.kind = "request"
                                                /\ Addressed(row.fact.ask, r.actor) /\ Wanted(r, row.fact.ask))
    IN  [i \in DOMAIN mine |->
            [seq |-> mine[i].seq, ask |-> mine[i].fact.ask, body |-> mine[i].fact.body,
             acknowledged |-> \E j \in DOMAIN acked : /\ acked[j].seq <= s.acks
                                                      /\ acked[j].fact.ask = mine[i].fact.ask
                                                      /\ acked[j].fact.actor = r.actor]]

\* The pages of an inbox session together are exactly the messages of its first cut, in
\* order and each once, with the acknowledgements of that cut, though messages and
\* acknowledgements are written between two pages and rows or seals are damaged: damage
\* is reported, never shown, hidden or skipped.
PagesAreTheCut ==
    \A r \in Readers :
        LET s == reader[r] IN  /\ s.at # "refused" => IsPrefix(s.got, CutOf(r, s))
                               /\ s.at = "done" => s.got = CutOf(r, s)

\* An ask puts one request into the channel over all attempts of its run and is answered
\* with one reply, the one that was written, however often it is asked again.
OneExchange ==
    \A a \in Asks :
        /\ \A kind \in {"request", "reply"} :
                Cardinality({i \in DOMAIN written : Id(written[i]) = <<kind, a>>}) <= 1
        /\ \A x \in returned[a] : \E i \in DOMAIN written : written[i].fact = Reply(x)

\* A reply is not lost to an invocation that is just parking: unless rows are damaged, an
\* answered ask returns.
AnsweredAsksReturn ==
    \A a \in Asks : (\E i \in DOMAIN written : Id(written[i]) = <<"reply", a>>) ~> (asker[a] = "answered" \/ damage < world.damage)
=============================================================================
