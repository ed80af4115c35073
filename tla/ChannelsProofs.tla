--------------------------- MODULE ChannelsProofs ---------------------------
(***************************************************************************)
(* Theorems about Channels, for every set of asks, people and inboxes, any *)
(* number of crashes and any amount of damage to the stored rows and to    *)
(* their seals.                                                            *)
(*                                                                         *)
(* The argument is about positions.  Damage can remove a row, or rewrite   *)
(* its addressee or its body, but it forges neither a position, an         *)
(* identity nor a seal.  So a row stands where a row of its identity was   *)
(* written (RowsStand), every seal is of a row that was written            *)
(* (SealsAreGenuine), and a table without a gap below its high-water mark  *)
(* shows every identity that was ever written.  That is why a send may     *)
(* conclude from an absence that it never sent.                            *)
(***************************************************************************)
EXTENDS Channels, FiniteSetTheorems, TLAPS

Kinds == {"request", "reply"}
Recipients == {None} \cup {Route[a].to : a \in Asks} \cup {r.actor : r \in Readers}
Senders == {None} \cup {o.actor : o \in Orders}
Facts == [kind : Kinds, ask : Asks, to : Recipients, from : Senders, body : Asks \cup Orders \cup {None}]
Rows == [seq : Nat, fact : Facts]

TypeOK ==
    /\ world \in Worlds
    /\ written \in Seq(Rows)
    /\ mail \in [rows : SUBSET Rows, seals : SUBSET Rows, high : Nat]
    /\ returned \in [Asks -> SUBSET (Asks \cup Orders \cup {None})]

\* Positions are given in order, up to the high-water mark, and never again.
PositionsAreOrder == mail.high = Len(written) /\ \A i \in 1 .. Len(written) : written[i].seq = i

\* A stored row, altered or not, is at the position where its identity was written.
RowsStand == \A row \in mail.rows : row.seq \in 1 .. Len(written) /\ Id(row) = Id(written[row.seq])

\* No seal is of anything else than a row that was written.
SealsAreGenuine == \A seal \in mail.seals : \E i \in 1 .. Len(written) : written[i] = seal

\* An identity is written once.
IdentitiesAreOnce == \A i, j \in 1 .. Len(written) : Id(written[i]) = Id(written[j]) => i = j

\* What an invocation was answered is a reply that was written.
AnswersWereWritten ==
    \A a \in Asks : \A x \in returned[a] : \E i \in 1 .. Len(written) : written[i].fact = Reply(x)

Inv == TypeOK /\ PositionsAreOrder /\ RowsStand /\ SealsAreGenuine /\ IdentitiesAreOnce /\ AnswersWereWritten

\* An exact read under any damage: an absence is the truth, and what is found is the one
\* row of that identity as it was written.
ExactReads ==
    \A kind \in Kinds, a \in Asks :
        LET id == <<kind, a>> IN
        /\ Found(id) = "absent" => \A i \in 1 .. Len(written) : Id(written[i]) # id
        /\ Found(id) = "stored" => \E i \in 1 .. Len(written) : Id(written[i]) = id /\ RowsOf(id) = {written[i]}

\* What damage cannot do, whatever it does.
ForgesNothing ==
    /\ mail'.high = mail.high /\ mail'.seals \subseteq mail.seals
    /\ mail' \in [rows : SUBSET Rows, seals : SUBSET Rows, high : Nat]
    /\ \A row \in mail'.rows : row \in mail.rows \/ \E old \in mail.rows : row.seq = old.seq /\ Id(row) = Id(old)

-----------------------------------------------------------------------------
(***************************************************************************)
(* Rows.                                                                   *)
(***************************************************************************)
\* The request of an ask is a fact of that ask.
LEMMA RequestFact ==
    ASSUME NEW a \in Asks
    PROVE  Request(a) \in Facts /\ Request(a).kind = "request" /\ Request(a).ask = a
BY DEF Request, Facts, Kinds, Recipients, Senders

\* The reply a command writes is a fact of the command's ask.
LEMMA ReplyFact ==
    ASSUME NEW o \in Orders
    PROVE  Reply(o) \in Facts /\ Reply(o).kind = "reply" /\ Reply(o).ask = o.ask
BY OrderAssumption DEF Reply, Facts, Kinds, Recipients, Senders

\* A row has the position and the fact it was made of.
LEMMA RowAt ==
    ASSUME NEW n \in Nat, NEW f \in Facts
    PROVE  At(n, f) \in Rows /\ At(n, f).seq = n /\ At(n, f).fact = f /\ Id(At(n, f)) = <<f.kind, f.ask>>
BY DEF At, Rows, Id

\* An alteration rewrites the addressee or the body and leaves the identity.
LEMMA AlterationKeepsIdentity ==
    ASSUME NEW f \in Facts, NEW g \in Altered(f)
    PROVE  g \in Facts /\ g.kind = f.kind /\ g.ask = f.ask
BY DEF Altered, Facts, Recipients

\* Where no row is missing below the high-water mark, an identity without a row was
\* never written.
LEMMA AbsenceIsTrue ==
    ASSUME Inv, NEW id, HistoryWhole, RowsOf(id) = {}
    PROVE  \A i \in 1 .. Len(written) : Id(written[i]) # id
<1>1. {row.seq : row \in mail.rows} = 1 .. mail.high
    BY DEF HistoryWhole, AppendOnly
<1>2. SUFFICES ASSUME NEW i \in 1 .. Len(written)
               PROVE  Id(written[i]) # id
    OBVIOUS
<1>3. PICK row \in mail.rows : row.seq = i
    BY <1>1 DEF Inv, PositionsAreOrder
<1>4. Id(row) = Id(written[i])
    BY <1>3 DEF Inv, RowsStand
<1> QED BY <1>4 DEF RowsOf

\* A sealed row is the row that was written, and the only one of its identity.
LEMMA SealedIsWritten ==
    ASSUME Inv, NEW row \in mail.rows, Sealed(mail, row)
    PROVE  \E i \in 1 .. Len(written) : written[i] = row
BY DEF Inv, SealsAreGenuine, Sealed

\* A fact that holds is sealed.
LEMMA HoldingIsSealed ==
    ASSUME NEW row, FactHolds(row)
    PROVE  Sealed(mail, row)
BY DEF FactHolds, RequestHolds, ReplyHolds

\* What an exact read says of the rows it read.
LEMMA FoundMeans ==
    ASSUME NEW id
    PROVE  /\ Found(id) \in {"damaged", "absent", "stored"}
           /\ Found(id) = "absent" => HistoryWhole /\ RowsOf(id) = {}
           /\ Found(id) = "stored" => RowsOf(id) # {} /\ \A row \in RowsOf(id) : FactHolds(row)
BY DEF Found

\* The rows of an identity that an exact read has found.
LEMMA StoredIsWritten ==
    ASSUME Inv, NEW id, Found(id) = "stored"
    PROVE  \E i \in 1 .. Len(written) : Id(written[i]) = id /\ RowsOf(id) = {written[i]}
<1>1. PICK row \in RowsOf(id) : FactHolds(row)
    BY FoundMeans
<1>2. row \in mail.rows /\ Id(row) = id
    BY DEF RowsOf
<1>3. PICK i \in 1 .. Len(written) : written[i] = row
    BY <1>1, <1>2, HoldingIsSealed, SealedIsWritten
<1>4. ASSUME NEW other \in RowsOf(id)
      PROVE  other = row
    <2>1. FactHolds(other)
        BY FoundMeans
    <2>2. other \in mail.rows /\ Id(other) = id
        BY DEF RowsOf
    <2>3. PICK j \in 1 .. Len(written) : written[j] = other
        BY <2>1, <2>2, HoldingIsSealed, SealedIsWritten
    <2> QED BY <1>2, <1>3, <2>2, <2>3 DEF Inv, IdentitiesAreOnce
<1> QED BY <1>2, <1>3, <1>4

-----------------------------------------------------------------------------
(***************************************************************************)
(* Steps.                                                                  *)
(***************************************************************************)
\* What an append does to the rows that were written.
LEMMA AppendedRows ==
    ASSUME NEW s \in Seq(Rows), NEW row \in Rows
    PROVE  /\ Append(s, row) \in Seq(Rows) /\ Len(s) \in Nat /\ Len(Append(s, row)) = Len(s) + 1
           /\ Append(s, row)[Len(s) + 1] = row
           /\ \A i \in 1 .. Len(s) : Append(s, row)[i] = s[i]
           /\ 1 .. Len(Append(s, row)) = 1 .. Len(s) \cup {Len(s) + 1}
OBVIOUS

\* The insertion of a row whose identity is new keeps the invariant.
LEMMA InsertionKeeps ==
    ASSUME Inv, NEW f \in Facts,
           \A i \in 1 .. Len(written) : Id(written[i]) # <<f.kind, f.ask>>,
           mail' = Inserted(mail, f), written' = Append(written, At(mail.high + 1, f)),
           world' = world, returned' = returned
    PROVE  Inv'
<1> DEFINE new == At(mail.high + 1, f)
           n == Len(written)
<1>1. n \in Nat /\ mail.high = n /\ written \in Seq(Rows)
    BY DEF Inv, TypeOK, PositionsAreOrder
<1>2. new \in Rows /\ new.seq = n + 1 /\ Id(new) = <<f.kind, f.ask>>
    BY <1>1, RowAt
<1>3. mail' = [rows |-> mail.rows \cup {new}, seals |-> mail.seals \cup {new}, high |-> n + 1]
    BY <1>1 DEF Inserted
<1>4. /\ written' \in Seq(Rows) /\ Len(written') = n + 1 /\ written'[n + 1] = new
      /\ \A i \in 1 .. n : written'[i] = written[i]
      /\ 1 .. Len(written') = 1 .. n \cup {n + 1}
    BY <1>1, <1>2, AppendedRows
<1> HIDE DEF new, n
<1>5. TypeOK'
    BY <1>1, <1>2, <1>3, <1>4 DEF Inv, TypeOK
<1>6. PositionsAreOrder'
    BY <1>2, <1>3, <1>4 DEF Inv, PositionsAreOrder, n
<1>7. RowsStand'
    <2> SUFFICES ASSUME NEW row \in mail'.rows
                 PROVE  row.seq \in 1 .. Len(written') /\ Id(row) = Id(written'[row.seq])
        BY DEF RowsStand
    <2>1. CASE row = new
        BY <2>1, <1>2, <1>4
    <2>2. CASE row \in mail.rows
        BY <2>2, <1>4 DEF Inv, RowsStand, n
    <2> QED BY <2>1, <2>2, <1>3
<1>8. SealsAreGenuine'
    <2> SUFFICES ASSUME NEW seal \in mail'.seals
                 PROVE  \E i \in 1 .. Len(written') : written'[i] = seal
        BY DEF SealsAreGenuine
    <2>1. CASE seal = new
        BY <2>1, <1>4
    <2>2. CASE seal \in mail.seals
        <3>1. PICK i \in 1 .. n : written[i] = seal
            BY <2>2 DEF Inv, SealsAreGenuine, n
        <3> QED BY <3>1, <1>4
    <2> QED BY <2>1, <2>2, <1>3
<1>9. IdentitiesAreOnce'
    <2> SUFFICES ASSUME NEW i \in 1 .. Len(written'), NEW j \in 1 .. Len(written'),
                        Id(written'[i]) = Id(written'[j])
                 PROVE  i = j
        BY DEF IdentitiesAreOnce
    <2>1. CASE i \in 1 .. n /\ j \in 1 .. n
        BY <2>1, <1>4 DEF Inv, IdentitiesAreOnce, n
    <2>2. CASE i = n + 1 /\ j \in 1 .. n
        BY <2>2, <1>2, <1>4 DEF n
    <2>3. CASE i \in 1 .. n /\ j = n + 1
        BY <2>3, <1>2, <1>4 DEF n
    <2> QED BY <2>1, <2>2, <2>3, <1>4
<1>10. AnswersWereWritten'
    <2> SUFFICES ASSUME NEW a \in Asks, NEW x \in returned[a]
                 PROVE  \E i \in 1 .. Len(written') : written'[i].fact = Reply(x)
        BY DEF AnswersWereWritten, Reply
    <2>1. PICK i \in 1 .. n : written[i].fact = Reply(x)
        BY DEF Inv, AnswersWereWritten, n
    <2> QED BY <2>1, <1>4
<1> QED BY <1>5, <1>6, <1>7, <1>8, <1>9, <1>10 DEF Inv

\* So does a step that leaves the messages and the answers alone.
LEMMA NothingWritten ==
    ASSUME Inv, mail' = mail, written' = written, world' = world, returned' = returned
    PROVE  Inv'
BY DEF Inv, TypeOK, PositionsAreOrder, RowsStand, SealsAreGenuine, IdentitiesAreOnce, AnswersWereWritten, Reply, Id

\* So does damage, which takes rows or seals away or rewrites what is not the identity.
LEMMA DamageKeeps ==
    ASSUME Inv, Damage
    PROVE  Inv'
<1>1. world' = world /\ written' = written /\ returned' = returned
    BY DEF Damage
<1>2. ForgesNothing
    <2>1. ASSUME NEW row \in mail.rows, mail' = [mail EXCEPT !.rows = @ \ {row}]
          PROVE  ForgesNothing
        BY <2>1 DEF Inv, TypeOK, ForgesNothing
    <2>2. ASSUME NEW row \in mail.seals, mail' = [mail EXCEPT !.seals = @ \ {row}]
          PROVE  ForgesNothing
        BY <2>2 DEF Inv, TypeOK, ForgesNothing
    <2>3. ASSUME NEW row \in mail.rows, NEW fact \in Altered(row.fact),
                 mail' = [mail EXCEPT !.rows = (@ \ {row}) \cup {At(row.seq, fact)}]
          PROVE  ForgesNothing
        <3>1. row \in Rows /\ row.seq \in Nat /\ row.fact \in Facts
            BY DEF Inv, TypeOK, Rows
        <3>2. fact \in Facts /\ fact.kind = row.fact.kind /\ fact.ask = row.fact.ask
            BY <3>1, AlterationKeepsIdentity
        <3>3. At(row.seq, fact) \in Rows /\ At(row.seq, fact).seq = row.seq /\ Id(At(row.seq, fact)) = Id(row)
            BY <3>1, <3>2, RowAt DEF Id
        <3> QED BY <2>3, <3>3 DEF Inv, TypeOK, ForgesNothing
    <2>4. ASSUME mail' = mail
          PROVE  ForgesNothing
        BY <2>4 DEF Inv, TypeOK, ForgesNothing
    <2> QED BY <2>1, <2>2, <2>3, <2>4 DEF Damage
<1>3. TypeOK' /\ PositionsAreOrder'
    BY <1>1, <1>2 DEF Inv, TypeOK, PositionsAreOrder, ForgesNothing
<1>4. RowsStand'
    BY <1>1, <1>2 DEF Inv, RowsStand, ForgesNothing
<1>5. SealsAreGenuine' /\ IdentitiesAreOnce' /\ AnswersWereWritten'
    BY <1>1, <1>2 DEF Inv, SealsAreGenuine, IdentitiesAreOnce, AnswersWereWritten, Id, Reply, ForgesNothing
<1> QED BY <1>3, <1>4, <1>5 DEF Inv

\* An answer that is handed out is a reply that was written: the row that was read is
\* sealed, and the plan of its command says what its body is.
LEMMA LookKeeps ==
    ASSUME Inv, NEW a \in Asks, Look(a)
    PROVE  Inv'
<1>1. world' = world /\ mail' = mail /\ written' = written
    BY DEF Look, tables
<1> DEFINE id == <<"reply", a>>
           Bodies == {row.fact.body : row \in RowsOf(id)}
<1>2. CASE ReplyFor(a) # "stored"
    <2>1. returned' = returned
        BY <1>2 DEF Look, Inv, TypeOK
    <2> QED BY <1>1, <2>1, NothingWritten
<1>3. CASE ReplyFor(a) = "stored"
    <2>1. returned' = [returned EXCEPT ![a] = @ \cup Bodies]
        BY <1>3 DEF Look
    <2>2. Found(id) = "stored"
        BY <1>3 DEF ReplyFor
    <2>3. ASSUME NEW x \in Bodies
          PROVE  x \in Asks \cup Orders \cup {None} /\ \E i \in 1 .. Len(written) : written[i].fact = Reply(x)
        <3>1. PICK row \in RowsOf(id) : row.fact.body = x
            OBVIOUS
        <3>2. row \in mail.rows /\ Id(row) = id /\ FactHolds(row)
            BY <2>2, FoundMeans DEF RowsOf
        <3>3. row.fact.kind = "reply"
            BY <3>2 DEF Id
        <3>4. ReplyHolds(row)
            BY <3>2, <3>3 DEF FactHolds
        <3>5. x \in Orders /\ row.fact = Reply(x)
            BY <3>1, <3>4 DEF ReplyHolds, Planned
        <3>6. PICK i \in 1 .. Len(written) : written[i] = row
            BY <3>2, <3>4, SealedIsWritten DEF ReplyHolds
        <3> QED BY <3>5, <3>6
    <2> HIDE DEF Bodies
    <2>4. returned' \in [Asks -> SUBSET (Asks \cup Orders \cup {None})]
        BY <2>1, <2>3 DEF Inv, TypeOK
    <2>5. AnswersWereWritten'
        <3> SUFFICES ASSUME NEW b \in Asks, NEW x \in returned'[b]
                     PROVE  \E i \in 1 .. Len(written) : written[i].fact = Reply(x)
            BY <1>1 DEF AnswersWereWritten, Reply
        <3>1. CASE x \in returned[b]
            BY <3>1 DEF Inv, AnswersWereWritten
        <3>2. CASE x \in Bodies
            BY <3>2, <2>3
        <3> QED BY <2>1, <3>1, <3>2 DEF Inv, TypeOK
    <2> QED BY <1>1, <2>4, <2>5 DEF Inv, TypeOK, PositionsAreOrder, RowsStand, SealsAreGenuine, IdentitiesAreOnce, Id
<1> QED BY <1>2, <1>3

\* A send appends only what an exact read found absent.
LEMMA SendKeeps ==
    ASSUME Inv, NEW a \in Asks, Send(a)
    PROVE  Inv'
<1>1. world' = world /\ returned' = returned
    BY DEF Send
<1>2. CASE Found(<<"request", a>>) = "absent"
    <2>1. mail' = Inserted(mail, Request(a)) /\ written' = Append(written, At(mail.high + 1, Request(a)))
        BY <1>2 DEF Send, AppendRequest
    <2>2. \A i \in 1 .. Len(written) : Id(written[i]) # <<"request", a>>
        BY <1>2, FoundMeans, AbsenceIsTrue
    <2> QED BY <1>1, <2>1, <2>2, RequestFact, InsertionKeeps
<1>3. CASE Found(<<"request", a>>) # "absent"
    <2>1. mail' = mail /\ written' = written
        BY <1>3 DEF Send, AppendRequest
    <2> QED BY <1>1, <2>1, NothingWritten
<1> QED BY <1>2, <1>3

\* A person's reply is written only where an exact read found none.
LEMMA ReplyKeeps ==
    ASSUME Inv, NEW o \in Orders, ChannelReply(o)
    PROVE  Inv'
<1>1. /\ world' = world /\ returned' = returned
      /\ mail' = Inserted(mail, Reply(o)) /\ written' = Append(written, At(mail.high + 1, Reply(o)))
      /\ Found(<<"reply", o.ask>>) = "absent"
    BY DEF ChannelReply
<1>2. \A i \in 1 .. Len(written) : Id(written[i]) # <<"reply", o.ask>>
    BY <1>1, FoundMeans, AbsenceIsTrue
<1> QED BY <1>1, <1>2, ReplyFact, InsertionKeeps

\* A step that writes no message and answers nobody.
LEMMA OtherStepsKeep ==
    ASSUME Inv,
           \/ \E a \in Asks : Mint(a) \/ Receipt(a) \/ Park(a) \/ Wake(a) \/ Crash(a)
           \/ \E o \in Orders : ChannelAcknowledge(o)
           \/ \E r \in Readers : Open(r) \/ Page(r) \/ PageInProcess(r)
    PROVE  Inv'
<1>1. mail' = mail /\ written' = written /\ world' = world /\ returned' = returned
    BY DEF Mint, Receipt, Park, Wake, Crash, ChannelAcknowledge, Open, Page, PageInProcess, tables
<1> QED BY <1>1, NothingWritten

-----------------------------------------------------------------------------
\* The first state: the requests sent before stand as they were written.
LEMMA InitEstablishes == Init => Inv
<1> SUFFICES ASSUME Init PROVE Inv
    OBVIOUS
<1>1. world \in Worlds /\ world.sent \in Seq(Asks) /\ \A i, j \in DOMAIN world.sent : world.sent[i] = world.sent[j] => i = j
    BY WorldAssumption DEF Init
<1> DEFINE n == Len(world.sent)
<1>2. n \in Nat /\ DOMAIN world.sent = 1 .. n /\ \A i \in 1 .. n : world.sent[i] \in Asks
    BY <1>1
<1>3. written = [i \in 1 .. n |-> At(i, Request(world.sent[i]))]
    BY <1>2 DEF Init
<1>4. ASSUME NEW i \in 1 .. n
      PROVE  written[i] \in Rows /\ written[i].seq = i /\ Id(written[i]) = <<"request", world.sent[i]>>
    <2>1. Request(world.sent[i]) \in Facts /\ Request(world.sent[i]).kind = "request" /\ Request(world.sent[i]).ask = world.sent[i]
        BY <1>2, RequestFact
    <2>2. i \in Nat
        BY <1>2
    <2> QED BY <1>3, <2>1, <2>2, RowAt
<1> HIDE DEF n
<1>5. written \in Seq(Rows) /\ Len(written) = n
    BY <1>2, <1>3, <1>4
<1>6. mail = [rows |-> Range(written), seals |-> Range(written), high |-> n]
    BY <1>5 DEF Init
<1>7. Range(written) \subseteq Rows /\ \A row \in Range(written) : \E i \in 1 .. n : written[i] = row
    BY <1>3, <1>4 DEF Range
<1>8. returned = [a \in Asks |-> {}]
    BY DEF Init
<1>9. TypeOK
    BY <1>1, <1>2, <1>5, <1>6, <1>7, <1>8 DEF TypeOK
<1>10. PositionsAreOrder /\ SealsAreGenuine /\ AnswersWereWritten
    BY <1>4, <1>5, <1>6, <1>7, <1>8 DEF PositionsAreOrder, SealsAreGenuine, AnswersWereWritten
<1>11. RowsStand
    BY <1>4, <1>5, <1>6, <1>7 DEF RowsStand
<1>12. IdentitiesAreOnce
    <2> SUFFICES ASSUME NEW i \in 1 .. n, NEW j \in 1 .. n, Id(written[i]) = Id(written[j])
                 PROVE  i = j
        BY <1>5 DEF IdentitiesAreOnce
    <2>1. world.sent[i] = world.sent[j]
        BY <1>4
    <2> QED BY <2>1, <1>1, <1>2
<1> QED BY <1>9, <1>10, <1>11, <1>12 DEF Inv

\* Every step keeps the invariant.
LEMMA NextKeeps == Inv /\ [Next]_vars => Inv'
<1> SUFFICES ASSUME Inv, [Next]_vars PROVE Inv'
    OBVIOUS
<1>1. world.people \subseteq Orders
    BY WorldAssumption DEF Inv, TypeOK
<1>2. CASE UNCHANGED vars
    BY <1>2, NothingWritten DEF vars
<1>3. CASE \E a \in Asks : AskerStep(a) \/ Crash(a)
    BY <1>3, SendKeeps, LookKeeps, OtherStepsKeep DEF AskerStep
<1>4. CASE \E o \in world.people : ChannelReply(o) \/ ChannelAcknowledge(o)
    BY <1>1, <1>4, ReplyKeeps, OtherStepsKeep
<1>5. CASE \E r \in Readers : Open(r) \/ Page(r) \/ PageInProcess(r)
    BY <1>5, OtherStepsKeep
<1>6. CASE Damage
    BY <1>6, DamageKeeps
<1> QED BY <1>2, <1>3, <1>4, <1>5, <1>6 DEF Next

\* The invariant of the channel: positions, identities, seals and answers, under any
\* interleaving of asks, crashes, replies, pages and damage.
THEOREM Invariance == Spec => []Inv
<1>1. Init => Inv
    BY InitEstablishes
<1>2. Inv /\ [Next]_vars => Inv'
    BY NextKeeps
<1> QED BY <1>1, <1>2, PTL DEF Spec

\* channel_append_request and reply_in_transaction recognise what they wrote: over all
\* attempts of its run an ask has one request and one reply in the channel, and what its
\* invocation is answered is a reply that was written, whatever rows and seals were lost
\* or altered meanwhile.
THEOREM ExchangesAreSingle == Spec => []OneExchange
<1>1. ASSUME Inv PROVE OneExchange
    <2>1. DOMAIN written = 1 .. Len(written)
        BY <1>1 DEF Inv, TypeOK
    <2>2. ASSUME NEW a \in Asks, NEW kind \in {"request", "reply"}
          PROVE  Cardinality({i \in DOMAIN written : Id(written[i]) = <<kind, a>>}) <= 1
        <3> DEFINE S == {i \in DOMAIN written : Id(written[i]) = <<kind, a>>}
        <3>1. \A i, j \in S : i = j
            BY <1>1, <2>1 DEF Inv, IdentitiesAreOnce
        <3> HIDE DEF S
        <3>2. ASSUME S = {} PROVE Cardinality(S) <= 1
            BY <3>2, FS_EmptySet
        <3>3. ASSUME NEW i, S = {i} PROVE Cardinality(S) <= 1
            BY <3>3, FS_Singleton
        <3>4. S = {} \/ \E i : S = {i}
            BY <3>1
        <3>5. Cardinality(S) <= 1
            BY <3>2, <3>3, <3>4
        <3> QED BY <3>5 DEF S
    <2>3. ASSUME NEW a \in Asks, NEW x \in returned[a]
          PROVE  \E i \in DOMAIN written : written[i].fact = Reply(x)
        BY <1>1, <2>1 DEF Inv, AnswersWereWritten
    <2> QED BY <2>2, <2>3 DEF OneExchange
<1> QED BY <1>1, Invariance, PTL

\* _channel_message_rows_for_ids and require_durable_fact_seal: whatever was damaged, an
\* exact read that does not report damage tells the truth.  An identity it calls absent
\* was never written, and a message it returns is the row that was written.
THEOREM ReadsAreTrue == Spec => []ExactReads
<1>1. ASSUME Inv PROVE ExactReads
    BY <1>1, FoundMeans, AbsenceIsTrue, StoredIsWritten DEF ExactReads
<1> QED BY <1>1, Invariance, PTL
=============================================================================
