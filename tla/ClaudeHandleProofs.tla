------------------------- MODULE ClaudeHandleProofs -------------------------
(***************************************************************************)
(* Proofs about ClaudeHandle, for every set of worlds: whatever the native *)
(* client writes, in whatever pieces its stream is read, wherever the host *)
(* dies, loses control or fails to write the attempt record.               *)
(*                                                                         *)
(* The proofs need little of the conversation's rules: After, that a       *)
(* transaction past its user message never comes back to the place where   *)
(* one is sent, and that no record changes how many calls were granted and *)
(* answered.  The rest is an account of the handle's life, Account, and of *)
(* what it holds, Holds.                                                   *)
(*                                                                         *)
(* The second half is about how a task ends.  Funds is what a transaction  *)
(* spent and for what, StreamFits how the client's end comes through the   *)
(* pipe, Caught what was read while a worker was at work, Turn how the     *)
(* calls and the end of a task that was not refused agree.  So no budget   *)
(* refuses the reply of a worker, nothing but display records is passed by *)
(* to release its result, and a success read a whole stream.               *)
(***************************************************************************)
EXTENDS ClaudeHandle, TLAPS, SequenceTheorems

Fields == {"at", "n", "st", "boot", "init", "hs", "ids", "call", "calls", "done", "over", "ui", "accepted",
           "spent", "startup", "post", "why"}

\* A transaction, as far as the proofs look into it.
Good(d) ==
    /\ DOMAIN d = Fields /\ d = [x \in Fields |-> d[x]]
    /\ d.n \in 1 .. 7 /\ d.calls \in Nat /\ d.done \in Nat
    /\ d.at \in {"quiet", "handshake", "intended"} => d.n = 4

\* The user message is behind this transaction.
After(d) == d.at \in {"body", "barrier", "worker", "refused"} \/ d.n >= 5

\* What a step of the conversation does to a transaction other than sending or calling.
Kept(d, e) ==
    /\ Good(e) /\ e.calls = d.calls /\ e.done = d.done
    /\ e.at # "intended" /\ (After(d) => After(e))

Stages == {"new", "acquired", "opening", "ready", "running", "over", "maintaining"}

Handles ==
    [at : Stages, closed : BOOLEAN, closing : {"", "close", "relinquish"}, entered : BOOLEAN, fds : SUBSET Custody,
     intent : BOOLEAN, settled : BOOLEAN, silent : BOOLEAN, fence : BOOLEAN, released : BOOLEAN, disposed : BOOLEAN]
Records ==
    [phase : {"none", "acquired", "intent", "outcome"},
     dispatch : {"", "not dispatched", "possibly dispatched", "completed"}, started : Nat, completed : Nat]

TypeOK ==
    /\ h \in Handles /\ record \in Records
    /\ DOMAIN work = {"began", "caught"} /\ work.began \in Nat /\ sent \in Nat
    /\ Good(t)

\* What the record owes to the conversation while the task runs.
TaskFits ==
    /\ record.dispatch = "" /\ sent \in {0, 1}
    /\ sent = 1 => h.intent /\ After(t) /\ record.phase = "intent"
    /\ h.intent => sent = 1
    /\ t.at = "intended" => record.phase = "intent"
    /\ world.mode = "write" =>
        /\ work.began <= t.calls
        /\ ~ h.silent => record.started = t.calls /\ record.completed = t.done
    /\ world.mode # "write" => record.started = 0 /\ record.completed = 0

\* Before the task nothing was sent and nothing was begun.
Untouched ==
    /\ sent = 0 /\ work.began = 0 /\ record.started = 0 /\ record.completed = 0
    /\ record.dispatch \in {"", "not dispatched"}

\* The handle's life: one acquisition gets the record, and settles it once.
Account ==
    /\ h.at \notin {"new", "maintaining"} => record.phase # "none"
    /\ record.phase = "none" => Untouched /\ record.dispatch = ""
    /\ h.at \in {"acquired", "opening", "ready"} => Untouched /\ ~ h.intent /\ t = Fresh
    /\ h.at \in {"acquired", "opening", "ready"} /\ ~ h.settled => record.dispatch = "" /\ ~ h.silent
    /\ h.at \in {"new", "maintaining"} => t = Fresh
    /\ h.at = "new" => h = NewHandle
    /\ h.closed => h.at # "maintaining"
    /\ h.at = "running" => TaskFits
    /\ h.settled /\ h.at # "over" => h.closed /\ h.at \in {"acquired", "ready"}
    /\ h.at = "over" => h.settled \/ (outcome = "refused" /\ ~ h.closed)

\* What the handle holds, and until when.
Holds ==
    /\ h.at \in {"ready", "running"} /\ ~ h.released => h.fds = Custody
    /\ h.released => h.closed /\ h.fds = {} /\ h.at \in {"acquired", "ready", "over"}
    /\ h.released /\ h.closing = "close" /\ h.entered => h.fence
    /\ h.disposed => h.fence /\ h.released
    /\ worker = "running" => h.at = "running"

Inv == TypeOK /\ Account /\ Holds /\ DispatchIsAccounted

-----------------------------------------------------------------------------
\* A transaction begins well.
LEMMA FreshGood == Good(Fresh)
<1>1. DOMAIN Fresh = Fields /\ Fresh = [x \in Fields |-> Fresh[x]] BY DEF Fresh, Fields
<1>2. Fresh.n = 1 /\ Fresh.calls = 0 /\ Fresh.done = 0 /\ Fresh.at = "control" BY DEF Fresh
<1> QED BY <1>1, <1>2 DEF Good

\* The rules for one record.  A refusal ends the transaction and changes nothing else of it.
LEMMA RefuseKept ==
    ASSUME NEW d, NEW why, Good(d)
    PROVE  Kept(d, Refuse(d, why)) /\ Refuse(d, why).at = "refused"
  BY DEF Kept, Good, After, Refuse, Fields

\* A change of a field the proofs do not look at.
LEMMA OtherKept ==
    ASSUME NEW d, NEW x \in Fields \ {"at", "n", "calls", "done"}, NEW v, Good(d), d.at # "intended"
    PROVE  LET e == [d EXCEPT ![x] = v] IN Kept(d, e) /\ e.at = d.at /\ e.n = d.n
  BY DEF Kept, Good, After, Fields

\* What is kept twice is kept.
LEMMA KeptTwice ==
    ASSUME NEW d, NEW e, NEW f, Kept(d, e), Kept(e, f)
    PROVE  Kept(d, f)
  BY DEF Kept

\* Display records change nothing that matters here, or are refused.
LEMMA SidebandKept ==
    ASSUME NEW d, NEW r, Good(d), d.at # "intended", Passes(d, r)
    PROVE  Kept(d, Sideband(d, r))
<1>1. Kept(d, d) BY DEF Kept
<1>2. Kept(d, Ui(d, r))
  <2>1. PICK v : v = d.ui + 1 OBVIOUS
  <2>2. Ui(d, r) = Refuse(d, "ui") \/ Ui(d, r) = [d EXCEPT !["ui"] = v] BY <2>1 DEF Ui, Good, Fields
  <2> QED BY <2>2, RefuseKept, OtherKept DEF Fields
<1>3. Kept(d, Display(d, r)) BY <1>1, RefuseKept DEF Display
<1>4. Kept(d, Lifecycle(d, r))
  <2>1. PICK v : v = (d.over \/ r.body = "completed") OBVIOUS
  <2>2. Lifecycle(d, r) = Refuse(d, "lifecycle") \/ Lifecycle(d, r) = [d EXCEPT !["over"] = v]
    BY <2>1 DEF Lifecycle, Good, Fields
  <2> QED BY <2>2, RefuseKept, OtherKept DEF Fields
<1>5. Kept(d, Thinking(d, r)) BY <1>1, RefuseKept DEF Thinking
<1>6. Kept(d, Running(d, r)) BY <1>1, RefuseKept DEF Running
<1>7. Kept(d, InSession(d, r)) BY <1>1, RefuseKept DEF InSession
<1>8. r.kind \in {"ui", "side", "lifecycle", "thinking", "retry", "heartbeat", "rate", "assistant", "background"}
  BY DEF Passes
<1> QED BY <1>1, <1>2, <1>3, <1>4, <1>5, <1>6, <1>7, <1>8 DEF Sideband

\* Input that is spent, within its budget or not.
LEMMA WrittenKept ==
    ASSUME NEW d, NEW cost, NEW budget, Good(d)
    PROVE  LET e == Written(d, cost, budget)
           IN  /\ Good(e) /\ e.calls = d.calls /\ e.done = d.done /\ e.n = d.n
               /\ e.at = d.at \/ (e.at = "refused" /\ e.why = "bound")
<1>1. PICK a, b, c : [d EXCEPT !.spent = @ + cost,
                       !.startup = IF budget = "startup" THEN @ + cost ELSE @,
                       !.post = IF budget = "post" THEN @ + cost ELSE @] = [d EXCEPT !.spent = a, !.startup = b, !.post = c]
  OBVIOUS
<1>2. PICK e : e = [d EXCEPT !.spent = a, !.startup = b, !.post = c] OBVIOUS
<1>3. Good(e) /\ e.calls = d.calls /\ e.done = d.done /\ e.at = d.at /\ e.n = d.n BY <1>2 DEF Good, Fields
<1>4. Written(d, cost, budget) = e \/ Written(d, cost, budget) = Refuse(e, "bound") BY <1>1, <1>2 DEF Written
<1>5. LET f == Refuse(e, "bound") IN /\ Good(f) /\ f.calls = e.calls /\ f.done = e.done /\ f.n = e.n /\ f.at = "refused"
                                     /\ f.why = "bound"
  BY <1>3 DEF Good, Refuse, Fields
<1> QED BY <1>3, <1>4, <1>5

\* What follows a control is the next one, the registration, or the end of the observations.
LEMMA FollowingKept ==
    ASSUME NEW d, Good(d), d.at \in {"await", "snapshot", "handshake"}
    PROVE  Kept(d, Following(d))
<1>1. CASE d.n \in {1, 2, 3, 5, 6}
  <2>1. PICK v : v = d.n + 1 /\ v \in 1 .. 7 BY <1>1
  <2>2. Following(d) = [d EXCEPT !.n = v, !.at = "control"] BY <1>1, <2>1 DEF Following
  <2>3. PICK e : e = Following(d) OBVIOUS
  <2>4. Good(e) /\ e.calls = d.calls /\ e.done = d.done /\ e.at = "control" /\ e.n = d.n + 1
    BY <2>1, <2>2, <2>3 DEF Good, Fields
  <2>5. After(d) => After(e) BY <2>4 DEF After, Good
  <2> QED BY <2>3, <2>4, <2>5 DEF Kept
<1>2. CASE d.n = 4
  <2>1. PICK v \in {"quiet", "handshake"} : Following(d) = [d EXCEPT !.at = v] BY <1>2 DEF Following
  <2> QED BY <1>2, <2>1 DEF Kept, Good, After, Fields
<1>3. CASE d.n = 7
  <2>1. Following(d) = [d EXCEPT !.at = "last"] BY <1>3 DEF Following
  <2> QED BY <1>3, <2>1 DEF Kept, Good, After, Fields
<1> QED BY <1>1, <1>2, <1>3 DEF Good

\* A registration request, a reply or a snapshot.
LEMMA StartupKept ==
    ASSUME NEW d, NEW r, Good(d), d.at \in {"await", "snapshot", "handshake"}
    PROVE  /\ Kept(d, HandshakeStep(d, r)) /\ HandshakeStep(d, r).at \in {d.at, "refused"}
           /\ Kept(d, Replied(d, r)) /\ Kept(d, Snapshot(d, r))
<1>1. Kept(d, HandshakeStep(d, r)) /\ HandshakeStep(d, r).at \in {d.at, "refused"}
  <2>1. PICK a, b : [d EXCEPT !.hs = @ + 1, !.ids = @ \cup {r.id}] = [d EXCEPT !.hs = a, !.ids = b] OBVIOUS
  <2>2. PICK e : e = [d EXCEPT !.hs = a, !.ids = b] OBVIOUS
  <2>3. Good(e) /\ e.calls = d.calls /\ e.done = d.done /\ e.at = d.at /\ e.n = d.n BY <2>2 DEF Good, Fields
  <2>4. HandshakeStep(d, r) = Refuse(d, "handshake") \/ HandshakeStep(d, r) = Written(e, 1, "startup")
    BY <2>1, <2>2 DEF HandshakeStep
  <2>5. Kept(d, Written(e, 1, "startup")) /\ Written(e, 1, "startup").at \in {d.at, "refused"}
    BY <2>3, WrittenKept DEF Kept, After
  <2> QED BY <2>4, <2>5, RefuseKept
<1>2. Kept(d, Replied(d, r))
  <2>1. Kept(d, [d EXCEPT !.at = "snapshot"]) BY DEF Kept, Good, After, Fields
  <2> QED BY <2>1, RefuseKept, FollowingKept DEF Replied
<1>3. Kept(d, Snapshot(d, r))
  <2>1. PICK e : e = [d EXCEPT !.boot = TRUE] OBVIOUS
  <2>2. Kept(d, e) /\ e.at = d.at BY <2>1 DEF Kept, Good, After, Fields
  <2>3. Kept(e, Following(e)) BY <2>2, FollowingKept DEF Kept
  <2>4. Snapshot(d, r) = Refuse(d, "snapshot") \/ Snapshot(d, r) = Following(e) BY <2>1 DEF Snapshot
  <2> QED BY <2>2, <2>3, <2>4, RefuseKept, KeptTwice
<1> QED BY <1>1, <1>2, <1>3

\* A record of the turn: a call, the name of the session, a tool's result or the turn's own.
LEMMA BodyKept ==
    ASSUME NEW d, NEW r, Good(d), d.at = "body"
    PROVE  Kept(d, Call(d, r)) /\ Kept(d, Named(d, r)) /\ Kept(d, ToolResult(d, r)) /\ Kept(d, Result(d, r))
<1>1. Kept(d, Call(d, r))
  <2>1. PICK a, b : [d EXCEPT !.ids = @ \cup {r.id}, !.call = r.id, !.at = "barrier"] = [d EXCEPT !.ids = a, !.call = b, !.at = "barrier"]
    OBVIOUS
  <2>2. Kept(d, [d EXCEPT !.ids = a, !.call = b, !.at = "barrier"]) BY DEF Kept, Good, After, Fields
  <2> QED BY <2>1, <2>2, RefuseKept DEF Call
<1>2. Kept(d, Named(d, r))
  <2>1. Kept(d, [d EXCEPT !.init = TRUE]) BY DEF Kept, Good, After, Fields
  <2> QED BY <2>1, RefuseKept DEF Named
<1>3. Kept(d, ToolResult(d, r))
  <2>1. Kept(d, d) BY DEF Kept
  <2> QED BY <2>1, RefuseKept DEF ToolResult
<1>4. Kept(d, Result(d, r))
  <2>1. PICK e : e = [d EXCEPT !.accepted = TRUE, !.st = "terminal", !.n = 5, !.at = "control"] OBVIOUS
  <2>2. DOMAIN e = Fields /\ e = [x \in Fields |-> e[x]] BY <2>1 DEF Good, Fields
  <2>3. e.n = 5 /\ e.at = "control" /\ e.calls = d.calls /\ e.done = d.done BY <2>1 DEF Good, Fields
  <2>4. Kept(d, e) BY <2>2, <2>3 DEF Kept, Good, After
  <2> QED BY <2>1, <2>4, RefuseKept DEF Result
<1> QED BY <1>1, <1>2, <1>3, <1>4

\* No record the client writes, wanted or not, takes a transaction back before its user message,
\* or changes what was granted and answered.
LEMMA TakenKept ==
    ASSUME NEW d, NEW r, Good(d), d.at # "intended"
    PROVE  Kept(d, Taken(d, r))
<1>1. Kept(d, Rule(d, r))
  <2>1. CASE d.at \in {"await", "snapshot"} /\ d.n = 4 /\ r.kind = "mcp"
    <3>1. Rule(d, r) = HandshakeStep(d, r) BY <2>1 DEF Rule
    <3> QED BY <2>1, <3>1, StartupKept
  <2>2. CASE d.at = "await" /\ ~ (d.n = 4 /\ r.kind = "mcp")
    <3>1. Rule(d, r) = Replied(d, r) BY <2>2 DEF Rule
    <3> QED BY <2>2, <3>1, StartupKept
  <2>3. CASE d.at = "snapshot" /\ ~ (d.n = 4 /\ r.kind = "mcp")
    <3>1. Rule(d, r) = Snapshot(d, r) BY <2>3 DEF Rule
    <3> QED BY <2>3, <3>1, StartupKept
  <2>4. CASE d.at = "handshake"
    <3>1. PICK e : e = HandshakeStep(d, r) OBVIOUS
    <3>2. Kept(d, e) BY <2>4, <3>1, StartupKept
    <3>3. e.at = "handshake" => Kept(e, Following(e)) BY <3>2, FollowingKept DEF Kept
    <3>4. Rule(d, r) \in {Refuse(d, "system"), e} \/ (e.at = "handshake" /\ Rule(d, r) = Following(e))
      BY <2>4, <3>1 DEF Rule
    <3> QED BY <3>2, <3>3, <3>4, RefuseKept, KeptTwice
  <2>5. CASE d.at = "body"
    <3>1. Rule(d, r) \in {Call(d, r), Named(d, r), ToolResult(d, r), Result(d, r), Refuse(d, "barrier")}
      BY <2>5 DEF Rule
    <3> QED BY <2>5, <3>1, BodyKept, RefuseKept
  <2>6. CASE d.at \notin {"await", "snapshot", "handshake", "body"}
    <3>1. Rule(d, r) = Refuse(d, "barrier") BY <2>6 DEF Rule
    <3> QED BY <3>1, RefuseKept
  <2> QED BY <2>1, <2>2, <2>3, <2>4, <2>5, <2>6
<1>2. ASSUME Passes(d, r) PROVE Kept(d, IF Premature(Sideband(d, r)) THEN Refuse(Sideband(d, r), "lifecycle") ELSE Sideband(d, r))
  <2>1. PICK e : e = Sideband(d, r) OBVIOUS
  <2>2. Kept(d, e) BY <1>2, <2>1, SidebandKept
  <2>3. Kept(e, Refuse(e, "lifecycle")) BY <2>2, RefuseKept DEF Kept
  <2> QED BY <2>1, <2>2, <2>3, KeptTwice
<1> QED BY <1>1, <1>2, RefuseKept DEF Taken

-----------------------------------------------------------------------------
\* Three facts of arithmetic, on their own.
LEMMA AtMostOne ==
    ASSUME NEW x \in {0, 1}
    PROVE  x <= 1 /\ x \in Nat
  OBVIOUS

LEMMA ZeroIs ==
    ASSUME NEW x, x = 0
    PROVE  x \in {0, 1} /\ x # 1 /\ x <= 0
  OBVIOUS

LEMMA OneMore ==
    ASSUME NEW x \in Nat
    PROVE  \E y \in Nat : y = x + 1
  OBVIOUS

\* A step of a running task: the handle changes in nothing but what it knows of the record.
LEMMA RunningInv ==
    ASSUME Inv, h.at = "running", UNCHANGED <<world, outcome>>, TypeOK', TaskFits', record'.phase # "none",
           NEW b \in BOOLEAN, NEW i \in BOOLEAN, h' = [h EXCEPT !.silent = b, !.intent = i],
           world.mode = "write" => work'.began <= record'.started
    PROVE  Inv'
<1>1. /\ h'.at = "running" /\ h'.closed = h.closed /\ h'.settled = h.settled /\ h'.released = h.released
      /\ h'.fds = h.fds /\ h'.disposed = h.disposed /\ h'.fence = h.fence
      /\ h'.closing = h.closing /\ h'.entered = h.entered
  <2>1. h \in Handles BY DEF Inv, TypeOK
  <2> QED BY <2>1 DEF Handles
<1>2. Account'
  <2>1. ~ h.settled BY DEF Inv, Account
  <2> QED BY <1>1, <2>1 DEF Account
<1>3. Holds' BY <1>1 DEF Inv, Holds, Custody
<1>4. DispatchIsAccounted'
  <2>1. sent' \in {0, 1} /\ record'.dispatch = "" BY DEF TaskFits
  <2>2. sent' = 1 => record'.phase = "intent" BY DEF TaskFits
  <2>3. sent' <= 1 BY <2>1, AtMostOne
  <2>4. world'.mode = "write" => work'.began <= record'.started OBVIOUS
  <2> QED BY <2>1, <2>2, <2>3, <2>4 DEF DispatchIsAccounted
<1> QED BY <1>2, <1>3, <1>4 DEF Inv

\* A step that neither sends nor calls, taken while the task runs.
LEMMA TurnStep ==
    ASSUME Inv, h.at = "running", UNCHANGED <<world, outcome, record, sent, work>>, t' = t \/ Kept(t, t'),
           NEW b \in BOOLEAN, h' = [h EXCEPT !.silent = b], h.silent => b
    PROVE  Inv'
<1>1. h' = [h EXCEPT !.silent = b, !.intent = h.intent] BY DEF Inv, TypeOK, Handles, Records
<1>2. h'.at = "running" /\ h'.intent = h.intent /\ h'.silent = b BY <1>1 DEF Inv, TypeOK, Handles, Records
<1>3. TypeOK' BY <1>1 DEF Inv, TypeOK, Handles, Records, Kept, Custody
<1>4. TaskFits
  BY DEF Inv, Account
<1>5. /\ t'.calls = t.calls /\ t'.done = t.done /\ (After(t) => After(t'))
      /\ t'.at = "intended" => t.at = "intended"
  BY DEF Kept
<1>6. TaskFits' BY <1>2, <1>4, <1>5 DEF TaskFits
<1>7. record'.phase # "none" BY DEF Inv, Account
<1>8. world.mode = "write" => work'.began <= record'.started BY DEF Inv, DispatchIsAccounted
<1> QED BY <1>1, <1>3, <1>6, <1>7, <1>8, RunningInv DEF Inv, TypeOK, Handles, Records

\* A step that leaves the handle as it is.
LEMMA PlainTurn ==
    ASSUME Inv, h.at = "running", UNCHANGED <<world, outcome, record, sent, work, h>>, t' = t \/ Kept(t, t')
    PROVE  Inv'
<1>1. h' = [h EXCEPT !.silent = h.silent] /\ h.silent \in BOOLEAN BY DEF Inv, TypeOK, Handles, Records
<1> QED BY <1>1, TurnStep

\* The check before a step refuses it, or lets it be.
LEMMA CheckedKept ==
    ASSUME Good(t), NEW d, Kept(t, d)
    PROVE  Kept(t, Checked(d))
  BY RefuseKept DEF Checked

\* The turn's steps that only read, ask, drain or refuse.
LEMMA QuietSteps ==
    ASSUME Inv, UNCHANGED <<world, outcome>>,
           \/ Take \/ StreamEnds \/ Ask \/ CloseStdin \/ DrainEnds \/ WorkerJoined \/ Interrupted \/ ClientKilled
    PROVE  Inv'
<1>0. Good(t) BY DEF Inv, TypeOK, Handles, Records
<1>1. CASE Take
  <2>1. PICK r : r = Head(recs) OBVIOUS
  <2>2. t' = Checked(Taken(t, r)) BY <1>1, <2>1 DEF Take
  <2>3. Kept(t, Taken(t, r)) BY <1>0, <1>1, TakenKept DEF Take
  <2>4. Kept(t, t') BY <1>0, <2>2, <2>3, CheckedKept
  <2> QED BY <1>1, <2>4, PlainTurn DEF Take, Active
<1>2. CASE StreamEnds
  BY <1>0, <1>2, RefuseKept, PlainTurn DEF StreamEnds, Active
<1>3. CASE Ask
  <2>1. PICK e, budget : e = [t EXCEPT !.at = "await"] /\ t' = Checked(Written(e, 1, budget)) BY <1>3 DEF Ask
  <2>2. Good(e) /\ e.at = "await" /\ e.calls = t.calls /\ e.done = t.done /\ e.n = t.n BY <1>0, <2>1 DEF Good, Fields
  <2>3. t.at = "control" BY <1>3 DEF Ask
  <2>4. Kept(t, Written(e, 1, budget)) BY <2>2, <2>3, WrittenKept DEF Kept, After
  <2>5. Kept(t, t') BY <1>0, <2>1, <2>4, CheckedKept
  <2> QED BY <1>3, <2>5, PlainTurn DEF Ask, Active
<1>4. CASE CloseStdin
  <2>1. PICK e : e = [t EXCEPT !.st = "checked", !.at = "drain"] OBVIOUS
  <2>2. Kept(t, e) BY <1>0, <1>4, <2>1 DEF Kept, Good, After, Fields, CloseStdin
  <2>3. Kept(t, t') BY <1>0, <1>4, <2>1, <2>2, CheckedKept DEF CloseStdin
  <2> QED BY <1>4, <2>3, PlainTurn DEF CloseStdin, Active
<1>5. CASE DrainEnds
  <2>1. PICK e : e = [t EXCEPT !.at = "drained"] OBVIOUS
  <2>2. Kept(t, e) BY <1>0, <1>5, <2>1 DEF Kept, Good, After, Fields, DrainEnds
  <2>3. Kept(t, t') BY <1>0, <1>5, <2>1, <2>2, CheckedKept, RefuseKept DEF DrainEnds
  <2> QED BY <1>5, <2>3, PlainTurn DEF DrainEnds, Active
<1>6. CASE WorkerJoined
  BY <1>6, PlainTurn DEF WorkerJoined, Inv, Holds
<1>7. CASE Interrupted
  BY <1>0, <1>7, RefuseKept, PlainTurn DEF Interrupted, Active
<1>8. CASE ClientKilled
  BY <1>8, PlainTurn DEF ClientKilled
<1> QED BY <1>1, <1>2, <1>3, <1>4, <1>5, <1>6, <1>7, <1>8

\* A worker ends: a result that cannot be retained silences the record.
LEMMA WorkerEndsStep ==
    ASSUME Inv, UNCHANGED <<world, outcome>>, NEW end \in Ends, WorkerEnds(end)
    PROVE  Inv'
<1>1. Good(t) /\ h.at = "running" BY DEF Inv, TypeOK, Handles, Records, WorkerEnds, Holds
<1>2. t' = t \/ Kept(t, t') BY <1>1, RefuseKept DEF WorkerEnds
<1>3. PICK b \in BOOLEAN : h' = [h EXCEPT !.silent = b] /\ (h.silent => b)
  <2>1. PICK b : b = (h.silent \/ end = "unretained") OBVIOUS
  <2>2. b \in BOOLEAN /\ (h.silent => b) BY <2>1 DEF Inv, TypeOK, Handles, Records
  <2>3. h' = [h EXCEPT !.silent = b] BY <2>1 DEF WorkerEnds
  <2> QED BY <2>2, <2>3
<1> QED BY <1>1, <1>2, <1>3, TurnStep DEF WorkerEnds

\* The intent is durable before the user message; a write that failed refuses the turn.
LEMMA IntendStep ==
    ASSUME Inv, UNCHANGED <<world, outcome>>, Intend
    PROVE  Inv'
<1>1. Good(t) /\ h.at = "running" /\ TaskFits BY DEF Inv, TypeOK, Handles, Records, Intend, Active, Account
<1>2. t.at = "quiet" /\ t.n = 4 /\ sent = 0
  <2>1. t.at = "quiet" BY DEF Intend
  <2>2. t.n = 4 BY <1>1, <2>1 DEF Good
  <2>3. ~ After(t) BY <2>1, <2>2 DEF After
  <2> QED BY <1>1, <2>1, <2>2, <2>3 DEF TaskFits
<1>3. PICK e : e = [t EXCEPT !.st = "dispatched", !.at = "intended"] OBVIOUS
<1>4. Good(e) /\ e.at = "intended" /\ e.calls = t.calls /\ e.done = t.done /\ e.n = t.n
  BY <1>1, <1>2, <1>3 DEF Good, Fields
<1>5. PICK d : d = Written(e, 1, "startup") OBVIOUS
<1>6. /\ Good(d) /\ d.at \in {"intended", "refused"} /\ d.calls = t.calls /\ d.done = t.done
  BY <1>4, <1>5, WrittenKept
<1>7. CASE ~ Check \/ d.at = "refused"
  <2>1. t' = Checked(d) /\ UNCHANGED <<h, record, work, sent>> BY <1>3, <1>5, <1>7 DEF Intend
  <2>2. Kept(t, t') BY <1>1, <1>2, <1>6, <1>7, <2>1, RefuseKept DEF Checked, Kept, After
  <2> QED BY <1>1, <2>1, <2>2, PlainTurn
<1>8. CASE ~ (~ Check \/ d.at = "refused")
  <2>1. PICK f \in Flaky :
            /\ record' = Fate(f, [record EXCEPT !.phase = "intent"])
            /\ h' = [h EXCEPT !.silent = Silenced(f)]
            /\ t' = IF Retained(f) THEN d ELSE Refuse(d, "intent")
    BY <1>3, <1>5, <1>8 DEF Intend
  <2>2. UNCHANGED <<work, sent>> BY DEF Intend
  <2>3. PICK b \in BOOLEAN : b = Silenced(f) /\ (h.silent => b)
    <3>1. Silenced(f) \in BOOLEAN /\ (h.silent => Silenced(f)) BY DEF Silenced, Retained, Inv, TypeOK, Handles, Records
    <3> QED BY <3>1
  <2>4. h' = [h EXCEPT !.silent = b, !.intent = h.intent] /\ h'.silent = b /\ h'.intent = h.intent
    BY <2>1, <2>3 DEF Inv, TypeOK, Handles, Records
  <2>5. record' \in {record, [record EXCEPT !.phase = "intent"]} /\ (Retained(f) => record'.phase = "intent")
    BY <2>1 DEF Fate, Retained, Inv, TypeOK, Handles, Records
  <2>6. /\ Good(t') /\ t'.calls = t.calls /\ t'.done = t.done
        /\ t'.at = "intended" => Retained(f)
    BY <1>6, <2>1, RefuseKept DEF Kept
  <2>7. /\ record'.started = record.started /\ record'.completed = record.completed /\ record'.dispatch = record.dispatch
        /\ record'.phase # "none"
    BY <1>1, <2>5 DEF Inv, TypeOK, Handles, Records, Account
  <2>8. TypeOK'
    <3>1. h' \in Handles
      BY <2>4 DEF Inv, TypeOK, Handles, Records
    <3>2. record' \in Records
      BY <2>5 DEF Inv, TypeOK, Handles, Records
    <3> QED BY <3>1, <3>2, <2>2, <2>6 DEF Inv, TypeOK, Handles, Records
  <2>9. TaskFits'
    <3>1. sent' = 0 /\ record'.dispatch = "" BY <1>1, <1>2, <2>2, <2>7 DEF TaskFits
    <3>7. ~ h'.intent
      <4>1. h.intent => sent = 1 BY <1>1 DEF TaskFits
      <4>2. ~ h.intent BY <1>2, <4>1
      <4> QED BY <2>4, <4>2
    <3>6. sent' \in {0, 1} /\ sent' # 1 BY <3>1, ZeroIs
    <3>2. t'.at = "intended" => record'.phase = "intent" BY <2>5, <2>6
    <3>3. world.mode = "write" => work'.began <= t'.calls BY <1>1, <2>2, <2>6 DEF TaskFits
    <3>4. world.mode = "write" /\ ~ h'.silent => record'.started = t'.calls /\ record'.completed = t'.done
      BY <1>1, <2>3, <2>4, <2>6, <2>7 DEF TaskFits
    <3>5. world.mode # "write" => record'.started = 0 /\ record'.completed = 0 BY <1>1, <2>7 DEF TaskFits
    <3> QED BY <3>6, <3>7, <3>1, <3>2, <3>3, <3>4, <3>5 DEF TaskFits
  <2>10. world.mode = "write" => work'.began <= record'.started BY <2>2, <2>7 DEF Inv, DispatchIsAccounted
  <2>11. h.intent \in BOOLEAN BY DEF Inv, TypeOK, Handles, Records
  <2> QED BY <1>1, <2>4, <2>7, <2>8, <2>9, <2>10, <2>11, RunningInv
<1> QED BY <1>7, <1>8

\* The user message goes out behind its intent, and only once.
LEMMA SendStep ==
    ASSUME Inv, UNCHANGED <<world, outcome>>, Send
    PROVE  Inv'
<1>1. Good(t) /\ h.at = "running" /\ TaskFits BY DEF Inv, TypeOK, Handles, Records, Send, Active, Account
<1>2. t.at = "intended" /\ sent = 0 /\ record.phase = "intent"
  <2>1. t.at = "intended" BY DEF Send
  <2>2. t.n = 4 BY <1>1, <2>1 DEF Good
  <2>3. ~ After(t) BY <2>1, <2>2 DEF After
  <2> QED BY <1>1, <2>1, <2>3 DEF TaskFits
<1>3. CASE ~ Check
  <2>1. UNCHANGED <<h, record, work, sent>> /\ t' = Refuse(t, "check") BY <1>3 DEF Send, Checked
  <2> QED BY <1>1, <2>1, RefuseKept, PlainTurn
<1>4. CASE Check
  <2>1. /\ h' = [h EXCEPT !.intent = TRUE] /\ sent' = sent + 1 /\ UNCHANGED <<record, work>>
        /\ t' = [t EXCEPT !.at = "body"]
    BY <1>4 DEF Send, Checked
  <2>2. h' = [h EXCEPT !.silent = h.silent, !.intent = TRUE] /\ h'.silent = h.silent /\ h'.intent /\ h.silent \in BOOLEAN
    BY <2>1 DEF Inv, TypeOK, Handles, Records
  <2>3. Good(t') /\ t'.at = "body" /\ t'.calls = t.calls /\ t'.done = t.done BY <1>1, <2>1 DEF Good, Fields
  <2>4. sent' = 1 BY <1>2, <2>1
  <2>5. TypeOK'
    <3>1. h' \in Handles
      BY <2>1 DEF Inv, TypeOK, Handles, Records
    <3>2. sent' \in Nat BY <2>4
    <3> QED BY <2>1, <2>3, <3>1, <3>2 DEF Inv, TypeOK, Handles, Records
  <2>6. TaskFits' BY <1>1, <1>2, <2>1, <2>2, <2>3, <2>4 DEF TaskFits, After
  <2> QED BY <1>1, <1>2, <2>1, <2>2, <2>5, <2>6, RunningInv DEF Inv, DispatchIsAccounted
<1> QED BY <1>3, <1>4

\* What observing a callback leaves in the record and in the handle.
LEMMA ObservesStep ==
    ASSUME TypeOK, NEW f \in Flaky, NEW next, Observes(f, next) \/ ObservesNothing(f)
    PROVE  \/ /\ world.mode = "write" /\ ~ h.silent /\ record' \in {record, next}
              /\ \/ Retained(f) /\ record' = next /\ h' = [h EXCEPT !.silent = FALSE]
                 \/ ~ Retained(f) /\ h' = [h EXCEPT !.silent = TRUE]
           \/ world.mode = "read" /\ Retained(f) /\ UNCHANGED <<record, h>>
  BY DEF Observes, ObservesNothing, Fate, Retained, Silenced

\* A worker begins only behind a record that counts it.
LEMMA GrantStep ==
    ASSUME Inv, UNCHANGED <<world, outcome>>, Grant
    PROVE  Inv'
<1>1. Good(t) /\ h.at = "running" /\ TaskFits BY DEF Inv, TypeOK, Handles, Records, Grant, Active, Account
<1>2. UNCHANGED sent /\ t.at = "barrier" BY DEF Grant
<1>3. CASE ~ Check \/ t.over \/ ~ Reserved
  <2>1. UNCHANGED <<h, record, work, sent>> /\ t' = Checked(Refuse(t, "reserve")) BY <1>3 DEF Grant
  <2>2. Kept(t, t') BY <1>1, <2>1, RefuseKept, CheckedKept
  <2> QED BY <1>1, <2>1, <2>2, PlainTurn
<1>4. CASE ~ (~ Check \/ t.over \/ ~ Reserved)
  <2>1. PICK f \in Flaky :
            /\ Observes(f, [record EXCEPT !.started = t.calls + 1]) \/ ObservesNothing(f)
            /\ t' = [t EXCEPT !.calls = @ + 1, !.at = IF Retained(f) THEN "worker" ELSE "refused"]
            /\ worker' = IF Retained(f) THEN "running" ELSE worker
            /\ work' = IF Retained(f) THEN [began |-> work.began + 1, caught |-> {}] ELSE work
    BY <1>4 DEF Grant
  <2>2. PICK n \in Nat : n = t.calls + 1 BY <1>1 DEF Good
  <2>3. PICK x \in {"worker", "refused"} : t' = [t EXCEPT !.calls = n, !.at = x] BY <2>1, <2>2
  <2>4. Good(t') /\ t'.at = x /\ t'.calls = n /\ t'.done = t.done BY <1>1, <2>3 DEF Good, Fields
  <2>5. /\ DOMAIN work' = {"began", "caught"} /\ work'.began \in Nat
        /\ Retained(f) => work'.began = work.began + 1
        /\ ~ Retained(f) => work'.began = work.began
    <3>1. CASE Retained(f)
      <4>0. work.began \in Nat BY DEF Inv, TypeOK, Handles, Records
      <4>1. PICK k \in Nat : k = work.began + 1 BY <4>0, OneMore
      <4>2. work' = [began |-> k, caught |-> {}] BY <2>1, <3>1, <4>1
      <4> QED BY <3>1, <4>1, <4>2
    <3>2. CASE ~ Retained(f)
      <4>1. work' = work BY <2>1, <3>2
      <4> QED BY <3>2, <4>1 DEF Inv, TypeOK, Handles, Records
    <3> QED BY <3>1, <3>2
  <2>6. \/ /\ world.mode = "write" /\ ~ h.silent /\ record' \in {record, [record EXCEPT !.started = n]}
           /\ \/ Retained(f) /\ record' = [record EXCEPT !.started = n] /\ h' = [h EXCEPT !.silent = FALSE]
              \/ ~ Retained(f) /\ h' = [h EXCEPT !.silent = TRUE]
        \/ world.mode = "read" /\ Retained(f) /\ UNCHANGED <<record, h>>
    BY <2>1, <2>2, ObservesStep DEF Inv
  <2>7. PICK b \in BOOLEAN : /\ h' = [h EXCEPT !.silent = b, !.intent = h.intent]
                             /\ world.mode = "write" => b = ~ Retained(f)
    <3>1. CASE world.mode = "write" /\ Retained(f) BY <2>6, <3>1 DEF Inv, TypeOK, Handles, Records
    <3>2. CASE world.mode = "write" /\ ~ Retained(f) BY <2>6, <3>2 DEF Inv, TypeOK, Handles, Records
    <3>3. CASE world.mode = "read"
      <4>1. h' = [h EXCEPT !.silent = h.silent, !.intent = h.intent] /\ h.silent \in BOOLEAN
        BY <2>6, <3>3 DEF Inv, TypeOK, Handles, Records
      <4> QED BY <3>3, <4>1
    <3> QED BY <2>6, <3>1, <3>2, <3>3
  <2>8. h'.silent = b /\ h'.intent = h.intent /\ h.intent \in BOOLEAN BY <2>7 DEF Inv, TypeOK, Handles, Records
  <2>9. /\ record'.phase = record.phase /\ record'.dispatch = record.dispatch /\ record'.completed = record.completed
        /\ record'.started \in {record.started, n}
        /\ world.mode = "write" /\ Retained(f) => record'.started = n
        /\ world.mode # "write" => record' = record
    BY <2>6 DEF Inv, TypeOK, Handles, Records
  <2>10. TypeOK'
    <3>1. h' \in Handles
      BY <2>7 DEF Inv, TypeOK, Handles, Records
    <3>2. record' \in Records
      BY <2>6 DEF Inv, TypeOK, Handles, Records
    <3> QED BY <3>1, <3>2, <1>2, <2>4, <2>5 DEF Inv, TypeOK, Handles, Records
  <2>11. world.mode = "write" => /\ ~ h.silent /\ record.started = t.calls /\ record.completed = t.done
                                 /\ work.began <= t.calls
    BY <1>1, <2>6 DEF TaskFits
  <2>12. world.mode = "write" =>
            /\ work'.began <= record'.started /\ work'.began <= t'.calls
            /\ ~ h'.silent => record'.started = t'.calls /\ record'.completed = t'.done
    <3>1. work.began \in Nat /\ t.calls \in Nat /\ n = t.calls + 1 BY <1>1, <2>2 DEF Inv, TypeOK, Handles, Records, Good
    <3>2. CASE world.mode = "write" /\ Retained(f)
      <4>1. record'.started = n /\ t'.calls = n /\ work'.began = work.began + 1 /\ work.began <= t.calls
        BY <2>4, <2>5, <2>9, <2>11, <3>2
      <4>2. work'.began <= n BY <3>1, <4>1
      <4>3. record'.completed = t'.done BY <2>4, <2>9, <2>11, <3>2
      <4> QED BY <4>1, <4>2, <4>3
    <3>3. CASE world.mode = "write" /\ ~ Retained(f)
      <4>1. h'.silent BY <2>7, <2>8, <3>3
      <4>2. work'.began = work.began /\ t'.calls = n /\ record.started = t.calls /\ work.began <= t.calls
            /\ record'.started \in {record.started, n}
        BY <2>4, <2>5, <2>9, <2>11, <3>3
      <4>3. work'.began <= n /\ work'.began <= record'.started BY <3>1, <4>2
      <4> QED BY <4>1, <4>2, <4>3
    <3> QED BY <3>2, <3>3
  <2>13. TaskFits' BY <1>1, <1>2, <2>3, <2>4, <2>8, <2>9, <2>12 DEF TaskFits, After
  <2>14. record'.phase # "none" BY <1>1, <2>9 DEF Inv, Account
  <2> QED BY <1>1, <2>7, <2>8, <2>10, <2>12, <2>13, <2>14, RunningInv
<1> QED BY <1>3, <1>4

\* A reply is counted once it is written.
LEMMA ReplyStep ==
    ASSUME Inv, UNCHANGED <<world, outcome>>, NEW cost, Reply(cost)
    PROVE  Inv'
<1>1. Good(t) /\ h.at = "running" /\ TaskFits BY DEF Inv, TypeOK, Reply, Active, Account
<1>2. UNCHANGED <<sent, work>> /\ t.at = "worker" BY DEF Reply
<1>3. PICK d : d = Written(t, cost, "reply") OBVIOUS
<1>4. Good(d) /\ d.calls = t.calls /\ d.done = t.done /\ d.at \in {"worker", "refused"} BY <1>1, <1>2, <1>3, WrittenKept
<1>5. CASE ~ Check \/ d.at = "refused"
  <2>1. UNCHANGED <<h, record>> /\ t' = Checked(d) BY <1>3, <1>5 DEF Reply
  <2>2. Kept(t, t') BY <1>1, <1>4, <1>5, <2>1, RefuseKept DEF Checked, Kept, After
  <2> QED BY <1>1, <1>2, <2>1, <2>2, PlainTurn
<1>6. CASE ~ (~ Check \/ d.at = "refused")
  <2>1. PICK f \in Flaky :
            /\ Observes(f, [record EXCEPT !.completed = t.done + 1]) \/ ObservesNothing(f)
            /\ t' = [d EXCEPT !.done = @ + 1, !.at = IF Retained(f) THEN "body" ELSE "refused"]
    BY <1>3, <1>6 DEF Reply
  <2>2. PICK n \in Nat : n = t.done + 1 BY <1>1, OneMore DEF Good
  <2>3. PICK x \in {"body", "refused"} : t' = [d EXCEPT !.done = n, !.at = x] BY <1>4, <2>1, <2>2
  <2>4. Good(t') /\ t'.at = x /\ t'.done = n /\ t'.calls = t.calls BY <1>4, <2>3 DEF Good, Fields
  <2>6. \/ /\ world.mode = "write" /\ ~ h.silent /\ record' \in {record, [record EXCEPT !.completed = n]}
           /\ \/ Retained(f) /\ record' = [record EXCEPT !.completed = n] /\ h' = [h EXCEPT !.silent = FALSE]
              \/ ~ Retained(f) /\ h' = [h EXCEPT !.silent = TRUE]
        \/ world.mode = "read" /\ Retained(f) /\ UNCHANGED <<record, h>>
    BY <2>1, <2>2, ObservesStep DEF Inv
  <2>7. PICK b \in BOOLEAN : /\ h' = [h EXCEPT !.silent = b, !.intent = h.intent]
                             /\ world.mode = "write" => b = ~ Retained(f)
    <3>1. CASE world.mode = "write" /\ Retained(f) BY <2>6, <3>1 DEF Inv, TypeOK, Handles, Records
    <3>2. CASE world.mode = "write" /\ ~ Retained(f) BY <2>6, <3>2 DEF Inv, TypeOK, Handles, Records
    <3>3. CASE world.mode = "read"
      <4>1. h' = [h EXCEPT !.silent = h.silent, !.intent = h.intent] /\ h.silent \in BOOLEAN
        BY <2>6, <3>3 DEF Inv, TypeOK, Handles, Records
      <4> QED BY <3>3, <4>1
    <3> QED BY <2>6, <3>1, <3>2, <3>3
  <2>8. h'.silent = b /\ h'.intent = h.intent /\ h.intent \in BOOLEAN BY <2>7 DEF Inv, TypeOK, Handles, Records
  <2>9. /\ record'.phase = record.phase /\ record'.dispatch = record.dispatch /\ record'.started = record.started
        /\ world.mode = "write" /\ Retained(f) => record'.completed = n
        /\ world.mode # "write" => record' = record
    BY <2>6 DEF Inv, TypeOK, Handles, Records
  <2>10. TypeOK'
    <3>1. h' \in Handles BY <2>7 DEF Inv, TypeOK, Handles, Records
    <3>2. record' \in Records BY <2>6 DEF Inv, TypeOK, Handles, Records
    <3> QED BY <3>1, <3>2, <1>2, <2>4 DEF Inv, TypeOK
  <2>11. world.mode = "write" => /\ ~ h.silent /\ record.started = t.calls /\ work.began <= t.calls
    BY <1>1, <2>6 DEF TaskFits
  <2>12. world.mode = "write" =>
            /\ work'.began <= record'.started /\ work'.began <= t'.calls
            /\ ~ h'.silent => record'.started = t'.calls /\ record'.completed = t'.done
    BY <1>2, <2>4, <2>7, <2>8, <2>9, <2>11
  <2>13. TaskFits' BY <1>1, <1>2, <2>3, <2>4, <2>8, <2>9, <2>12 DEF TaskFits, After
  <2>14. record'.phase # "none" BY <1>1, <2>9 DEF Inv, Account
  <2> QED BY <1>1, <2>7, <2>8, <2>10, <2>12, <2>13, <2>14, RunningInv
<1> QED BY <1>5, <1>6

\* Every step of the conversation.
LEMMA TransactionInv ==
    ASSUME Inv, TransactionStep, UNCHANGED <<m, outcome, world>>
    PROVE  Inv'
<1>1. CASE Take \/ StreamEnds \/ Ask \/ CloseStdin \/ DrainEnds \/ WorkerJoined \/ Interrupted \/ ClientKilled
  BY <1>1, QuietSteps
<1>2. CASE Intend BY <1>2, IntendStep
<1>3. CASE Send BY <1>3, SendStep
<1>4. CASE Grant BY <1>4, GrantStep
<1>5. ASSUME NEW cost \in 1 .. MaxReply, Reply(cost) PROVE Inv' BY <1>5, ReplyStep
<1>6. ASSUME NEW end \in Ends, WorkerEnds(end) PROVE Inv' BY <1>6, WorkerEndsStep
<1> QED BY <1>1, <1>2, <1>3, <1>4, <1>5, <1>6 DEF TransactionStep

-----------------------------------------------------------------------------
\* The handle's own steps.
\* The guard is taken first.
LEMMA MaterializeStep ==
    ASSUME Inv, UNCHANGED world, Materialize
    PROVE  Inv'
<1>1. h' = [h EXCEPT !.at = "opening", !.entered = TRUE, !.fds = {"guard"}] /\ UNCHANGED <<t, worker, work, record, sent, outcome>> BY DEF Materialize
<1>2. h \in Handles BY DEF Inv, TypeOK
<1>3. /\ h'.at = "opening" /\ h'.closed = h.closed /\ h'.closing = h.closing /\ h'.entered = TRUE
      /\ h'.fds = {"guard"} /\ h'.intent = h.intent /\ h'.settled = h.settled /\ h'.silent = h.silent
      /\ h'.fence = h.fence /\ h'.released = h.released /\ h'.disposed = h.disposed
  BY <1>1, <1>2 DEF Handles
<1>4. h' \in Handles BY <1>1, <1>2 DEF Handles, Stages, Custody
<1>5. TypeOK' BY <1>1, <1>4 DEF Inv, TypeOK
<1>6. h.at = "acquired" /\ ~ h.closed /\ ~ h.settled /\ ~ h.released /\ ~ h.disposed /\ worker # "running"
  BY DEF Inv, Account, Holds, NewHandle, Materialize
<1>7. Account' BY <1>1, <1>3, <1>6 DEF Inv, Account, TaskFits, Untouched
<1>8. Holds' BY <1>1, <1>3, <1>6 DEF Inv, Holds
<1>9. DispatchIsAccounted' BY <1>1 DEF Inv, DispatchIsAccounted
<1> QED BY <1>5, <1>7, <1>8, <1>9 DEF Inv

\* A handle that refused its acquisition has nothing to close.
LEMMA CloseStep ==
    ASSUME Inv, UNCHANGED world, NEW kind \in {"close", "relinquish"}, Close(kind)
    PROVE  Inv'
<1>1. h' = [h EXCEPT !.closed = TRUE, !.closing = kind] /\ UNCHANGED <<t, worker, work, record, sent, outcome>> BY DEF Close
<1>2. h \in Handles BY DEF Inv, TypeOK
<1>3. /\ h'.at = h.at /\ h'.closed = TRUE /\ h'.closing = kind /\ h'.entered = h.entered
      /\ h'.fds = h.fds /\ h'.intent = h.intent /\ h'.settled = h.settled /\ h'.silent = h.silent
      /\ h'.fence = h.fence /\ h'.released = h.released /\ h'.disposed = h.disposed
  BY <1>1, <1>2 DEF Handles
<1>4. h' \in Handles BY <1>1, <1>2 DEF Handles, Stages, Custody
<1>5. TypeOK' BY <1>1, <1>4 DEF Inv, TypeOK
<1>6. h.at \notin {"new", "maintaining"} /\ (h.at = "over" => h.settled) /\ ~ h.closed /\ ~ h.released /\ ~ h.disposed
  BY DEF Inv, Account, Holds, NewHandle, Close
<1>7. Account' BY <1>1, <1>3, <1>6 DEF Inv, Account, TaskFits, Untouched
<1>8. Holds' BY <1>1, <1>3, <1>6 DEF Inv, Holds
<1>9. DispatchIsAccounted' BY <1>1 DEF Inv, DispatchIsAccounted
<1> QED BY <1>5, <1>7, <1>8, <1>9 DEF Inv

\* The fence goes up in front of the release.
LEMMA FenceStep ==
    ASSUME Inv, UNCHANGED world, Fence
    PROVE  Inv'
<1>1. h' = [h EXCEPT !.fence = TRUE] /\ UNCHANGED <<t, worker, work, record, sent, outcome>> BY DEF Fence
<1>2. h \in Handles BY DEF Inv, TypeOK
<1>3. /\ h'.at = h.at /\ h'.closed = h.closed /\ h'.closing = h.closing /\ h'.entered = h.entered
      /\ h'.fds = h.fds /\ h'.intent = h.intent /\ h'.settled = h.settled /\ h'.silent = h.silent
      /\ h'.fence = TRUE /\ h'.released = h.released /\ h'.disposed = h.disposed
  BY <1>1, <1>2 DEF Handles
<1>4. h' \in Handles BY <1>1, <1>2 DEF Handles, Stages, Custody
<1>5. TypeOK' BY <1>1, <1>4 DEF Inv, TypeOK
<1>6. h.at # "new"
  <2>1. h.at = "new" => h = NewHandle BY DEF Inv, Account
  <2>2. NewHandle.closing = "" BY DEF NewHandle
  <2>3. h.closing = "close" BY DEF Fence
  <2> QED BY <2>1, <2>2, <2>3
<1>7. Account' BY <1>1, <1>3, <1>6 DEF Inv, Account, TaskFits, Untouched
<1>8. Holds' BY <1>1, <1>3, <1>6 DEF Inv, Holds
<1>9. DispatchIsAccounted' BY <1>1 DEF Inv, DispatchIsAccounted
<1> QED BY <1>5, <1>7, <1>8, <1>9 DEF Inv

\* What is disposed of was released behind its fence.
LEMMA DisposeStep ==
    ASSUME Inv, UNCHANGED world, Dispose
    PROVE  Inv'
<1>1. h' = [h EXCEPT !.disposed = TRUE] /\ UNCHANGED <<t, worker, work, record, sent, outcome>> BY DEF Dispose
<1>2. h \in Handles BY DEF Inv, TypeOK
<1>3. /\ h'.at = h.at /\ h'.closed = h.closed /\ h'.closing = h.closing /\ h'.entered = h.entered
      /\ h'.fds = h.fds /\ h'.intent = h.intent /\ h'.settled = h.settled /\ h'.silent = h.silent
      /\ h'.fence = h.fence /\ h'.released = h.released /\ h'.disposed = TRUE
  BY <1>1, <1>2 DEF Handles
<1>4. h' \in Handles BY <1>1, <1>2 DEF Handles, Stages, Custody
<1>5. TypeOK' BY <1>1, <1>4 DEF Inv, TypeOK
<1>6. h.at # "new" /\ h.fence /\ h.released
  BY DEF Inv, Account, Holds, NewHandle, Dispose
<1>7. Account' BY <1>1, <1>3, <1>6 DEF Inv, Account, TaskFits, Untouched
<1>8. Holds' BY <1>1, <1>3, <1>6 DEF Inv, Holds
<1>9. DispatchIsAccounted' BY <1>1 DEF Inv, DispatchIsAccounted
<1> QED BY <1>5, <1>7, <1>8, <1>9 DEF Inv

\* An operation of the handle ends: what it settles is what was sent.
LEMMA ConcludesStep ==
    ASSUME Inv, UNCHANGED <<world, t, worker, work, sent>>, NEW o, Concludes(o),
           h.at \in {"opening", "ready", "running"}, ~ h.settled, worker # "running",
           o = "success" => h.at = "running" /\ t.calls = t.done
    PROVE  Inv'
<1>1. PICK f \in Flaky : Settles(o, f) /\ h' = [h EXCEPT !.at = "over", !.settled = TRUE] BY DEF Concludes
<1>2. h \in Handles /\ record \in Records BY DEF Inv, TypeOK
<1>3. /\ h'.at = "over" /\ h'.closed = h.closed /\ h'.closing = h.closing /\ h'.entered = h.entered
      /\ h'.fds = h.fds /\ h'.intent = h.intent /\ h'.settled = TRUE /\ h'.silent = h.silent
      /\ h'.fence = h.fence /\ h'.released = h.released /\ h'.disposed = h.disposed
  BY <1>1, <1>2 DEF Handles
<1>4. h' \in Handles BY <1>1, <1>2 DEF Handles, Stages
<1>5. PICK w : w = Dispatch(o) OBVIOUS
<1>6. w \in {"not dispatched", "possibly dispatched", "completed"} /\ (w = "not dispatched" <=> ~ h.intent)
      /\ (w = "completed" => o = "success")
  <2>1. h.intent \in BOOLEAN BY <1>2 DEF Handles
  <2> QED BY <1>5, <2>1 DEF Dispatch
<1>7. record' = record \/ (~ h.silent /\ record' = [record EXCEPT !.phase = "outcome", !.dispatch = w])
  BY <1>1, <1>5 DEF Settles, Fate
<1>8. record.phase # "none" BY DEF Inv, Account
<1>9. /\ record'.started = record.started /\ record'.completed = record.completed
      /\ \/ record'.phase = record.phase /\ record'.dispatch = record.dispatch
         \/ ~ h.silent /\ record'.phase = "outcome" /\ record'.dispatch = w
  BY <1>2, <1>7 DEF Records
<1>10. record' \in Records BY <1>2, <1>6, <1>7 DEF Records
<1>11. record'.phase # "none" BY <1>8, <1>9
<1>12. TypeOK' BY <1>4, <1>10 DEF Inv, TypeOK
<1>13. Account' BY <1>3, <1>11 DEF Account
<1>14. Holds' BY <1>3 DEF Inv, Holds
<1>15. DispatchIsAccounted'
  <2>1. ~ h.intent => sent # 1
    <3>1. CASE h.at = "running" BY <3>1 DEF Inv, Account, TaskFits
    <3>2. CASE h.at \in {"opening", "ready"}
      <4>1. sent = 0 BY <3>2 DEF Inv, Account, Untouched
      <4> QED BY <4>1, ZeroIs
    <3> QED BY <3>1, <3>2
  <2>7. h.intent => sent = 1 BY DEF Inv, Account, TaskFits
  <2>2. ~ h.silent /\ o = "success" => record.completed = record.started
    <3>1. CASE ~ h.silent /\ o = "success"
      <4>1. TaskFits /\ t.calls = t.done BY <3>1 DEF Inv, Account
      <4>2. CASE world.mode = "write" BY <3>1, <4>1, <4>2 DEF TaskFits
      <4>3. CASE world.mode # "write" BY <4>1, <4>3 DEF TaskFits
      <4> QED BY <4>2, <4>3
    <3> QED BY <3>1
  <2>3. sent' <= 1 BY DEF Inv, DispatchIsAccounted
  <2>4. sent' = 1 => record'.phase = "intent" \/ (record'.phase = "outcome" /\ record'.dispatch # "not dispatched")
    <3>1. CASE record'.phase = record.phase /\ record'.dispatch = record.dispatch BY <3>1 DEF Inv, DispatchIsAccounted
    <3>2. CASE ~ h.silent /\ record'.phase = "outcome" /\ record'.dispatch = w BY <1>6, <2>1, <3>2
    <3> QED BY <1>9, <3>1, <3>2
  <2>5. record'.dispatch = "completed" => sent' = 1 /\ record'.completed = record'.started
    <3>1. CASE record'.phase = record.phase /\ record'.dispatch = record.dispatch
      BY <1>9, <3>1 DEF Inv, DispatchIsAccounted
    <3>2. CASE ~ h.silent /\ record'.phase = "outcome" /\ record'.dispatch = w
      <4>1. w = "completed" => h.intent BY <1>6
      <4> QED BY <1>6, <1>9, <2>2, <2>7, <3>2, <4>1
    <3> QED BY <1>9, <3>1, <3>2
  <2>6. world'.mode = "write" => work'.began <= record'.started BY <1>9 DEF Inv, DispatchIsAccounted
  <2> QED BY <2>3, <2>4, <2>5, <2>6 DEF DispatchIsAccounted
<1> QED BY <1>12, <1>13, <1>14, <1>15 DEF Inv

\* The store's lock and credential follow the guard.
LEMMA OpenedStep ==
    ASSUME Inv, UNCHANGED world, Opened
    PROVE  Inv'
<1>1. UNCHANGED <<t, worker, work, sent>> BY DEF Opened
<1>2. h \in Handles BY DEF Inv, TypeOK
<1>3. h.at = "opening" /\ ~ h.settled /\ ~ h.released /\ ~ h.disposed /\ worker # "running"
  BY DEF Inv, Account, Holds, Opened
<1>4. CASE Check
  <2>1. h' = [h EXCEPT !.at = "ready", !.fds = Custody] /\ UNCHANGED <<record, outcome>> BY <1>4 DEF Opened
  <2>2. /\ h'.at = "ready" /\ h'.closed = h.closed /\ h'.closing = h.closing /\ h'.entered = h.entered
      /\ h'.fds = Custody /\ h'.intent = h.intent /\ h'.settled = h.settled /\ h'.silent = h.silent
      /\ h'.fence = h.fence /\ h'.released = h.released /\ h'.disposed = h.disposed
    BY <1>2, <2>1 DEF Handles
  <2>3. h' \in Handles BY <1>2, <2>1 DEF Handles, Stages, Custody
  <2>4. TypeOK' BY <1>1, <2>1, <2>3 DEF Inv, TypeOK
  <2>5. Account' BY <1>1, <1>3, <2>1, <2>2 DEF Inv, Account, Untouched
  <2>6. Holds' BY <1>1, <1>3, <2>1, <2>2 DEF Inv, Holds
  <2>7. DispatchIsAccounted' BY <1>1, <2>1 DEF Inv, DispatchIsAccounted
  <2> QED BY <2>4, <2>5, <2>6, <2>7 DEF Inv
<1>5. CASE ~ Check
  <2>1. Concludes("raised") BY <1>5 DEF Opened
  <2> QED BY <1>1, <1>3, <2>1, ConcludesStep
<1> QED BY <1>4, <1>5

\* The task starts, with nothing sent yet.
LEMMA ExecuteStep ==
    ASSUME Inv, UNCHANGED world, Execute
    PROVE  Inv'
<1>1. UNCHANGED <<t, worker, work, sent>> BY DEF Execute
<1>2. h \in Handles BY DEF Inv, TypeOK
<1>3. h.at = "ready" /\ ~ h.closed /\ ~ h.settled /\ ~ h.released /\ ~ h.disposed /\ worker # "running"
  BY DEF Inv, Account, Holds, Execute
<1>4. CASE Check
  <2>1. h' = [h EXCEPT !.at = "running"] /\ UNCHANGED <<record, outcome>> BY <1>4 DEF Execute
  <2>2. /\ h'.at = "running" /\ h'.closed = h.closed /\ h'.closing = h.closing /\ h'.entered = h.entered
      /\ h'.fds = h.fds /\ h'.intent = h.intent /\ h'.settled = h.settled /\ h'.silent = h.silent
      /\ h'.fence = h.fence /\ h'.released = h.released /\ h'.disposed = h.disposed
    BY <1>2, <2>1 DEF Handles
  <2>3. h' \in Handles BY <1>2, <2>1 DEF Handles, Stages, Custody
  <2>4. TypeOK' BY <1>1, <2>1, <2>3 DEF Inv, TypeOK
  <2>5. TaskFits'
    <3>1. Untouched /\ ~ h.intent /\ t = Fresh /\ record.dispatch = "" BY <1>3 DEF Inv, Account
    <3>2. t'.at = "control" /\ t'.calls = 0 /\ t'.done = 0 BY <1>1, <3>1 DEF Fresh
    <3>3. sent' = 0 /\ work'.began = 0 /\ record'.started = 0 /\ record'.completed = 0 /\ record'.dispatch = ""
      BY <1>1, <2>1, <3>1 DEF Untouched
    <3>4. sent' \in {0, 1} /\ sent' # 1 BY <3>3, ZeroIs
    <3>5. work'.began <= t'.calls
      <4>1. work'.began <= 0 BY <3>3, ZeroIs
      <4> QED BY <3>2, <4>1
    <3>6. ~ h'.intent BY <2>2, <3>1
    <3> QED BY <3>2, <3>3, <3>4, <3>5, <3>6 DEF TaskFits
  <2>8. Account' BY <1>1, <1>3, <2>1, <2>2, <2>5 DEF Inv, Account
  <2>6. Holds' BY <1>1, <1>3, <2>1, <2>2 DEF Inv, Holds
  <2>7. DispatchIsAccounted' BY <1>1, <2>1 DEF Inv, DispatchIsAccounted
  <2> QED BY <2>4, <2>6, <2>7, <2>8 DEF Inv
<1>5. CASE ~ Check
  <2>1. Concludes("raised") BY <1>5 DEF Execute
  <2> QED BY <1>1, <1>3, <2>1, ConcludesStep
<1> QED BY <1>4, <1>5

\* A success was sent, and every call it counts was answered.
LEMMA ConcludedStep ==
    ASSUME Inv, UNCHANGED world, Concluded
    PROVE  Inv'
<1>1. h.at = "running" /\ worker # "running" /\ UNCHANGED <<t, worker, work, sent>> BY DEF Concluded
<1>2. ~ h.settled BY <1>1 DEF Inv, Account
<1>3. PICK o : Concludes(o) /\ (o = "success" => Succeeds) BY DEF Concluded
<1>4. Succeeds => t.calls = t.done BY DEF Succeeds
<1> QED BY <1>1, <1>2, <1>3, <1>4, ConcludesStep

\* The record is reserved once: an acquisition that finds one is refused.
LEMMA AcquireStep ==
    ASSUME Inv, UNCHANGED world, Acquire
    PROVE  Inv'
<1>1. UNCHANGED <<t, worker, work, sent>> /\ h.at = "new" BY DEF Acquire
<1>2. h = NewHandle /\ t = Fresh /\ worker # "running" BY <1>1 DEF Inv, Account, Holds
<1>3. h \in Handles /\ record \in Records BY DEF Inv, TypeOK
<1>4. CASE record.phase = "none"
  <2>1. record' = [record EXCEPT !.phase = "acquired"] /\ h' = [NewHandle EXCEPT !.at = "acquired"] /\ UNCHANGED outcome
    BY <1>2, <1>4 DEF Acquire
  <2>2. /\ h'.at = "acquired" /\ ~ h'.closed /\ ~ h'.intent /\ ~ h'.settled /\ ~ h'.silent /\ ~ h'.released /\ ~ h'.disposed
        /\ h' \in Handles
    BY <2>1 DEF NewHandle, Handles, Stages, Custody
  <2>3. /\ record'.phase = "acquired" /\ record'.dispatch = record.dispatch /\ record'.started = record.started
        /\ record'.completed = record.completed /\ record' \in Records
    BY <1>3, <2>1 DEF Records
  <2>4. Untouched /\ record.dispatch = "" BY <1>4 DEF Inv, Account
  <2>5. TypeOK' BY <1>1, <2>2, <2>3 DEF Inv, TypeOK
  <2>6. Account' BY <1>1, <1>2, <2>2, <2>3, <2>4 DEF Account, Untouched
  <2>7. Holds' BY <1>1, <1>2, <2>2 DEF Holds
  <2>8. DispatchIsAccounted'
    <3>1. sent' = 0 /\ sent' # 1 BY <1>1, <2>4, ZeroIs DEF Untouched
    <3> QED BY <1>1, <2>3, <2>4, <3>1 DEF Inv, DispatchIsAccounted
  <2> QED BY <2>5, <2>6, <2>7, <2>8 DEF Inv
<1>5. CASE record.phase # "none"
  <2>1. UNCHANGED record /\ h' = [NewHandle EXCEPT !.at = "over"] /\ outcome' = "refused"
    BY <1>2, <1>5 DEF Acquire
  <2>2. /\ h'.at = "over" /\ ~ h'.closed /\ ~ h'.intent /\ ~ h'.settled /\ ~ h'.silent /\ ~ h'.released /\ ~ h'.disposed
        /\ h' \in Handles
    BY <2>1 DEF NewHandle, Handles, Stages, Custody
  <2>5. TypeOK' BY <1>1, <2>1, <2>2 DEF Inv, TypeOK
  <2>6. Account' BY <1>1, <1>5, <2>1, <2>2 DEF Account
  <2>7. Holds' BY <1>1, <1>2, <2>2 DEF Holds
  <2>8. DispatchIsAccounted' BY <1>1, <2>1 DEF Inv, DispatchIsAccounted
  <2> QED BY <2>5, <2>6, <2>7, <2>8 DEF Inv
<1> QED BY <1>4, <1>5

\* Nothing is released before the materialization and the task have joined; what is settled here
\* was never run.
LEMMA ReleaseStep ==
    ASSUME Inv, UNCHANGED world, Release
    PROVE  Inv'
<1>1. /\ UNCHANGED <<t, worker, work, sent, outcome>> /\ h.closed /\ h.at \notin {"opening", "running"}
      /\ h.closing = "close" /\ h.entered => h.fence
  BY DEF Release, Joined
<1>2. h \in Handles /\ record \in Records BY DEF Inv, TypeOK
<1>3. h' = [h EXCEPT !.released = TRUE, !.settled = TRUE, !.fds = {}] BY DEF Release
<1>4. /\ h'.at = h.at /\ h'.closed = h.closed /\ h'.closing = h.closing /\ h'.entered = h.entered
      /\ h'.fds = {} /\ h'.intent = h.intent /\ h'.settled = TRUE /\ h'.silent = h.silent
      /\ h'.fence = h.fence /\ h'.released = TRUE /\ h'.disposed = h.disposed
  BY <1>2, <1>3 DEF Handles
<1>5. h' \in Handles BY <1>2, <1>3 DEF Handles, Custody
<1>6. h.at \in {"acquired", "ready", "over"}
  <2>1. h.at = "new" => h = NewHandle BY DEF Inv, Account
  <2>2. ~ NewHandle.closed BY DEF NewHandle
  <2>3. h.at \notin {"new", "maintaining"} BY <1>1, <2>1, <2>2 DEF Inv, Account
  <2> QED BY <1>1, <1>2, <2>3 DEF Handles, Stages
<1>7. worker # "running" BY <1>1 DEF Inv, Holds
<1>8. record' = record \/ (h.at # "over" /\ record' = [record EXCEPT !.phase = "outcome", !.dispatch = "not dispatched"])
  <2>1. PICK f \in Flaky : Settles("none", f) BY DEF Release
  <2>2. CASE h.at = "over"
    <3>1. h.settled BY <1>1, <2>2 DEF Inv, Account
    <3> QED BY <2>1, <3>1 DEF Settles
  <2>3. CASE h.at \in {"acquired", "ready"}
    <3>1. ~ h.intent BY <2>3 DEF Inv, Account
    <3> QED BY <2>1, <2>3, <3>1 DEF Settles, Fate, Dispatch
  <2> QED BY <1>6, <2>2, <2>3
<1>9. record.phase # "none" BY <1>6 DEF Inv, Account
<1>10. /\ record'.started = record.started /\ record'.completed = record.completed
       /\ \/ record'.phase = record.phase /\ record'.dispatch = record.dispatch
          \/ h.at # "over" /\ record'.phase = "outcome" /\ record'.dispatch = "not dispatched"
  BY <1>2, <1>8 DEF Records
<1>11. record' \in Records BY <1>2, <1>8 DEF Records
<1>12. TypeOK' BY <1>1, <1>5, <1>11 DEF Inv, TypeOK
<1>13. Account' BY <1>1, <1>4, <1>6, <1>9, <1>10 DEF Inv, Account, Untouched
<1>14. Holds' BY <1>1, <1>4, <1>6, <1>7 DEF Holds, Inv
<1>15. DispatchIsAccounted'
  <2>1. CASE record'.phase = record.phase /\ record'.dispatch = record.dispatch
    BY <1>1, <1>10, <2>1 DEF Inv, DispatchIsAccounted
  <2>2. CASE h.at # "over" /\ record'.phase = "outcome" /\ record'.dispatch = "not dispatched"
    <3>1. sent' = 0 BY <1>1, <1>6, <2>2 DEF Inv, Account, Untouched
    <3>2. sent' # 1 BY <3>1, ZeroIs
    <3> QED BY <1>1, <1>10, <2>2, <3>2 DEF Inv, DispatchIsAccounted
  <2> QED BY <1>10, <2>1, <2>2
<1> QED BY <1>12, <1>13, <1>14, <1>15 DEF Inv

\* Every step of the handle.
LEMMA HandleInv ==
    ASSUME Inv, HandleStep, UNCHANGED world
    PROVE  Inv'
  BY AcquireStep, MaterializeStep, OpenedStep, ExecuteStep, ConcludedStep, FenceStep, ReleaseStep, DisposeStep, CloseStep
     DEF HandleStep

-----------------------------------------------------------------------------
\* Steps that change neither the handle, the record nor the task.
LEMMA ElsewhereStep ==
    ASSUME Inv, UNCHANGED <<world, t, worker, h, record, sent>>, work'.began = work.began, DOMAIN work' = DOMAIN work,
           outcome' = outcome \/ h.at = "maintaining"
    PROVE  Inv'
<1>1. TypeOK' BY DEF Inv, TypeOK
<1>2. Account' BY DEF Inv, Account, TaskFits, Untouched
<1>3. Holds' BY DEF Inv, Holds
<1>4. DispatchIsAccounted' BY DEF Inv, DispatchIsAccounted
<1> QED BY <1>1, <1>2, <1>3, <1>4 DEF Inv

\* The stream only adds to what was captured while a worker ran.
LEMMA StreamsStep ==
    ASSUME Inv, UNCHANGED world, Streams
    PROVE  Inv'
<1>1. PICK c : work' = work \/ work' = [work EXCEPT !.caught = c] BY DEF Streams
<1>2. DOMAIN work = {"began", "caught"} BY DEF Inv, TypeOK
<1>3. work'.began = work.began /\ DOMAIN work' = DOMAIN work BY <1>1, <1>2
<1> QED BY <1>3, ElsewhereStep DEF Streams

\* A host that dies leaves the record as it was.
LEMMA CrashStep ==
    ASSUME Inv, UNCHANGED world, Crash
    PROVE  Inv'
<1>1. h' = NewHandle /\ t' = Fresh /\ worker' = "idle" /\ UNCHANGED <<work, record, sent, outcome>> BY DEF Crash
<1>2. NewHandle \in Handles BY DEF NewHandle, Handles, Stages, Custody
<1>3. /\ NewHandle.at = "new" /\ ~ NewHandle.closed /\ ~ NewHandle.settled /\ ~ NewHandle.released /\ ~ NewHandle.disposed
  BY DEF NewHandle
<1>4. TypeOK' BY <1>1, <1>2, FreshGood DEF Inv, TypeOK
<1>5. Account' BY <1>1, <1>3 DEF Inv, Account, Untouched
<1>6. Holds' BY <1>1, <1>3 DEF Holds
<1>7. DispatchIsAccounted' BY <1>1 DEF Inv, DispatchIsAccounted
<1> QED BY <1>4, <1>5, <1>6, <1>7 DEF Inv

\* Every step of the specification.
LEMMA NextInv ==
    ASSUME Inv, [Next]_vars
    PROVE  Inv'
<1>1. CASE HandleStep /\ UNCHANGED world BY <1>1, HandleInv
<1>2. CASE Streams /\ UNCHANGED world BY <1>2, StreamsStep
<1>3. CASE MaintenanceStep /\ UNCHANGED world
  <2>1. UNCHANGED readVars BY <1>3 DEF MaintenanceStep
  <2>2. UNCHANGED outcome \/ h.at = "maintaining" BY <1>3 DEF MaintenanceStep, SessionEnds
  <2> QED BY <1>3, <2>1, <2>2, ElsewhereStep DEF readVars
<1>4. CASE Crash /\ UNCHANGED world BY <1>4, CrashStep
<1>5. CASE TransactionStep /\ UNCHANGED <<m, outcome, world>> BY <1>5, TransactionInv
<1>6. ASSUME NEW what, Loses(what), UNCHANGED world PROVE Inv' BY <1>6, ElsewhereStep DEF Loses
<1>7. CASE UNCHANGED vars BY <1>7, ElsewhereStep DEF vars, readVars
<1> QED BY <1>1, <1>2, <1>3, <1>4, <1>5, <1>6, <1>7 DEF Next

\* Nothing is held, sent or recorded at first.
LEMMA InitInv ==
    ASSUME Init
    PROVE  Inv
<1>1. /\ t = Fresh /\ worker = "idle" /\ work = [began |-> 0, caught |-> {}] /\ sent = 0
      /\ record = [phase |-> "none", dispatch |-> "", started |-> 0, completed |-> 0]
  BY DEF Init
<1>2. PICK x \in {"new", "maintaining"} : h = [NewHandle EXCEPT !.at = x] BY DEF Init
<1>3. /\ h \in Handles /\ h.at = x /\ ~ h.closed /\ ~ h.settled /\ ~ h.released /\ ~ h.disposed
      /\ x = "new" => h = NewHandle
  BY <1>2 DEF NewHandle, Handles, Stages, Custody
<1>4. record \in Records /\ work.began = 0 /\ DOMAIN work = {"began", "caught"} BY <1>1 DEF Records
<1>5. TypeOK BY <1>1, <1>3, <1>4, FreshGood DEF TypeOK
<1>6. Account BY <1>1, <1>3, <1>4 DEF Account, Untouched
<1>7. Holds BY <1>1, <1>3 DEF Holds
<1>8. DispatchIsAccounted
  <2>1. sent \in {0, 1} /\ sent # 1 BY <1>1, ZeroIs
  <2>2. sent <= 1 BY <2>1, AtMostOne
  <2>3. record.dispatch = "" /\ record.started = 0 BY <1>1
  <2>4. work.began <= record.started BY <1>4, <2>3, ZeroIs
  <2> QED BY <2>1, <2>2, <2>3, <2>4 DEF DispatchIsAccounted
<1> QED BY <1>5, <1>6, <1>7, <1>8 DEF Inv

\* The account of the handle and what it holds are kept by every step, of the task, of the
\* maintenance sessions, of the client, of the host and of its failures (claude_provider.py).
THEOREM Invariance == Spec => []Inv
<1>1. Init => Inv BY InitInv
<1>2. Inv /\ [Next]_vars => Inv' BY NextInv
<1> QED BY <1>1, <1>2, PTL DEF Spec

\* Over every crash and restart one authorization sends at most one user message, the durable
\* record says so from before it goes out and never takes it back, and a WRITE worker begins only
\* behind a record that counts it (attempt_record.py, _before_user, _settle).
THEOREM DispatchAccounted == Spec => []DispatchIsAccounted
<1>1. Inv => DispatchIsAccounted BY DEF Inv
<1> QED BY <1>1, Invariance, PTL

\* The guard, the lock and the credential outlive the client, the worker and the acquisition
\* they are held for, and nothing is disposed of before its fence (_release_owned, _close_owned).
THEOREM CustodyOutlives == Spec => []CustodyOutlivesWork
<1>1. Inv => CustodyOutlivesWork BY DEF Inv, Holds, CustodyOutlivesWork
<1> QED BY <1>1, Invariance, PTL

-----------------------------------------------------------------------------
(***************************************************************************)
(* Two further invariants.  Funds: once a worker was granted, what its     *)
(* reply and the controls after the result may cost is still there.        *)
(* Caught: what was captured while a worker ran is display metadata, or    *)
(* still in front of the conversation.  Both need StreamFits, how the end  *)
(* of the client's stream comes through to the conversation.               *)
(***************************************************************************)
\* The user message was sent and the transaction was not refused.
Past(d) == d.at \in {"body", "barrier", "worker"} \/ d.n >= 5

\* What was spent, and for what.
Funds(d) ==
    /\ d.at = "refused" /\ d.why = "bound" => d.calls = 0
    /\ d.at # "refused" =>
        /\ d.why # "bound"
        /\ d.spent \in Nat /\ d.startup \in Nat /\ d.startup <= StartupInput
        /\ d.n >= 5 => d.accepted = TRUE
        /\ d.n <= 4 => d.accepted = FALSE /\ d.post = 0
        /\ d.n >= 5 => d.post = IF d.at = "control" THEN d.n - 5 ELSE d.n - 4
        /\ d.at \in {"handshake", "quiet", "intended", "body", "barrier", "worker"} => d.n = 4 /\ d.boot = TRUE
        /\ d.at \in {"last", "drain", "drained"} => d.n = 7
        /\ d.calls > 0 => Past(d) /\ d.spent + PostInput <= world.input + d.post
        /\ d.at = "worker" => d.spent + MaxReply + PostInput <= world.input

\* A step that reads a record, asks or refuses: it keeps the funds, and neither sends nor grants.
Paid(d, e) ==
    /\ Funds(e) /\ e.at # "drained"
    /\ e.at # "refused" /\ Past(e) => Past(d)
    /\ e.at = "worker" => d.at = "worker"

\* Nothing was spent at first.
LEMMA FreshFunds == Funds(Fresh) /\ ~ Past(Fresh)
<1>1. Fresh.at = "control" /\ Fresh.why = "" /\ Fresh.accepted = FALSE BY DEF Fresh
<1>2. Fresh.n = 1 /\ Fresh.calls = 0 /\ Fresh.spent = 0 /\ Fresh.startup = 0 /\ Fresh.post = 0 BY DEF Fresh
<1>3. ~ (Fresh.n >= 5) /\ ~ (Fresh.calls > 0) BY <1>2
<1>4. Fresh.spent \in Nat /\ Fresh.startup \in Nat /\ Fresh.startup <= StartupInput BY <1>2, InputAssumption
<1> QED BY <1>1, <1>2, <1>3, <1>4 DEF Funds, Past

\* A refusal for another reason than the input spends nothing.
LEMMA RefusePaid ==
    ASSUME NEW d, NEW why, Good(d), why # "bound"
    PROVE  Paid(d, Refuse(d, why)) /\ Refuse(d, why).at = "refused"
<1>1. Refuse(d, why).at = "refused" /\ Refuse(d, why).why = why BY DEF Good, Refuse, Fields
<1> QED BY <1>1 DEF Paid, Funds

\* Funds are these fields.
LEMMA SameFunds ==
    ASSUME NEW d, NEW e, Funds(d), e.at = d.at, e.n = d.n, e.boot = d.boot, e.accepted = d.accepted, e.calls = d.calls,
           e.spent = d.spent, e.startup = d.startup, e.post = d.post, e.why = d.why
    PROVE  Funds(e) /\ (Past(e) <=> Past(d))
  BY DEF Funds, Past

LEMMA OtherPaid ==
    ASSUME NEW d, NEW x \in {"ui", "over", "init"}, NEW v, Good(d), Funds(d), d.at # "drained"
    PROVE  Paid(d, [d EXCEPT ![x] = v])
<1>1. PICK e : e = [d EXCEPT ![x] = v] OBVIOUS
<1>2. /\ e.at = d.at /\ e.n = d.n /\ e.boot = d.boot /\ e.accepted = d.accepted /\ e.calls = d.calls
      /\ e.spent = d.spent /\ e.startup = d.startup /\ e.post = d.post /\ e.why = d.why
  BY <1>1 DEF Good, Fields
<1>3. Funds(e) /\ (Past(e) <=> Past(d)) BY <1>2, SameFunds
<1> QED BY <1>1, <1>2, <1>3 DEF Paid

\* Input that is spent, or that is refused because a budget does not have it.
LEMMA WrittenSpends ==
    ASSUME NEW d, Good(d), NEW cost \in Nat, NEW budget, d.spent \in Nat, d.startup \in Nat, d.post \in Nat
    PROVE  LET e == Written(d, cost, budget)
           IN  /\ e.n = d.n /\ e.calls = d.calls /\ e.boot = d.boot /\ e.accepted = d.accepted
               /\ e.spent = d.spent + cost
               /\ e.startup = IF budget = "startup" THEN d.startup + cost ELSE d.startup
               /\ e.post = IF budget = "post" THEN d.post + cost ELSE d.post
               /\ \/ /\ e.at = d.at /\ e.why = d.why
                     /\ ~ (e.spent > world.input \/ e.startup > StartupInput \/ e.post > PostInput)
                  \/ /\ e.at = "refused" /\ e.why = "bound"
                     /\ e.spent > world.input \/ e.startup > StartupInput \/ e.post > PostInput
<1>1. PICK a : a = d.spent + cost OBVIOUS
<1>2. PICK b : b = IF budget = "startup" THEN d.startup + cost ELSE d.startup OBVIOUS
<1>3. PICK c : c = IF budget = "post" THEN d.post + cost ELSE d.post OBVIOUS
<1>4. PICK e : e = [d EXCEPT !.spent = a, !.startup = b, !.post = c] OBVIOUS
<1>5. /\ e.n = d.n /\ e.calls = d.calls /\ e.boot = d.boot /\ e.accepted = d.accepted /\ e.at = d.at /\ e.why = d.why
      /\ e.spent = a /\ e.startup = b /\ e.post = c /\ Good(e)
  BY <1>4 DEF Good, Fields
<1>6. Written(d, cost, budget) = IF e.spent > world.input \/ e.startup > StartupInput \/ e.post > PostInput
                                 THEN Refuse(e, "bound") ELSE e
  <2>1. [d EXCEPT !.spent = @ + cost,
                  !.startup = IF budget = "startup" THEN @ + cost ELSE @,
                  !.post = IF budget = "post" THEN @ + cost ELSE @] = e
    BY <1>1, <1>2, <1>3, <1>4
  <2> QED BY <2>1 DEF Written
<1>7. PICK f : f = Refuse(e, "bound") OBVIOUS
<1>8. /\ f.n = d.n /\ f.calls = d.calls /\ f.boot = d.boot /\ f.accepted = d.accepted /\ f.at = "refused" /\ f.why = "bound"
      /\ f.spent = a /\ f.startup = b /\ f.post = c
  BY <1>5, <1>7 DEF Refuse, Good, Fields
<1> QED BY <1>1, <1>2, <1>3, <1>5, <1>6, <1>7, <1>8

\* Display records spend nothing.
LEMMA SidebandPaid ==
    ASSUME NEW d, NEW r, Good(d), Funds(d), d.at # "drained", Passes(d, r)
    PROVE  Paid(d, Sideband(d, r))
<1>1. Paid(d, d) BY DEF Paid
<1>2. Paid(d, Ui(d, r))
  <2>1. PICK v : v = d.ui + 1 OBVIOUS
  <2>2. Ui(d, r) = Refuse(d, "ui") \/ Ui(d, r) = [d EXCEPT !["ui"] = v] BY <2>1 DEF Ui, Good, Fields
  <2> QED BY <2>2, RefusePaid, OtherPaid
<1>3. Paid(d, Display(d, r)) BY <1>1, RefusePaid DEF Display
<1>4. Paid(d, Lifecycle(d, r))
  <2>1. PICK v : v = (d.over \/ r.body = "completed") OBVIOUS
  <2>2. Lifecycle(d, r) = Refuse(d, "lifecycle") \/ Lifecycle(d, r) = [d EXCEPT !["over"] = v]
    BY <2>1 DEF Lifecycle, Good, Fields
  <2> QED BY <2>2, RefusePaid, OtherPaid
<1>5. Paid(d, Thinking(d, r)) BY <1>1, RefusePaid DEF Thinking
<1>6. Paid(d, Running(d, r)) BY <1>1, RefusePaid DEF Running
<1>7. Paid(d, InSession(d, r)) BY <1>1, RefusePaid DEF InSession
<1>8. r.kind \in {"ui", "side", "lifecycle", "thinking", "retry", "heartbeat", "rate", "assistant", "background"}
  BY DEF Passes
<1> QED BY <1>1, <1>2, <1>3, <1>4, <1>5, <1>6, <1>7, <1>8 DEF Sideband

\* A step from one control to the next changes the place and the number, as the budget counts them.
LEMMA FollowingPaid ==
    ASSUME NEW d, Good(d), Funds(d), d.at \in {"await", "snapshot", "handshake"}, d.n = 4 => d.boot = TRUE
    PROVE  Paid(d, Following(d))
<1>1. CASE d.n \in {1, 2, 3, 5, 6}
  <2>1. PICK v : v = d.n + 1 /\ v \in 1 .. 7 BY <1>1
  <2>2. Following(d) = [d EXCEPT !.n = v, !.at = "control"] BY <1>1, <2>1 DEF Following
  <2>3. PICK e : e = Following(d) OBVIOUS
  <2>4. /\ e.at = "control" /\ e.n = v /\ e.boot = d.boot /\ e.accepted = d.accepted /\ e.calls = d.calls
        /\ e.spent = d.spent /\ e.startup = d.startup /\ e.post = d.post /\ e.why = d.why
    BY <2>2, <2>3 DEF Good, Fields
  <2>5. d.n \in {1, 2, 3} => v \in {2, 3, 4} /\ d.n <= 4 /\ v <= 4 /\ ~ (v >= 5) /\ ~ (d.n >= 5) BY <2>1
  <2>6. d.n \in {5, 6} => v >= 5 /\ d.n >= 5 /\ ~ (v <= 4) /\ ~ (d.n <= 4) /\ v - 5 = d.n - 4 BY <2>1
  <2>7. d.at # "control" /\ d.at # "refused" /\ d.at # "worker" OBVIOUS
  <2>8. CASE d.n \in {1, 2, 3}
    <3>1. ~ (d.calls > 0)
      <4>1. ~ Past(d) BY <2>5, <2>8 DEF Past
      <4> QED BY <2>7, <4>1 DEF Funds
    <3> QED BY <2>3, <2>4, <2>5, <2>7, <2>8, <3>1 DEF Paid, Funds, Past
  <2>9. CASE d.n \in {5, 6} BY <2>3, <2>4, <2>6, <2>7, <2>9 DEF Paid, Funds, Past
  <2> QED BY <1>1, <2>8, <2>9
<1>2. CASE d.n = 4
  <2>1. PICK v \in {"quiet", "handshake"} : Following(d) = [d EXCEPT !.at = v] BY <1>2 DEF Following
  <2>2. PICK e : e = Following(d) OBVIOUS
  <2>3. /\ e.at = v /\ e.n = d.n /\ e.boot = d.boot /\ e.accepted = d.accepted /\ e.calls = d.calls
        /\ e.spent = d.spent /\ e.startup = d.startup /\ e.post = d.post /\ e.why = d.why
    BY <2>1, <2>2 DEF Good, Fields
  <2>4. d.n <= 4 /\ ~ (d.n >= 5) BY <1>2
  <2> QED BY <1>2, <2>2, <2>3, <2>4 DEF Paid, Funds, Past
<1>3. CASE d.n = 7
  <2>1. Following(d) = [d EXCEPT !.at = "last"] BY <1>3 DEF Following
  <2>2. PICK e : e = Following(d) OBVIOUS
  <2>3. /\ e.at = "last" /\ e.n = d.n /\ e.boot = d.boot /\ e.accepted = d.accepted /\ e.calls = d.calls
        /\ e.spent = d.spent /\ e.startup = d.startup /\ e.post = d.post /\ e.why = d.why
    BY <2>1, <2>2 DEF Good, Fields
  <2>4. d.n >= 5 /\ ~ (d.n <= 4) BY <1>3
  <2> QED BY <1>3, <2>2, <2>3, <2>4 DEF Paid, Funds, Past
<1> QED BY <1>1, <1>2, <1>3 DEF Good

\* What is paid twice is paid.
LEMMA PaidTwice ==
    ASSUME NEW d, NEW e, NEW f, Paid(d, e), Paid(e, f), e.at # "refused"
    PROVE  Paid(d, f)
  BY DEF Paid

\* A registration request is paid for before any call, a reply and a snapshot cost nothing.
LEMMA StartupPaid ==
    ASSUME NEW d, NEW r, Good(d), Funds(d), d.at \in {"await", "snapshot", "handshake"}
    PROVE  /\ d.n = 4 => Paid(d, HandshakeStep(d, r)) /\ HandshakeStep(d, r).boot = d.boot
           /\ d.at = "await" => Paid(d, Replied(d, r))
           /\ d.at = "snapshot" => Paid(d, Snapshot(d, r))
<1>1. ASSUME d.n = 4 PROVE Paid(d, HandshakeStep(d, r)) /\ HandshakeStep(d, r).boot = d.boot
  <2>1. PICK a, b : [d EXCEPT !.hs = @ + 1, !.ids = @ \cup {r.id}] = [d EXCEPT !.hs = a, !.ids = b] OBVIOUS
  <2>2. PICK e : e = [d EXCEPT !.hs = a, !.ids = b] OBVIOUS
  <2>3. /\ e.at = d.at /\ e.n = d.n /\ e.boot = d.boot /\ e.accepted = d.accepted /\ e.calls = d.calls
        /\ e.spent = d.spent /\ e.startup = d.startup /\ e.post = d.post /\ e.why = d.why /\ Good(e)
    BY <2>2 DEF Good, Fields
  <2>4. HandshakeStep(d, r) = Refuse(d, "handshake") \/ HandshakeStep(d, r) = Written(e, 1, "startup")
    BY <2>1, <2>2 DEF HandshakeStep
  <2>5. d.n <= 4 /\ ~ (d.n >= 5) /\ ~ Past(d) BY <1>1 DEF Past
  <2>6. d.spent \in Nat /\ d.startup \in Nat /\ d.post = 0 /\ ~ (d.calls > 0) /\ d.calls = 0
    <3>1. d.spent \in Nat /\ d.startup \in Nat /\ d.post = 0 /\ ~ (d.calls > 0) BY <2>5 DEF Funds
    <3> QED BY <3>1 DEF Good
  <2>7. PICK f : f = Written(e, 1, "startup") OBVIOUS
  <2>8. /\ f.n = d.n /\ f.calls = d.calls /\ f.boot = d.boot /\ f.accepted = d.accepted
        /\ f.spent = d.spent + 1 /\ f.startup = d.startup + 1 /\ f.post = 0
        /\ \/ f.at = d.at /\ f.why = d.why /\ ~ (f.startup > StartupInput)
           \/ f.at = "refused" /\ f.why = "bound"
    <3>1. e.spent \in Nat /\ e.startup \in Nat /\ e.post \in Nat BY <2>3, <2>6
    <3> QED BY <2>3, <2>6, <2>7, <3>1, WrittenSpends
  <2>9. ASSUME f.at = "refused" /\ f.why = "bound" PROVE Paid(d, f)
    <3>1. f.calls = 0 BY <2>6, <2>8
    <3> QED BY <2>9, <3>1 DEF Paid, Funds
  <2>10. ASSUME f.at = d.at /\ f.why = d.why /\ ~ (f.startup > StartupInput) PROVE Paid(d, f)
    <3>1. f.spent = d.spent + 1 /\ f.startup = d.startup + 1 /\ ~ (f.startup > StartupInput) BY <2>8, <2>10
    <3>2. f.spent \in Nat /\ f.startup \in Nat /\ f.startup <= StartupInput BY <2>6, <3>1, InputAssumption
    <3>3. ~ (f.calls > 0) /\ f.n = d.n /\ f.n <= 4 /\ ~ (f.n >= 5) /\ f.post = 0 BY <2>5, <2>6, <2>8
    <3>4. f.boot = d.boot /\ f.accepted = d.accepted BY <2>8
    <3>5. f.at \in {"await", "snapshot", "handshake"} /\ f.why # "bound" /\ f.accepted = FALSE
          /\ (f.at = "handshake" => f.boot = TRUE)
      BY <2>5, <2>10, <3>4 DEF Funds
    <3> QED BY <1>1, <3>2, <3>3, <3>5 DEF Paid, Funds, Past
  <2>11. Paid(d, f) BY <2>8, <2>9, <2>10
  <2>12. Refuse(d, "handshake").boot = d.boot BY DEF Refuse, Good, Fields
  <2> QED BY <2>4, <2>7, <2>8, <2>11, <2>12, RefusePaid
<1>2. ASSUME d.at = "await" PROVE Paid(d, Replied(d, r))
  <2>1. PICK e : e = [d EXCEPT !.at = "snapshot"] OBVIOUS
  <2>2. /\ e.at = "snapshot" /\ e.n = d.n /\ e.boot = d.boot /\ e.accepted = d.accepted /\ e.calls = d.calls
        /\ e.spent = d.spent /\ e.startup = d.startup /\ e.post = d.post /\ e.why = d.why
    BY <2>1 DEF Good, Fields
  <2>3. Paid(d, e) BY <1>2, <2>2 DEF Paid, Funds, Past
  <2>4. d.n # 4 => Paid(d, Following(d)) BY FollowingPaid
  <2> QED BY <2>1, <2>3, <2>4, RefusePaid DEF Replied
<1>3. ASSUME d.at = "snapshot" PROVE Paid(d, Snapshot(d, r))
  <2>1. PICK e : e = [d EXCEPT !.boot = TRUE] OBVIOUS
  <2>2. /\ e.at = d.at /\ e.n = d.n /\ e.boot = TRUE /\ e.accepted = d.accepted /\ e.calls = d.calls
        /\ e.spent = d.spent /\ e.startup = d.startup /\ e.post = d.post /\ e.why = d.why /\ Good(e)
    BY <2>1 DEF Good, Fields
  <2>3. Paid(d, e) BY <1>3, <2>2 DEF Paid, Funds, Past
  <2>4. Paid(e, Following(e)) BY <1>3, <2>2, <2>3, FollowingPaid DEF Paid
  <2>5. Snapshot(d, r) = Refuse(d, "snapshot") \/ Snapshot(d, r) = Following(e) BY <2>1 DEF Snapshot
  <2>6. Paid(d, Following(e)) BY <1>3, <2>2, <2>3, <2>4, PaidTwice
  <2> QED BY <2>5, <2>6, RefusePaid
<1> QED BY <1>1, <1>2, <1>3

\* A record of the turn spends nothing; a result opens the budget of the controls behind it.
LEMMA BodyPaid ==
    ASSUME NEW d, NEW r, Good(d), Funds(d), d.at = "body"
    PROVE  Paid(d, Call(d, r)) /\ Paid(d, Named(d, r)) /\ Paid(d, ToolResult(d, r)) /\ Paid(d, Result(d, r))
<1>1. Paid(d, Call(d, r))
  <2>1. PICK a, b : [d EXCEPT !.ids = @ \cup {r.id}, !.call = r.id, !.at = "barrier"] = [d EXCEPT !.ids = a, !.call = b, !.at = "barrier"]
    OBVIOUS
  <2>2. PICK e : e = [d EXCEPT !.ids = a, !.call = b, !.at = "barrier"] OBVIOUS
  <2>3. /\ e.at = "barrier" /\ e.n = d.n /\ e.boot = d.boot /\ e.accepted = d.accepted /\ e.calls = d.calls
        /\ e.spent = d.spent /\ e.startup = d.startup /\ e.post = d.post /\ e.why = d.why
    BY <2>2 DEF Good, Fields
  <2>4. Paid(d, e) BY <2>3 DEF Paid, Funds, Past
  <2> QED BY <2>1, <2>2, <2>4, RefusePaid DEF Call
<1>2. Paid(d, Named(d, r))
  <2>1. Named(d, r) = Refuse(d, "init") \/ Named(d, r) = [d EXCEPT !["init"] = TRUE] BY DEF Named
  <2> QED BY <2>1, RefusePaid, OtherPaid
<1>3. Paid(d, ToolResult(d, r))
  <2>1. Paid(d, d) BY DEF Paid
  <2> QED BY <2>1, RefusePaid DEF ToolResult
<1>4. Paid(d, Result(d, r))
  <2>1. PICK e : e = [d EXCEPT !.accepted = TRUE, !.st = "terminal", !.n = 5, !.at = "control"] OBVIOUS
  <2>2. e.at = "control" /\ e.why = d.why /\ e.boot = d.boot /\ e.accepted = TRUE BY <2>1 DEF Good, Fields
  <2>3. e.n = 5 /\ e.calls = d.calls /\ e.spent = d.spent /\ e.startup = d.startup /\ e.post = d.post
    BY <2>1 DEF Good, Fields
  <2>4. d.n = 4 /\ d.n <= 4 /\ d.post = 0 BY DEF Funds
  <2>5. e.n >= 5 /\ ~ (e.n <= 4) /\ e.post = e.n - 5 BY <2>3, <2>4
  <2>6. e.why # "bound" /\ e.spent \in Nat /\ e.startup \in Nat /\ e.startup <= StartupInput BY <2>2, <2>3 DEF Funds
  <2>7. e.calls > 0 => e.spent + PostInput <= world.input + e.post BY <2>3 DEF Funds
  <2>8. Paid(d, e) BY <2>2, <2>5, <2>6, <2>7 DEF Paid, Funds, Past
  <2> QED BY <2>1, <2>8, RefusePaid DEF Result
<1> QED BY <1>1, <1>2, <1>3, <1>4

\* No record the client writes spends what a worker was granted on.
LEMMA TakenPaid ==
    ASSUME NEW d, NEW r, Good(d), Funds(d), d.at \notin {"intended", "drained", "refused"}
    PROVE  Paid(d, Taken(d, r))
<1>1. Paid(d, Rule(d, r))
  <2>1. CASE d.at \in {"await", "snapshot"} /\ d.n = 4 /\ r.kind = "mcp"
    <3>1. Rule(d, r) = HandshakeStep(d, r) BY <2>1 DEF Rule
    <3> QED BY <2>1, <3>1, StartupPaid
  <2>2. CASE d.at = "await" /\ ~ (d.n = 4 /\ r.kind = "mcp")
    <3>1. Rule(d, r) = Replied(d, r) BY <2>2 DEF Rule
    <3> QED BY <2>2, <3>1, StartupPaid
  <2>3. CASE d.at = "snapshot" /\ ~ (d.n = 4 /\ r.kind = "mcp")
    <3>1. Rule(d, r) = Snapshot(d, r) BY <2>3 DEF Rule
    <3> QED BY <2>3, <3>1, StartupPaid
  <2>4. CASE d.at = "handshake"
    <3>1. PICK e : e = HandshakeStep(d, r) OBVIOUS
    <3>2. d.n = 4 /\ d.boot = TRUE BY <2>4 DEF Funds
    <3>3. Paid(d, e) /\ e.boot = TRUE BY <2>4, <3>1, <3>2, StartupPaid
    <3>4. Good(e) BY <2>4, <3>1, StartupKept DEF Kept
    <3>5. e.at = "handshake" => Paid(e, Following(e)) BY <3>3, <3>4, FollowingPaid DEF Paid
    <3>6. Rule(d, r) \in {Refuse(d, "system"), e} \/ (e.at = "handshake" /\ Rule(d, r) = Following(e))
      BY <2>4, <3>1 DEF Rule
    <3> QED BY <3>3, <3>5, <3>6, RefusePaid, PaidTwice
  <2>5. CASE d.at = "body"
    <3>1. Rule(d, r) \in {Call(d, r), Named(d, r), ToolResult(d, r), Result(d, r), Refuse(d, "barrier")}
      BY <2>5 DEF Rule
    <3> QED BY <2>5, <3>1, BodyPaid, RefusePaid
  <2>6. CASE d.at \notin {"await", "snapshot", "handshake", "body"}
    <3>1. Rule(d, r) = Refuse(d, "barrier") BY <2>6 DEF Rule
    <3> QED BY <3>1, RefusePaid
  <2> QED BY <2>1, <2>2, <2>3, <2>4, <2>5, <2>6
<1>2. ASSUME Passes(d, r) PROVE Paid(d, IF Premature(Sideband(d, r)) THEN Refuse(Sideband(d, r), "lifecycle") ELSE Sideband(d, r))
  <2>1. PICK e : e = Sideband(d, r) OBVIOUS
  <2>2. Paid(d, e) BY <1>2, <2>1, SidebandPaid
  <2>3. Good(e) BY <1>2, <2>1, SidebandKept DEF Kept
  <2>4. Refuse(e, "lifecycle").at = "refused" /\ Paid(e, Refuse(e, "lifecycle")) BY <2>3, RefusePaid
  <2>5. Paid(d, Refuse(e, "lifecycle")) BY <2>4 DEF Paid
  <2> QED BY <2>1, <2>2, <2>5
<1> QED BY <1>1, <1>2, RefusePaid DEF Taken

\* What a conversation takes while its worker runs and goes on is display metadata.
LEMMA WorkerTakes ==
    ASSUME NEW d, NEW r, Good(d), Funds(d), d.at = "worker", Taken(d, r).at = "worker"
    PROVE  Harmless(r)
<1>1. d.boot = TRUE BY DEF Funds
<1>2. \A why : Refuse(d, why).at = "refused" BY RefuseKept
<1>3. r.kind # "damaged" BY <1>2 DEF Taken
<1>4. Passes(d, r)
  <2>1. Rule(d, r) = Refuse(d, "barrier") BY DEF Rule
  <2> QED BY <1>2, <1>3, <2>1 DEF Taken
<1>5. Sideband(d, r).at = "worker"
  <2>1. Good(Sideband(d, r)) BY <1>4, SidebandKept DEF Kept
  <2>2. Refuse(Sideband(d, r), "lifecycle").at = "refused" BY <2>1, RefuseKept
  <2>3. Taken(d, r) \in {Sideband(d, r), Refuse(Sideband(d, r), "lifecycle")} BY <1>3, <1>4 DEF Taken
  <2> QED BY <2>2, <2>3
<1>6. r.kind \in {"ui", "side", "lifecycle", "thinking", "retry", "heartbeat", "rate", "assistant", "background"}
  BY <1>4 DEF Passes
<1>7. CASE r.kind = "ui" BY <1>2, <1>5, <1>7 DEF Sideband, Ui, Harmless
<1>8. CASE r.kind = "side" BY <1>1, <1>2, <1>5, <1>8 DEF Sideband, Display, Harmless
<1>9. CASE r.kind = "lifecycle" BY <1>2, <1>5, <1>9 DEF Sideband, Lifecycle, Harmless
<1>10. CASE r.kind = "thinking" BY <1>2, <1>5, <1>10 DEF Sideband, Thinking, Harmless
<1>11. CASE r.kind \in {"retry", "heartbeat"} BY <1>2, <1>5, <1>11 DEF Sideband, Running, Harmless
<1>12. CASE r.kind \in {"rate", "assistant"} BY <1>2, <1>5, <1>12 DEF Sideband, InSession, Harmless
<1>13. CASE r.kind = "background" BY <1>4, <1>13 DEF Passes, Harmless
<1> QED BY <1>6, <1>7, <1>8, <1>9, <1>10, <1>11, <1>12, <1>13

-----------------------------------------------------------------------------
\* The pipe, what was captured of it and what was framed are sequences, of records of any kind.
IsSeq(s) == \E S : s \in Seq(S)

LEMMA SeqIndexed ==
    ASSUME NEW s, IsSeq(s)
    PROVE  /\ Len(s) \in Nat /\ DOMAIN s = 1 .. Len(s)
           /\ \A r : r \in Range(s) <=> \E i \in 1 .. Len(s) : r = s[i]
           /\ s # <<>> => Len(s) >= 1
<1>1. PICK S : s \in Seq(S) BY DEF IsSeq
<1>2. Len(s) \in Nat /\ DOMAIN s = 1 .. Len(s) BY <1>1, LenProperties
<1>3. s # <<>> => Len(s) \in Nat \ {0} BY <1>1, EmptySeq
<1> QED BY <1>2, <1>3 DEF Range

LEMMA SeqEmpty == IsSeq(<<>>) /\ Len(<<>>) = 0 /\ Range(<<>>) = {}
<1>1. <<>> \in Seq({}) /\ Len(<<>>) = 0 BY EmptySeq
<1>2. IsSeq(<<>>) BY <1>1 DEF IsSeq
<1>3. \A i : i \notin 1 .. 0 OBVIOUS
<1> QED BY <1>1, <1>2, <1>3, SeqIndexed

LEMMA SeqOne == ASSUME NEW e PROVE IsSeq(<<e>>) /\ Len(<<e>>) = 1 /\ <<e>>[1] = e
<1>1. <<e>> \in Seq({e}) OBVIOUS
<1> QED BY <1>1 DEF IsSeq

LEMMA SeqAppend ==
    ASSUME NEW s, NEW e, IsSeq(s)
    PROVE  /\ IsSeq(Append(s, e)) /\ Len(Append(s, e)) = Len(s) + 1
           /\ \A i \in 1 .. Len(s) : Append(s, e)[i] = s[i]
           /\ Append(s, e)[Len(s) + 1] = e
           /\ Range(Append(s, e)) = Range(s) \cup {e}
<1>1. PICK S : s \in Seq(S) BY DEF IsSeq
<1>2. PICK T : T = S \cup {e} OBVIOUS
<1>3. s \in Seq(T) BY <1>1, <1>2, SeqMonotonic
<1>4. e \in T BY <1>2
<1>5. /\ Append(s, e) \in Seq(T) /\ Len(Append(s, e)) = Len(s) + 1
      /\ \A i \in 1 .. Len(s) : Append(s, e)[i] = s[i]
      /\ Append(s, e)[Len(s) + 1] = e
  BY <1>3, <1>4, AppendProperties
<1>6. IsSeq(Append(s, e)) BY <1>5 DEF IsSeq
<1>7. Range(Append(s, e)) = Range(s) \cup {e}
  <2>1. PICK u : u = Append(s, e) OBVIOUS
  <2>2. PICK k \in Nat : k = Len(s) BY SeqIndexed
  <2>3. \A r : r \in Range(u) <=> \E i \in 1 .. k + 1 : r = u[i]
    <3>1. IsSeq(u) /\ Len(u) = k + 1 BY <1>5, <1>6, <2>1, <2>2
    <3>2. \A r : r \in Range(u) <=> \E i \in 1 .. Len(u) : r = u[i] BY <3>1, SeqIndexed
    <3> QED BY <3>1, <3>2
  <2>4. \A r : r \in Range(s) <=> \E i \in 1 .. k : r = s[i] BY <2>2, SeqIndexed
  <2>5. \A i : i \in 1 .. k + 1 <=> i \in 1 .. k \/ i = k + 1 BY <2>2
  <2>6. (\A i \in 1 .. k : u[i] = s[i]) /\ u[k + 1] = e BY <1>5, <2>1, <2>2
  <2>7. \A r : r \in Range(u) <=> r \in Range(s) \/ r = e BY <2>3, <2>4, <2>5, <2>6
  <2> QED BY <2>1, <2>7
<1> QED BY <1>5, <1>6, <1>7

LEMMA SeqJoin ==
    ASSUME NEW s, NEW u, IsSeq(s), IsSeq(u)
    PROVE  /\ IsSeq(s \o u) /\ Len(s \o u) = Len(s) + Len(u)
           /\ \A i \in 1 .. Len(s) : (s \o u)[i] = s[i]
           /\ \A i \in 1 .. Len(u) : (s \o u)[Len(s) + i] = u[i]
           /\ Range(s \o u) = Range(s) \cup Range(u)
<1>1. PICK S : s \in Seq(S) BY DEF IsSeq
<1>2. PICK U : u \in Seq(U) BY DEF IsSeq
<1>3. PICK T : T = S \cup U OBVIOUS
<1>4. s \in Seq(T) /\ u \in Seq(T)
  <2>1. S \subseteq T /\ U \subseteq T BY <1>3
  <2> QED BY <1>1, <1>2, <2>1, SeqMonotonic
<1>5. PICK k \in Nat : k = Len(s) BY SeqIndexed
<1>6. PICK n \in Nat : n = Len(u) BY SeqIndexed
<1>7. PICK w : w = s \o u OBVIOUS
<1>8. /\ w \in Seq(T) /\ Len(w) = k + n
      /\ \A i \in 1 .. k + n : w[i] = IF i <= k THEN s[i] ELSE u[i - k]
  BY <1>4, <1>5, <1>6, <1>7, ConcatProperties
<1>9. IsSeq(w) BY <1>8 DEF IsSeq
<1>10. \A i \in 1 .. k : w[i] = s[i]
  <2>1. \A i \in 1 .. k : i \in 1 .. k + n /\ i <= k BY <1>5, <1>6
  <2> QED BY <1>8, <2>1
<1>11. \A i \in 1 .. n : w[k + i] = u[i]
  <2>1. \A i \in 1 .. n : k + i \in 1 .. k + n /\ ~ (k + i <= k) /\ (k + i) - k = i BY <1>5, <1>6
  <2> QED BY <1>8, <2>1
<1>12. Range(w) = Range(s) \cup Range(u)
  <2>1. \A r : r \in Range(w) <=> \E i \in 1 .. k + n : r = w[i]
    <3>1. \A r : r \in Range(w) <=> \E i \in 1 .. Len(w) : r = w[i] BY <1>9, SeqIndexed
    <3> QED BY <1>8, <3>1
  <2>2. \A r : r \in Range(s) <=> \E i \in 1 .. k : r = s[i] BY <1>5, SeqIndexed
  <2>3. \A r : r \in Range(u) <=> \E i \in 1 .. n : r = u[i] BY <1>6, SeqIndexed
  <2>4. \A i \in 1 .. k + n : i \in 1 .. k \/ \E j \in 1 .. n : i = k + j
    <3>1. \A i \in 1 .. k + n : i \in 1 .. k \/ (i - k \in 1 .. n /\ i = k + (i - k)) BY <1>5, <1>6
    <3> QED BY <3>1
  <2>5. (\A i \in 1 .. k : i \in 1 .. k + n) /\ (\A j \in 1 .. n : k + j \in 1 .. k + n) BY <1>5, <1>6
  <2>6. \A r : r \in Range(w) => r \in Range(s) \cup Range(u) BY <1>10, <1>11, <2>1, <2>2, <2>3, <2>4
  <2>7. \A r : r \in Range(s) \cup Range(u) => r \in Range(w) BY <1>10, <1>11, <2>1, <2>2, <2>3, <2>5
  <2> QED BY <2>6, <2>7
<1> QED BY <1>5, <1>6, <1>7, <1>8, <1>9, <1>10, <1>11, <1>12

LEMMA SeqTail ==
    ASSUME NEW s, IsSeq(s), s # <<>>
    PROVE  /\ IsSeq(Tail(s)) /\ Len(Tail(s)) = Len(s) - 1 /\ Len(s) >= 1
           /\ \A i \in 1 .. Len(Tail(s)) : Tail(s)[i] = s[i + 1]
           /\ Head(s) = s[1]
           /\ \A r \in Range(s) : r = Head(s) \/ r \in Range(Tail(s))
<1>1. PICK S : s \in Seq(S) BY DEF IsSeq
<1>2. PICK u : u = Tail(s) OBVIOUS
<1>3. PICK k \in Nat : k = Len(s) /\ k >= 1 BY SeqIndexed
<1>4. /\ u \in Seq(S) /\ Len(u) = k - 1
      /\ \A i \in 1 .. k - 1 : u[i] = s[i + 1]
  BY <1>1, <1>2, <1>3, HeadTailProperties
<1>5. IsSeq(u) BY <1>4 DEF IsSeq
<1>6. Head(s) = s[1] OBVIOUS
<1>7. \A r \in Range(s) : r = Head(s) \/ r \in Range(u)
  <2>1. \A r : r \in Range(s) <=> \E i \in 1 .. k : r = s[i] BY <1>3, SeqIndexed
  <2>2. \A r : r \in Range(u) <=> \E i \in 1 .. k - 1 : r = u[i] BY <1>4, <1>5, SeqIndexed
  <2>3. \A i \in 1 .. k : i = 1 \/ (i - 1 \in 1 .. k - 1 /\ i = (i - 1) + 1) BY <1>3
  <2>4. \A i \in 1 .. k : i = 1 \/ \E j \in 1 .. k - 1 : s[i] = u[j] BY <1>4, <2>3
  <2> QED BY <1>6, <2>1, <2>2, <2>4
<1> QED BY <1>2, <1>3, <1>4, <1>5, <1>6, <1>7

\* What the framing leaves of a chunk: everything but a last record that was cut.
LEMMA SeqFramed ==
    ASSUME NEW s, IsSeq(s)
    PROVE  /\ IsSeq(Whole(s))
           /\ \A r \in Range(s) : r \in Range(Whole(s)) \/ (r.kind = "cut" /\ r = s[Len(s)] /\ Whole(s) # s)
<1>1. CASE s # <<>> /\ s[Len(s)].kind = "cut"
  <2>1. PICK k \in Nat : k = Len(s) /\ k >= 1 BY <1>1, SeqIndexed
  <2>2. PICK u : u = Whole(s) OBVIOUS
  <2>3. u = SubSeq(s, 1, k - 1) BY <1>1, <2>1, <2>2 DEF Whole, Front
  <2>4. PICK S : s \in Seq(S) BY DEF IsSeq
  <2>5. \A i \in 1 .. k : s[i] \in S BY <2>1, <2>4, ElementOfSeq
  <2>6. k - 1 \in Nat /\ (1 <= k - 1 => (k - 1) - 1 + 1 = k - 1) /\ (~ (1 <= k - 1) => k - 1 = 0) BY <2>1
  <2>7. \A i \in 1 .. k - 1 : i \in 1 .. k /\ 1 + i - 1 = i /\ i \in 1 .. (k - 1) - 1 + 1 BY <2>1
  <2>8. /\ u \in Seq(S) /\ Len(u) = k - 1
        /\ \A i \in 1 .. k - 1 : u[i] = s[i]
    <3>1. k - 1 \in Int /\ 1 \in Int BY <2>1
    <3>2. \A i \in 1 .. k - 1 : s[i] \in S BY <2>5, <2>7
    <3>3. /\ u \in Seq(S) /\ Len(u) = IF 1 <= k - 1 THEN (k - 1) - 1 + 1 ELSE 0
          /\ \A i \in 1 .. (k - 1) - 1 + 1 : u[i] = s[1 + i - 1]
      BY <2>3, <3>1, <3>2, SubSeqProperties
    <3> QED BY <2>6, <2>7, <3>3
  <2>9. IsSeq(u) BY <2>8 DEF IsSeq
  <2>10. u # s
    <3>1. k - 1 # k BY <2>1
    <3> QED BY <2>1, <2>8, <3>1
  <2>11. \A r : r \in Range(s) <=> \E i \in 1 .. k : r = s[i] BY <2>1, SeqIndexed
  <2>12. \A r : r \in Range(u) <=> \E i \in 1 .. k - 1 : r = u[i] BY <2>8, <2>9, SeqIndexed
  <2>13. \A i \in 1 .. k : i \in 1 .. k - 1 \/ i = k BY <2>1
  <2>14. \A r \in Range(s) : r \in Range(u) \/ r = s[k] BY <2>8, <2>11, <2>12, <2>13
  <2> QED BY <1>1, <2>1, <2>2, <2>9, <2>10, <2>14
<1>2. CASE ~ (s # <<>> /\ s[Len(s)].kind = "cut")
  <2>1. Whole(s) = s BY <1>2 DEF Whole
  <2> QED BY <2>1
<1> QED BY <1>1, <1>2

\* A sequence of records that all have their newline.
Uncut(s) == IsSeq(s) /\ \A r \in Range(s) : r.kind # "cut"

LEMMA UncutJoin ==
    ASSUME NEW s, NEW u, Uncut(s), Uncut(u)
    PROVE  Uncut(s \o u)
  BY SeqJoin DEF Uncut

LEMMA UncutOne ==
    ASSUME NEW kind, NEW id, NEW body, kind # "cut"
    PROVE  Uncut(<<Rec(kind, id, body)>>)
<1>1. PICK e : e = Rec(kind, id, body) OBVIOUS
<1>2. e.kind # "cut" BY <1>1 DEF Rec
<1>3. IsSeq(<<e>>) /\ Len(<<e>>) = 1 /\ <<e>>[1] = e BY SeqOne
<1>4. \A i \in 1 .. 1 : i = 1 OBVIOUS
<1>5. \A r \in Range(<<e>>) : r = e
  <2>1. PICK s : s = <<e>> OBVIOUS
  <2>2. \A r : r \in Range(s) <=> \E i \in 1 .. Len(s) : r = s[i] BY <1>3, <2>1, SeqIndexed
  <2>3. \A r \in Range(s) : \E i \in 1 .. 1 : r = s[i] BY <1>3, <2>1, <2>2
  <2> QED BY <1>3, <1>4, <2>1, <2>3
<1> QED BY <1>1, <1>2, <1>3, <1>5 DEF Uncut

LEMMA UncutEmpty == Uncut(<<>>)
  BY SeqEmpty DEF Uncut

LEMMA UncutFinale == Uncut(Finale)
<1>1. PICK a, b, c : a = Rec("assistant", 0, "") /\ b = Rec("result", 0, "success") /\ c = Rec("lifecycle", 0, "completed") OBVIOUS
<1>2. PICK s : s = <<a, b, c>> OBVIOUS
<1>3. s \in Seq({a, b, c}) /\ Len(s) = 3 BY <1>2
<1>4. IsSeq(s) BY <1>3 DEF IsSeq
<1>5. \A r \in Range(s) : r \in {a, b, c}
  <2>1. \A i \in 1 .. Len(s) : s[i] \in {a, b, c} BY <1>3, ElementOfSeq
  <2> QED BY <1>4, <2>1, SeqIndexed
<1>6. a.kind # "cut" /\ b.kind # "cut" /\ c.kind # "cut" BY <1>1 DEF Rec
<1>7. Finale = s BY <1>1, <1>2 DEF Finale
<1> QED BY <1>4, <1>5, <1>6, <1>7 DEF Uncut

\* The client's answers have their newlines.
LEMMA UncutResponse ==
    ASSUME NEW q
    PROVE  Uncut(Response(q))
<1>1. \A k : Uncut(NextCall(k)) BY UncutOne, UncutFinale DEF NextCall
<1>2. PICK a : a = IF Task /\ q.id \in {4, 5} THEN <<Rec("background", 0, "")>> ELSE <<>> OBVIOUS
<1>3. PICK b : b = IF Task /\ q.id = 4 THEN <<Rec("mcp", HandshakeId(1), Handshake[1])>> ELSE <<>> OBVIOUS
<1>4. PICK c : c = IF q.id < HandshakeId(3) THEN <<Rec("mcp", q.id + 1, Handshake[q.id - 9])>> ELSE <<>> OBVIOUS
<1>5. Uncut(a) /\ Uncut(b) /\ Uncut(c) BY <1>2, <1>3, <1>4, UncutOne, UncutEmpty
<1>6. PICK x : x = <<Rec("reply", q.id, world.replies[q.id])>> OBVIOUS
<1>7. Uncut(x) /\ Uncut(<<Rec("init", 0, "")>>) /\ Uncut(<<Rec("user", 0, "")>>) BY <1>6, UncutOne
<1>8. \/ Response(q) = (x \o a) \o b
      \/ Response(q) = <<Rec("init", 0, "")>> \o NextCall(1)
      \/ Response(q) = c
      \/ Response(q) = <<Rec("user", 0, "")>> \o NextCall(q.id - 19)
      \/ Response(q) = <<>>
  <2>1. CASE q.kind = "control" BY <1>2, <1>3, <1>6, <2>1 DEF Response
  <2>2. CASE q.kind = "user" BY <2>2 DEF Response
  <2>3. CASE q.kind = "answer"
    <3>1. CASE q.id < 20 BY <1>4, <2>3, <3>1 DEF Response
    <3>2. CASE ~ (q.id < 20) BY <2>3, <3>2 DEF Response
    <3> QED BY <3>1, <3>2
  <2>4. CASE q.kind \notin {"control", "user", "answer"} BY <2>4 DEF Response
  <2> QED BY <2>1, <2>2, <2>3, <2>4
<1> QED BY <1>1, <1>5, <1>7, <1>8, UncutJoin, UncutEmpty

\* How the client's end comes through: a record cut short is the last thing it wrote, what was
\* captured to the end leaves nothing on the pipe, and a read returns the end behind everything.
StreamFits ==
    /\ IsSeq(wire) /\ IsSeq(held) /\ IsSeq(recs)
    /\ \A i \in 1 .. Len(wire) : wire[i].kind = "cut" => i = Len(wire) /\ ended
    /\ \A i \in 1 .. Len(held) : held[i].kind = "cut" => i = Len(held) /\ ended /\ wire = <<>>
    /\ captured => ended /\ wire = <<>>
    /\ eof => captured /\ held = <<>>
    /\ clean => ended

\* A step of the client.
LEMMA ClientFits ==
    ASSUME StreamFits, ClientAnswers \/ ClientAdds
    PROVE  StreamFits'
<1>1. ~ ended /\ ~ captured /\ ~ eof /\ ~ clean BY DEF StreamFits, ClientAnswers, ClientAdds
<1>2. UNCHANGED <<held, recs, captured, eof>> BY DEF ClientAnswers, ClientAdds
<1>3. clean' => ended' BY <1>1 DEF ClientAnswers, ClientAdds
<1>4. PICK k \in Nat : k = Len(wire) BY SeqIndexed DEF StreamFits
<1>5. \A i \in 1 .. Len(wire) : wire[i].kind # "cut" BY <1>1 DEF StreamFits
<1>6. \A i \in 1 .. Len(held) : held[i].kind # "cut" BY <1>1 DEF StreamFits
<1>7. IsSeq(wire') /\ \A i \in 1 .. Len(wire') : wire'[i].kind = "cut" => i = Len(wire') /\ ended'
  <2>1. CASE ClientAnswers
    <3>1. PICK u : u = Response(Head(inbox)) OBVIOUS
    <3>2. wire' = wire \o u /\ Uncut(u) BY <2>1, <3>1, UncutResponse DEF ClientAnswers
    <3>3. Uncut(wire) BY <1>5, SeqIndexed DEF Uncut, StreamFits
    <3>4. Uncut(wire') BY <3>2, <3>3, UncutJoin
    <3>5. \A i \in 1 .. Len(wire') : wire'[i] \in Range(wire') BY <3>4, SeqIndexed DEF Uncut
    <3> QED BY <3>4, <3>5 DEF Uncut
  <2>2. CASE ClientAdds /\ wire' = wire BY <1>5, <2>2 DEF StreamFits
  <2>3. CASE ClientAdds /\ wire' # wire
    <3>1. PICK e : e = Head(left) OBVIOUS
    <3>2. wire' = Append(wire, e) /\ (e.kind = "cut" => ended') BY <2>3, <3>1 DEF ClientAdds
    <3>3. /\ IsSeq(wire') /\ Len(wire') = k + 1 /\ wire'[k + 1] = e
          /\ \A i \in 1 .. k : wire'[i] = wire[i]
      BY <1>4, <3>2, SeqAppend DEF StreamFits
    <3>4. \A i \in 1 .. k + 1 : i \in 1 .. k \/ i = k + 1 BY <1>4
    <3>5. \A i \in 1 .. k : wire'[i].kind # "cut" BY <1>4, <1>5, <3>3
    <3>6. \A i \in 1 .. k + 1 : wire'[i].kind = "cut" => i = k + 1 /\ ended' BY <3>2, <3>3, <3>4, <3>5
    <3> QED BY <3>3, <3>6
  <2> QED BY <2>1, <2>2, <2>3
<1> QED BY <1>1, <1>2, <1>3, <1>6, <1>7 DEF StreamFits

\* A step of the host's reads.
LEMMA ReadFits ==
    ASSUME StreamFits, Capture \/ CaptureEnd \/ ReceiveEnd \/ \E part \in BOOLEAN : Receive(part)
    PROVE  StreamFits'
<1>1. CASE Capture
  <2>1. /\ wire # <<>> /\ held' = Append(held, Head(wire)) /\ wire' = Tail(wire)
        /\ UNCHANGED <<recs, ended, clean, captured, eof>>
    BY <1>1 DEF Capture
  <2>2. PICK k \in Nat : k = Len(wire) /\ k >= 1 BY <2>1, SeqIndexed DEF StreamFits
  <2>3. PICK n \in Nat : n = Len(held) BY SeqIndexed DEF StreamFits
  <2>4. ~ captured /\ ~ eof BY <2>1 DEF StreamFits
  <2>5. /\ IsSeq(wire') /\ Len(wire') = k - 1 /\ Head(wire) = wire[1]
        /\ \A i \in 1 .. k - 1 : wire'[i] = wire[i + 1]
    BY <2>1, <2>2, SeqTail DEF StreamFits
  <2>6. /\ IsSeq(held') /\ Len(held') = n + 1 /\ held'[n + 1] = wire[1]
        /\ \A i \in 1 .. n : held'[i] = held[i]
    BY <2>1, <2>3, <2>5, SeqAppend DEF StreamFits
  <2>7. \A i \in 1 .. k : wire[i].kind = "cut" => i = k /\ ended BY <2>2 DEF StreamFits
  <2>8. \A i \in 1 .. n : held[i].kind # "cut" BY <2>1, <2>3 DEF StreamFits
  <2>9. \A i \in 1 .. k - 1 : wire'[i].kind = "cut" => i = k - 1 /\ ended'
    <3>1. \A i \in 1 .. k - 1 : i + 1 \in 1 .. k /\ (i + 1 = k => i = k - 1) BY <2>2
    <3> QED BY <2>1, <2>5, <2>7, <3>1
  <2>10. wire[1].kind = "cut" => ended /\ wire' = <<>>
    <3>1. 1 \in 1 .. k /\ (1 = k => k - 1 = 0) BY <2>2
    <3>2. ASSUME wire[1].kind = "cut" PROVE ended /\ Len(wire') = 0 BY <2>5, <2>7, <3>1, <3>2
    <3>3. wire' # <<>> => Len(wire') >= 1 BY <2>5, SeqIndexed
    <3>4. wire' # <<>> => Len(wire') # 0 BY <3>3
    <3> QED BY <3>2, <3>4
  <2>11. \A i \in 1 .. n + 1 : held'[i].kind = "cut" => i = n + 1 /\ ended' /\ wire' = <<>>
    <3>1. \A i \in 1 .. n + 1 : i \in 1 .. n \/ i = n + 1 BY <2>3
    <3> QED BY <2>1, <2>6, <2>8, <2>10, <3>1
  <2> QED BY <2>1, <2>4, <2>5, <2>6, <2>9, <2>11 DEF StreamFits
<1>2. CASE CaptureEnd BY <1>2 DEF CaptureEnd, StreamFits
<1>3. CASE ReceiveEnd BY <1>3 DEF ReceiveEnd, StreamFits
<1>4. ASSUME NEW part, Receive(part) PROVE StreamFits'
  <2>1. held' = <<>> /\ recs' = recs \o Whole(held) /\ UNCHANGED <<wire, ended, clean, captured, eof>> BY <1>4 DEF Receive
  <2>2. IsSeq(recs') BY <2>1, SeqFramed, SeqJoin DEF StreamFits
  <2>3. IsSeq(held') /\ Len(held') = 0 BY <2>1, SeqEmpty
  <2>4. \A i : i \notin 1 .. 0 OBVIOUS
  <2>5. \A i \in 1 .. Len(held') : FALSE BY <2>3, <2>4
  <2> QED BY <2>1, <2>2, <2>3, <2>5 DEF StreamFits
<1> QED BY <1>1, <1>2, <1>3, <1>4

\* What the conversations do to the stream.
LEMMA TurnFits ==
    ASSUME StreamFits, NEW q,
           Kill \/ Post(q) \/ UNCHANGED streamVars \/ (Framed /\ (Consume \/ ConsumeAndPost(q)))
    PROVE  StreamFits'
<1>1. /\ UNCHANGED <<wire, held, clean, captured, eof>> /\ (ended => ended')
      /\ recs' = recs \/ (recs # <<>> /\ recs' = Tail(recs))
  BY DEF Kill, Post, streamVars, Framed, Consume, ConsumeAndPost
<1>2. IsSeq(recs') BY <1>1, SeqTail DEF StreamFits
<1> QED BY <1>1, <1>2 DEF StreamFits

\* Behind its end the stream stands still.
LEMMA EndStands ==
    ASSUME StreamFits, eof
    PROVE  ~ StreamStep
  BY DEF StreamFits, StreamStep, ClientAnswers, ClientAdds, Capture, CaptureEnd, ReceiveEnd, Receive

-----------------------------------------------------------------------------
\* The arithmetic of the budgets, on its own.
LEMMA PostFits ==
    ASSUME NEW spent \in Nat, NEW n \in 5 .. 7, NEW post, post = n - 5, NEW reserve \in Nat, reserve >= 3, NEW input \in Nat
    PROVE  /\ post \in Nat /\ ~ (post + 1 > reserve) /\ post + 1 = n - 4
           /\ spent + reserve <= input + post => ~ (spent + 1 > input) /\ (spent + 1) + reserve <= input + (post + 1)
  OBVIOUS

LEMMA ReplyFits ==
    ASSUME NEW spent \in Nat, NEW most \in Nat, NEW cost \in 1 .. most, NEW reserve \in Nat, NEW input \in Nat,
           spent + most + reserve <= input
    PROVE  cost \in Nat /\ spent + cost \in Nat /\ ~ (spent + cost > input) /\ (spent + cost) + reserve <= input + 0
           /\ spent + reserve <= input + 0 /\ ~ (0 > reserve)
  OBVIOUS

LEMMA Within ==
    ASSUME NEW x \in Nat, NEW y \in Nat
    PROVE  /\ x + 1 \in Nat /\ (~ (x > y) => x <= y) /\ (~ (x + 1 > y) => x + 1 <= y)
           /\ (x <= y => ~ (x > y))
  OBVIOUS

\* A control is paid from the startup or, behind the result, from what was reserved for it.
LEMMA AskPaid ==
    ASSUME NEW d, Good(d), Funds(d), d.at = "control", world.input \in Nat
    PROVE  Paid(d, Written([d EXCEPT !.at = "await"], 1, IF d.accepted THEN "post" ELSE "startup"))
<1>1. PICK e : e = [d EXCEPT !.at = "await"] OBVIOUS
<1>2. PICK b : b = IF d.accepted THEN "post" ELSE "startup" OBVIOUS
<1>3. /\ e.at = "await" /\ e.n = d.n /\ e.boot = d.boot /\ e.accepted = d.accepted /\ e.calls = d.calls
      /\ e.spent = d.spent /\ e.startup = d.startup /\ e.post = d.post /\ e.why = d.why /\ Good(e)
  BY <1>1 DEF Good, Fields
<1>4. d.spent \in Nat /\ d.startup \in Nat /\ d.startup <= StartupInput /\ d.why # "bound" BY DEF Funds
<1>5. d.n \in 1 .. 7 /\ d.calls \in Nat BY DEF Good
<1>6. PICK f : f = Written(e, 1, b) OBVIOUS
<1>7. CASE d.n <= 4
  <2>1. b = "startup" /\ d.post = 0 /\ d.accepted = FALSE BY <1>2, <1>7 DEF Funds
  <2>2. ~ (d.n >= 5) BY <1>5, <1>7
  <2>3. ~ Past(d) BY <2>2 DEF Past
  <2>4. ~ (d.calls > 0) BY <2>3 DEF Funds
  <2>5. d.calls = 0 BY <1>5, <2>4
  <2>6. /\ f.n = d.n /\ f.calls = d.calls /\ f.boot = d.boot /\ f.accepted = d.accepted
        /\ f.spent = d.spent + 1 /\ f.startup = d.startup + 1 /\ f.post = 0
        /\ \/ f.at = "await" /\ f.why = d.why /\ ~ (f.startup > StartupInput)
           \/ f.at = "refused" /\ f.why = "bound"
    <3>1. e.spent \in Nat /\ e.startup \in Nat /\ e.post \in Nat /\ 1 \in Nat BY <1>3, <1>4, <2>1
    <3> QED BY <1>3, <1>6, <2>1, <3>1, WrittenSpends
  <2>7. ASSUME f.at = "refused" /\ f.why = "bound" PROVE Paid(d, f)
    <3>1. f.calls = 0 BY <2>5, <2>6
    <3> QED BY <2>7, <3>1 DEF Paid, Funds
  <2>8. ASSUME f.at = "await" /\ f.why = d.why /\ ~ (f.startup > StartupInput) PROVE Paid(d, f)
    <3>1. f.spent = d.spent + 1 /\ f.startup = d.startup + 1 /\ ~ (f.startup > StartupInput) BY <2>6, <2>8
    <3>2. f.spent \in Nat /\ f.startup \in Nat /\ f.startup <= StartupInput BY <1>4, <3>1, InputAssumption, Within
    <3>3. ~ (f.calls > 0) /\ f.n <= 4 /\ ~ (f.n >= 5) /\ f.post = 0 BY <1>7, <2>2, <2>4, <2>6
    <3>4. f.accepted = FALSE /\ f.why # "bound" BY <1>4, <2>1, <2>6, <2>8
    <3> QED BY <2>8, <3>2, <3>3, <3>4 DEF Paid, Funds, Past
  <2> QED BY <1>1, <1>2, <1>6, <2>6, <2>7, <2>8
<1>8. CASE d.n >= 5
  <2>1. b = "post" /\ d.post = d.n - 5 /\ d.accepted = TRUE BY <1>2, <1>8 DEF Funds
  <2>2. d.n \in 5 .. 7 BY <1>5, <1>8
  <2>3. PICK reserve \in Nat : reserve = PostInput /\ reserve >= 3 BY InputAssumption
  <2>4. /\ d.post \in Nat /\ ~ (d.post + 1 > reserve) /\ d.post + 1 = d.n - 4
        /\ d.spent + reserve <= world.input + d.post =>
             ~ (d.spent + 1 > world.input) /\ (d.spent + 1) + reserve <= world.input + (d.post + 1)
    BY <1>4, <2>1, <2>2, <2>3, PostFits
  <2>5. d.calls > 0 => d.spent + reserve <= world.input + d.post BY <2>3 DEF Funds
  <2>6. /\ f.n = d.n /\ f.calls = d.calls /\ f.boot = d.boot /\ f.accepted = d.accepted
        /\ f.spent = d.spent + 1 /\ f.startup = d.startup /\ f.post = d.post + 1
        /\ \/ f.at = "await" /\ f.why = d.why
           \/ /\ f.at = "refused" /\ f.why = "bound"
              /\ f.spent > world.input \/ f.startup > StartupInput \/ f.post > PostInput
    <3>1. e.spent \in Nat /\ e.startup \in Nat /\ e.post \in Nat /\ 1 \in Nat BY <1>3, <1>4, <2>4
    <3> QED BY <1>3, <1>6, <2>1, <3>1, WrittenSpends
  <2>7. ASSUME /\ f.at = "refused" /\ f.why = "bound"
               /\ f.spent > world.input \/ f.startup > StartupInput \/ f.post > PostInput
        PROVE  Paid(d, f)
    <3>1. ~ (f.startup > StartupInput) /\ ~ (f.post > PostInput)
      <4>1. ~ (d.startup > StartupInput) BY <1>4, InputAssumption, Within
      <4>2. f.startup = d.startup /\ f.post = d.post + 1 BY <2>6
      <4> QED BY <2>3, <2>4, <4>1, <4>2
    <3>2. f.spent > world.input BY <2>7, <3>1
    <3>3. f.spent = d.spent + 1 /\ f.calls = d.calls BY <2>6
    <3>4. ~ (d.calls > 0) BY <2>4, <2>5, <3>2, <3>3
    <3>5. d.calls = 0 BY <1>5, <3>4
    <3>6. f.calls = 0 BY <3>3, <3>5
    <3> QED BY <2>7, <3>6 DEF Paid, Funds
  <2>8. ASSUME f.at = "await" /\ f.why = d.why PROVE Paid(d, f)
    <3>1. f.spent \in Nat /\ f.startup \in Nat /\ f.startup <= StartupInput
      <4>1. f.spent = d.spent + 1 /\ f.startup = d.startup BY <2>6
      <4> QED BY <1>4, <4>1, Within
    <3>2. f.n >= 5 /\ ~ (f.n <= 4) /\ f.post = f.n - 4 BY <1>5, <1>8, <2>4, <2>6
    <3>3. f.calls > 0 => f.spent + PostInput <= world.input + f.post BY <2>3, <2>4, <2>5, <2>6
    <3>4. f.accepted = TRUE /\ f.why # "bound" BY <1>4, <2>1, <2>6, <2>8
    <3>5. Past(d) BY <1>8 DEF Past
    <3> QED BY <2>8, <3>1, <3>2, <3>3, <3>4, <3>5 DEF Paid, Funds, Past
  <2> QED BY <1>1, <1>2, <1>6, <2>6, <2>7, <2>8
<1> QED BY <1>5, <1>7, <1>8

\* The user message is paid from the startup, before any call.
LEMMA IntendPaid ==
    ASSUME NEW d, Good(d), Funds(d), d.at = "quiet"
    PROVE  Paid(d, Written([d EXCEPT !.st = "dispatched", !.at = "intended"], 1, "startup"))
<1>1. PICK e : e = [d EXCEPT !.st = "dispatched", !.at = "intended"] OBVIOUS
<1>3. /\ e.at = "intended" /\ e.n = d.n /\ e.boot = d.boot /\ e.accepted = d.accepted /\ e.calls = d.calls
      /\ e.spent = d.spent /\ e.startup = d.startup /\ e.post = d.post /\ e.why = d.why
  BY <1>1 DEF Good, Fields
<1>2. Good(e)
  <2>1. d.n = 4 BY DEF Funds
  <2> QED BY <1>1, <1>3, <2>1 DEF Good, Fields
<1>4. d.spent \in Nat /\ d.startup \in Nat /\ d.why # "bound" /\ d.boot = TRUE BY DEF Funds
<1>5. d.n = 4 /\ d.n <= 4 /\ ~ (d.n >= 5)
  <2>1. d.n = 4 BY DEF Funds
  <2> QED BY <2>1
<1>6. PICK f : f = Written(e, 1, "startup") OBVIOUS
<1>7. d.post = 0 /\ d.accepted = FALSE BY <1>5 DEF Funds
<1>8. ~ (d.calls > 0)
  <2>1. ~ Past(d) BY <1>5 DEF Past
  <2> QED BY <2>1 DEF Funds
<1>9. d.calls = 0 BY <1>8 DEF Good
<1>10. /\ f.n = d.n /\ f.calls = d.calls /\ f.boot = d.boot /\ f.accepted = d.accepted
       /\ f.spent = d.spent + 1 /\ f.startup = d.startup + 1 /\ f.post = 0
       /\ \/ f.at = "intended" /\ f.why = d.why /\ ~ (f.startup > StartupInput)
          \/ f.at = "refused" /\ f.why = "bound"
  <2>1. e.spent \in Nat /\ e.startup \in Nat /\ e.post \in Nat /\ 1 \in Nat BY <1>3, <1>4, <1>7
  <2> QED BY <1>2, <1>3, <1>6, <1>7, <2>1, WrittenSpends
<1>11. ASSUME f.at = "refused" /\ f.why = "bound" PROVE Paid(d, f)
  <2>1. f.calls = 0 BY <1>9, <1>10
  <2> QED BY <1>11, <2>1 DEF Paid, Funds
<1>12. ASSUME f.at = "intended" /\ f.why = d.why /\ ~ (f.startup > StartupInput) PROVE Paid(d, f)
  <2>1. f.spent = d.spent + 1 /\ f.startup = d.startup + 1 /\ ~ (f.startup > StartupInput) BY <1>10, <1>12
  <2>2. f.spent \in Nat /\ f.startup \in Nat /\ f.startup <= StartupInput BY <1>4, <2>1, InputAssumption, Within
  <2>3. ~ (f.calls > 0) /\ f.n = 4 /\ ~ (f.n >= 5) /\ f.post = 0 BY <1>5, <1>8, <1>10
  <2>4. f.accepted = FALSE /\ f.why # "bound" /\ f.boot = TRUE BY <1>4, <1>7, <1>10, <1>12
  <2> QED BY <1>12, <2>2, <2>3, <2>4 DEF Paid, Funds, Past
<1> QED BY <1>1, <1>6, <1>10, <1>11, <1>12

\* The reply to a call is within what was reserved for it, and leaves what follows the result.
LEMMA ReplyPaid ==
    ASSUME NEW d, Good(d), Funds(d), d.at = "worker", NEW cost \in 1 .. MaxReply, world.input \in Nat
    PROVE  /\ Written(d, cost, "reply").at = "worker"
           /\ \A k, x : x \in {"body", "refused"} => Funds([Written(d, cost, "reply") EXCEPT !.done = k, !.at = x])
<1>1. d.spent \in Nat /\ d.startup \in Nat /\ d.startup <= StartupInput /\ d.why # "bound" /\ d.boot = TRUE
      /\ d.spent + MaxReply + PostInput <= world.input
  BY DEF Funds
<1>2. d.n = 4 /\ d.n <= 4 /\ ~ (d.n >= 5)
  <2>1. d.n = 4 BY DEF Funds
  <2> QED BY <2>1
<1>3. d.post = 0 /\ d.accepted = FALSE BY <1>2 DEF Funds
<1>4. PICK reserve \in Nat : reserve = PostInput BY InputAssumption
<1>5. /\ cost \in Nat /\ d.spent + cost \in Nat /\ ~ (d.spent + cost > world.input)
      /\ (d.spent + cost) + reserve <= world.input + 0 /\ ~ (0 > reserve)
  BY <1>1, <1>4, InputAssumption, ReplyFits
<1>6. ~ (d.startup > StartupInput) BY <1>1, InputAssumption, Within
<1>7. PICK e : e = Written(d, cost, "reply") OBVIOUS
<1>8. /\ e.n = d.n /\ e.calls = d.calls /\ e.boot = d.boot /\ e.accepted = d.accepted
      /\ e.spent = d.spent + cost /\ e.startup = d.startup /\ e.post = 0
      /\ \/ e.at = "worker" /\ e.why = d.why
         \/ e.spent > world.input \/ e.startup > StartupInput \/ e.post > PostInput
  <2>1. d.post \in Nat BY <1>3
  <2> QED BY <1>1, <1>3, <1>5, <1>7, <2>1, WrittenSpends
<1>9. e.at = "worker" /\ e.why = d.why BY <1>4, <1>5, <1>6, <1>8
<1>10. Good(e) BY <1>7, WrittenKept
<1>11. ASSUME NEW k, NEW x, x \in {"body", "refused"} PROVE Funds([e EXCEPT !.done = k, !.at = x])
  <2>1. PICK f : f = [e EXCEPT !.done = k, !.at = x] OBVIOUS
  <2>2. /\ f.at = x /\ f.n = e.n /\ f.boot = e.boot /\ f.accepted = e.accepted /\ f.calls = e.calls
        /\ f.spent = e.spent /\ f.startup = e.startup /\ f.post = e.post /\ f.why = e.why
    BY <1>10, <2>1 DEF Good, Fields
  <2>3. f.why # "bound" /\ f.boot = TRUE /\ f.accepted = FALSE BY <1>1, <1>3, <1>8, <1>9, <2>2
  <2>4. f.spent = d.spent + cost /\ f.startup = d.startup /\ f.post = 0 /\ f.n = d.n BY <1>8, <2>2
  <2>5. f.spent \in Nat /\ f.startup \in Nat /\ f.startup <= StartupInput /\ f.n = 4 /\ ~ (f.n >= 5)
    BY <1>1, <1>2, <1>5, <2>4
  <2>6. f.spent + PostInput <= world.input + f.post BY <1>4, <1>5, <2>4
  <2>7. CASE x = "refused" BY <2>1, <2>2, <2>3, <2>7 DEF Funds
  <2>8. CASE x = "body" BY <2>1, <2>2, <2>3, <2>4, <2>5, <2>6, <2>8 DEF Funds, Past
  <2> QED BY <1>11, <2>7, <2>8
<1> QED BY <1>7, <1>9, <1>11

\* A worker begins only with its reply and what follows the result in reserve.
LEMMA GrantPaid ==
    ASSUME NEW d, Good(d), Funds(d), d.at = "barrier", world.input \in Nat,
           d.spent + MaxReply + PostInput <= world.input, NEW k, NEW x \in {"worker", "refused"}
    PROVE  Funds([d EXCEPT !.calls = k, !.at = x])
<1>1. d.spent \in Nat /\ d.startup \in Nat /\ d.startup <= StartupInput /\ d.why # "bound" /\ d.boot = TRUE BY DEF Funds
<1>2. d.n = 4 /\ d.n <= 4 /\ ~ (d.n >= 5)
  <2>1. d.n = 4 BY DEF Funds
  <2> QED BY <2>1
<1>3. d.post = 0 /\ d.accepted = FALSE BY <1>2 DEF Funds
<1>4. d.spent + PostInput <= world.input + 0
  <2>1. PICK spent \in Nat, most \in Nat, reserve \in Nat, input \in Nat :
            spent = d.spent /\ most = MaxReply /\ reserve = PostInput /\ input = world.input
    BY <1>1, InputAssumption
  <2>2. spent + most + reserve <= input BY <2>1
  <2>3. spent + reserve <= input + 0 BY <2>2
  <2> QED BY <2>1, <2>3
<1>5. PICK f : f = [d EXCEPT !.calls = k, !.at = x] OBVIOUS
<1>6. /\ f.at = x /\ f.n = d.n /\ f.boot = d.boot /\ f.accepted = d.accepted
      /\ f.spent = d.spent /\ f.startup = d.startup /\ f.post = d.post /\ f.why = d.why
  BY <1>5 DEF Good, Fields
<1>7. CASE x = "refused" BY <1>1, <1>5, <1>6, <1>7 DEF Funds
<1>8. CASE x = "worker" BY <1>1, <1>2, <1>3, <1>4, <1>5, <1>6, <1>8 DEF Funds, Past
<1> QED BY <1>7, <1>8

-----------------------------------------------------------------------------
\* A record captured behind the conversation's back is harmless, or still in front of it, or it
\* was the last one and was cut.
Known(r) == \/ Harmless(r) \/ r \in Range(held) \/ r \in Range(recs) \/ captured
            \/ torn /\ ended /\ wire = <<>> /\ held = <<>>

Caught == h.at = "running" /\ t.at = "worker" => \A r \in work.caught : Known(r)

\* The turn of a task that was not refused.
Turn ==
    h.at = "running" /\ t.at # "refused" =>
        /\ work.began = t.calls
        /\ Past(t) => sent = 1
        /\ t.at = "drained" => eof /\ recs = <<>> /\ ~ torn

\* A maintenance session: its second observation is behind the pause, and it ends at the end.
Spaced(d) ==
    /\ d = [x \in {"at", "n", "ui", "elapsed"} |-> d[x]]
    /\ world.mode = "observe" /\ d.n = 2 /\ d.at \notin {"spacing", "refused"} => d.elapsed
Session ==
    /\ Spaced(m)
    /\ m.at = "completed" => eof /\ recs = <<>>
    /\ outcome = "joined" => m.at = "completed" /\ clean

\* What a success was given for stays so.
Earned ==
    outcome = "success" =>
        /\ h.at = "over" /\ t.at = "drained" /\ t.calls > 0 /\ t.done = t.calls /\ work.began = t.calls /\ sent = 1
        /\ clean /\ eof /\ recs = <<>> /\ ~ torn

More == world \in Worlds /\ Funds(t) /\ StreamFits /\ Caught /\ Turn /\ Session /\ Earned

\* A step of the conversation that neither sends the message nor grants a call.
LEMMA TurnMore ==
    ASSUME Inv, More, h.at = "running", h'.at = "running", UNCHANGED <<world, outcome, m, sent, work>>,
           t'.calls = t.calls, Funds(t'), t'.at # "refused" => t.at # "refused" /\ (Past(t') => Past(t)),
           t'.at = "worker" => t.at = "worker" /\ (recs' = recs \/ Harmless(Head(recs))),
           t'.at = "drained" => eof /\ recs = <<>> /\ ~ torn,
           NEW q, Kill \/ Post(q) \/ UNCHANGED streamVars \/ (Framed /\ (Consume \/ ConsumeAndPost(q)))
    PROVE  More'
<1>1. StreamFits' BY TurnFits DEF More
<1>2. /\ UNCHANGED <<wire, held, torn, clean, captured, eof>> /\ (ended => ended')
      /\ recs' = recs \/ (recs # <<>> /\ recs' = Tail(recs))
  BY DEF Kill, Post, streamVars, Framed, Consume, ConsumeAndPost
<1>3. Funds(t)' BY DEF Funds
<1>4. Caught'
  <2>1. SUFFICES ASSUME t'.at = "worker", NEW r \in work.caught PROVE Known(r)' BY DEF Caught
  <2>2. Known(r) BY <2>1 DEF More, Caught
  <2>3. CASE r \in Range(recs)
    <3>1. CASE recs' = recs BY <2>3, <3>1 DEF Known
    <3>2. CASE recs' # recs
      <4>1. Harmless(Head(recs)) /\ recs # <<>> /\ recs' = Tail(recs) BY <1>2, <2>1, <3>2
      <4>2. r = Head(recs) \/ r \in Range(recs') BY <2>3, <4>1, SeqTail DEF More, StreamFits
      <4> QED BY <4>1, <4>2 DEF Known, Harmless
    <3> QED BY <3>1, <3>2
  <2> QED BY <1>2, <2>2, <2>3 DEF Known, Harmless
<1>5. Turn'
  <2>1. t'.at = "drained" => eof' /\ recs' = <<>> /\ ~ torn' BY <1>2
  <2> QED BY <2>1 DEF More, Turn, Past
<1>6. Session'
  <2>1. recs = <<>> => recs' = <<>> BY <1>2
  <2> QED BY <1>2, <2>1 DEF More, Session, Spaced
<1>7. Earned' BY DEF More, Earned
<1> QED BY <1>1, <1>3, <1>4, <1>5, <1>6, <1>7 DEF More

\* The check before a step refuses it, or lets it be.
LEMMA CheckedPaid ==
    ASSUME Good(t), NEW d, Paid(t, d)
    PROVE  Paid(t, Checked(d)) /\ (Checked(d).at # "refused" => Checked(d) = d)
  BY RefusePaid DEF Checked

LEMMA HandleAt ==
    ASSUME Inv, NEW b, NEW i, \/ h' = h \/ h' = [h EXCEPT !.silent = b] \/ h' = [h EXCEPT !.intent = i]
    PROVE  h'.at = h.at
  BY DEF Inv, TypeOK, Handles

\* The steps that read, ask, drain and refuse.
LEMMA QuietMore ==
    ASSUME Inv, More, UNCHANGED <<world, outcome, m>>,
           \/ Take \/ StreamEnds \/ Ask \/ CloseStdin \/ DrainEnds \/ WorkerJoined \/ Interrupted \/ ClientKilled
    PROVE  More'
<1>0. Good(t) /\ Funds(t) /\ world.input \in Nat BY InputAssumption DEF Inv, TypeOK, More
<1>1. CASE Take
  <2>1. PICK r : r = Head(recs) OBVIOUS
  <2>2. t' = Checked(Taken(t, r)) /\ t.at \notin {"intended", "drained", "refused"} /\ Framed /\ h.at = "running"
    BY <1>1, <2>1 DEF Take, Active, Ended
  <2>3. Paid(t, Taken(t, r)) /\ Kept(t, Taken(t, r)) BY <1>0, <2>2, TakenPaid, TakenKept
  <2>4. Paid(t, t') /\ Kept(t, t') /\ (t'.at # "refused" => t' = Taken(t, r))
    BY <1>0, <2>2, <2>3, CheckedPaid, CheckedKept
  <2>5. t'.at = "worker" => t.at = "worker" /\ Harmless(Head(recs))
    BY <1>0, <2>1, <2>4, WorkerTakes DEF Paid
  <2>6. \E q : Framed /\ (Consume \/ ConsumeAndPost(q)) BY <1>1, <2>2 DEF Take
  <2>7. UNCHANGED <<sent, work, h>> BY <1>1 DEF Take
  <2> QED BY <2>2, <2>4, <2>5, <2>6, <2>7, TurnMore DEF Paid, Kept
<1>2. CASE StreamEnds
  <2>1. Paid(t, t') /\ Kept(t, t') /\ t'.at = "refused" BY <1>0, <1>2, RefusePaid, RefuseKept DEF StreamEnds
  <2> QED BY <1>2, <2>1, TurnMore DEF Paid, Kept, StreamEnds, Active
<1>3. CASE Ask
  <2>1. PICK f : f = Written([t EXCEPT !.at = "await"], 1, IF t.accepted THEN "post" ELSE "startup") OBVIOUS
  <2>2. t' = Checked(f) /\ h.at = "running" /\ t.at = "control" BY <1>3, <2>1 DEF Ask, Active
  <2>3. Paid(t, f) BY <1>0, <2>1, <2>2, AskPaid
  <2>4. Paid(t, t') BY <1>0, <2>2, <2>3, CheckedPaid
  <2>5. t'.calls = t.calls /\ t'.at \in {"await", "refused"}
    <3>1. PICK e : e = [t EXCEPT !.at = "await"] OBVIOUS
    <3>2. Good(e) /\ e.at = "await" /\ e.calls = t.calls BY <1>0, <3>1 DEF Good, Fields
    <3>5. PICK b : f = Written(e, 1, b) BY <2>1, <3>1
    <3>3. f.calls = t.calls /\ f.at \in {"await", "refused"} BY <3>2, <3>5, WrittenKept
    <3>4. Refuse(t, "check").calls = t.calls /\ Refuse(t, "check").at = "refused" BY <1>0, RefuseKept DEF Kept
    <3> QED BY <2>2, <3>3, <3>4 DEF Checked
  <2>6. \E q : Post(q) \/ UNCHANGED streamVars BY <1>3 DEF Ask
  <2>7. UNCHANGED <<sent, work, h>> BY <1>3 DEF Ask
  <2> QED BY <2>2, <2>4, <2>5, <2>6, <2>7, TurnMore DEF Paid
<1>4. CASE CloseStdin
  <2>1. PICK e : e = [t EXCEPT !.st = "checked", !.at = "drain"] OBVIOUS
  <2>2. t' = Checked(e) /\ h.at = "running" /\ t.at = "last" BY <1>4, <2>1 DEF CloseStdin, Active
  <2>3. /\ e.at = "drain" /\ e.n = t.n /\ e.boot = t.boot /\ e.accepted = t.accepted /\ e.calls = t.calls
        /\ e.spent = t.spent /\ e.startup = t.startup /\ e.post = t.post /\ e.why = t.why
    BY <1>0, <2>1 DEF Good, Fields
  <2>4. Paid(t, e) BY <1>0, <2>2, <2>3 DEF Paid, Funds, Past
  <2>5. Paid(t, t') BY <1>0, <2>2, <2>4, CheckedPaid
  <2>6. t'.calls = t.calls BY <1>0, <2>2, <2>3, RefuseKept DEF Checked, Kept
  <2>7. \E q : Post(q) \/ UNCHANGED streamVars BY <1>4 DEF CloseStdin
  <2>8. UNCHANGED <<sent, work, h>> BY <1>4 DEF CloseStdin
  <2> QED BY <2>2, <2>5, <2>6, <2>7, <2>8, TurnMore DEF Paid
<1>5. CASE DrainEnds
  <2>1. PICK e : e = [t EXCEPT !.at = "drained"] OBVIOUS
  <2>2. /\ t' = Checked(IF torn THEN Refuse(t, "tail") ELSE e) /\ h.at = "running" /\ t.at = "drain" /\ eof /\ recs = <<>>
        /\ UNCHANGED <<streamVars, sent, work, h>>
    BY <1>5, <2>1 DEF DrainEnds, Active, Framed
  <2>3. /\ e.at = "drained" /\ e.n = t.n /\ e.boot = t.boot /\ e.accepted = t.accepted /\ e.calls = t.calls
        /\ e.spent = t.spent /\ e.startup = t.startup /\ e.post = t.post /\ e.why = t.why
    BY <1>0, <2>1 DEF Good, Fields
  <2>4. Funds(e) /\ (Past(e) => Past(t)) BY <1>0, <2>2, <2>3 DEF Funds, Past
  <2>5. /\ Refuse(t, "tail").at = "refused" /\ Funds(Refuse(t, "tail")) /\ Refuse(t, "tail").calls = t.calls
        /\ Refuse(t, "check").at = "refused" /\ Funds(Refuse(t, "check")) /\ Refuse(t, "check").calls = t.calls
    BY <1>0, RefusePaid, RefuseKept DEF Paid, Kept
  <2>6. /\ Funds(t') /\ t'.calls = t.calls /\ t'.at \in {"drained", "refused"}
        /\ t'.at = "drained" => ~ torn /\ (Past(t') => Past(t))
    BY <2>2, <2>3, <2>4, <2>5 DEF Checked
  <2> QED BY <2>2, <2>6, TurnMore
<1>6. CASE WorkerJoined
  <2>1. t' = t /\ h.at = "running" /\ UNCHANGED <<streamVars, sent, work, h>> /\ t.at = "refused"
    BY <1>6 DEF WorkerJoined, Inv, Holds
  <2> QED BY <1>0, <2>1, TurnMore
<1>7. CASE Interrupted
  <2>1. Paid(t, t') /\ Kept(t, t') /\ t'.at = "refused" BY <1>0, <1>7, RefusePaid, RefuseKept DEF Interrupted
  <2> QED BY <1>7, <2>1, TurnMore DEF Paid, Kept, Interrupted, Active
<1>8. CASE ClientKilled
  <2>1. t' = t /\ h.at = "running" /\ UNCHANGED <<sent, work, h>> /\ t.at = "refused" /\ Kill BY <1>8 DEF ClientKilled
  <2> QED BY <1>0, <2>1, TurnMore
<1> QED BY <1>1, <1>2, <1>3, <1>4, <1>5, <1>6, <1>7, <1>8

\* A worker that ends, the intent, and the message itself.
LEMMA WorkerMore ==
    ASSUME Inv, More, UNCHANGED <<world, outcome, m>>, NEW end \in Ends, WorkerEnds(end)
    PROVE  More'
<1>0. Good(t) /\ Funds(t) BY DEF Inv, TypeOK, More
<1>1. h.at = "running" /\ UNCHANGED <<streamVars, sent, work>> BY DEF WorkerEnds, Inv, Holds
<1>2. h'.at = "running"
  <2>1. PICK b : h' = [h EXCEPT !.silent = b] BY DEF WorkerEnds
  <2> QED BY <1>1, <2>1, HandleAt
<1>3. CASE t' = t
  <2>1. UNCHANGED recs BY <1>1 DEF streamVars
  <2>2. t.at = "drained" => eof /\ recs = <<>> /\ ~ torn BY <1>1 DEF More, Turn
  <2> QED BY <1>0, <1>1, <1>2, <1>3, <2>1, <2>2, TurnMore
<1>4. CASE t' # t
  <2>1. t' = Refuse(t, "worker") BY <1>4 DEF WorkerEnds
  <2>2. Paid(t, t') /\ Kept(t, t') /\ t'.at = "refused" BY <1>0, <2>1, RefusePaid, RefuseKept
  <2> QED BY <1>1, <1>2, <2>2, TurnMore DEF Paid, Kept
<1> QED BY <1>3, <1>4

LEMMA IntendMore ==
    ASSUME Inv, More, UNCHANGED <<world, outcome, m>>, Intend
    PROVE  More'
<1>0. Good(t) /\ Funds(t) BY DEF Inv, TypeOK, More
<1>1. h.at = "running" /\ UNCHANGED <<streamVars, sent, work>> /\ t.at = "quiet" BY DEF Intend, Active
<1>2. h'.at = "running"
  <2>1. PICK b : h' = h \/ h' = [h EXCEPT !.silent = b] BY DEF Intend
  <2> QED BY <1>1, <2>1, HandleAt
<1>3. PICK e : e = [t EXCEPT !.st = "dispatched", !.at = "intended"] OBVIOUS
<1>4. PICK d : d = Written(e, 1, "startup") OBVIOUS
<1>5. Paid(t, d) BY <1>0, <1>1, <1>3, <1>4, IntendPaid
<1>6. Good(e) /\ e.at = "intended" /\ e.calls = t.calls
  <2>1. t.n = 4 BY <1>0, <1>1 DEF Good
  <2> QED BY <1>0, <1>3, <2>1 DEF Good, Fields
<1>7. Good(d) /\ d.calls = t.calls /\ d.at \in {"intended", "refused"} BY <1>4, <1>6, WrittenKept
<1>8. t' \in {d, Refuse(t, "check"), Refuse(d, "intent")} BY <1>3, <1>4 DEF Intend, Checked
<1>9. /\ Refuse(t, "check").at = "refused" /\ Paid(t, Refuse(t, "check")) /\ Refuse(t, "check").calls = t.calls
      /\ Refuse(d, "intent").at = "refused" /\ Paid(d, Refuse(d, "intent")) /\ Refuse(d, "intent").calls = d.calls
  BY <1>0, <1>7, RefusePaid, RefuseKept DEF Kept
<1>10. /\ Funds(t') /\ t'.calls = t.calls /\ t'.at \in {"intended", "refused"}
       /\ t'.at # "refused" => (Past(t') => Past(t))
  BY <1>5, <1>7, <1>8, <1>9 DEF Paid
<1> QED BY <1>1, <1>2, <1>10, TurnMore

LEMMA SendMore ==
    ASSUME Inv, More, UNCHANGED <<world, outcome, m>>, Send
    PROVE  More'
<1>0. Good(t) /\ Funds(t) BY DEF Inv, TypeOK, More
<1>1. h.at = "running" /\ t.at = "intended" /\ UNCHANGED work BY DEF Send, Active
<1>2. h'.at = "running" BY <1>1, HandleAt DEF Send
<1>3. CASE ~ Check
  <2>1. UNCHANGED <<streamVars, sent>> /\ t' = Refuse(t, "check") BY <1>3 DEF Send, Checked
  <2>2. Paid(t, t') /\ Kept(t, t') /\ t'.at = "refused" BY <1>0, <2>1, RefusePaid, RefuseKept
  <2> QED BY <1>1, <1>2, <2>1, <2>2, TurnMore DEF Paid, Kept
<1>4. CASE Check
  <2>1. t' = [t EXCEPT !.at = "body"] /\ sent' = sent + 1 /\ Post(Req("user", 0)) BY <1>4 DEF Send, Checked
  <2>2. /\ t'.at = "body" /\ t'.n = t.n /\ t'.boot = t.boot /\ t'.accepted = t.accepted /\ t'.calls = t.calls
        /\ t'.spent = t.spent /\ t'.startup = t.startup /\ t'.post = t.post /\ t'.why = t.why
    BY <1>0, <2>1 DEF Good, Fields
  <2>3. Funds(t)' BY <1>0, <1>1, <2>2 DEF Funds, Past
  <2>4. StreamFits' BY <2>1, TurnFits DEF More
  <2>5. UNCHANGED <<recs, eof, clean>> BY <2>1 DEF Post
  <2>6. sent' = 1
    <3>1. t.n = 4 BY <1>0, <1>1 DEF Good
    <3>2. ~ After(t) BY <1>1, <3>1 DEF After
    <3>3. sent = 0 BY <1>1, <3>2 DEF Inv, Account, TaskFits
    <3> QED BY <2>1, <3>3
  <2>7. Turn' BY <1>1, <2>2, <2>6 DEF More, Turn
  <2>8. Caught' BY <2>2 DEF Caught
  <2>9. Session' BY <2>5 DEF More, Session, Spaced
  <2>10. Earned' BY <1>1 DEF More, Earned
  <2> QED BY <2>3, <2>4, <2>7, <2>8, <2>9, <2>10 DEF More
<1> QED BY <1>3, <1>4

\* A call is granted with nothing captured that was not read.
LEMMA GrantMore ==
    ASSUME Inv, More, UNCHANGED <<world, outcome, m>>, Grant
    PROVE  More'
<1>0. Good(t) /\ Funds(t) /\ world.input \in Nat BY InputAssumption DEF Inv, TypeOK, More
<1>1. h.at = "running" /\ t.at = "barrier" /\ UNCHANGED <<streamVars, sent>> BY DEF Grant, Active
<1>2. CASE ~ Check \/ t.over \/ ~ Reserved
  <2>1. UNCHANGED <<h, work>> /\ t' = Checked(Refuse(t, "reserve")) BY <1>2 DEF Grant
  <2>2. Paid(t, t') /\ Kept(t, t') /\ t'.at = "refused" BY <1>0, <2>1, RefusePaid, RefuseKept DEF Checked
  <2> QED BY <1>1, <2>1, <2>2, TurnMore DEF Paid, Kept
<1>3. CASE ~ (~ Check \/ t.over \/ ~ Reserved)
  <2>1. PICK f \in Flaky :
            /\ Observes(f, [record EXCEPT !.started = t.calls + 1]) \/ ObservesNothing(f)
            /\ t' = [t EXCEPT !.calls = @ + 1, !.at = IF Retained(f) THEN "worker" ELSE "refused"]
            /\ work' = IF Retained(f) THEN [began |-> work.began + 1, caught |-> {}] ELSE work
    BY <1>3 DEF Grant
  <2>2. h'.at = "running"
    <3>1. PICK b : h' = h \/ h' = [h EXCEPT !.silent = b] BY <2>1 DEF Observes, ObservesNothing
    <3> QED BY <1>1, <3>1, HandleAt
  <2>3. PICK k : k = t.calls + 1 OBVIOUS
  <2>4. PICK x \in {"worker", "refused"} : /\ t' = [t EXCEPT !.calls = k, !.at = x] /\ (x = "worker" <=> Retained(f))
    BY <2>1, <2>3
  <2>5. t.spent + MaxReply + PostInput <= world.input BY <1>3 DEF Reserved
  <2>6. Funds(t)'
    <3>1. Funds([t EXCEPT !.calls = k, !.at = x]) BY <1>0, <1>1, <2>5, GrantPaid
    <3> QED BY <2>4, <3>1 DEF Funds
  <2>7. t'.at = x /\ t'.calls = k BY <1>0, <2>4 DEF Good, Fields
  <2>8. StreamFits' BY <1>1, TurnFits DEF More
  <2>9. Caught'
    <3>1. x = "worker" => work'.caught = {} BY <2>1, <2>4
    <3> QED BY <2>7, <3>1 DEF Caught
  <2>10. Turn'
    <3>1. x = "worker" => work'.began = work.began + 1 BY <2>1, <2>4
    <3>2. work.began = t.calls /\ sent = 1 BY <1>1 DEF More, Turn, Past
    <3> QED BY <1>1, <2>3, <2>7, <3>1, <3>2 DEF Turn
  <2>11. Session' BY <1>1 DEF More, Session, Spaced, streamVars
  <2>12. Earned' BY <1>1 DEF More, Earned
  <2> QED BY <2>6, <2>8, <2>9, <2>10, <2>11, <2>12 DEF More
<1> QED BY <1>2, <1>3

\* A reply is never refused for its input.
LEMMA ReplyMore ==
    ASSUME Inv, More, UNCHANGED <<world, outcome, m>>, NEW cost \in 1 .. MaxReply, Reply(cost)
    PROVE  More'
<1>0. Good(t) /\ Funds(t) /\ world.input \in Nat BY InputAssumption DEF Inv, TypeOK, More
<1>1. h.at = "running" /\ t.at = "worker" /\ UNCHANGED <<work, sent>> BY DEF Reply, Active
<1>2. PICK d : d = Written(t, cost, "reply") OBVIOUS
<1>3. /\ d.at = "worker" /\ Good(d) /\ d.calls = t.calls
      /\ \A k, x : x \in {"body", "refused"} => Funds([d EXCEPT !.done = k, !.at = x])
  BY <1>0, <1>1, <1>2, ReplyPaid, WrittenKept
<1>4. CASE ~ Check
  <2>1. UNCHANGED <<streamVars, h>> /\ t' = Refuse(t, "check") BY <1>2, <1>4 DEF Reply, Checked
  <2>2. Paid(t, t') /\ Kept(t, t') /\ t'.at = "refused" BY <1>0, <2>1, RefusePaid, RefuseKept
  <2> QED BY <1>1, <2>1, <2>2, TurnMore DEF Paid, Kept
<1>5. CASE Check
  <2>1. PICK f \in Flaky :
            /\ Observes(f, [record EXCEPT !.completed = t.done + 1]) \/ ObservesNothing(f)
            /\ t' = [d EXCEPT !.done = @ + 1, !.at = IF Retained(f) THEN "body" ELSE "refused"]
    BY <1>2, <1>3, <1>5 DEF Reply
  <2>2. h'.at = "running"
    <3>1. PICK b : h' = h \/ h' = [h EXCEPT !.silent = b] BY <2>1 DEF Observes, ObservesNothing
    <3> QED BY <1>1, <3>1, HandleAt
  <2>3. PICK k, x : x \in {"body", "refused"} /\ t' = [d EXCEPT !.done = k, !.at = x] BY <2>1
  <2>4. Funds(t') BY <1>3, <2>3
  <2>5. t'.at = x /\ t'.calls = t.calls BY <1>3, <2>3 DEF Good, Fields
  <2>6. Past(t) BY <1>1 DEF Past
  <2>7. \E q : Post(q) BY <1>2, <1>3, <1>5 DEF Reply
  <2> QED BY <1>1, <2>2, <2>3, <2>4, <2>5, <2>6, <2>7, TurnMore
<1> QED BY <1>4, <1>5

LEMMA TransactionMore ==
    ASSUME Inv, More, TransactionStep, UNCHANGED <<m, outcome, world>>
    PROVE  More'
<1>1. CASE Take \/ StreamEnds \/ Ask \/ CloseStdin \/ DrainEnds \/ WorkerJoined \/ Interrupted \/ ClientKilled
  BY <1>1, QuietMore
<1>2. CASE Intend BY <1>2, IntendMore
<1>3. CASE Send BY <1>3, SendMore
<1>4. CASE Grant BY <1>4, GrantMore
<1>5. ASSUME NEW cost \in 1 .. MaxReply, Reply(cost) PROVE More' BY <1>5, ReplyMore
<1>6. ASSUME NEW end \in Ends, WorkerEnds(end) PROVE More' BY <1>6, WorkerMore
<1> QED BY <1>1, <1>2, <1>3, <1>4, <1>5, <1>6 DEF TransactionStep

-----------------------------------------------------------------------------
\* What a read frames stays known, and what is captured is known from then on.
LEMMA CaughtStands ==
    ASSUME StreamFits, StreamStep, NEW r, Known(r)
    PROVE  Known(r)'
<1>1. CASE Harmless(r) BY <1>1 DEF Known, Harmless
<1>2. CASE ClientAnswers \/ ClientAdds
  <2>1. ~ ended /\ UNCHANGED <<held, recs, captured>> BY <1>2 DEF ClientAnswers, ClientAdds
  <2>2. Harmless(r) \/ r \in Range(held) \/ r \in Range(recs) \/ captured BY <2>1 DEF Known
  <2> QED BY <1>1, <2>1, <2>2 DEF Known
<1>3. CASE Capture
  <2>1. PICK e : e = Head(wire) OBVIOUS
  <2>2. wire # <<>> /\ held' = Append(held, e) /\ UNCHANGED <<recs, captured>> BY <1>3, <2>1 DEF Capture
  <2>3. r \in Range(held) => r \in Range(held') BY <2>2, SeqAppend DEF StreamFits
  <2> QED BY <1>1, <2>2, <2>3 DEF Known
<1>4. CASE CaptureEnd BY <1>4 DEF CaptureEnd, Known
<1>5. CASE ReceiveEnd BY <1>1, <1>5 DEF ReceiveEnd, Known
<1>6. ASSUME NEW part, Receive(part) PROVE Known(r)'
  <2>1. PICK u : u = Whole(held) OBVIOUS
  <2>2. /\ held # <<>> /\ held' = <<>> /\ recs' = recs \o u /\ torn' = (part \/ u # held)
        /\ UNCHANGED <<wire, captured, ended>>
    BY <1>6, <2>1 DEF Receive
  <2>3. /\ IsSeq(u)
        /\ \A x \in Range(held) : x \in Range(u) \/ (x.kind = "cut" /\ x = held[Len(held)] /\ u # held)
    BY <2>1, SeqFramed DEF StreamFits
  <2>4. Range(recs') = Range(recs) \cup Range(u) BY <2>2, <2>3, SeqJoin DEF StreamFits
  <2>5. CASE r \in Range(held) /\ r \notin Range(u)
    <3>1. r.kind = "cut" /\ r = held[Len(held)] /\ u # held BY <2>3, <2>5
    <3>2. PICK k \in Nat : k = Len(held) /\ k >= 1 BY <2>2, SeqIndexed DEF StreamFits
    <3>3. k \in 1 .. k BY <3>2
    <3>4. ended /\ wire = <<>> BY <3>1, <3>2, <3>3 DEF StreamFits
    <3> QED BY <2>2, <3>1, <3>4 DEF Known
  <2> QED BY <1>1, <2>2, <2>4, <2>5 DEF Known
<1> QED BY <1>2, <1>3, <1>4, <1>5, <1>6 DEF StreamStep

LEMMA StreamsMore ==
    ASSUME Inv, More, UNCHANGED world, Streams
    PROVE  More'
<1>0. StreamStep /\ UNCHANGED <<t, worker, h, sent, m, outcome>> BY DEF Streams
<1>1. StreamFits' BY <1>0, ClientFits, ReadFits DEF More, StreamStep
<1>2. ~ eof BY <1>0, EndStands DEF More
<1>3. DOMAIN work = {"began", "caught"} BY DEF Inv, TypeOK
<1>4. PICK c : /\ work' = work \/ work' = [work EXCEPT !.caught = work.caught \cup c]
               /\ c = (IF Len(held') > Len(held) THEN {Head(wire)} ELSE {})
                      \cup (IF captured' # captured THEN {Rec("end", 0, "")} ELSE {})
  BY DEF Streams
<1>5. work'.began = work.began /\ \A r \in work'.caught : r \in work.caught \/ r \in c BY <1>3, <1>4
<1>6. ASSUME NEW r \in c PROVE Known(r)'
  <2>1. CASE captured' # captured
    <3>1. captured' BY <1>0, <2>1 DEF StreamStep, ClientAnswers, ClientAdds, Capture, CaptureEnd, ReceiveEnd, Receive
    <3> QED BY <3>1 DEF Known
  <2>2. CASE captured' = captured
    <3>1. Len(held') > Len(held) /\ r = Head(wire) BY <1>4, <1>6, <2>2
    <3>2. PICK n \in Nat : n = Len(held) BY SeqIndexed DEF More, StreamFits
    <3>3. held' # held /\ held' # <<>>
      <4>1. ~ (n > n) /\ ~ (0 > n) BY <3>2
      <4> QED BY <3>1, <3>2, <4>1, SeqEmpty
    <3>4. held' = Append(held, r)
      BY <1>0, <3>1, <3>3 DEF StreamStep, ClientAnswers, ClientAdds, Capture, CaptureEnd, ReceiveEnd, Receive
    <3>5. r \in Range(held') BY <3>4, SeqAppend DEF More, StreamFits
    <3> QED BY <3>5 DEF Known
  <2> QED BY <2>1, <2>2
<1>7. Caught'
  <2>1. SUFFICES ASSUME h.at = "running", t.at = "worker", NEW r \in work'.caught PROVE Known(r)' BY <1>0 DEF Caught
  <2>2. CASE r \in work.caught
    <3>1. Known(r) BY <2>1, <2>2 DEF More, Caught
    <3> QED BY <1>0, <3>1, CaughtStands DEF More
  <2> QED BY <1>5, <1>6, <2>1, <2>2
<1>8. Turn' BY <1>0, <1>2, <1>5 DEF More, Turn, Past
<1>9. Session' BY <1>0, <1>2 DEF More, Session, Spaced
<1>10. Earned' BY <1>0, <1>2 DEF More, Earned
<1>11. Funds(t)' BY <1>0 DEF More, Funds, Past
<1> QED BY <1>1, <1>7, <1>8, <1>9, <1>10, <1>11 DEF More

-----------------------------------------------------------------------------
\* A record that a maintenance session takes.
LEMMA MTakenSpaced ==
    ASSUME NEW d, NEW r, Spaced(d), d.at # "completed"
    PROVE  Spaced(MTaken(d, r)) /\ MTaken(d, r).at # "completed"
<1>1. /\ Spaced(MRefuse(d)) /\ MRefuse(d).at # "completed" BY DEF Spaced, MRefuse
<1>2. ASSUME d.at = "response" PROVE Spaced(Observed(d, r)) /\ Observed(d, r).at # "completed"
  <2>1. PICK v : v = Verdict(r, d.n) OBVIOUS
  <2>2. CASE v = "match"
    <3>1. PICK e : e = [d EXCEPT !.at = "closing"] OBVIOUS
    <3>2. Observed(d, r) = e BY <2>1, <2>2, <3>1 DEF Observed
    <3>3. Spaced(e) /\ e.at = "closing" BY <1>2, <3>1 DEF Spaced
    <3> QED BY <3>2, <3>3
  <2>3. CASE v = "ambiguous" /\ world.mode = "observe" /\ d.n = 1
    <3>1. PICK e : e = [d EXCEPT !.n = 2, !.at = "spacing"] OBVIOUS
    <3>2. Observed(d, r) = e BY <2>1, <2>3, <3>1 DEF Observed
    <3>3. Spaced(e) /\ e.at = "spacing" BY <3>1 DEF Spaced
    <3> QED BY <3>2, <3>3
  <2>4. CASE v # "match" /\ ~ (v = "ambiguous" /\ world.mode = "observe" /\ d.n = 1)
    <3>1. Observed(d, r) = MRefuse(d) BY <2>1, <2>4 DEF Observed
    <3> QED BY <1>1, <3>1
  <2> QED BY <2>2, <2>3, <2>4
<1>2q. ASSUME d.at = "response", world.mode = "qualify" PROVE Spaced(Qualified(d, r)) /\ Qualified(d, r).at # "completed"
  <2>1. PICK v : v = Verdict(r, d.n) OBVIOUS
  <2>2. CASE v = "match" /\ d.n < 3
    <3>1. PICK e : e = [d EXCEPT !.n = @ + 1, !.at = "write"] OBVIOUS
    <3>2. Qualified(d, r) = e BY <2>1, <2>2, <3>1 DEF Qualified
    <3>3. Spaced(e) /\ e.at = "write" BY <1>2q, <3>1 DEF Spaced
    <3> QED BY <3>2, <3>3
  <2>3. CASE v = "match" /\ ~ (d.n < 3)
    <3>1. PICK e : e = [d EXCEPT !.at = "closing"] OBVIOUS
    <3>2. Qualified(d, r) = e BY <2>1, <2>3, <3>1 DEF Qualified
    <3>3. Spaced(e) /\ e.at = "closing" BY <1>2q, <3>1 DEF Spaced
    <3> QED BY <3>2, <3>3
  <2>4. CASE v # "match"
    <3>1. Qualified(d, r) = MRefuse(d) BY <2>1, <2>4 DEF Qualified
    <3> QED BY <1>1, <3>1
  <2> QED BY <2>2, <2>3, <2>4
<1>3. PICK e : e = [d EXCEPT !.ui = @ + 1] OBVIOUS
<1>4. Spaced(e) /\ e.at # "completed" BY <1>3 DEF Spaced
<1>5. \/ MTaken(d, r) = d \/ MTaken(d, r) = MRefuse(d) \/ MTaken(d, r) = e
      \/ d.at = "response" /\ MTaken(d, r) = Observed(d, r)
      \/ d.at = "response" /\ world.mode = "qualify" /\ MTaken(d, r) = Qualified(d, r)
  BY <1>3 DEF MTaken
<1> QED BY <1>1, <1>2, <1>4, <1>5, <1>2q

\* A step of a session: neither a task's turn nor a task's success is there to disturb.
LEMMA SessionMore ==
    ASSUME Inv, More, h.at = "maintaining", UNCHANGED <<world, readVars>>, outcome' # "success",
           Spaced(m)', m'.at = "completed" => m.at = "completed" \/ (eof /\ recs = <<>>),
           outcome' = "joined" => m' = m /\ m.at = "completed" /\ clean,
           NEW q, Kill \/ Post(q) \/ UNCHANGED streamVars \/ (Framed /\ Consume)
    PROVE  More'
<1>1. StreamFits' BY TurnFits DEF More
<1>2. UNCHANGED <<clean, eof>> /\ (recs = <<>> => recs' = <<>>)
  BY DEF Kill, Post, streamVars, Framed, Consume
<1>3. UNCHANGED <<t, h>> BY DEF readVars
<1>4. Funds(t)' BY <1>3 DEF More, Funds, Past
<1>5. Caught' /\ Turn' BY <1>3 DEF Caught, Turn
<1>6. Session' BY <1>2 DEF More, Session
<1>7. Earned' BY DEF Earned
<1> QED BY <1>1, <1>4, <1>5, <1>6, <1>7 DEF More

LEMMA MaintenanceMore ==
    ASSUME Inv, More, UNCHANGED world, MaintenanceStep
    PROVE  More'
<1>0. UNCHANGED readVars /\ Spaced(m) BY DEF MaintenanceStep, More, Session
<1>1. CASE SessionEnds
  <2>1. /\ h.at = "maintaining" /\ UNCHANGED <<streamVars, m>> /\ outcome' # "success"
        /\ outcome' = "joined" => m.at = "completed" /\ clean
    BY <1>1 DEF SessionEnds
  <2>2. Spaced(m)' BY <1>0, <2>1 DEF Spaced
  <2> QED BY <1>0, <2>1, <2>2, SessionMore
<1>2. CASE MClientKilled /\ UNCHANGED outcome
  <2>1. h.at = "maintaining" /\ Kill /\ UNCHANGED m /\ m.at = "refused" BY <1>2 DEF MClientKilled
  <2>2. Spaced(m)' BY <1>0, <2>1 DEF Spaced
  <2>3. outcome' # "joined" /\ outcome' # "success" BY <1>2, <2>1 DEF More, Session, Earned
  <2> QED BY <1>0, <2>1, <2>2, <2>3, SessionMore
<1>3. CASE MActive /\ UNCHANGED outcome /\ MaintenanceStep /\ ~ MClientKilled
  <2>1. h.at = "maintaining" /\ outcome' = "none" /\ m.at # "completed" BY <1>3 DEF MActive, MEnded
  <2>2. \E q : Kill \/ Post(q) \/ UNCHANGED streamVars \/ (Framed /\ Consume)
    BY <1>3 DEF MaintenanceStep, SessionEnds, MTake, MWrite, MStuck, SpacingElapses, OperatorTypes, MClose,
                MStreamEnds, MInterrupted
  <2>3. PICK d : m' = d OBVIOUS
  <2>4. Spaced(MRefuse(m)) /\ MRefuse(m).at = "refused" BY <1>0 DEF Spaced, MRefuse
  <2>5. ASSUME NEW e, d = MChecked(e) \/ d = e, Spaced(e), e.at = "completed" => eof /\ recs = <<>>
        PROVE  Spaced(d) /\ (d.at = "completed" => eof /\ recs = <<>>)
    BY <2>4, <2>5 DEF MChecked
  <2>6. Spaced(d) /\ (d.at = "completed" => eof /\ recs = <<>>)
    <3>1. CASE MTake
      <4>1. PICK e : e = MTaken(m, Head(recs)) OBVIOUS
      <4>2. Spaced(e) /\ e.at # "completed" BY <1>0, <2>1, <4>1, MTakenSpaced
      <4>3. d = MChecked(e) BY <2>3, <3>1, <4>1 DEF MTake
      <4> QED BY <2>5, <4>2, <4>3
    <3>2. CASE MWrite
      <4>1. PICK e : e = [m EXCEPT !.at = "response"] OBVIOUS
      <4>2. m.at = "write" \/ (m.at = "spacing" /\ m.elapsed) BY <3>2 DEF MWrite
      <4>3. Spaced(e) /\ e.at = "response" BY <1>0, <4>1, <4>2 DEF Spaced
      <4>4. d = MChecked(e) BY <2>3, <3>2, <4>1 DEF MWrite
      <4> QED BY <2>5, <4>3, <4>4
    <3>3. CASE MStuck \/ MInterrupted
      <4>1. d = MRefuse(m) BY <2>3, <3>3 DEF MStuck, MInterrupted
      <4> QED BY <2>4, <4>1
    <3>4. CASE SpacingElapses
      <4>1. d = [m EXCEPT !.elapsed = TRUE] BY <2>3, <3>4 DEF SpacingElapses
      <4>2. Spaced(d) /\ d.at = m.at BY <1>0, <4>1 DEF Spaced
      <4> QED BY <2>1, <4>2
    <3>5. CASE OperatorTypes
      <4>1. PICK e : e = [m EXCEPT !.at = "closing"] OBVIOUS
      <4>2. Spaced(e) /\ e.at = "closing" BY <1>0, <3>5, <4>1 DEF OperatorTypes, Spaced
      <4>3. d = MChecked(e) BY <2>3, <3>5, <4>1 DEF OperatorTypes
      <4> QED BY <2>5, <4>2, <4>3
    <3>6. CASE MClose
      <4>1. PICK e : e = [m EXCEPT !.at = "drain"] OBVIOUS
      <4>2. Spaced(e) /\ e.at = "drain" BY <1>0, <3>6, <4>1 DEF MClose, Spaced
      <4>3. d = MChecked(e) BY <2>3, <3>6, <4>1 DEF MClose
      <4> QED BY <2>5, <4>2, <4>3
    <3>7. CASE MStreamEnds
      <4>1. PICK e : e = [m EXCEPT !.at = "completed"] OBVIOUS
      <4>2. m.at = "drain" => Spaced(e) BY <1>0, <4>1 DEF Spaced
      <4>3. PICK f : f = (IF m.at = "drain" /\ (~ torn \/ world.mode = "login") THEN e ELSE MRefuse(m)) OBVIOUS
      <4>4. Spaced(f) BY <2>4, <4>2, <4>3
      <4>5. d = MChecked(f) /\ eof /\ recs = <<>> BY <2>3, <3>7, <4>1, <4>3 DEF MStreamEnds, Framed
      <4> QED BY <2>5, <4>4, <4>5
    <3> QED BY <1>3, <3>1, <3>2, <3>3, <3>4, <3>5, <3>6, <3>7 DEF MaintenanceStep, SessionEnds
  <2>7. Spaced(m)' BY <2>3, <2>6 DEF Spaced
  <2> QED BY <1>0, <2>1, <2>2, <2>3, <2>6, <2>7, SessionMore
<1>4. SessionEnds \/ (MClientKilled /\ UNCHANGED outcome) \/ (MActive /\ UNCHANGED outcome)
  BY DEF MaintenanceStep, MTake, MWrite, MStuck, SpacingElapses, OperatorTypes, MClose, MStreamEnds, MInterrupted
<1> QED BY <1>1, <1>2, <1>3, <1>4

-----------------------------------------------------------------------------
\* A step of the handle leaves the conversation alone; a success it publishes is one that Succeeds.
LEMMA HandledMore ==
    ASSUME Inv, More, UNCHANGED <<world, streamVars, t, work, sent, m>>,
           h'.at = "running" => h.at = "running" \/ (t = Fresh /\ work.began = 0),
           h.at = "over" => h'.at = "over",
           \/ outcome' = outcome \/ outcome' \in {"refused", "raised", "failure"}
           \/ outcome' = "success" /\ Succeeds /\ h.at = "running" /\ h'.at = "over"
    PROVE  More'
<1>0. Good(t) /\ UNCHANGED <<wire, held, recs, torn, ended, clean, captured, eof>> BY DEF Inv, TypeOK, streamVars
<1>1. StreamFits' BY <1>0 DEF More, StreamFits
<1>2. Funds(t)' BY DEF More, Funds, Past
<1>3. t = Fresh => t.at = "control" /\ t.calls = 0 /\ ~ Past(t)
  <2>1. Fresh.at = "control" BY DEF Fresh
  <2>2. Fresh.calls = 0 BY DEF Fresh
  <2> QED BY <2>1, <2>2, FreshFunds
<1>4. Caught'
  <2>1. SUFFICES ASSUME h'.at = "running", t.at = "worker", NEW r \in work.caught PROVE Known(r)' BY DEF Caught
  <2>2. h.at = "running" BY <1>3, <2>1
  <2>3. Known(r) BY <2>1, <2>2 DEF More, Caught
  <2> QED BY <1>0, <2>3 DEF Known
<1>5. Turn'
  <2>1. CASE h.at = "running" BY <1>0, <2>1 DEF More, Turn, Past
  <2>2. CASE h.at # "running" /\ h'.at = "running" BY <1>3, <2>2 DEF Turn, Past
  <2> QED BY <2>1, <2>2 DEF Turn
<1>6. Session' BY <1>0 DEF More, Session, Spaced
<1>7. Earned'
  <2>1. CASE outcome' = outcome BY <1>0, <2>1 DEF More, Earned
  <2>2. CASE outcome' = "success" /\ Succeeds /\ h.at = "running" /\ h'.at = "over"
    <3>1. t.at = "drained" /\ clean /\ t.done = t.calls BY <2>2 DEF Succeeds
    <3>2. t.calls > 0 BY <1>0, <2>2 DEF Succeeds, Good
    <3>3. t.n = 7 BY <3>1 DEF More, Funds
    <3>4. Past(t) BY <3>3 DEF Past
    <3>5. work.began = t.calls /\ sent = 1 /\ eof /\ recs = <<>> /\ ~ torn BY <2>2, <3>1, <3>4 DEF More, Turn
    <3> QED BY <1>0, <2>2, <3>1, <3>2, <3>5 DEF Earned
  <2>3. CASE outcome' \in {"refused", "raised", "failure"} BY <2>3 DEF Earned
  <2> QED BY <2>1, <2>2, <2>3
<1> QED BY <1>1, <1>2, <1>4, <1>5, <1>6, <1>7 DEF More

LEMMA HandleMore ==
    ASSUME Inv, More, UNCHANGED world, HandleStep
    PROVE  More'
<1>0. h \in Handles /\ UNCHANGED <<world, streamVars, t, work, sent, m>>
  BY DEF Inv, TypeOK, HandleStep, Acquire, Materialize, Opened, Execute, Concluded, Fence, Release, Dispose, Close
<1>1. ASSUME NEW o, Concludes(o) PROVE h'.at = "over" /\ outcome' \in {"raised", o}
  BY <1>0, <1>1 DEF Concludes, Handles
<1>2. CASE Acquire
  <2>1. h.at = "new" /\ h'.at \in {"acquired", "over"} /\ (outcome' = outcome \/ outcome' = "refused")
    BY <1>0, <1>2 DEF Acquire, Handles
  <2> QED BY <1>0, <2>1, HandledMore
<1>3. CASE Materialize
  <2>1. h.at = "acquired" /\ h'.at = "opening" /\ outcome' = outcome BY <1>0, <1>3 DEF Materialize, Handles
  <2> QED BY <1>0, <2>1, HandledMore
<1>4. CASE Opened
  <2>1. h.at = "opening" /\ h'.at \in {"ready", "over"} /\ (outcome' = outcome \/ outcome' = "raised")
    BY <1>0, <1>1, <1>4 DEF Opened, Handles
  <2> QED BY <1>0, <2>1, HandledMore
<1>5. CASE Execute
  <2>1. h.at = "ready" /\ (outcome' = outcome \/ outcome' = "raised") BY <1>0, <1>1, <1>5 DEF Execute
  <2>2. t = Fresh /\ work.began = 0 BY <2>1 DEF Inv, Account, Untouched
  <2> QED BY <1>0, <2>1, <2>2, HandledMore
<1>6. CASE Concluded
  <2>1. h.at = "running" /\ h'.at = "over" /\ (outcome' \in {"raised", "failure"} \/ (outcome' = "success" /\ Succeeds))
    BY <1>1, <1>6 DEF Concluded
  <2> QED BY <1>0, <2>1, HandledMore
<1>7. CASE Fence \/ Release \/ Dispose \/ \E kind \in {"close", "relinquish"} : Close(kind)
  <2>1. h'.at = h.at /\ outcome' = outcome BY <1>0, <1>7 DEF Fence, Release, Dispose, Close, Handles
  <2> QED BY <1>0, <2>1, HandledMore
<1> QED BY <1>2, <1>3, <1>4, <1>5, <1>6, <1>7 DEF HandleStep

LEMMA CrashMore ==
    ASSUME Inv, More, UNCHANGED world, Crash
    PROVE  More'
<1>1. h'.at = "new" /\ t' = Fresh /\ Kill /\ UNCHANGED <<work, sent, m, outcome>> /\ h.at # "over"
  BY DEF Crash, NewHandle
<1>2. UNCHANGED <<recs, torn, clean, eof>> BY <1>1 DEF Kill
<1>3. StreamFits' BY <1>1, TurnFits DEF More
<1>5. Funds(t)' BY <1>1, FreshFunds DEF Funds, Past
<1>6. Caught' /\ Turn' BY <1>1 DEF Caught, Turn
<1>7. Session' BY <1>1, <1>2 DEF More, Session, Spaced
<1>8. Earned' BY <1>1 DEF More, Earned
<1> QED BY <1>3, <1>5, <1>6, <1>7, <1>8 DEF More

LEMMA NextMore ==
    ASSUME Inv, More, [Next]_vars
    PROVE  More'
<1>1. CASE HandleStep /\ UNCHANGED world BY <1>1, HandleMore
<1>2. CASE Streams /\ UNCHANGED world BY <1>2, StreamsMore
<1>3. CASE MaintenanceStep /\ UNCHANGED world BY <1>3, MaintenanceMore
<1>4. CASE Crash /\ UNCHANGED world BY <1>4, CrashMore
<1>5. CASE TransactionStep /\ UNCHANGED <<m, outcome, world>> BY <1>5, TransactionMore
<1>6. ASSUME NEW what, Loses(what), UNCHANGED world PROVE More' BY <1>6, HandledMore DEF Loses
<1>7. CASE UNCHANGED vars
  <2>1. UNCHANGED <<world, streamVars, t, work, sent, m, h, outcome>> BY <1>7 DEF vars, readVars
  <2> QED BY <2>1, HandledMore
<1> QED BY <1>1, <1>2, <1>3, <1>4, <1>5, <1>6, <1>7 DEF Next

LEMMA InitMore ==
    ASSUME Init
    PROVE  More
<1>1. /\ world \in Worlds /\ t = Fresh /\ m = MFresh /\ outcome = "none"
      /\ wire = <<>> /\ held = <<>> /\ recs = <<>> /\ ~ ended /\ ~ captured /\ ~ eof /\ ~ clean
  BY DEF Init, StreamInit
<1>2. h.at # "running"
  <2>1. PICK x \in {"new", "maintaining"} : h = [NewHandle EXCEPT !.at = x] BY DEF Init
  <2> QED BY <2>1 DEF NewHandle
<1>3. StreamFits
  <2>1. \A i : i \notin 1 .. 0 OBVIOUS
  <2> QED BY <1>1, <2>1, SeqEmpty DEF StreamFits
<1>4. Session
  <2>1. m = [x \in {"at", "n", "ui", "elapsed"} |-> m[x]] /\ m.at \in {"line", "write"} BY <1>1 DEF MFresh
  <2>2. m.n = 1 BY <1>1 DEF MFresh
  <2>3. m.n # 2 BY <2>2
  <2> QED BY <1>1, <2>1, <2>3 DEF Session, Spaced
<1> QED BY <1>1, <1>2, <1>3, <1>4, FreshFunds DEF More, Caught, Turn, Earned

-----------------------------------------------------------------------------
\* Only a reply counts an answer.
LEMMA OnlyRepliesAnswer ==
    ASSUME Inv, TransactionStep, ~ \E cost \in 1 .. MaxReply : Reply(cost)
    PROVE  t'.done = t.done
<1>0. Good(t) BY DEF Inv, TypeOK
<1>1. \A why : Refuse(t, why).done = t.done BY <1>0, RefuseKept DEF Kept
<1>2. ASSUME NEW d, d.done = t.done PROVE Checked(d).done = t.done BY <1>1, <1>2 DEF Checked
<1>3. CASE Take
  <2>1. PICK r : r = Head(recs) OBVIOUS
  <2>2. t' = Checked(Taken(t, r)) /\ t.at \notin {"intended", "drained", "refused"}
    BY <1>3, <2>1 DEF Take, Active, Ended
  <2>3. Taken(t, r).done = t.done BY <1>0, <2>2, TakenKept DEF Kept
  <2> QED BY <1>2, <2>2, <2>3
<1>4. CASE StreamEnds \/ Interrupted BY <1>1, <1>4 DEF StreamEnds, Interrupted
<1>5. CASE Ask
  <2>1. PICK e : e = [t EXCEPT !.at = "await"] OBVIOUS
  <2>2. PICK b : b = IF t.accepted THEN "post" ELSE "startup" OBVIOUS
  <2>3. t' = Checked(Written(e, 1, b)) BY <1>5, <2>1, <2>2 DEF Ask
  <2>4. Good(e) /\ e.done = t.done BY <1>0, <2>1 DEF Good, Fields
  <2>5. Written(e, 1, b).done = t.done BY <2>4, WrittenKept
  <2> QED BY <1>2, <2>3, <2>5
<1>6. CASE Intend
  <2>1. PICK e : e = [t EXCEPT !.st = "dispatched", !.at = "intended"] OBVIOUS
  <2>2. t.n = 4 BY <1>0, <1>6 DEF Intend, Good
  <2>3. Good(e) /\ e.done = t.done BY <1>0, <2>1, <2>2 DEF Good, Fields
  <2>4. PICK d : d = Written(e, 1, "startup") OBVIOUS
  <2>5. Good(d) /\ d.done = t.done BY <2>3, <2>4, WrittenKept
  <2>6. t' = Checked(d) \/ t' = d \/ t' = Refuse(d, "intent") BY <1>6, <2>1, <2>4 DEF Intend
  <2>7. Refuse(d, "intent").done = t.done BY <2>5, RefuseKept DEF Kept
  <2> QED BY <1>2, <2>5, <2>6, <2>7
<1>7. CASE Send
  <2>1. [t EXCEPT !.at = "body"].done = t.done BY <1>0 DEF Good, Fields
  <2> QED BY <1>2, <1>7, <2>1 DEF Send
<1>8. CASE Grant
  <2>1. PICK k, x : t' = Checked(Refuse(t, "reserve")) \/ t' = [t EXCEPT !.calls = k, !.at = x] BY <1>8 DEF Grant
  <2>2. [t EXCEPT !.calls = k, !.at = x].done = t.done BY <1>0 DEF Good, Fields
  <2> QED BY <1>1, <1>2, <2>1, <2>2
<1>9. CASE CloseStdin
  <2>1. [t EXCEPT !.st = "checked", !.at = "drain"].done = t.done BY <1>0 DEF Good, Fields
  <2> QED BY <1>2, <1>9, <2>1 DEF CloseStdin
<1>10. CASE DrainEnds
  <2>1. [t EXCEPT !.at = "drained"].done = t.done BY <1>0 DEF Good, Fields
  <2> QED BY <1>1, <1>2, <1>10, <2>1 DEF DrainEnds
<1>11. CASE WorkerJoined \/ ClientKilled BY <1>11 DEF WorkerJoined, ClientKilled
<1>12. ASSUME NEW end, WorkerEnds(end) PROVE t'.done = t.done BY <1>1, <1>12 DEF WorkerEnds
<1> QED BY <1>3, <1>4, <1>5, <1>6, <1>7, <1>8, <1>9, <1>10, <1>11, <1>12 DEF TransactionStep

\* At the barrier nothing that was captured is left but what the rules took as display.
LEMMA AnswersAreQuiet ==
    ASSUME Inv, More, [Next]_vars, t'.done > t.done
    PROVE  \A r \in work.caught : Harmless(r)
<1>0. t.done \in Nat BY DEF Inv, TypeOK, Good
<1>1. t'.done # t.done BY <1>0
<1>2. CASE HandleStep \/ Streams \/ MaintenanceStep \/ UNCHANGED vars \/ \E what : Loses(what)
  <2>1. UNCHANGED t
    BY <1>2 DEF HandleStep, Acquire, Materialize, Opened, Execute, Concluded, Fence, Release, Dispose, Close,
                Streams, MaintenanceStep, readVars, vars, Loses
  <2> QED BY <1>1, <2>1
<1>3. CASE Crash
  <2>1. t' = Fresh BY <1>3 DEF Crash
  <2>2. t'.done = 0 BY <2>1 DEF Fresh
  <2> QED BY <1>0, <2>2
<1>4. CASE TransactionStep
  <2>1. PICK cost \in 1 .. MaxReply : Reply(cost) BY <1>1, <1>4, OnlyRepliesAnswer
  <2>2. h.at = "running" /\ t.at = "worker" /\ recs = <<>> /\ held = <<>> /\ ~ torn /\ ~ captured
    BY <2>1 DEF Reply, Active, Barrier, Settled, Still, Framed
  <2>3. \A r \in work.caught : Known(r) BY <2>2 DEF More, Caught
  <2>4. Range(held) = {} /\ Range(recs) = {} BY <2>2, SeqEmpty
  <2> QED BY <2>2, <2>3, <2>4 DEF Known
<1> QED BY <1>2, <1>3, <1>4 DEF Next

\* The further account is kept as well.
LEMMA MoreInvariance == Spec => [](Inv /\ More)
<1>1. Init => Inv /\ More BY InitInv, InitMore
<1>2. Inv /\ More /\ [Next]_vars => (Inv /\ More)' BY NextInv, NextMore
<1> QED BY <1>1, <1>2, PTL DEF Spec

\* Once a call was granted no write is refused for the input budget, the reply and the three
\* controls after the result were reserved for it; and its worker's result is released only when
\* everything captured while it ran was display metadata (_mcp, _read_worker, _callback_barrier).
THEOREM WorkSettled == Spec => WorkIsSettled
<1>1. Inv /\ More => (t.why = "bound" => t.calls = 0) BY DEF More, Funds
<1>2. Inv /\ More /\ [Next]_vars => [t'.done > t.done => \A r \in work.caught : Harmless(r)]_vars
  BY AnswersAreQuiet
<1> QED BY <1>1, <1>2, MoreInvariance, PTL DEF Spec, WorkIsSettled

\* A published success is one whole exchange, and a maintenance session joins only at a clean end
\* of the stream, its second observation behind the pause (run_read_transaction, _run,
\* run_maintenance_session).  What the client itself said is the part left to model checking.
THEOREM SuccessesAreWhole == Spec => []SuccessIsWhole
<1>1. ASSUME Inv, More PROVE SuccessIsWhole
  <2>1. ASSUME outcome = "success"
        PROVE  /\ sent = 1 /\ t.accepted /\ t.n = 7 /\ work.began = t.calls /\ t.done = t.calls /\ t.calls > 0
               /\ eof /\ clean /\ ~ torn /\ wire \o held \o recs = <<>>
    <3>1. /\ t.at = "drained" /\ t.calls > 0 /\ t.done = t.calls /\ work.began = t.calls /\ sent = 1
          /\ clean /\ eof /\ recs = <<>> /\ ~ torn
      BY <1>1, <2>1 DEF More, Earned
    <3>2. t.n = 7 BY <1>1, <3>1 DEF More, Funds
    <3>3. t.n >= 5 BY <3>2
    <3>4. t.accepted BY <1>1, <3>1, <3>3 DEF More, Funds
    <3>5. wire = <<>> /\ held = <<>> BY <1>1, <3>1 DEF More, StreamFits
    <3>6. wire \o held \o recs = <<>> BY <3>1, <3>5
    <3> QED BY <3>1, <3>2, <3>4, <3>6
  <2>2. ASSUME outcome = "joined" PROVE m.at = "completed" /\ eof /\ clean /\ wire \o held \o recs = <<>>
    <3>1. m.at = "completed" /\ clean /\ eof /\ recs = <<>> BY <1>1, <2>2 DEF More, Session
    <3>2. wire = <<>> /\ held = <<>> BY <1>1, <3>1 DEF More, StreamFits
    <3> QED BY <3>1, <3>2
  <2> QED BY <1>1, <2>1, <2>2 DEF SuccessIsWhole, More, Session, Spaced
<1> QED BY <1>1, MoreInvariance, PTL
=============================================================================
