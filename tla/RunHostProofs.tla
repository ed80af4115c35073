--------------------------- MODULE RunHostProofs ----------------------------
(***************************************************************************)
(* Theorems about RunHost, for every number of runs and commands, every    *)
(* set of slots and every world.                                           *)
(*                                                                         *)
(* An intent is grounded when the durable fact it names is there and asks  *)
(* for exactly this run at exactly this fence.  The host's tables and its  *)
(* workers hold grounded intents only, whatever launches, scans, requeues  *)
(* and restarts put there, and a claimed worker that still owns its run    *)
(* still fits it: the two together make an attempt's first event fenced.   *)
(*                                                                         *)
(* No intent is lost: behind an intent in flight that still fits its run   *)
(* the host's tables hold nothing, the same intent or one that supersedes  *)
(* it (Owed), whatever ends, fails or is displaced in the meantime.        *)
(***************************************************************************)
EXTENDS RunHost, TLAPS, WellFoundedInduction

Causes == {NoCause} \cup {ResumeCause(c) : c \in Commands} \cup {ReplyCause(n) : n \in Nat}
Intents == [base : Nat \cup {Unbound}, allowed : SUBSET Statuses, cause : Causes]
WorkerStates ==
    [intent : Intents,
     pc : {"idle", "created", "claimed", "running", "unwinding", "done"},
     result : {"none", "ok", "lost", "failed", "superseded", "dead", "cancelled"},
     behind : SUBSET Workers]

Owners == Slots \cup {"nobody", "gone", "rival", "rival begun"}
RunRows == [status : Statuses, seq : Nat, owner : Owners, live : BOOLEAN]

RunTypes ==
    run \in [Runs -> RunRows]
FactTypes ==
    /\ cmd \in [Commands -> [state : {"absent", "prepared", "committed", "rejected"},
                             run : Nat, base : Nat]]
    /\ \A c \in Commands : cmd[c].state # "absent" => cmd[c].run \in Runs
    /\ replied \subseteq Runs \X Nat

\* The tables of a host; which slot a task is recorded under is not typed, it
\* does not matter here.
HostTypes(h) ==
    /\ DOMAIN h = {"requested", "explicit", "tasks", "worker", "retry", "deferred", "woke"}
    /\ h.requested \in [Runs -> Intents]
    /\ h.explicit \in [Runs -> Intents]
    /\ DOMAIN h.tasks = Runs
    /\ h.worker \in [Workers -> WorkerStates]
    /\ h.retry \subseteq Runs /\ h.deferred \subseteq Runs

Types == world \in World /\ RunTypes /\ FactTypes /\ HostTypes(host)

\* The durable fact behind an intent for run r.
Grounded(r, i) ==
    /\ \A c \in Commands : i.cause = ResumeCause(c) =>
          cmd[c].state # "absent" /\ cmd[c].run = r /\ cmd[c].base = i.base
    /\ \A n \in Nat : i.cause = ReplyCause(n) =>
          i.base = n /\ i.allowed = {"PARKED"} /\ <<r, n>> \in replied
    /\ i.cause = NoCause => i.base = Unbound \/ i.allowed \subseteq Recoverable

HostGrounded(h) ==
    \A r \in Runs :
        /\ Grounded(r, h.requested[r]) /\ Grounded(r, h.explicit[r])
        /\ \A s \in Slots : Grounded(r, h.worker[<<r, s>>].intent)

\* A worker that claimed its run and owns it still may take it as it is.
ClaimsFit ==
    \A r \in Runs, s \in Slots :
        host.worker[<<r, s>>].pc = "claimed" /\ Owns(<<r, s>>) =>
            Fits(r, host.worker[<<r, s>>].intent)

\* What the attempts begun so far came from.
BegunGrounded ==
    \A a \in begun :
        /\ \A c \in Commands : a.cause = ResumeCause(c) =>
              cmd[c].state # "absent" /\ cmd[c].run = a.run /\ cmd[c].base = a.at
        /\ \A n \in Nat : a.cause = ReplyCause(n) =>
              n = a.at /\ <<a.run, n>> \in replied /\ a.from = "PARKED"
        /\ a.from \in {"FAILED", "PARKED"} => a.cause # NoCause \/ a.unbound

FenceInv == Types /\ HostGrounded(host) /\ ClaimsFit /\ BegunGrounded

-----------------------------------------------------------------------------
(* Intents.                                                                *)

LEMMA Sizes == LastRun \in Nat /\ LastCommand \in Nat /\ Runs \subseteq Nat /\ Commands \subseteq Nat
  <1>1. LastRun \in Nat /\ LastCommand \in Nat
    BY SizeAssumption
  <1> QED BY <1>1 DEF Runs, Commands

\* The three kinds of cause are different, and name their fact.
LEMMA CausesDiffer ==
  /\ \A c, d : ResumeCause(c) = ResumeCause(d) => c = d
  /\ \A m, n : ReplyCause(m) = ReplyCause(n) => m = n
  /\ \A c, n : ResumeCause(c) # ReplyCause(n) /\ ResumeCause(c) # NoCause /\ ReplyCause(n) # NoCause
  BY DEF ResumeCause, ReplyCause, NoCause

LEMMA NoIntentGrounded == NoIntent \in Intents /\ \A r : Grounded(r, NoIntent)
  <1>1. NoIntent \in Intents
    BY DEF NoIntent, Intents, Causes
  <1> QED BY <1>1, CausesDiffer DEF NoIntent, Grounded

\* An intent stays grounded while plans and replies are only added.
FactsGrow ==
    /\ \A c \in Commands : cmd[c].state # "absent" =>
          cmd'[c].state # "absent" /\ cmd'[c].run = cmd[c].run /\ cmd'[c].base = cmd[c].base
    /\ replied \subseteq replied'

LEMMA GroundedKept ==
  ASSUME FactsGrow, NEW r, NEW i, Grounded(r, i)
  PROVE  Grounded(r, i)'
  BY DEF FactsGrow, Grounded

\* Recovery, a start command and an unbound launch.
LEMMA BareIntents ==
  /\ \A n \in Nat : /\ Intent(n, Recoverable, NoCause) \in Intents
                    /\ \A r : Grounded(r, Intent(n, Recoverable, NoCause))
  /\ Intent(Unbound, Resumable, NoCause) \in Intents
  /\ \A r : Grounded(r, Intent(Unbound, Resumable, NoCause))
  <1>1. \A n \in Nat : Intent(n, Recoverable, NoCause) \in Intents
    BY DEF Intent, Intents, Causes, Recoverable, Statuses, Resumable
  <1>2. Intent(Unbound, Resumable, NoCause) \in Intents
    BY DEF Intent, Intents, Causes, Statuses
  <1> QED BY <1>1, <1>2, CausesDiffer DEF Intent, Grounded

LEMMA ResumeIntents ==
  ASSUME FactTypes, NEW c \in Commands, cmd[c].state # "absent"
  PROVE  ResumeIntent(c) \in Intents /\ Grounded(cmd[c].run, ResumeIntent(c))
  <1>1. ResumeIntent(c) \in Intents
    BY DEF ResumeIntent, Intent, Intents, Causes, Statuses, FactTypes
  <1> QED BY <1>1, CausesDiffer DEF ResumeIntent, Intent, Grounded

LEMMA ReplyIntents ==
  ASSUME NEW r, NEW n \in Nat, <<r, n>> \in replied
  PROVE  ReplyIntent(n) \in Intents /\ Grounded(r, ReplyIntent(n))
  <1>1. ReplyIntent(n) \in Intents
    BY DEF ReplyIntent, Intent, Intents, Causes, Statuses, Resumable
  <1> QED BY <1>1, CausesDiffer DEF ReplyIntent, Intent, Grounded

-----------------------------------------------------------------------------
(* What launching and starting do to a host's tables.                      *)

LEMMA LeastNumber ==
  ASSUME NEW T \in SUBSET Nat, T # {}
  PROVE  \E x \in T : \A y \in T : x =< y
  <1>1. \E x \in T : \A y \in T : ~ (<<y, x>> \in OpToRel(<, Nat))
    BY NatLessThanWellFounded, WFMin
  <1>2. \A x, y \in Nat : y < x => <<y, x>> \in OpToRel(<, Nat)
    BY Zenon DEF OpToRel
  <1>3. \A x, y \in T : ~ (y < x) => x =< y
    OBVIOUS
  <1> QED BY <1>1, <1>2, <1>3, Zenon

\* Offers of grounded intents.
Offers(offers) ==
    \A o \in offers : /\ o.key \in Nat /\ o.run \in Runs
                      /\ o.intent \in Intents /\ Grounded(o.run, o.intent)

\* Of the offers of a run, one comes first.
LEMMA FirstOffer ==
  ASSUME NEW offers, Offers(offers), NEW r \in {o.run : o \in offers}
  PROVE  \E o \in offers : o.run = r /\ \A p \in offers : p.run = r => o.key =< p.key
  <1> DEFINE T == {o.key : o \in {p \in offers : p.run = r}}
  <1>1. T \subseteq Nat /\ T # {}
    BY DEF Offers
  <1>2. PICK x \in T : \A y \in T : x =< y
    BY <1>1, LeastNumber
  <1> QED BY <1>2

LEMMA LaunchedGrounded ==
  ASSUME NEW h, HostTypes(h), HostGrounded(h), NEW offers, Offers(offers)
  PROVE  /\ HostTypes(Launched(h, offers)) /\ HostGrounded(Launched(h, offers))
         /\ Launched(h, offers).worker = h.worker
  <1> DEFINE first(r) == CHOOSE o \in offers : o.run = r /\ \A p \in offers : p.run = r => o.key =< p.key
             queued == {r \in {o.run : o \in offers} : Disposition(h, r, first(r).intent) = "queued"}
             g == Launched(h, offers)
  <1>1. ASSUME NEW r \in {o.run : o \in offers}
        PROVE  first(r) \in offers /\ first(r).run = r
    BY FirstOffer
  <1>2. queued \subseteq Runs /\ \A r \in queued : first(r).intent \in Intents /\ Grounded(r, first(r).intent)
    BY <1>1 DEF Offers
  <1>3. g = [h EXCEPT !.requested = [r \in Runs |-> IF r \in queued THEN first(r).intent ELSE @[r]],
                      !.deferred = @ \ queued,
                      !.retry = @ \ queued,
                      !.woke = @ \/ \E o \in offers : Signals(h, o.run, o.intent)]
    BY DEF Launched
  <1> HIDE DEF first, queued, g
  <1>4. /\ DOMAIN g = DOMAIN h
        /\ g.requested = [r \in Runs |-> IF r \in queued THEN first(r).intent ELSE h.requested[r]]
        /\ g.explicit = h.explicit /\ g.tasks = h.tasks /\ g.worker = h.worker
        /\ g.retry = h.retry \ queued /\ g.deferred = h.deferred \ queued
    BY <1>3 DEF HostTypes
  <1>5. HostTypes(g)
    BY <1>2, <1>4 DEF HostTypes
  <1>6. HostGrounded(g)
    BY <1>2, <1>4 DEF HostGrounded
  <1> QED BY <1>4, <1>5, <1>6 DEF g

\* New workers are created under grounded intents.
LEMMA StartedGrounded ==
  ASSUME NEW h, HostTypes(h), HostGrounded(h), RunTypes, NEW explicit, NEW recovered
  PROVE  /\ HostTypes(Started(h, explicit, recovered)) /\ HostGrounded(Started(h, explicit, recovered))
         /\ \A w \in Workers : LET v == Started(h, explicit, recovered).worker[w]
                               IN  v = h.worker[w] \/ v.pc = "created"
  <1> DEFINE slot(r) == CHOOSE s \in Slots : h.worker[<<r, s>>].pc = "idle"
             ended == {w \in Workers : h.worker[w].pc = "done"}
             intent(r) == IF r \in explicit THEN h.requested[r]
                          ELSE Intent(run[r].seq, Recoverable, NoCause)
             fresh(r) == [intent |-> intent(r), pc |-> "created", result |-> "none", behind |-> ended]
             g == Started(h, explicit, recovered)
  <1>1. g = [h EXCEPT !.worker = [w \in Workers |->
                     IF w[1] \in explicit \cup recovered /\ w[2] = slot(w[1]) THEN fresh(w[1]) ELSE @[w]],
                  !.tasks = [r \in Runs |-> IF r \in explicit \cup recovered THEN slot(r) ELSE @[r]],
                  !.requested = [r \in Runs |-> IF r \in explicit THEN NoIntent ELSE @[r]],
                  !.explicit = [r \in Runs |-> IF r \in explicit THEN h.requested[r] ELSE @[r]],
                  !.retry = @ \ (explicit \cup recovered)]
    BY DEF Started
  <1>2. \A r \in Runs : fresh(r) \in WorkerStates /\ Grounded(r, fresh(r).intent)
    <2>1. \A r \in Runs : intent(r) \in Intents /\ Grounded(r, intent(r))
      BY BareIntents DEF HostTypes, HostGrounded, RunTypes, RunRows
    <2>2. ended \subseteq Workers
      OBVIOUS
    <2> HIDE DEF intent, ended
    <2> QED BY <2>1, <2>2 DEF WorkerStates
  <1>3. \A r : fresh(r).pc = "created"
    OBVIOUS
  <1> HIDE DEF slot, fresh, g
  <1>4. /\ DOMAIN g = DOMAIN h
        /\ g.worker = [w \in Workers |->
              IF w[1] \in explicit \cup recovered /\ w[2] = slot(w[1]) THEN fresh(w[1]) ELSE h.worker[w]]
        /\ g.tasks = [r \in Runs |-> IF r \in explicit \cup recovered THEN slot(r) ELSE h.tasks[r]]
        /\ g.requested = [r \in Runs |-> IF r \in explicit THEN NoIntent ELSE h.requested[r]]
        /\ g.explicit = [r \in Runs |-> IF r \in explicit THEN h.requested[r] ELSE h.explicit[r]]
        /\ g.retry = h.retry \ (explicit \cup recovered) /\ g.deferred = h.deferred
    BY <1>1 DEF HostTypes
  <1>5. \A w \in Workers : w[1] \in Runs /\ w[2] \in Slots /\ w = <<w[1], w[2]>>
    BY DEF Workers
  <1>6. g.worker \in [Workers -> WorkerStates]
    BY <1>2, <1>4, <1>5 DEF HostTypes
  <1>7. HostTypes(g)
    BY <1>4, <1>6, NoIntentGrounded DEF HostTypes
  <1>8. \A w \in Workers : Grounded(w[1], g.worker[w].intent)
    BY <1>2, <1>4, <1>5 DEF HostGrounded
  <1>9. HostGrounded(g)
    BY <1>4, <1>8, NoIntentGrounded DEF HostGrounded, Workers
  <1>10. \A w \in Workers : g.worker[w] = h.worker[w] \/ g.worker[w].pc = "created"
    BY <1>3, <1>4
  <1> QED BY <1>7, <1>9, <1>10 DEF g

LEMMA FillCapacityGrounded ==
  ASSUME NEW h, HostTypes(h), HostGrounded(h), RunTypes
  PROVE  /\ HostTypes(FillCapacity(h)) /\ HostGrounded(FillCapacity(h))
         /\ \A w \in Workers : FillCapacity(h).worker[w] = h.worker[w]
                               \/ FillCapacity(h).worker[w].pc = "created"
  <1> DEFINE capacity == world.maxConcurrency - Cardinality({r \in Runs : h.tasks[r] # NoSlot})
             asked == {r \in Runs : h.requested[r] # NoIntent}
             startable == {r \in asked : Fits(r, h.requested[r]) /\ Ready(h, r)}
             stale == {r \in asked : /\ ~ Fits(r, h.requested[r])
                                     /\ Cardinality({q \in startable : q < r}) < capacity}
             explicit == Within(startable, capacity)
             pruned == [h EXCEPT !.requested = [r \in Runs |-> IF r \in stale THEN NoIntent ELSE @[r]],
                                 !.retry = @ \ stale]
             recovered == Within({r \in Runs : Recovers(pruned, r)}, capacity - Cardinality(explicit))
  <1>1. FillCapacity(h) = Started(pruned, explicit, recovered)
    BY DEF FillCapacity
  <1> HIDE DEF capacity, asked, startable, stale, explicit, recovered
  <1>2. /\ DOMAIN pruned = DOMAIN h
        /\ pruned.requested = [r \in Runs |-> IF r \in stale THEN NoIntent ELSE h.requested[r]]
        /\ pruned.explicit = h.explicit /\ pruned.tasks = h.tasks /\ pruned.worker = h.worker
        /\ pruned.retry = h.retry \ stale /\ pruned.deferred = h.deferred
    BY DEF HostTypes
  <1> HIDE DEF pruned
  <1>3. HostTypes(pruned)
    BY <1>2, NoIntentGrounded DEF HostTypes
  <1>4. HostGrounded(pruned)
    BY <1>2, NoIntentGrounded DEF HostGrounded
  <1> QED BY <1>1, <1>2, <1>3, <1>4, StartedGrounded

LEMMA WokeForgotten ==
  ASSUME NEW h, HostTypes(h), HostGrounded(h), NEW g, g = [h EXCEPT !.woke = FALSE]
  PROVE  HostTypes(g) /\ HostGrounded(g) /\ g.worker = h.worker
  <1>1. /\ DOMAIN g = DOMAIN h /\ g.requested = h.requested /\ g.explicit = h.explicit
        /\ g.tasks = h.tasks /\ g.worker = h.worker /\ g.retry = h.retry /\ g.deferred = h.deferred
    BY DEF HostTypes
  <1> QED BY <1>1 DEF HostTypes, HostGrounded

\* A worker that ends keeps its intent; a lost claim requeues the one in flight.
LEMMA SettledGrounded ==
  ASSUME NEW h, HostTypes(h), HostGrounded(h), NEW w \in Workers,
         NEW result \in {"none", "ok", "lost", "failed", "superseded", "dead", "cancelled"}
  PROVE  /\ HostTypes(Settled(h, w, result)) /\ HostGrounded(Settled(h, w, result))
         /\ Settled(h, w, result).worker[w].pc = "done"
         /\ \A v \in Workers : v # w => Settled(h, w, result).worker[v] = h.worker[v]
  <1> DEFINE r == w[1]
             ended == [h EXCEPT !.worker[w].pc = "done", !.worker[w].result = result,
                                !.worker[w].behind = {}]
             requeues == /\ h.explicit[r] # NoIntent /\ life \in {"starting", "open"}
                         /\ h.requested[r] = NoIntent \/ Supersedes(h.explicit[r], h.requested[r])
             g == Settled(h, w, result)
  <1>1. /\ r \in Runs /\ w[2] \in Slots /\ w = <<r, w[2]>>
    BY DEF Workers
  <1>2. /\ DOMAIN ended = DOMAIN h /\ ended.requested = h.requested /\ ended.explicit = h.explicit
        /\ ended.tasks = h.tasks /\ ended.retry = h.retry /\ ended.deferred = h.deferred
        /\ ended.worker = [h.worker EXCEPT ![w] = [h.worker[w] EXCEPT !.pc = "done", !.result = result, !.behind = {}]]
    BY DEF HostTypes
  <1>3. g = CASE result = "lost"   -> [ended EXCEPT !.retry = @ \cup {r},
                                                !.requested[r] = IF requeues THEN h.explicit[r] ELSE @]
          [] result = "failed" -> [ended EXCEPT !.deferred = @ \cup {r}]
          [] OTHER             -> ended
    BY DEF Settled
  <1> HIDE DEF ended, requeues, g, r
  <1>4. ended.worker \in [Workers -> WorkerStates]
    <2>1. h.worker[w] \in WorkerStates
      BY DEF HostTypes
    <2>2. [h.worker[w] EXCEPT !.pc = "done", !.result = result, !.behind = {}] \in WorkerStates
      BY <2>1 DEF WorkerStates
    <2> QED BY <1>2, <2>2 DEF HostTypes
  <1>5. /\ ended.worker[w].pc = "done" /\ ended.worker[w].intent = h.worker[w].intent
        /\ \A v \in Workers : v # w => ended.worker[v] = h.worker[v]
    <2>1. h.worker[w] \in WorkerStates
      BY DEF HostTypes
    <2> QED BY <1>2, <2>1 DEF HostTypes, WorkerStates
  <1>6. /\ DOMAIN g = DOMAIN h /\ g.worker = ended.worker /\ g.explicit = h.explicit /\ g.tasks = h.tasks
        /\ g.retry \subseteq h.retry \cup {r} /\ g.deferred \subseteq h.deferred \cup {r}
        /\ \/ g.requested = h.requested
           \/ g.requested = [h.requested EXCEPT ![r] = h.explicit[r]]
    <2>1. CASE result = "lost"
      <3>1. g = [ended EXCEPT !.retry = @ \cup {r}, !.requested[r] = IF requeues THEN h.explicit[r] ELSE @]
        BY <1>3, <2>1
      <3>2. g.requested = [h.requested EXCEPT ![r] = IF requeues THEN h.explicit[r] ELSE h.requested[r]]
        BY <1>2, <3>1 DEF HostTypes
      <3>3. g.requested = h.requested \/ g.requested = [h.requested EXCEPT ![r] = h.explicit[r]]
        BY <1>1, <3>2 DEF HostTypes
      <3> QED BY <1>2, <3>1, <3>3 DEF HostTypes
    <2>2. CASE result = "failed"
      BY <1>2, <1>3, <2>2 DEF HostTypes
    <2>3. CASE result \notin {"lost", "failed"}
      BY <1>2, <1>3, <2>3 DEF HostTypes
    <2> QED BY <2>1, <2>2, <2>3
  <1>7. HostTypes(g)
    BY <1>1, <1>4, <1>6 DEF HostTypes
  <1>8. \A q \in Runs, t \in Slots : Grounded(q, g.worker[<<q, t>>].intent)
    BY <1>1, <1>5, <1>6 DEF HostGrounded, Workers
  <1>9. HostGrounded(g)
    BY <1>1, <1>6, <1>8 DEF HostGrounded, HostTypes
  <1> QED BY <1>5, <1>6, <1>7, <1>9 DEF g

-----------------------------------------------------------------------------
(* What a step does to the host.                                           *)

\* The tables stay typed and grounded (in the facts as they were before the step), and only
\* Claim makes a worker claimed.
HostMoves ==
    /\ HostTypes(host') /\ HostGrounded(host')
    /\ \A w \in Workers : host'.worker[w].pc = "claimed" =>
          /\ host'.worker[w].intent = host.worker[w].intent
          /\ host.worker[w].pc = "claimed" \/ Claim(w)

\* Steps that only touch workers, each of which keeps its intent or forgets it.
LEMMA WorkersMoved ==
  ASSUME HostTypes(host), HostGrounded(host), DOMAIN host' = DOMAIN host,
         host'.requested \in [Runs -> Intents], host'.explicit \in [Runs -> Intents],
         \A r \in Runs : /\ host'.requested[r] \in {host.requested[r], NoIntent}
                         /\ host'.explicit[r] \in {host.explicit[r], NoIntent},
         DOMAIN host'.tasks = Runs, host'.retry \subseteq Runs, host'.deferred \subseteq Runs,
         host'.worker \in [Workers -> WorkerStates],
         \A w \in Workers : host'.worker[w].intent \in {host.worker[w].intent, NoIntent},
         \A w \in Workers : host'.worker[w].pc = "claimed" =>
            /\ host'.worker[w].intent = host.worker[w].intent
            /\ host.worker[w].pc = "claimed" \/ Claim(w)
  PROVE  HostMoves
  <1>1. HostTypes(host')
    BY DEF HostTypes
  <1>2. \A r \in Runs, s \in Slots : <<r, s>> \in Workers
    BY DEF Workers
  <1>3. HostGrounded(host')
    BY <1>2, NoIntentGrounded DEF HostGrounded
  <1> QED BY <1>1, <1>3 DEF HostMoves

LEMMA LaunchMoves ==
  ASSUME HostTypes(host), HostGrounded(host), NEW r \in Runs, NEW i \in Intents,
         Grounded(r, i), Launch(r, i)
  PROVE  HostMoves
  <1>1. Offers({Offer(r, i)})
    BY DEF Offers, Offer
  <1>2. host' = [Launched(host, {Offer(r, i)}) EXCEPT !.woke = FALSE]
    BY DEF Launch
  <1>3. HostTypes(host') /\ HostGrounded(host') /\ host'.worker = host.worker
    BY <1>1, <1>2, LaunchedGrounded, WokeForgotten
  <1> QED BY <1>3 DEF HostMoves

\* The scans offer grounded intents.
LEMMA ScansOffer ==
  ASSUME Types
  PROVE  Offers(ResumeOffers) /\ Offers(WaitOffers)
  <1>1. Offers(ResumeOffers)
    <2>1. ASSUME NEW c \in Commands, Launchable(c)
          PROVE  /\ c \in Nat /\ cmd[c].run \in Runs /\ ResumeIntent(c) \in Intents
                 /\ Grounded(cmd[c].run, ResumeIntent(c))
      BY <2>1, ResumeIntents, Sizes DEF Types, FactTypes, Launchable
    <2>2. \A c \in Batch(cut.resumes, StoredCommands) : c \in Commands
      BY DEF Batch, Rows, StoredCommands
    <2> QED BY <2>1, <2>2 DEF Offers, ResumeOffers
  <1>2. Offers(WaitOffers)
    <2>1. ASSUME NEW r \in Runs, <<r, run[r].seq>> \in replied
          PROVE  ReplyIntent(run[r].seq) \in Intents /\ Grounded(r, ReplyIntent(run[r].seq))
      BY <2>1, ReplyIntents DEF Types, RunTypes, RunRows
    <2>2. \A r \in Batch(cut.waits, ParkedRuns) : r \in Runs
      BY DEF Batch, Rows, ParkedRuns
    <2>3. ASSUME NEW o \in WaitOffers
          PROVE  \E r \in Runs : <<r, run[r].seq>> \in replied /\ o = Offer(r, ReplyIntent(run[r].seq))
      BY <2>2, Zenon DEF WaitOffers
    <2>4. \A r, i : Offer(r, i).key = 0 /\ Offer(r, i).run = r /\ Offer(r, i).intent = i
      BY DEF Offer
    <2>5. ASSUME NEW o \in WaitOffers
          PROVE  /\ o.key \in Nat /\ o.run \in Runs
                 /\ o.intent \in Intents /\ Grounded(o.run, o.intent)
      <3>1. PICK r \in Runs : <<r, run[r].seq>> \in replied /\ o = Offer(r, ReplyIntent(run[r].seq))
        BY <2>3
      <3>2. o.key = 0 /\ o.run = r /\ o.intent = ReplyIntent(run[r].seq)
        BY <2>4, <3>1
      <3> QED BY <2>1, <3>1, <3>2
    <2> QED BY <2>5 DEF Offers
  <1> QED BY <1>1, <1>2

LEMMA ScansGrounded ==
  ASSUME Types, HostGrounded(host)
  PROVE  LET h == Launched(Launched(host, ResumeOffers), WaitOffers)
         IN  HostTypes(h) /\ HostGrounded(h) /\ h.worker = host.worker
  <1>1. Offers(ResumeOffers) /\ Offers(WaitOffers)
    BY ScansOffer
  <1>2. /\ HostTypes(Launched(host, ResumeOffers)) /\ HostGrounded(Launched(host, ResumeOffers))
        /\ Launched(host, ResumeOffers).worker = host.worker
    BY <1>1, LaunchedGrounded DEF Types
  <1> QED BY <1>1, <1>2, LaunchedGrounded

LEMMA EmptyHostGrounded ==
  /\ HostTypes(EmptyHost) /\ HostGrounded(EmptyHost)
  /\ \A w \in Workers : EmptyHost.worker[w].pc = "idle"
  <1>1. IdleWorker \in WorkerStates /\ IdleWorker.pc = "idle" /\ IdleWorker.intent = NoIntent
    BY NoIntentGrounded DEF IdleWorker, WorkerStates
  <1>2. HostTypes(EmptyHost)
    BY <1>1, NoIntentGrounded DEF EmptyHost, HostTypes
  <1>3. \A r \in Runs, s \in Slots : <<r, s>> \in Workers
    BY DEF Workers
  <1>4. HostGrounded(EmptyHost)
    BY <1>1, <1>3, NoIntentGrounded DEF EmptyHost, HostGrounded
  <1> QED BY <1>1, <1>2, <1>4 DEF EmptyHost

LEMMA PumpMoves ==
  ASSUME Types, HostGrounded(host), PumpTick \/ PumpFails
  PROVE  HostMoves
  <1> DEFINE h == Launched(Launched(host, ResumeOffers), WaitOffers)
  <1>1. HostTypes(h) /\ HostGrounded(h) /\ h.worker = host.worker
    BY ScansGrounded
  <1>2. CASE PumpTick
    <2>1. host' = [FillCapacity(h) EXCEPT !.woke = FALSE]
      BY <1>2 DEF PumpTick
    <2> HIDE DEF h
    <2>2. /\ HostTypes(FillCapacity(h)) /\ HostGrounded(FillCapacity(h))
          /\ \A w \in Workers : FillCapacity(h).worker[w] = host.worker[w]
                               \/ FillCapacity(h).worker[w].pc = "created"
      BY <1>1, FillCapacityGrounded DEF Types
    <2>3. HostTypes(host') /\ HostGrounded(host') /\ host'.worker = FillCapacity(h).worker
      BY <2>1, <2>2, WokeForgotten
    <2> QED BY <2>2, <2>3 DEF HostMoves
  <1>3. CASE PumpFails
    <2>1. CASE UNCHANGED host
      BY <2>1 DEF HostMoves, Types
    <2>2. CASE host' = [h EXCEPT !.woke = FALSE]
      <3> HIDE DEF h
      <3>1. HostTypes(host') /\ HostGrounded(host') /\ host'.worker = host.worker
        BY <1>1, <2>2, WokeForgotten
      <3> QED BY <3>1 DEF HostMoves
    <2>3. CASE host' = EmptyHost
      BY <2>3, EmptyHostGrounded DEF HostMoves
    <2> QED BY <1>3, <2>1, <2>2, <2>3 DEF PumpFails
  <1> QED BY <1>2, <1>3

\* A worker's task ends.
LEMMA SettleMoves ==
  ASSUME Types, HostGrounded(host), NEW w \in Workers,
         NEW result \in {"none", "ok", "lost", "failed", "superseded", "dead", "cancelled"},
         host' = Settled(host, w, result)
  PROVE  HostMoves
  <1>1. HostTypes(host)
    BY DEF Types
  <1>2. /\ HostTypes(host') /\ HostGrounded(host') /\ host'.worker[w].pc = "done"
        /\ \A v \in Workers : v # w => host'.worker[v] = host.worker[v]
    <2>1. /\ HostTypes(Settled(host, w, result)) /\ HostGrounded(Settled(host, w, result))
          /\ Settled(host, w, result).worker[w].pc = "done"
          /\ \A v \in Workers : v # w => Settled(host, w, result).worker[v] = host.worker[v]
      BY <1>1, SettledGrounded
    <2> QED BY <2>1
  <1>3. \A v \in Workers : host'.worker[v].pc = "claimed" => host'.worker[v] = host.worker[v]
    BY <1>2
  <1> QED BY <1>2, <1>3 DEF HostMoves

\* A worker's task moves on.
LEMMA UnwindMoves ==
  ASSUME Types, HostGrounded(host), NEW w \in Workers,
         NEW result \in {"none", "ok", "lost", "failed", "superseded", "dead", "cancelled"},
         NEW p \in {"running", "unwinding", "done"},
         \/ host' = [host EXCEPT !.worker[w].pc = p, !.worker[w].result = result]
         \/ host' = [host EXCEPT !.worker[w].pc = p]
  PROVE  HostMoves
  <1>1. host.worker[w] \in WorkerStates
    BY DEF Types, HostTypes
  <1>2. PICK v \in {[host.worker[w] EXCEPT !.pc = p, !.result = result], [host.worker[w] EXCEPT !.pc = p]} :
           /\ DOMAIN host' = DOMAIN host /\ host'.requested = host.requested
           /\ host'.explicit = host.explicit /\ host'.tasks = host.tasks
           /\ host'.retry = host.retry /\ host'.deferred = host.deferred
           /\ host'.worker = [host.worker EXCEPT ![w] = v]
    <2>1. CASE host' = [host EXCEPT !.worker[w].pc = p, !.worker[w].result = result]
      BY <2>1 DEF Types, HostTypes
    <2>2. CASE host' = [host EXCEPT !.worker[w].pc = p]
      BY <2>2 DEF Types, HostTypes
    <2> QED BY <2>1, <2>2
  <1>3. v \in WorkerStates /\ v.pc = p /\ v.intent = host.worker[w].intent
    BY <1>1 DEF WorkerStates
  <1>4. /\ host'.worker \in [Workers -> WorkerStates]
        /\ \A u \in Workers : u # w => host'.worker[u] = host.worker[u]
    BY <1>2, <1>3 DEF Types, HostTypes
  <1>5. host'.worker[w].pc = p /\ host'.worker[w].intent = host.worker[w].intent
    BY <1>2, <1>3 DEF Types, HostTypes
  <1> QED BY <1>2, <1>4, <1>5, WorkersMoved DEF Types, HostTypes

LEMMA HostStep ==
  ASSUME Types, HostGrounded(host), Next
  PROVE  HostMoves
  <1> USE DEF Types
  <1>1. CASE UNCHANGED host
    BY <1>1 DEF HostMoves
  <1>2. CASE PumpTick \/ PumpFails
    BY <1>2, PumpMoves
  <1>3. CASE Crash
    <2>1. host' = EmptyHost
      BY <1>3 DEF Crash
    <2> QED BY <2>1, EmptyHostGrounded DEF HostMoves
  <1>4. CASE Shutdown
    <2> DEFINE next(w) == IF w \notin Tracked \/ host.worker[w].pc = "done" THEN host.worker[w]
                          ELSE [host.worker[w] EXCEPT
                                   !.pc = IF @ = "created" THEN "done" ELSE "unwinding",
                                   !.result = "cancelled", !.behind = {}]
    <2>1. host' = [host EXCEPT !.worker = [w \in Workers |-> next(w)]]
      BY <1>4 DEF Shutdown
    <2>2. \A w \in Workers : /\ next(w) \in WorkerStates /\ next(w).intent = host.worker[w].intent
                             /\ next(w).pc = "claimed" => host.worker[w].pc = "claimed"
      <3> SUFFICES ASSUME NEW w \in Workers
                   PROVE  /\ next(w) \in WorkerStates /\ next(w).intent = host.worker[w].intent
                          /\ next(w).pc = "claimed" => host.worker[w].pc = "claimed"
        OBVIOUS
      <3>1. host.worker[w] \in WorkerStates
        BY DEF HostTypes
      <3> QED BY <3>1 DEF WorkerStates
    <2> HIDE DEF next
    <2>3. /\ DOMAIN host' = DOMAIN host /\ host'.requested = host.requested
          /\ host'.explicit = host.explicit /\ host'.tasks = host.tasks
          /\ host'.retry = host.retry /\ host'.deferred = host.deferred
          /\ host'.worker = [w \in Workers |-> next(w)]
      BY <2>1 DEF HostTypes
    <2>4. /\ host'.worker \in [Workers -> WorkerStates]
          /\ \A w \in Workers : host'.worker[w].intent = host.worker[w].intent
          /\ \A w \in Workers : host'.worker[w].pc = "claimed" => host.worker[w].pc = "claimed"
      BY <2>2, <2>3
    <2> QED BY <2>3, <2>4, WorkersMoved DEF HostTypes
  <1>5. CASE ShutdownEnds
    <2>1. host' = [EmptyHost EXCEPT !.worker = host.worker]
      BY <1>5 DEF ShutdownEnds
    <2>2. /\ DOMAIN host' = DOMAIN EmptyHost /\ host'.requested = EmptyHost.requested
          /\ host'.explicit = EmptyHost.explicit /\ host'.tasks = EmptyHost.tasks
          /\ host'.retry = EmptyHost.retry /\ host'.deferred = EmptyHost.deferred
          /\ host'.worker = host.worker
      BY <2>1 DEF EmptyHost
    <2>3. HostTypes(host') /\ HostGrounded(host')
      BY <2>2, EmptyHostGrounded DEF HostTypes, HostGrounded
    <2> QED BY <2>2, <2>3 DEF HostMoves
  <1>6. ASSUME NEW w \in Workers, Claim(w) PROVE HostMoves
    <2>1. ASSUME NEW result \in {"superseded", "lost"}, host' = Settled(host, w, result) PROVE HostMoves
      BY <2>1, SettleMoves
    <2>2. CASE host' = [host EXCEPT !.worker[w].pc = "claimed", !.worker[w].behind = {}]
      <3> DEFINE v == [host.worker[w] EXCEPT !.pc = "claimed", !.behind = {}]
      <3>1. /\ DOMAIN host' = DOMAIN host /\ host'.requested = host.requested
            /\ host'.explicit = host.explicit /\ host'.tasks = host.tasks
            /\ host'.retry = host.retry /\ host'.deferred = host.deferred
            /\ host'.worker = [host.worker EXCEPT ![w] = v]
        BY <2>2 DEF HostTypes
      <3>2. host.worker[w] \in WorkerStates
        BY DEF HostTypes
      <3>3. v \in WorkerStates /\ v.intent = host.worker[w].intent
        BY <3>2 DEF WorkerStates
      <3> HIDE DEF v
      <3>4. /\ host'.worker \in [Workers -> WorkerStates] /\ host'.worker[w] = v
            /\ \A u \in Workers : u # w => host'.worker[u] = host.worker[u]
        BY <3>1, <3>3 DEF HostTypes
      <3>5. /\ \A u \in Workers : host'.worker[u].intent = host.worker[u].intent
            /\ \A u \in Workers : host'.worker[u].pc = "claimed" => host.worker[u].pc = "claimed" \/ Claim(u)
        BY <1>6, <3>3, <3>4
      <3> QED BY <3>1, <3>4, <3>5, WorkersMoved DEF HostTypes
    <2> QED BY <1>6, <2>1, <2>2 DEF Claim
  <1>7. ASSUME NEW w \in Workers, Begin(w) PROVE HostMoves
    <2>1. \/ host' = [host EXCEPT !.worker[w].pc = "running"]
          \/ host' = [host EXCEPT !.worker[w].pc = "unwinding", !.worker[w].result = "lost"]
      BY <1>7 DEF Begin, Unwind
    <2> QED BY <2>1, UnwindMoves
  <1>8. ASSUME NEW w \in Workers, Lose(w) \/ Raise(w) \/ \E status \in {"SUCCEEDED", "FAILED", "PARKED"} : End(w, status)
        PROVE  HostMoves
    <2>1. \E result \in {"ok", "lost", "failed"} :
             host' = [host EXCEPT !.worker[w].pc = "unwinding", !.worker[w].result = result]
      BY <1>8 DEF Lose, Raise, End, Unwind
    <2> QED BY <2>1, UnwindMoves
  <1>9. ASSUME NEW w \in Workers, HardDeath(w) PROVE HostMoves
    <2>1. host' = [host EXCEPT !.worker[w].pc = "done", !.worker[w].result = "dead"]
      BY <1>9 DEF HardDeath
    <2> QED BY <2>1, UnwindMoves
  <1>10. ASSUME NEW w \in Workers, Return(w) \/ ActivationFails(w) PROVE HostMoves
    <2>1. host.worker[w].result \in {"none", "ok", "lost", "failed", "superseded", "dead", "cancelled"}
      BY DEF HostTypes, WorkerStates
    <2>2. \E result \in {"none", "ok", "lost", "failed", "superseded", "dead", "cancelled"} :
             host' = Settled(host, w, result)
      BY <1>10, <2>1 DEF Return, ActivationFails
    <2> QED BY <2>2, SettleMoves
  <1>11. ASSUME NEW w \in Workers, Finished(w) PROVE HostMoves
    <2>1. w[1] \in Runs
      BY DEF Workers
    <2>2. /\ DOMAIN host' = DOMAIN host /\ host'.requested = host.requested /\ host'.retry = host.retry
          /\ host'.explicit = [host.explicit EXCEPT ![w[1]] = IF Retires(w) THEN NoIntent ELSE @]
          /\ host'.tasks = [host.tasks EXCEPT ![w[1]] = IF Retires(w) THEN NoSlot ELSE @]
          /\ host'.worker = [host.worker EXCEPT ![w] = IdleWorker]
          /\ host'.deferred \subseteq host.deferred \cup {w[1]}
      BY <1>11 DEF Finished, HostTypes
    <2>3. IdleWorker \in WorkerStates /\ IdleWorker.pc = "idle" /\ IdleWorker.intent = NoIntent
      BY NoIntentGrounded DEF IdleWorker, WorkerStates
    <2>4. /\ host'.worker \in [Workers -> WorkerStates] /\ host'.worker[w] = IdleWorker
          /\ \A u \in Workers : u # w => host'.worker[u] = host.worker[u]
      BY <2>2, <2>3 DEF HostTypes
    <2>5. /\ host'.explicit \in [Runs -> Intents]
          /\ \A r \in Runs : host'.explicit[r] \in {host.explicit[r], NoIntent}
      BY <2>1, <2>2, NoIntentGrounded DEF HostTypes
    <2> QED BY <2>1, <2>2, <2>3, <2>4, <2>5, WorkersMoved DEF HostTypes
  <1>12. ASSUME NEW r \in Runs, RetryDue(r) PROVE HostMoves
    <2>1. /\ DOMAIN host' = DOMAIN host /\ host'.requested = host.requested
          /\ host'.explicit = host.explicit /\ host'.tasks = host.tasks
          /\ host'.retry \subseteq host.retry /\ host'.deferred = host.deferred
          /\ host'.worker = host.worker
      BY <1>12 DEF RetryDue, HostTypes
    <2> QED BY <2>1, WorkersMoved DEF HostTypes
  <1>13. ASSUME NEW r \in Runs, LaunchNew(r) \/ LaunchUnbound(r) PROVE HostMoves
    <2>1. run[r].seq \in Nat
      BY DEF RunTypes, RunRows
    <2>2. \E i \in {Intent(run[r].seq, Recoverable, NoCause), Intent(Unbound, Resumable, NoCause)} : Launch(r, i)
      BY <1>13 DEF LaunchNew, LaunchUnbound
    <2> QED BY <2>1, <2>2, BareIntents, LaunchMoves
  <1>14. ASSUME NEW c \in Commands, DriveResume(c) \/ ReplayResume(c) PROVE HostMoves
    <2>1. UNCHANGED host \/ (Launch(cmd[c].run, ResumeIntent(c)) /\ cmd[c].state # "absent")
      BY <1>14 DEF DriveResume, ReplayResume
    <2>2. cmd[c].state # "absent" => cmd[c].run \in Runs
      BY DEF FactTypes
    <2> QED BY <1>1, <2>1, <2>2, ResumeIntents, LaunchMoves
  <1>15. ASSUME NEW answer \in replied, DeliverReply(answer[1], answer[2]) PROVE HostMoves
    <2>1. answer[1] \in Runs /\ answer[2] \in Nat /\ <<answer[1], answer[2]>> \in replied
      BY <1>15 DEF FactTypes
    <2>2. Launch(answer[1], ReplyIntent(answer[2]))
      BY <1>15 DEF DeliverReply
    <2> QED BY <2>1, <2>2, ReplyIntents, LaunchMoves
  <1>16. CASE \/ Recover
              \/ \E w \in Workers : Progress(w)
              \/ \E c \in Commands, r \in Runs : PlanResume(c, r)
              \/ \E r \in Runs : Reply(r) \/ LeaseLapses(r) \/ Stall(r) \/ RivalClaims(r) \/ RivalStep(r)
    BY <1>1, <1>16 DEF Recover, Progress, PlanResume, Reply, LeaseLapses, Stall, RivalClaims, RivalStep,
       RivalBegins, RivalEnds
  <1> QED BY <1>2, <1>3, <1>4, <1>5, <1>6, <1>7, <1>8, <1>9, <1>10, <1>11, <1>12, <1>13, <1>14, <1>15, <1>16
          DEF Next, Step, WorkerStep, WorkerFault

-----------------------------------------------------------------------------
(* What a step does to the journal.                                        *)

\* A run's status and sequence change only under a lease that no claimed worker holds.
RunMoves ==
    /\ RunTypes'
    /\ \A r \in Runs :
          \/ run'[r].status = run[r].status /\ run'[r].seq = run[r].seq
          \/ run'[r].owner \notin Slots
          \/ host'.worker[<<r, run'[r].owner>>].pc # "claimed"

\* A lease changes hands to a claimed worker only in that worker's Claim.
LeaseMoves ==
    \A r \in Runs, s \in Slots :
        run'[r].owner = s /\ run[r].owner # s => Claim(<<r, s>>)

LEMMA OwnersDiffer ==
  \A s \in Slots : s # "nobody" /\ s # "gone" /\ s # "rival" /\ s # "rival begun"
  <1>1. Slots \cap {"nobody", "gone", "rival", "rival begun"} = {}
    BY SizeAssumption
  <1> QED BY <1>1

\* The journal's row of a run, one event later or under another lease.
LEMMA RowsAdvance ==
  ASSUME NEW x \in RunRows
  PROVE  /\ [x EXCEPT !.seq = @ + 1] \in RunRows /\ [x EXCEPT !.seq = @ + 1].owner = x.owner
         /\ \A status \in Statuses :
              /\ [x EXCEPT !.seq = @ + 1, !.status = status] \in RunRows
              /\ [x EXCEPT !.seq = @ + 1, !.status = status].owner = x.owner
  <1>1. x.seq + 1 \in Nat
    BY DEF RunRows
  <1>2. ASSUME NEW n \in Nat, NEW status \in Statuses
        PROVE  /\ [x EXCEPT !.seq = n, !.status = status] \in RunRows
               /\ [x EXCEPT !.seq = n, !.status = status].owner = x.owner
    BY Zenon DEF RunRows
  <1>3. ASSUME NEW n \in Nat
        PROVE  [x EXCEPT !.seq = n] \in RunRows /\ [x EXCEPT !.seq = n].owner = x.owner
    BY Zenon DEF RunRows
  <1> QED BY <1>1, <1>2, <1>3, Zenon

LEMMA RowsChange ==
  ASSUME NEW x \in RunRows, NEW status \in Statuses, NEW owner \in Owners, NEW live \in BOOLEAN
  PROVE  /\ [x EXCEPT !.owner = owner, !.seq = @ + 1, !.status = status] \in RunRows
         /\ [x EXCEPT !.seq = @ + 1, !.status = status, !.owner = owner, !.live = live] \in RunRows
  <1>1. x.seq + 1 \in Nat
    BY DEF RunRows
  <1>2. ASSUME NEW n \in Nat
        PROVE  /\ [x EXCEPT !.owner = owner, !.seq = n, !.status = status] \in RunRows
               /\ [x EXCEPT !.seq = n, !.status = status, !.owner = owner, !.live = live] \in RunRows
    BY Zenon DEF RunRows
  <1> QED BY <1>1, <1>2, Zenon

LEMMA RunStep ==
  ASSUME Types, Next
  PROVE  RunMoves /\ LeaseMoves
  <1> USE DEF Types
  <1>1. CASE UNCHANGED run
    <2>1. RunTypes'
      BY <1>1 DEF RunTypes
    <2> QED BY <1>1, <2>1 DEF RunMoves, LeaseMoves
  <1>2. ASSUME NEW r \in Runs, NEW rec, run' = [run EXCEPT ![r] = rec],
               rec \in RunRows,
               \/ rec.status = run[r].status /\ rec.seq = run[r].seq
               \/ rec.owner \notin Slots
               \/ host'.worker[<<r, rec.owner>>].pc # "claimed",
               \/ rec.owner = run[r].owner
               \/ rec.owner \notin Slots
               \/ Claim(<<r, rec.owner>>)
        PROVE  RunMoves /\ LeaseMoves
    <2>1. run'[r] = rec /\ \A q \in Runs : q # r => run'[q] = run[q]
      BY <1>2 DEF RunTypes
    <2>2. RunTypes'
      BY <1>2 DEF RunTypes
    <2>3. LeaseMoves
      BY <1>2, <2>1 DEF LeaseMoves
    <2> QED BY <1>2, <2>1, <2>2, <2>3 DEF RunMoves
  <1>3. \A r \in Runs : run[r] \in RunRows
    BY DEF RunTypes
  <1>4. \A w \in Workers : w[1] \in Runs /\ w[2] \in Slots /\ w = <<w[1], w[2]>>
    BY DEF Workers
  <1>5. ASSUME NEW w \in Workers, Claim(w) PROVE RunMoves /\ LeaseMoves
    <2>1. CASE UNCHANGED run
      BY <1>1, <2>1
    <2>2. CASE run' = [run EXCEPT ![w[1]].owner = w[2], ![w[1]].live = TRUE]
      <3> DEFINE rec == [run[w[1]] EXCEPT !.owner = w[2], !.live = TRUE]
      <3>1. run' = [run EXCEPT ![w[1]] = rec]
        BY <1>4, <2>2 DEF RunTypes
      <3>2. /\ rec \in RunRows
            /\ rec.status = run[w[1]].status /\ rec.seq = run[w[1]].seq /\ rec.owner = w[2]
        BY <1>3, <1>4 DEF RunRows, Owners
      <3> QED BY <1>2, <1>4, <1>5, <3>1, <3>2
    <2> QED BY <1>5, <2>1, <2>2 DEF Claim
  <1>6. ASSUME NEW w \in Workers, Begin(w) PROVE RunMoves /\ LeaseMoves
    <2>1. CASE ~ Owns(w)
      BY <1>1, <1>6, <2>1 DEF Begin
    <2>2. CASE Owns(w)
      <3> DEFINE rec == [run[w[1]] EXCEPT !.seq = @ + 1, !.status = "RUNNING"]
      <3>1. /\ run' = [run EXCEPT ![w[1]].seq = @ + 1, ![w[1]].status = "RUNNING"]
            /\ host' = [host EXCEPT !.worker[w].pc = "running"]
        BY <1>6, <2>2 DEF Begin
      <3>2. run' = [run EXCEPT ![w[1]] = rec]
        BY <1>4, <3>1 DEF RunTypes
      <3>3. host'.worker[w].pc = "running"
        BY <3>1 DEF HostTypes, WorkerStates
      <3>4. /\ rec \in RunRows
            /\ rec.owner = w[2] /\ run[w[1]].owner = w[2]
        BY <1>3, <1>4, <2>2, RowsAdvance DEF Owns, Statuses, Resumable
      <3> QED BY <1>2, <1>4, <3>2, <3>3, <3>4
    <2> QED BY <2>1, <2>2
  <1>7. ASSUME NEW w \in Workers, Progress(w) PROVE RunMoves /\ LeaseMoves
    <2> DEFINE rec == [run[w[1]] EXCEPT !.seq = @ + 1]
    <2>1. run' = [run EXCEPT ![w[1]] = rec]
      BY <1>4, <1>7 DEF Progress, RunTypes
    <2>2. host'.worker[w].pc = "running" /\ run[w[1]].owner = w[2]
      BY <1>7 DEF Progress, Running, Owns
    <2>3. /\ rec \in RunRows
          /\ rec.owner = w[2]
      BY <1>3, <1>4, <2>2, RowsAdvance
    <2> QED BY <1>2, <1>4, <2>1, <2>2, <2>3
  <1>8. ASSUME NEW w \in Workers, NEW status \in {"SUCCEEDED", "FAILED", "PARKED"}, End(w, status)
        PROVE  RunMoves /\ LeaseMoves
    <2> DEFINE rec == [run[w[1]] EXCEPT !.seq = @ + 1, !.status = status]
    <2>1. run' = [run EXCEPT ![w[1]] = rec]
      BY <1>4, <1>8 DEF End, RunTypes
    <2>2. host' = [host EXCEPT !.worker[w].pc = "unwinding", !.worker[w].result = "ok"]
      BY <1>8 DEF End, Unwind
    <2>3. host'.worker[w].pc = "unwinding" /\ run[w[1]].owner = w[2]
      BY <1>8, <2>2 DEF End, Owns, HostTypes, WorkerStates
    <2>4. /\ rec \in RunRows
          /\ rec.owner = w[2]
      BY <1>3, <1>4, <2>3, RowsAdvance DEF Statuses, Resumable
    <2> QED BY <1>2, <1>4, <2>1, <2>3, <2>4
  <1>9. ASSUME NEW w \in Workers, HardDeath(w) \/ Return(w) PROVE RunMoves /\ LeaseMoves
    <2>1. CASE UNCHANGED run
      BY <1>1, <2>1
    <2>2. ASSUME NEW o \in {"gone", "nobody"}, NEW l \in BOOLEAN,
                 run' = [run EXCEPT ![w[1]] = [run[w[1]] EXCEPT !.owner = o, !.live = l]]
          PROVE  RunMoves /\ LeaseMoves
      <3> DEFINE rec == [run[w[1]] EXCEPT !.owner = o, !.live = l]
      <3>1. /\ rec \in RunRows
            /\ rec.owner = o /\ o \notin Slots
        BY <1>3, <1>4, OwnersDiffer DEF RunRows, Owners
      <3> QED BY <1>2, <1>4, <2>2, <3>1
    <2>3. CASE HardDeath(w)
      <3>1. run' = run \/ run' = [run EXCEPT ![w[1]].owner = "gone"]
        BY <2>3 DEF HardDeath
      <3>2. [run[w[1]] EXCEPT !.owner = "gone"] = [run[w[1]] EXCEPT !.owner = "gone", !.live = run[w[1]].live]
        BY <1>3, <1>4
      <3>3. run[w[1]].live \in BOOLEAN
        BY <1>3, <1>4 DEF RunRows
      <3> QED BY <1>4, <2>1, <2>2, <3>1, <3>2, <3>3 DEF RunTypes
    <2>4. CASE Return(w)
      <3>1. run' = run \/ run' = [run EXCEPT ![w[1]].owner = "nobody", ![w[1]].live = FALSE]
        BY <2>4 DEF Return, Released
      <3>2. run' = run \/ run' = [run EXCEPT ![w[1]] = [run[w[1]] EXCEPT !.owner = "nobody", !.live = FALSE]]
        BY <1>4, <3>1 DEF RunTypes
      <3> QED BY <2>1, <2>2, <3>2
    <2> QED BY <1>9, <2>3, <2>4
  <1>10. ASSUME NEW r \in Runs, LeaseLapses(r) \/ Stall(r) PROVE RunMoves /\ LeaseMoves
    <2> DEFINE rec == [run[r] EXCEPT !.live = FALSE]
    <2>1. run' = [run EXCEPT ![r] = rec]
      BY <1>10 DEF LeaseLapses, Stall, RunTypes
    <2>2. /\ rec \in RunRows
          /\ rec.owner = run[r].owner /\ rec.status = run[r].status /\ rec.seq = run[r].seq
      BY <1>3 DEF RunRows
    <2> QED BY <1>2, <2>1, <2>2
  <1>11. ASSUME NEW r \in Runs, RivalClaims(r) \/ RivalStep(r) PROVE RunMoves /\ LeaseMoves
    <2>1. ASSUME NEW rec \in RunRows, rec.owner \in {"nobody", "rival", "rival begun"},
                 run' = [run EXCEPT ![r] = rec]
          PROVE  RunMoves /\ LeaseMoves
      <3>1. rec.owner \notin Slots
        BY <2>1, OwnersDiffer
      <3> QED BY <1>2, <2>1, <3>1
    <2>2. CASE RivalClaims(r)
      <3> DEFINE rec == [run[r] EXCEPT !.owner = "rival", !.live = TRUE]
      <3>1. run' = [run EXCEPT ![r] = rec]
        BY <2>2 DEF RivalClaims, RunTypes
      <3>2. rec \in RunRows /\ rec.owner = "rival"
        BY <1>3 DEF RunRows, Owners
      <3> QED BY <2>1, <3>1, <3>2
    <2>3. CASE RivalBegins(r)
      <3> DEFINE rec == [run[r] EXCEPT !.owner = "rival begun", !.seq = @ + 1, !.status = "RUNNING"]
      <3>1. run' = [run EXCEPT ![r] = rec]
        BY <2>3 DEF RivalBegins, RunTypes
      <3>2. rec \in RunRows
        BY <1>3, RowsChange DEF Statuses, Resumable, Owners
      <3>3. rec.owner = "rival begun"
        BY <1>3 DEF RunRows
      <3> QED BY <2>1, <3>1, <3>2, <3>3
    <2>4. ASSUME NEW status \in {"SUCCEEDED", "FAILED", "PARKED"}, RivalEnds(r, status)
          PROVE  RunMoves /\ LeaseMoves
      <3> DEFINE rec == [run[r] EXCEPT !.seq = @ + 1, !.status = status, !.owner = "nobody", !.live = FALSE]
      <3>1. run' = [run EXCEPT ![r] = rec]
        BY <2>4 DEF RivalEnds, RunTypes
      <3>2. rec \in RunRows
        BY <1>3, RowsChange DEF Statuses, Resumable, Owners
      <3>3. rec.owner = "nobody"
        BY <1>3 DEF RunRows
      <3> QED BY <2>1, <3>1, <3>2, <3>3
    <2> QED BY <1>11, <2>2, <2>3, <2>4 DEF RivalStep
  <1>12. CASE Crash
    <2>1. run' = [r \in Runs |-> IF run[r].owner \in Slots THEN [run[r] EXCEPT !.owner = "gone"] ELSE run[r]]
      BY <1>12 DEF Crash
    <2>2. \A r \in Runs : /\ run'[r].owner \notin Slots
                          /\ run'[r] \in RunRows
      BY <1>3, <2>1, OwnersDiffer DEF RunRows, Owners
    <2>3. RunTypes'
      BY <2>1, <2>2 DEF RunTypes
    <2> QED BY <2>2, <2>3 DEF RunMoves, LeaseMoves
  <1>13. CASE \/ PumpTick \/ PumpFails \/ Recover \/ Shutdown \/ ShutdownEnds
              \/ \E w \in Workers : Lose(w) \/ Finished(w) \/ ActivationFails(w) \/ Raise(w)
              \/ \E c \in Commands : DriveResume(c) \/ ReplayResume(c) \/ \E r \in Runs : PlanResume(c, r)
              \/ \E r \in Runs : LaunchNew(r) \/ LaunchUnbound(r) \/ Reply(r) \/ RetryDue(r)
              \/ \E answer \in replied : DeliverReply(answer[1], answer[2])
    <2>1. UNCHANGED run
      BY <1>13 DEF PumpTick, PumpFails, Recover, Shutdown, ShutdownEnds, Lose, Finished, ActivationFails,
         Raise, DriveResume, ReplayResume, PlanResume, LaunchNew, LaunchUnbound, Reply, RetryDue,
         DeliverReply, durable
    <2> QED BY <1>1, <2>1
  <1> QED BY <1>5, <1>6, <1>7, <1>8, <1>9, <1>10, <1>11, <1>12, <1>13
          DEF Next, Step, WorkerStep, WorkerFault

\* Plans and replies are only added, and a plan is never rewritten.
LEMMA FactsStep ==
  ASSUME Types, Next
  PROVE  FactTypes' /\ FactsGrow
  <1> USE DEF Types
  <1>1. CASE UNCHANGED <<cmd, replied>>
    BY <1>1 DEF FactTypes, FactsGrow
  <1>2. ASSUME NEW c \in Commands, DriveResume(c) PROVE FactTypes' /\ FactsGrow
    <2>1. cmd' = cmd \/ \E state \in {"committed", "rejected"} : cmd' = [cmd EXCEPT ![c].state = state]
      BY <1>2 DEF DriveResume, Complete
    <2>2. UNCHANGED replied /\ cmd[c].state = "prepared"
      BY <1>2 DEF DriveResume
    <2>3. ASSUME NEW state \in {"committed", "rejected"}, cmd' = [cmd EXCEPT ![c].state = state]
          PROVE  FactTypes' /\ FactsGrow
      <3>1. /\ cmd'[c].state = state /\ cmd'[c].run = cmd[c].run /\ cmd'[c].base = cmd[c].base
            /\ \A d \in Commands : d # c => cmd'[d] = cmd[d]
        BY <2>3 DEF FactTypes
      <3>2. cmd' \in [Commands -> [state : {"absent", "prepared", "committed", "rejected"}, run : Nat, base : Nat]]
        BY <2>3 DEF FactTypes
      <3> QED BY <2>2, <3>1, <3>2 DEF FactTypes, FactsGrow
    <2> QED BY <1>1, <2>1, <2>2, <2>3
  <1>3. ASSUME NEW c \in Commands, NEW r \in Runs, PlanResume(c, r) PROVE FactTypes' /\ FactsGrow
    <2>1. run[r].seq \in Nat /\ r \in Nat
      BY Sizes DEF RunTypes, RunRows
    <2>2. cmd[c].state = "absent" /\ UNCHANGED replied
      BY <1>3 DEF PlanResume
    <2>3. cmd' = [cmd EXCEPT ![c] = [state |-> "prepared", run |-> r, base |-> run[r].seq]]
      BY <1>3 DEF PlanResume
    <2> QED BY <2>1, <2>2, <2>3 DEF FactTypes, FactsGrow
  <1>4. ASSUME NEW w \in Workers, NEW status, End(w, status) PROVE FactTypes' /\ FactsGrow
    <2>1. w[1] \in Runs
      BY DEF Workers
    <2>2. run[w[1]].seq + 1 \in Nat
      BY <2>1 DEF RunTypes, RunRows
    <2>3. cmd' = cmd /\ (replied' = replied \/ replied' = replied \cup {<<w[1], run[w[1]].seq + 1>>})
      BY <1>4 DEF End
    <2> QED BY <2>1, <2>2, <2>3 DEF FactTypes, FactsGrow
  <1>5. ASSUME NEW r \in Runs, Reply(r) PROVE FactTypes' /\ FactsGrow
    <2>1. run[r].seq \in Nat
      BY DEF RunTypes, RunRows
    <2> QED BY <1>5, <2>1 DEF Reply, FactTypes, FactsGrow
  <1>6. CASE \/ PumpTick \/ PumpFails \/ Recover \/ Shutdown \/ ShutdownEnds \/ Crash
             \/ \E w \in Workers : \/ Claim(w) \/ Begin(w) \/ Lose(w) \/ Return(w) \/ Finished(w)
                                   \/ WorkerFault(w)
             \/ \E c \in Commands : ReplayResume(c)
             \/ \E r \in Runs : \/ LaunchNew(r) \/ LaunchUnbound(r) \/ RetryDue(r) \/ LeaseLapses(r)
                                \/ Stall(r) \/ RivalClaims(r) \/ RivalStep(r)
             \/ \E answer \in replied : DeliverReply(answer[1], answer[2])
    <2>1. UNCHANGED <<cmd, replied>>
      BY <1>6 DEF PumpTick, PumpFails, Recover, Shutdown, ShutdownEnds, Crash, Claim, Begin, Lose, Return,
         Finished, WorkerFault, ActivationFails, Progress, Raise, HardDeath, ReplayResume, LaunchNew,
         LaunchUnbound, RetryDue, LeaseLapses, Stall, RivalClaims, RivalStep, RivalBegins, RivalEnds,
         DeliverReply, durable
    <2> QED BY <1>1, <2>1
  <1> QED BY <1>2, <1>3, <1>4, <1>5, <1>6 DEF Next, Step, WorkerStep

\* Only Begin begins an attempt.
LEMMA BegunStep ==
  ASSUME Next
  PROVE  \/ UNCHANGED begun
         \/ \E w \in Workers : Begin(w) /\ Owns(w)
  <1>1. ASSUME NEW w \in Workers, Begin(w) PROVE UNCHANGED begun \/ Owns(w)
    BY <1>1 DEF Begin
  <1>2. CASE \/ PumpTick \/ PumpFails \/ Recover \/ Shutdown \/ ShutdownEnds \/ Crash
             \/ \E w \in Workers : \/ Claim(w) \/ Lose(w) \/ Return(w) \/ Finished(w) \/ WorkerFault(w)
                                   \/ \E status \in {"SUCCEEDED", "FAILED", "PARKED"} : End(w, status)
             \/ \E c \in Commands : DriveResume(c) \/ ReplayResume(c) \/ \E r \in Runs : PlanResume(c, r)
             \/ \E r \in Runs : \/ LaunchNew(r) \/ LaunchUnbound(r) \/ Reply(r) \/ RetryDue(r)
                                \/ LeaseLapses(r) \/ Stall(r) \/ RivalClaims(r) \/ RivalStep(r)
             \/ \E answer \in replied : DeliverReply(answer[1], answer[2])
    BY <1>2 DEF PumpTick, PumpFails, Recover, Shutdown, ShutdownEnds, Crash, Claim, Lose, Return, End,
       Finished, WorkerFault, ActivationFails, Progress, Raise, HardDeath, DriveResume, ReplayResume,
       PlanResume, LaunchNew, LaunchUnbound, Reply, RetryDue, LeaseLapses, Stall, RivalClaims, RivalStep,
       RivalBegins, RivalEnds, DeliverReply, durable
  <1> QED BY <1>1, <1>2 DEF Next, Step, WorkerStep

-----------------------------------------------------------------------------
(* The theorem.                                                            *)

LEMMA InitFence == Init => FenceInv
  <1> SUFFICES ASSUME Init PROVE FenceInv
    OBVIOUS
  <1>1. world \in World
    BY WorldsAssumption DEF Init
  <1>2. RunTypes
    BY DEF Init, RunTypes, RunRows, Owners, Statuses, Resumable
  <1>3. FactTypes
    BY DEF Init, FactTypes, NoCommand
  <1>4. HostTypes(host) /\ HostGrounded(host) /\ \A w \in Workers : host.worker[w].pc = "idle"
    BY EmptyHostGrounded DEF Init
  <1>5. ClaimsFit
    BY <1>4 DEF ClaimsFit, Workers
  <1>6. BegunGrounded
    BY DEF Init, BegunGrounded
  <1> QED BY <1>1, <1>2, <1>3, <1>4, <1>5, <1>6 DEF FenceInv, Types

\* A claim that goes through saw the fence hold.
LEMMA ClaimedFits ==
  ASSUME Types, HostGrounded(host), NEW w \in Workers, Claim(w), host'.worker[w].pc = "claimed"
  PROVE  Fits(w[1], host.worker[w].intent)
  <1>1. HostTypes(host)
    BY DEF Types
  <1>2. /\ Settled(host, w, "superseded").worker[w].pc = "done"
        /\ Settled(host, w, "lost").worker[w].pc = "done"
    BY <1>1, SettledGrounded
  <1> QED BY <1>2 DEF Claim, ClaimAdmits

LEMMA StepFence == FenceInv /\ [Next]_vars => FenceInv'
  <1> SUFFICES ASSUME FenceInv, [Next]_vars PROVE FenceInv'
    OBVIOUS
  <1> USE DEF FenceInv
  <1>1. CASE Next
    <2>1. HostMoves /\ RunMoves /\ LeaseMoves /\ FactTypes' /\ FactsGrow
      BY <1>1, HostStep, RunStep, FactsStep
    <2>2. Types'
      BY <1>1, <2>1 DEF Types, HostMoves, RunMoves, Next, HostTypes
    <2>3. HostGrounded(host)'
      <3>1. ASSUME NEW r \in Runs
            PROVE  /\ Grounded(r, host'.requested[r]) /\ Grounded(r, host'.explicit[r])
                   /\ \A s \in Slots : Grounded(r, host'.worker[<<r, s>>].intent)
        BY <2>1 DEF HostMoves, HostGrounded
      <3>2. ASSUME NEW r, NEW i, Grounded(r, i)
            PROVE  /\ \A c \in Commands : i.cause = ResumeCause(c) =>
                         cmd'[c].state # "absent" /\ cmd'[c].run = r /\ cmd'[c].base = i.base
                   /\ \A n \in Nat : i.cause = ReplyCause(n) =>
                         i.base = n /\ i.allowed = {"PARKED"} /\ <<r, n>> \in replied'
                   /\ i.cause = NoCause => i.base = Unbound \/ i.allowed \subseteq Recoverable
        BY <2>1, <3>2 DEF Grounded, FactsGrow
      <3>3. ASSUME NEW r \in Runs
            PROVE  /\ Grounded(r, host.requested[r])' /\ Grounded(r, host.explicit[r])'
                   /\ \A s \in Slots : Grounded(r, host.worker[<<r, s>>].intent)'
        <4>1. Grounded(r, host.requested[r])'
          <5>1. Grounded(r, host'.requested[r])
            BY <3>1
          <5> QED BY <3>2, <5>1 DEF Grounded
        <4>2. Grounded(r, host.explicit[r])'
          <5>1. Grounded(r, host'.explicit[r])
            BY <3>1
          <5> QED BY <3>2, <5>1 DEF Grounded
        <4>3. ASSUME NEW s \in Slots PROVE Grounded(r, host.worker[<<r, s>>].intent)'
          <5>1. Grounded(r, host'.worker[<<r, s>>].intent)
            BY <3>1
          <5> QED BY <3>2, <5>1 DEF Grounded
        <4> QED BY <4>1, <4>2, <4>3
      <3> QED BY <3>3 DEF HostGrounded
    <2>4. ClaimsFit'
      <3> SUFFICES ASSUME NEW r \in Runs, NEW s \in Slots,
                          host'.worker[<<r, s>>].pc = "claimed", run'[r].owner = s
                   PROVE  Fits(r, host.worker[<<r, s>>].intent)'
        BY DEF ClaimsFit, Owns
      <3> DEFINE w == <<r, s>>
      <3>1. w \in Workers
        BY DEF Workers
      <3>2. /\ host'.worker[w].intent = host.worker[w].intent
            /\ host.worker[w].pc = "claimed" \/ Claim(w)
        BY <2>1, <3>1 DEF HostMoves
      <3>3. run'[r].status = run[r].status /\ run'[r].seq = run[r].seq
        BY <2>1 DEF RunMoves
      <3>4. ASSUME Claim(w) PROVE Fits(r, host.worker[w].intent)
        <4>1. w[1] = r /\ host'.worker[w].pc = "claimed"
          OBVIOUS
        <4> HIDE DEF w
        <4> QED BY <3>1, <3>4, <4>1, ClaimedFits
      <3>5. ASSUME host.worker[w].pc = "claimed", ~ Claim(w) PROVE Fits(r, host.worker[w].intent)
        BY <2>1, <3>5 DEF LeaseMoves, ClaimsFit, Owns
      <3> QED BY <3>2, <3>3, <3>4, <3>5 DEF Fits
    <2>5. BegunGrounded'
      <3>1. CASE UNCHANGED begun
        BY <2>1, <3>1 DEF BegunGrounded, FactsGrow
      <3>2. ASSUME NEW w \in Workers, Begin(w), Owns(w) PROVE BegunGrounded'
        <4> DEFINE r == w[1]
                   i == host.worker[w].intent
                   a == [run |-> r, at |-> run[r].seq, from |-> run[r].status,
                         cause |-> i.cause, unbound |-> i.base = Unbound]
        <4>1. r \in Runs /\ w[2] \in Slots /\ w = <<r, w[2]>>
          BY DEF Workers
        <4>2. Fits(r, i) /\ Grounded(r, i) /\ run[r].seq \in Nat
          <5>1. host.worker[<<r, w[2]>>].pc = "claimed" /\ Owns(<<r, w[2]>>)
            BY <3>2, <4>1 DEF Begin
          <5>2. run[r].seq \in Nat
            BY <4>1 DEF Types, RunTypes, RunRows
          <5> QED BY <4>1, <5>1, <5>2 DEF ClaimsFit, HostGrounded
        <4>3. begun' = begun \cup {a} /\ UNCHANGED <<cmd, replied>>
          BY <3>2 DEF Begin
        <4>4. i \in Intents
          BY DEF Types, HostTypes, WorkerStates
        <4> HIDE DEF i
        <4>5. /\ \A c \in Commands : a.cause = ResumeCause(c) =>
                    cmd[c].state # "absent" /\ cmd[c].run = a.run /\ cmd[c].base = a.at
              /\ \A n \in Nat : a.cause = ReplyCause(n) =>
                    n = a.at /\ <<a.run, n>> \in replied /\ a.from = "PARKED"
              /\ a.from \in {"FAILED", "PARKED"} => a.cause # NoCause \/ a.unbound
          <5>1. \A c \in Commands : cmd[c].base # Unbound
            BY DEF Types, FactTypes, Unbound
          <5>2. \A n \in Nat : n # Unbound
            BY DEF Unbound
          <5> QED BY <4>2, <4>4, <5>1, <5>2 DEF Fits, Grounded, Recoverable
        <4> HIDE DEF a
        <4> QED BY <4>3, <4>5 DEF BegunGrounded
      <3> QED BY <1>1, <3>1, <3>2, BegunStep
    <2> QED BY <2>2, <2>3, <2>4, <2>5
  <1>2. CASE UNCHANGED vars
    <2>1. Types'
      BY <1>2 DEF vars, Types, RunTypes, FactTypes, HostTypes
    <2>2. HostGrounded(host)' /\ BegunGrounded'
      BY <1>2 DEF vars, HostGrounded, Grounded, BegunGrounded
    <2>3. ClaimsFit'
      BY <1>2 DEF vars, ClaimsFit, Owns, Fits
    <2> QED BY <2>1, <2>2, <2>3
  <1> QED BY <1>1, <1>2

\* Every attempt this host begins starts at the fence of the fact that caused it: a resume
\* command's frozen sequence or the very park a reply answers, and nothing but those or an
\* unbound launch revives a FAILED or PARKED run (claim_run's fence against launch, scans,
\* requeues, rivals, stalls, crashes and restarts, in any number).
THEOREM AttemptsFenced == Spec => []AttemptsAreFenced
  <1>1. FenceInv => AttemptsAreFenced
    <2>1. world.maxSeq \in Nat => 0 .. world.maxSeq \subseteq Nat
      OBVIOUS
    <2>2. world \in World => world.maxSeq \in Nat
      BY DEF World
    <2> QED BY <2>1, <2>2 DEF FenceInv, Types, BegunGrounded, AttemptsAreFenced
  <1>2. Spec => []FenceInv
    BY InitFence, StepFence, PTL DEF Spec
  <1> QED BY <1>1, <1>2, PTL

-----------------------------------------------------------------------------
(***************************************************************************)
(* Intents are kept.  A tick may replace the intent in flight by a queued  *)
(* one, so what matters is what can be in the queue: behind an intent in   *)
(* flight that still fits there is nothing, the same intent or one that    *)
(* supersedes it, until its worker reports (Owed).                         *)
(***************************************************************************)
\* Not ahead of the journal, and as broad as its cause allows.
Timely(r, i) ==
    /\ i.base =< run[r].seq
    /\ \A c \in Commands : i.cause = ResumeCause(c) => i.allowed = Resumable
Orderly(h) == \A r \in Runs : Timely(r, h.requested[r]) /\ Timely(r, h.explicit[r])

\* An intent in flight is that of the recorded worker.
Tracks(h) ==
    \A r \in Runs : h.explicit[r] # NoIntent =>
        /\ h.tasks[r] \in Slots
        /\ h.worker[<<r, h.tasks[r]>>].intent = h.explicit[r] /\ h.worker[<<r, h.tasks[r]>>].pc # "idle"

\* A worker that ended, by losing its claim or otherwise.
Lost(v) == v.pc = "done" /\ v.result = "lost"
Reports(v) == v.pc = "done" /\ v.result # "lost"

\* What the queue of a run may hold behind an intent in flight.
OwedFor(h, r) ==
    h.explicit[r] # NoIntent /\ h.explicit[r].base # Unbound /\ Fits(r, h.explicit[r]) =>
        /\ \/ h.requested[r] \in {NoIntent, h.explicit[r]} \/ Supersedes(h.requested[r], h.explicit[r])
           \/ Reports(h.worker[<<r, h.tasks[r]>>])
        /\ Lost(h.worker[<<r, h.tasks[r]>>]) => h.requested[r] # NoIntent
Owed(h) == \A r \in Runs : OwedFor(h, r)

\* A reply answers a park that is over, or the present one.
AnswersPark ==
    \A r \in Runs : \A n \in Nat : <<r, n>> \in replied =>
        n =< run[r].seq /\ (n = run[r].seq => run[r].status = "PARKED")

\* The bound on worker tasks is never reached.
Roomy == \A r \in Runs : \E s \in Slots : host.worker[<<r, s>>].pc = "idle"

KeepInv == FenceInv /\ AnswersPark /\ Tracks(host) /\ Orderly(host) /\ (life \in {"starting", "open"} => Owed(host))

LEMMA SupersedesTransitive ==
  ASSUME NEW i \in Intents, NEW j \in Intents, NEW k \in Intents, Supersedes(i, j), Supersedes(j, k)
  PROVE  Supersedes(i, k)
  <1>1. i.base \in Int /\ j.base \in Int /\ k.base \in Int
    BY DEF Intents, Unbound
  <1>2. i.base >= j.base /\ j.base >= k.base
    BY <1>1 DEF Supersedes
  <1>3. CASE i.base > k.base
    BY <1>3 DEF Supersedes
  <1>4. CASE i.base = j.base /\ j.base = k.base
    <2> DEFINE broader(x, y) == x.allowed # y.allowed /\ y.allowed \subseteq x.allowed
               outranks(x, y) == \/ x.base = Unbound /\ broader(x, y)
                                 \/ /\ x.base # Unbound
                                    /\ IF x.cause # y.cause THEN x.cause # NoCause /\ y.cause = NoCause ELSE broader(x, y)
    <2>1. \A n \in Int : ~ (n > n)
      OBVIOUS
    <2>2. outranks(i, j) /\ outranks(j, k)
      BY <1>1, <1>4, <2>1 DEF Supersedes
    <2>3. broader(i, j) /\ broader(j, k) => broader(i, k)
      OBVIOUS
    <2> HIDE DEF broader
    <2>4. outranks(i, k)
      BY <1>4, <2>2, <2>3
    <2> QED BY <1>4, <2>4 DEF Supersedes, broader
  <1> QED BY <1>1, <1>2, <1>3, <1>4

\* Nothing supersedes by asking for nothing.
LEMMA SupersederAsks ==
  ASSUME NEW i \in Intents, NEW j \in Intents, Supersedes(i, j)
  PROVE  i # NoIntent
  <1>1. j.base \in Nat \cup {Unbound}
    BY DEF Intents
  <1> QED BY <1>1 DEF Supersedes, NoIntent, Unbound

\* An intent that supersedes one the journal still matches is matched too.
LEMMA SupersederFits ==
  ASSUME RunTypes, AnswersPark, NEW r \in Runs, NEW q \in Intents, NEW e \in Intents, Grounded(r, q), Grounded(r, e),
         Timely(r, q), e.base # Unbound, Supersedes(q, e), Fits(r, e)
  PROVE  Fits(r, q)
  <1>1. e.base = run[r].seq /\ run[r].status \in e.allowed /\ run[r].seq \in Nat
    BY DEF Fits, RunTypes, RunRows
  <1>2. q.base =< run[r].seq /\ q.base \in Int
    BY DEF Timely, Intents, Unbound
  <1>3. ~ (q.base > e.base)
    BY <1>1, <1>2
  <1>4. q.base = e.base
    BY <1>3 DEF Supersedes
  <1>5. CASE q.cause # e.cause
    <2>1. q.cause # NoCause /\ e.cause = NoCause
      BY <1>3, <1>5 DEF Supersedes
    <2>2. run[r].status \in Recoverable
      BY <1>1, <2>1 DEF Grounded
    <2>3. CASE \E c \in Commands : q.cause = ResumeCause(c)
      BY <1>1, <1>4, <2>2, <2>3 DEF Timely, Fits, Recoverable, Resumable
    <2>4. ASSUME NEW n \in Nat, q.cause = ReplyCause(n) PROVE FALSE
      <3>1. n = run[r].seq /\ <<r, n>> \in replied
        BY <1>1, <1>4, <2>4 DEF Grounded
      <3>2. run[r].status = "PARKED"
        BY <3>1 DEF AnswersPark
      <3> QED BY <2>2, <3>2 DEF Recoverable
    <2> QED BY <2>1, <2>3, <2>4 DEF Intents, Causes
  <1>6. CASE q.cause = e.cause
    <2>1. e.allowed \subseteq q.allowed
      BY <1>3, <1>4, <1>6 DEF Supersedes
    <2> QED BY <1>1, <1>4, <2>1 DEF Fits
  <1> QED BY <1>5, <1>6

\* A queued intent gives way to one that supersedes it; an empty queue takes what supersedes the
\* intent of a working task.
Outbids(h, r, i) ==
    IF h.requested[r] # NoIntent THEN Supersedes(i, h.requested[r])
    ELSE Working(h, r) => h.explicit[r] = NoIntent \/ Supersedes(i, h.explicit[r])

Asks(h, g, offers) ==
    /\ g.explicit = h.explicit /\ g.tasks = h.tasks /\ g.worker = h.worker
    /\ \A r \in Runs : \/ g.requested[r] = h.requested[r]
                       \/ \E o \in offers : o.run = r /\ g.requested[r] = o.intent /\ Outbids(h, r, o.intent)

\* launch does no more than that.
LEMMA LaunchedAsks ==
  ASSUME NEW h, HostTypes(h), NEW offers, Offers(offers)
  PROVE  Asks(h, Launched(h, offers), offers)
  <1> DEFINE first(r) == CHOOSE o \in offers : o.run = r /\ \A p \in offers : p.run = r => o.key =< p.key
             queued == {r \in {o.run : o \in offers} : Disposition(h, r, first(r).intent) = "queued"}
             g == Launched(h, offers)
  <1>1. ASSUME NEW r \in queued
        PROVE  first(r) \in offers /\ first(r).run = r /\ Disposition(h, r, first(r).intent) = "queued"
    BY FirstOffer
  <1>2. g = [h EXCEPT !.requested = [r \in Runs |-> IF r \in queued THEN first(r).intent ELSE @[r]],
                      !.deferred = @ \ queued,
                      !.retry = @ \ queued,
                      !.woke = @ \/ \E o \in offers : Signals(h, o.run, o.intent)]
    BY DEF Launched
  <1> HIDE DEF first, queued, g
  <1>3. /\ g.requested = [r \in Runs |-> IF r \in queued THEN first(r).intent ELSE h.requested[r]]
        /\ g.explicit = h.explicit /\ g.tasks = h.tasks /\ g.worker = h.worker
    BY <1>2 DEF HostTypes
  <1>4. ASSUME NEW r, NEW i, Disposition(h, r, i) = "queued" PROVE Outbids(h, r, i)
    BY <1>4 DEF Disposition, Outbids
  <1>5. \A r \in Runs : \/ g.requested[r] = h.requested[r]
                        \/ \E o \in offers : o.run = r /\ g.requested[r] = o.intent /\ Outbids(h, r, o.intent)
    BY <1>1, <1>3, <1>4
  <1> QED BY <1>3, <1>5 DEF Asks, g

\* A queue only moves up.
Rises(h, g) ==
    \A r \in Runs : \/ g.requested[r] = h.requested[r] \/ h.requested[r] = NoIntent
                    \/ Supersedes(g.requested[r], h.requested[r])

LEMMA AsksKeeps ==
  ASSUME NEW h, HostTypes(h), NEW g, HostTypes(g), NEW offers, Asks(h, g, offers), Offers(offers),
         \A o \in offers : Timely(o.run, o.intent), Tracks(h), Orderly(h), Owed(h)
  PROVE  Tracks(g) /\ Orderly(g) /\ Owed(g) /\ Rises(h, g)
  <1>1. g.explicit = h.explicit /\ g.tasks = h.tasks /\ g.worker = h.worker
    BY DEF Asks
  <1>2. Tracks(g)
    BY <1>1 DEF Tracks
  <1>3. Orderly(g)
    BY <1>1 DEF Orderly, Asks
  <1>4. Rises(h, g)
    BY DEF Asks, Outbids, Rises
  <1>5. ASSUME NEW r \in Runs PROVE OwedFor(g, r)
    <2> DEFINE e == h.explicit[r]
               q == h.requested[r]
               p == g.requested[r]
               v == h.worker[<<r, h.tasks[r]>>]
    <2>1. e \in Intents /\ q \in Intents /\ p \in Intents
      BY DEF HostTypes
    <2>2. OwedFor(h, r)
      BY DEF Owed
    <2>3. CASE p = q
      BY <1>1, <2>2, <2>3 DEF OwedFor
    <2>4. CASE p # q
      <3> SUFFICES ASSUME e # NoIntent, e.base # Unbound, Fits(r, e)
                   PROVE  (Supersedes(p, e) \/ Reports(v)) /\ (Lost(v) => p # NoIntent)
        BY <1>1 DEF OwedFor
      <3>1. Outbids(h, r, p)
        BY <2>4 DEF Asks
      <3>2. /\ q \in {NoIntent, e} \/ Supersedes(q, e) \/ Reports(v)
            /\ Lost(v) => q # NoIntent
        BY <2>2 DEF OwedFor
      <3>3. CASE q # NoIntent
        <4>1. Supersedes(p, q)
          BY <3>1, <3>3 DEF Outbids
        <4>2. p # NoIntent
          BY <2>1, <4>1, SupersederAsks
        <4>3. q = e \/ Supersedes(q, e) => Supersedes(p, e)
          BY <2>1, <4>1, SupersedesTransitive
        <4> QED BY <3>2, <3>3, <4>2, <4>3
      <3>4. CASE q = NoIntent
        <4>1. ~ Lost(v)
          BY <3>2, <3>4
        <4>2. h.tasks[r] # NoSlot
          BY SizeAssumption DEF Tracks
        <4>3. Reports(v) \/ Working(h, r)
          BY <4>1, <4>2 DEF Reports, Lost, Working
        <4> QED BY <3>1, <3>4, <4>1, <4>3 DEF Outbids
      <3> QED BY <3>3, <3>4
    <2> QED BY <2>3, <2>4
  <1> QED BY <1>2, <1>3, <1>4, <1>5 DEF Owed

\* What a filling of the capacity does to one run: its queued intent goes in flight, or the
\* journal has moved past it, or it waits.
Fills(h, g, r) ==
    \/ /\ h.requested[r] # NoIntent /\ Fits(r, h.requested[r])
       /\ g.requested[r] = NoIntent /\ g.explicit[r] = h.requested[r] /\ g.tasks[r] \in Slots
       /\ g.worker[<<r, g.tasks[r]>>].intent = h.requested[r] /\ g.worker[<<r, g.tasks[r]>>].pc = "created"
    \/ /\ g.explicit[r] = h.explicit[r]
       /\ g.requested[r] = h.requested[r] \/ (g.requested[r] = NoIntent /\ ~ Fits(r, h.requested[r]))
       /\ \/ h.tasks[r] = NoSlot
          \/ g.tasks[r] = h.tasks[r] /\ \A s \in Slots : g.worker[<<r, s>>] = h.worker[<<r, s>>]

LEMMA FillCapacityFills ==
  ASSUME NEW h, HostTypes(h), NEW r \in Runs, \E s \in Slots : h.worker[<<r, s>>].pc = "idle"
  PROVE  Fills(h, FillCapacity(h), r)
  <1> DEFINE capacity == world.maxConcurrency - Cardinality({x \in Runs : h.tasks[x] # NoSlot})
             asked == {x \in Runs : h.requested[x] # NoIntent}
             startable == {x \in asked : Fits(x, h.requested[x]) /\ Ready(h, x)}
             stale == {x \in asked : /\ ~ Fits(x, h.requested[x])
                                     /\ Cardinality({q \in startable : q < x}) < capacity}
             explicit == Within(startable, capacity)
             pruned == [h EXCEPT !.requested = [x \in Runs |-> IF x \in stale THEN NoIntent ELSE @[x]],
                                 !.retry = @ \ stale]
             recovered == Within({x \in Runs : Recovers(pruned, x)}, capacity - Cardinality(explicit))
             slot(x) == CHOOSE s \in Slots : pruned.worker[<<x, s>>].pc = "idle"
             ended == {w \in Workers : pruned.worker[w].pc = "done"}
             fresh(x) == [intent |-> IF x \in explicit THEN pruned.requested[x] ELSE Intent(run[x].seq, Recoverable, NoCause),
                          pc |-> "created", result |-> "none", behind |-> ended]
             g == FillCapacity(h)
  <1> SUFFICES Fills(h, g, r)
    OBVIOUS
  <1>1. g = Started(pruned, explicit, recovered)
    BY DEF FillCapacity
  <1>2. /\ r \in explicit => h.requested[r] # NoIntent /\ Fits(r, h.requested[r]) /\ r \notin stale
        /\ r \in stale => ~ Fits(r, h.requested[r])
        /\ r \in recovered => Recovers(pruned, r)
    BY DEF Within
  <1>3. g = [pruned EXCEPT !.worker = [w \in Workers |->
                     IF w[1] \in explicit \cup recovered /\ w[2] = slot(w[1]) THEN fresh(w[1]) ELSE @[w]],
                  !.tasks = [x \in Runs |-> IF x \in explicit \cup recovered THEN slot(x) ELSE @[x]],
                  !.requested = [x \in Runs |-> IF x \in explicit THEN NoIntent ELSE @[x]],
                  !.explicit = [x \in Runs |-> IF x \in explicit THEN pruned.requested[x] ELSE @[x]],
                  !.retry = @ \ (explicit \cup recovered)]
    BY <1>1 DEF Started
  <1>4. fresh(r).pc = "created" /\ (r \in explicit => fresh(r).intent = pruned.requested[r])
    OBVIOUS
  <1> HIDE DEF capacity, asked, startable, stale, explicit, recovered, fresh, g
  <1>5. /\ DOMAIN pruned = DOMAIN h
        /\ pruned.requested = [x \in Runs |-> IF x \in stale THEN NoIntent ELSE h.requested[x]]
        /\ pruned.explicit = h.explicit /\ pruned.tasks = h.tasks /\ pruned.worker = h.worker
    BY DEF HostTypes
  <1> HIDE DEF pruned
  <1>6. slot(r) \in Slots
    BY <1>5
  <1> HIDE DEF slot
  <1>7. /\ g.worker = [w \in Workers |->
              IF w[1] \in explicit \cup recovered /\ w[2] = slot(w[1]) THEN fresh(w[1]) ELSE h.worker[w]]
        /\ g.tasks = [x \in Runs |-> IF x \in explicit \cup recovered THEN slot(x) ELSE h.tasks[x]]
        /\ g.requested = [x \in Runs |-> IF x \in explicit THEN NoIntent ELSE pruned.requested[x]]
        /\ g.explicit = [x \in Runs |-> IF x \in explicit THEN pruned.requested[x] ELSE h.explicit[x]]
    BY <1>3, <1>5 DEF HostTypes
  <1>8. \A s \in Slots : g.worker[<<r, s>>] = IF r \in explicit \cup recovered /\ s = slot(r) THEN fresh(r) ELSE h.worker[<<r, s>>]
    BY <1>7 DEF Workers
  <1>9. pruned.requested[r] = IF r \in stale THEN NoIntent ELSE h.requested[r]
    BY <1>5
  <1>10. CASE r \in explicit
    <2>1. pruned.requested[r] = h.requested[r] /\ h.requested[r] # NoIntent /\ Fits(r, h.requested[r])
      BY <1>2, <1>10, <1>9
    <2>2. g.requested[r] = NoIntent /\ g.explicit[r] = pruned.requested[r] /\ g.tasks[r] = slot(r)
      BY <1>7, <1>10
    <2>3. g.worker[<<r, slot(r)>>] = fresh(r)
      BY <1>6, <1>8, <1>10
    <2> QED BY <1>4, <1>6, <1>10, <2>1, <2>2, <2>3 DEF Fills
  <1>11. CASE r \notin explicit
    <2>1. g.explicit[r] = h.explicit[r] /\ g.requested[r] = pruned.requested[r]
      BY <1>7, <1>11
    <2>2. g.requested[r] = h.requested[r] \/ (g.requested[r] = NoIntent /\ ~ Fits(r, h.requested[r]))
      BY <1>2, <1>9, <2>1
    <2>3. r \in recovered => h.tasks[r] = NoSlot
      BY <1>2, <1>5 DEF Recovers
    <2>4. r \notin recovered => g.tasks[r] = h.tasks[r] /\ \A s \in Slots : g.worker[<<r, s>>] = h.worker[<<r, s>>]
      BY <1>7, <1>8, <1>11
    <2> QED BY <2>1, <2>2, <2>3, <2>4 DEF Fills
  <1> QED BY <1>10, <1>11

\* Intents of a run that h held and g let go of, with the reasons the host may have.
Retains(h, g, r) ==
    \A i \in Held(h, r) :
        \/ i.base = Unbound
        \/ \E j \in Held(g, r) : j = i \/ Supersedes(j, i)
        \/ ~ Fits(r, i)
        \/ Reported(h, r, i)

LEMMA FillsKeeps ==
  ASSUME RunTypes, AnswersPark, NEW h, HostTypes(h), HostGrounded(h), NEW g, HostTypes(g), Tracks(h), Orderly(h), Owed(h),
         \A r \in Runs : Fills(h, g, r)
  PROVE  /\ Tracks(g) /\ Orderly(g) /\ Owed(g)
         /\ \A r \in Runs : Retains(h, g, r) /\ (h.requested[r] \in Held(g, r) \cup {NoIntent} \/ ~ Fits(r, h.requested[r]))
  <1>0. \A r \in Runs : h.tasks[r] = NoSlot => h.explicit[r] = NoIntent
    BY SizeAssumption DEF Tracks
  <1>1. ASSUME NEW r \in Runs PROVE Timely(r, NoIntent)
    <2>1. run[r].seq \in Nat
      BY DEF RunTypes, RunRows
    <2>2. NoIntent.base = -1 /\ NoIntent.cause = NoCause
      BY DEF NoIntent, Unbound
    <2> QED BY <2>1, <2>2, CausesDiffer DEF Timely
  <1>2. Orderly(g)
    BY <1>1 DEF Orderly, Fills
  <1>3. Tracks(g)
    BY <1>0 DEF Tracks, Fills
  <1>4. ASSUME NEW r \in Runs
        PROVE  /\ OwedFor(g, r) /\ Retains(h, g, r)
               /\ h.requested[r] \in Held(g, r) \cup {NoIntent} \/ ~ Fits(r, h.requested[r])
    <2> DEFINE e == h.explicit[r]
               q == h.requested[r]
               v == h.worker[<<r, h.tasks[r]>>]
    <2>1. e \in Intents /\ q \in Intents /\ Grounded(r, e) /\ Grounded(r, q) /\ Timely(r, q)
      BY DEF HostTypes, HostGrounded, Orderly
    <2>2. e # NoIntent /\ e.base # Unbound /\ Fits(r, e) =>
             /\ q \in {NoIntent, e} \/ Supersedes(q, e) \/ Reports(v)
             /\ Lost(v) => q # NoIntent
      BY DEF Owed, OwedFor
    <2>3. e # NoIntent /\ Reports(v) => Reported(h, r, e)
      BY DEF Tracks, Reports, Reported
    <2>4. Held(h, r) = {q, e} \ {NoIntent}
      BY DEF Held
    <2>5. CASE /\ q # NoIntent /\ Fits(r, q)
               /\ g.requested[r] = NoIntent /\ g.explicit[r] = q /\ g.tasks[r] \in Slots
               /\ g.worker[<<r, g.tasks[r]>>].intent = q /\ g.worker[<<r, g.tasks[r]>>].pc = "created"
      <3>1. OwedFor(g, r)
        BY <2>5 DEF OwedFor, Lost
      <3>2. q \in Held(g, r)
        BY <2>5 DEF Held
      <3>3. Retains(h, g, r)
        BY <2>2, <2>3, <2>4, <2>5, <3>2 DEF Retains
      <3> QED BY <3>1, <3>2, <3>3
    <2>6. CASE /\ g.explicit[r] = e
               /\ g.requested[r] = q \/ (g.requested[r] = NoIntent /\ ~ Fits(r, q))
               /\ \/ h.tasks[r] = NoSlot
                  \/ g.tasks[r] = h.tasks[r] /\ \A s \in Slots : g.worker[<<r, s>>] = h.worker[<<r, s>>]
      <3>1. ASSUME e # NoIntent, e.base # Unbound, Fits(r, e)
            PROVE  /\ g.worker[<<r, g.tasks[r]>>] = v
                   /\ g.requested[r] \in {NoIntent, e} \/ Supersedes(g.requested[r], e) \/ Reports(v)
                   /\ Lost(v) => g.requested[r] # NoIntent
        <4>1. g.worker[<<r, g.tasks[r]>>] = v
          BY <1>0, <2>6, <3>1 DEF Tracks
        <4>2. Supersedes(q, e) => Fits(r, q)
          BY <2>1, <3>1, SupersederFits
        <4>3. ~ Fits(r, q) => Reports(v) \/ q = NoIntent
          BY <2>2, <3>1, <4>2
        <4>4. Lost(v) => g.requested[r] # NoIntent
          BY <2>2, <2>6, <3>1, <4>3 DEF Lost, Reports
        <4> QED BY <2>2, <2>6, <3>1, <4>1, <4>4
      <3>2. OwedFor(g, r)
        BY <2>6, <3>1 DEF OwedFor
      <3>3. e # NoIntent => e \in Held(g, r)
        BY <2>6 DEF Held
      <3>4. q # NoIntent /\ Fits(r, q) => q \in Held(g, r)
        BY <2>6 DEF Held
      <3>5. Retains(h, g, r)
        BY <2>4, <3>3, <3>4 DEF Retains
      <3> QED BY <3>2, <3>4, <3>5
    <2> QED BY <2>5, <2>6 DEF Fills
  <1> QED BY <1>2, <1>3, <1>4 DEF Owed

\* A scan offers only what the journal still matches.
LEMMA OffersFit ==
  ASSUME Types, NEW o \in ResumeOffers \cup WaitOffers
  PROVE  o.run \in Runs /\ Fits(o.run, o.intent) /\ Timely(o.run, o.intent)
  <1>1. ASSUME NEW c \in Commands, Launchable(c), o = [key |-> c, run |-> cmd[c].run, intent |-> ResumeIntent(c)]
        PROVE  Fits(o.run, o.intent) /\ Timely(o.run, o.intent) /\ o.run \in Runs
    <2>1. cmd[c].state # "absent" /\ cmd[c].run \in Runs /\ Fits(cmd[c].run, ResumeIntent(c)) /\ cmd[c].base \in Nat
      BY <1>1 DEF Launchable, Types, FactTypes
    <2>2. ResumeIntent(c).base = cmd[c].base /\ ResumeIntent(c).allowed = Resumable
      BY DEF ResumeIntent, Intent
    <2>3. cmd[c].base = run[cmd[c].run].seq
      BY <2>1, <2>2 DEF Fits, Unbound
    <2>4. Timely(cmd[c].run, ResumeIntent(c))
      BY <2>1, <2>2, <2>3 DEF Timely
    <2> QED BY <1>1, <2>1, <2>4
  <1>2. ASSUME NEW r \in Runs, run[r].status = "PARKED", o = Offer(r, ReplyIntent(run[r].seq))
        PROVE  Fits(o.run, o.intent) /\ Timely(o.run, o.intent) /\ o.run \in Runs
    <2>1. o.run = r /\ o.intent = ReplyIntent(run[r].seq)
      BY <1>2 DEF Offer
    <2>2. /\ o.intent.base = run[r].seq /\ o.intent.allowed = {"PARKED"} /\ o.intent.cause = ReplyCause(run[r].seq)
          /\ run[r].seq \in Nat
      BY <2>1 DEF ReplyIntent, Intent, Types, RunTypes, RunRows
    <2> QED BY <1>2, <2>1, <2>2, CausesDiffer DEF Fits, Timely
  <1>3. CASE o \in ResumeOffers
    <2>1. \E c \in Commands : Launchable(c) /\ o = [key |-> c, run |-> cmd[c].run, intent |-> ResumeIntent(c)]
      BY <1>3, Zenon DEF ResumeOffers, Batch, Rows, StoredCommands
    <2> QED BY <1>1, <2>1
  <1>4. CASE o \in WaitOffers
    <2>1. \E r \in Runs : run[r].status = "PARKED" /\ o = Offer(r, ReplyIntent(run[r].seq))
      BY <1>4, Zenon DEF WaitOffers, Batch, Rows, ParkedRuns
    <2> QED BY <1>2, <2>1
  <1> QED BY <1>3, <1>4

\* After the two scans of a round.
Scanned == Launched(Launched(host, ResumeOffers), WaitOffers)

LEMMA ScansKeep ==
  ASSUME KeepInv, life \in {"starting", "open"}
  PROVE  /\ HostTypes(Scanned) /\ HostGrounded(Scanned) /\ Tracks(Scanned) /\ Orderly(Scanned) /\ Owed(Scanned)
         /\ Scanned.explicit = host.explicit /\ Scanned.tasks = host.tasks /\ Scanned.worker = host.worker
         /\ \A r \in Runs : LET q == host.requested[r]
                                 p == Scanned.requested[r]
                             IN  p = q \/ (Fits(r, p) /\ p # NoIntent /\ (q = NoIntent \/ Supersedes(p, q)))
  <1> DEFINE h == Launched(host, ResumeOffers)
             g == Launched(h, WaitOffers)
  <1>0. Types /\ HostTypes(host) /\ HostGrounded(host) /\ Tracks(host) /\ Orderly(host) /\ Owed(host)
    BY DEF KeepInv, FenceInv, Types
  <1>1. Offers(ResumeOffers) /\ Offers(WaitOffers)
    BY <1>0, ScansOffer
  <1>2. HostTypes(h) /\ HostGrounded(h) /\ Asks(host, h, ResumeOffers)
    BY <1>0, <1>1, LaunchedGrounded, LaunchedAsks
  <1> HIDE DEF h
  <1>3. HostTypes(g) /\ HostGrounded(g) /\ Asks(h, g, WaitOffers)
    BY <1>1, <1>2, LaunchedGrounded, LaunchedAsks
  <1>4. Scanned = g
    BY DEF Scanned, h
  <1> HIDE DEF g
  <1>5. \A o \in ResumeOffers \cup WaitOffers : Timely(o.run, o.intent) /\ Fits(o.run, o.intent) /\ o.intent # NoIntent
    <2>1. ASSUME NEW r, Fits(r, NoIntent) PROVE FALSE
      BY <2>1 DEF Fits, NoIntent
    <2> QED BY <1>0, <2>1, OffersFit
  <1>6. Tracks(h) /\ Orderly(h) /\ Owed(h) /\ Rises(host, h)
    BY <1>0, <1>1, <1>2, <1>5, AsksKeeps
  <1>7. Tracks(g) /\ Orderly(g) /\ Owed(g) /\ Rises(h, g)
    BY <1>1, <1>2, <1>3, <1>5, <1>6, AsksKeeps
  <1>8. g.explicit = host.explicit /\ g.tasks = host.tasks /\ g.worker = host.worker
    BY <1>2, <1>3 DEF Asks
  <1>9. ASSUME NEW r \in Runs
        PROVE  LET q == host.requested[r]
                   p == g.requested[r]
               IN  p = q \/ (Fits(r, p) /\ p # NoIntent /\ (q = NoIntent \/ Supersedes(p, q)))
    <2> DEFINE q == host.requested[r]
               m == h.requested[r]
               p == g.requested[r]
    <2>1. q \in Intents /\ m \in Intents /\ p \in Intents
      BY <1>0, <1>2, <1>3 DEF HostTypes
    <2>2. m = q \/ (Fits(r, m) /\ m # NoIntent /\ (q = NoIntent \/ Supersedes(m, q)))
      BY <1>2, <1>5, <1>6 DEF Asks, Rises
    <2>3. p = m \/ (Fits(r, p) /\ p # NoIntent /\ (m = NoIntent \/ Supersedes(p, m)))
      BY <1>3, <1>5, <1>7 DEF Asks, Rises
    <2> HIDE DEF q, m, p
    <2>4. p = q \/ (Fits(r, p) /\ p # NoIntent /\ (q = NoIntent \/ Supersedes(p, q)))
      BY <2>1, <2>2, <2>3, SupersedesTransitive
    <2> QED BY <2>4 DEF q, p
  <1> QED BY <1>3, <1>4, <1>7, <1>8, <1>9

\* The same tables, but for the timers.
Same(h, g) == g.requested = h.requested /\ g.explicit = h.explicit /\ g.tasks = h.tasks /\ g.worker = h.worker

LEMMA SameKeeps ==
  ASSUME NEW h, NEW g, Same(h, g), Tracks(h), Orderly(h)
  PROVE  /\ Tracks(g) /\ Orderly(g) /\ (Owed(h) => Owed(g))
         /\ \A r \in Runs : Held(g, r) = Held(h, r)
         /\ \A f : \A r \in Runs : Retains(f, h, r) => Retains(f, g, r)
  BY DEF Same, Tracks, Orderly, Owed, OwedFor, Held, Retains

LEMMA WokeSame ==
  ASSUME NEW h, HostTypes(h)
  PROVE  Same(h, [h EXCEPT !.woke = FALSE])
  BY DEF HostTypes, Same

\* A run that held an intent through both scans: what they queue above it is not dropped.
LEMMA ScansRetain ==
  ASSUME KeepInv, life \in {"starting", "open"}, NEW g, HostTypes(g), NEW r \in Runs, Retains(Scanned, g, r),
         Scanned.requested[r] \in Held(g, r) \cup {NoIntent} \/ ~ Fits(r, Scanned.requested[r])
  PROVE  Retains(host, g, r)
  <1> DEFINE q == host.requested[r]
             p == Scanned.requested[r]
             e == host.explicit[r]
  <1>1. /\ HostTypes(Scanned) /\ Scanned.explicit = host.explicit /\ Scanned.worker = host.worker
        /\ p = q \/ (Fits(r, p) /\ p # NoIntent /\ (q = NoIntent \/ Supersedes(p, q)))
    BY ScansKeep
  <1>2. Held(host, r) = {q, e} \ {NoIntent} /\ Held(Scanned, r) = {p, e} \ {NoIntent}
    BY <1>1 DEF Held
  <1>3. \A i : Reported(Scanned, r, i) = Reported(host, r, i)
    BY <1>1 DEF Reported
  <1> SUFFICES ASSUME NEW i \in Held(host, r)
               PROVE  \/ i.base = Unbound
                      \/ \E j \in Held(g, r) : j = i \/ Supersedes(j, i)
                      \/ ~ Fits(r, i)
                      \/ Reported(host, r, i)
    BY DEF Retains
  <1>4. CASE i \in Held(Scanned, r)
    BY <1>3, <1>4 DEF Retains
  <1>5. CASE i \notin Held(Scanned, r)
    <2>1. i = q /\ p # q /\ Fits(r, p) /\ p # NoIntent /\ Supersedes(p, i)
      BY <1>1, <1>2, <1>5
    <2>2. p \in Held(g, r)
      BY <2>1
    <2> QED BY <2>1, <2>2
  <1> QED BY <1>4, <1>5

\* What a step leaves of the invariant and of what the host held, in the journal as it was.
StepKeeps ==
    /\ Tracks(host') /\ Orderly(host') /\ (life' \in {"starting", "open"} => Owed(host'))
    /\ life' = "open" /\ ~ Crash => \A r \in Runs : Retains(host, host', r)

\* A host without intents.
LEMMA EmptyKeeps ==
  ASSUME KeepInv, host'.requested = EmptyHost.requested, host'.explicit = EmptyHost.explicit, life' # "open" \/ Crash
  PROVE  StepKeeps
  <1>1. \A r \in Runs : host'.requested[r] = NoIntent /\ host'.explicit[r] = NoIntent
    BY DEF EmptyHost
  <1>2. ASSUME NEW r \in Runs PROVE Timely(r, NoIntent)
    <2>1. run[r].seq \in Nat
      BY DEF KeepInv, FenceInv, Types, RunTypes, RunRows
    <2>2. NoIntent.base = -1 /\ NoIntent.cause = NoCause
      BY DEF NoIntent, Unbound
    <2> QED BY <2>1, <2>2, CausesDiffer DEF Timely
  <1> QED BY <1>1, <1>2 DEF StepKeeps, Tracks, Orderly, Owed, OwedFor

LEMMA PumpKeeps ==
  ASSUME KeepInv, Roomy, PumpTick \/ PumpFails
  PROVE  StepKeeps
  <1>1. /\ life \in {"starting", "open"} /\ RunTypes /\ AnswersPark
        /\ HostTypes(host) /\ Tracks(host) /\ Orderly(host) /\ Owed(host)
    BY DEF PumpTick, PumpFails, PumpTurn, KeepInv, FenceInv, Types
  <1>2. /\ HostTypes(Scanned) /\ HostGrounded(Scanned) /\ Tracks(Scanned) /\ Orderly(Scanned) /\ Owed(Scanned)
        /\ Scanned.worker = host.worker
    BY <1>1, ScansKeep
  <1>3. CASE PumpTick
    <2> DEFINE g == FillCapacity(Scanned)
    <2>1. host' = [g EXCEPT !.woke = FALSE]
      BY <1>3 DEF PumpTick, Scanned
    <2>2. HostTypes(g) /\ \A r \in Runs : Fills(Scanned, g, r)
      BY <1>1, <1>2, FillCapacityGrounded, FillCapacityFills DEF Roomy
    <2> HIDE DEF g
    <2>3. /\ Tracks(g) /\ Orderly(g) /\ Owed(g)
          /\ \A r \in Runs : /\ Retains(Scanned, g, r)
                             /\ Scanned.requested[r] \in Held(g, r) \cup {NoIntent} \/ ~ Fits(r, Scanned.requested[r])
      BY <1>1, <1>2, <2>2, FillsKeeps
    <2>4. \A r \in Runs : Retains(host, g, r)
      BY <1>1, <2>2, <2>3, ScansRetain
    <2>5. Same(g, host')
      BY <2>1, <2>2, WokeSame
    <2> QED BY <2>3, <2>4, <2>5, SameKeeps DEF StepKeeps
  <1>4. CASE PumpFails
    <2>1. CASE UNCHANGED host
      BY <1>1, <2>1 DEF StepKeeps, Retains
    <2>2. CASE host' = [Scanned EXCEPT !.woke = FALSE]
      <3>1. Same(Scanned, host')
        BY <1>2, <2>2, WokeSame
      <3>2. \A r \in Runs : Scanned.requested[r] \in Held(Scanned, r) \cup {NoIntent} /\ Retains(Scanned, Scanned, r)
        BY DEF Held, Retains
      <3>3. \A r \in Runs : Retains(host, Scanned, r)
        BY <1>1, <1>2, <3>2, ScansRetain
      <3> QED BY <1>2, <3>1, <3>3, SameKeeps DEF StepKeeps
    <2>3. CASE life = "starting" /\ host' = EmptyHost
      <3>1. life' # "open"
        BY <1>4, <2>3 DEF PumpFails
      <3> QED BY <2>3, <3>1, EmptyKeeps
    <2> QED BY <1>4, <2>1, <2>2, <2>3 DEF PumpFails, Scanned
  <1> QED BY <1>3, <1>4

\* A call of launch with a timely intent.
LEMMA LaunchKeeps ==
  ASSUME KeepInv, NEW r \in Runs, NEW i \in Intents, Grounded(r, i), Timely(r, i), Launch(r, i)
  PROVE  StepKeeps
  <1> DEFINE offers == {Offer(r, i)}
             g == Launched(host, offers)
  <1>1. HostTypes(host) /\ HostGrounded(host) /\ Tracks(host) /\ Orderly(host) /\ Owed(host) /\ host' = [g EXCEPT !.woke = FALSE]
    BY DEF KeepInv, FenceInv, Types, Launch
  <1>2. Offers(offers) /\ \A o \in offers : Timely(o.run, o.intent)
    BY DEF Offers, Offer
  <1> HIDE DEF offers
  <1>3. HostTypes(g) /\ Asks(host, g, offers)
    BY <1>1, <1>2, LaunchedGrounded, LaunchedAsks
  <1> HIDE DEF g
  <1>4. Tracks(g) /\ Orderly(g) /\ Owed(g) /\ Rises(host, g)
    BY <1>1, <1>2, <1>3, AsksKeeps
  <1>5. ASSUME NEW x \in Runs PROVE Retains(host, g, x)
    <2>1. g.explicit[x] = host.explicit[x] /\ host.requested[x] \in Intents /\ g.requested[x] \in Intents
      BY <1>1, <1>3 DEF Asks, HostTypes
    <2>2. \/ g.requested[x] = host.requested[x] \/ host.requested[x] = NoIntent
          \/ Supersedes(g.requested[x], host.requested[x]) /\ g.requested[x] # NoIntent
      BY <1>4, <2>1, SupersederAsks DEF Rises
    <2> QED BY <2>1, <2>2 DEF Retains, Held
  <1>6. Same(g, host')
    BY <1>1, <1>3, WokeSame
  <1> QED BY <1>4, <1>5, <1>6, SameKeeps DEF StepKeeps

\* Workers move on; none loses its claim without saying so.
LEMMA WorkersKeep ==
  ASSUME KeepInv, host'.requested = host.requested, host'.explicit = host.explicit, host'.tasks = host.tasks,
         \A w \in Workers : /\ host'.worker[w].intent = host.worker[w].intent
                            /\ host.worker[w].pc # "idle" => host'.worker[w].pc # "idle",
         life' \in {"starting", "open"} =>
            /\ life' = life
            /\ \A w \in Workers : /\ Reports(host.worker[w]) => Reports(host'.worker[w])
                                  /\ Lost(host'.worker[w]) => Lost(host.worker[w])
  PROVE  StepKeeps
  <1>1. Tracks(host) /\ Orderly(host) /\ (life \in {"starting", "open"} => Owed(host))
    BY DEF KeepInv
  <1>2. \A r \in Runs, s \in Slots : <<r, s>> \in Workers
    BY DEF Workers
  <1>3. Tracks(host')
    BY <1>1, <1>2 DEF Tracks
  <1>4. Orderly(host')
    BY <1>1 DEF Orderly
  <1>5. ASSUME life' \in {"starting", "open"} PROVE Owed(host')
    <2> SUFFICES ASSUME NEW r \in Runs PROVE OwedFor(host', r)
      BY DEF Owed
    <2>1. OwedFor(host, r)
      BY <1>1, <1>5 DEF Owed
    <2>2. host.explicit[r] # NoIntent => <<r, host.tasks[r]>> \in Workers
      BY <1>1, <1>2 DEF Tracks
    <2> QED BY <1>5, <2>1, <2>2 DEF OwedFor
  <1>6. \A r \in Runs : Retains(host, host', r)
    BY DEF Retains, Held
  <1> QED BY <1>3, <1>4, <1>5, <1>6 DEF StepKeeps

\* What the end of a worker does to the queue: only a lost claim puts the intent in flight back.
LEMMA SettledRows ==
  ASSUME HostTypes(host), NEW w \in Workers,
         NEW result \in {"none", "ok", "lost", "failed", "superseded", "dead", "cancelled"}
  PROVE  LET g == Settled(host, w, result)
             e == host.explicit[w[1]]
             q == host.requested[w[1]]
         IN  /\ g.explicit = host.explicit /\ g.tasks = host.tasks
             /\ g.worker[w].intent = host.worker[w].intent /\ g.worker[w].pc = "done" /\ g.worker[w].result = result
             /\ \A v \in Workers : v # w => g.worker[v] = host.worker[v]
             /\ \A r \in Runs : r # w[1] => g.requested[r] = host.requested[r]
             /\ result # "lost" => g.requested[w[1]] = q
             /\ \/ g.requested[w[1]] = q /\ (e = NoIntent \/ life \notin {"starting", "open"} \/ q # NoIntent)
                \/ result # "lost"
                \/ g.requested[w[1]] = e /\ e # NoIntent /\ (q = NoIntent \/ Supersedes(e, q))
  <1> DEFINE r == w[1]
             done == [host.worker[w] EXCEPT !.pc = "done", !.result = result, !.behind = {}]
             ended == [host EXCEPT !.worker[w].pc = "done", !.worker[w].result = result,
                                   !.worker[w].behind = {}]
             requeues == /\ host.explicit[r] # NoIntent /\ life \in {"starting", "open"}
                         /\ host.requested[r] = NoIntent \/ Supersedes(host.explicit[r], host.requested[r])
             g == Settled(host, w, result)
  <1>1. r \in Runs
    BY DEF Workers
  <1>2. /\ DOMAIN ended = DOMAIN host /\ ended.requested = host.requested /\ ended.explicit = host.explicit
        /\ ended.tasks = host.tasks /\ ended.worker = [host.worker EXCEPT ![w] = done]
    BY DEF HostTypes
  <1>3. g = CASE result = "lost"   -> [ended EXCEPT !.retry = @ \cup {r},
                                                !.requested[r] = IF requeues THEN host.explicit[r] ELSE @]
          [] result = "failed" -> [ended EXCEPT !.deferred = @ \cup {r}]
          [] OTHER             -> ended
    BY DEF Settled
  <1>4. done.pc = "done" /\ done.result = result /\ done.intent = host.worker[w].intent
    <2>1. host.worker[w] \in WorkerStates
      BY DEF HostTypes
    <2> QED BY <2>1 DEF WorkerStates
  <1> HIDE DEF ended, done, requeues, g, r
  <1>5. ended.worker[w] = done /\ \A v \in Workers : v # w => ended.worker[v] = host.worker[v]
    BY <1>2 DEF HostTypes
  <1>6. CASE result = "lost"
    <2>1. g = [ended EXCEPT !.retry = @ \cup {r}, !.requested[r] = IF requeues THEN host.explicit[r] ELSE @]
      BY <1>3, <1>6
    <2>2. /\ g.worker = ended.worker /\ g.explicit = host.explicit /\ g.tasks = host.tasks
          /\ g.requested = [host.requested EXCEPT ![r] = IF requeues THEN host.explicit[r] ELSE host.requested[r]]
      BY <1>2, <2>1 DEF HostTypes
    <2>3. /\ \A x \in Runs : x # r => g.requested[x] = host.requested[x]
          /\ g.requested[r] = IF requeues THEN host.explicit[r] ELSE host.requested[r]
      BY <1>1, <2>2 DEF HostTypes
    <2> QED BY <1>1, <1>4, <1>5, <1>6, <2>2, <2>3 DEF g, r, requeues
  <1>7. CASE result # "lost"
    <2>1. g = [ended EXCEPT !.deferred = @ \cup {r}] \/ g = ended
      BY <1>3, <1>7
    <2>2. g.worker = ended.worker /\ g.explicit = host.explicit /\ g.tasks = host.tasks /\ g.requested = host.requested
      BY <1>2, <2>1 DEF HostTypes
    <2> QED BY <1>4, <1>5, <1>7, <2>2 DEF g, r
  <1> QED BY <1>6, <1>7

\* A worker's task ends: what it owes is back in the queue, or reported.
LEMMA SettledKeeps ==
  ASSUME KeepInv, NEW w \in Workers, host.worker[w].pc # "done", life' = life,
         NEW result \in {"none", "ok", "lost", "failed", "superseded", "dead", "cancelled"},
         host' = Settled(host, w, result)
  PROVE  StepKeeps
  <1> DEFINE r == w[1]
             e == host.explicit[r]
             q == host.requested[r]
  <1>1. HostTypes(host) /\ Tracks(host) /\ Orderly(host) /\ (life \in {"starting", "open"} => Owed(host))
    BY DEF KeepInv, FenceInv, Types
  <1>2. /\ host'.explicit = host.explicit /\ host'.tasks = host.tasks
        /\ host'.worker[w].intent = host.worker[w].intent /\ host'.worker[w].pc = "done" /\ host'.worker[w].result = result
        /\ \A v \in Workers : v # w => host'.worker[v] = host.worker[v]
        /\ \A x \in Runs : x # r => host'.requested[x] = host.requested[x]
        /\ result # "lost" => host'.requested[r] = q
        /\ \/ host'.requested[r] = q /\ (e = NoIntent \/ life \notin {"starting", "open"} \/ q # NoIntent)
           \/ result # "lost"
           \/ host'.requested[r] = e /\ e # NoIntent /\ (q = NoIntent \/ Supersedes(e, q))
    BY <1>1, SettledRows
  <1>3. r \in Runs /\ \A x \in Runs, s \in Slots : <<x, s>> \in Workers /\ (x # r => <<x, s>> # w)
    BY DEF Workers
  <1> HIDE DEF r
  <1>4. Tracks(host')
    BY <1>1, <1>2, <1>3 DEF Tracks
  <1>5. Orderly(host')
    BY <1>1, <1>2, <1>3 DEF Orderly
  <1>6. ASSUME life' \in {"starting", "open"} PROVE Owed(host')
    <2> SUFFICES ASSUME NEW x \in Runs PROVE OwedFor(host', x)
      BY DEF Owed
    <2> DEFINE v == <<x, host.tasks[x]>>
    <2>1. OwedFor(host, x) /\ life \in {"starting", "open"}
      BY <1>1, <1>6 DEF Owed
    <2> SUFFICES ASSUME host.explicit[x] # NoIntent, host.explicit[x].base # Unbound, Fits(x, host.explicit[x])
                 PROVE  /\ \/ host'.requested[x] \in {NoIntent, host.explicit[x]}
                           \/ Supersedes(host'.requested[x], host.explicit[x])
                           \/ Reports(host'.worker[v])
                        /\ Lost(host'.worker[v]) => host'.requested[x] # NoIntent
      BY <1>2 DEF OwedFor
    <2>2. /\ \/ host.requested[x] \in {NoIntent, host.explicit[x]} \/ Supersedes(host.requested[x], host.explicit[x])
             \/ Reports(host.worker[v])
          /\ Lost(host.worker[v]) => host.requested[x] # NoIntent
      BY <2>1 DEF OwedFor
    <2>3. v \in Workers /\ (x # r => v # w)
      BY <1>1, <1>3 DEF Tracks
    <2> HIDE DEF v
    <2>4. CASE x # r
      BY <1>2, <2>2, <2>3, <2>4
    <2>5. CASE x = r /\ v # w
      BY <1>2, <2>2, <2>3, <2>5
    <2>6. CASE x = r /\ v = w
      <3>1. ~ Reports(host.worker[v])
        BY <2>6 DEF Reports
      <3>2. CASE result # "lost"
        BY <1>2, <2>6, <3>2 DEF Reports, Lost
      <3>3. CASE result = "lost"
        BY <1>2, <2>1, <2>2, <2>6, <3>1, <3>3
      <3> QED BY <3>2, <3>3
    <2> QED BY <2>4, <2>5, <2>6
  <1>7. ASSUME NEW x \in Runs PROVE Retains(host, host', x)
    <2>1. host'.explicit[x] = host.explicit[x]
      BY <1>2
    <2>2. \/ host'.requested[x] = host.requested[x]
          \/ /\ host'.requested[x] = host.explicit[x] /\ host.explicit[x] # NoIntent
             /\ host.requested[x] = NoIntent \/ Supersedes(host.explicit[x], host.requested[x])
      BY <1>2
    <2> QED BY <2>1, <2>2 DEF Retains, Held
  <1> QED BY <1>4, <1>5, <1>6, <1>7 DEF StepKeeps

\* The done callback: a worker that lost its claim left its intent in the queue, or a better one.
LEMMA FinishedKeeps ==
  ASSUME KeepInv, NEW w \in Workers, Finished(w)
  PROVE  StepKeeps
  <1> DEFINE r == w[1]
  <1>1. HostTypes(host) /\ Tracks(host) /\ Orderly(host) /\ (life \in {"starting", "open"} => Owed(host)) /\ RunTypes
    BY DEF KeepInv, FenceInv, Types
  <1>2. r \in Runs /\ w[2] \in Slots /\ w = <<r, w[2]>> /\ \A x \in Runs, s \in Slots : <<x, s>> \in Workers
    BY DEF Workers
  <1>3. /\ host.worker[w].pc = "done" /\ life' = life
        /\ host'.requested = host.requested
        /\ host'.explicit = [host.explicit EXCEPT ![r] = IF Retires(w) THEN NoIntent ELSE @]
        /\ host'.tasks = [host.tasks EXCEPT ![r] = IF Retires(w) THEN NoSlot ELSE @]
        /\ host'.worker = [host.worker EXCEPT ![w] = IdleWorker]
    BY <1>1 DEF Finished, Running, HostTypes
  <1>4. \A v \in Workers : v # w => host'.worker[v] = host.worker[v]
    BY <1>1, <1>3 DEF HostTypes
  <1>5. /\ \A x \in Runs : x # r => host'.explicit[x] = host.explicit[x] /\ host'.tasks[x] = host.tasks[x]
        /\ host'.explicit[r] = IF Retires(w) THEN NoIntent ELSE host.explicit[r]
        /\ ~ Retires(w) => host'.tasks[r] = host.tasks[r]
    BY <1>1, <1>2, <1>3 DEF HostTypes
  <1>6. Retires(w) <=> host.tasks[r] = w[2]
    BY DEF Retires
  <1> HIDE DEF r
  <1>7. ASSUME NEW x \in Runs, host'.explicit[x] # NoIntent
        PROVE  /\ host'.explicit[x] = host.explicit[x] /\ host'.tasks[x] = host.tasks[x]
               /\ host'.worker[<<x, host.tasks[x]>>] = host.worker[<<x, host.tasks[x]>>]
    <2>1. x # r \/ ~ Retires(w)
      BY <1>5, <1>7
    <2>2. host'.explicit[x] = host.explicit[x] /\ host'.tasks[x] = host.tasks[x]
      BY <1>5, <2>1
    <2>3. <<x, host.tasks[x]>> \in Workers /\ <<x, host.tasks[x]>> # w
      BY <1>1, <1>2, <1>6, <1>7, <2>1, <2>2 DEF Tracks
    <2> QED BY <1>4, <2>2, <2>3
  <1>8. Tracks(host')
    BY <1>1, <1>7 DEF Tracks
  <1>9. ASSUME NEW x \in Runs PROVE Timely(x, NoIntent)
    <2>1. run[x].seq \in Nat
      BY <1>1 DEF RunTypes, RunRows
    <2>2. NoIntent.base = -1 /\ NoIntent.cause = NoCause
      BY DEF NoIntent, Unbound
    <2> QED BY <2>1, <2>2, CausesDiffer DEF Timely
  <1>10. Orderly(host')
    BY <1>1, <1>3, <1>7, <1>9 DEF Orderly
  <1>11. ASSUME life' \in {"starting", "open"} PROVE Owed(host')
    BY <1>1, <1>3, <1>7, <1>11 DEF Owed, OwedFor
  <1>12. ASSUME NEW x \in Runs, life' = "open" PROVE Retains(host, host', x)
    <2> DEFINE e == host.explicit[x]
               q == host.requested[x]
    <2>1. CASE host'.explicit[x] = e
      BY <1>3, <2>1 DEF Retains, Held
    <2>2. CASE host'.explicit[x] # e
      <3>1. x = r /\ Retires(w) /\ w = <<x, host.tasks[x]>>
        BY <1>2, <1>5, <1>6, <2>2
      <3>2. ASSUME e # NoIntent, e.base # Unbound, Fits(x, e)
            PROVE  Reported(host, x, e) \/ (q # NoIntent /\ (q = e \/ Supersedes(q, e)))
        <4>1. OwedFor(host, x)
          BY <1>1, <1>3, <1>12 DEF Owed
        <4>2. host.worker[w].intent = e /\ host.tasks[x] \in Slots
          BY <1>1, <3>1, <3>2 DEF Tracks
        <4>3. CASE host.worker[w].result # "lost"
          BY <1>3, <3>1, <4>2, <4>3 DEF Reported
        <4>4. CASE host.worker[w].result = "lost"
          BY <1>3, <3>1, <3>2, <4>1, <4>4 DEF OwedFor, Lost, Reports
        <4> QED BY <4>3, <4>4
      <3>3. q # NoIntent => q \in Held(host', x)
        BY <1>3 DEF Held
      <3> QED BY <3>2, <3>3 DEF Retains, Held
    <2> QED BY <2>1, <2>2
  <1> QED BY <1>8, <1>10, <1>11, <1>12 DEF StepKeeps

\* One worker moves on, without losing its claim.
LEMMA WorkerKeeps ==
  ASSUME KeepInv, NEW w \in Workers, host.worker[w].pc # "done", NEW v \in WorkerStates, life' = life,
         host'.requested = host.requested, host'.explicit = host.explicit, host'.tasks = host.tasks,
         host'.worker = [host.worker EXCEPT ![w] = v],
         v.intent = host.worker[w].intent, v.pc # "idle", v.pc = "done" => v.result # "lost"
  PROVE  StepKeeps
  <1>1. host.worker \in [Workers -> WorkerStates]
    BY DEF KeepInv, FenceInv, Types, HostTypes
  <1>2. host'.worker[w] = v /\ \A u \in Workers : u # w => host'.worker[u] = host.worker[u]
    BY <1>1
  <1>3. ~ Lost(v) /\ ~ Reports(host.worker[w])
    BY DEF Lost, Reports
  <1>4. \A u \in Workers : /\ host'.worker[u].intent = host.worker[u].intent
                           /\ host.worker[u].pc # "idle" => host'.worker[u].pc # "idle"
    BY <1>2
  <1>5. \A u \in Workers : /\ Reports(host.worker[u]) => Reports(host'.worker[u])
                           /\ Lost(host'.worker[u]) => Lost(host.worker[u])
    BY <1>2, <1>3
  <1> QED BY <1>4, <1>5, WorkersKeep

\* The same for the assignments the actions make.
LEMMA AdvanceKeeps ==
  ASSUME KeepInv, NEW w \in Workers, host.worker[w].pc # "done", life' = life,
         \/ host' = [host EXCEPT !.worker[w].pc = "claimed", !.worker[w].behind = {}]
         \/ host' = [host EXCEPT !.worker[w].pc = "running"]
         \/ \E result \in {"ok", "lost", "failed"} :
               host' = [host EXCEPT !.worker[w].pc = "unwinding", !.worker[w].result = result]
         \/ host' = [host EXCEPT !.worker[w].pc = "done", !.worker[w].result = "dead"]
  PROVE  StepKeeps
  <1>1. HostTypes(host)
    BY DEF KeepInv, FenceInv, Types
  <1>2. host.worker[w] \in WorkerStates
    BY <1>1 DEF HostTypes
  <1>3. CASE host' = [host EXCEPT !.worker[w].pc = "claimed", !.worker[w].behind = {}]
    <2> DEFINE v == [host.worker[w] EXCEPT !.pc = "claimed", !.behind = {}]
    <2>1. /\ host'.requested = host.requested /\ host'.explicit = host.explicit /\ host'.tasks = host.tasks
          /\ host'.worker = [host.worker EXCEPT ![w] = v]
      BY <1>1, <1>3 DEF HostTypes
    <2>2. v \in WorkerStates /\ v.intent = host.worker[w].intent /\ v.pc = "claimed"
      BY <1>2 DEF WorkerStates
    <2> HIDE DEF v
    <2> QED BY <2>1, <2>2, WorkerKeeps
  <1>4. CASE host' = [host EXCEPT !.worker[w].pc = "running"]
    <2> DEFINE v == [host.worker[w] EXCEPT !.pc = "running"]
    <2>1. /\ host'.requested = host.requested /\ host'.explicit = host.explicit /\ host'.tasks = host.tasks
          /\ host'.worker = [host.worker EXCEPT ![w] = v]
      BY <1>1, <1>4 DEF HostTypes
    <2>2. v \in WorkerStates /\ v.intent = host.worker[w].intent /\ v.pc = "running"
      BY <1>2 DEF WorkerStates
    <2> HIDE DEF v
    <2> QED BY <2>1, <2>2, WorkerKeeps
  <1>5. ASSUME NEW p \in {"unwinding", "done"}, NEW result \in {"ok", "lost", "failed", "dead"},
               p = "done" => result = "dead",
               host' = [host EXCEPT !.worker[w].pc = p, !.worker[w].result = result]
        PROVE  StepKeeps
    <2> DEFINE v == [host.worker[w] EXCEPT !.pc = p, !.result = result]
    <2>1. /\ host'.requested = host.requested /\ host'.explicit = host.explicit /\ host'.tasks = host.tasks
          /\ host'.worker = [host.worker EXCEPT ![w] = v]
      BY <1>1, <1>5 DEF HostTypes
    <2>2. v \in WorkerStates /\ v.intent = host.worker[w].intent /\ v.pc = p /\ v.result = result
      BY <1>2 DEF WorkerStates
    <2>3. v.pc # "idle" /\ (v.pc = "done" => v.result # "lost")
      BY <1>5, <2>2
    <2> HIDE DEF v
    <2> QED BY <2>1, <2>2, <2>3, WorkerKeeps
  <1> QED BY <1>3, <1>4, <1>5

LEMMA StepsKeep ==
  ASSUME KeepInv, Roomy, Next
  PROVE  StepKeeps
  <1>1. Types /\ HostTypes(host) /\ RunTypes /\ FactTypes
    BY DEF KeepInv, FenceInv, Types
  <1>2. CASE PumpTick \/ PumpFails
    BY <1>2, PumpKeeps
  <1>3. CASE Crash
    BY <1>3, EmptyKeeps DEF Crash
  <1>4. CASE ShutdownEnds
    <2>1. host' = [EmptyHost EXCEPT !.worker = host.worker] /\ life' = "closed"
      BY <1>4 DEF ShutdownEnds
    <2>2. host'.requested = EmptyHost.requested /\ host'.explicit = EmptyHost.explicit
      BY <2>1 DEF EmptyHost
    <2> QED BY <2>1, <2>2, EmptyKeeps
  <1>5. CASE Shutdown
    <2> DEFINE next(w) == IF w \notin Tracked \/ host.worker[w].pc = "done" THEN host.worker[w]
                          ELSE [host.worker[w] EXCEPT
                                   !.pc = IF @ = "created" THEN "done" ELSE "unwinding",
                                   !.result = "cancelled", !.behind = {}]
    <2>1. host' = [host EXCEPT !.worker = [w \in Workers |-> next(w)]] /\ life' = "closing"
      BY <1>5 DEF Shutdown
    <2>2. \A w \in Workers : /\ next(w).intent = host.worker[w].intent
                             /\ host.worker[w].pc # "idle" => next(w).pc # "idle"
      <3> SUFFICES ASSUME NEW w \in Workers
                   PROVE  /\ next(w).intent = host.worker[w].intent
                          /\ host.worker[w].pc # "idle" => next(w).pc # "idle"
        OBVIOUS
      <3>1. host.worker[w] \in WorkerStates
        BY <1>1 DEF HostTypes
      <3> QED BY <3>1 DEF WorkerStates
    <2> HIDE DEF next
    <2>3. /\ host'.requested = host.requested /\ host'.explicit = host.explicit /\ host'.tasks = host.tasks
          /\ host'.worker = [w \in Workers |-> next(w)]
      BY <1>1, <2>1 DEF HostTypes
    <2>4. \A w \in Workers : /\ host'.worker[w].intent = host.worker[w].intent
                             /\ host.worker[w].pc # "idle" => host'.worker[w].pc # "idle"
      BY <2>2, <2>3
    <2>5. life' \notin {"starting", "open"}
      BY <2>1
    <2> QED BY <2>3, <2>4, <2>5, WorkersKeep
  <1>6. ASSUME NEW w \in Workers, Claim(w) PROVE StepKeeps
    <2>1. host.worker[w].pc # "done" /\ life' = life
      BY <1>6 DEF Claim, FirstStep, Running
    <2>2. \/ \E result \in {"superseded", "lost"} : host' = Settled(host, w, result)
          \/ host' = [host EXCEPT !.worker[w].pc = "claimed", !.worker[w].behind = {}]
      BY <1>6 DEF Claim
    <2> QED BY <2>1, <2>2, SettledKeeps, AdvanceKeeps
  <1>7. ASSUME NEW w \in Workers, Begin(w) PROVE StepKeeps
    <2>1. host.worker[w].pc # "done" /\ life' = life
      BY <1>7 DEF Begin
    <2>2. \/ host' = [host EXCEPT !.worker[w].pc = "running"]
          \/ host' = [host EXCEPT !.worker[w].pc = "unwinding", !.worker[w].result = "lost"]
      BY <1>7 DEF Begin, Unwind
    <2> QED BY <2>1, <2>2, AdvanceKeeps
  <1>8. ASSUME NEW w \in Workers, Lose(w) \/ Raise(w) \/ \E status \in {"SUCCEEDED", "FAILED", "PARKED"} : End(w, status)
        PROVE  StepKeeps
    <2>1. host.worker[w].pc # "done" /\ life' = life
      BY <1>8 DEF Lose, Raise, End, Running
    <2>2. \E result \in {"ok", "lost", "failed"} :
             host' = [host EXCEPT !.worker[w].pc = "unwinding", !.worker[w].result = result]
      BY <1>8 DEF Lose, Raise, End, Unwind
    <2> QED BY <2>1, <2>2, AdvanceKeeps
  <1>9. ASSUME NEW w \in Workers, HardDeath(w) PROVE StepKeeps
    <2>1. host.worker[w].pc # "done" /\ life' = life
      BY <1>9 DEF HardDeath, Running
    <2>2. host' = [host EXCEPT !.worker[w].pc = "done", !.worker[w].result = "dead"]
      BY <1>9 DEF HardDeath
    <2> QED BY <2>1, <2>2, AdvanceKeeps
  <1>10. ASSUME NEW w \in Workers, Return(w) \/ ActivationFails(w) PROVE StepKeeps
    <2>1. host.worker[w].result \in {"none", "ok", "lost", "failed", "superseded", "dead", "cancelled"}
      BY <1>1 DEF HostTypes, WorkerStates
    <2>2. host.worker[w].pc # "done" /\ life' = life
      BY <1>10 DEF Return, ActivationFails, FirstStep, Running
    <2>3. \E result \in {"none", "ok", "lost", "failed", "superseded", "dead", "cancelled"} :
             host' = Settled(host, w, result)
      BY <1>10, <2>1 DEF Return, ActivationFails
    <2> QED BY <2>2, <2>3, SettledKeeps
  <1>11. ASSUME NEW w \in Workers, Finished(w) PROVE StepKeeps
    BY <1>11, FinishedKeeps
  <1>12. ASSUME host'.requested = host.requested, host'.explicit = host.explicit, host'.tasks = host.tasks,
                host'.worker = host.worker, life' = life
         PROVE  StepKeeps
    BY <1>12, WorkersKeep
  <1>13. ASSUME NEW r \in Runs, RetryDue(r) PROVE StepKeeps
    <2>1. /\ host'.requested = host.requested /\ host'.explicit = host.explicit /\ host'.tasks = host.tasks
          /\ host'.worker = host.worker /\ life' = life
      BY <1>1, <1>13 DEF RetryDue, HostTypes
    <2> QED BY <1>12, <2>1
  <1>14. ASSUME NEW r \in Runs, LaunchNew(r) \/ LaunchUnbound(r) PROVE StepKeeps
    <2>1. run[r].seq \in Nat
      BY <1>1 DEF RunTypes, RunRows
    <2>2. PICK i \in {Intent(run[r].seq, Recoverable, NoCause), Intent(Unbound, Resumable, NoCause)} : Launch(r, i)
      BY <1>14 DEF LaunchNew, LaunchUnbound
    <2>3. i \in Intents /\ Grounded(r, i)
      BY <2>1, BareIntents
    <2>4. i.base \in {run[r].seq, -1} /\ i.cause = NoCause
      BY DEF Intent, Unbound
    <2>5. i.base =< run[r].seq
      BY <2>1, <2>4
    <2>6. Timely(r, i)
      BY <2>4, <2>5, CausesDiffer DEF Timely
    <2> QED BY <2>2, <2>3, <2>6, LaunchKeeps
  <1>15. ASSUME NEW c \in Commands, DriveResume(c) \/ ReplayResume(c) PROVE StepKeeps
    <2>1. \/ UNCHANGED <<host, life>>
          \/ Launch(cmd[c].run, ResumeIntent(c)) /\ Launchable(c)
      BY <1>15 DEF DriveResume, ReplayResume
    <2>2. CASE UNCHANGED <<host, life>>
      BY <1>12, <2>2
    <2>3. CASE Launch(cmd[c].run, ResumeIntent(c)) /\ Launchable(c)
      <3>1. cmd[c].state # "absent" /\ Fits(cmd[c].run, ResumeIntent(c))
        BY <2>3 DEF Launchable
      <3>2. cmd[c].run \in Runs /\ cmd[c].base \in Nat
        BY <1>1, <3>1 DEF FactTypes
      <3>3. run[cmd[c].run].seq \in Nat
        BY <1>1, <3>2 DEF RunTypes, RunRows
      <3>4. ResumeIntent(c).base = cmd[c].base /\ ResumeIntent(c).allowed = Resumable
        BY DEF ResumeIntent, Intent
      <3>5. ResumeIntent(c).base = run[cmd[c].run].seq
        BY <3>1, <3>2, <3>4 DEF Fits, Unbound
      <3>6. Timely(cmd[c].run, ResumeIntent(c))
        BY <3>3, <3>4, <3>5 DEF Timely
      <3> QED BY <1>1, <2>3, <3>1, <3>2, <3>6, ResumeIntents, LaunchKeeps
    <2> QED BY <2>1, <2>2, <2>3
  <1>16. ASSUME NEW answer \in replied, DeliverReply(answer[1], answer[2]) PROVE StepKeeps
    <2>1. answer[1] \in Runs /\ answer[2] \in Nat /\ <<answer[1], answer[2]>> \in replied
      BY <1>1, <1>16 DEF FactTypes
    <2>2. Launch(answer[1], ReplyIntent(answer[2]))
      BY <1>16 DEF DeliverReply
    <2>3. answer[2] =< run[answer[1]].seq
      BY <2>1 DEF KeepInv, AnswersPark
    <2>4. ReplyIntent(answer[2]).base = answer[2] /\ ReplyIntent(answer[2]).cause = ReplyCause(answer[2])
      BY DEF ReplyIntent, Intent
    <2>5. Timely(answer[1], ReplyIntent(answer[2]))
      BY <2>3, <2>4, CausesDiffer DEF Timely
    <2> QED BY <2>1, <2>2, <2>5, ReplyIntents, LaunchKeeps
  <1>17. CASE \/ Recover
              \/ \E w \in Workers : Progress(w)
              \/ \E c \in Commands, r \in Runs : PlanResume(c, r)
              \/ \E r \in Runs : Reply(r) \/ LeaseLapses(r) \/ Stall(r) \/ RivalClaims(r) \/ RivalStep(r)
    <2>1. UNCHANGED <<host, life>>
      BY <1>17 DEF Recover, Progress, PlanResume, Reply, LeaseLapses, Stall, RivalClaims, RivalStep,
         RivalBegins, RivalEnds
    <2> QED BY <1>12, <2>1
  <1> QED BY <1>2, <1>3, <1>4, <1>5, <1>6, <1>7, <1>8, <1>9, <1>10, <1>11, <1>13, <1>14, <1>15, <1>16, <1>17
          DEF Next, Step, WorkerStep, WorkerFault

-----------------------------------------------------------------------------
(* The journal moves on under the host.                                    *)

\* A run's row as it is later: no event is taken back, and none changes the status silently.
Ages(x, y) == y.seq >= x.seq /\ (y.seq = x.seq => y.status = x.status)

LEMMA RowsAge ==
  ASSUME NEW x \in RunRows
  PROVE  /\ Ages(x, x)
         /\ \A y : y.seq = x.seq /\ y.status = x.status => Ages(x, y)
         /\ \A y : y.seq = x.seq + 1 => Ages(x, y)
  <1>1. x.seq \in Nat
    BY DEF RunRows
  <1>2. x.seq + 1 >= x.seq /\ x.seq + 1 # x.seq /\ x.seq >= x.seq
    BY <1>1
  <1> QED BY <1>2 DEF Ages

LEMMA RunAges ==
  ASSUME Types, Next
  PROVE  \A r \in Runs : Ages(run[r], run'[r])
  <1> DEFINE Aged == \A r \in Runs : Ages(run[r], run'[r])
  <1> SUFFICES Aged
    OBVIOUS
  <1>1. \A r \in Runs : run[r] \in RunRows
    BY DEF Types, RunTypes
  <1>2. CASE UNCHANGED run
    BY <1>1, <1>2, RowsAge
  <1>3. ASSUME NEW r \in Runs, NEW rec, run' = [run EXCEPT ![r] = rec],
               rec.seq = run[r].seq + 1 \/ (rec.seq = run[r].seq /\ rec.status = run[r].status)
        PROVE  Aged
    <2>1. run'[r] = rec /\ \A q \in Runs : q # r => run'[q] = run[q]
      BY <1>3 DEF Types, RunTypes
    <2>2. Ages(run[r], rec)
      BY <1>1, <1>3, RowsAge
    <2> QED BY <1>1, <2>1, <2>2, RowsAge
  <1> HIDE DEF Aged
  <1>4. \A w \in Workers : w[1] \in Runs
    BY DEF Workers
  <1>5. ASSUME NEW w \in Workers,
               \/ Claim(w) \/ Begin(w) \/ Progress(w) \/ HardDeath(w) \/ Return(w)
               \/ \E status \in {"SUCCEEDED", "FAILED", "PARKED"} : End(w, status)
        PROVE  Aged
    <2> DEFINE r == w[1]
    <2>1. \/ run' = run
          \/ run' = [run EXCEPT ![r].owner = w[2], ![r].live = TRUE]
          \/ run' = [run EXCEPT ![r].owner = "nobody", ![r].live = FALSE]
          \/ run' = [run EXCEPT ![r].owner = "gone"]
          \/ run' = [run EXCEPT ![r].seq = @ + 1]
          \/ \E status \in Statuses : run' = [run EXCEPT ![r].seq = @ + 1, ![r].status = status]
      BY <1>5 DEF Claim, Begin, Progress, HardDeath, Return, Released, End, Statuses, Resumable
    <2>2. r \in Runs
      BY <1>4
    <2> HIDE DEF r
    <2>3. run \in [Runs -> RunRows] /\ run[r] \in RunRows
      BY <2>2 DEF Types, RunTypes
    <2>4. ASSUME NEW o, NEW l, run' = [run EXCEPT ![r].owner = o, ![r].live = l] PROVE Aged
      <3> DEFINE rec == [run[r] EXCEPT !.owner = o, !.live = l]
      <3>1. run' = [run EXCEPT ![r] = rec]
        BY <2>2, <2>3, <2>4
      <3>2. rec.seq = run[r].seq /\ rec.status = run[r].status
        BY <2>3 DEF RunRows
      <3> QED BY <1>3, <2>2, <3>1, <3>2
    <2>5. CASE run' = [run EXCEPT ![r].owner = "gone"]
      <3> DEFINE rec == [run[r] EXCEPT !.owner = "gone"]
      <3>1. run' = [run EXCEPT ![r] = rec]
        BY <2>2, <2>3, <2>5
      <3>2. rec.seq = run[r].seq /\ rec.status = run[r].status
        BY <2>3 DEF RunRows
      <3> QED BY <1>3, <2>2, <3>1, <3>2
    <2>6. CASE run' = [run EXCEPT ![r].seq = @ + 1]
      <3> DEFINE rec == [run[r] EXCEPT !.seq = @ + 1]
      <3>1. run' = [run EXCEPT ![r] = rec]
        BY <2>2, <2>3, <2>6
      <3>2. rec.seq = run[r].seq + 1
        BY <2>3 DEF RunRows
      <3> QED BY <1>3, <2>2, <3>1, <3>2
    <2>7. ASSUME NEW status \in Statuses, run' = [run EXCEPT ![r].seq = @ + 1, ![r].status = status] PROVE Aged
      <3> DEFINE rec == [run[r] EXCEPT !.seq = @ + 1, !.status = status]
      <3>1. run' = [run EXCEPT ![r] = rec]
        BY <2>2, <2>3, <2>7
      <3>2. rec.seq = run[r].seq + 1
        BY <2>3 DEF RunRows
      <3> QED BY <1>3, <2>2, <3>1, <3>2
    <2> QED BY <1>2, <2>1, <2>4, <2>5, <2>6, <2>7
  <1>6. ASSUME NEW r \in Runs, LeaseLapses(r) \/ Stall(r) \/ RivalClaims(r) \/ RivalStep(r) PROVE Aged
    <2>1. run \in [Runs -> RunRows] /\ run[r] \in RunRows
      BY DEF Types, RunTypes
    <2>2. CASE LeaseLapses(r) \/ Stall(r)
      <3> DEFINE rec == [run[r] EXCEPT !.live = FALSE]
      <3>1. run' = [run EXCEPT ![r] = rec]
        BY <2>1, <2>2 DEF LeaseLapses, Stall
      <3>2. rec.seq = run[r].seq /\ rec.status = run[r].status
        BY <2>1 DEF RunRows
      <3> QED BY <1>3, <3>1, <3>2
    <2>3. CASE RivalClaims(r)
      <3> DEFINE rec == [run[r] EXCEPT !.owner = "rival", !.live = TRUE]
      <3>1. run' = [run EXCEPT ![r] = rec]
        BY <2>1, <2>3 DEF RivalClaims
      <3>2. rec.seq = run[r].seq /\ rec.status = run[r].status
        BY <2>1 DEF RunRows
      <3> QED BY <1>3, <3>1, <3>2
    <2>4. CASE RivalBegins(r)
      <3> DEFINE rec == [run[r] EXCEPT !.owner = "rival begun", !.seq = @ + 1, !.status = "RUNNING"]
      <3>1. run' = [run EXCEPT ![r] = rec]
        BY <2>1, <2>4 DEF RivalBegins
      <3>2. rec.seq = run[r].seq + 1
        BY <2>1 DEF RunRows
      <3> QED BY <1>3, <3>1, <3>2
    <2>5. ASSUME NEW status, RivalEnds(r, status) PROVE Aged
      <3> DEFINE rec == [run[r] EXCEPT !.seq = @ + 1, !.status = status, !.owner = "nobody", !.live = FALSE]
      <3>1. run' = [run EXCEPT ![r] = rec]
        BY <2>1, <2>5 DEF RivalEnds
      <3>2. rec.seq = run[r].seq + 1
        BY <2>1 DEF RunRows
      <3> QED BY <1>3, <3>1, <3>2
    <2> QED BY <1>6, <2>2, <2>3, <2>4, <2>5 DEF RivalStep
  <1>7. CASE Crash
    <2>1. run' = [r \in Runs |-> IF run[r].owner \in Slots THEN [run[r] EXCEPT !.owner = "gone"] ELSE run[r]]
      BY <1>7 DEF Crash
    <2>2. \A r \in Runs : run'[r].seq = run[r].seq /\ run'[r].status = run[r].status
      BY <1>1, <2>1 DEF RunRows
    <2> QED BY <1>1, <2>2, RowsAge DEF Aged
  <1>8. CASE \/ PumpTick \/ PumpFails \/ Recover \/ Shutdown \/ ShutdownEnds
             \/ \E w \in Workers : Lose(w) \/ Finished(w) \/ ActivationFails(w) \/ Raise(w)
             \/ \E c \in Commands : DriveResume(c) \/ ReplayResume(c) \/ \E r \in Runs : PlanResume(c, r)
             \/ \E r \in Runs : LaunchNew(r) \/ LaunchUnbound(r) \/ Reply(r) \/ RetryDue(r)
             \/ \E answer \in replied : DeliverReply(answer[1], answer[2])
    <2>1. UNCHANGED run
      BY <1>8 DEF PumpTick, PumpFails, Recover, Shutdown, ShutdownEnds, Lose, Finished, ActivationFails,
         Raise, DriveResume, ReplayResume, PlanResume, LaunchNew, LaunchUnbound, Reply, RetryDue,
         DeliverReply, durable
    <2> QED BY <1>2, <2>1
  <1> QED BY <1>5, <1>6, <1>7, <1>8 DEF Next, Step, WorkerStep, WorkerFault

\* A reply is stored for the park the run is in, or is about to enter.
LEMMA RepliesPark ==
  ASSUME Types, Next
  PROVE  \A r \in Runs, n \in Nat : <<r, n>> \in replied' /\ <<r, n>> \notin replied =>
            n = run'[r].seq /\ run'[r].status = "PARKED"
  <1> SUFFICES ASSUME NEW r \in Runs, NEW n \in Nat, <<r, n>> \in replied', <<r, n>> \notin replied
               PROVE  n = run'[r].seq /\ run'[r].status = "PARKED"
    OBVIOUS
  <1>1. ASSUME NEW w \in Workers, NEW status, End(w, status) PROVE n = run'[r].seq /\ run'[r].status = "PARKED"
    <2>1. w[1] \in Runs /\ run \in [Runs -> RunRows] /\ run[w[1]] \in RunRows
      BY DEF Workers, Types, RunTypes
    <2>2. /\ status = "PARKED" /\ <<r, n>> = <<w[1], run[w[1]].seq + 1>>
          /\ run' = [run EXCEPT ![w[1]].seq = @ + 1, ![w[1]].status = status]
      BY <1>1 DEF End
    <2>3. run'[w[1]].seq = run[w[1]].seq + 1 /\ run'[w[1]].status = status
      BY <2>1, <2>2 DEF RunRows
    <2> QED BY <2>2, <2>3
  <1>2. ASSUME NEW q \in Runs, Reply(q) PROVE n = run'[r].seq /\ run'[r].status = "PARKED"
    BY <1>2 DEF Reply
  <1>3. ASSUME UNCHANGED replied PROVE FALSE
    BY <1>3
  <1>4. ASSUME \/ PumpTick \/ PumpFails \/ Recover \/ Shutdown \/ ShutdownEnds \/ Crash
               \/ \E w \in Workers : \/ Claim(w) \/ Begin(w) \/ Lose(w) \/ Return(w) \/ Finished(w)
                                     \/ WorkerFault(w)
               \/ \E c \in Commands : DriveResume(c) \/ ReplayResume(c) \/ \E q \in Runs : PlanResume(c, q)
               \/ \E q \in Runs : \/ LaunchNew(q) \/ LaunchUnbound(q) \/ RetryDue(q) \/ LeaseLapses(q)
                                  \/ Stall(q) \/ RivalClaims(q) \/ RivalStep(q)
               \/ \E answer \in replied : DeliverReply(answer[1], answer[2])
        PROVE FALSE
    <2>1. UNCHANGED replied
      BY <1>4 DEF PumpTick, PumpFails, Recover, Shutdown, ShutdownEnds, Crash, Claim, Begin, Lose, Return,
         Finished, WorkerFault, ActivationFails, Progress, Raise, HardDeath, DriveResume, ReplayResume,
         PlanResume, LaunchNew, LaunchUnbound, RetryDue, LeaseLapses, Stall, RivalClaims, RivalStep,
         RivalBegins, RivalEnds, DeliverReply, durable
    <2> QED BY <1>3, <2>1
  <1> QED BY <1>1, <1>2, <1>4 DEF Next, Step, WorkerStep

LEMMA AnswersStep ==
  ASSUME Types, AnswersPark, Next
  PROVE  AnswersPark'
  <1> SUFFICES ASSUME NEW r \in Runs, NEW n \in Nat, <<r, n>> \in replied'
               PROVE  n =< run'[r].seq /\ (n = run'[r].seq => run'[r].status = "PARKED")
    BY DEF AnswersPark
  <1>1. run[r].seq \in Nat /\ run'[r].seq \in Nat
    <2>1. RunTypes /\ RunTypes'
      BY RunStep DEF Types, RunMoves
    <2> QED BY <2>1 DEF RunTypes, RunRows
  <1>2. CASE <<r, n>> \notin replied
    BY <1>1, <1>2, RepliesPark
  <1>3. CASE <<r, n>> \in replied
    <2>1. n =< run[r].seq /\ (n = run[r].seq => run[r].status = "PARKED")
      BY <1>3 DEF AnswersPark
    <2>2. run'[r].seq >= run[r].seq /\ (run'[r].seq = run[r].seq => run'[r].status = run[r].status)
      BY RunAges DEF Ages
    <2>3. n =< run'[r].seq /\ (n = run'[r].seq => n = run[r].seq /\ run'[r].seq = run[r].seq)
      BY <1>1, <2>1, <2>2
    <2> QED BY <2>1, <2>2, <2>3
  <1> QED BY <1>2, <1>3

\* A bound intent that was not ahead of the journal and fits it now fitted it before.
LEMMA FittedBefore ==
  ASSUME NEW r \in Runs, NEW i \in Intents, Timely(r, i), Ages(run[r], run'[r]),
         run[r] \in RunRows, run'[r] \in RunRows
  PROVE  /\ Timely(r, i)'
         /\ i.base # Unbound /\ Fits(r, i)' => Fits(r, i)
  <1>1. run[r].seq \in Nat /\ run'[r].seq \in Nat /\ (i.base \in Nat \/ i.base = -1)
    BY DEF RunRows, Intents, Unbound
  <1>2. i.base =< run[r].seq /\ run'[r].seq >= run[r].seq
    BY DEF Timely, Ages
  <1>3. i.base =< run'[r].seq /\ (i.base = run'[r].seq => i.base = run[r].seq /\ run'[r].seq = run[r].seq)
    BY <1>1, <1>2
  <1>4. Timely(r, i)'
    BY <1>3 DEF Timely
  <1>5. ASSUME i.base # Unbound, Fits(r, i)' PROVE Fits(r, i)
    <2>1. run'[r].status \in i.allowed /\ i.base = run'[r].seq
      BY <1>5 DEF Fits
    <2>2. i.base = run[r].seq /\ run'[r].status = run[r].status
      BY <1>3, <2>1 DEF Ages
    <2> QED BY <2>1, <2>2 DEF Fits
  <1> QED BY <1>4, <1>5

LEMMA InitKeep == Init => KeepInv
  <1> SUFFICES ASSUME Init PROVE KeepInv
    OBVIOUS
  <1>1. FenceInv
    BY InitFence
  <1>2. AnswersPark
    BY DEF Init, AnswersPark
  <1>3. \A r \in Runs : host.requested[r] = NoIntent /\ host.explicit[r] = NoIntent
    BY DEF Init, EmptyHost
  <1>4. ASSUME NEW r \in Runs PROVE Timely(r, NoIntent)
    <2>1. run[r].seq \in Nat
      BY <1>1 DEF FenceInv, Types, RunTypes, RunRows
    <2>2. NoIntent.base = -1 /\ NoIntent.cause = NoCause
      BY DEF NoIntent, Unbound
    <2> QED BY <2>1, <2>2, CausesDiffer DEF Timely
  <1> QED BY <1>1, <1>2, <1>3, <1>4 DEF KeepInv, Tracks, Orderly, Owed, OwedFor

\* What one step of the host may let go of, read in the journal after the step.
KeptInStep ==
    life' = "open" /\ ~ Crash =>
        \A r \in Runs : \A i \in Held(host, r) :
            \/ i.base = Unbound
            \/ \E j \in Held(host', r) : j = i \/ Supersedes(j, i)
            \/ ~ (Fits(r, i)')
            \/ Reported(host, r, i)

LEMMA StepKeep == KeepInv /\ Roomy /\ [Next]_vars => KeepInv' /\ (Next => KeptInStep)
  <1> SUFFICES ASSUME KeepInv, Roomy, [Next]_vars PROVE KeepInv' /\ (Next => KeptInStep)
    OBVIOUS
  <1>1. FenceInv /\ FenceInv' /\ Types
    BY StepFence DEF KeepInv, FenceInv
  <1>2. CASE Next
    <2>1. StepKeeps /\ AnswersPark'
      BY <1>1, <1>2, StepsKeep, AnswersStep DEF KeepInv
    <2>2. \A r \in Runs : Ages(run[r], run'[r]) /\ run[r] \in RunRows /\ run'[r] \in RunRows
      BY <1>1, <1>2, RunAges DEF FenceInv, Types, RunTypes
    <2>3. HostTypes(host) /\ HostTypes(host')
      BY <1>1 DEF FenceInv, Types, HostTypes
    <2>4. ASSUME NEW r \in Runs
          PROVE  /\ host.requested[r] \in Intents /\ host.explicit[r] \in Intents
                 /\ host'.requested[r] \in Intents /\ host'.explicit[r] \in Intents
                 /\ Timely(r, host.requested[r]) /\ Timely(r, host.explicit[r])
                 /\ Timely(r, host'.requested[r]) /\ Timely(r, host'.explicit[r])
      BY <2>1, <2>3 DEF KeepInv, StepKeeps, Orderly, HostTypes
    <2>5. ASSUME NEW r \in Runs, NEW i \in Intents, Timely(r, i)
          PROVE  /\ i.base =< run'[r].seq
                 /\ \A c \in Commands : i.cause = ResumeCause(c) => i.allowed = Resumable
                 /\ i.base # Unbound /\ Fits(r, i)' => Fits(r, i)
      <3>1. Timely(r, i)' /\ (i.base # Unbound /\ Fits(r, i)' => Fits(r, i))
        BY <2>2, <2>5, FittedBefore
      <3> QED BY <3>1 DEF Timely
    <2>6. Tracks(host)'
      BY <2>1 DEF StepKeeps, Tracks
    <2>7. Orderly(host)'
      <3> SUFFICES ASSUME NEW r \in Runs PROVE Timely(r, host.requested[r])' /\ Timely(r, host.explicit[r])'
        BY DEF Orderly
      <3> QED BY <2>4, <2>5 DEF Timely
    <2>8. ASSUME life' \in {"starting", "open"} PROVE Owed(host)'
      <3> SUFFICES ASSUME NEW r \in Runs PROVE OwedFor(host, r)'
        BY DEF Owed
      <3> DEFINE e == host'.explicit[r]
      <3>1. OwedFor(host', r)
        BY <2>1, <2>8 DEF StepKeeps, Owed
      <3>2. e.base # Unbound /\ run'[r].status \in e.allowed /\ e.base \in {Unbound, run'[r].seq} => Fits(r, e)
        <4>1. e \in Intents /\ Timely(r, e)
          BY <2>4
        <4> HIDE DEF e
        <4> QED BY <2>5, <4>1 DEF Fits
      <3>3. e # NoIntent /\ e.base # Unbound /\ run'[r].status \in e.allowed /\ e.base \in {Unbound, run'[r].seq} =>
               /\ \/ host'.requested[r] \in {NoIntent, e} \/ Supersedes(host'.requested[r], e)
                  \/ Reports(host'.worker[<<r, host'.tasks[r]>>])
               /\ Lost(host'.worker[<<r, host'.tasks[r]>>]) => host'.requested[r] # NoIntent
        BY <3>1, <3>2 DEF OwedFor
      <3> HIDE DEF e
      <3> QED BY <3>3 DEF e, OwedFor, Fits, Reports, Lost, Supersedes
    <2>9. KeptInStep
      <3> SUFFICES ASSUME life' = "open", ~ Crash, NEW r \in Runs, NEW i \in Held(host, r)
                   PROVE  \/ i.base = Unbound
                          \/ \E j \in Held(host', r) : j = i \/ Supersedes(j, i)
                          \/ ~ (Fits(r, i)')
                          \/ Reported(host, r, i)
        BY DEF KeptInStep
      <3>1. Retains(host, host', r)
        BY <2>1 DEF StepKeeps
      <3>2. i \in Intents /\ Timely(r, i)
        BY <2>4 DEF Held
      <3>3. i.base # Unbound /\ Fits(r, i)' => Fits(r, i)
        BY <2>5, <3>2
      <3> QED BY <3>1, <3>3 DEF Retains
    <2>10. KeepInv'
      BY <1>1, <2>1, <2>6, <2>7, <2>8 DEF KeepInv
    <2> QED BY <2>9, <2>10
  <1>3. CASE UNCHANGED vars /\ ~ Next
    <2>1. AnswersPark' /\ Tracks(host)' /\ Orderly(host)' /\ (life \in {"starting", "open"} => Owed(host))'
      BY <1>3 DEF KeepInv, vars, AnswersPark, Tracks, Orderly, Timely, Owed, OwedFor, Fits, Supersedes, Lost, Reports
    <2> QED BY <1>1, <1>3, <2>1 DEF KeepInv
  <1> QED BY <1>2, <1>3

\* While a host is open it lets go of an explicit, event-fenced intent only for one that supersedes
\* it, or because the journal has moved past it, or after its own worker came to a result (launch,
\* _fill_capacity, the exception clauses of _run and the done callback, against scans, rivals,
\* stalls, lost claims and late callbacks, in any number).  Python does not bound how many tasks a
\* run has left behind, so the theorem is about behaviours in which Slots is no bound either.
THEOREM IntentsKept == Spec /\ []Roomy => IntentKept
  <1>1. KeepInv /\ Roomy /\ [Next]_vars => [KeptInStep]_vars
    BY StepKeep
  <1>2. Spec /\ []Roomy => []KeepInv
    BY InitKeep, StepKeep, PTL DEF Spec
  <1>3. Spec /\ []Roomy => [][KeptInStep]_vars
    BY <1>1, <1>2, PTL DEF Spec
  <1> QED BY <1>3 DEF IntentKept, KeptInStep

=============================================================================
