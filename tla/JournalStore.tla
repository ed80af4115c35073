---------------------------- MODULE JournalStore ----------------------------
(***************************************************************************)
(* One SQLite journal file, the processes that open it and the writers of  *)
(* a process that has it open (substrate/journal/_sqlite_schema.py and the *)
(* writers of _sqlite_*.py).  An opener climbs the schema ladder, one      *)
(* transaction a rung, and then proves the whole store against its seals;  *)
(* a refusal is final, because nothing is healed on open.                  *)
(*                                                                         *)
(* A store begins as the history some build left: a prefix of a story, the *)
(* order in which facts are written, under the schema of that build.  A    *)
(* writer of the current build continues the same story.  Damage is the    *)
(* loss or the alteration of one row, the loss of one seal, or a fence set *)
(* back, at schema 7 or later, where the seals exist.                      *)
(***************************************************************************)
EXTENDS JournalFacts, SequencesExt

CONSTANTS Openers,     \* processes opening the journal
          Worlds       \* records [story, build, prefix, damage, crashes]: the histories considered

VARIABLES store,       \* the file
          story,       \* the facts still to be written, in order
          live,        \* some process has the journal open and writes
          pc, at, runs, \* each opener: its step, its local version, has_runs
          saw,         \* whether an opener's first reading found the lease row
          judged,      \* whether the store was damaged when the opener judged it
          damage, crashes, \* how many more the world allows
          hurt,        \* ghost: the store was damaged
          born         \* ghost: the version of the build that wrote each row and each plan

vars == <<store, story, live, pc, at, runs, saw, judged, damage, crashes, hurt, born>>

Current == 11

(***************************************************************************)
(* Facts as the builds write them.                                         *)
(***************************************************************************)
Put(s, rows, seals) ==
    [s EXCEPT !.rows = @ \cup rows, !.seals = IF s.version >= 7 THEN @ \cup seals ELSE @,
              !.old = IF s.version < 7 THEN @ \cup {r \in rows : r[1] \notin {"commands", "runs"}} ELSE @]

\* _allocate_seq, _insert_event_fact: the fence moves with the event it admits.
Event(s, kind) ==
    LET k == s.fence + 1
    IN  [Put(s, {<<"events", k>>}, {<<"event", k>>}) EXCEPT !.fence = k, !.kind = Append(@, kind)]

\* mint_creation_accounting_era, mint_metering_era: the eras a build mints with the run.
Eras(s, r) ==
    LET accounted == IF s.version < 8 THEN s
                     ELSE [Put(s, {<<"eras", r>>}, {<<"accounting_era", r>>})
                             EXCEPT !.era[r] = [source |-> "creation", floor |-> 0, leased |-> FALSE]]
    IN  IF s.version < 11 THEN accounted
        ELSE [Put(accounted, {}, {<<"metering_era", r>>}) EXCEPT !.metering[r] = "current"]

\* create_run: manifest, run, exact origin, world seal and eras in one transaction.
Created(s, r) ==
    LET origin == IF r = "clone" THEN {<<"run_origins", r>>} ELSE {}
    IN  Eras(Put(s, {<<"manifests", "m">>, <<"runs", r>>} \cup origin, {<<"manifest", "m">>, <<"run_world", r>>}), r)

\* claim_command, store_command_plan, _terminal_command.
Claimed(s, c) == [Put(s, {<<"commands", c>>}, {<<"command_claim", c>>}) EXCEPT !.phase[c] = "claimed"]
PlanStored(s, c) ==
    [Put(s, {}, {<<"command_plan", c>>})
       EXCEPT !.phase[c] = "planned", !.old = IF s.version < 7 THEN @ \cup {<<"commands", c>>} ELSE @]
Finished(s, c) == [Put(s, {}, {<<"command_terminal", c>>}) EXCEPT !.phase[c] = "done"]

\* _write_metering_phase: a run of a legacy metering era writes nothing.
Metered(s, kind) ==
    IF s.metering["source"] # "current" THEN s
    ELSE Put(Event(s, kind), {}, {<<"metering_relation", s.fence + 1>>})

\* capability_disposal_apply: the transition, its audit and their relationship, and the row.
Disposed(s) ==
    [Put(Event(Event(s, "LeaseLost"), "Disposal"), {}, {<<"disposal", "dispose">>}) EXCEPT !.lease = "lost"]

\* The identity an attestation was derived with, by the build that minted it.
ProofOf(version) == IF version < 4 THEN "m1-m2" ELSE IF version < 10 THEN "run-v1" ELSE "run-v2"

\* One fact of a story, as <<operation, argument>>.
Wrote(s, fact) ==
    LET op == fact[1]
    IN  CASE op = "create"   -> Created(s, fact[2])
          [] op = "begin"    -> [Event(s, "RunStarted") EXCEPT !.status = "running"]
          [] op = "complete" -> Put(Event(s, "NodeCompleted"), {<<"checkpoints", "n">>}, {<<"checkpoint", "n">>})
          [] op = "succeed"  -> [Event(s, "RunSucceeded") EXCEPT !.status = "succeeded"]
          [] op = "claim"    -> Claimed(s, fact[2])
          [] op = "plan"     -> PlanStored(s, fact[2])
          [] op = "finish"   -> Finished(s, fact[2])
          [] op = "resume"   -> Put(Event(s, "Resumed"), {}, {<<"resume_attempt", "resume">>})
          [] op = "acquire"  -> [Put(Event(s, "LeaseAcquired"), {<<"leases", "l">>}, {}) EXCEPT !.lease = "active"]
          [] op = "close"    -> [Event(s, "LeaseClosed") EXCEPT !.lease = IF s.version = 3 THEN "suspended" ELSE "closed"]
          [] op = "lose"     -> [Event(s, "LeaseLost") EXCEPT !.lease = "lost"]
          [] op = "meter"    -> Metered(s, fact[2])
          [] op = "dispose"  -> Disposed(s)
          [] op = "attest"   -> LET family == [s EXCEPT !.proof = ProofOf(s.version)]
                                IN  Put(family, {<<"attestations", "a">>}, {<<ProofFamily(family), "a">>})
          [] op = "prepare"  -> [Put(s, {<<"effects", "x">>}, {<<"effect_preparation", "x">>}) EXCEPT !.effect = "prepared"]
          [] op = "outcome"  -> [Event(s, "EffectOutcome") EXCEPT !.effect = IF s.version < 7 THEN "legacy" ELSE "current"]
          [] op = "register" -> [Put(s, {<<"components", 1>>}, {<<"component", 1>>}) EXCEPT !.high["components"] = 1]
          [] op = "promote"  -> [Put(s, {<<"promotions", 1>>}, {<<"promotion", 1>>}) EXCEPT !.high["promotions"] = 1]
          [] op = "send"     -> Put(s, {<<"messages", 1>>}, {<<"channel_message", 1>>})
          [] op = "answer"   -> Put(s, {<<"approvals", "answer">>, <<"messages", 2>>, <<"acks", 1>>},
                                    {<<"approval", "answer">>, <<"channel_message", 2>>, <<"channel_ack", 1>>})

Begun == <<<<"create", "source">>, <<"begin", "">>>>
Stories ==
    [reproduce |-> Begun \o <<<<"claim", "start">>, <<"plan", "start">>, <<"create", "clone">>, <<"finish", "start">>>>,
     resume    |-> Begun \o <<<<"claim", "resume">>, <<"plan", "resume">>, <<"resume", "">>, <<"finish", "resume">>,
                              <<"complete", "">>, <<"succeed", "">>>>,
     lease     |-> Begun \o <<<<"acquire", "">>, <<"close", "">>, <<"succeed", "">>>>,
     lost      |-> Begun \o <<<<"acquire", "">>, <<"lose", "">>>>,
     disposal  |-> Begun \o <<<<"acquire", "">>, <<"meter", "MeterIntent">>, <<"meter", "MeterOutcome">>,
                              <<"claim", "dispose">>, <<"plan", "dispose">>, <<"dispose", "">>, <<"finish", "dispose">>>>,
     effect    |-> Begun \o <<<<"attest", "">>, <<"prepare", "">>, <<"outcome", "">>>>,
     registry  |-> Begun \o <<<<"register", "">>, <<"attest", "">>, <<"promote", "">>>>,
     exchange  |-> Begun \o <<<<"send", "">>, <<"claim", "answer">>, <<"plan", "answer">>, <<"answer", "">>,
                              <<"finish", "answer">>>>]

\* The schema that introduced each table a fact needs; a worker's loss is refused since schema 8.
Since(fact) ==
    CASE fact[1] \in {"acquire", "close", "lose"} -> 3
      [] fact[1] \in {"claim", "plan", "finish", "resume"} -> IF fact[2] = "dispose" THEN 9 ELSE 5
      [] fact = <<"create", "clone">> -> 5
      [] fact[1] \in {"send", "answer"} -> 6
      [] fact[1] = "dispose" -> 9
      [] fact[1] = "meter" -> 11
      [] OTHER -> 0
Writable(version, fact) == Since(fact) <= version /\ (fact[1] = "lose" => version < 8)

Fresh(version) ==
    [version |-> version, tables |-> version # 0, rows |-> {}, altered |-> {}, seals |-> {}, old |-> {},
     legacy |-> {}, kind |-> <<>>, fence |-> 0, status |-> "pending", lease |-> "none", initial |-> "none",
     effect |-> "none", phase |-> [c \in Commands |-> "none"], proof |-> "none",
     era |-> [r \in Runs |-> [source |-> "none", floor |-> 0, leased |-> FALSE]],
     metering |-> [r \in Runs |-> "none"], high |-> [t \in {"components", "promotions"} |-> 0],
     cut |-> [messages |-> 0, acks |-> 0], reader |-> "strict", capability |-> TRUE]

\* A store of a build: its provenance cut exists from schema 7.
Built(version) ==
    LET s == [Fresh(version) EXCEPT !.tables = TRUE]
    IN  IF version >= 7 THEN Put(s, {<<"provenance", 1>>}, {<<"channel_provenance", 1>>}) ELSE s

History(version, facts) == FoldLeft(Wrote, Built(version), facts)

Planning(s) == {c \in Commands : s.phase[c] \in {"planned", "done"}}

Init ==
    \E w \in Worlds :
       LET facts == SubSeq(Stories[w.story], 1, w.prefix)
       IN  /\ \A i \in DOMAIN facts : Writable(w.build, facts[i])
           /\ store = IF w.build = 0 /\ w.prefix = 0 THEN Fresh(0) ELSE History(w.build, facts)
           /\ story = SubSeq(Stories[w.story], w.prefix + 1, Len(Stories[w.story]))
           /\ live = (w.build = Current)
           /\ born = [r \in store.rows \cup {<<"plans", c>> : c \in Planning(store)} |-> w.build]
           /\ damage = w.damage /\ crashes = w.crashes /\ hurt = FALSE
           /\ pc = [p \in Openers |-> "ask"] /\ at = [p \in Openers |-> 0] /\ runs = [p \in Openers |-> FALSE]
           /\ saw = [p \in Openers |-> FALSE] /\ judged = [p \in Openers |-> FALSE]

(***************************************************************************)
(* Writers of the current build: one transaction, its own proofs first.    *)
(***************************************************************************)
\* disposal_snapshot: an unowned run and the active acquisition the plan names.
Baseline(s) == RunAnswer(s, "source") = "held" /\ LeaseAnswer(s) = "held" /\ s.lease = "active"

\* What each writer projects before (s) and after (t) it writes; a failure raises and rolls back.
Admits(s, t, fact) ==
    LET op == fact[1]
    IN  CASE op = "create" ->
               /\ ManifestAnswer(s) # "refused" /\ ~Has(s, "runs", fact[2]) /\ ~Seal(s, "run_world", fact[2])
               /\ ~Orphaned(s)
               /\ \A f \in {"accounting_era", "metering_era"} : ~Seal(s, f, fact[2])
               /\ WorldHolds(t, fact[2])
          [] op \in {"begin", "resume"} -> RunAnswer(s, "source") = "held" /\ StoredEvent(t, t.fence)
          [] op = "complete" -> RunAnswer(s, "source") = "held" /\ CheckpointAnswer(s) = "absent"
          [] op = "succeed" -> RunAnswer(s, "source") = "held" /\ LeaseAnswer(s) # "refused" /\ s.lease # "active"
          [] op = "claim" -> CommandAnswer(s, fact[2]) = "absent"
          [] op = "plan" -> CommandAnswer(s, fact[2]) = "held"
          [] op = "finish" -> CommandAnswer(s, fact[2]) = "held" /\ CommandHolds(t, fact[2])
          [] op = "acquire" -> /\ RunAnswer(s, "source") = "held" /\ EraHolds(s, "source")
                               /\ LeaseAnswer(s) = "absent"
          [] op = "close" -> LeaseAnswer(s) = "held" /\ RunAnswer(s, "source") = "held"
          [] op = "lose" -> FALSE
          [] op = "meter" -> /\ WorldHolds(s, "source") /\ Seal(s, "metering_era", "source")
                             /\ s.metering["source"] = "current" =>
                                   /\ LeaseHistory(s) /\ RunAnswer(s, "source") = "held"
                                   /\ MeterHolds(t, t.fence)
          [] op = "dispose" -> /\ CommandAnswer(s, "dispose") = "held" /\ ReceiptAnswer(s) = "absent"
                               /\ Baseline(s) /\ ReceiptAnswer(t) = "held"
          [] op = "attest" -> RunAnswer(s, "source") = "held" /\ AttestationAnswer(s) = "absent"
          [] op = "prepare" -> RunAnswer(s, "source") = "held" /\ EffectAnswer(s) = "absent" /\ EffectHolds(t)
          [] op = "outcome" -> EffectAnswer(s) = "held" /\ RunAnswer(s, "source") = "held"
          [] op = "register" -> /\ Gapless(s, "components") /\ Gapless(s, "promotions")
                                /\ ~Has(s, "components", 1) /\ ~Seal(s, "component", 1)
          [] op = "promote" -> /\ Gapless(s, "components") /\ Gapless(s, "promotions")
                               /\ PromotionAnswer(s) = "absent" /\ AttestationAnswer(s) = "held"
                               /\ ComponentProved(s, 1) /\ PromotionHolds(t)
          [] op = "send" -> /\ RunAnswer(s, "source") = "held" /\ ~Has(s, "messages", 1)
                            /\ ~Seal(s, "channel_message", 1)
          [] op = "answer" -> /\ CommandAnswer(s, "answer") = "held" /\ ApprovalAnswer(s) = "absent"
                              /\ Exact(s, "messages", 1, "channel_message")
                              /\ ReplyHolds(t) /\ AckHolds(t)

Write ==
    /\ live /\ story # <<>>
    /\ LET fact == Head(story)
           t == Wrote(store, fact)
           plan == IF fact[1] = "plan" THEN {<<"plans", fact[2]>>} ELSE {}
       IN  /\ Admits(store, t, fact)
           /\ store' = t
           /\ born' = born @@ [r \in (t.rows \ store.rows) \cup plan |-> Current]
    /\ story' = Tail(story)
    /\ UNCHANGED <<live, pc, at, runs, saw, judged, damage, crashes, hurt>>

(***************************************************************************)
(* The ladder: one transaction a rung.                                     *)
(***************************************************************************)
Family(s, t) ==
    CASE t = "commands" -> "command_claim" [] t = "manifests" -> "manifest" [] t = "runs" -> "run_world"
      [] t = "events" -> "event" [] t = "checkpoints" -> "checkpoint" [] t = "attestations" -> ProofFamily(s)
      [] t = "approvals" -> "approval" [] t = "components" -> "component" [] t = "promotions" -> "legacy_promotion"
      [] t = "effects" -> "effect_preparation" [] t = "messages" -> "channel_message" [] t = "acks" -> "channel_ack"
      [] t = "provenance" -> "channel_provenance"

\* _ensure_v7_fact_seal_schema(migrate): a seal for every retained fact, phase and historical shape.
Stamps(s) ==
    {<<Family(s, r[1]), r[2]>> : r \in {q \in s.rows : q[1] \notin {"run_origins", "leases"}}}
    \cup {<<"command_plan", c>> : c \in {d \in Keys(s, "commands") : Planned(s, d)}}
    \cup {<<"plan_era", c>> : c \in {d \in Keys(s, "commands") : Planned(s, d)}}
    \cup {<<"command_terminal", c>> : c \in {d \in Keys(s, "commands") : s.phase[d] = "done"}}
    \cup {<<"legacy_outcome", k>> : k \in Of(s, {"EffectOutcome"})}
    \cup {<<"resume_attempt", "resume">> : k \in Of(s, {"Resumed"})}

\* _channel_message_sequence_max, _channel_ack_sequence_max.
Extent(s, t) == Max(Keys(s, t) \cup {0})

\* _migrate_m6_to_m7: the cuts, the stamps and the two legacy seal tables, in one transaction.
Stamped(s) ==
    LET cut == [s EXCEPT !.rows = @ \cup {<<"provenance", 1>>},
                         !.cut = [messages |-> Extent(s, "messages"), acks |-> Extent(s, "acks")]]
    IN  [cut EXCEPT !.seals = Stamps(cut), !.version = 7, !.initial = s.lease,
                    !.legacy = (IF Has(s, "leases", "l") THEN {"lease"} ELSE {})
                               \cup (IF s.effect = "legacy" THEN {"effect"} ELSE {})]

\* mint_migrated_capability_provenance: an era at each run's extent, a witness for each earlier loss.
Accounted(s) ==
    LET lost == {<<"lost_pre_v8", k>> : k \in Of(s, {"LeaseLost"})}
        initial == IF "lease" \in s.legacy /\ s.initial = "lost" THEN {<<"initial_lost_pre_v8", "l">>} ELSE {}
    IN  [s EXCEPT !.version = 8,
                  !.rows = @ \cup {<<"eras", r>> : r \in Keys(s, "runs")},
                  !.seals = @ \cup {<<"accounting_era", r>> : r \in Keys(s, "runs")} \cup lost \cup initial,
                  !.era = [r \in Runs |-> IF ~Has(s, "runs", r) THEN s.era[r]
                                          ELSE [source |-> "migration", floor |-> IF r = "source" THEN s.fence ELSE 0,
                                                leased |-> r = "source" /\ Has(s, "leases", "l")]]]

\* mint_pre_v10_attestation_witnesses.
Identified(s) ==
    [s EXCEPT !.version = 10,
              !.seals = @ \cup (IF Has(s, "attestations", "a") /\ s.proof = "run-v1" THEN {<<"run_v1_witness", "a">>} ELSE {})]

\* Runs of an earlier build taken for metered ones.
MeteredRuns(s) ==
    [s EXCEPT !.version = 11, !.seals = @ \cup {<<"metering_era", r>> : r \in Keys(s, "runs")},
              !.metering = [r \in Runs |-> IF Has(s, "runs", r) THEN "current" ELSE @[r]]]

\* mint_metering_era(legacy).
MeteringBegun(s) ==
    [s EXCEPT !.version = 11, !.seals = @ \cup {<<"metering_era", r>> : r \in Keys(s, "runs")},
              !.metering = [r \in Runs |-> IF Has(s, "runs", r) THEN "legacy" ELSE @[r]]]

\* The transaction of rung n.
Climbed(s, n) ==
    CASE n = 0 -> [s EXCEPT !.version = 2, !.fence = Max(Keys(s, "events") \cup {0})]
      [] n = 3 -> [s EXCEPT !.version = 4, !.lease = IF @ = "suspended" THEN "closed" ELSE @]
      [] n \in {2, 4, 5} -> [s EXCEPT !.version = n + 1]
      [] n = 6 -> Stamped(s)
      [] n = 7 -> Accounted(s)
      [] n = 8 -> [s EXCEPT !.version = 9]
      [] n = 9 -> Identified(s)
      [] n = 10 -> MeteringBegun(s)

\* The proofs a rung makes of the store it found and of the store it leaves.
Proves(s, t, n) ==
    CASE n < 6 -> TRUE
      [] n = 6 -> Read([t EXCEPT !.version = 6], "pre10", FALSE)
      [] n = 7 -> Keys(s, "eras") = {} /\ Read(s, "pre10", FALSE) /\ Read([t EXCEPT !.version = 7], "pre10", TRUE)
      [] n = 8 -> /\ Read(s, "pre10", TRUE) /\ Of(s, {"Disposal"}) = {} /\ SealKeys(s, "disposal") = {}
                          /\ Read(t, "pre10", TRUE)
      [] n = 9 -> Read(s, "pre10", TRUE) /\ Read([t EXCEPT !.version = 9], "strict", TRUE)
      [] n = 10 -> Read(s, "strict", TRUE) /\ Read(t, "strict", TRUE)

(***************************************************************************)
(* An opener.                                                              *)
(***************************************************************************)
Goes(p, step) == pc' = [pc EXCEPT ![p] = step]
Refuses(p) == Goes(p, "refused") /\ judged' = [judged EXCEPT ![p] = hurt]
Same == UNCHANGED <<story, damage, crashes, hurt, born>>

\* _migrate: the version, outside any transaction.
Ask(p) ==
    /\ pc[p] = "ask" /\ Goes(p, "look")
    /\ at' = [at EXCEPT ![p] = store.version]
    /\ Same /\ UNCHANGED <<store, live, runs, saw, judged>>

\* _has_legacy_runs_table: a second statement, and so a second snapshot.
Look(p) ==
    /\ pc[p] = "look"
    /\ runs' = [runs EXCEPT ![p] = store.tables]
    /\ Goes(p, IF at[p] = 0 /\ ~store.tables THEN "create" ELSE "climb")
    /\ Same /\ UNCHANGED <<store, live, at, saw, judged>>

\* _create_current_schema: tables, cut and version published together, or whoever won is asked.
Create(p) ==
    /\ pc[p] = "create"
    /\ IF store.version = 0 /\ ~store.tables
       THEN /\ store' = Built(Current) /\ Goes(p, "open") /\ live' = TRUE
            /\ born' = [r \in {<<"provenance", 1>>} |-> Current]
       ELSE Goes(p, "ask") /\ UNCHANGED <<store, live, born>>
    /\ UNCHANGED <<story, damage, crashes, hurt, at, runs, saw, judged>>

\* _begin_rung: the version re-read under the write lock (and its mutant, the version not re-read).
StaleRung(s, version) == TRUE
StillAt(s, version) == s.version = version

\* A rung: its transaction, or a no-op for a stale opener.
Rung(p) ==
    /\ pc[p] = "climb" /\ at[p] < Current /\ (at[p] = 0 => runs[p])
    /\ LET mine == StillAt(store, at[p])
           t == IF mine THEN Climbed(store, at[p]) ELSE store
       IN  IF mine /\ ~Proves(store, t, at[p])
           THEN Refuses(p) /\ UNCHANGED <<store, at>>
           ELSE /\ store' = t
                /\ at' = [at EXCEPT ![p] = IF @ = 0 THEN 2 ELSE IF @ < 7 THEN @ + 1 ELSE t.version]
                /\ UNCHANGED <<pc, judged>>
    /\ Same /\ UNCHANGED <<live, runs, saw>>

\* validate_legacy_effect_seal_inventory; then the lease seals and rows, and their events later.
Rows(p) ==
    /\ pc[p] = "climb" /\ at[p] = Current
    /\ IF LegacyEffects(store.legacy, store) /\ ("lease" \in store.legacy => LeaseSealed(store))
       THEN Goes(p, "events") /\ saw' = [saw EXCEPT ![p] = Has(store, "leases", "l")] /\ UNCHANGED judged
       ELSE Refuses(p) /\ UNCHANGED saw
    /\ Same /\ UNCHANGED <<store, live, at, runs>>

Proofs(p) ==
    /\ pc[p] = "events"
    /\ IF saw[p] => /\ "lease" \in store.legacy <=> Acquisition(store) = {}
                    /\ \A k \in Acquisition(store) : EventHolds(store, k)
       THEN Goes(p, "judge") /\ UNCHANGED judged
       ELSE Refuses(p)
    /\ Same /\ UNCHANGED <<store, live, at, runs, saw>>

\* read_snapshot around _validate_v7_fact_inventory: every rule against one view.
Judge(p) ==
    /\ pc[p] = "judge"
    /\ IF Read(store, "strict", TRUE) THEN Goes(p, "open") /\ live' = TRUE ELSE Goes(p, "refused") /\ UNCHANGED live
    /\ judged' = [judged EXCEPT ![p] = hurt]
    /\ Same /\ UNCHANGED <<store, at, runs, saw>>

\* A process killed before a commit leaves the store as it was, and is started again.
Crash(p) ==
    /\ pc[p] \notin {"ask", "open", "refused"} /\ crashes > 0
    /\ crashes' = crashes - 1 /\ Goes(p, "ask")
    /\ UNCHANGED <<store, story, live, at, runs, saw, judged, damage, hurt, born>>

\* Damage to what is retained.
Damaged(s) ==
    {[s EXCEPT !.rows = @ \ {r}] : r \in s.rows} \cup {[s EXCEPT !.altered = @ \cup {r}] : r \in s.rows}
    \cup {[s EXCEPT !.seals = @ \ {x}] : x \in s.seals}
    \cup {[s EXCEPT !.legacy = @ \ {x}] : x \in s.legacy}
    \cup (IF s.fence > 0 THEN {[s EXCEPT !.fence = @ - 1]} ELSE {})

Damage ==
    /\ damage > 0 /\ store.version >= 7
    /\ store' \in Damaged(store)
    /\ damage' = damage - 1 /\ hurt' = TRUE
    /\ UNCHANGED <<story, live, pc, at, runs, saw, judged, crashes, born>>

Next ==
    \/ \E p \in Openers : Ask(p) \/ Look(p) \/ Create(p) \/ Rung(p) \/ Rows(p) \/ Proofs(p) \/ Judge(p) \/ Crash(p)
    \/ Write \/ Damage

Spec == Init /\ [][Next]_vars

(***************************************************************************)
(* Properties.                                                             *)
(***************************************************************************)
Answers(s) ==
    {<<<<"commands", c>>, CommandAnswer(s, c)>> : c \in Commands} \cup {<<<<"runs", r>>, RunAnswer(s, r)>> : r \in Runs}
    \cup {<<<<"manifests", "m">>, ManifestAnswer(s)>>, <<<<"attestations", "a">>, AttestationAnswer(s)>>,
          <<<<"checkpoints", "n">>, CheckpointAnswer(s)>>, <<<<"effects", "x">>, EffectAnswer(s)>>,
          <<<<"leases", "l">>, LeaseAnswer(s)>>, <<<<"approvals", "answer">>, ApprovalAnswer(s)>>,
          <<<<"promotions", 1>>, PromotionAnswer(s)>>}

\* A store nothing damaged opens at the current schema for every opener, however openers, their crashes and the writers of
\* an open journal interleave, and no lookup refuses any of its facts: a refusal would be final,
\* since nothing is healed on open (_begin_rung, _create_current_schema, read_snapshot).
HealthyNeverCondemned ==
    ~hurt => /\ \A p \in Openers : pc[p] # "refused" /\ (pc[p] = "open" => store.version = Current)
             /\ store.version = Current => \A x \in Answers(store) : x[2] # "refused"

\* An opener that judges a damaged store refuses it, whatever rungs were still to be climbed and
\* whatever the writers of an already open journal committed after the damage: neither a rung's
\* stamps nor a later fact launders it.
DamageIsReported == \A p \in Openers : pc[p] = "open" => ~judged[p]

\* A lookup by identity never calls a committed fact absent, and never holds one that was not
\* committed, in a store with one damage: it tells the truth or refuses.
AnswersAreTrue ==
    store.version = Current =>
       \A x \in Answers(store) : x[2] = "refused" \/ (x[2] = "held" <=> x[1] \in DOMAIN born)

\* Only history is called history: a legacy lease or effect seal, a plan era, a migrated accounting
\* era, a run-v1 witness and a legacy metering era stand exactly beside what a build before the
\* rung that mints them wrote, however many openers climbed.
HistoryIsHonest ==
    LET before(r, v) == r \in DOMAIN born /\ born[r] < v
    IN  (~hurt /\ store.version = Current) =>
           /\ "lease" \in store.legacy <=> before(<<"leases", "l">>, 7)
           /\ \A c \in Commands : Seal(store, "plan_era", c) <=> before(<<"plans", c>>, 7)
           /\ \A r \in Keys(store, "runs") :
                 /\ store.era[r].source = "migration" <=> before(<<"runs", r>>, 8)
                 /\ store.metering[r] = "legacy" <=> before(<<"runs", r>>, 11)
           /\ Seal(store, "run_v1_witness", "a") => before(<<"attestations", "a">>, 10)
           /\ Old(store, "messages", 2) <=> before(<<"messages", 2>>, 7)
=============================================================================
