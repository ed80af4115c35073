---------------------------- MODULE JournalFacts ----------------------------
(***************************************************************************)
(* What the SQLite journal requires of the facts it retains                *)
(* (substrate/journal/_sqlite_*.py): every row beside an independent       *)
(* positive seal, every relation between rows provable from both ends, and *)
(* every historical shape beside a witness only a migration could mint.    *)
(*                                                                         *)
(* A store s is a record.  A row is <<table, key>> and a seal is           *)
(* <<family, key>>; altered holds the rows whose bytes are no longer those *)
(* that were sealed, old the rows in the wire form of a build before       *)
(* schema 7.  The store holds at most one run with events ("source"), a    *)
(* reproduction of it created by a command ("clone"), one manifest, lease, *)
(* effect, attestation, component, promotion, approval and exchange.       *)
(*                                                                         *)
(* "Holds" operators are projections that return; where they fail the code *)
(* raises JournalDamaged.  "Answer" operators are the lookups by identity: *)
(* "held", "absent" or "refused".                                          *)
(***************************************************************************)
EXTENDS Naturals, Sequences, FiniteSets, FiniteSetsExt

Commands == {"start", "resume", "dispose", "answer"}
Runs == {"source", "clone"}
LeaseKinds == {"LeaseAcquired", "LeaseClosed", "LeaseLost"}
MeterKinds == {"MeterIntent", "MeterOutcome"}
Families == {"command_claim", "command_plan", "command_terminal", "plan_era", "manifest", "run_world",
             "event", "checkpoint", "resume_attempt", "attestation", "legacy_attestation", "approval",
             "component", "promotion", "legacy_promotion", "effect_preparation", "legacy_outcome",
             "channel_message", "channel_ack", "channel_provenance"}
CapabilityFamilies == {"accounting_era", "lost_pre_v8", "initial_lost_pre_v8"}

Has(s, t, k) == <<t, k>> \in s.rows
Seal(s, f, k) == <<f, k>> \in s.seals
Keys(s, t) == {r[2] : r \in {q \in s.rows : q[1] = t}}
SealKeys(s, f) == {x[2] : x \in {y \in s.seals : y[1] = f}}
Old(s, t, k) == <<t, k>> \in s.old

\* A row that decodes to exactly what was sealed (_durable_text, _durable_model, ...).
Intact(s, t, k) == <<t, k>> \notin s.altered

\* require_durable_fact_seal: one present row proved against its independent seal.
Exact(s, t, k, f) == Has(s, t, k) /\ Intact(s, t, k) /\ Seal(s, f, k)

\* The projections that hash a row and require its seal, by family.
RunProved(s, r) == Exact(s, "runs", r, "run_world")
ManifestProved(s) == Exact(s, "manifests", "m", "manifest")
CommandProved(s, c) == Exact(s, "commands", c, "command_claim")
EffectProved(s) == Exact(s, "effects", "x", "effect_preparation")
ApprovalProved(s) == Exact(s, "approvals", "answer", "approval")
ComponentProved(s, k) == Exact(s, "components", k, "component")

Answer(present, holds, refused) ==
    IF present THEN IF holds THEN "held" ELSE "refused" ELSE IF refused THEN "refused" ELSE "absent"

(***************************************************************************)
(* Events of the source run.                                               *)
(***************************************************************************)
Of(s, kinds) == {k \in Keys(s, "events") : s.kind[k] \in kinds}

\* _stored_event_from_row_without_relationship.
EventHolds(s, k) == Exact(s, "events", k, "event")

\* validate_event_seal_inventory: a bijection between the retained events and their seals.
EventRule(s) ==
    /\ \A k \in Keys(s, "events") : EventHolds(s, k)
    /\ Keys(s, "events") = SealKeys(s, "event")

\* The extent not compared with the fence.
SealedBeyond(s) == ~Seal(s, "event", s.fence + 2)

\* validated_event_fence: the extent against the allocation fence, and no seal just beyond it.
FenceHolds(s) == Keys(s, "events") = 1 .. s.fence /\ ~Seal(s, "event", s.fence + 1)

\* validated_run_lifecycle: the status against the event at the fence.
LifecycleHolds(s) ==
    CASE s.status = "pending"   -> s.fence = 0 /\ Keys(s, "events") = {}
      [] s.status = "running"   -> s.fence \in Keys(s, "events") /\ s.kind[s.fence] # "RunSucceeded"
      [] s.status = "succeeded" -> s.fence \in Keys(s, "events") /\ s.kind[s.fence] = "RunSucceeded"

(***************************************************************************)
(* The lease: its history, the era of its run and the proof of a loss.     *)
(***************************************************************************)
\* legacy_lease_seal_for: the migration's seal of the base and the first lifecycle.
LeaseSealed(s) == "lease" \in s.legacy /\ Has(s, "leases", "l") /\ Intact(s, "leases", "l")

\* _has_current_lease_acquisition: only the acquisition event of schema 7 counts.
Acquisition(s) == {k \in Of(s, {"LeaseAcquired"}) : ~Old(s, "events", k)}

\* validate_legacy_lease_seal_inventory: exactly its historical or its current acquisition proof.
LeaseEraRule(s) ==
    /\ "lease" \in s.legacy => LeaseSealed(s)
    /\ Has(s, "leases", "l") => ("lease" \in s.legacy <=> Acquisition(s) = {})
    /\ \A k \in Acquisition(s) : Has(s, "leases", "l") => EventHolds(s, k)

StateNamed(kind) ==
    CASE kind = "LeaseAcquired" -> "active" [] kind = "LeaseClosed" -> "closed" [] kind = "LeaseLost" -> "lost"

\* _validate_capability_lease_history: the row is the last state of its exact chain of events.
LeaseHistory(s) ==
    LET chain == {k \in Of(s, LeaseKinds) : "lease" \in s.legacy => ~Old(s, "events", k)}
    IN  /\ Has(s, "leases", "l") /\ Intact(s, "leases", "l")
        /\ \A k \in Of(s, LeaseKinds) : EventHolds(s, k)
        /\ IF "lease" \in s.legacy
           THEN s.lease = IF chain = {} THEN s.initial ELSE StateNamed(s.kind[Max(chain)])
           ELSE /\ chain # {} /\ Of(s, {"LeaseAcquired"}) = {Min(chain)}
                /\ s.lease = StateNamed(s.kind[Max(chain)])

\* accounting_inventory_hash, capability_lifecycle_at_cut: the leases that existed at the floor.
FloorInventory(s, r) == s.era[r].leased => Has(s, "leases", "l")

\* require_accounting_era, validate_accounting_point: one sealed era per run, naming its world,
\* a floor within its extent and the leases that existed at the floor.
EraHolds(s, r) ==
    /\ Exact(s, "eras", r, "accounting_era")
    /\ Intact(s, "runs", r)
    /\ s.era[r].floor <= (IF r = "source" THEN s.fence ELSE 0)
    /\ FloorInventory(s, r)

\* A loss the 7-to-8 rung witnessed: at or below the floor of a migrated era.
Witnessed(s, k) == s.era["source"].source = "migration" /\ k <= s.era["source"].floor

\* project_disposal_receipt: the command's plan, its one public audit, the transition just before
\* it and the relationship seal prove each other.
ReceiptHolds(s, phases) ==
    /\ phases /\ s.phase["dispose"] \in {"planned", "done"}
    /\ Seal(s, "disposal", "dispose")
    /\ Cardinality(Of(s, {"Disposal"})) = 1
    /\ \A k \in Of(s, {"Disposal"}) :
          /\ EventHolds(s, k)
          /\ k - 1 \in Of(s, {"LeaseLost"}) /\ EventHolds(s, k - 1)
    /\ RunProved(s, "source")
    /\ LeaseHistory(s) /\ s.lease = "lost"
    /\ EraHolds(s, "source")

\* require_historical_lost_event, require_historical_initial_lost, disposal_for_transition.
LossProved(s, receipt) ==
    /\ "lease" \in s.legacy => s.era["source"].source = "migration"
    /\ \A k \in Of(s, {"LeaseLost"}) :
          IF Witnessed(s, k) THEN Seal(s, "lost_pre_v8", k) ELSE k + 1 \in Of(s, {"Disposal"}) /\ receipt
    /\ ("lease" \in s.legacy /\ s.initial = "lost") => Seal(s, "initial_lost_pre_v8", "l")

(***************************************************************************)
(* Commands.                                                               *)
(***************************************************************************)
Planned(s, c) == s.phase[c] \in {"planned", "done"}

\* _sealed_command_phases_from_row: a seal for each phase the row has crossed and for no other.
CommandPhases(s, c) ==
    /\ CommandProved(s, c)
    /\ Seal(s, "command_plan", c) <=> Planned(s, c)
    /\ Seal(s, "command_terminal", c) <=> s.phase[c] = "done"

\* _require_plan_era: a witness where the plan has a historical form, and none where it has not.
PlanEra(s, c) == Seal(s, "plan_era", c) <=> (Planned(s, c) /\ Old(s, "commands", c))

Receipt(s) == ReceiptHolds(s, CommandPhases(s, "dispose"))

\* _project_disposal_receipt: absent only when neither end of the relation is left and no planned
\* transition happened.
ReceiptAnswer(s) ==
    LET present == Seal(s, "disposal", "dispose") \/ Of(s, {"Disposal"}) # {}
        lost == \E k \in Of(s, {"LeaseLost"}) : s.version >= 8 /\ ~Witnessed(s, k)
    IN  Answer(present, Receipt(s), Planned(s, "dispose") /\ lost)

\* _require_disposal_command: a committed disposal has its positive receipt.
DisposalCommand(s) ==
    LET receipt == ReceiptAnswer(s)
    IN  receipt # "refused" /\ (s.phase["dispose"] = "done" => receipt = "held")

\* sealed_command_from_row.
CommandHolds(s, c) ==
    /\ CommandPhases(s, c)
    /\ s.reader # "sealing" => PlanEra(s, c)
    /\ c = "dispose" => DisposalCommand(s)

\* Only the rows that name a command, and not its seals.
NamingRows(s, c) == c = "start" /\ (Has(s, "runs", "clone") \/ Has(s, "run_origins", "clone"))

\* command_for_id: a missing command behind any fact that depends on it is damage.  Of the plan eras
\* it asks for a resume's only.
Dependents(s, c) ==
    \/ \E f \in {"command_claim", "command_plan", "command_terminal", "resume_attempt", "disposal"} :
          Seal(s, f, c)
    \/ c = "resume" /\ Seal(s, "plan_era", c)
    \/ c = "start" /\ (Has(s, "runs", "clone") \/ Has(s, "run_origins", "clone"))
    \/ c = "answer" /\ Has(s, "approvals", "answer")
    \/ c = "answer" /\ Has(s, "messages", 2) /\ ~Old(s, "messages", 2)
    \/ c = "answer" /\ Has(s, "acks", 1) /\ ~Old(s, "acks", 1)
    \/ c = "dispose" /\ Of(s, {"Disposal"}) # {}

CommandAnswer(s, c) == Answer(Has(s, "commands", c), CommandHolds(s, c), Dependents(s, c))

\* validate_command_claim_integrity: no seal without its command, none before its phase.
CommandSealsOwned(s) ==
    /\ SealKeys(s, "command_claim") \subseteq Keys(s, "commands")
    /\ \A c \in SealKeys(s, "command_plan") : Has(s, "commands", c) /\ Planned(s, c)
    /\ \A c \in SealKeys(s, "command_terminal") : Has(s, "commands", c) /\ s.phase[c] = "done"

\* validate_command_content_inventory, _validate_plan_era_inventory.
CommandRule(s) ==
    /\ CommandSealsOwned(s)
    /\ \A c \in Keys(s, "commands") : CommandHolds(s, c)
    /\ SealKeys(s, "plan_era") = {c \in Keys(s, "commands") : Planned(s, c) /\ Old(s, "commands", c)}

(***************************************************************************)
(* Runs, their worlds and what hangs on them.                              *)
(***************************************************************************)
\* retained_manifest: absence behind a seal or a run that names it is damage.
ManifestAnswer(s) ==
    Answer(Has(s, "manifests", "m"), ManifestProved(s),
           Seal(s, "manifest", "m") \/ Keys(s, "runs") # {})

\* _validate_clone_source_world: the source a reproduction was locked to is still that world.
SourceHolds(s) == RunProved(s, "source") /\ ManifestAnswer(s) = "held"

\* validated_run_world: columns, manifest, inputs, origin and the creating command's plan.
WorldHolds(s, r) ==
    /\ RunProved(s, r)
    /\ ManifestAnswer(s) = "held"
    /\ r = "source" => ~Has(s, "run_origins", r)
    /\ r = "clone" => /\ Has(s, "run_origins", r) /\ Intact(s, "run_origins", r)
                      /\ CommandAnswer(s, "start") = "held" /\ Planned(s, "start")
                      /\ SourceHolds(s)

\* _fact_family: an M1/M2 attestation has a seal family of its own.
ProofFamily(s) == IF s.proof = "m1-m2" THEN "legacy_attestation" ELSE "attestation"

\* _attestation_seals_match: one family's seal, and a witness exactly for run-v1 bytes once schema
\* 10 reads them.
SealsMatch(s) ==
    /\ Seal(s, ProofFamily(s), "a")
    /\ \A f \in {"attestation", "legacy_attestation"} \ {ProofFamily(s)} : ~Seal(s, f, "a")
    /\ IF s.reader = "strict" THEN Seal(s, "run_v1_witness", "a") <=> s.proof = "run-v1"
                              ELSE ~Seal(s, "run_v1_witness", "a") /\ s.proof # "run-v2"

\* _validate_attestation_creator_worlds: the world of the run that made it.
CreatorHolds(s) == s.proof # "m1-m2" => WorldHolds(s, "source")

\* require_attestation_seal.
AttestationHolds(s) ==
    Has(s, "attestations", "a") /\ Intact(s, "attestations", "a") /\ SealsMatch(s) /\ CreatorHolds(s)

\* stored_attestation_for_id.
AttestationAnswer(s) ==
    Answer(Has(s, "attestations", "a"), AttestationHolds(s),
           \/ \E f \in {"attestation", "legacy_attestation", "run_v1_witness"} : Seal(s, f, "a")
           \/ Has(s, "promotions", 1) \/ Has(s, "effects", "x"))

\* RUN_CHILD_ORPHAN_ANOMALY, RUN_ORIGIN_ANOMALY, RUN_WORLD_ANOMALY: asked of the whole store by
\* every reader of a run.
Orphaned(s) ==
    \/ /\ ~Has(s, "runs", "source")
       /\ \/ \E t \in {"events", "checkpoints", "effects", "leases", "approvals", "messages"} : Keys(s, t) # {}
          \/ Has(s, "promotions", 1) /\ (Seal(s, "promotion", 1) \/ ~Seal(s, "legacy_promotion", 1))
    \/ Has(s, "commands", "start") /\ s.phase["start"] = "done" /\ ~Has(s, "runs", "clone")
    \/ \E r \in SealKeys(s, "run_world") : ~Has(s, "runs", r)
    \/ Seal(s, "run_v1_witness", "a") /\ ~Has(s, "attestations", "a")
    \/ Has(s, "attestations", "a") /\ ~AttestationHolds(s)

WorldAnomaly(s) ==
    \/ \E r \in Keys(s, "runs") : ~RunProved(s, r)
    \/ \E o \in Keys(s, "run_origins") : <<"run_origins", o>> \in s.altered
    \/ Has(s, "runs", "clone") # Has(s, "run_origins", "clone")
    \/ Has(s, "run_origins", "source")

(***************************************************************************)
(* Relations an event is projected through.                                *)
(***************************************************************************)
\* _validated_resume_attempt: the command's plan, the event it fenced and the event before it.
AttemptHolds(s, k) ==
    /\ CommandAnswer(s, "resume") = "held" /\ Planned(s, "resume")
    /\ k > 1 => EventHolds(s, k - 1)
    /\ Seal(s, "resume_attempt", "resume")

\* require_metering_era, _phase_at: a metering event within its acquisition, beside its relation.
MeterHolds(s, k) ==
    /\ EventHolds(s, k) /\ Seal(s, "metering_era", "source") /\ s.metering["source"] = "current"
    /\ WorldHolds(s, "source")
    /\ LeaseHistory(s)
    /\ \E a \in Acquisition(s) : a < k
    /\ \A c \in Of(s, {"LeaseClosed", "LeaseLost"}) : k < c
    /\ s.kind[k] = "MeterOutcome" => \E i \in Of(s, {"MeterIntent"}) : i < k /\ EventHolds(s, i)
    /\ Seal(s, "metering_relation", k)

\* stored_event_from_row.
StoredEvent(s, k) ==
    /\ EventHolds(s, k)
    /\ s.kind[k] = "Resumed" => AttemptHolds(s, k)
    /\ (s.version >= 9 /\ s.kind[k] = "Disposal") => Receipt(s)
    /\ (s.version >= 9 /\ s.kind[k] = "LeaseLost") =>
          LeaseHistory(s) /\ EraHolds(s, "source") /\ LossProved(s, Receipt(s))
    /\ s.kind[k] \in MeterKinds => MeterHolds(s, k)

\* validate_resume_attempt_provenance: attributed events and attempt seals are one to one.
AttemptRule(s) ==
    /\ \A k \in Of(s, {"Resumed"}) : AttemptHolds(s, k)
    /\ SealKeys(s, "resume_attempt") = IF Of(s, {"Resumed"}) = {} THEN {} ELSE {"resume"}

\* validated_run_fence.
RunHolds(s, r) ==
    /\ ~WorldAnomaly(s) /\ ~Orphaned(s) /\ WorldHolds(s, r)
    /\ r = "source" => /\ FenceHolds(s)
                       /\ s.status # "pending" => s.fence \in Keys(s, "events") /\ StoredEvent(s, s.fence)
                       /\ LifecycleHolds(s)

\* run_projection_for_id, run_facts_for_id: identity first, and absence only without orphans.
RunAnswer(s, r) == Answer(Has(s, "runs", r), RunHolds(s, r), Orphaned(s))

\* validate_run_fact_inventory.
RunRule(s) == ~Orphaned(s) /\ AttemptRule(s) /\ \A r \in Keys(s, "runs") : RunHolds(s, r)

\* stored_checkpoint_for: the checkpoint and the completion event that proves it.
CheckpointAnswer(s) ==
    LET done == Of(s, {"NodeCompleted"})
    IN  IF Has(s, "checkpoints", "n") # (done # {}) THEN "refused"
        ELSE Answer(Has(s, "checkpoints", "n"),
                    Exact(s, "checkpoints", "n", "checkpoint") /\ \A k \in done : StoredEvent(s, k),
                    Seal(s, "checkpoint", "n"))

(***************************************************************************)
(* Effects, leases, approvals, the registry and exchanges.                 *)
(***************************************************************************)
Outcomes(s) == {k \in Of(s, {"EffectOutcome"}) : ~Old(s, "events", k)}

\* _validate_effect_lifecycle: prepared, current terminal or sealed legacy, and nothing between.
EffectLifecycle(s) ==
    CASE s.effect = "prepared" -> "effect" \notin s.legacy /\ Outcomes(s) = {}
      [] s.effect = "legacy"   -> "effect" \in s.legacy /\ Outcomes(s) = {}
      [] s.effect = "current"  -> /\ "effect" \notin s.legacy /\ Cardinality(Outcomes(s)) = 1
                                  /\ \A k \in Outcomes(s) : StoredEvent(s, k)

\* _effect_request_from_row.
EffectHolds(s) ==
    /\ RunAnswer(s, "source") = "held"
    /\ AttestationAnswer(s) = "held"
    /\ EffectProved(s)
    /\ EffectLifecycle(s)

\* _effect_row, receipt_for.
EffectAnswer(s) ==
    Answer(Has(s, "effects", "x"), EffectHolds(s),
           "effect" \in s.legacy \/ Outcomes(s) # {} \/ Seal(s, "effect_preparation", "x"))

\* validate_legacy_effect_seal_inventory: legacy terminal rows and their seals are one to one.
LegacyEffects(seals, s) ==
    /\ "effect" \in seals => Has(s, "effects", "x") /\ Intact(s, "effects", "x")
    /\ Has(s, "effects", "x") => ("effect" \in seals <=> s.effect = "legacy")

\* validate_effect_fact_inventory: in both directions.
EffectRule(s) ==
    /\ Has(s, "effects", "x") => EffectHolds(s)
    /\ \A k \in Of(s, {"EffectOutcome"}) :
          /\ StoredEvent(s, k)
          /\ Seal(s, "legacy_outcome", k) <=> Old(s, "events", k)
          /\ ~Old(s, "events", k) => Has(s, "effects", "x")
    /\ SealKeys(s, "legacy_outcome") \subseteq Of(s, {"EffectOutcome"})

\* _capability_lease_from_row.
LeaseAnswer(s) ==
    Answer(Has(s, "leases", "l"),
           LeaseHistory(s) /\ EraHolds(s, "source") /\ LossProved(s, Receipt(s)),
           "lease" \in s.legacy \/ Of(s, LeaseKinds) # {})

\* validate_capability_lease_inventory.
LeaseRule(s, provenance) ==
    /\ LeaseEraRule(s)
    /\ Has(s, "leases", "l") => /\ LeaseHistory(s)
                                /\ provenance => EraHolds(s, "source") /\ LossProved(s, Receipt(s))
    /\ \A k \in Of(s, LeaseKinds) : StoredEvent(s, k) /\ Has(s, "leases", "l")

\* validate_capability_provenance_inventory.
CapabilityRule(s) ==
    /\ \A r \in Keys(s, "runs") : EraHolds(s, r)
    /\ Keys(s, "eras") \subseteq Keys(s, "runs")
    /\ SealKeys(s, "accounting_era") = Keys(s, "runs")
    /\ SealKeys(s, "lost_pre_v8") =
          IF Has(s, "leases", "l") THEN {k \in Of(s, {"LeaseLost"}) : Witnessed(s, k)} ELSE {}
    /\ SealKeys(s, "initial_lost_pre_v8") =
          IF Has(s, "leases", "l") /\ "lease" \in s.legacy /\ s.initial = "lost" THEN {"l"} ELSE {}

\* approval_fact, _sealed_approval_from_row.
ApprovalAnswer(s) ==
    Answer(Has(s, "approvals", "answer"),
           ApprovalProved(s) /\ CommandAnswer(s, "answer") = "held",
           Seal(s, "approval", "answer"))

\* _promotion_fact_family, _validate_promotion_authority: one era's seal, and for the current era
\* an attestation whose identity the journal derived.
PromotionHolds(s) ==
    /\ Intact(s, "promotions", 1)
    /\ Seal(s, "promotion", 1) # Seal(s, "legacy_promotion", 1)
    /\ AttestationAnswer(s) = "held"
    /\ Seal(s, "promotion", 1) => s.proof # "m1-m2"

\* _promotion_row_for_attestation, promotion_for_attestation.
PromotionAnswer(s) ==
    Answer(Has(s, "promotions", 1), PromotionHolds(s), Seal(s, "promotion", 1) \/ Seal(s, "legacy_promotion", 1))

\* _registry_sequence_max: an AUTOINCREMENT history with no deletion and no gap.
Gapless(s, t) == Keys(s, t) = 1 .. s.high[t]

\* _registry_snapshot_at_revision, validate_registry_seal_inventory.
RegistryRule(s) ==
    /\ Gapless(s, "components") /\ Gapless(s, "promotions")
    /\ \A k \in Keys(s, "components") : ComponentProved(s, k)
    /\ Has(s, "promotions", 1) => PromotionHolds(s) /\ Has(s, "components", 1)

\* _required_channel_provenance_cutoffs, _validate_reply_provenance_era, _stored_ack_record: the
\* positions below the cut are history, those above it name the command that wrote them.
ReplyHolds(s) ==
    /\ Exact(s, "messages", 2, "channel_message") /\ Exact(s, "messages", 1, "channel_message")
    /\ Exact(s, "provenance", 1, "channel_provenance")
    /\ IF Old(s, "messages", 2)
       THEN 2 <= s.cut.messages /\ Has(s, "acks", 1) /\ Old(s, "acks", 1)
       ELSE 2 > s.cut.messages /\ CommandAnswer(s, "answer") = "held"

AckHolds(s) ==
    /\ Exact(s, "acks", 1, "channel_ack") /\ Exact(s, "provenance", 1, "channel_provenance")
    /\ IF Old(s, "acks", 1) THEN 1 <= s.cut.acks
                            ELSE 1 > s.cut.acks /\ CommandAnswer(s, "answer") = "held"
                                 /\ Exact(s, "messages", 1, "channel_message")

\* validate_channel_fact_seal_inventory.
ChannelRule(s) ==
    /\ Exact(s, "provenance", 1, "channel_provenance")
    /\ \A k \in Keys(s, "messages") : Exact(s, "messages", k, "channel_message")
    /\ Has(s, "messages", 2) => ReplyHolds(s)
    /\ Has(s, "acks", 1) => AckHolds(s)
    /\ Cardinality(SealKeys(s, "channel_message")) = Cardinality(Keys(s, "messages"))
    /\ Cardinality(SealKeys(s, "channel_ack")) = Cardinality(Keys(s, "acks"))

\* validate_checkpoint_seal_inventory.
CheckpointRule(s) ==
    /\ CheckpointAnswer(s) # "refused"
    /\ \A k \in Of(s, {"NodeCompleted"}) : StoredEvent(s, k) /\ Has(s, "checkpoints", "n")

\* validate_attestation_seal_inventory.
AttestationRule(s) ==
    /\ Has(s, "attestations", "a") => AttestationHolds(s)
    /\ s.reader = "strict" =>
          SealKeys(s, "run_v1_witness") = IF Has(s, "attestations", "a") /\ s.proof = "run-v1" THEN {"a"} ELSE {}

\* validate_disposal_inventory.
DisposalRule(s) ==
    /\ Of(s, {"Disposal"}) # {} => ReceiptAnswer(s) = "held"
    /\ SealKeys(s, "disposal") = IF Of(s, {"Disposal"}) = {} THEN {} ELSE {"dispose"}

\* validate_metering_inventory, _snapshot.
MeteringRule(s) ==
    /\ \A r \in Keys(s, "runs") : Seal(s, "metering_era", r) /\ WorldHolds(s, r)
    /\ \A k \in Of(s, MeterKinds) : MeterHolds(s, k)
    /\ Cardinality(SealKeys(s, "metering_relation")) = Cardinality(Of(s, MeterKinds))

(***************************************************************************)
(* The whole inventory.                                                    *)
(***************************************************************************)
\* validate_durable_fact_seal_inventory: as many seals as the rows require, each of a known family.
Expected(s) ==
    LET n(t) == Cardinality(Keys(s, t))
        command(P(_)) == Cardinality({c \in Keys(s, "commands") : P(c)})
        due(p) == IF p THEN 1 ELSE 0
    IN  n("attestations") + n("commands") + command(LAMBDA c : Planned(s, c))
        + command(LAMBDA c : s.phase[c] = "done") + n("approvals") + n("components") + n("promotions")
        + n("effects") + n("manifests") + n("runs") + n("events") + n("checkpoints") + n("messages")
        + n("acks") + 1
        + Cardinality(SealKeys(s, "legacy_outcome")) + Cardinality(SealKeys(s, "plan_era"))
        + Cardinality(SealKeys(s, "resume_attempt"))
        + (IF s.capability THEN Cardinality({x \in s.seals : x[1] \in CapabilityFamilies}) ELSE 0)
        + (IF s.capability /\ s.version >= 9 THEN Cardinality(SealKeys(s, "disposal")) ELSE 0)
        + due(s.reader = "strict" /\ Seal(s, "run_v1_witness", "a"))
        + (IF s.version >= 11 THEN n("runs") + Cardinality(SealKeys(s, "metering_relation")) ELSE 0)

Known(s) ==
    Families \cup (IF s.capability THEN CapabilityFamilies ELSE {})
             \cup (IF s.capability /\ s.version >= 9 THEN {"disposal"} ELSE {})
             \cup (IF s.reader = "strict" THEN {"run_v1_witness"} ELSE {})
             \cup (IF s.version >= 11 THEN {"metering_era", "metering_relation"} ELSE {})

CountRule(s) == Cardinality(s.seals) = Expected(s) /\ \A x \in s.seals : x[1] \in Known(s)

\* _validate_v7_fact_inventory.
Inventory(s) ==
    /\ CommandRule(s)
    /\ Has(s, "manifests", "m") => ManifestProved(s)
    /\ EventRule(s)
    /\ CheckpointRule(s)
    /\ AttestationRule(s)
    /\ RunRule(s)
    /\ Has(s, "approvals", "answer") => ApprovalAnswer(s) = "held"
    /\ RegistryRule(s)
    /\ EffectRule(s)
    /\ LeaseRule(s, s.capability)
    /\ s.capability => CapabilityRule(s)
    /\ ChannelRule(s)
    /\ (s.capability /\ s.version >= 9) => DisposalRule(s)
    /\ s.version >= 11 => MeteringRule(s)
    /\ CountRule(s)

Read(s, reader, capability) == Inventory([s EXCEPT !.reader = reader, !.capability = capability])
=============================================================================
