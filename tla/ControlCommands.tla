-------------------------- MODULE ControlCommands --------------------------
(***************************************************************************)
(* The control plane's mutating operations (api/_control_commands.py) over *)
(* the command ledger and the domain tables of the shared SQLite journal   *)
(* (substrate/journal/_sqlite_control.py, _sqlite_channels.py,             *)
(* _sqlite_registry.py).                                                   *)
(*                                                                         *)
(* Every operation follows one law: claim the command, store an immutable  *)
(* plan, apply the plan's one domain mutation, store the answer.  Each of  *)
(* these is a transaction of its own and an operation never awaits, so one *)
(* process is sequential; but several processes share the store, and one   *)
(* that is paused for longer than COMMAND_TTL_S wakes up inside a command  *)
(* another process has meanwhile taken over.  A step here is one           *)
(* transaction with the reads that decide it.                              *)
(*                                                                         *)
(* An exception (OwnershipLost, JournalDamaged, RegistryError) ends the    *)
(* operation without an answer: the process is idle again and the command  *)
(* stays as the ledger has it.                                             *)
(***************************************************************************)
EXTENDS Integers, Sequences, FiniteSets, SequencesExt

CONSTANTS
    None,
    Procs,           \* control-plane processes; each is one owner_id and one run host
    Commands,        \* one per (actor, operation, idempotency key)
    KindOf,          \* the operation of a command
    TargetOf,        \* the component version a registry command names
    BaseOf,          \* the baseline a promotion's proof was evaluated against, or the
                     \* expected_stable of a rollback
    ProofOf,         \* the attestation id a registry_promote names
    Invalid,         \* commands whose request is refused for what it says
    Scenarios,       \* the commands callers submit together, the state the one existing
                     \* run is in at the start, the promotions made before, oldest
                     \* first, and the bound on crashes and on claims that expire under
                     \* a live process
    Registered,      \* component versions in the registry at the start
    MaxEpoch,        \* bound: claims of one command
    MaxSeq           \* bound: events of the run

Kinds == {"start", "clone", "cancel", "resume", "dispose", "decide", "approve", "reply", "ack",
          "register", "initial", "promote", "rollback"}
Versions == {TargetOf[c] : c \in Commands} \ {None}
Resumable == {"PENDING", "RUNNING", "FAILED", "PARKED"}
Concluded == {"SUCCEEDED", "FAILED", "PARKED", "CANCELLED"}   \* statuses with a terminal event

ASSUME KindAssumption == KindOf \in [Commands -> Kinds] /\ \A s \in Scenarios : s.commands \subseteq Commands
ASSUME BoundAssumption == {MaxEpoch, MaxSeq} \subseteq Nat

\* A registration, an initial promotion and a promotion name the version they are about.
ASSUME TargetAssumption ==
    \A c \in Commands : KindOf[c] \in {"register", "initial", "promote"} => TargetOf[c] # None

\* The one request the commands are about asks for an approval or for advice: runs_approve
\* refuses the one and channels_reply the other.
ASSUME RequestAssumption ==
    \A s \in Scenarios : \A c, d \in s.commands : ~ (KindOf[c] = "approve" /\ KindOf[d] = "reply")

\* Attestation ids are digests: an evaluation's proof is not the policy proof of an initial
\* promotion.
ASSUME ProofAssumption ==
    \A c \in Commands : KindOf[c] = "promote" => \A v \in Versions : ProofOf[c] # <<None, v>>

ASSUME HistoryAssumption == \A s \in Scenarios : s.promotions \in Seq(Range(s.promotions))

VARIABLES
    ledger,     \* the commands table
    proc,       \* what each process is doing
    hosted,     \* the resume intent queued in each process's run host
    store,      \* the domain tables
    heard,      \* the answers given to callers of each command
    damaged,    \* the commands whose replay raised JournalDamaged
    faults,     \* failures that may still happen
    workload    \* the commands submitted in this behaviour

vars == <<ledger, proc, hosted, store, heard, damaged, faults, workload>>

(***************************************************************************)
(* Plans and answers.  A plan either refuses, with the reason every replay *)
(* repeats, or names the mutation: the fence or baseline it was computed   *)
(* against and what it moves to.                                           *)
(***************************************************************************)
Do(base, to) == [tag |-> "do", base |-> base, to |-> to]
Refuse(why) == [tag |-> "refuse", base |-> None, to |-> why]
Committed == "committed"
Lost == "lost"               \* the one canonical rejection of a domain plan
Reasons == {"invalid", "admission", "lock_mismatch", "live_owner", "terminal", "ineligible", "unknown_version",
            "stable_moved", "proof_used"}
Responses == {Committed, Lost} \cup Reasons
NoPlan == [tag |-> "none", base |-> None, to |-> None]

ASSUME NoneAssumption == None \notin Commands \cup Responses

Idle == [cmd |-> None, epoch |-> 0, at |-> "idle", draft |-> None]
NoClaim == [state |-> "absent", owner |-> None, epoch |-> 0, leased |-> FALSE,
            plan |-> NoPlan, answer |-> None]

Plan(c) == ledger[c].plan
Terminal(c) == ledger[c].state \in {"committed", "rejected"}

Init ==
    /\ ledger = [c \in Commands |-> NoClaim]
    /\ proc = [p \in Procs |-> Idle]
    /\ hosted = [p \in Procs |-> None]
    /\ heard = [c \in Commands |-> {}]
    /\ damaged = {}
    /\ \E s \in Scenarios :
        /\ workload = s.commands /\ faults = s.faults
        /\ store = [status |-> s.status, owned |-> FALSE, seq |-> 1, epoch |-> 1,
                 cancelled |-> FALSE, rows |-> "active", attempts |-> {}, created |-> {},
                 receipts |-> {}, approvals |-> {}, reply |-> None, ack |-> None,
                 stamp |-> [v \in Versions |-> IF v \in Registered THEN "initially" ELSE None],
                 minted |-> {}, promotions |-> s.promotions]

(***************************************************************************)
(* The registry as a snapshot shows it.                                    *)
(***************************************************************************)
Stable == IF store.promotions = <<>> THEN None ELSE Last(store.promotions).to

\* Where the stable pointer stood before it last moved to v.
Previous(v) ==
    LET moves == {i \in DOMAIN store.promotions : store.promotions[i].to = v}
    IN  IF moves = {} THEN None ELSE store.promotions[Max(moves)].from

\* A policy proof is the digest of the edge it authorizes.
Proof(c, plan) == IF KindOf[c] = "promote" THEN ProofOf[c] ELSE <<plan.base, plan.to>>
Used(proof) == \E i \in DOMAIN store.promotions : store.promotions[i].proof = proof

(***************************************************************************)
(* What the plan step of an operation decides from what it reads; nothing  *)
(* when it raises.  Admission may judge the same proposal differently on   *)
(* two drives, since the registry may have moved between them.             *)
(***************************************************************************)
RollbackDraft(c) ==
    LET to == Previous(BaseOf[c])
    IN  CASE Stable # BaseOf[c] -> {Refuse("stable_moved")}
          [] Stable = BaseOf[c] /\ to = None -> {}          \* RegistryError is not caught
          [] Stable = BaseOf[c] /\ to # None /\ Used(<<BaseOf[c], to>>) -> {Refuse("proof_used")}
          [] OTHER -> {Do(BaseOf[c], to)}

InitialDraft(c) ==
    CASE store.stamp[TargetOf[c]] = None -> {Refuse("unknown_version")}
      [] ~ Used(<<None, TargetOf[c]>>) /\ Stable # None -> {Refuse("stable_moved")}
      [] OTHER -> {Do(None, TargetOf[c])}

PromotionDraft(c) ==
    CASE store.stamp[TargetOf[c]] = None -> {Refuse("unknown_version")}
      [] BaseOf[c] # Stable -> {Refuse("stable_moved")}
      [] OTHER -> {Do(BaseOf[c], TargetOf[c])}

ResumeDraft ==
    CASE store.status = "RUNNING" /\ store.owned -> {Refuse("live_owner")}
      [] store.status \in {"SUCCEEDED", "CANCELLED"} -> {Refuse("terminal")}
      [] OTHER -> {Do(store.seq, store.status)}

DisposalDraft ==
    IF store.status = "RUNNING" /\ ~ store.owned /\ store.rows = "active"
    THEN {Do(store.seq, store.epoch)} ELSE {Refuse("ineligible")}

\* A definition that already has a row keeps that row's timestamp; a new one gets the
\* created_at of its own command.
RegistrationDraft(c) ==
    LET at == store.stamp[TargetOf[c]]
    IN  {Do(IF at = None THEN "new" ELSE "existing", IF at = None THEN c ELSE at)}

\* A counterfactual admits the source world again, unchanged and then overridden; either
\* may be refused, and so may an override the registry does not retain.
AdmitCounterfactual == {Do(None, None), Refuse("lock_mismatch")}
CloneDraft == {Refuse("unknown_version")} \cup AdmitCounterfactual

Draft(c) ==
    CASE c \in Invalid -> {Refuse("invalid")}
      [] OTHER ->
    CASE KindOf[c] = "start" -> {Do(None, None), Refuse("admission")}
      [] KindOf[c] = "clone" -> CloneDraft
      [] KindOf[c] = "cancel" ->
            {Do(None, IF store.status \in Concluded THEN "terminal" ELSE "requested")}
      [] KindOf[c] = "resume" -> ResumeDraft
      [] KindOf[c] = "dispose" -> DisposalDraft
      [] KindOf[c] = "register" -> RegistrationDraft(c)
      [] KindOf[c] = "initial" -> InitialDraft(c)
      [] KindOf[c] = "promote" -> PromotionDraft(c)
      [] KindOf[c] = "rollback" -> RollbackDraft(c)
      [] OTHER -> {Do(None, None)}                 \* decide, approve, reply, ack

\* _validate_command_plan: a plan that is loaded must still rest on what the registry has.
PlanStands(c) ==
    LET plan == Plan(c)
    IN  plan.tag = "do" =>
            /\ KindOf[c] = "register" /\ plan.base = "existing" => store.stamp[TargetOf[c]] = plan.to
            /\ KindOf[c] \in {"initial", "promote"} => store.stamp[plan.to] # None

(***************************************************************************)
(* Is the mutation that the stored plan names in the store?                *)
(***************************************************************************)
Done(c) ==
    /\ Plan(c).tag = "do"
    /\ CASE KindOf[c] \in {"start", "clone"} -> c \in store.created
         [] KindOf[c] = "cancel" -> Plan(c).to = "terminal" \/ store.cancelled
         [] KindOf[c] = "resume" -> c \in store.attempts
         [] KindOf[c] = "dispose" -> c \in store.receipts
         [] KindOf[c] = "decide" -> c \in store.approvals
         [] KindOf[c] = "approve" -> store.reply = c \/ c \in store.approvals
         [] KindOf[c] = "reply" -> store.reply = c
         [] KindOf[c] = "ack" -> store.ack = c
         [] KindOf[c] = "register" -> store.stamp[TargetOf[c]] # None
         [] OTHER -> Used(Proof(c, Plan(c)))

\* Variant: rejecting asks nothing of the store.
OwnedNothing(c) == FALSE

\* The facts _domain_fact_owned_by looks for before it lets a command be rejected:
\* nothing of the registry, and neither run creations nor cancellations.
OwnedFact(c) ==
    KindOf[c] \in {"dispose", "decide", "approve", "reply", "ack", "resume"} /\ Done(c)

\* What made a losing command lose: a reply by another command, which for a decision has
\* its approval and acknowledgement with it, or a delivery fact of another command.
ForeignReply(c) == store.reply \notin {None, c}
WholeExchange == store.reply \in store.approvals /\ store.ack # None
ForeignAck(c) == store.ack \notin {None, c}

\* _validate_terminal_rejection
LostValid(c) ==
    CASE KindOf[c] = "dispose" -> c \notin store.receipts
      [] KindOf[c] = "reply" -> ForeignReply(c)
      [] KindOf[c] = "approve" -> ForeignReply(c) /\ WholeExchange
      [] KindOf[c] = "ack" -> ForeignAck(c)
      [] OTHER -> TRUE

\* _validate_terminal_response: what a replay demands of the store besides the answer.
ExchangeValid(c) ==
    CASE KindOf[c] = "approve" -> store.reply = c /\ WholeExchange
      [] KindOf[c] = "reply" -> store.reply = c /\ store.ack # None
      [] OTHER -> store.ack = c

RegistryValid(c) ==
    IF KindOf[c] = "register" THEN store.stamp[TargetOf[c]] = Plan(c).to ELSE Used(Proof(c, Plan(c)))

CommittedValid(c) ==
    CASE KindOf[c] \in {"approve", "reply", "ack"} -> ExchangeValid(c)
      [] KindOf[c] \in {"register", "initial", "promote", "rollback"} -> RegistryValid(c)
      [] KindOf[c] = "resume" -> TRUE
      [] OTHER -> Done(c)

ReplayValid(c) ==
    /\ ledger[c].answer = Committed => CommittedValid(c)
    /\ ledger[c].answer = Lost => LostValid(c)

(***************************************************************************)
(* Steps of a process.                                                     *)
(***************************************************************************)
Busy(p, at) == proc[p].at = at
Leave(p) == proc' = [proc EXCEPT ![p] = Idle]
Goto(p, at) == proc' = [proc EXCEPT ![p].at = at]
Here(p) == proc[p].cmd

\* _command_fenced: the claim is still the ledger's current one.
Fenced(p) ==
    LET row == ledger[Here(p)]
    IN  row.state = "prepared" /\ row.owner = p /\ row.epoch = proc[p].epoch

\* Variant: an unfinished command is in progress for good.
FirstClaimOnly(c) == ledger[c].state = "absent"

\* claim_command: the first claim of a command, or the next after the lease expired.
MayClaim(c) == ~ Terminal(c) /\ ~ ledger[c].leased

Claim(p, c) ==
    /\ Busy(p, "idle") /\ c \in workload
    /\ MayClaim(c) /\ ledger[c].epoch < MaxEpoch
    /\ LET epoch == ledger[c].epoch + 1
       IN  /\ ledger' = [ledger EXCEPT ![c] = [@ EXCEPT !.state = "prepared", !.owner = p,
                                                        !.epoch = epoch, !.leased = TRUE]]
           /\ proc' = [proc EXCEPT ![p] = [cmd |-> c, epoch |-> epoch, at |-> "claimed", draft |-> None]]
    /\ UNCHANGED <<hosted, store, heard, damaged, faults, workload>>

\* classify: the run may still be launched for the plan of c.
Launchable(c) == store.seq = Plan(c).base /\ store.status \in Resumable

\* RunHost.launch with a resume intent: another intent at the same fence keeps its place.
Queued(p, c) == IF hosted[p] = None \/ Plan(hosted[p]).base < Plan(c).base THEN c ELSE hosted[p]

\* claim_command finds the command terminal: the stored answer, once validated, is
\* replayed, and a committed resume that has not begun is launched again.
Replay(p, c) ==
    /\ Busy(p, "idle") /\ c \in workload /\ Terminal(c)
    /\ IF ReplayValid(c)
       THEN /\ heard' = [heard EXCEPT ![c] = @ \cup {ledger[c].answer}]
            /\ UNCHANGED damaged
       ELSE /\ damaged' = damaged \cup {c}
            /\ UNCHANGED heard
    /\ hosted' = [hosted EXCEPT ![p] =
                    IF /\ KindOf[c] = "resume" /\ ledger[c].answer = Committed /\ Launchable(c)
                    THEN Queued(p, c) ELSE @]
    /\ UNCHANGED <<ledger, proc, store, faults, workload>>

\* An operation that finds a stored plan follows it; otherwise it decides one.
DecidePlan(p) ==
    /\ Busy(p, "claimed")
    /\ IF Plan(Here(p)) # NoPlan
       THEN IF PlanStands(Here(p)) THEN Goto(p, "apply") ELSE Leave(p)
       ELSE IF Draft(Here(p)) = {}
            THEN Leave(p)
            ELSE \E d \in Draft(Here(p)) :
                    proc' = [proc EXCEPT ![p].at = "decided", ![p].draft = d]
    /\ UNCHANGED <<ledger, hosted, store, heard, damaged, faults, workload>>

\* _CommandSession.plan, and _terminal_rejection for a draft that refuses.  A plan some
\* later owner stored meanwhile is followed without a fence; a refusal that is not the
\* stored plan's own raises.
StorePlan(p) ==
    /\ Busy(p, "decided")
    /\ LET c == Here(p)
           stored == Plan(c)
           draft == proc[p].draft
           refuses == draft.tag = "refuse"
       IN  \/ /\ stored = NoPlan /\ Fenced(p)
              /\ ledger' = [ledger EXCEPT ![c].plan = draft]
              /\ Goto(p, IF refuses THEN "reject" ELSE "apply")
           \/ /\ stored = NoPlan /\ ~ Fenced(p)
              /\ Leave(p) /\ UNCHANGED ledger
           \/ /\ stored # NoPlan
              /\ IF ~ refuses THEN Goto(p, "apply")
                 ELSE IF stored.tag = "refuse" /\ stored.to = draft.to THEN Goto(p, "reject") ELSE Leave(p)
              /\ UNCHANGED ledger
    /\ UNCHANGED <<hosted, store, heard, damaged, faults, workload>>

\* A stored plan that refuses is answered as it stands.
FollowRefusal(p) ==
    /\ Busy(p, "apply") /\ Plan(Here(p)).tag = "refuse"
    /\ Goto(p, "reject")
    /\ UNCHANGED <<ledger, hosted, store, heard, damaged, faults, workload>>

Applying(p, kinds) == Busy(p, "apply") /\ Plan(Here(p)).tag = "do" /\ KindOf[Here(p)] \in kinds
Applied(p, new, at) == store' = new /\ Goto(p, at) /\ UNCHANGED <<ledger, hosted, heard, damaged, faults, workload>>
Aborts(p) == Leave(p) /\ UNCHANGED <<ledger, hosted, store, heard, damaged, faults, workload>>

\* _prepare_run: the run id is derived from the command, so a second call finds its row.
CreateRun(p) ==
    /\ Applying(p, {"start", "clone"})
    /\ Applied(p, [store EXCEPT !.created = @ \cup {Here(p)}], "complete")

RequestCancel(p) ==
    /\ Applying(p, {"cancel"})
    /\ Applied(p, [store EXCEPT !.cancelled = @ \/ Plan(Here(p)).to = "requested"], "complete")

\* capability_disposal_apply, one fenced transaction: the receipt if there is one,
\* superseded if the run has a newer owner or event, else the rows are marked lost, with
\* one event for the rows' transitions and one for the audit.
DisposeCapabilities(p) ==
    /\ Applying(p, {"dispose"})
    /\ LET c == Here(p)
       IN  \/ ~ Fenced(p) /\ Aborts(p)
           \/ /\ Fenced(p) /\ c \in store.receipts
              /\ Applied(p, store, "complete")
           \/ /\ Fenced(p) /\ c \notin store.receipts
              /\ store.epoch > Plan(c).to \/ store.seq > Plan(c).base
              /\ Applied(p, store, "reject")
           \/ /\ Fenced(p) /\ c \notin store.receipts
              /\ store.epoch = Plan(c).to /\ store.seq = Plan(c).base
              /\ Applied(p, [store EXCEPT !.rows = "lost", !.receipts = @ \cup {c}, !.seq = @ + 2],
                         "complete")

\* _classify_resume_intent: the event fence is read before the run's status.
ClassifyResume(p) ==
    /\ Applying(p, {"resume"})
    /\ LET c == Here(p)
       IN  Applied(p, store, CASE c \in store.attempts -> "complete"
                               [] c \notin store.attempts /\ store.seq > Plan(c).base -> "reject"
                               [] OTHER -> "launch")

\* ... and then the intent is offered to this process's host, which may refuse it.
LaunchResume(p) ==
    /\ Busy(p, "launch")
    /\ LET c == Here(p)
           accepts == store.status \in Resumable /\ Queued(p, c) = c
       IN  /\ hosted' = [hosted EXCEPT ![p] = IF accepts THEN c ELSE @]
           /\ Goto(p, IF accepts THEN "complete" ELSE "reject")
    /\ UNCHANGED <<ledger, store, heard, damaged, faults, workload>>

\* store_approval: a decision bound to no request.
StoreApproval(p) ==
    /\ Applying(p, {"decide"})
    /\ IF Fenced(p)
       THEN Applied(p, [store EXCEPT !.approvals = @ \cup {Here(p)}], "complete")
       ELSE Aborts(p)

\* Variant: a reply takes the acknowledgement over.
AcknowledgedAnew(c) == c

\* A reply implies the acknowledgement; one that an earlier command claimed stays its own.
Acknowledged(c) == IF store.ack = None THEN c ELSE store.ack

\* reply_in_transaction
Replied(c) == [store EXCEPT !.reply = c, !.ack = Acknowledged(c)]

\* Variant: the approval is written before the reply is attempted.
ApprovesFirst(p) ==
    /\ Applying(p, {"approve"})
    /\ LET c == Here(p)
           new == IF store.reply = None THEN Replied(c) ELSE store
       IN  IF Fenced(p)
           THEN Applied(p, [new EXCEPT !.approvals = @ \cup {c}],
                        IF new.reply = c THEN "complete" ELSE "reject")
           ELSE Aborts(p)

\* store_approval_exchange: approval, reply and acknowledgement in one fenced commit.
StoreExchange(p) ==
    /\ Applying(p, {"approve"})
    /\ LET c == Here(p)
       IN  \/ ~ Fenced(p) /\ Aborts(p)
           \/ /\ Fenced(p) /\ store.reply = None
              /\ Applied(p, [Replied(c) EXCEPT !.approvals = @ \cup {c}], "complete")
           \/ /\ Fenced(p) /\ store.reply # None
              /\ Applied(p, store, IF store.reply = c THEN "complete" ELSE "reject")

\* channel_reply is not fenced by the claim: a first write only needs the command to be
\* prepared still, a retry of the writer's command finds its own reply.
MayReply(c) == ledger[c].state = "prepared"

ChannelsReply(p) ==
    /\ Applying(p, {"reply"})
    /\ LET c == Here(p)
       IN  \/ /\ store.reply = None /\ MayReply(c)
              /\ Applied(p, Replied(c), "complete")
           \/ /\ store.reply = None /\ ~ MayReply(c)
              /\ Aborts(p)
           \/ /\ store.reply # None
              /\ Applied(p, store, IF store.reply = c THEN "complete" ELSE "reject")

\* channel_acknowledge: one delivery fact, claimed by one command that is still open.
MayAcknowledge(c) == ledger[c].state = "prepared"

ChannelsAck(p) ==
    /\ Applying(p, {"ack"})
    /\ LET c == Here(p)
       IN  \/ /\ store.ack = None /\ MayAcknowledge(c)
              /\ Applied(p, [store EXCEPT !.ack = c], "complete")
           \/ /\ store.ack = None /\ ~ MayAcknowledge(c)
              /\ Aborts(p)
           \/ /\ store.ack # None
              /\ Applied(p, store, IF store.ack = c THEN "complete" ELSE "reject")

\* apply_registration and store_version: an equal definition that has a row already is the
\* row they return.
StoreVersion(v, at) == [store EXCEPT !.stamp[v] = IF @ = None THEN at ELSE @]

RegistryRegister(p) ==
    /\ Applying(p, {"register"})
    /\ Applied(p, StoreVersion(TargetOf[Here(p)], Plan(Here(p)).to), "complete")

\* registry_promote: an earlier promotion by this proof is the answer.
RegistryPromote(p) ==
    /\ Applying(p, {"promote"})
    /\ Applied(p, store, IF Used(ProofOf[Here(p)]) THEN "complete" ELSE "compare")

\* _apply_policy_promotion likewise; it mints its own proof and looks for the receipt again
\* (a receipt that this second look would find, the third look below finds too).
PolicyPromotion(p) ==
    /\ Applying(p, {"initial", "rollback"})
    /\ LET proof == Proof(Here(p), Plan(Here(p)))
       IN  \/ /\ Used(proof)
              /\ Applied(p, store, "complete")
           \/ /\ ~ Used(proof)
              /\ Applied(p, [store EXCEPT !.minted = @ \cup {proof}], "compare")

\* registry_promote answers a pointer off the baseline with a rejection there and then; the
\* policy operations look for the receipt again.
OffBaseline(kind) == IF kind = "promote" THEN "reject" ELSE "recheck"

\* The stable pointer is read in a transaction of its own, after the receipt.
CompareStable(p) ==
    /\ Busy(p, "compare")
    /\ Applied(p, store, IF Stable = Plan(Here(p)).base THEN "swap" ELSE OffBaseline(KindOf[Here(p)]))

\* store_promotion: compare-and-swap on the stable pointer, idempotent by proof.
MaySwap(proof, base) == ~ Used(proof) /\ Stable = base

\* ComponentRegistry.promote.  It does not look at the command it serves.
SwapStable(p) ==
    /\ Busy(p, "swap")
    /\ LET plan == Plan(Here(p))
           proof == Proof(Here(p), plan)
           move == [from |-> plan.base, to |-> plan.to, proof |-> proof]
       IN  \/ /\ MaySwap(proof, plan.base)
              /\ Applied(p, [store EXCEPT !.promotions = Append(@, move)], "complete")
           \/ /\ ~ MaySwap(proof, plan.base)
              /\ Applied(p, store, IF Used(proof) THEN "complete" ELSE "recheck")

\* A refused swap, or a policy operation's pointer off its baseline: the receipt is looked
\* for once more, in another transaction.
RecheckReceipt(p) ==
    /\ Busy(p, "recheck")
    /\ Applied(p, store, IF Used(Proof(Here(p), Plan(Here(p)))) THEN "complete" ELSE "reject")

(***************************************************************************)
(* _terminal_command.                                                      *)
(***************************************************************************)

Closed(row, state, response) ==
    [row EXCEPT !.state = state, !.answer = response, !.owner = None, !.leased = FALSE]

Answered(p, state, response) ==
    LET c == Here(p)
    IN  \/ /\ Terminal(c) /\ ledger[c].answer = response            \* an exact retry
           /\ heard' = [heard EXCEPT ![c] = @ \cup {response}]
           /\ UNCHANGED ledger
        \/ /\ Fenced(p)
           /\ ledger' = [ledger EXCEPT ![c] = Closed(@, state, response)]
           /\ heard' = [heard EXCEPT ![c] = @ \cup {response}]
        \/ /\ ~ Fenced(p) /\ ~ (Terminal(c) /\ ledger[c].answer = response)
           /\ UNCHANGED <<ledger, heard>>

Complete(p) ==
    /\ Busy(p, "complete")
    /\ Answered(p, "committed", Committed)
    /\ Leave(p)
    /\ UNCHANGED <<hosted, store, damaged, faults, workload>>

Reject(p) ==
    /\ Busy(p, "reject")
    /\ IF OwnedFact(Here(p))
       THEN UNCHANGED <<ledger, heard>>
       ELSE Answered(p, "rejected", IF Plan(Here(p)).tag = "refuse" THEN Plan(Here(p)).to ELSE Lost)
    /\ Leave(p)
    /\ UNCHANGED <<hosted, store, damaged, faults, workload>>

Step(p) ==
    \/ DecidePlan(p) \/ StorePlan(p) \/ FollowRefusal(p)
    \/ CreateRun(p) \/ RequestCancel(p) \/ DisposeCapabilities(p)
    \/ ClassifyResume(p) \/ LaunchResume(p)
    \/ StoreApproval(p) \/ StoreExchange(p) \/ ChannelsReply(p) \/ ChannelsAck(p)
    \/ RegistryRegister(p) \/ RegistryPromote(p) \/ PolicyPromotion(p)
    \/ CompareStable(p) \/ SwapStable(p) \/ RecheckReceipt(p)
    \/ Complete(p) \/ Reject(p)

(***************************************************************************)
(* The clock, failures, and the run the commands are about.                *)
(***************************************************************************)
Held(c) == \E p \in Procs : Here(p) = c /\ Fenced(p)

\* COMMAND_TTL_S passes: always when nobody drives the command any more, and as a fault
\* when its driver is merely slow.
Expire(c) ==
    /\ ledger[c].state = "prepared" /\ ledger[c].leased
    /\ Held(c) => faults > 0
    /\ faults' = IF Held(c) THEN faults - 1 ELSE faults
    /\ ledger' = [ledger EXCEPT ![c].leased = FALSE]
    /\ UNCHANGED <<proc, hosted, store, heard, damaged, workload>>

Crash(p) ==
    /\ faults > 0 /\ (proc[p] # Idle \/ hosted[p] # None)
    /\ faults' = faults - 1
    /\ Leave(p) /\ hosted' = [hosted EXCEPT ![p] = None]
    /\ UNCHANGED <<ledger, store, heard, damaged, workload>>

\* The committed-resume scan of a host offers what no attempt has begun yet.
ScanResumes(p) ==
    /\ Busy(p, "idle") /\ hosted[p] = None
    /\ \E c \in workload : /\ KindOf[c] = "resume" /\ ledger[c].answer = Committed /\ Launchable(c)
                           /\ hosted' = [hosted EXCEPT ![p] = c]
    /\ UNCHANGED <<ledger, proc, store, heard, damaged, faults, workload>>

Fits(c) == Launchable(c) /\ ~ (store.status = "RUNNING" /\ store.owned)

\* The pump runs between the operations of its process.  It claims the run for a queued
\* intent and the attempt's first event names the command; the insert refuses the name
\* of a rejected command, and the claim is released again.
HostBegins(p) ==
    /\ Busy(p, "idle") /\ hosted[p] # None /\ store.seq < MaxSeq
    /\ Fits(hosted[p])
    /\ store' = IF ledger[hosted[p]].state = "rejected"
                THEN [store EXCEPT !.epoch = @ + 1]
                ELSE [store EXCEPT !.epoch = @ + 1, !.owned = TRUE, !.status = "RUNNING",
                                   !.seq = @ + 1, !.attempts = @ \cup {hosted[p]}]
    /\ hosted' = [hosted EXCEPT ![p] = None]
    /\ UNCHANGED <<ledger, proc, heard, damaged, faults, workload>>

\* An intent the journal no longer matches is dropped.
HostDrops(p) ==
    /\ Busy(p, "idle") /\ hosted[p] # None /\ ~ Fits(hosted[p])
    /\ hosted' = [hosted EXCEPT ![p] = None]
    /\ UNCHANGED <<ledger, proc, store, heard, damaged, faults, workload>>

RunMoves ==
    /\ store.seq < MaxSeq
    /\ \/ /\ store.status = "RUNNING" /\ store.owned                       \* the attempt ends
          /\ \E s \in Concluded :
                /\ s = "CANCELLED" => store.cancelled
                /\ store' = [store EXCEPT !.status = s, !.owned = FALSE, !.seq = @ + 1]
       \/ /\ store.status = "RUNNING" /\ store.owned                       \* its owner is lost
          /\ store' = [store EXCEPT !.owned = FALSE]
       \/ /\ store.status = "RUNNING" /\ ~ store.owned                     \* and recovery reclaims it
          /\ store' = [store EXCEPT !.owned = TRUE, !.seq = @ + 1, !.epoch = @ + 1]
    /\ UNCHANGED <<ledger, proc, hosted, heard, damaged, faults, workload>>

Next ==
    \/ \E p \in Procs, c \in Commands : Claim(p, c) \/ Replay(p, c)
    \/ \E p \in Procs : Step(p) \/ Crash(p) \/ ScanResumes(p) \/ HostBegins(p) \/ HostDrops(p)
    \/ \E c \in Commands : Expire(c)
    \/ RunMoves

Spec == Init /\ [][Next]_vars

\* A process that is not paused goes on; time passes; and a caller without an answer asks
\* again, as the COMMAND_IN_PROGRESS repair text tells it to.
Fairness ==
    /\ \A p \in Procs : WF_vars(Step(p))
    /\ WF_vars(\E c \in Commands : Expire(c))
    /\ WF_vars(\E p \in Procs, c \in Commands : Claim(p, c))

FairSpec == Spec /\ Fairness

-----------------------------------------------------------------------------

Law == INSTANCE CommandLaw WITH
    answer <- [c \in Commands |-> ledger[c].answer],
    done <- {c \in Commands : Done(c)},
    Deferred <- {c \in Commands : KindOf[c] = "resume"},
    Contested <- {c \in Commands : KindOf[c] \in {"promote", "rollback"}},
    Silent <- None

\* Whichever processes drive a command, and however many of them are paused or killed
\* inside it, it has one answer, which agrees for good with what is in the store; but that
\* a promotion or a rollback lost (_canonical_domain_rejection) does not say that it did
\* not happen, nor that it will not.
ImplementsCommandLaw == Law!Spec

\* No replay of a terminal command finds the store in contradiction with the answer: a
\* retry is never answered with JournalDamaged (CONTRIBUTING.md step 7).
ReplaysAreExact == damaged = {}

\* A request's reply, the approval behind it and the acknowledgement are one fact, also
\* when two deciders and an acknowledging command race: a reply by runs_approve has the
\* approval of the same command, no other bound approval exists, and the request is
\* acknowledged.
ExchangeIsWhole ==
    /\ \A c \in Commands : KindOf[c] = "approve" => (c \in store.approvals <=> store.reply = c)
    /\ store.reply # None => store.ack # None

\* Every command that callers keep asking for is answered in the end, though its drivers
\* are killed or paused, and stays answered.
CommandsAreAnswered == <>[](\A c \in workload : Terminal(c))
=============================================================================
