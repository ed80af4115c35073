---------------------------- MODULE MergeEffect -----------------------------
(***************************************************************************)
(* merge_verified: the path from proposed code to a protected ref.         *)
(*                                                                         *)
(* An attempt is one call of the boundary closure made by                  *)
(* Walker._effect_boundary (runtime/walker.py) for the effect of its run.  *)
(* It looks the key up in the journal, prepares it, asks the adapter       *)
(* (substrate/effects/git.py) whether the effect already happened,         *)
(* executes it through GitAuthority.install (substrate/git/authority.py),  *)
(* and records the receipt.  Reproduced runs share one idempotency key; a  *)
(* run whose owner stalls past its lease has a zombie attempt beside the   *)
(* new one.                                                                *)
(*                                                                         *)
(* A git ref transaction is a process of its own: it locks the target and  *)
(* the marker, renames the target into place, then the marker, and it goes *)
(* on when the worker that started it dies.                                *)
(***************************************************************************)
EXTENDS Integers, FiniteSets, Functions

CONSTANTS
    Attempts,         \* slots in which attempts run
    Runs,
    Keys,             \* idempotency keys
    Commits,
    None,
    CommitOf,         \* key -> MergeSubject.merge_commit
    Root,             \* the target's first commit
    Worlds            \* the situations of an instance, see World

\* What differs between situations.
World(w) ==
    /\ DOMAIN w.runOf \subseteq Attempts         \* the attempts there are
    /\ w.runOf \in [DOMAIN w.runOf -> Runs]      \* and their runs
    /\ w.keyOf \in [Runs -> Keys]                \* run -> the key of its one effect
    /\ w.proven \subseteq Attempts               \* those that bring a journal-minted proof of the subject
    /\ w.simulated \subseteq Keys                \* keys of counterfactual runs
    /\ w.baseOf \in [Keys -> Commits]            \* key -> MergeSubject.expected_base
    /\ w.contains \in [Commits -> SUBSET Commits]  \* commit -> itself and its ancestors
    /\ w.forcedTo \subseteq Commits              \* commits an operator may force the target to
    /\ w.maxDisruptions \in Nat                  \* bound: crashes, stalls past a lease and force moves
    /\ \A c \in Commits : c \in w.contains[c]
    /\ \A k \in Keys : /\ CommitOf[k] \notin w.contains[w.baseOf[k]]
                       /\ w.contains[CommitOf[k]] = w.contains[w.baseOf[k]] \cup {CommitOf[k]}
                       \* a merge commit comes to the target by its effect, never by hand
                       /\ \A c \in {Root} \cup w.forcedTo : CommitOf[k] \notin w.contains[c]
                       \* a commit fixes its parents
                       /\ \A j \in Keys : CommitOf[j] = CommitOf[k] => w.baseOf[j] = w.baseOf[k]

ASSUME NoneAssumption == None \notin Attempts
ASSUME CommitAssumption == Root \in Commits /\ CommitOf \in [Keys -> Commits]
ASSUME WorldsAssumption == \A w \in Worlds : World(w)

VARIABLES
    world,
    \* the journal
    owner,        \* run -> attempt that holds its lease
    finished,     \* runs whose invocation is checkpointed, or that concluded cancelled
    failed,       \* runs that stand FAILED: no recovery takes them up, an operator may resume them
    cancel,       \* runs with cancel_requested
    prepared,     \* key -> attempt whose request is its durable preparation
    receipt,      \* key -> its durable receipt
    \* the git authority
    target,       \* the protected ref
    seen,         \* history: the commits it has been at
    marker,       \* keys whose marker ref exists
    installs,     \* history: key -> how often a transaction installed it
    txn,          \* attempt -> state of the ref transaction it started
    \* the attempts
    pc,
    tries,        \* iteration of install's retry loop
    out,          \* the receipt the attempt is about to record, or returned
    disruptions

journal == <<owner, finished, failed, cancel, prepared, receipt>>
git == <<target, seen, marker, installs, txn>>
vars == <<world, journal, git, pc, tries, out, disruptions>>

RunOf == world.runOf
KeyOf == world.keyOf
BaseOf == world.baseOf
Contains == world.contains
Proven == world.proven
Simulated == world.simulated

Receipts == [status : {"none", "committed", "rejected", "simulated"}, found : Commits \cup {None}]
Plain(status) == [status |-> status, found |-> None]
NoReceipt == Plain("none")
RejectedAt(c) == [status |-> "rejected", found |-> c]

Key(a) == KeyOf[RunOf[a]]
Fenced(a) == owner[RunOf[a]] = a
Goto(a, label) == pc' = [pc EXCEPT ![a] = label]

Init ==
    /\ world \in Worlds
    /\ owner = [r \in Runs |-> None] /\ finished = {} /\ failed = {} /\ cancel = {}
    /\ prepared = [k \in Keys |-> None] /\ receipt = [k \in Keys |-> NoReceipt]
    /\ target = Root /\ seen = {Root} /\ marker = {} /\ installs = [k \in Keys |-> 0]
    /\ txn = [a \in Attempts |-> "none"]
    /\ pc = [a \in Attempts |-> "idle"]
    /\ tries = [a \in Attempts |-> 1] /\ out = [a \in Attempts |-> NoReceipt]
    /\ disruptions = 0

-----------------------------------------------------------------------------
(* Leases, crashes, cancellation.                                          *)

Disrupt == disruptions < world.maxDisruptions /\ disruptions' = disruptions + 1

\* The attempt is over and keeps nothing; its lease, if it still holds it, is
\* released unless the process died.
Leave(a, released) ==
    /\ Goto(a, "idle")
    /\ tries' = [tries EXCEPT ![a] = 1]
    /\ out' = [out EXCEPT ![a] = NoReceipt]
    /\ owner' = IF released /\ Fenced(a) THEN [owner EXCEPT ![RunOf[a]] = None] ELSE owner

\* Mutant: the lease of a dead owner never expires.
LeaseFreeIfReleased(r) == owner[r] = None

\* claim_run finds the lease released, or expired behind a dead owner.
LeaseFree(r) == owner[r] # None => pc[owner[r]] = "idle"

\* A proof was minted by a gate whose prepare_merge took the subject's base off the target.
ProofMinted(a) == a \in Proven => BaseOf[Key(a)] \in seen

\* A new attempt claims the run and comes to the boundary; behind a live owner, that one has
\* stalled past its TTL.  A FAILED run goes on by RunResumed.
Claim(a) ==
    /\ a \in DOMAIN RunOf /\ pc[a] = "idle" /\ txn[a] \in {"none", "done"}
    /\ RunOf[a] \notin finished /\ ProofMinted(a)
    /\ IF LeaseFree(RunOf[a]) THEN UNCHANGED disruptions
                              ELSE pc[owner[RunOf[a]]] # "idle" /\ Disrupt
    /\ owner' = [owner EXCEPT ![RunOf[a]] = a]
    /\ txn' = [txn EXCEPT ![a] = "none"]
    /\ failed' = failed \ {RunOf[a]}
    /\ Goto(a, "lookup")
    /\ UNCHANGED <<finished, cancel, prepared, receipt, target, seen, marker, installs, tries, out>>

Crash(a) ==
    /\ pc[a] # "idle" /\ Disrupt
    /\ Leave(a, FALSE)
    /\ UNCHANGED <<finished, failed, cancel, prepared, receipt, git>>

RequestCancel(r) ==
    /\ r \in Range(RunOf) \ (cancel \cup finished)
    /\ cancel' = cancel \cup {r}
    /\ UNCHANGED <<owner, finished, failed, prepared, receipt, git, pc, tries, out, disruptions>>

\* An exception ends the call and with it the attempt: NodeFailed and RunFailed under the fence,
\* and behind a lost one only OwnershipLost, which leaves the run to its new owner.
Raise(a) ==
    /\ Leave(a, TRUE)
    /\ failed' = IF Fenced(a) THEN failed \cup {RunOf[a]} ELSE failed
    /\ UNCHANGED <<finished, cancel, prepared, receipt, git, disruptions>>

\* _check_run_control, on entry, before the preparation and before execution:
\* the heartbeat's latch is set some time after the fence was lost, or a
\* cancellation concludes the run.
ControlRefuses(a) ==
    /\ pc[a] \in {"lookup", "prepare", "control"}
    /\ \/ ~Fenced(a) /\ UNCHANGED finished
       \/ RunOf[a] \in cancel /\ finished' = IF Fenced(a) THEN finished \cup {RunOf[a]} ELSE finished
    /\ Leave(a, TRUE)
    /\ UNCHANGED <<failed, cancel, prepared, receipt, git, disruptions>>

Proceeds(a) == RunOf[a] \notin cancel

-----------------------------------------------------------------------------
(* The boundary: look up, prepare, look up again.                          *)

Return(a, r) ==
    /\ out' = [out EXCEPT ![a] = r]
    /\ Goto(a, "returned")
    /\ UNCHANGED <<journal, git, tries, disruptions>>

\* terminal_receipt: a stored receipt is returned under a fenced EffectDeduplicated.
Lookup(a) ==
    /\ \/ pc[a] = "lookup" /\ Proceeds(a)
       \/ pc[a] = "reread"
    /\ \/ /\ receipt[Key(a)] = NoReceipt
          /\ Goto(a, IF pc[a] = "lookup" THEN "prepare"
                     ELSE IF Key(a) \in Simulated THEN "control" ELSE "reconcile")
          /\ UNCHANGED <<journal, git, tries, out, disruptions>>
       \/ receipt[Key(a)] # NoReceipt /\ Fenced(a) /\ Return(a, receipt[Key(a)])
       \/ receipt[Key(a)] # NoReceipt /\ ~Fenced(a) /\ Raise(a)

\* record_effect_prepared: the first request under the key stays.
Prepare(a) ==
    /\ pc[a] = "prepare" /\ Proceeds(a)
    /\ \/ /\ Fenced(a)
          /\ prepared' = IF prepared[Key(a)] = None THEN [prepared EXCEPT ![Key(a)] = a] ELSE prepared
          /\ Goto(a, "reread")
          /\ UNCHANGED <<owner, finished, failed, cancel, receipt, git, tries, out, disruptions>>
       \/ ~Fenced(a) /\ Raise(a)

\* _verified_subject of the prepared request.
ProofHolds(a) == prepared[Key(a)] \in Proven

RefuseProof(a) ==
    /\ \/ pc[a] = "reconcile"
       \/ pc[a] = "control" /\ Proceeds(a)
    /\ ~ProofHolds(a)
    /\ Raise(a)

ToRecord(a, r) ==
    /\ out' = [out EXCEPT ![a] = r]
    /\ Goto(a, "record")

\* adapter.simulate
Simulate(a) ==
    /\ pc[a] = "control" /\ Proceeds(a) /\ Key(a) \in Simulated /\ ProofHolds(a)
    /\ ToRecord(a, Plain("simulated"))
    /\ UNCHANGED <<journal, git, tries, disruptions>>

-----------------------------------------------------------------------------
(* reconcile_install.                                                      *)

ReconcileMarker(a) ==
    /\ pc[a] = "reconcile" /\ ProofHolds(a)
    /\ IF Key(a) \in marker
         THEN ToRecord(a, Plain("committed"))
         ELSE Goto(a, "readTarget") /\ UNCHANGED out
    /\ UNCHANGED <<journal, git, tries, disruptions>>

\* Mutant: the arguments of is_ancestor swapped.
IntegratedSwapped(k) == target \in Contains[CommitOf[k]]

\* is_ancestor(merge_commit, target_ref)
Integrated(k) == CommitOf[k] \in Contains[target]

MarkerLocked(k) == \E a \in DOMAIN RunOf : Key(a) = k /\ txn[a] \in {"locked", "half"}

\* update-ref of the marker, best effort.
RestoreMarker(k) == marker' \in {marker} \cup (IF MarkerLocked(k) THEN {} ELSE {marker \cup {k}})

ReconcileTarget(a) ==
    /\ pc[a] = "readTarget"
    /\ IF Integrated(Key(a))
         THEN ToRecord(a, Plain("committed")) /\ RestoreMarker(Key(a))
         ELSE Goto(a, "control") /\ UNCHANGED <<out, marker>>
    /\ UNCHANGED <<journal, target, seen, installs, txn, tries, disruptions>>

-----------------------------------------------------------------------------
(* install: one ref transaction, its disambiguation, one retry.            *)

Execute(a) ==
    /\ pc[a] = "control" /\ Proceeds(a) /\ Key(a) \notin Simulated /\ ProofHolds(a)
    /\ Goto(a, "install")
    /\ UNCHANGED <<journal, git, tries, out, disruptions>>

TargetLocked == \E a \in Attempts : txn[a] = "locked"

\* Mutant: the marker is written with "update" instead of "create".
TxnAdmittedOverMarker(k) == ~TargetLocked /\ ~MarkerLocked(k) /\ target = BaseOf[k]

\* git update-ref --stdin: both locks are free, the target is at its expected
\* old value, the marker does not exist.
TxnAdmitted(k) == ~TargetLocked /\ ~MarkerLocked(k) /\ target = BaseOf[k] /\ k \notin marker

StartTxn(a) ==
    /\ pc[a] = "install"
    /\ IF TxnAdmitted(Key(a))
         THEN txn' = [txn EXCEPT ![a] = "locked"] /\ Goto(a, "txn")
         ELSE Goto(a, "failed") /\ UNCHANGED txn
    /\ UNCHANGED <<journal, target, seen, marker, installs, tries, out, disruptions>>

\* The git process renames the target into place, and then the marker.
TxnTarget(a) ==
    /\ txn[a] = "locked"
    /\ target' = CommitOf[Key(a)] /\ seen' = seen \cup {target'}
    /\ installs' = [installs EXCEPT ![Key(a)] = @ + 1]
    /\ txn' = [txn EXCEPT ![a] = "half"]
    /\ UNCHANGED <<journal, marker, pc, tries, out, disruptions>>

TxnMarker(a) ==
    /\ txn[a] = "half"
    /\ marker' = marker \cup {Key(a)}
    /\ txn' = [txn EXCEPT ![a] = "done"]
    /\ UNCHANGED <<journal, target, seen, installs, pc, tries, out, disruptions>>

TxnSucceeded(a) ==
    /\ pc[a] = "txn" /\ txn[a] = "done"
    /\ txn' = [txn EXCEPT ![a] = "none"]
    /\ ToRecord(a, Plain("committed"))
    /\ UNCHANGED <<journal, target, seen, marker, installs, tries, disruptions>>

\* A racing identical install?
ReadMarker(a) ==
    /\ pc[a] = "failed"
    /\ IF Key(a) \in marker
         THEN ToRecord(a, Plain("committed"))
         ELSE Goto(a, "disambiguate") /\ UNCHANGED out
    /\ UNCHANGED <<journal, git, tries, disruptions>>

GenuineMove(k) == target \notin {BaseOf[k], CommitOf[k]}

LastTry(a) == tries[a] = 2

\* A genuine move, or a lock?
ReadTarget(a) ==
    /\ pc[a] = "disambiguate"
    /\ LET k == Key(a)
       IN  \/ /\ GenuineMove(k)
              /\ ToRecord(a, RejectedAt(target))
              /\ UNCHANGED <<journal, git, tries, disruptions>>
           \/ /\ ~GenuineMove(k) /\ target = CommitOf[k]
              /\ ToRecord(a, Plain("committed")) /\ RestoreMarker(k)
              /\ UNCHANGED <<journal, target, seen, installs, txn, tries, disruptions>>
           \/ /\ ~GenuineMove(k) /\ target # CommitOf[k] /\ ~LastTry(a)
              /\ tries' = [tries EXCEPT ![a] = @ + 1] /\ Goto(a, "install")
              /\ UNCHANGED <<journal, git, out, disruptions>>
           \/ ~GenuineMove(k) /\ target # CommitOf[k] /\ LastTry(a) /\ Raise(a)

-----------------------------------------------------------------------------
(* record_effect_outcome, and the checkpoint that follows.                 *)

SameReceipt(a) == receipt[Key(a)] = out[a]

RecordOutcome(a) ==
    /\ pc[a] = "record"
    /\ \/ /\ receipt[Key(a)] = NoReceipt /\ Fenced(a)
          /\ receipt' = [receipt EXCEPT ![Key(a)] = out[a]]
          /\ Goto(a, "returned")
          /\ UNCHANGED <<owner, finished, failed, cancel, prepared, git, tries, out, disruptions>>
       \/ receipt[Key(a)] # NoReceipt /\ SameReceipt(a) /\ Fenced(a) /\ Return(a, out[a])
       \/ (receipt[Key(a)] = NoReceipt \/ SameReceipt(a)) /\ ~Fenced(a) /\ Raise(a)
       \/ receipt[Key(a)] # NoReceipt /\ ~SameReceipt(a) /\ Raise(a)      \* JournalDamaged

\* The invocation completes under the fence, or is fenced out.
Finish(a) ==
    /\ pc[a] = "returned"
    /\ finished' = IF Fenced(a) THEN finished \cup {RunOf[a]} ELSE finished
    /\ Leave(a, TRUE)
    /\ UNCHANGED <<failed, cancel, prepared, receipt, git, disruptions>>

\* An operator forces the target, past the guard hook.
ForceMove ==
    /\ ~TargetLocked /\ Disrupt
    /\ \E c \in world.forcedTo \ {target} : target' = c /\ seen' = seen \cup {c}
    /\ UNCHANGED <<journal, marker, installs, txn, pc, tries, out>>

Boundary(a) ==
    \/ ControlRefuses(a) \/ Lookup(a) \/ Prepare(a) \/ RefuseProof(a) \/ Simulate(a)
    \/ ReconcileMarker(a) \/ ReconcileTarget(a) \/ Execute(a) \/ StartTxn(a)
    \/ TxnSucceeded(a) \/ ReadMarker(a) \/ ReadTarget(a) \/ RecordOutcome(a) \/ Finish(a)

GitProcess(a) == TxnTarget(a) \/ TxnMarker(a)

Step ==
    \/ \E a \in DOMAIN RunOf : Claim(a) \/ Boundary(a) \/ GitProcess(a) \/ Crash(a)
    \/ \E r \in Runs : RequestCancel(r)
    \/ ForceMove

Next == Step /\ UNCHANGED world

Spec == Init /\ [][Next]_vars

\* Attempts and git processes keep going until they die; recovery claims a run that is not
\* concluded.  That an operator resumes a failed run is never assumed.
Fairness ==
    /\ \A a \in Attempts : /\ WF_vars(a \in DOMAIN RunOf /\ Boundary(a) /\ UNCHANGED world)
                           /\ WF_vars(a \in DOMAIN RunOf /\ GitProcess(a) /\ UNCHANGED world)
    /\ \A r \in Runs : WF_vars(/\ r \notin failed /\ LeaseFree(r)
                                 /\ \E a \in DOMAIN RunOf : RunOf[a] = r /\ Claim(a)
                                 /\ UNCHANGED world)

FairSpec == Spec /\ Fairness

-----------------------------------------------------------------------------
(* Properties.                                                             *)

\* The law is about what the boundary does to the target: where an operator forces the target
\* past it, it is not asked.
Governed == world.forcedTo = {}

\* The merge commit of k was moved into place by a transaction.
Installed(k) == \E j \in Keys : CommitOf[j] = CommitOf[k] /\ installs[j] > 0

\* Runs that prepared the same merge commit share its transition; a counterfactual has none.
Happened(k) == IF k \in Simulated THEN installs[k] > 0 ELSE Installed(k)

Law == INSTANCE EffectLaw WITH
    happened <- {k \in Keys : Governed /\ Happened(k)},
    latest   <- {k \in Keys : Governed /\ Happened(k) /\ target = CommitOf[k]},
    verdict  <- [k \in Keys |-> IF Governed THEN receipt[k].status ELSE "none"]

\* The boundary over git implements the effect law: at most one transition per key, a receipt
\* that is committed only for a merge that happened and rejected only for one that is not at
\* the tip, nothing after a rejection or a simulation, with merges that stand on each other.
ImplementsEffectLaw == Law!Spec

\* One key moves the protected ref at most once, and a committed receipt and a marker ref exist
\* only for a merge commit that really was installed, whatever zombies, reproduced runs,
\* half-finished transactions and forced refs are around.
InstalledOnce ==
    \A k \in Keys :
        /\ installs[k] <= 1
        /\ receipt[k].status = "committed" \/ k \in marker => Installed(k)

\* An effect prepared with a valid proof is eventually receipted, or every run that asked for it
\* was cancelled or stands FAILED before an operator: reconciliation and retries converge after
\* crashes at any point, and nothing is left to a run that nobody will take up.
PreparedIsReceipted ==
    \A k \in Keys :
        prepared[k] \in Proven ~>
            \/ receipt[k] # NoReceipt
            \/ \A r \in Range(RunOf) : KeyOf[r] = k => r \in cancel \cup failed
=============================================================================
