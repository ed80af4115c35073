------------------------- MODULE MergeEffectProofs --------------------------
(***************************************************************************)
(* Theorems about MergeEffect, for every set of attempts, runs, keys and   *)
(* commits, every world that World admits and any number of disruptions.   *)
(*                                                                         *)
(* The proofs never look at a step as a whole.  GitStep says which of five *)
(* things a step can do to the refs, OutcomeStep what it can do to a       *)
(* receipt, and every invariant is preserved by those.                     *)
(***************************************************************************)
EXTENDS MergeEffect, TLAPS

Labels == {"idle", "lookup", "prepare", "reread", "reconcile", "readTarget", "control",
           "install", "txn", "failed", "disambiguate", "record", "returned"}

Slots == DOMAIN RunOf

\* From the first look at the target to the last.
Installing == {"readTarget", "install", "txn", "failed", "disambiguate"}

GitTypes ==
    /\ world \in Worlds
    /\ target \in Commits /\ seen \subseteq Commits
    /\ marker \subseteq Keys
    /\ installs \in [Keys -> Nat]
    /\ txn \in [Attempts -> {"none", "locked", "half", "done"}]

JournalTypes ==
    /\ owner \in [Runs -> Attempts \cup {None}]
    /\ finished \subseteq Runs /\ failed \subseteq Runs /\ cancel \subseteq Runs
    /\ prepared \in [Keys -> Attempts \cup {None}]
    /\ receipt \in [Keys -> Receipts]

AttemptTypes ==
    /\ pc \in [Attempts -> Labels]
    /\ tries \in [Attempts -> {1, 2}]
    /\ out \in [Attempts -> Receipts]
    /\ disruptions \in Nat

TypeOK == GitTypes /\ JournalTypes /\ AttemptTypes

\* The locks on the refs: one transaction at a time holds the target, one at a
\* time holds the marker of a key.
LocksExclude ==
    \A a, b \in Slots :
        \/ a = b
        \/ /\ ~(txn[a] = "locked" /\ txn[b] = "locked")
           /\ ~(Key(a) = Key(b) /\ txn[a] \in {"locked", "half"} /\ txn[b] \in {"locked", "half"})

\* What a transaction knows in each of its states.
TxnKnows ==
    \A a \in Slots :
        /\ txn[a] = "locked" => installs[Key(a)] = 0 /\ target = BaseOf[Key(a)]
        /\ txn[a] = "half" => installs[Key(a)] > 0
        /\ txn[a] = "done" => Key(a) \in marker

\* What was installed is marked, or about to be.
InstalledIsMarked ==
    \A k \in Keys : installs[k] > 0 => k \in marker \/ \E a \in Slots : Key(a) = k /\ txn[a] = "half"

AtMostOnce == \A k \in Keys : installs[k] <= 1

\* A merge commit that a marker names, or that the target contains, was installed.
RefsAreTrue ==
    \A k \in Keys : k \in marker \/ Integrated(k) => Installed(k)

\* So was one that a receipt calls committed, durable or still in an attempt's hands.
OutcomesAreTrue ==
    /\ \A k \in Keys : receipt[k].status = "committed" => Installed(k)
    /\ \A a \in Slots : out[a].status = "committed" => Installed(Key(a))

\* Attempts on the path of install never serve a simulated key.
SimulatedNeverInstalls ==
    \A a \in Slots : Key(a) \in Simulated =>
        /\ txn[a] = "none"
        /\ pc[a] \notin {"reconcile", "readTarget", "install", "txn", "failed", "disambiguate"}

\* What is only simulated stays so.
SimulatedStays ==
    /\ \A k \in Simulated : installs[k] = 0
    /\ \A k \in Keys : receipt[k].status = "simulated" => k \in Simulated
    /\ \A a \in Slots : out[a].status = "simulated" => Key(a) \in Simulated
    /\ \A k \in Keys : receipt[k].status = "committed" => k \notin Simulated
    /\ \A a \in Slots : out[a].status = "committed" => Key(a) \notin Simulated

\* Proofs come from the past of the target: of the attempts under way and of the preparations.
ProofsAreOld ==
    /\ target \in seen
    /\ \A a \in Slots : pc[a] # "idle" /\ a \in Proven => BaseOf[Key(a)] \in seen
    /\ \A k \in Keys : prepared[k] \in Proven => BaseOf[k] \in seen

\* Attempts come to install only with the proof of the prepared request.
InstallsAreProven ==
    \A a \in Slots : pc[a] \in Installing => ProofHolds(a)

\* The inductive invariant behind the safety theorems.
Inv ==
    /\ TypeOK
    /\ SimulatedNeverInstalls /\ ProofsAreOld /\ InstallsAreProven
    /\ LocksExclude /\ TxnKnows /\ InstalledIsMarked /\ AtMostOnce
    /\ RefsAreTrue /\ OutcomesAreTrue /\ SimulatedStays

\* The target has gone past the base of k, and is not at its merge commit.
Overtaken(k) == BaseOf[k] \in Contains[target] /\ target \notin {BaseOf[k], CommitOf[k]}

\* Where nobody forces the target it only moves forward: it contains what it has been at and
\* what was installed, and a rejected effect stays overtaken.
LawInv ==
    Governed =>
        /\ seen \subseteq Contains[target]
        /\ \A k \in Keys : installs[k] > 0 => Integrated(k)
        /\ \A k \in Keys : receipt[k].status = "rejected" => Overtaken(k)
        /\ \A a \in Slots : out[a].status = "rejected" => Overtaken(Key(a))

-----------------------------------------------------------------------------
(* What a world gives.                                                     *)

LEMMA WorldGives ==
  ASSUME world \in Worlds
  PROVE  /\ Slots \subseteq Attempts
         /\ \A a \in Slots : RunOf[a] \in Runs /\ Key(a) \in Keys
         /\ \A k \in Keys : BaseOf[k] \in Commits /\ CommitOf[k] \in Commits
         /\ \A c \in Commits : c \in Contains[c]
         /\ \A k \in Keys : /\ CommitOf[k] \notin Contains[BaseOf[k]]
                            /\ \A j \in Keys : CommitOf[j] = CommitOf[k] => BaseOf[j] = BaseOf[k]
                            /\ Contains[CommitOf[k]] = Contains[BaseOf[k]] \cup {CommitOf[k]}
         /\ \A k \in Keys : CommitOf[k] \notin Contains[Root]
         /\ \A k \in Keys, c \in world.forcedTo : CommitOf[k] \notin Contains[c]
         /\ world.forcedTo \subseteq Commits /\ Simulated \subseteq Keys /\ Proven \subseteq Attempts
         /\ world.maxDisruptions \in Nat
  <1>1. World(world)
    BY WorldsAssumption
  <1>2. Slots \subseteq Attempts /\ RunOf \in [Slots -> Runs]
    BY <1>1 DEF World, RunOf, Slots
  <1>4. KeyOf \in [Runs -> Keys]
    BY <1>1 DEF World, KeyOf
  <1>5. \A a \in Slots : RunOf[a] \in Runs /\ Key(a) \in Keys
    BY <1>2, <1>4 DEF Key
  <1>6. \A k \in Keys : BaseOf[k] \in Commits /\ CommitOf[k] \in Commits
    BY <1>1, CommitAssumption DEF World, BaseOf
  <1> QED BY <1>1, <1>2, <1>5, <1>6 DEF World, Contains, BaseOf, Simulated, Proven

\* It is never changed.
LEMMA WorldStays ==
  ASSUME Next \/ UNCHANGED vars
  PROVE  /\ UNCHANGED <<world, Slots, Simulated, Proven, BaseOf, Contains, Governed>>
         /\ \A a : Key(a)' = Key(a)
         /\ \A k : Installed(k)' = \E j \in Keys : CommitOf[j] = CommitOf[k] /\ installs'[j] > 0
  BY DEF Next, vars, Slots, Simulated, Proven, BaseOf, Contains, Governed, Key, RunOf, KeyOf, Installed

-----------------------------------------------------------------------------
(* What a step can do.                                                     *)

\* The refs and their transactions: nothing, a marker put back, a transaction
\* started, one of its two renames, or the operator's force.
GitMoves ==
    \/ /\ UNCHANGED <<target, seen, marker, installs>>
       /\ \/ UNCHANGED txn
          \/ \E a \in Slots : txn[a] \in {"none", "done"} /\ txn' = [txn EXCEPT ![a] = "none"]
    \/ /\ UNCHANGED <<target, seen, installs, txn>>
       /\ \E k \in Keys : Integrated(k) /\ marker' = marker \cup {k}
    \/ /\ UNCHANGED <<target, seen, marker, installs>>
       /\ \E a \in Slots : TxnAdmitted(Key(a)) /\ txn' = [txn EXCEPT ![a] = "locked"]
    \/ \E a \in Slots : TxnTarget(a) \/ TxnMarker(a)
    \/ ForceMove

\* Every step is one of these for the refs.
LEMMA GitStep ==
  ASSUME GitTypes, Next
  PROVE  GitMoves
  <1>1. ASSUME NEW a \in Slots, ControlRefuses(a) PROVE GitMoves
    BY <1>1 DEF ControlRefuses, git, GitMoves
  <1>2. ASSUME NEW a \in Slots, Lookup(a) PROVE GitMoves
    BY <1>2 DEF Lookup, Return, Raise, git, GitMoves
  <1>3. ASSUME NEW a \in Slots, Prepare(a) PROVE GitMoves
    BY <1>3 DEF Prepare, Return, Raise, git, GitMoves
  <1>4. ASSUME NEW a \in Slots, RefuseProof(a) PROVE GitMoves
    BY <1>4 DEF RefuseProof, Raise, git, GitMoves
  <1>5. ASSUME NEW a \in Slots, Simulate(a) PROVE GitMoves
    BY <1>5 DEF Simulate, git, GitMoves
  <1>6. ASSUME NEW a \in Slots, ReconcileMarker(a) PROVE GitMoves
    BY <1>6 DEF ReconcileMarker, git, GitMoves
  <1>7. ASSUME NEW a \in Slots, ReconcileTarget(a) PROVE GitMoves
    <2>1. Key(a) \in Keys
      BY WorldGives DEF GitTypes
    <2>2. UNCHANGED <<target, seen, installs, txn>>
      BY <1>7 DEF ReconcileTarget
    <2>3. marker' = marker \/ (Integrated(Key(a)) /\ marker' = marker \cup {Key(a)})
      BY <1>7 DEF ReconcileTarget, RestoreMarker
    <2> QED BY <2>1, <2>2, <2>3 DEF GitMoves
  <1>8. ASSUME NEW a \in Slots, Execute(a) PROVE GitMoves
    BY <1>8 DEF Execute, git, GitMoves
  <1>9. ASSUME NEW a \in Slots, StartTxn(a) PROVE GitMoves
    BY <1>9 DEF StartTxn, GitMoves
  <1>10. ASSUME NEW a \in Slots, TxnSucceeded(a) PROVE GitMoves
    BY <1>10 DEF TxnSucceeded, GitMoves
  <1>11. ASSUME NEW a \in Slots, ReadMarker(a) PROVE GitMoves
    BY <1>11 DEF ReadMarker, git, GitMoves
  <1>12. ASSUME NEW a \in Slots, ReadTarget(a) PROVE GitMoves
    <2>1. Key(a) \in Keys /\ target \in Contains[target]
      BY WorldGives DEF GitTypes
    <2>2. UNCHANGED <<target, seen, installs, txn>>
      BY <1>12 DEF ReadTarget, Raise, git
    <2>3. marker' = marker \/ (target = CommitOf[Key(a)] /\ marker' = marker \cup {Key(a)})
      BY <1>12 DEF ReadTarget, RestoreMarker, Raise, git
    <2> QED BY <2>1, <2>2, <2>3 DEF GitMoves, Integrated
  <1>13. ASSUME NEW a \in Slots, RecordOutcome(a) PROVE GitMoves
    BY <1>13 DEF RecordOutcome, Return, Raise, git, GitMoves
  <1>14. ASSUME NEW a \in Slots, Finish(a) PROVE GitMoves
    BY <1>14 DEF Finish, git, GitMoves
  <1>15. ASSUME NEW a \in Slots, TxnTarget(a) PROVE GitMoves
    BY <1>15 DEF GitMoves
  <1>16. ASSUME NEW a \in Slots, TxnMarker(a) PROVE GitMoves
    BY <1>16 DEF GitMoves
  <1>17. ASSUME NEW a \in Slots, Claim(a) PROVE GitMoves
    BY <1>17 DEF Claim, GitMoves
  <1>18. ASSUME NEW a \in Slots, Crash(a) PROVE GitMoves
    BY <1>18 DEF Crash, git, GitMoves
  <1>19. CASE \E r \in Runs : RequestCancel(r)
    BY <1>19 DEF RequestCancel, git, GitMoves
  <1>20. CASE ForceMove
    BY <1>20 DEF GitMoves
  <1> QED BY <1>1, <1>2, <1>3, <1>4, <1>5, <1>6, <1>7, <1>8, <1>9, <1>10, <1>11, <1>12, <1>13,
       <1>14, <1>15, <1>16, <1>17, <1>18, <1>19, <1>20 DEF Next, Step, Boundary, GitProcess,
       Slots

\* Where a receipt in an attempt's hands comes from: a marker, the target's history,
\* its own transaction, a simulation, a genuine move, or the journal.
Grounds(a, r) ==
    \/ r = NoReceipt
    \/ /\ r = Plain("committed")
       /\ Key(a) \in marker \/ Integrated(Key(a)) \/ txn[a] = "done"
       /\ Key(a) \notin Simulated
    \/ r = Plain("simulated") /\ Key(a) \in Simulated
    \/ /\ r = RejectedAt(target) /\ GenuineMove(Key(a)) /\ Key(a) \notin Simulated
       /\ ProofHolds(a)
    \/ r = receipt[Key(a)]

\* The receipts: an attempt's own changes only on such grounds, the durable one
\* only from none to that of an attempt about to record it.
OutcomeMoves ==
    /\ \A b \in Slots : out'[b] = out[b] \/ Grounds(b, out'[b])
    /\ \/ UNCHANGED receipt
       \/ \E a \in Slots : /\ pc[a] = "record" /\ receipt[Key(a)] = NoReceipt
                            /\ receipt' = [receipt EXCEPT ![Key(a)] = out[a]]

\* Every step moves the receipts that way.
LEMMA OutcomeStep ==
  ASSUME TypeOK, SimulatedNeverInstalls, InstallsAreProven, Next
  PROVE  OutcomeMoves
  <1> USE DEF TypeOK
  <1>1. ASSUME NEW a \in Slots, ControlRefuses(a) PROVE OutcomeMoves
    <2>1. \A b \in Slots : out'[b] = out[b] \/ out'[b] = NoReceipt
      BY <1>1, WorldGives DEF ControlRefuses, Leave, Raise, GitTypes, AttemptTypes
    <2>2. UNCHANGED receipt
      BY <1>1 DEF ControlRefuses, Raise, journal
    <2> QED BY <2>1, <2>2 DEF OutcomeMoves, Grounds
  <1>2. ASSUME NEW a \in Slots, Lookup(a) PROVE OutcomeMoves
    <2>1. CASE Raise(a)
      <3>1. \A b \in Slots : out'[b] = out[b] \/ out'[b] = NoReceipt
        BY <2>1, WorldGives DEF Leave, Raise, GitTypes, AttemptTypes
      <3> QED BY <2>1, <3>1 DEF Raise, OutcomeMoves, Grounds
    <2>2. CASE UNCHANGED <<out, receipt>>
      BY <2>2 DEF OutcomeMoves
    <2>3. CASE Return(a, receipt[Key(a)])
      <3>1. \A b \in Slots : out'[b] = out[b] \/ (b = a /\ out'[a] = receipt[Key(a)])
        BY <2>3, WorldGives DEF Return, GitTypes, AttemptTypes
      <3> QED BY <2>3, <3>1 DEF Return, journal, OutcomeMoves, Grounds
    <2> QED BY <1>2, <2>1, <2>2, <2>3 DEF Lookup, journal
  <1>3. ASSUME NEW a \in Slots, Prepare(a) PROVE OutcomeMoves
    <2>1. CASE Raise(a)
      <3>1. \A b \in Slots : out'[b] = out[b] \/ out'[b] = NoReceipt
        BY <2>1, WorldGives DEF Leave, Raise, GitTypes, AttemptTypes
      <3> QED BY <2>1, <3>1 DEF Raise, OutcomeMoves, Grounds
    <2>2. CASE UNCHANGED <<out, receipt>>
      BY <2>2 DEF OutcomeMoves
    <2> QED BY <1>3, <2>1, <2>2 DEF Prepare
  <1>4. ASSUME NEW a \in Slots, RefuseProof(a) PROVE OutcomeMoves
    <2>1. \A b \in Slots : out'[b] = out[b] \/ out'[b] = NoReceipt
      BY <1>4, WorldGives DEF RefuseProof, Raise, Leave, Raise, GitTypes, AttemptTypes
    <2>2. UNCHANGED receipt
      BY <1>4 DEF RefuseProof, Raise, journal
    <2> QED BY <2>1, <2>2 DEF OutcomeMoves, Grounds
  <1>5. ASSUME NEW a \in Slots, Simulate(a) PROVE OutcomeMoves
    <2>1. \A b \in Slots : out'[b] = out[b] \/ (b = a /\ out'[a] = Plain("simulated"))
      BY <1>5, WorldGives DEF Simulate, ToRecord, GitTypes, AttemptTypes
    <2>2. UNCHANGED receipt
      BY <1>5 DEF Simulate, journal
    <2>3. out'[a] # out[a] => Key(a) \in Simulated
      BY <1>5 DEF Simulate
    <2> QED BY <2>1, <2>2, <2>3 DEF OutcomeMoves, Grounds
  <1>6. ASSUME NEW a \in Slots, ReconcileMarker(a) PROVE OutcomeMoves
    <2>1. \A b \in Slots : out'[b] = out[b] \/ (b = a /\ out'[a] = Plain("committed"))
      BY <1>6, WorldGives DEF ReconcileMarker, ToRecord, GitTypes, AttemptTypes
    <2>2. UNCHANGED receipt
      BY <1>6 DEF ReconcileMarker, journal
    <2>3. out'[a] # out[a] => Key(a) \in marker /\ Key(a) \notin Simulated
      BY <1>6 DEF ReconcileMarker, SimulatedNeverInstalls
    <2> QED BY <2>1, <2>2, <2>3 DEF OutcomeMoves, Grounds
  <1>7. ASSUME NEW a \in Slots, ReconcileTarget(a) PROVE OutcomeMoves
    <2>1. \A b \in Slots : out'[b] = out[b] \/ (b = a /\ out'[a] = Plain("committed"))
      BY <1>7, WorldGives DEF ReconcileTarget, ToRecord, GitTypes, AttemptTypes
    <2>2. UNCHANGED receipt
      BY <1>7 DEF ReconcileTarget, journal
    <2>3. out'[a] # out[a] => Integrated(Key(a)) /\ Key(a) \notin Simulated
      BY <1>7 DEF ReconcileTarget, SimulatedNeverInstalls
    <2> QED BY <2>1, <2>2, <2>3 DEF OutcomeMoves, Grounds
  <1>8. ASSUME NEW a \in Slots, Execute(a) PROVE OutcomeMoves
    BY <1>8 DEF Execute, journal, OutcomeMoves
  <1>9. ASSUME NEW a \in Slots, StartTxn(a) PROVE OutcomeMoves
    BY <1>9 DEF StartTxn, journal, OutcomeMoves
  <1>10. ASSUME NEW a \in Slots, TxnSucceeded(a) PROVE OutcomeMoves
    <2>1. \A b \in Slots : out'[b] = out[b] \/ (b = a /\ out'[a] = Plain("committed"))
      BY <1>10, WorldGives DEF TxnSucceeded, ToRecord, GitTypes, AttemptTypes
    <2>2. UNCHANGED receipt
      BY <1>10 DEF TxnSucceeded, journal
    <2>3. out'[a] # out[a] => txn[a] = "done" /\ Key(a) \notin Simulated
      BY <1>10 DEF TxnSucceeded, SimulatedNeverInstalls
    <2> QED BY <2>1, <2>2, <2>3 DEF OutcomeMoves, Grounds
  <1>11. ASSUME NEW a \in Slots, ReadMarker(a) PROVE OutcomeMoves
    <2>1. \A b \in Slots : out'[b] = out[b] \/ (b = a /\ out'[a] = Plain("committed"))
      BY <1>11, WorldGives DEF ReadMarker, ToRecord, GitTypes, AttemptTypes
    <2>2. UNCHANGED receipt
      BY <1>11 DEF ReadMarker, journal
    <2>3. out'[a] # out[a] => Key(a) \in marker /\ Key(a) \notin Simulated
      BY <1>11 DEF ReadMarker, SimulatedNeverInstalls
    <2> QED BY <2>1, <2>2, <2>3 DEF OutcomeMoves, Grounds
  <1>12. ASSUME NEW a \in Slots, ReadTarget(a) PROVE OutcomeMoves
    <2>1. CASE Raise(a)
      <3>1. \A b \in Slots : out'[b] = out[b] \/ out'[b] = NoReceipt
        BY <2>1, WorldGives DEF Leave, Raise, GitTypes, AttemptTypes
      <3> QED BY <2>1, <3>1 DEF Raise, OutcomeMoves, Grounds
    <2>2. CASE UNCHANGED <<out, receipt>>
      BY <2>2 DEF OutcomeMoves
    <2>3. CASE GenuineMove(Key(a)) /\ ToRecord(a, RejectedAt(target)) /\ UNCHANGED receipt
      <3>1. \A b \in Slots : out'[b] = out[b] \/ (b = a /\ out'[a] = RejectedAt(target))
        BY <2>3, WorldGives DEF ToRecord, GitTypes, AttemptTypes
      <3>2. Key(a) \notin Simulated /\ ProofHolds(a)
        BY <1>12 DEF ReadTarget, SimulatedNeverInstalls, InstallsAreProven, Installing
      <3> QED BY <2>3, <3>1, <3>2 DEF OutcomeMoves, Grounds
    <2>4. CASE target = CommitOf[Key(a)] /\ ToRecord(a, Plain("committed")) /\ UNCHANGED receipt
      <3>1. \A b \in Slots : out'[b] = out[b] \/ (b = a /\ out'[a] = Plain("committed"))
        BY <2>4, WorldGives DEF ToRecord, GitTypes, AttemptTypes
      <3>2. Integrated(Key(a)) /\ Key(a) \notin Simulated
        BY <1>12, <2>4, WorldGives DEF Integrated, GitTypes, ReadTarget, SimulatedNeverInstalls
      <3> QED BY <2>4, <3>1, <3>2 DEF OutcomeMoves, Grounds
    <2> QED BY <1>12, <2>1, <2>2, <2>3, <2>4 DEF ReadTarget, journal
  <1>13. ASSUME NEW a \in Slots, RecordOutcome(a) PROVE OutcomeMoves
    <2>1. CASE Raise(a)
      <3>1. \A b \in Slots : out'[b] = out[b] \/ out'[b] = NoReceipt
        BY <2>1, WorldGives DEF Leave, Raise, GitTypes, AttemptTypes
      <3> QED BY <2>1, <3>1 DEF Raise, OutcomeMoves, Grounds
    <2>2. CASE Return(a, out[a])
      <3>1. \A b \in Slots : out'[b] = out[b]
        BY <2>2, WorldGives DEF Return, GitTypes, AttemptTypes
      <3> QED BY <2>2, <3>1 DEF Return, journal, OutcomeMoves
    <2>3. CASE /\ receipt[Key(a)] = NoReceipt /\ UNCHANGED out
               /\ receipt' = [receipt EXCEPT ![Key(a)] = out[a]]
      BY <1>13, <2>3 DEF RecordOutcome, OutcomeMoves
    <2> QED BY <1>13, <2>1, <2>2, <2>3 DEF RecordOutcome
  <1>14. ASSUME NEW a \in Slots, Finish(a) PROVE OutcomeMoves
    <2>1. \A b \in Slots : out'[b] = out[b] \/ out'[b] = NoReceipt
      BY <1>14, WorldGives DEF Finish, Leave, Raise, GitTypes, AttemptTypes
    <2>2. UNCHANGED receipt
      BY <1>14 DEF Finish, Raise, journal
    <2> QED BY <2>1, <2>2 DEF OutcomeMoves, Grounds
  <1>15. ASSUME NEW a \in Slots, TxnTarget(a) PROVE OutcomeMoves
    BY <1>15 DEF TxnTarget, journal, OutcomeMoves
  <1>16. ASSUME NEW a \in Slots, TxnMarker(a) PROVE OutcomeMoves
    BY <1>16 DEF TxnMarker, journal, OutcomeMoves
  <1>17. ASSUME NEW a \in Slots, Claim(a) PROVE OutcomeMoves
    BY <1>17 DEF Claim, journal, OutcomeMoves
  <1>18. ASSUME NEW a \in Slots, Crash(a) PROVE OutcomeMoves
    <2>1. \A b \in Slots : out'[b] = out[b] \/ out'[b] = NoReceipt
      BY <1>18, WorldGives DEF Crash, Leave, Raise, GitTypes, AttemptTypes
    <2>2. UNCHANGED receipt
      BY <1>18 DEF Crash, Raise, journal
    <2> QED BY <2>1, <2>2 DEF OutcomeMoves, Grounds
  <1>19. CASE \E r \in Runs : RequestCancel(r)
    BY <1>19 DEF RequestCancel, OutcomeMoves
  <1>20. CASE ForceMove
    BY <1>20 DEF ForceMove, journal, OutcomeMoves
  <1> QED BY <1>1, <1>2, <1>3, <1>4, <1>5, <1>6, <1>7, <1>8, <1>9, <1>10, <1>11, <1>12, <1>13,
       <1>14, <1>15, <1>16, <1>17, <1>18, <1>19, <1>20 DEF Next, Step, Boundary, GitProcess,
       Slots

-----------------------------------------------------------------------------
(* Types.                                                                  *)

\* Receipts that attempts make up are receipts.
LEMMA ReceiptsTyped ==
  /\ \A status \in {"none", "committed", "simulated"} : Plain(status) \in Receipts
  /\ \A c \in Commits : RejectedAt(c) \in Receipts
  BY DEF Plain, RejectedAt, Receipts

\* The refs and transactions keep their types.
LEMMA GitTypesStep ==
  ASSUME GitTypes, Next
  PROVE  GitTypes'
  <1> USE DEF GitTypes
  <1>1. world' \in Worlds
    BY DEF Next
  <1>2. GitMoves
    BY GitStep
  <1>3. target' \in Commits
    BY <1>2, WorldGives DEF GitMoves, TxnTarget, TxnMarker, ForceMove
  <1>4. marker' \subseteq Keys
    BY <1>2, WorldGives DEF GitMoves, TxnTarget, TxnMarker, ForceMove
  <1>5. installs' \in [Keys -> Nat]
    BY <1>2, WorldGives DEF GitMoves, TxnTarget, TxnMarker, ForceMove
  <1>6. txn' \in [Attempts -> {"none", "locked", "half", "done"}]
    BY <1>2, WorldGives DEF GitMoves, TxnTarget, TxnMarker, ForceMove
  <1>7. seen' \subseteq Commits
    BY <1>2, <1>3 DEF GitMoves, TxnTarget, TxnMarker, ForceMove, journal
  <1> QED BY <1>1, <1>3, <1>4, <1>5, <1>6, <1>7

\* The journal's rows keep their types.
LEMMA JournalTypesStep ==
  ASSUME TypeOK, Next
  PROVE  JournalTypes'
  <1>1. ASSUME NEW a \in Slots, ControlRefuses(a) PROVE JournalTypes'
    BY <1>1, WorldGives, ReceiptsTyped DEF ControlRefuses, Leave, Goto, Disrupt, Fenced,
         NoReceipt, journal, git, TypeOK, GitTypes, JournalTypes, AttemptTypes
  <1>2. ASSUME NEW a \in Slots, Lookup(a) PROVE JournalTypes'
    BY <1>2, WorldGives, ReceiptsTyped DEF Lookup, Return, Raise, Leave, Goto, Disrupt, Fenced,
         NoReceipt, journal, git, TypeOK, GitTypes, JournalTypes, AttemptTypes
  <1>3. ASSUME NEW a \in Slots, Prepare(a) PROVE JournalTypes'
    BY <1>3, WorldGives, ReceiptsTyped DEF Prepare, Raise, Leave, Goto, Disrupt, Fenced,
         NoReceipt, journal, git, TypeOK, GitTypes, JournalTypes, AttemptTypes
  <1>4. ASSUME NEW a \in Slots, RefuseProof(a) PROVE JournalTypes'
    BY <1>4, WorldGives, ReceiptsTyped DEF RefuseProof, Raise, Leave, Goto, Disrupt, Fenced,
         NoReceipt, journal, git, TypeOK, GitTypes, JournalTypes, AttemptTypes
  <1>5. ASSUME NEW a \in Slots, Simulate(a) PROVE JournalTypes'
    BY <1>5, WorldGives, ReceiptsTyped DEF Simulate, ToRecord, Goto, Disrupt, Fenced,
         NoReceipt, journal, git, TypeOK, GitTypes, JournalTypes, AttemptTypes
  <1>6. ASSUME NEW a \in Slots, ReconcileMarker(a) PROVE JournalTypes'
    BY <1>6, WorldGives, ReceiptsTyped DEF ReconcileMarker, ToRecord, Goto, Disrupt, Fenced,
         NoReceipt, journal, git, TypeOK, GitTypes, JournalTypes, AttemptTypes
  <1>7. ASSUME NEW a \in Slots, ReconcileTarget(a) PROVE JournalTypes'
    BY <1>7, WorldGives, ReceiptsTyped DEF ReconcileTarget, RestoreMarker, ToRecord, Goto,
         Disrupt, Fenced, NoReceipt, journal, git, TypeOK, GitTypes, JournalTypes, AttemptTypes
  <1>8. ASSUME NEW a \in Slots, Execute(a) PROVE JournalTypes'
    BY <1>8, WorldGives, ReceiptsTyped DEF Execute, Goto, Disrupt, Fenced, NoReceipt, journal,
         git, TypeOK, GitTypes, JournalTypes, AttemptTypes
  <1>9. ASSUME NEW a \in Slots, StartTxn(a) PROVE JournalTypes'
    BY <1>9, WorldGives, ReceiptsTyped DEF StartTxn, Goto, Disrupt, Fenced, NoReceipt, journal,
         git, TypeOK, GitTypes, JournalTypes, AttemptTypes
  <1>10. ASSUME NEW a \in Slots, TxnSucceeded(a) PROVE JournalTypes'
    BY <1>10, WorldGives, ReceiptsTyped DEF TxnSucceeded, ToRecord, Goto, Disrupt, Fenced,
         NoReceipt, journal, git, TypeOK, GitTypes, JournalTypes, AttemptTypes
  <1>11. ASSUME NEW a \in Slots, ReadMarker(a) PROVE JournalTypes'
    BY <1>11, WorldGives, ReceiptsTyped DEF ReadMarker, ToRecord, Goto, Disrupt, Fenced,
         NoReceipt, journal, git, TypeOK, GitTypes, JournalTypes, AttemptTypes
  <1>12. ASSUME NEW a \in Slots, ReadTarget(a) PROVE JournalTypes'
    BY <1>12, WorldGives, ReceiptsTyped DEF ReadTarget, RestoreMarker, ToRecord, Raise, Leave,
         Goto, Disrupt, Fenced, NoReceipt, journal, git, TypeOK, GitTypes, JournalTypes,
         AttemptTypes
  <1>13. ASSUME NEW a \in Slots, RecordOutcome(a) PROVE JournalTypes'
    BY <1>13, WorldGives, ReceiptsTyped DEF RecordOutcome, Return, Raise, Leave, Goto, Disrupt,
         Fenced, NoReceipt, journal, git, TypeOK, GitTypes, JournalTypes, AttemptTypes
  <1>14. ASSUME NEW a \in Slots, Finish(a) PROVE JournalTypes'
    BY <1>14, WorldGives, ReceiptsTyped DEF Finish, Leave, Goto, Disrupt, Fenced, NoReceipt,
         journal, git, TypeOK, GitTypes, JournalTypes, AttemptTypes
  <1>15. ASSUME NEW a \in Slots, TxnTarget(a) PROVE JournalTypes'
    BY <1>15, WorldGives, ReceiptsTyped DEF TxnTarget, Disrupt, Fenced, NoReceipt, journal,
         git, TypeOK, GitTypes, JournalTypes, AttemptTypes
  <1>16. ASSUME NEW a \in Slots, TxnMarker(a) PROVE JournalTypes'
    BY <1>16, WorldGives, ReceiptsTyped DEF TxnMarker, Disrupt, Fenced, NoReceipt, journal,
         git, TypeOK, GitTypes, JournalTypes, AttemptTypes
  <1>17. ASSUME NEW a \in Slots, Claim(a) PROVE JournalTypes'
    BY <1>17, WorldGives, ReceiptsTyped DEF Claim, Goto, Disrupt, Fenced, NoReceipt, journal,
         git, TypeOK, GitTypes, JournalTypes, AttemptTypes
  <1>18. ASSUME NEW a \in Slots, Crash(a) PROVE JournalTypes'
    BY <1>18, WorldGives, ReceiptsTyped DEF Crash, Leave, Goto, Disrupt, Fenced, NoReceipt,
         journal, git, TypeOK, GitTypes, JournalTypes, AttemptTypes
  <1>19. CASE \E r \in Runs : RequestCancel(r)
    BY <1>19, WorldGives, ReceiptsTyped DEF RequestCancel, Disrupt, Fenced, NoReceipt, journal,
         git, TypeOK, GitTypes, JournalTypes, AttemptTypes
  <1>20. CASE ForceMove
    BY <1>20, WorldGives, ReceiptsTyped DEF ForceMove, Disrupt, Disrupt, Fenced, NoReceipt,
         journal, git, TypeOK, GitTypes, JournalTypes, AttemptTypes
  <1> QED BY <1>1, <1>2, <1>3, <1>4, <1>5, <1>6, <1>7, <1>8, <1>9, <1>10, <1>11, <1>12, <1>13,
       <1>14, <1>15, <1>16, <1>17, <1>18, <1>19, <1>20 DEF Next, Step, Boundary, GitProcess,
       Slots

\* The attempts keep their types.
LEMMA AttemptTypesStep ==
  ASSUME TypeOK, Next
  PROVE  AttemptTypes'
  <1>1. ASSUME NEW a \in Slots, ControlRefuses(a) PROVE AttemptTypes'
    BY <1>1, WorldGives, ReceiptsTyped DEF ControlRefuses, Leave, Goto, Disrupt, NoReceipt,
         LastTry, Labels, TypeOK, GitTypes, JournalTypes, AttemptTypes
  <1>2. ASSUME NEW a \in Slots, Lookup(a) PROVE AttemptTypes'
    BY <1>2, WorldGives, ReceiptsTyped DEF Lookup, Return, Raise, Leave, Goto, Disrupt,
         NoReceipt, LastTry, Labels, TypeOK, GitTypes, JournalTypes, AttemptTypes
  <1>3. ASSUME NEW a \in Slots, Prepare(a) PROVE AttemptTypes'
    BY <1>3, WorldGives, ReceiptsTyped DEF Prepare, Raise, Leave, Goto, Disrupt, NoReceipt,
         LastTry, Labels, TypeOK, GitTypes, JournalTypes, AttemptTypes
  <1>4. ASSUME NEW a \in Slots, RefuseProof(a) PROVE AttemptTypes'
    BY <1>4, WorldGives, ReceiptsTyped DEF RefuseProof, Raise, Leave, Goto, Disrupt, NoReceipt,
         LastTry, Labels, TypeOK, GitTypes, JournalTypes, AttemptTypes
  <1>5. ASSUME NEW a \in Slots, Simulate(a) PROVE AttemptTypes'
    BY <1>5, WorldGives, ReceiptsTyped DEF Simulate, ToRecord, Goto, Disrupt, NoReceipt,
         LastTry, Labels, TypeOK, GitTypes, JournalTypes, AttemptTypes
  <1>6. ASSUME NEW a \in Slots, ReconcileMarker(a) PROVE AttemptTypes'
    BY <1>6, WorldGives, ReceiptsTyped DEF ReconcileMarker, ToRecord, Goto, Disrupt, NoReceipt,
         LastTry, Labels, TypeOK, GitTypes, JournalTypes, AttemptTypes
  <1>7. ASSUME NEW a \in Slots, ReconcileTarget(a) PROVE AttemptTypes'
    BY <1>7, WorldGives, ReceiptsTyped DEF ReconcileTarget, RestoreMarker, ToRecord, Goto,
         Disrupt, NoReceipt, LastTry, Labels, TypeOK, GitTypes, JournalTypes, AttemptTypes
  <1>8. ASSUME NEW a \in Slots, Execute(a) PROVE AttemptTypes'
    BY <1>8, WorldGives, ReceiptsTyped DEF Execute, Goto, Disrupt, NoReceipt, LastTry, Labels,
         TypeOK, GitTypes, JournalTypes, AttemptTypes
  <1>9. ASSUME NEW a \in Slots, StartTxn(a) PROVE AttemptTypes'
    BY <1>9, WorldGives, ReceiptsTyped DEF StartTxn, Goto, Disrupt, NoReceipt, LastTry, Labels,
         TypeOK, GitTypes, JournalTypes, AttemptTypes
  <1>10. ASSUME NEW a \in Slots, TxnSucceeded(a) PROVE AttemptTypes'
    BY <1>10, WorldGives, ReceiptsTyped DEF TxnSucceeded, ToRecord, Goto, Disrupt, NoReceipt,
         LastTry, Labels, TypeOK, GitTypes, JournalTypes, AttemptTypes
  <1>11. ASSUME NEW a \in Slots, ReadMarker(a) PROVE AttemptTypes'
    BY <1>11, WorldGives, ReceiptsTyped DEF ReadMarker, ToRecord, Goto, Disrupt, NoReceipt,
         LastTry, Labels, TypeOK, GitTypes, JournalTypes, AttemptTypes
  <1>12. ASSUME NEW a \in Slots, ReadTarget(a) PROVE AttemptTypes'
    BY <1>12, WorldGives, ReceiptsTyped DEF ReadTarget, RestoreMarker, ToRecord, Raise, Leave,
         Goto, Disrupt, NoReceipt, LastTry, Labels, TypeOK, GitTypes, JournalTypes,
         AttemptTypes
  <1>13. ASSUME NEW a \in Slots, RecordOutcome(a) PROVE AttemptTypes'
    BY <1>13, WorldGives, ReceiptsTyped DEF RecordOutcome, Return, Raise, Leave, Goto, Disrupt,
         NoReceipt, LastTry, Labels, TypeOK, GitTypes, JournalTypes, AttemptTypes
  <1>14. ASSUME NEW a \in Slots, Finish(a) PROVE AttemptTypes'
    BY <1>14, WorldGives, ReceiptsTyped DEF Finish, Leave, Goto, Disrupt, NoReceipt, LastTry,
         Labels, TypeOK, GitTypes, JournalTypes, AttemptTypes
  <1>15. ASSUME NEW a \in Slots, TxnTarget(a) PROVE AttemptTypes'
    BY <1>15, WorldGives, ReceiptsTyped DEF TxnTarget, Disrupt, NoReceipt, LastTry, Labels,
         TypeOK, GitTypes, JournalTypes, AttemptTypes
  <1>16. ASSUME NEW a \in Slots, TxnMarker(a) PROVE AttemptTypes'
    BY <1>16, WorldGives, ReceiptsTyped DEF TxnMarker, Disrupt, NoReceipt, LastTry, Labels,
         TypeOK, GitTypes, JournalTypes, AttemptTypes
  <1>17. ASSUME NEW a \in Slots, Claim(a) PROVE AttemptTypes'
    BY <1>17, WorldGives, ReceiptsTyped DEF Claim, Goto, Disrupt, NoReceipt, LastTry, Labels,
         TypeOK, GitTypes, JournalTypes, AttemptTypes
  <1>18. ASSUME NEW a \in Slots, Crash(a) PROVE AttemptTypes'
    BY <1>18, WorldGives, ReceiptsTyped DEF Crash, Leave, Goto, Disrupt, NoReceipt, LastTry,
         Labels, TypeOK, GitTypes, JournalTypes, AttemptTypes
  <1>19. CASE \E r \in Runs : RequestCancel(r)
    BY <1>19, WorldGives, ReceiptsTyped DEF RequestCancel, Disrupt, NoReceipt, LastTry, Labels,
         TypeOK, GitTypes, JournalTypes, AttemptTypes
  <1>20. CASE ForceMove
    BY <1>20, WorldGives, ReceiptsTyped DEF ForceMove, Disrupt, Disrupt, NoReceipt, LastTry,
         Labels, TypeOK, GitTypes, JournalTypes, AttemptTypes
  <1> QED BY <1>1, <1>2, <1>3, <1>4, <1>5, <1>6, <1>7, <1>8, <1>9, <1>10, <1>11, <1>12, <1>13,
       <1>14, <1>15, <1>16, <1>17, <1>18, <1>19, <1>20 DEF Next, Step, Boundary, GitProcess,
       Slots

\* A simulated attempt never comes to a transaction.
LEMMA SimulatedStep ==
  ASSUME TypeOK, SimulatedNeverInstalls, Next
  PROVE  SimulatedNeverInstalls'
  <1>1. ASSUME NEW a \in Slots, ControlRefuses(a) PROVE SimulatedNeverInstalls'
    BY <1>1, WorldGives, WorldStays DEF ControlRefuses, Leave, Goto, git, Slots, TypeOK, GitTypes,
         AttemptTypes, SimulatedNeverInstalls
  <1>2. ASSUME NEW a \in Slots, Lookup(a) PROVE SimulatedNeverInstalls'
    BY <1>2, WorldGives, WorldStays DEF Lookup, Return, Raise, Leave, Goto, git, Slots, TypeOK, GitTypes,
         AttemptTypes, SimulatedNeverInstalls
  <1>3. ASSUME NEW a \in Slots, Prepare(a) PROVE SimulatedNeverInstalls'
    BY <1>3, WorldGives, WorldStays DEF Prepare, Raise, Leave, Goto, git, Slots, TypeOK, GitTypes,
         AttemptTypes, SimulatedNeverInstalls
  <1>4. ASSUME NEW a \in Slots, RefuseProof(a) PROVE SimulatedNeverInstalls'
    BY <1>4, WorldGives, WorldStays DEF RefuseProof, Raise, Leave, Goto, git, Slots, TypeOK, GitTypes,
         AttemptTypes, SimulatedNeverInstalls
  <1>5. ASSUME NEW a \in Slots, Simulate(a) PROVE SimulatedNeverInstalls'
    BY <1>5, WorldGives, WorldStays DEF Simulate, ToRecord, Goto, git, Slots, TypeOK, GitTypes,
         AttemptTypes, SimulatedNeverInstalls
  <1>6. ASSUME NEW a \in Slots, ReconcileMarker(a) PROVE SimulatedNeverInstalls'
    BY <1>6, WorldGives, WorldStays DEF ReconcileMarker, ToRecord, Goto, git, Slots, TypeOK, GitTypes,
         AttemptTypes, SimulatedNeverInstalls
  <1>7. ASSUME NEW a \in Slots, ReconcileTarget(a) PROVE SimulatedNeverInstalls'
    BY <1>7, WorldGives, WorldStays DEF ReconcileTarget, RestoreMarker, ToRecord, Goto, git, Slots, TypeOK,
         GitTypes, AttemptTypes, SimulatedNeverInstalls
  <1>8. ASSUME NEW a \in Slots, Execute(a) PROVE SimulatedNeverInstalls'
    BY <1>8, WorldGives, WorldStays DEF Execute, Goto, git, Slots, TypeOK, GitTypes, AttemptTypes,
         SimulatedNeverInstalls
  <1>9. ASSUME NEW a \in Slots, StartTxn(a) PROVE SimulatedNeverInstalls'
    BY <1>9, WorldGives, WorldStays DEF StartTxn, Goto, git, Slots, TypeOK, GitTypes, AttemptTypes,
         SimulatedNeverInstalls
  <1>10. ASSUME NEW a \in Slots, TxnSucceeded(a) PROVE SimulatedNeverInstalls'
    BY <1>10, WorldGives, WorldStays DEF TxnSucceeded, ToRecord, Goto, git, Slots, TypeOK, GitTypes,
         AttemptTypes, SimulatedNeverInstalls
  <1>11. ASSUME NEW a \in Slots, ReadMarker(a) PROVE SimulatedNeverInstalls'
    BY <1>11, WorldGives, WorldStays DEF ReadMarker, ToRecord, Goto, git, Slots, TypeOK, GitTypes,
         AttemptTypes, SimulatedNeverInstalls
  <1>12. ASSUME NEW a \in Slots, ReadTarget(a) PROVE SimulatedNeverInstalls'
    BY <1>12, WorldGives, WorldStays DEF ReadTarget, RestoreMarker, ToRecord, Raise, Leave, Goto, git,
         Slots, TypeOK, GitTypes, AttemptTypes, SimulatedNeverInstalls
  <1>13. ASSUME NEW a \in Slots, RecordOutcome(a) PROVE SimulatedNeverInstalls'
    BY <1>13, WorldGives, WorldStays DEF RecordOutcome, Return, Raise, Leave, Goto, git, Slots, TypeOK,
         GitTypes, AttemptTypes, SimulatedNeverInstalls
  <1>14. ASSUME NEW a \in Slots, Finish(a) PROVE SimulatedNeverInstalls'
    BY <1>14, WorldGives, WorldStays DEF Finish, Leave, Goto, git, Slots, TypeOK, GitTypes, AttemptTypes,
         SimulatedNeverInstalls
  <1>15. ASSUME NEW a \in Slots, TxnTarget(a) PROVE SimulatedNeverInstalls'
    BY <1>15, WorldGives, WorldStays DEF TxnTarget, git, Slots, TypeOK, GitTypes, AttemptTypes,
         SimulatedNeverInstalls
  <1>16. ASSUME NEW a \in Slots, TxnMarker(a) PROVE SimulatedNeverInstalls'
    BY <1>16, WorldGives, WorldStays DEF TxnMarker, git, Slots, TypeOK, GitTypes, AttemptTypes,
         SimulatedNeverInstalls
  <1>17. ASSUME NEW a \in Slots, Claim(a) PROVE SimulatedNeverInstalls'
    BY <1>17, WorldGives, WorldStays DEF Claim, Goto, git, Slots, TypeOK, GitTypes, AttemptTypes,
         SimulatedNeverInstalls
  <1>18. ASSUME NEW a \in Slots, Crash(a) PROVE SimulatedNeverInstalls'
    BY <1>18, WorldGives, WorldStays DEF Crash, Leave, Goto, git, Slots, TypeOK, GitTypes, AttemptTypes,
         SimulatedNeverInstalls
  <1>19. CASE \E r \in Runs : RequestCancel(r)
    BY <1>19, WorldGives, WorldStays DEF RequestCancel, git, Slots, TypeOK, GitTypes, AttemptTypes,
         SimulatedNeverInstalls
  <1>20. CASE ForceMove
    BY <1>20, WorldGives, WorldStays DEF ForceMove, Disrupt, git, Slots, TypeOK, GitTypes, AttemptTypes,
         SimulatedNeverInstalls
  <1> QED BY <1>1, <1>2, <1>3, <1>4, <1>5, <1>6, <1>7, <1>8, <1>9, <1>10, <1>11, <1>12, <1>13,
       <1>14, <1>15, <1>16, <1>17, <1>18, <1>19, <1>20 DEF Next, Step, Boundary, GitProcess,
       Slots

-----------------------------------------------------------------------------
(* Proofs.                                                                 *)

\* An attempt comes to the boundary with its proof minted, and to install with the proof of the
\* preparation; the first preparation of a key stays.
ProofMoves ==
    /\ \A b \in Slots : pc'[b] # "idle" => pc[b] # "idle" \/ ProofMinted(b)
    /\ \A b \in Slots : pc'[b] \in Installing => pc[b] \in Installing \/ ProofHolds(b)
    /\ \/ UNCHANGED prepared
       \/ \E a \in Slots : /\ pc[a] # "idle" /\ prepared[Key(a)] = None
                            /\ prepared' = [prepared EXCEPT ![Key(a)] = a]

\* Every step does.
LEMMA ProofStep ==
  ASSUME TypeOK, Next
  PROVE  ProofMoves
  <1>1. ASSUME NEW a \in Slots, ControlRefuses(a) PROVE ProofMoves
    BY <1>1, WorldGives DEF ControlRefuses, Leave, Goto, journal, Installing, ProofMoves,
         TypeOK, GitTypes, AttemptTypes
  <1>2. ASSUME NEW a \in Slots, Lookup(a) PROVE ProofMoves
    BY <1>2, WorldGives DEF Lookup, Return, Raise, Leave, Goto, journal, Installing, ProofMoves,
         TypeOK, GitTypes, AttemptTypes
  <1>3. ASSUME NEW a \in Slots, Prepare(a) PROVE ProofMoves
    BY <1>3, WorldGives DEF Prepare, Raise, Leave, Goto, journal, Installing, ProofMoves,
         TypeOK, GitTypes, AttemptTypes
  <1>4. ASSUME NEW a \in Slots, RefuseProof(a) PROVE ProofMoves
    BY <1>4, WorldGives DEF RefuseProof, Raise, Leave, Goto, journal, Installing, ProofMoves,
         TypeOK, GitTypes, AttemptTypes
  <1>5. ASSUME NEW a \in Slots, Simulate(a) PROVE ProofMoves
    BY <1>5, WorldGives DEF Simulate, ToRecord, Goto, journal, Installing, ProofMoves,
         TypeOK, GitTypes, AttemptTypes
  <1>6. ASSUME NEW a \in Slots, ReconcileMarker(a) PROVE ProofMoves
    BY <1>6, WorldGives DEF ReconcileMarker, ToRecord, Goto, journal, Installing, ProofMoves,
         TypeOK, GitTypes, AttemptTypes
  <1>7. ASSUME NEW a \in Slots, ReconcileTarget(a) PROVE ProofMoves
    BY <1>7, WorldGives DEF ReconcileTarget, ToRecord, Goto, journal, Installing, ProofMoves,
         TypeOK, GitTypes, AttemptTypes
  <1>8. ASSUME NEW a \in Slots, Execute(a) PROVE ProofMoves
    BY <1>8, WorldGives DEF Execute, Goto, journal, Installing, ProofMoves,
         TypeOK, GitTypes, AttemptTypes
  <1>9. ASSUME NEW a \in Slots, StartTxn(a) PROVE ProofMoves
    BY <1>9, WorldGives DEF StartTxn, Goto, journal, Installing, ProofMoves,
         TypeOK, GitTypes, AttemptTypes
  <1>10. ASSUME NEW a \in Slots, TxnSucceeded(a) PROVE ProofMoves
    BY <1>10, WorldGives DEF TxnSucceeded, ToRecord, Goto, journal, Installing, ProofMoves,
         TypeOK, GitTypes, AttemptTypes
  <1>11. ASSUME NEW a \in Slots, ReadMarker(a) PROVE ProofMoves
    BY <1>11, WorldGives DEF ReadMarker, ToRecord, Goto, journal, Installing, ProofMoves,
         TypeOK, GitTypes, AttemptTypes
  <1>12. ASSUME NEW a \in Slots, ReadTarget(a) PROVE ProofMoves
    BY <1>12, WorldGives DEF ReadTarget, ToRecord, Raise, Leave, Goto, journal, Installing, ProofMoves,
         TypeOK, GitTypes, AttemptTypes
  <1>13. ASSUME NEW a \in Slots, RecordOutcome(a) PROVE ProofMoves
    BY <1>13, WorldGives DEF RecordOutcome, Return, Raise, Leave, Goto, journal, Installing, ProofMoves,
         TypeOK, GitTypes, AttemptTypes
  <1>14. ASSUME NEW a \in Slots, Finish(a) PROVE ProofMoves
    BY <1>14, WorldGives DEF Finish, Leave, Goto, journal, Installing, ProofMoves,
         TypeOK, GitTypes, AttemptTypes
  <1>15. ASSUME NEW a \in Slots, TxnTarget(a) PROVE ProofMoves
    BY <1>15, WorldGives DEF TxnTarget, journal, Installing, ProofMoves,
         TypeOK, GitTypes, AttemptTypes
  <1>16. ASSUME NEW a \in Slots, TxnMarker(a) PROVE ProofMoves
    BY <1>16, WorldGives DEF TxnMarker, journal, Installing, ProofMoves,
         TypeOK, GitTypes, AttemptTypes
  <1>17. ASSUME NEW a \in Slots, Claim(a) PROVE ProofMoves
    BY <1>17, WorldGives DEF Claim, Goto, journal, Installing, ProofMoves,
         TypeOK, GitTypes, AttemptTypes
  <1>18. ASSUME NEW a \in Slots, Crash(a) PROVE ProofMoves
    BY <1>18, WorldGives DEF Crash, Leave, Goto, journal, Installing, ProofMoves,
         TypeOK, GitTypes, AttemptTypes
  <1>19. CASE \E r \in Runs : RequestCancel(r)
    BY <1>19 DEF RequestCancel, ProofMoves
  <1>20. CASE ForceMove
    BY <1>20 DEF ForceMove, journal, ProofMoves
  <1> QED BY <1>1, <1>2, <1>3, <1>4, <1>5, <1>6, <1>7, <1>8, <1>9, <1>10, <1>11, <1>12, <1>13,
       <1>14, <1>15, <1>16, <1>17, <1>18, <1>19, <1>20 DEF Next, Step, Boundary, GitProcess,
       Slots

\* So an attempt on the path of install holds the proof of its preparation.
LEMMA InstallsAreProvenStep ==
  ASSUME TypeOK, InstallsAreProven, Next
  PROVE  InstallsAreProven'
  <1>1. ProofMoves
    BY ProofStep
  <1>2. ASSUME NEW b \in Slots, ProofHolds(b) PROVE ProofHolds(b)'
    <2>1. prepared[Key(b)] # None
      BY <1>2, NoneAssumption, WorldGives DEF ProofHolds, TypeOK, GitTypes
    <2>2. prepared'[Key(b)] = prepared[Key(b)]
      BY <1>1, <2>1, WorldGives DEF ProofMoves, TypeOK, GitTypes, JournalTypes
    <2> QED BY <1>2, <2>2, WorldStays DEF ProofHolds
  <1> QED BY <1>1, <1>2, WorldStays DEF ProofMoves, InstallsAreProven

\* The target never forgets where it has been.
LEMMA SeenGrows ==
  ASSUME GitTypes, Next
  PROVE  seen \subseteq seen' /\ seen' \subseteq seen \cup {target'}
         /\ (target \in seen => target' \in seen')
  BY GitStep DEF GitMoves, TxnTarget, TxnMarker, ForceMove, journal

\* The proofs of attempts under way and of preparations stay old.
LEMMA ProofsAreOldStep ==
  ASSUME TypeOK, ProofsAreOld, Next
  PROVE  ProofsAreOld'
  <1>1. ProofMoves
    BY ProofStep
  <1>2. seen \subseteq seen' /\ target' \in seen'
    BY SeenGrows DEF ProofsAreOld, TypeOK
  <1>3. ASSUME NEW a \in Slots, pc'[a] # "idle", a \in Proven PROVE BaseOf[Key(a)] \in seen
    BY <1>1, <1>3 DEF ProofMoves, ProofMinted, ProofsAreOld
  <1>4. ASSUME NEW k \in Keys, prepared'[k] \in Proven PROVE BaseOf[k] \in seen
    <2>1. CASE prepared'[k] = prepared[k]
      BY <1>4, <2>1 DEF ProofsAreOld
    <2>2. CASE prepared'[k] # prepared[k]
      <3>1. PICK a \in Slots : /\ pc[a] # "idle" /\ prepared[Key(a)] = None
                               /\ prepared' = [prepared EXCEPT ![Key(a)] = a]
        BY <1>1, <2>2 DEF ProofMoves
      <3>2. Key(a) = k /\ prepared'[k] = a
        BY <2>2, <3>1, WorldGives DEF TypeOK, GitTypes, JournalTypes
      <3> QED BY <1>4, <3>1, <3>2 DEF ProofsAreOld
    <2> QED BY <2>1, <2>2
  <1> QED BY <1>2, <1>3, <1>4, WorldStays DEF ProofsAreOld

-----------------------------------------------------------------------------
(* The refs.                                                               *)

\* Nobody holds a lock twice, because a transaction starts only where both are free.
LEMMA LocksExcludeStep ==
  ASSUME GitTypes, LocksExclude, Next
  PROVE  LocksExclude'
  <1>1. UNCHANGED txn => LocksExclude'
    BY WorldStays DEF LocksExclude
  <1>2. ASSUME NEW a \in Slots, NEW state \in {"none", "half", "done"},
               txn' = [txn EXCEPT ![a] = state],
               state = "half" => txn[a] = "locked"
        PROVE  LocksExclude'
    <2>1. \A b \in Slots : txn'[b] = IF b = a THEN state ELSE txn[b]
      BY <1>2, WorldGives DEF GitTypes
    <2> QED BY <1>2, <2>1, WorldStays DEF LocksExclude
  <1>3. ASSUME NEW a \in Slots, TxnAdmitted(Key(a)), txn' = [txn EXCEPT ![a] = "locked"]
        PROVE  LocksExclude'
    <2>1. \A b \in Slots : txn'[b] = IF b = a THEN "locked" ELSE txn[b]
      BY <1>3, WorldGives DEF GitTypes
    <2>2. \A b \in Slots : txn[b] # "locked"
      BY <1>3, WorldGives DEF GitTypes, TxnAdmitted, TargetLocked
    <2>3. \A b \in Slots : Key(b) = Key(a) => txn[b] \notin {"locked", "half"}
      BY <1>3 DEF TxnAdmitted, MarkerLocked, Slots
    <2> QED BY <2>1, <2>2, <2>3, WorldStays DEF LocksExclude
  <1> QED BY <1>1, <1>2, <1>3, GitStep DEF GitMoves, TxnTarget, TxnMarker, ForceMove

\* What was once installed stays so.
LEMMA InstallsGrow ==
  ASSUME GitTypes, Next
  PROVE  /\ \A k \in Keys : installs[k] > 0 => installs'[k] > 0
         /\ \A k \in Keys : Installed(k) => Installed(k)'
  <1>1. \A k \in Keys : installs[k] > 0 => installs'[k] > 0
    <2>1. CASE UNCHANGED installs
      BY <2>1
    <2>2. ASSUME NEW a \in Slots, TxnTarget(a) PROVE \A k \in Keys : installs[k] > 0 => installs'[k] > 0
      BY <2>2, WorldGives DEF TxnTarget, GitTypes
    <2> QED BY <2>1, <2>2, GitStep DEF GitMoves, TxnMarker, ForceMove
  <1> QED BY <1>1, WorldStays DEF Installed

\* A transaction keeps what it knows: while it holds the target's lock nobody
\* moves the target, and while it holds the marker's nobody installs its key.
LEMMA TxnKnowsStep ==
  ASSUME GitTypes, LocksExclude, InstalledIsMarked, TxnKnows, Next
  PROVE  TxnKnows'
  <1> USE DEF GitTypes
  <1>1. CASE /\ UNCHANGED <<target, installs>> /\ marker \subseteq marker'
             /\ UNCHANGED txn \/ \E a \in Slots : txn' = [txn EXCEPT ![a] = "none"]
    <2>1. \A b \in Slots : txn'[b] = txn[b] \/ txn'[b] = "none"
      BY <1>1, WorldGives
    <2> QED BY <1>1, <2>1, WorldStays DEF TxnKnows
  <1>2. ASSUME NEW a \in Slots, UNCHANGED <<target, marker, installs>>,
               TxnAdmitted(Key(a)), txn' = [txn EXCEPT ![a] = "locked"]
        PROVE  TxnKnows'
    <2>1. \A b \in Slots : txn'[b] = IF b = a THEN "locked" ELSE txn[b]
      BY <1>2, WorldGives
    <2>2. installs[Key(a)] = 0
      <3>1. ~ \E b \in Slots : Key(b) = Key(a) /\ txn[b] = "half"
        BY <1>2 DEF TxnAdmitted, MarkerLocked, Slots
      <3> QED BY <1>2, <3>1, WorldGives DEF TxnAdmitted, InstalledIsMarked
    <2>3. target = BaseOf[Key(a)]
      BY <1>2 DEF TxnAdmitted
    <2> QED BY <1>2, <2>1, <2>2, <2>3, WorldStays DEF TxnKnows
  <1>3. ASSUME NEW a \in Slots, TxnTarget(a) PROVE TxnKnows'
    <2>1. \A b \in Slots : txn'[b] = IF b = a THEN "half" ELSE txn[b]
      BY <1>3, WorldGives DEF TxnTarget
    <2>2. installs'[Key(a)] > 0 /\ \A k \in Keys : installs[k] > 0 => installs'[k] > 0
      BY <1>3, WorldGives DEF TxnTarget
    <2>3. \A b \in Slots : b # a => txn[b] # "locked"
      BY <1>3 DEF TxnTarget, LocksExclude
    <2>4. UNCHANGED marker
      BY <1>3 DEF TxnTarget
    <2> QED BY <2>1, <2>2, <2>3, <2>4, WorldStays, WorldGives DEF TxnKnows
  <1>4. ASSUME NEW a \in Slots, TxnMarker(a) PROVE TxnKnows'
    <2>1. \A b \in Slots : txn'[b] = IF b = a THEN "done" ELSE txn[b]
      BY <1>4, WorldGives DEF TxnMarker
    <2> QED BY <1>4, <2>1, WorldStays DEF TxnKnows, TxnMarker
  <1>5. CASE ForceMove
    BY <1>5, WorldStays, WorldGives DEF ForceMove, TargetLocked, TxnKnows
  <1> QED BY <1>1, <1>2, <1>3, <1>4, <1>5, GitStep DEF GitMoves

\* An install leaves its marker, in the same transaction.
LEMMA InstalledIsMarkedStep ==
  ASSUME GitTypes, InstalledIsMarked, Next
  PROVE  InstalledIsMarked'
  <1> USE DEF GitTypes
  <1>1. ASSUME UNCHANGED installs, marker \subseteq marker',
               \A b \in Slots : txn[b] = "half" => txn'[b] = "half"
        PROVE  InstalledIsMarked'
    BY <1>1, WorldStays DEF InstalledIsMarked
  <1>2. ASSUME NEW a \in Slots, NEW state, txn[a] # "half", txn' = [txn EXCEPT ![a] = state]
        PROVE  \A b \in Slots : txn[b] = "half" => txn'[b] = "half"
    BY <1>2, WorldGives
  <1>3. ASSUME NEW a \in Slots, TxnAdmitted(Key(a)) PROVE txn[a] # "half"
    BY <1>3 DEF TxnAdmitted, MarkerLocked, Slots
  <1>4. ASSUME NEW a \in Slots, TxnTarget(a) PROVE InstalledIsMarked'
    <2>1. \A b \in Slots : txn[b] = "half" \/ b = a => txn'[b] = "half"
      BY <1>4, WorldGives DEF TxnTarget
    <2>2. \A k \in Keys : k # Key(a) => installs'[k] = installs[k]
      BY <1>4, WorldGives DEF TxnTarget
    <2> QED BY <1>4, <2>1, <2>2, WorldStays DEF InstalledIsMarked, TxnTarget
  <1>5. ASSUME NEW a \in Slots, TxnMarker(a) PROVE InstalledIsMarked'
    <2>1. \A b \in Slots : b # a => txn'[b] = txn[b]
      BY <1>5, WorldGives DEF TxnMarker
    <2> QED BY <1>5, <2>1, WorldStays DEF InstalledIsMarked, TxnMarker
  <1>6. CASE ForceMove
    BY <1>1, <1>6 DEF ForceMove
  <1> QED BY <1>1, <1>2, <1>3, <1>4, <1>5, <1>6, GitStep DEF GitMoves

\* A transaction moves the target only where the marker was not there.
LEMMA AtMostOnceStep ==
  ASSUME GitTypes, TxnKnows, AtMostOnce, Next
  PROVE  AtMostOnce'
  <1>1. CASE UNCHANGED installs
    BY <1>1 DEF AtMostOnce
  <1>2. ASSUME NEW a \in Slots, TxnTarget(a) PROVE AtMostOnce'
    <2>1. installs[Key(a)] = 0
      BY <1>2 DEF TxnKnows, TxnTarget
    <2> QED BY <1>2, <2>1, WorldGives DEF AtMostOnce, TxnTarget, GitTypes
  <1> QED BY <1>1, <1>2, GitStep DEF GitMoves, TxnMarker, ForceMove

\* A marker is written for what the target contains or what its own transaction
\* installed, and the target only ever gains the merge commit just installed.
LEMMA RefsAreTrueStep ==
  ASSUME GitTypes, TxnKnows, RefsAreTrue, Next
  PROVE  RefsAreTrue'
  <1> USE DEF GitTypes
  <1>1. SUFFICES ASSUME NEW k \in Keys, k \in marker' \/ Integrated(k)' PROVE Installed(k)'
    BY DEF RefsAreTrue
  <1>2. k \in marker \/ Integrated(k) => Installed(k)'
    BY InstallsGrow DEF RefsAreTrue
  <1>3. CASE UNCHANGED <<target, marker>>
    BY <1>1, <1>2, <1>3, WorldStays DEF Integrated
  <1>4. ASSUME NEW j \in Keys, Integrated(j), UNCHANGED target, marker' = marker \cup {j}
        PROVE  Installed(k)'
    BY <1>1, <1>2, <1>4, WorldStays DEF Integrated
  <1>5. ASSUME NEW a \in Slots, TxnTarget(a) PROVE Installed(k)'
    <2>1. CASE k \in marker
      BY <1>2, <2>1
    <2>2. CASE k \notin marker
      <3>1. CommitOf[k] \in Contains[CommitOf[Key(a)]]
        BY <1>1, <1>5, <2>2, WorldStays DEF TxnTarget, Integrated
      <3>2. target = BaseOf[Key(a)]
        BY <1>5 DEF TxnKnows, TxnTarget
      <3>3. CommitOf[k] \in Contains[target] \/ CommitOf[k] = CommitOf[Key(a)]
        BY <3>1, <3>2, WorldGives
      <3>4. installs'[Key(a)] > 0
        BY <1>5, WorldGives DEF TxnTarget
      <3>5. CommitOf[k] = CommitOf[Key(a)] => Installed(k)'
        BY <3>4, WorldStays, WorldGives
      <3> QED BY <1>2, <3>3, <3>5 DEF Integrated
    <2> QED BY <2>1, <2>2
  <1>6. ASSUME NEW a \in Slots, TxnMarker(a) PROVE Installed(k)'
    <2>1. installs[Key(a)] > 0 /\ installs' = installs
      BY <1>6 DEF TxnMarker, TxnKnows
    <2>2. k = Key(a) => Installed(k)'
      BY <2>1, WorldStays, WorldGives
    <2>3. k \in marker \/ Integrated(k) \/ k = Key(a)
      BY <1>1, <1>6, WorldStays DEF TxnMarker, Integrated
    <2> QED BY <1>2, <2>2, <2>3
  <1>7. CASE ForceMove
    BY <1>1, <1>2, <1>7, WorldStays, WorldGives DEF ForceMove, Integrated
  <1> QED BY <1>3, <1>4, <1>5, <1>6, <1>7, GitStep DEF GitMoves

\* A receipt is called committed only on grounds that mean the merge was installed.
LEMMA OutcomesAreTrueStep ==
  ASSUME TypeOK, SimulatedNeverInstalls, InstallsAreProven, TxnKnows, RefsAreTrue, OutcomesAreTrue, Next
  PROVE  OutcomesAreTrue'
  <1> USE DEF TypeOK
  <1>1. OutcomeMoves /\ \A k \in Keys : Installed(k) => Installed(k)'
    BY OutcomeStep, InstallsGrow
  <1>2. ASSUME NEW a \in Slots, out'[a].status = "committed" PROVE Installed(Key(a))
    <2>1. CASE out'[a] = out[a]
      BY <1>2, <2>1 DEF OutcomesAreTrue
    <2>2. CASE Grounds(a, out'[a])
      BY <1>2, <2>2, WorldGives DEF Grounds, NoReceipt, Plain, RejectedAt, RefsAreTrue, TxnKnows,
         OutcomesAreTrue, GitTypes
    <2> QED BY <1>1, <2>1, <2>2 DEF OutcomeMoves
  <1>3. ASSUME NEW k \in Keys, receipt'[k].status = "committed" PROVE Installed(k)
    BY <1>1, <1>3, WorldGives DEF OutcomeMoves, OutcomesAreTrue, GitTypes, JournalTypes
  <1> QED BY <1>1, <1>2, <1>3, WorldStays, WorldGives DEF OutcomesAreTrue, GitTypes

\* A simulation and its key stay apart from the refs.
LEMMA SimulatedStaysStep ==
  ASSUME TypeOK, SimulatedNeverInstalls, InstallsAreProven, SimulatedStays, Next
  PROVE  SimulatedStays'
  <1> USE DEF TypeOK
  <1>1. OutcomeMoves
    BY OutcomeStep
  <1>2. ASSUME NEW k \in Simulated PROVE installs'[k] = 0
    <2>1. \A a \in Slots : TxnTarget(a) => Key(a) # k
      BY DEF TxnTarget, SimulatedNeverInstalls
    <2>2. \A a \in Slots : TxnTarget(a) => installs'[k] = installs[k]
      BY <2>1, WorldGives DEF TxnTarget, GitTypes
    <2> QED BY <2>2, GitStep DEF GitMoves, TxnMarker, ForceMove, SimulatedStays
  <1>3. ASSUME NEW a \in Slots, out'[a].status = "simulated" PROVE Key(a) \in Simulated
    <2>1. CASE out'[a] = out[a]
      BY <1>3, <2>1 DEF SimulatedStays
    <2>2. CASE Grounds(a, out'[a])
      BY <1>3, <2>2, WorldGives DEF Grounds, NoReceipt, Plain, RejectedAt, SimulatedStays, GitTypes
    <2> QED BY <1>1, <2>1, <2>2 DEF OutcomeMoves
  <1>4. ASSUME NEW k \in Keys, receipt'[k].status = "simulated" PROVE k \in Simulated
    BY <1>1, <1>4, WorldGives DEF OutcomeMoves, SimulatedStays, GitTypes, JournalTypes
  <1>5. ASSUME NEW a \in Slots, out'[a].status = "committed" PROVE Key(a) \notin Simulated
    <2>1. CASE out'[a] = out[a]
      BY <1>5, <2>1 DEF SimulatedStays
    <2>2. CASE Grounds(a, out'[a])
      BY <1>5, <2>2, WorldGives DEF Grounds, NoReceipt, Plain, RejectedAt, SimulatedStays, GitTypes
    <2> QED BY <1>1, <2>1, <2>2 DEF OutcomeMoves
  <1>6. ASSUME NEW k \in Keys, receipt'[k].status = "committed" PROVE k \notin Simulated
    BY <1>1, <1>6, WorldGives DEF OutcomeMoves, SimulatedStays, GitTypes, JournalTypes
  <1> QED BY <1>2, <1>3, <1>4, <1>5, <1>6, WorldStays DEF SimulatedStays

-----------------------------------------------------------------------------
(* Theorems.                                                               *)

\* Nothing is installed, marked or receipted at first.
LEMMA InitInv == Init => Inv
  <1> SUFFICES ASSUME Init PROVE Inv
    OBVIOUS
  <1>1. world \in Worlds
    BY DEF Init
  <1>2. TypeOK
    BY <1>1, CommitAssumption, ReceiptsTyped DEF Init, TypeOK, GitTypes, JournalTypes, AttemptTypes, Labels, NoReceipt
  <1>3. SimulatedNeverInstalls /\ LocksExclude /\ TxnKnows
    BY <1>1, WorldGives DEF Init, SimulatedNeverInstalls, LocksExclude, TxnKnows
  <1>7. ProofsAreOld /\ InstallsAreProven
    BY <1>1, NoneAssumption, WorldGives DEF Init, ProofsAreOld, InstallsAreProven, Installing
  <1>4. InstalledIsMarked /\ AtMostOnce
    BY DEF Init, InstalledIsMarked, AtMostOnce
  <1>5. RefsAreTrue
    BY <1>1, WorldGives DEF Init, RefsAreTrue, Integrated
  <1>6. OutcomesAreTrue /\ SimulatedStays
    BY <1>1, WorldGives DEF Init, OutcomesAreTrue, SimulatedStays, NoReceipt, Plain
  <1> QED BY <1>2, <1>3, <1>4, <1>5, <1>6, <1>7 DEF Inv

\* Every step keeps all of it.
LEMMA StepInv == Inv /\ [Next]_vars => Inv'
  <1> SUFFICES ASSUME Inv, [Next]_vars PROVE Inv'
    OBVIOUS
  <1>1. CASE Next
    <2>1. TypeOK'
      BY <1>1, GitTypesStep, JournalTypesStep, AttemptTypesStep DEF Inv, TypeOK
    <2>2. SimulatedNeverInstalls' /\ LocksExclude' /\ TxnKnows'
      BY <1>1, SimulatedStep, LocksExcludeStep, TxnKnowsStep DEF Inv, TypeOK
    <2>3. InstalledIsMarked' /\ AtMostOnce' /\ RefsAreTrue'
      BY <1>1, InstalledIsMarkedStep, AtMostOnceStep, RefsAreTrueStep DEF Inv, TypeOK
    <2>4. OutcomesAreTrue' /\ SimulatedStays'
      BY <1>1, OutcomesAreTrueStep, SimulatedStaysStep DEF Inv, TypeOK
    <2>5. ProofsAreOld' /\ InstallsAreProven'
      BY <1>1, ProofsAreOldStep, InstallsAreProvenStep DEF Inv
    <2> QED BY <2>1, <2>2, <2>3, <2>4, <2>5 DEF Inv
  <1>2. CASE UNCHANGED vars
    <2>1. TypeOK'
      BY <1>2 DEF Inv, TypeOK, GitTypes, JournalTypes, AttemptTypes, vars, journal, git
    <2>2. SimulatedNeverInstalls' /\ LocksExclude' /\ TxnKnows'
      BY <1>2, WorldStays DEF Inv, SimulatedNeverInstalls, LocksExclude, TxnKnows, vars, git
    <2>3. InstalledIsMarked' /\ AtMostOnce'
      BY <1>2, WorldStays DEF Inv, InstalledIsMarked, AtMostOnce, vars, git
    <2>4. RefsAreTrue' /\ OutcomesAreTrue' /\ SimulatedStays'
      BY <1>2, WorldStays DEF Inv, RefsAreTrue, Installed, Integrated, OutcomesAreTrue,
         SimulatedStays, vars, journal, git
    <2>5. ProofsAreOld' /\ InstallsAreProven'
      BY <1>2, WorldStays DEF Inv, ProofsAreOld, InstallsAreProven, ProofHolds, vars, journal, git
    <2> QED BY <2>1, <2>2, <2>3, <2>4, <2>5 DEF Inv
  <1> QED BY <1>1, <1>2

\* The strengthening that carries the two theorems below: types, exclusive ref locks, what a
\* transaction knows while it holds them, and receipts that were earned (authority.install,
\* Walker._effect_boundary).
THEOREM Invariance == Spec => []Inv
  BY InitInv, StepInv, PTL DEF Spec

\* Variables keep their types: every attempt is at a label of the boundary, a durable receipt
\* is one of the four statuses, at most two tries of install.
THEOREM TypeCorrect == Spec => []TypeOK
  <1>1. Inv => TypeOK
    BY DEF Inv
  <1> QED BY <1>1, Invariance, PTL

\* One key moves the protected ref at most once, and every committed receipt and every marker
\* stands for a merge commit that a transaction of authority.install moved into place, for any
\* number of attempts, zombies and reproductions, with crashes and forced refs in between.
THEOREM MergesInstalledOnce == Spec => []InstalledOnce
  <1>1. Inv => InstalledOnce
    BY DEF Inv, InstalledOnce, AtMostOnce, RefsAreTrue, OutcomesAreTrue, Installed
  <1> QED BY <1>1, Invariance, PTL

-----------------------------------------------------------------------------
(* The effect law.                                                         *)

\* What a governed step does to the target: nothing, or it moves it from the base of a key to
\* its merge commit, which the target did not contain.
LEMMA GovernedStep ==
  ASSUME Inv, Next, Governed
  PROVE  \/ UNCHANGED <<target, installs, seen>>
         \/ \E a \in Slots : TxnTarget(a)
  BY GitStep DEF Inv, TypeOK, GitTypes, GitMoves, TxnMarker, ForceMove, Governed

LEMMA TargetAdvances ==
  ASSUME Inv, Next, NEW a \in Slots, TxnTarget(a)
  PROVE  /\ Key(a) \in Keys /\ target = BaseOf[Key(a)] /\ target' = CommitOf[Key(a)]
         /\ target' \notin Contains[target]
         /\ Contains[target'] = Contains[target] \cup {target'}
         /\ target \in Contains[target]
  BY WorldGives DEF Inv, TypeOK, GitTypes, TxnTarget, TxnKnows

\* What was overtaken stays so.
LEMMA OvertakenStays ==
  ASSUME Inv, Next, Governed, NEW k \in Keys, Overtaken(k)
  PROVE  Overtaken(k)'
  <1>1. CASE UNCHANGED target
    BY <1>1, WorldStays DEF Overtaken
  <1>2. ASSUME NEW a \in Slots, TxnTarget(a) PROVE Overtaken(k)'
    <2>1. /\ Key(a) \in Keys /\ target = BaseOf[Key(a)] /\ target' = CommitOf[Key(a)]
          /\ target' \notin Contains[target]
          /\ Contains[target'] = Contains[target] \cup {target'}
      BY <1>2, TargetAdvances
    <2>2. target' # BaseOf[k]
      BY <2>1 DEF Overtaken
    <2>3. target' # CommitOf[k]
      BY <2>1, WorldGives DEF Overtaken, Inv, TypeOK, GitTypes
    <2> QED BY <2>1, <2>2, <2>3, WorldStays DEF Overtaken
  <1> QED BY <1>1, <1>2, GovernedStep

\* The target moves forward and refusals last, step by step.
LEMMA LawInvStep ==
  ASSUME Inv, LawInv, Next
  PROVE  LawInv'
  <1> SUFFICES ASSUME Governed PROVE LawInv'
    BY WorldStays DEF LawInv
  <1> USE DEF Inv, TypeOK
  <1>1. OutcomeMoves
    BY OutcomeStep
  <1>2. seen' \subseteq Contains'[target']
    <2>1. CASE UNCHANGED <<target, installs, seen>>
      BY <2>1, WorldStays DEF LawInv
    <2>2. ASSUME NEW a \in Slots, TxnTarget(a) PROVE seen' \subseteq Contains'[target']
      BY <2>2, TargetAdvances, SeenGrows, WorldStays DEF LawInv
    <2> QED BY <2>1, <2>2, GovernedStep
  <1>3. ASSUME NEW k \in Keys, installs'[k] > 0 PROVE Integrated(k)'
    <2>1. CASE UNCHANGED <<target, installs, seen>>
      BY <1>3, <2>1, WorldStays DEF LawInv, Integrated
    <2>2. ASSUME NEW a \in Slots, TxnTarget(a) PROVE Integrated(k)'
      <3>1. k = Key(a) \/ installs[k] > 0
        BY <1>3, <2>2, TargetAdvances DEF TxnTarget, GitTypes
      <3> QED BY <2>2, <3>1, TargetAdvances, WorldStays DEF LawInv, Integrated
    <2> QED BY <2>1, <2>2, GovernedStep
  <1>4. ASSUME NEW a \in Slots, out'[a].status = "rejected" PROVE Overtaken(Key(a))
    <2>1. CASE out'[a] = out[a]
      BY <1>4, <2>1 DEF LawInv
    <2>2. CASE Grounds(a, out'[a])
      <3>1. CASE out'[a] = receipt[Key(a)]
        BY <1>4, <3>1, WorldGives DEF LawInv, GitTypes
      <3>2. CASE GenuineMove(Key(a)) /\ ProofHolds(a)
        <4>1. BaseOf[Key(a)] \in seen
          BY <3>2, WorldGives DEF ProofHolds, ProofsAreOld, GitTypes
        <4> QED BY <3>2, <4>1 DEF LawInv, Overtaken, GenuineMove
      <3> QED BY <1>4, <2>2, <3>1, <3>2 DEF Grounds, NoReceipt, Plain
    <2> QED BY <1>1, <2>1, <2>2 DEF OutcomeMoves
  <1>5. ASSUME NEW k \in Keys, receipt'[k].status = "rejected" PROVE Overtaken(k)
    BY <1>1, <1>5, WorldGives DEF OutcomeMoves, LawInv, GitTypes, JournalTypes
  <1> QED BY <1>2, <1>3, <1>4, <1>5, OvertakenStays, WorldStays, WorldGives DEF LawInv, GitTypes

\* Where nobody forces the protected ref, the target only moves forward and a rejection stands
\* for a target that moved past the merge's base for good, so no transaction of
\* authority.install can still install what was rejected.
THEOREM LawInvariance == Spec => []LawInv
  <1>1. Init => LawInv
    BY WorldGives, CommitAssumption DEF Init, LawInv, NoReceipt, Plain
  <1>2. Inv /\ LawInv /\ [Next]_vars => LawInv'
    <2> SUFFICES ASSUME Inv, LawInv, [Next]_vars PROVE LawInv'
      OBVIOUS
    <2>1. CASE UNCHANGED vars
      BY <2>1, WorldStays DEF LawInv, Overtaken, Integrated, vars, journal, git
    <2> QED BY <2>1, LawInvStep
  <1> QED BY <1>1, <1>2, Invariance, PTL DEF Spec

\* The variables of the law, as the mapping of Law reads them.
happenedBar == {k \in Keys : Governed /\ Happened(k)}
latestBar == {k \in Keys : Governed /\ Happened(k) /\ target = CommitOf[k]}
verdictBar == [k \in Keys |-> IF Governed THEN receipt[k].status ELSE "none"]

\* The keys whose transition the rename of a's transaction is.
Shares(a) == {k \in Keys \ Simulated : CommitOf[k] = CommitOf[Key(a)]}

\* The rename of the target is the external transition of the keys that asked for it.
LEMMA TargetHappens ==
  ASSUME Inv, LawInv, Next, Governed, NEW a \in Slots, TxnTarget(a)
  PROVE  Law!Next
  <1> USE DEF Inv, TypeOK
  <1>1. /\ Key(a) \in Keys /\ target = BaseOf[Key(a)] /\ target' = CommitOf[Key(a)]
        /\ target' \notin Contains[target]
    BY TargetAdvances
  <1>2. UNCHANGED receipt /\ Governed'
    BY WorldStays DEF TxnTarget, journal
  <1>3. \A k \in Keys : CommitOf[k] = CommitOf[Key(a)] => BaseOf[k] = target /\ ~Installed(k)
    <2>1. \A k \in Keys : installs[k] > 0 => CommitOf[k] \in Contains[target]
      BY DEF LawInv, Integrated
    <2> QED BY <1>1, <2>1, WorldGives DEF Installed, GitTypes
  <1>4. \A k \in Shares(a) : receipt[k].status = "none"
    <2> SUFFICES ASSUME NEW k \in Shares(a) PROVE receipt[k].status = "none"
      OBVIOUS
    <2>1. receipt[k].status \in {"none", "committed", "rejected", "simulated"}
      BY DEF JournalTypes, Receipts, Shares
    <2>2. receipt[k].status # "committed"
      BY <1>3 DEF OutcomesAreTrue, Shares
    <2>3. receipt[k].status # "rejected"
      BY <1>3 DEF LawInv, Overtaken, Shares
    <2>4. receipt[k].status # "simulated"
      BY DEF SimulatedStays, Shares
    <2> QED BY <2>1, <2>2, <2>3, <2>4
  <1>5. Key(a) \notin Simulated
    BY DEF TxnTarget, SimulatedNeverInstalls
  <1>6. \A k \in Keys : installs'[k] > 0 <=> (k = Key(a) \/ installs[k] > 0)
    BY <1>1 DEF TxnTarget, GitTypes
  <1>7. \A k \in Keys : Installed(k)' <=> (Installed(k) \/ CommitOf[k] = CommitOf[Key(a)])
    BY <1>1, <1>6, WorldStays DEF Installed
  <1>8. \A k \in Keys : Happened(k)' <=> (Happened(k) \/ k \in Shares(a))
    BY <1>5, <1>6, <1>7, WorldStays DEF Happened, Shares
  <1>9. \A k \in Shares(a) : ~Happened(k)
    BY <1>3 DEF Happened, Shares
  <1>10. \A k \in Keys : Happened(k) /\ CommitOf[k] = target' => FALSE
    BY <1>1, <1>3 DEF Happened, SimulatedStays
  <1>11. happenedBar' = happenedBar \cup Shares(a)
    BY <1>2, <1>8 DEF happenedBar, Shares
  <1>12. latestBar' = Shares(a)
    BY <1>1, <1>2, <1>8, <1>10 DEF latestBar, Shares
  <1>13. verdictBar' = verdictBar
    BY <1>2 DEF verdictBar
  <1>14. Shares(a) \cap happenedBar = {} /\ \A k \in Shares(a) : verdictBar[k] = "none"
    BY <1>4, <1>9 DEF happenedBar, verdictBar, Shares
  <1>15. Shares(a) \in SUBSET Keys
    BY DEF Shares
  <1> HIDE DEF Shares
  <1> QED BY <1>11, <1>12, <1>13, <1>14, <1>15
          DEF Law!Next, Law!Happen, happenedBar, latestBar, verdictBar

\* A recorded outcome tells the truth about it.
LEMMA RecordTells ==
  ASSUME Inv, LawInv, Next, Governed, UNCHANGED <<installs, target>>, NEW a \in Slots,
         receipt[Key(a)] = NoReceipt, receipt' = [receipt EXCEPT ![Key(a)] = out[a]]
  PROVE  [Law!Next]_Law!lawVars
  <1> USE DEF Inv, TypeOK
  <1>1. Key(a) \in Keys /\ out[a].status \in {"none", "committed", "rejected", "simulated"}
    BY WorldGives DEF GitTypes, AttemptTypes, Receipts
  <1>2. happenedBar' = happenedBar /\ latestBar' = latestBar
    BY WorldStays DEF happenedBar, latestBar, Happened, Installed
  <1>3. verdictBar[Key(a)] = "none"
    BY <1>1 DEF verdictBar, NoReceipt, Plain
  <1>4. verdictBar' = [verdictBar EXCEPT ![Key(a)] = out[a].status]
    BY <1>1, WorldStays DEF verdictBar, JournalTypes
  <1>5. CASE out[a].status = "none"
    <2>1. verdictBar' = verdictBar
      BY <1>1, <1>3, <1>4, <1>5 DEF verdictBar
    <2> QED BY <1>2, <2>1 DEF Law!lawVars, happenedBar, latestBar, verdictBar
  <1>6. CASE out[a].status = "committed"
    <2>1. Key(a) \in happenedBar
      BY <1>1, <1>6 DEF OutcomesAreTrue, SimulatedStays, Happened, happenedBar
    <2> QED BY <1>1, <1>2, <1>3, <1>4, <1>6, <2>1
            DEF Law!Next, Law!Commit, Law!Receipted, happenedBar, latestBar, verdictBar
  <1>7. CASE out[a].status = "rejected"
    <2>1. Key(a) \notin latestBar
      BY <1>1, <1>7 DEF LawInv, Overtaken, latestBar
    <2> QED BY <1>1, <1>2, <1>3, <1>4, <1>7, <2>1
            DEF Law!Next, Law!Reject, Law!Receipted, happenedBar, latestBar, verdictBar
  <1>8. CASE out[a].status = "simulated"
    <2>1. Key(a) \notin happenedBar
      BY <1>1, <1>8 DEF SimulatedStays, Happened, happenedBar
    <2> QED BY <1>1, <1>2, <1>3, <1>4, <1>8, <2>1
            DEF Law!Next, Law!Simulate, Law!Receipted, happenedBar, latestBar, verdictBar
  <1> QED BY <1>1, <1>5, <1>6, <1>7, <1>8

\* The boundary over git (look up, prepare, reconcile, install, record, with crashes, zombies,
\* reproductions and merges prepared on each other's merge commits) implements the effect law:
\* at most one external transition per key, a committed receipt only for a merge that happened,
\* a rejected one only for a merge that is not at the tip, nothing after a rejection or a
\* simulation.  Where an operator forces the protected ref (Governed is false) it says nothing.
THEOREM BoundaryImplementsLaw == Spec => ImplementsEffectLaw
  <1>1. Init => Law!Init
    BY DEF Init, Law!Init, NoReceipt, Plain, Happened, Installed
  <1>2. Inv /\ LawInv /\ [Next]_vars => [Law!Next]_Law!lawVars
    <2> SUFFICES ASSUME Inv, LawInv, [Next]_vars PROVE [Law!Next]_Law!lawVars
      OBVIOUS
    <2>1. CASE UNCHANGED <<installs, target, receipt, world>>
      <3>1. happenedBar' = happenedBar /\ latestBar' = latestBar /\ verdictBar' = verdictBar
        BY <2>1 DEF happenedBar, latestBar, verdictBar, Governed, Happened, Installed, Simulated
      <3> QED BY <3>1 DEF Law!lawVars, happenedBar, latestBar, verdictBar
    <2>2. CASE Next /\ ~Governed
      <3>1. happenedBar' = happenedBar /\ latestBar' = latestBar /\ verdictBar' = verdictBar
        BY <2>2, WorldStays DEF happenedBar, latestBar, verdictBar
      <3> QED BY <3>1 DEF Law!lawVars, happenedBar, latestBar, verdictBar
    <2>3. CASE Next /\ Governed
      <3>1. OutcomeMoves /\ UNCHANGED world
        BY <2>3, OutcomeStep DEF Inv, TypeOK, Next
      <3>2. ASSUME NEW a \in Slots, TxnTarget(a) PROVE Law!Next
        BY <2>3, <3>2, TargetHappens
      <3>3. UNCHANGED <<installs, target>> \/ \E a \in Slots : TxnTarget(a)
        BY <2>3, GovernedStep
      <3>4. CASE UNCHANGED <<installs, target>>
        BY <2>1, <2>3, <3>1, <3>4, RecordTells DEF OutcomeMoves
      <3> QED BY <3>2, <3>3, <3>4
    <2>4. CASE UNCHANGED vars
      BY <2>1, <2>4 DEF vars, journal, git
    <2> QED BY <2>2, <2>3, <2>4
  <1> QED BY <1>1, <1>2, Invariance, LawInvariance, PTL DEF Spec, ImplementsEffectLaw, Law!Spec

=============================================================================
