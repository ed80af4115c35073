------------------------ MODULE OperatorHandleProofs ------------------------
(***************************************************************************)
(* Proofs about OperatorHandle, for any acquisitions, any number of        *)
(* generations and exposures, and any number of failures.                  *)
(*                                                                         *)
(* The argument has four parts, each an invariant of its own.  Fits: what  *)
(* an acquisition's guard, supervisor and closure have to do with how far  *)
(* its handle is.  LockFits: the retained lock belongs to the helpers and  *)
(* their lane or to one handle and its supervisor, never to both.          *)
(* StoreFits: whatever active.json says, and whatever a loss of power      *)
(* would leave of it, lets nobody select a generation that is older than   *)
(* the last exposure.  RecordFits: one authorization, one attempt.         *)
(*                                                                         *)
(* The last section is about the egress relay through which the process of *)
(* such a handle reaches the network: no connection has more to send than  *)
(* the chunk it was last admitted for (ChunkFits), and no connection       *)
(* outlives its relay (RelayFits).                                         *)
(***************************************************************************)
EXTENDS OperatorHandle, FiniteSetTheorems, TLAPS

\* The stages of a handle that has its guard, and of one that also has the lock.
Locked == {"locked", "ready", "spawned", "granted", "refused", "intended", "sent", "stopping", "ended"}
Guarded == Locked \cup {"guarded", "candidate"}
Early == {"new", "acquired", "guarded", "candidate", "locked", "ready"}
Stages == Guarded \cup {"new", "acquired", "failed", "released", "gone"}

\* A supervisor that has children to reap, or may still get one.
Live == {"setup", "running", "asking", "terminating"}

Identities == Nat \X Nat
Selections == [kind : {"none", "selected", "withdrawn"}, generation : Nat]

StoreTypeOK ==
    /\ boot \in Nat /\ store \in Nat /\ exposed \in Nat
    /\ descriptors \in Seq(Identities) /\ issued \in Seq(Nat) /\ Len(issued) = Len(descriptors)
    /\ active \in Selections /\ durable \in Selections
    /\ helper \in [job : {"none", "publish", "maintain", "activate"},
                   at : {"idle", "held", "anchored", "replaced", "withdrawn", "exposing", "waiting"},
                   generation : Nat]
    /\ lane \in {"none", "started", "proved", "refused", "used"}

HandleTypeOK ==
    /\ handle \in [Handles -> [at : Stages, sealed : [generation : Nat, live : Identities], closing : BOOLEAN]]
    /\ guard \in [Handles -> SUBSET {"handle", "supervisor"}]
    /\ pipe \in [Handles -> {"none", "open", "granted", "closed"}]
    /\ supervisor \in [Handles -> {"none", "exited"} \cup Live]
    /\ payload \in [Handles -> {"none", "alive", "termed", "dead"}]
    /\ closed \subseteq Handles /\ disposed \subseteq Handles /\ sent \subseteq Handles /\ answered \subseteq Handles

\* What an acquisition's guard and closure say about its handle and its processes.
Fits(h) ==
    /\ handle[h].at \in Guarded => "handle" \in guard[h]
    /\ supervisor[h] \in Live => "supervisor" \in guard[h]
    /\ payload[h] \in {"alive", "termed"} => supervisor[h] \in {"running", "asking", "terminating"}
    /\ handle[h].at \in Early => supervisor[h] = "none" /\ payload[h] = "none"
    /\ h \in closed => handle[h].at # "new"
    /\ h \in disposed =>
        /\ h \in closed /\ supervisor[h] \notin Live
        /\ handle[h].at \in {"acquired", "guarded", "failed", "released", "gone"}

HelperLock == Copy("helper", "store")
LaneLock == Copy("lane", "store")

\* The lock has one owner, and everyone who relies on it has a copy.
LockFits ==
    /\ helper # Idle => HelperLock \in lock
    /\ lane # "none" => LaneLock \in lock
    /\ \A h \in Handles :
        /\ handle[h].at \in Locked => Copy("handle", h) \in lock
        /\ supervisor[h] \in Live => Copy("supervisor", h) \in lock
    /\ \/ lock \subseteq {HelperLock, LaneLock}
       \/ \E h \in Handles : lock \subseteq {Copy("handle", h), Copy("supervisor", h)}

\* No generation that x selects, or lets an activation select, is older than the last exposure.
Current(x) ==
    /\ x.kind = "selected" => x.generation \in 1 .. Len(issued) /\ issued[x.generation] = exposed
    /\ x.kind = "withdrawn" => \A g \in 1 .. Len(issued) : g > x.generation => issued[g] = exposed

StoreFits ==
    /\ Current(active) /\ Current(durable)
    /\ helper.job = "maintain" /\ helper.at \in {"replaced", "withdrawn", "exposing"} => active = Withdraws(Highest)
    /\ helper.job = "maintain" /\ helper.at \in {"withdrawn", "exposing"} => durable = Withdraws(Highest)

\* What a supervisor was spawned for still holds while it lives.
Licensed ==
    \A h \in Handles : supervisor[h] \in Live =>
        /\ handle[h].sealed.generation \in 1 .. Len(issued)
        /\ issued[handle[h].sealed.generation] = exposed
        /\ handle[h].sealed.live = identity

\* One authorised acquisition takes the attempt; its record runs ahead of its turn.
RecordFits ==
    /\ \A h, k \in Authorised : handle[h].at # "new" /\ handle[k].at # "new" => h = k
    /\ \A h \in Authorised : handle[h].at # "new" => record # "absent"
    /\ \A h \in Authorised : handle[h].at = "intended" => record = "intent"
    /\ \A h \in sent : handle[h].at # "new"
    /\ \A h \in sent \cap Authorised : record \in {"intent", "possibly dispatched", "completed"}
    /\ record = "completed" => answered \cap Authorised # {}

Inv ==
    /\ StoreTypeOK /\ HandleTypeOK
    /\ \A h \in Handles : Fits(h)
    /\ LockFits /\ StoreFits /\ Licensed /\ RecordFits

\* Who has a copy of the lock shuts the others out: with the lock free, or in the hands of a
\* helper or a lane, no handle is under custody and no supervisor lives.
LEMMA StoreAlone ==
    ASSUME LockFits, lock = {} \/ HelperLock \in lock \/ LaneLock \in lock
    PROVE  \A h \in Handles : handle[h].at \notin Locked /\ supervisor[h] \notin Live
  BY DEF LockFits, HelperLock, LaneLock, Copy

\* A handle or a supervisor that has a copy is alone with its partner.
LEMMA HandleAlone ==
    ASSUME LockFits, NEW h \in Handles, Copy("handle", h) \in lock \/ Copy("supervisor", h) \in lock
    PROVE  /\ lock \subseteq {Copy("handle", h), Copy("supervisor", h)}
           /\ helper = Idle /\ lane = "none"
           /\ \A k \in Handles : k # h => handle[k].at \notin Locked /\ supervisor[k] \notin Live
  BY DEF LockFits, HelperLock, LaneLock, Copy

\* Every operation of the store is one of a helper or a lane that has the lock, or one that
\* takes it while it is free.
LEMMA StoreStepIsAlone ==
    ASSUME LockFits, StoreStep \/ HelperKilled \/ StoreRestored
    PROVE  \A h \in Handles : handle[h].at \notin Locked /\ supervisor[h] \notin Live
<1>1. lock = {} \/ helper # Idle \/ lane # "none"
  BY DEF StoreStep, PublishHold, ActivateHold, Hold, PublishAnchor, PublishDescriptor, MaintainHold, MaintainWithdraw,
         MaintainSync, MaintainRepair, MaintainExpose, MaintainClose, ActivateSelect, ActivateSync, LaneProves, LaneUses,
         LaneExits, HelperKilled, StoreRestored, HelperAt, Idle
<1> QED BY <1>1, StoreAlone DEF LockFits

-----------------------------------------------------------------------------
\* The operations of one acquisition.
Local(h) ==
    \/ Acquire(h) \/ HandleStep(h) \/ Answer(h) \/ Close(h)
    \/ SupervisorStep(h) \/ PayloadExits(h) \/ CommitClosure(h) \/ Dispose(h)

\* What the operations of the store leave alone, and what those of an acquisition do.
HandlesStay == UNCHANGED <<handle, guard, processes, facts>>
StoreStays == UNCHANGED storeFacts

\* Every step of an operator handle is one of these; the proofs below treat them one by one.
LEMMA Cases ==
    ASSUME [Next]_vars
    PROVE  \/ (StoreStep \/ HelperKilled \/ StoreRestored) /\ HandlesStay
           \/ \E h \in Handles : Local(h)
           \/ ControllerCrash \/ Reboot \/ UNCHANGED vars
<1>1. CASE StoreTrouble BY <1>1 DEF StoreTrouble, HandlesStay, processes, facts
<1>2. CASE StoreStep /\ UNCHANGED <<handle, guard, processes, facts, world>>
  BY <1>2 DEF HandlesStay
<1> QED BY <1>1, <1>2, Zenon DEF Next, Local

\* The store's own variables are typed in every step of the store.
LEMMA StoreTyped ==
    ASSUME StoreTypeOK, StoreStep \/ HelperKilled \/ StoreRestored
    PROVE  StoreTypeOK'
<1> USE StoreBounds DEF StoreTypeOK, Selections, Highest
<1>1. ASSUME NEW g \in 1 .. MaxGeneration, PublishHold(g) PROVE StoreTypeOK'
  BY <1>1 DEF PublishHold, Hold, HelperAt, HelperMoves, HelperEnds, Idle, Synced, Replaced, Withdraws, Selects, metadata, offline
<1>2. ASSUME NEW g \in 1 .. MaxGeneration, ActivateHold(g) PROVE StoreTypeOK'
  BY <1>2 DEF ActivateHold, Hold, HelperAt, HelperMoves, HelperEnds, Idle, Synced, Replaced, Withdraws, Selects, metadata, offline
<1>3. CASE PublishAnchor
  BY <1>3 DEF PublishAnchor, Hold, HelperAt, HelperMoves, HelperEnds, Idle, Synced, Replaced, Withdraws, Selects, metadata, offline
<1>4. CASE PublishDescriptor
  <2>1. identity \in Identities BY DEF identity, Identities
  <2>3. \/ descriptors' = Append(descriptors, identity) /\ issued' = Append(issued, exposed)
        \/ descriptors' = descriptors /\ issued' = issued
    BY <1>4 DEF PublishDescriptor
  <2>4. descriptors' \in Seq(Identities) /\ issued' \in Seq(Nat) /\ Len(issued') = Len(descriptors')
    <3>1. CASE descriptors' = Append(descriptors, identity) /\ issued' = Append(issued, exposed)
      BY <2>1, <3>1
    <3> QED BY <2>3, <3>1
  <2>2. helper' = Idle BY <1>4 DEF PublishDescriptor, HelperEnds
  <2> QED BY <1>4, <2>4, <2>2 DEF PublishDescriptor, Idle
<1>5. CASE MaintainHold
  BY <1>5 DEF MaintainHold, Hold, HelperAt, HelperMoves, HelperEnds, Idle, Synced, Replaced, Withdraws, Selects, metadata, offline
<1>6. CASE MaintainWithdraw
  BY <1>6 DEF MaintainWithdraw, Hold, HelperAt, HelperMoves, HelperEnds, Idle, Synced, Replaced, Withdraws, Selects, metadata, offline
<1>7. CASE MaintainSync
  BY <1>7 DEF MaintainSync, Hold, HelperAt, HelperMoves, HelperEnds, Idle, Synced, Replaced, Withdraws, Selects, metadata, offline
<1>8. CASE MaintainRepair
  BY <1>8 DEF MaintainRepair, Hold, HelperAt, HelperMoves, HelperEnds, Idle, Synced, Replaced, Withdraws, Selects, metadata, offline
<1>9. CASE MaintainExpose
  <2>1. exposed' \in Nat BY <1>9 DEF MaintainExpose
  <2>2. helper' = [helper EXCEPT !.at = "waiting"] BY <1>9 DEF MaintainExpose, HelperMoves
  <2> QED BY <1>9, <2>1, <2>2 DEF MaintainExpose, metadata
<1>10. CASE MaintainClose
  BY <1>10 DEF MaintainClose, Hold, HelperAt, HelperMoves, HelperEnds, Idle, Synced, Replaced, Withdraws, Selects, metadata, offline
<1>11. CASE ActivateSelect
  BY <1>11 DEF ActivateSelect, Hold, HelperAt, HelperMoves, HelperEnds, Idle, Synced, Replaced, Withdraws, Selects, metadata, offline
<1>12. CASE ActivateSync
  BY <1>12 DEF ActivateSync, Hold, HelperAt, HelperMoves, HelperEnds, Idle, Synced, Replaced, Withdraws, Selects, metadata, offline
<1>13. CASE LaneProves
  BY <1>13 DEF LaneProves, Hold, HelperAt, HelperMoves, HelperEnds, Idle, Synced, Replaced, Withdraws, Selects, metadata, offline
<1>14. CASE LaneUses
  BY <1>14 DEF LaneUses, Hold, HelperAt, HelperMoves, HelperEnds, Idle, Synced, Replaced, Withdraws, Selects, metadata, offline
<1>15. CASE LaneExits
  BY <1>15 DEF LaneExits, Hold, HelperAt, HelperMoves, HelperEnds, Idle, Synced, Replaced, Withdraws, Selects, metadata, offline
<1>16. CASE HelperKilled
  BY <1>16 DEF HelperKilled, HelperEnds, Idle, metadata
<1>17. CASE StoreRestored
  BY <1>17 DEF StoreRestored, metadata, offline
<1> QED BY <1>1, <1>2, <1>3, <1>4, <1>5, <1>6, <1>7, <1>8, <1>9, <1>10, <1>11, <1>12, <1>13, <1>14, <1>15, <1>16, <1>17, Zenon DEF StoreStep

\* What the operations of an acquisition can do to the others: nothing.
LEMMA Frame ==
    ASSUME StoreTypeOK, HandleTypeOK, NEW h \in Handles, Local(h)
    PROVE  /\ StoreStays /\ HandleTypeOK'
           /\ \A k \in Handles : k # h =>
                /\ handle'[k] = handle[k] /\ guard'[k] = guard[k] /\ pipe'[k] = pipe[k]
                /\ supervisor'[k] = supervisor[k] /\ payload'[k] = payload[k]
                /\ k \in closed' <=> k \in closed
                /\ k \in disposed' <=> k \in disposed
                /\ k \in sent' <=> k \in sent
                /\ k \in answered' <=> k \in answered
<1> DEFINE Goal ==
        /\ StoreStays /\ HandleTypeOK'
        /\ \A k \in Handles : k # h =>
                /\ handle'[k] = handle[k] /\ guard'[k] = guard[k] /\ pipe'[k] = pipe[k]
                /\ supervisor'[k] = supervisor[k] /\ payload'[k] = payload[k]
                /\ k \in closed' <=> k \in closed
                /\ k \in disposed' <=> k \in disposed
                /\ k \in sent' <=> k \in sent
                /\ k \in answered' <=> k \in answered
<1> USE DEF StoreStays, HandleTypeOK, Stages, Guarded, Locked, Live
<1>1. CASE Acquire(h)
  <2>1. PICK s \in [generation : Nat, live : Identities] :
            handle' = [handle EXCEPT ![h] = [at |-> "acquired", sealed |-> s, closing |-> FALSE]]
    <3>1. PICK g \in DOMAIN descriptors :
            handle' = [handle EXCEPT ![h] = [at |-> "acquired", sealed |-> Sealed(g), closing |-> FALSE]]
      BY <1>1 DEF Acquire
    <3>2. g \in Nat /\ descriptors[g] \in Identities BY DEF StoreTypeOK
    <3> QED BY <3>1, <3>2 DEF Sealed
  <2> QED BY <1>1, <2>1 DEF Acquire, processes
<1>2. CASE TakeGuard(h)
  BY <1>2 DEF TakeGuard, Moves, Releases, SupervisorExits, processes, facts
<1>3. CASE OpenCandidate(h)
  <2>1. handle' = [handle EXCEPT ![h].at = "candidate"] \/ handle' = [handle EXCEPT ![h].at = "failed"]
    BY <1>3 DEF OpenCandidate, Moves
  <2>2. PICK x \in {"candidate", "failed"} : handle' = [handle EXCEPT ![h].at = x] BY <2>1
  <2>3. PICK S \in SUBSET {"handle", "supervisor"} : guard' = [guard EXCEPT ![h] = S]
    <3>1. guard' = guard \/ guard' = [guard EXCEPT ![h] = @ \ {"handle"}] BY <1>3 DEF OpenCandidate, Releases
    <3>2. guard = [guard EXCEPT ![h] = guard[h]] OBVIOUS
    <3> QED BY <3>1, <3>2
  <2>4. UNCHANGED <<storeFacts, processes, facts>> BY <1>3 DEF OpenCandidate
  <2> QED BY <2>2, <2>3, <2>4 DEF processes, facts
<1>4. CASE TakeLock(h)
  BY <1>4 DEF TakeLock, Moves, Releases, SupervisorExits, processes, facts
<1>5. CASE StopWaiting(h)
  BY <1>5 DEF StopWaiting, Moves, Releases, SupervisorExits, processes, facts
<1>6. CASE Ready(h)
  <2>1. handle' = [handle EXCEPT ![h].at = "ready"] \/ handle' = [handle EXCEPT ![h].at = "failed"]
    BY <1>6 DEF Ready, Moves
  <2>2. PICK x \in {"ready", "failed"} : handle' = [handle EXCEPT ![h].at = x] BY <2>1
  <2>3. PICK S \in SUBSET {"handle", "supervisor"} : guard' = [guard EXCEPT ![h] = S]
    <3>1. guard' = guard \/ guard' = [guard EXCEPT ![h] = @ \ {"handle"}] BY <1>6 DEF Ready, Releases
    <3>2. guard = [guard EXCEPT ![h] = guard[h]] OBVIOUS
    <3> QED BY <3>1, <3>2
  <2>4. UNCHANGED <<storeFacts, processes, facts>> BY <1>6 DEF Ready
  <2> QED BY <2>2, <2>3, <2>4 DEF processes, facts
<1>7. CASE Spawn(h)
  <2>1. \/ /\ handle' = [handle EXCEPT ![h].at = "spawned"] /\ guard' = [guard EXCEPT ![h] = @ \cup {"supervisor"}]
           /\ supervisor' = [supervisor EXCEPT ![h] = "setup"] /\ pipe' = [pipe EXCEPT ![h] = "open"]
        \/ /\ handle' = [handle EXCEPT ![h].at = "ended"] /\ UNCHANGED <<guard, supervisor, pipe>>
    BY <1>7 DEF Spawn, Moves
  <2>2. UNCHANGED <<storeFacts, payload, facts>> BY <1>7 DEF Spawn
  <2>3. CASE handle' = [handle EXCEPT ![h].at = "ended"] /\ UNCHANGED <<guard, supervisor, pipe>>
    BY <2>2, <2>3 DEF facts
  <2>4. CASE /\ handle' = [handle EXCEPT ![h].at = "spawned"] /\ guard' = [guard EXCEPT ![h] = @ \cup {"supervisor"}]
             /\ supervisor' = [supervisor EXCEPT ![h] = "setup"] /\ pipe' = [pipe EXCEPT ![h] = "open"]
    BY <2>2, <2>4 DEF facts
  <2> QED BY <2>1, <2>3, <2>4
<1>8. CASE Grant(h)
  BY <1>8 DEF Grant, Moves, Releases, SupervisorExits, processes, facts
<1>9. CASE Intend(h)
  <2>1. PICK x \in {"intended", "refused"} : handle' = [handle EXCEPT ![h].at = x]
    BY <1>9 DEF Intend, Moves
  <2> QED BY <1>9, <2>1 DEF Intend, processes
<1>10. CASE Send(h)
  BY <1>10 DEF Send, Moves, Releases, SupervisorExits, processes, facts
<1>11. CASE Stop(h)
  BY <1>11 DEF Stop, Moves, Releases, SupervisorExits, processes, facts
<1>12. CASE Settle(h)
  BY <1>12 DEF Settle, Moves, Releases, SupervisorExits, processes, facts
<1>13. CASE Release(h)
  BY <1>13 DEF Release, Moves, Releases, SupervisorExits, processes, facts
<1>14. CASE Answer(h)
  BY <1>14 DEF Answer, Moves, Releases, SupervisorExits, processes, facts
<1>15. CASE Close(h)
  BY <1>15 DEF Close, Moves, Releases, SupervisorExits, processes, facts
<1>16. CASE SupervisorRefuses(h)
  BY <1>16 DEF SupervisorRefuses, Moves, Releases, SupervisorExits, processes, facts
<1>17. CASE SupervisorStarts(h)
  BY <1>17 DEF SupervisorStarts, Moves, Releases, SupervisorExits, processes, facts
<1>18. CASE SupervisorTerms(h)
  BY <1>18 DEF SupervisorTerms, Moves, Releases, SupervisorExits, processes, facts
<1>18a. CASE NamespaceTerms(h)
  BY <1>18a DEF NamespaceTerms, Moves, Releases, SupervisorExits, processes, facts
<1>19. CASE SupervisorKills(h)
  BY <1>19 DEF SupervisorKills, Moves, Releases, SupervisorExits, processes, facts
<1>20. CASE SupervisorReaps(h)
  BY <1>20 DEF SupervisorReaps, Moves, Releases, SupervisorExits, processes, facts
<1>21. CASE PayloadExits(h)
  BY <1>21 DEF PayloadExits, Moves, Releases, SupervisorExits, processes, facts
<1>22. CASE CommitClosure(h)
  BY <1>22 DEF CommitClosure, Moves, Releases, SupervisorExits, processes, facts
<1>23. CASE Dispose(h)
  BY <1>23 DEF Dispose, Moves, Releases, SupervisorExits, processes, facts
<1> QED BY <1>1, <1>2, <1>3, <1>4, <1>5, <1>6, <1>7, <1>8, <1>9, <1>10, <1>11, <1>12, <1>13, <1>14, <1>15, <1>16, <1>17, <1>18, <1>18a, <1>19, <1>20, <1>21, <1>22, <1>23, Zenon DEF Local, HandleStep, SupervisorStep

\* An acquisition that has been closed and disposed of stays out of work, one that works keeps
\* its guard: every step preserves what its guard and closure say about it.
LEMMA FitsStep ==
    ASSUME StoreTypeOK, HandleTypeOK, \A h \in Handles : Fits(h), [Next]_vars
    PROVE  \A h \in Handles : Fits(h)'
<1>1. ASSUME HandlesStay PROVE \A h \in Handles : Fits(h)'
  BY <1>1 DEF HandlesStay, Fits, processes, facts
<1>2. ASSUME NEW h \in Handles, Local(h) PROVE \A k \in Handles : Fits(k)'
  <2>1. \A k \in Handles : k # h => Fits(k)'
    <3>1. SUFFICES ASSUME NEW k \in Handles, k # h PROVE Fits(k)' OBVIOUS
    <3>2. Fits(k) OBVIOUS
    <3> QED BY <1>2, <3>1, <3>2, Frame DEF Fits
  <2>2. Fits(h)'
    <3>1. Fits(h) /\ HandleTypeOK' BY <1>2, Frame
    <3> USE DEF HandleTypeOK, Fits, Stages, Guarded, Locked, Early, Live
    <3>2. CASE Acquire(h)
      BY <3>2, <3>1 DEF Acquire, Moves, Releases, SupervisorExits, MayGoOn, Quiescent, Reaped, processes, facts
    <3>3. CASE TakeGuard(h)
      BY <3>3, <3>1 DEF TakeGuard, Moves, Releases, SupervisorExits, MayGoOn, Quiescent, Reaped, processes, facts
    <3>4. CASE OpenCandidate(h)
      BY <3>4, <3>1 DEF OpenCandidate, Moves, Releases, SupervisorExits, MayGoOn, Quiescent, Reaped, processes, facts
    <3>5. CASE TakeLock(h)
      BY <3>5, <3>1 DEF TakeLock, Moves, Releases, SupervisorExits, MayGoOn, Quiescent, Reaped, processes, facts
    <3>6. CASE StopWaiting(h)
      BY <3>6, <3>1 DEF StopWaiting, Moves, Releases, SupervisorExits, MayGoOn, Quiescent, Reaped, processes, facts
    <3>7. CASE Ready(h)
      BY <3>7, <3>1 DEF Ready, Moves, Releases, SupervisorExits, MayGoOn, Quiescent, Reaped, processes, facts
    <3>8. CASE Spawn(h)
      BY <3>8, <3>1 DEF Spawn, Moves, Releases, SupervisorExits, MayGoOn, Quiescent, Reaped, processes, facts
    <3>9. CASE Grant(h)
      BY <3>9, <3>1 DEF Grant, Moves, Releases, SupervisorExits, MayGoOn, Quiescent, Reaped, processes, facts
    <3>10. CASE Intend(h)
      BY <3>10, <3>1 DEF Intend, Moves, Releases, SupervisorExits, MayGoOn, Quiescent, Reaped, processes, facts
    <3>11. CASE Send(h)
      BY <3>11, <3>1 DEF Send, Moves, Releases, SupervisorExits, MayGoOn, Quiescent, Reaped, processes, facts
    <3>12. CASE Stop(h)
      BY <3>12, <3>1 DEF Stop, Moves, Releases, SupervisorExits, MayGoOn, Quiescent, Reaped, processes, facts
    <3>13. CASE Settle(h)
      BY <3>13, <3>1 DEF Settle, Moves, Releases, SupervisorExits, MayGoOn, Quiescent, Reaped, processes, facts
    <3>14. CASE Release(h)
      BY <3>14, <3>1 DEF Release, Moves, Releases, SupervisorExits, MayGoOn, Quiescent, Reaped, processes, facts
    <3>15. CASE Answer(h)
      BY <3>15, <3>1 DEF Answer, Moves, Releases, SupervisorExits, MayGoOn, Quiescent, Reaped, processes, facts
    <3>16. CASE Close(h)
      BY <3>16, <3>1 DEF Close, Moves, Releases, SupervisorExits, MayGoOn, Quiescent, Reaped, processes, facts
    <3>17. CASE SupervisorRefuses(h)
      BY <3>17, <3>1 DEF SupervisorRefuses, Moves, Releases, SupervisorExits, MayGoOn, Quiescent, Reaped, processes, facts
    <3>18. CASE SupervisorStarts(h)
      BY <3>18, <3>1 DEF SupervisorStarts, Moves, Releases, SupervisorExits, MayGoOn, Quiescent, Reaped, processes, facts
    <3>19. CASE SupervisorTerms(h)
      BY <3>19, <3>1 DEF SupervisorTerms, Moves, Releases, SupervisorExits, MayGoOn, Quiescent, Reaped, processes, facts
    <3>19a. CASE NamespaceTerms(h)
      BY <3>19a, <3>1 DEF NamespaceTerms, Moves, Releases, SupervisorExits, MayGoOn, Quiescent, Reaped, processes, facts
    <3>20. CASE SupervisorKills(h)
      BY <3>20, <3>1 DEF SupervisorKills, Moves, Releases, SupervisorExits, MayGoOn, Quiescent, Reaped, processes, facts
    <3>21. CASE SupervisorReaps(h)
      BY <3>21, <3>1 DEF SupervisorReaps, Moves, Releases, SupervisorExits, MayGoOn, Quiescent, Reaped, processes, facts
    <3>22. CASE PayloadExits(h)
      BY <3>22, <3>1 DEF PayloadExits, Moves, Releases, SupervisorExits, MayGoOn, Quiescent, Reaped, processes, facts
    <3>23. CASE CommitClosure(h)
      BY <3>23, <3>1 DEF CommitClosure, Moves, Releases, SupervisorExits, MayGoOn, Quiescent, Reaped, processes, facts
    <3>24. CASE Dispose(h)
      BY <3>24, <3>1 DEF Dispose, Moves, Releases, SupervisorExits, MayGoOn, Quiescent, Reaped, processes, facts
    <3> QED BY <1>2, <3>2, <3>3, <3>4, <3>5, <3>6, <3>7, <3>8, <3>9, <3>10, <3>11, <3>12, <3>13, <3>14, <3>15, <3>16, <3>17, <3>18, <3>19, <3>19a, <3>20, <3>21, <3>22, <3>23, <3>24, Zenon DEF Local, HandleStep, SupervisorStep
  <2> QED BY <2>1, <2>2
<1>3. ASSUME ControllerCrash PROVE \A h \in Handles : Fits(h)'
  BY <1>3 DEF ControllerCrash, Gone, Fits, HandleTypeOK, Stages, Guarded, Locked, Early, Live, facts
<1>4. ASSUME Reboot PROVE \A h \in Handles : Fits(h)'
  BY <1>4 DEF Reboot, Gone, Fits, HandleTypeOK, Stages, Guarded, Locked, Early, Live, facts
<1>5. ASSUME UNCHANGED vars PROVE HandlesStay BY <1>5 DEF vars, HandlesStay
<1> QED BY <1>1, <1>2, <1>3, <1>4, <1>5, Cases

\* The lock never has two owners: a helper, a lane or a handle takes it only when it is free,
\* an inherited copy is of the same description, and each owner gives back only its own copy.
LEMMA LockStep ==
    ASSUME StoreTypeOK, HandleTypeOK, \A h \in Handles : Fits(h), LockFits, [Next]_vars
    PROVE  LockFits'
<1>1. ASSUME StoreStep \/ HelperKilled \/ StoreRestored, HandlesStay PROVE LockFits'
  <2>1. /\ \A h \in Handles : handle[h].at \notin Locked /\ supervisor[h] \notin Live
        /\ \A h \in Handles : handle'[h].at \notin Locked /\ supervisor'[h] \notin Live
    BY <1>1, StoreStepIsAlone DEF HandlesStay, processes
  <2>2. SUFFICES /\ helper' # Idle => HelperLock \in lock'
                 /\ lane' # "none" => LaneLock \in lock'
                 /\ \/ lock' \subseteq {HelperLock, LaneLock}
                    \/ \E h \in Handles : lock' \subseteq {Copy("handle", h), Copy("supervisor", h)}
    BY <2>1 DEF LockFits, HelperLock, LaneLock, Copy, Idle
  <2>3. helper # Idle \/ lane # "none" => lock \subseteq {HelperLock, LaneLock}
    BY DEF LockFits, HelperLock, LaneLock, Copy
  <2> DEFINE Goal == /\ helper' # Idle => HelperLock \in lock'
                     /\ lane' # "none" => LaneLock \in lock'
                     /\ \/ lock' \subseteq {HelperLock, LaneLock}
                        \/ \E h \in Handles : lock' \subseteq {Copy("handle", h), Copy("supervisor", h)}
  <2>4. ASSUME NEW g \in 1 .. MaxGeneration, PublishHold(g) PROVE Goal
    BY <2>4 DEF LockFits, PublishHold, Hold, Idle, HelperLock, LaneLock, Copy
  <2>5. ASSUME NEW g \in 1 .. MaxGeneration, ActivateHold(g) PROVE Goal
    BY <2>5 DEF LockFits, ActivateHold, Hold, Idle, HelperLock, LaneLock, Copy
  <2>6. CASE PublishAnchor
    BY <2>6, <2>3 DEF LockFits, PublishAnchor, HelperAt, HelperMoves, HelperEnds, Synced, Idle, HelperLock, LaneLock, Copy
  <2>7. CASE PublishDescriptor
    BY <2>7, <2>3 DEF LockFits, PublishDescriptor, HelperAt, HelperMoves, HelperEnds, Synced, Idle, HelperLock, LaneLock, Copy
  <2>8. CASE MaintainHold
    BY <2>8 DEF LockFits, MaintainHold, Hold, Idle, HelperLock, LaneLock, Copy
  <2>9. CASE MaintainWithdraw
    BY <2>9, <2>3 DEF LockFits, MaintainWithdraw, HelperAt, HelperMoves, HelperEnds, Synced, Idle, HelperLock, LaneLock, Copy
  <2>10. CASE MaintainSync
    BY <2>10, <2>3 DEF LockFits, MaintainSync, HelperAt, HelperMoves, HelperEnds, Synced, Idle, HelperLock, LaneLock, Copy
  <2>11. CASE MaintainRepair
    BY <2>11, <2>3 DEF LockFits, MaintainRepair, HelperAt, HelperMoves, HelperEnds, Synced, Idle, HelperLock, LaneLock, Copy
  <2>12. CASE MaintainExpose
    BY <2>12, <2>3 DEF LockFits, MaintainExpose, HelperAt, HelperMoves, HelperEnds, Synced, Idle, HelperLock, LaneLock, Copy
  <2>13. CASE MaintainClose
    BY <2>13, <2>3 DEF LockFits, MaintainClose, HelperAt, HelperMoves, HelperEnds, Synced, Idle, HelperLock, LaneLock, Copy
  <2>14. CASE ActivateSelect
    BY <2>14, <2>3 DEF LockFits, ActivateSelect, HelperAt, HelperMoves, HelperEnds, Synced, Idle, HelperLock, LaneLock, Copy
  <2>15. CASE ActivateSync
    BY <2>15, <2>3 DEF LockFits, ActivateSync, HelperAt, HelperMoves, HelperEnds, Synced, Idle, HelperLock, LaneLock, Copy
  <2>16. CASE LaneProves
    BY <2>16, <2>3 DEF LockFits, LaneProves, HelperAt, HelperMoves, HelperEnds, Synced, Idle, HelperLock, LaneLock, Copy
  <2>17. CASE LaneUses
    BY <2>17, <2>3 DEF LockFits, LaneUses, HelperAt, HelperMoves, HelperEnds, Synced, Idle, HelperLock, LaneLock, Copy
  <2>18. CASE LaneExits
    BY <2>18, <2>3 DEF LockFits, LaneExits, HelperAt, HelperMoves, HelperEnds, Synced, Idle, HelperLock, LaneLock, Copy
  <2>19. CASE HelperKilled
    BY <2>19, <2>3 DEF LockFits, HelperKilled, HelperAt, HelperMoves, HelperEnds, Synced, Idle, HelperLock, LaneLock, Copy
  <2>20. CASE StoreRestored
    BY <2>20 DEF LockFits, StoreRestored, offline
  <2> QED BY <1>1, <2>2, <2>4, <2>5, <2>6, <2>7, <2>8, <2>9, <2>10, <2>11, <2>12, <2>13, <2>14, <2>15, <2>16, <2>17, <2>18, <2>19, <2>20, Zenon DEF StoreStep
<1>2. ASSUME NEW h \in Handles, Local(h) PROVE LockFits'
  <2>1. /\ UNCHANGED <<helper, lane>> /\ HandleTypeOK' /\ Fits(h)
        /\ \A k \in Handles : k # h => handle'[k] = handle[k] /\ supervisor'[k] = supervisor[k]
    BY <1>2, Frame DEF StoreStays, storeFacts, offline
  <2>2. /\ helper # Idle => HelperLock \in lock
        /\ lane # "none" => LaneLock \in lock
        /\ \A k \in Handles :
            /\ handle[k].at \in Locked => Copy("handle", k) \in lock
            /\ supervisor[k] \in Live => Copy("supervisor", k) \in lock
    BY DEF LockFits
  <2>3. SUFFICES
            /\ \A c \in lock : c # Copy("handle", h) /\ c # Copy("supervisor", h) => c \in lock'
            /\ handle'[h].at \in Locked => Copy("handle", h) \in lock'
            /\ supervisor'[h] \in Live => Copy("supervisor", h) \in lock'
            /\ \/ lock' \subseteq lock
               \/ lock' \subseteq {Copy("handle", h), Copy("supervisor", h)}
    <3>1. /\ helper' # Idle => HelperLock \in lock'
          /\ lane' # "none" => LaneLock \in lock'
      BY <2>1, <2>2, <2>3 DEF HelperLock, LaneLock, Copy, Idle
    <3>2. ASSUME NEW k \in Handles
          PROVE  /\ handle'[k].at \in Locked => Copy("handle", k) \in lock'
                 /\ supervisor'[k] \in Live => Copy("supervisor", k) \in lock'
      BY <2>1, <2>2, <2>3 DEF Copy
    <3>3. \/ lock' \subseteq {HelperLock, LaneLock}
          \/ \E k \in Handles : lock' \subseteq {Copy("handle", k), Copy("supervisor", k)}
      BY <2>3 DEF LockFits
    <3> QED BY <3>1, <3>2, <3>3 DEF LockFits, HelperLock, LaneLock
  <2> DEFINE Goal ==
            /\ \A c \in lock : c # Copy("handle", h) /\ c # Copy("supervisor", h) => c \in lock'
            /\ handle'[h].at \in Locked => Copy("handle", h) \in lock'
            /\ supervisor'[h] \in Live => Copy("supervisor", h) \in lock'
            /\ \/ lock' \subseteq lock
               \/ lock' \subseteq {Copy("handle", h), Copy("supervisor", h)}
  <2>4. CASE Acquire(h)
    <3>1. lock' = lock /\ supervisor' = supervisor BY <2>4 DEF Acquire, Releases, processes
    <3>2. handle'[h].at = "acquired" BY <2>4 DEF Acquire, Moves, HandleTypeOK
    <3> QED BY <3>1, <3>2, <2>2 DEF Locked, Copy
  <2>5. CASE TakeGuard(h)
    <3>1. lock' = lock /\ supervisor' = supervisor BY <2>5 DEF TakeGuard, Releases, processes
    <3>2. handle'[h].at = "guarded" BY <2>5 DEF TakeGuard, Moves, HandleTypeOK
    <3> QED BY <3>1, <3>2, <2>2 DEF Locked, Copy
  <2>6. CASE OpenCandidate(h)
    BY <2>6, <2>1, <2>2 DEF OpenCandidate, Moves, Releases, SupervisorExits, Copy, HandleTypeOK, Stages, Guarded, Locked, Live, processes
  <2>7. CASE TakeLock(h)
    BY <2>7, <2>1, <2>2 DEF TakeLock, Moves, Releases, SupervisorExits, Copy, HandleTypeOK, Stages, Guarded, Locked, Live, processes
  <2>8. CASE StopWaiting(h)
    <3>1. lock' = lock \ {Copy("handle", h)} /\ supervisor' = supervisor BY <2>8 DEF StopWaiting, Releases, processes
    <3>2. handle'[h].at = "failed" BY <2>8 DEF StopWaiting, Moves, HandleTypeOK
    <3> QED BY <3>1, <3>2, <2>2 DEF Locked, Copy
  <2>9. CASE Ready(h)
    BY <2>9, <2>1, <2>2 DEF Ready, Moves, Releases, SupervisorExits, Copy, HandleTypeOK, Stages, Guarded, Locked, Live, processes
  <2>10. CASE Spawn(h)
    <3>1. Copy("handle", h) \in lock BY <2>10, <2>2 DEF Spawn, Locked
    <3>2. lock \subseteq {Copy("handle", h), Copy("supervisor", h)} BY <3>1, HandleAlone
    <3>3. supervisor[h] \notin Live BY <2>10, <2>1 DEF Spawn, Fits, Early, Live
    <3> QED BY <2>10, <3>1, <3>2, <3>3, <2>1 DEF Spawn, Moves, HandleTypeOK, Locked, Live
  <2>11. CASE Grant(h)
    BY <2>11, <2>1, <2>2 DEF Grant, Moves, Releases, SupervisorExits, Copy, HandleTypeOK, Stages, Guarded, Locked, Live, processes
  <2>12. CASE Intend(h)
    BY <2>12, <2>1, <2>2 DEF Intend, Moves, Releases, SupervisorExits, Copy, HandleTypeOK, Stages, Guarded, Locked, Live, processes
  <2>13. CASE Send(h)
    BY <2>13, <2>1, <2>2 DEF Send, Moves, Releases, SupervisorExits, Copy, HandleTypeOK, Stages, Guarded, Locked, Live, processes
  <2>14. CASE Stop(h)
    BY <2>14, <2>1, <2>2 DEF Stop, Moves, Releases, SupervisorExits, Copy, HandleTypeOK, Stages, Guarded, Locked, Live, processes
  <2>15. CASE Settle(h)
    BY <2>15, <2>1, <2>2 DEF Settle, Moves, Releases, SupervisorExits, Copy, HandleTypeOK, Stages, Guarded, Locked, Live, processes
  <2>16. CASE Release(h)
    <3>1. lock' = lock \ {Copy("handle", h)} /\ supervisor' = supervisor BY <2>16 DEF Release, Releases, processes
    <3>2. handle'[h].at = "released" BY <2>16 DEF Release, Moves, HandleTypeOK
    <3> QED BY <3>1, <3>2, <2>2 DEF Locked, Copy
  <2>17. CASE Answer(h)
    BY <2>17, <2>1, <2>2 DEF Answer, Moves, Releases, SupervisorExits, Copy, HandleTypeOK, Stages, Guarded, Locked, Live, processes
  <2>18. CASE Close(h)
    BY <2>18, <2>1, <2>2 DEF Close, Moves, Releases, SupervisorExits, Copy, HandleTypeOK, Stages, Guarded, Locked, Live, processes
  <2>19. CASE SupervisorRefuses(h)
    <3>1. lock' = lock \ {Copy("supervisor", h)} /\ handle' = handle BY <2>19 DEF SupervisorRefuses, SupervisorExits
    <3>2. supervisor'[h] = "exited" BY <2>19 DEF SupervisorRefuses, SupervisorExits, HandleTypeOK
    <3> QED BY <3>1, <3>2, <2>2 DEF Live, Copy
  <2>20. CASE SupervisorStarts(h)
    BY <2>20, <2>1, <2>2 DEF SupervisorStarts, Moves, Releases, SupervisorExits, Copy, HandleTypeOK, Stages, Guarded, Locked, Live, processes
  <2>21. CASE SupervisorTerms(h)
    BY <2>21, <2>1, <2>2 DEF SupervisorTerms, Moves, Releases, SupervisorExits, Copy, HandleTypeOK, Stages, Guarded, Locked, Live, processes
  <2>21a. CASE NamespaceTerms(h)
    BY <2>21a, <2>1, <2>2 DEF NamespaceTerms, Moves, Releases, SupervisorExits, Copy, HandleTypeOK, Stages, Guarded, Locked, Live, processes
  <2>22. CASE SupervisorKills(h)
    BY <2>22, <2>1, <2>2 DEF SupervisorKills, Moves, Releases, SupervisorExits, Copy, HandleTypeOK, Stages, Guarded, Locked, Live, processes
  <2>23. CASE SupervisorReaps(h)
    <3>1. lock' = lock \ {Copy("supervisor", h)} /\ handle' = handle BY <2>23 DEF SupervisorReaps, SupervisorExits
    <3>2. supervisor'[h] = "exited" BY <2>23 DEF SupervisorReaps, SupervisorExits, HandleTypeOK
    <3> QED BY <3>1, <3>2, <2>2 DEF Live, Copy
  <2>24. CASE PayloadExits(h)
    BY <2>24, <2>1, <2>2 DEF PayloadExits, Moves, Releases, SupervisorExits, Copy, HandleTypeOK, Stages, Guarded, Locked, Live, processes
  <2>25. CASE CommitClosure(h)
    BY <2>25, <2>1, <2>2 DEF CommitClosure, Moves, Releases, SupervisorExits, Copy, HandleTypeOK, Stages, Guarded, Locked, Live, processes
  <2>26. CASE Dispose(h)
    BY <2>26, <2>1, <2>2 DEF Dispose, Moves, Releases, SupervisorExits, Copy, HandleTypeOK, Stages, Guarded, Locked, Live, processes
  <2> QED BY <1>2, <2>3, <2>4, <2>5, <2>6, <2>7, <2>8, <2>9, <2>10, <2>11, <2>12, <2>13, <2>14, <2>15, <2>16, <2>17, <2>18, <2>19, <2>20, <2>21, <2>21a, <2>22, <2>23, <2>24, <2>25, <2>26, Zenon DEF Local, HandleStep, SupervisorStep
<1>3. ASSUME ControllerCrash PROVE LockFits'
  <2>1. UNCHANGED <<helper, lane, supervisor>> BY <1>3 DEF ControllerCrash, storeFacts, offline
  <2>2. \A h \in Handles : handle'[h].at \notin Locked
    BY <1>3 DEF ControllerCrash, Gone, HandleTypeOK, Locked
  <2>3. lock' = {c \in lock : c[1] # "handle"} BY <1>3 DEF ControllerCrash
  <2>4. /\ helper' # Idle => HelperLock \in lock'
        /\ lane' # "none" => LaneLock \in lock'
    BY <2>1, <2>3 DEF LockFits, HelperLock, LaneLock, Copy, Idle
  <2>5. \A h \in Handles : supervisor'[h] \in Live => Copy("supervisor", h) \in lock'
    BY <2>1, <2>3 DEF LockFits, Copy
  <2>6. lock' \subseteq lock BY <2>3
  <2> QED BY <2>2, <2>4, <2>5, <2>6 DEF LockFits, HelperLock, LaneLock
<1>4. ASSUME Reboot PROVE LockFits'
  <2>1. lock' = {} /\ helper' = Idle /\ lane' = "none" BY <1>4 DEF Reboot, PowerLost
  <2>2. \A h \in Handles : handle'[h].at \notin Locked /\ supervisor'[h] \notin Live
    BY <1>4 DEF Reboot, Gone, HandleTypeOK, Locked, Live
  <2> QED BY <2>1, <2>2 DEF LockFits, HelperLock, LaneLock, Idle
<1>5. ASSUME UNCHANGED vars PROVE LockFits'
  BY <1>5 DEF vars, storeVars, offline, processes, LockFits, HelperLock, LaneLock, Copy, Idle
<1> QED BY <1>1, <1>2, <1>3, <1>4, <1>5, Cases

\* No failure between the writes of a helper brings an older selection back: what is visible and
\* what is durable both stay current, because a withdrawal is durable before the exposure.
LEMMA StoreFitsStep ==
    ASSUME StoreTypeOK, HandleTypeOK, StoreFits, [Next]_vars
    PROVE  StoreFits'
<1>0. Len(issued) = Highest /\ Highest \in Nat BY DEF StoreTypeOK, Highest
<1>1. ASSUME StoreStep \/ HelperKilled \/ StoreRestored PROVE StoreFits'
  <2> USE DEF StoreFits, Highest
  <2> DEFINE Goal == StoreFits'
  <2>0. ASSUME UNCHANGED <<active, durable, issued, exposed, descriptors>>, helper' = Idle \/ helper' = helper PROVE Goal
    BY <2>0 DEF Current, Idle, Withdraws
  <2>1. ASSUME NEW g \in 1 .. MaxGeneration, PublishHold(g) PROVE Goal
    BY <2>1 DEF PublishHold, HelperAt, HelperMoves, HelperEnds, Hold, Idle, Current, Withdraws, StoreTypeOK, metadata
  <2>2. ASSUME NEW g \in 1 .. MaxGeneration, ActivateHold(g) PROVE Goal
    BY <2>2 DEF ActivateHold, HelperAt, HelperMoves, HelperEnds, Hold, Idle, Current, Withdraws, StoreTypeOK, metadata
  <2>3. CASE PublishAnchor
    BY <2>3 DEF PublishAnchor, HelperAt, HelperMoves, HelperEnds, Hold, Idle, Current, Withdraws, StoreTypeOK, metadata
  <2>4. CASE PublishDescriptor
    <3>1. helper' = Idle /\ UNCHANGED <<active, durable, exposed>> BY <2>4 DEF PublishDescriptor, HelperEnds
    <3>2. \/ issued' = Append(issued, exposed)
          \/ issued' = issued
      BY <2>4 DEF PublishDescriptor
    <3>3. /\ Len(issued') >= Len(issued)
          /\ \A g \in 1 .. Len(issued) : issued'[g] = issued[g]
          /\ \A g \in 1 .. Len(issued') : g > Len(issued) => issued'[g] = exposed
      <4>1. CASE issued' = Append(issued, exposed) BY <4>1 DEF StoreTypeOK
      <4>2. CASE issued' = issued BY <4>2 DEF StoreTypeOK
      <4> QED BY <3>2, <4>1, <4>2
    <3>4. Len(issued) \in Nat /\ Len(issued') \in Nat BY StoreTyped, <1>1 DEF StoreTypeOK
    <3>5. Current(active)' BY <3>1, <3>3, <3>4 DEF Current
    <3>6. Current(durable)' BY <3>1, <3>3, <3>4 DEF Current
    <3> QED BY <3>1, <3>5, <3>6 DEF Idle
  <2>5. CASE MaintainHold
    BY <2>5 DEF MaintainHold, HelperAt, HelperMoves, HelperEnds, Hold, Idle, Current, Withdraws, StoreTypeOK, metadata
  <2>6. CASE MaintainWithdraw
    <3>1. /\ active' = Withdraws(Highest) /\ helper' = [helper EXCEPT !.at = "replaced"]
          /\ UNCHANGED <<durable, issued, exposed, descriptors>>
      BY <2>6 DEF MaintainWithdraw, Replaced, HelperMoves
    <3>2. Current(active)' BY <1>0, <3>1 DEF Current, Withdraws
    <3>3. Current(durable)' BY <3>1 DEF Current
    <3> QED BY <3>1, <3>2, <3>3 DEF StoreTypeOK, Withdraws
  <2>7. CASE MaintainSync
    <3>1. UNCHANGED <<active, issued, exposed, descriptors>> BY <2>7 DEF MaintainSync
    <3>2. CASE durable' = active /\ helper' = [helper EXCEPT !.at = "withdrawn"]
      BY <2>7, <3>1, <3>2 DEF MaintainSync, HelperAt, Current, StoreTypeOK, Withdraws
    <3>3. CASE durable' = durable /\ helper' = Idle
      BY <3>1, <3>3, <2>0
    <3> QED BY <2>7, <3>2, <3>3 DEF MaintainSync, Synced, HelperMoves, HelperEnds
  <2>8. CASE MaintainRepair
    BY <2>8 DEF MaintainRepair, HelperAt, HelperMoves, HelperEnds, Hold, Idle, Current, Withdraws, StoreTypeOK, metadata
  <2>9. CASE MaintainExpose
    <3>1. /\ active = Withdraws(Highest) /\ durable = Withdraws(Highest)
          /\ helper' = [helper EXCEPT !.at = "waiting"] /\ UNCHANGED <<active, durable, issued, descriptors>>
      BY <2>9 DEF MaintainExpose, HelperAt, HelperMoves, metadata
    <3>2. Current(active)' /\ Current(durable)' BY <1>0, <3>1 DEF Current, Withdraws
    <3> QED BY <3>1, <3>2 DEF StoreTypeOK
  <2>10. CASE MaintainClose
    BY <2>10, <2>0 DEF MaintainClose, HelperEnds, metadata
  <2>11. CASE ActivateSelect
    <3>1. UNCHANGED <<durable, issued, exposed, descriptors>> BY <2>11 DEF ActivateSelect
    <3>2. CASE /\ AboveFloor(helper.generation) /\ DescriptorHolds(helper.generation, identity)
               /\ active' = Selects(helper.generation) /\ helper' = [helper EXCEPT !.at = "replaced"]
      <4>1. helper.generation \in 1 .. Len(issued) /\ issued[helper.generation] = exposed
        BY <1>0, <3>2 DEF AboveFloor, DescriptorHolds, Current, StoreTypeOK
      <4>2. Current(active)' BY <3>1, <3>2, <4>1 DEF Current, Selects
      <4>3. Current(durable)' BY <3>1 DEF Current
      <4> QED BY <2>11, <3>2, <4>2, <4>3 DEF ActivateSelect, HelperAt, StoreTypeOK
    <3>3. CASE active' = active /\ helper' = Idle BY <3>1, <3>3, <2>0
    <3> QED BY <2>11, <3>2, <3>3 DEF ActivateSelect, Replaced, HelperMoves, HelperEnds
  <2>12. CASE ActivateSync
    <3>1. UNCHANGED <<active, issued, exposed, descriptors>> /\ helper' = Idle BY <2>12 DEF ActivateSync, HelperEnds
    <3>2. durable' = active \/ durable' = durable BY <2>12 DEF ActivateSync
    <3> QED BY <3>1, <3>2 DEF Current, Idle
  <2>13. CASE LaneProves
    BY <2>13, <2>0 DEF LaneProves, HelperEnds, metadata
  <2>14. CASE LaneUses
    BY <2>14, <2>0 DEF LaneUses, HelperEnds, metadata
  <2>15. CASE LaneExits
    BY <2>15, <2>0 DEF LaneExits, HelperEnds, metadata
  <2>16. CASE HelperKilled
    BY <2>16, <2>0 DEF HelperKilled, HelperEnds, metadata
  <2>17. CASE StoreRestored
    BY <2>17, <2>0 DEF StoreRestored, metadata, offline
  <2> HIDE DEF Goal
  <2> QED BY <1>1, <2>1, <2>2, <2>3, <2>4, <2>5, <2>6, <2>7, <2>8, <2>9, <2>10, <2>11, <2>12, <2>13, <2>14, <2>15, <2>16, <2>17, Zenon DEF StoreStep, Goal
<1>2. ASSUME StoreStays PROVE StoreFits'
  BY <1>2 DEF StoreStays, storeFacts, metadata, offline, StoreFits, Current, Withdraws, Highest
<1>3. ASSUME Reboot PROVE StoreFits'
  <2>1. /\ helper' = Idle /\ UNCHANGED <<issued, exposed, descriptors>>
        /\ active' \in {active, durable} /\ durable' = active'
    BY <1>3 DEF Reboot, PowerLost
  <2>2. Current(active)' /\ Current(durable)' BY <2>1 DEF StoreFits, Current
  <2> QED BY <2>1, <2>2 DEF StoreFits, Idle
<1>4. ASSUME NEW h \in Handles, Local(h) PROVE StoreStays BY <1>4, Frame
<1>5. ASSUME ControllerCrash PROVE StoreStays BY <1>5 DEF ControllerCrash, StoreStays
<1>6. ASSUME UNCHANGED vars PROVE StoreStays
  BY <1>6 DEF vars, storeVars, StoreStays, storeFacts, metadata, offline
<1> QED BY <1>1, <1>2, <1>3, <1>4, <1>5, <1>6, Cases

\* While a supervisor lives nothing can be published, withdrawn, exposed or restored, so the
\* generation it was spawned for stays the one that is current.
LEMMA LicensedStep ==
    ASSUME StoreTypeOK, HandleTypeOK, \A h \in Handles : Fits(h), LockFits, StoreFits, Licensed, [Next]_vars
    PROVE  Licensed'
<1>1. ASSUME StoreStep \/ HelperKilled \/ StoreRestored, HandlesStay PROVE Licensed'
  <2>1. \A h \in Handles : supervisor'[h] \notin Live
    BY <1>1, StoreStepIsAlone DEF HandlesStay, processes
  <2> QED BY <2>1 DEF Licensed
<1>2. ASSUME NEW h \in Handles, Local(h) PROVE Licensed'
  <2>1. /\ UNCHANGED <<boot, store, issued, exposed, active, descriptors>> /\ HandleTypeOK' /\ Fits(h)
        /\ \A k \in Handles : k # h => handle'[k] = handle[k] /\ supervisor'[k] = supervisor[k]
    BY <1>2, Frame DEF StoreStays, storeFacts, metadata, offline
  <2>2. \/ supervisor'[h] \in Live => supervisor[h] \in Live /\ handle'[h].sealed = handle[h].sealed
        \/ BindingHolds(h) /\ handle'[h].sealed = handle[h].sealed
    <3> DEFINE Goal == \/ supervisor'[h] \in Live => supervisor[h] \in Live /\ handle'[h].sealed = handle[h].sealed
                       \/ BindingHolds(h) /\ handle'[h].sealed = handle[h].sealed
    <3>1. CASE Acquire(h)
      BY <3>1, <2>1 DEF Acquire, Fits, Early, Live, processes
    <3>2. CASE TakeGuard(h)
      BY <3>2, <2>1 DEF TakeGuard, Moves, SupervisorExits, HandleTypeOK, Live, processes, facts
    <3>3. CASE OpenCandidate(h)
      <4>1. PICK x : handle' = [handle EXCEPT ![h].at = x] BY <3>3 DEF OpenCandidate, Moves
      <4> QED BY <3>3, <4>1 DEF OpenCandidate, HandleTypeOK, processes
    <3>4. CASE TakeLock(h)
      BY <3>4, <2>1 DEF TakeLock, Moves, SupervisorExits, HandleTypeOK, Live, processes, facts
    <3>5. CASE StopWaiting(h)
      BY <3>5, <2>1 DEF StopWaiting, Moves, SupervisorExits, HandleTypeOK, Live, processes, facts
    <3>6. CASE Ready(h)
      <4>1. PICK x : handle' = [handle EXCEPT ![h].at = x] BY <3>6 DEF Ready, Moves
      <4> QED BY <3>6, <4>1 DEF Ready, HandleTypeOK, processes
    <3>7. CASE Spawn(h)
      <4>1. CASE Accepted(h) /\ handle' = [handle EXCEPT ![h].at = "spawned"] BY <4>1 DEF Accepted, HandleTypeOK
      <4>2. CASE handle' = [handle EXCEPT ![h].at = "ended"] /\ supervisor' = supervisor BY <4>2 DEF HandleTypeOK
      <4> QED BY <3>7, <4>1, <4>2 DEF Spawn, Moves
    <3>8. CASE Grant(h)
      BY <3>8, <2>1 DEF Grant, Moves, SupervisorExits, HandleTypeOK, Live, processes, facts
    <3>9. CASE Intend(h)
      <4>1. PICK x : handle' = [handle EXCEPT ![h].at = x] BY <3>9 DEF Intend, Moves
      <4> QED BY <3>9, <4>1 DEF Intend, HandleTypeOK, processes
    <3>10. CASE Send(h)
      BY <3>10, <2>1 DEF Send, Moves, SupervisorExits, HandleTypeOK, Live, processes, facts
    <3>11. CASE Stop(h)
      BY <3>11, <2>1 DEF Stop, Moves, SupervisorExits, HandleTypeOK, Live, processes, facts
    <3>12. CASE Settle(h)
      BY <3>12, <2>1 DEF Settle, Moves, SupervisorExits, HandleTypeOK, Live, processes, facts
    <3>13. CASE Release(h)
      BY <3>13, <2>1 DEF Release, Moves, SupervisorExits, HandleTypeOK, Live, processes, facts
    <3>14. CASE Answer(h)
      BY <3>14, <2>1 DEF Answer, Moves, SupervisorExits, HandleTypeOK, Live, processes, facts
    <3>15. CASE Close(h)
      BY <3>15, <2>1 DEF Close, Moves, SupervisorExits, HandleTypeOK, Live, processes, facts
    <3>16. CASE SupervisorRefuses(h)
      BY <3>16, <2>1 DEF SupervisorRefuses, Moves, SupervisorExits, HandleTypeOK, Live, processes, facts
    <3>17. CASE SupervisorStarts(h)
      BY <3>17, <2>1 DEF SupervisorStarts, Moves, SupervisorExits, HandleTypeOK, Live, processes, facts
    <3>18. CASE SupervisorTerms(h)
      BY <3>18, <2>1 DEF SupervisorTerms, Moves, SupervisorExits, HandleTypeOK, Live, processes, facts
    <3>18a. CASE NamespaceTerms(h)
      BY <3>18a, <2>1 DEF NamespaceTerms, Moves, SupervisorExits, HandleTypeOK, Live, processes, facts
    <3>19. CASE SupervisorKills(h)
      BY <3>19, <2>1 DEF SupervisorKills, Moves, SupervisorExits, HandleTypeOK, Live, processes, facts
    <3>20. CASE SupervisorReaps(h)
      BY <3>20, <2>1 DEF SupervisorReaps, Moves, SupervisorExits, HandleTypeOK, Live, processes, facts
    <3>21. CASE PayloadExits(h)
      BY <3>21, <2>1 DEF PayloadExits, Moves, SupervisorExits, HandleTypeOK, Live, processes, facts
    <3>22. CASE CommitClosure(h)
      BY <3>22, <2>1 DEF CommitClosure, Moves, SupervisorExits, HandleTypeOK, Live, processes, facts
    <3>23. CASE Dispose(h)
      BY <3>23, <2>1 DEF Dispose, Moves, SupervisorExits, HandleTypeOK, Live, processes, facts
    <3> HIDE DEF Goal
    <3> QED BY <1>2, <3>1, <3>2, <3>3, <3>4, <3>5, <3>6, <3>7, <3>8, <3>9, <3>10, <3>11, <3>12, <3>13, <3>14, <3>15, <3>16, <3>17, <3>18, <3>18a, <3>19, <3>20, <3>21, <3>22, <3>23, Zenon DEF Local, HandleStep, SupervisorStep, Goal
  <2>3. BindingHolds(h) =>
            /\ handle[h].sealed.generation \in 1 .. Len(issued)
            /\ issued[handle[h].sealed.generation] = exposed /\ handle[h].sealed.live = identity
    BY DEF BindingHolds, SelectionHolds, StoreFits, Current
  <2>4. identity' = identity BY <2>1 DEF identity
  <2> QED BY <2>1, <2>2, <2>3, <2>4 DEF Licensed
<1>3. ASSUME ControllerCrash PROVE Licensed'
  <2>1. UNCHANGED <<supervisor, issued, exposed, boot, store>> BY <1>3 DEF ControllerCrash, storeFacts, offline
  <2>2. \A h \in Handles : handle'[h].sealed = handle[h].sealed
    BY <1>3 DEF ControllerCrash, Gone, HandleTypeOK
  <2> QED BY <2>1, <2>2 DEF Licensed, identity
<1>4. ASSUME Reboot PROVE Licensed'
  BY <1>4 DEF Reboot, Licensed, Live
<1>5. ASSUME UNCHANGED vars PROVE Licensed'
  BY <1>5 DEF vars, storeVars, offline, processes, Licensed, identity
<1> QED BY <1>1, <1>2, <1>3, <1>4, <1>5, Cases

\* The attempt record is created exclusively and written before the turn: no second authorised
\* acquisition takes an attempt, and no settlement claims less than was sent.
LEMMA RecordStep ==
    ASSUME StoreTypeOK, HandleTypeOK, RecordFits, [Next]_vars
    PROVE  RecordFits'
<1>0. ASSUME record' = record, sent' = sent, answered \subseteq answered',
             \A k \in Handles : /\ handle'[k].at = "new" <=> handle[k].at = "new"
                                /\ handle'[k].at = "intended" => handle[k].at = "intended"
      PROVE  RecordFits'
  BY <1>0, HandleBounds DEF RecordFits, HandleTypeOK
<1>1. ASSUME HandlesStay PROVE RecordFits' BY <1>0, <1>1 DEF HandlesStay, facts
<1>2. ASSUME NEW h \in Handles, Local(h) PROVE RecordFits'
  <2>0. \A k \in Handles : k # h => handle'[k] = handle[k] BY <1>2, Frame
  <2>9. Authorised \subseteq Handles /\ sent \subseteq Handles BY HandleBounds DEF HandleTypeOK
  <2>1. ASSUME record' = record, sent' = sent, answered \subseteq answered', handle[h].at # "new", handle'[h].at # "new",
               handle'[h].at = "intended" => handle[h].at = "intended"
        PROVE  RecordFits'
    BY <1>0, <2>0, <2>1
  <2> DEFINE Goal == RecordFits'
  <2>10. CASE Acquire(h)
    <3>1. /\ handle[h].at = "new" /\ handle'[h].at = "acquired" /\ Reserved(h) /\ UNCHANGED <<sent, answered>>
      BY <2>10 DEF Acquire, HandleTypeOK
    <3>2. h \notin sent BY <3>1 DEF RecordFits
    <3>3. CASE h \in Authorised
      <4>1. record = "absent" /\ record' = "acquired" BY <3>1, <3>3 DEF Reserved
      <4>2. \A k \in Authorised : handle[k].at = "new" BY <4>1 DEF RecordFits
      <4>3. sent \cap Authorised = {} BY <4>2 DEF RecordFits
      <4> QED BY <2>0, <3>1, <3>2, <4>1, <4>2, <4>3, <2>9 DEF RecordFits
    <3>4. CASE h \notin Authorised
      <4>1. record' = record BY <3>1, <3>4 DEF Reserved
      <4>2. \A k \in Authorised : handle'[k] = handle[k] BY <2>0, <2>9, <3>4
      <4>3. \A k \in sent : handle'[k].at # "new" BY <2>0, <2>9, <3>2 DEF RecordFits
      <4> QED BY <3>1, <4>1, <4>2, <4>3 DEF RecordFits
    <3> QED BY <3>3, <3>4
  <2>11. CASE TakeGuard(h)
    <3>1. handle[h].at = "acquired" /\ handle'[h].at = "guarded" BY <2>11 DEF TakeGuard, Moves, HandleTypeOK
    <3> QED BY <2>11, <3>1, <2>1 DEF TakeGuard, facts
  <2>12. CASE OpenCandidate(h)
    <3>1. handle[h].at = "guarded" /\ handle'[h].at \in {"candidate", "failed"} BY <2>12 DEF OpenCandidate, Moves, HandleTypeOK
    <3> QED BY <2>12, <3>1, <2>1 DEF OpenCandidate, facts
  <2>13. CASE TakeLock(h)
    <3>1. handle[h].at = "candidate" /\ handle'[h].at = "locked" BY <2>13 DEF TakeLock, Moves, HandleTypeOK
    <3> QED BY <2>13, <3>1, <2>1 DEF TakeLock, facts
  <2>14. CASE StopWaiting(h)
    <3>1. handle[h].at = "candidate" /\ handle'[h].at = "failed" BY <2>14 DEF StopWaiting, Moves, HandleTypeOK
    <3> QED BY <2>14, <3>1, <2>1 DEF StopWaiting, facts
  <2>15. CASE Ready(h)
    <3>1. handle[h].at = "locked" /\ handle'[h].at \in {"ready", "failed"} BY <2>15 DEF Ready, Moves, HandleTypeOK
    <3> QED BY <2>15, <3>1, <2>1 DEF Ready, facts
  <2>16. CASE Spawn(h)
    <3>1. handle[h].at = "ready" /\ handle'[h].at \in {"spawned", "ended"} BY <2>16 DEF Spawn, Moves, HandleTypeOK
    <3> QED BY <2>16, <3>1, <2>1 DEF Spawn, facts
  <2>17. CASE Grant(h)
    <3>1. handle[h].at = "spawned" /\ handle'[h].at = "granted" BY <2>17 DEF Grant, Moves, HandleTypeOK
    <3> QED BY <2>17, <3>1, <2>1 DEF Grant, facts
  <2>18. CASE Intend(h)
    <3>1. handle[h].at = "granted" /\ UNCHANGED <<sent, answered>> BY <2>18 DEF Intend
    <3>2. CASE handle'[h].at = "refused" /\ record' = record BY <2>1, <3>1, <3>2
    <3>3. CASE handle'[h].at = "intended" /\ h \in Authorised /\ record' = "intent"
      BY <2>0, <3>1, <3>3, <2>9 DEF RecordFits
    <3>4. CASE handle'[h].at = "intended" /\ h \notin Authorised /\ record' = record
      <4>1. \A k \in Authorised : handle'[k] = handle[k] BY <2>0, <2>9, <3>4
      <4>2. \A k \in sent : handle'[k].at # "new" BY <2>0, <2>9, <3>4 DEF RecordFits
      <4>3. UNCHANGED <<record, sent, answered>> BY <3>1, <3>4
      <4> QED BY <4>1, <4>2, <4>3 DEF RecordFits
    <3> QED BY <2>18, <3>2, <3>3, <3>4 DEF Intend, Moves, IntentRecorded, HandleTypeOK
  <2>19. CASE Send(h)
    <3>1. /\ handle[h].at = "intended" /\ handle'[h].at = "sent"
          /\ sent' = sent \cup {h} /\ UNCHANGED <<record, answered>>
      BY <2>19 DEF Send, Moves, HandleTypeOK
    <3>2. \A k \in Handles : /\ handle'[k].at # "new" => handle[k].at # "new"
                             /\ handle'[k].at = "intended" => handle[k].at = "intended"
      BY <2>0, <3>1
    <3>3. \A k \in sent' : handle'[k].at # "new" BY <2>0, <2>9, <3>1 DEF RecordFits
    <3>4. \A k \in sent' \cap Authorised : record' \in {"intent", "possibly dispatched", "completed"}
      BY <3>1 DEF RecordFits
    <3> QED BY <2>9, <3>1, <3>2, <3>3, <3>4 DEF RecordFits
  <2>20. CASE Stop(h)
    <3>1. handle[h].at # "new" /\ handle'[h].at = "stopping" BY <2>20 DEF Stop, HandleTypeOK
    <3> QED BY <2>20, <3>1, <2>1 DEF Stop, facts
  <2>21. CASE Settle(h)
    <3>1. /\ handle[h].at = "stopping" /\ handle'[h].at = "ended" /\ UNCHANGED <<sent, answered>>
      BY <2>21 DEF Settle, Moves, HandleTypeOK
    <3>2. CASE record' = record BY <2>1, <3>1, <3>2
    <3>3. CASE h \in Authorised /\ record' = Dispatch(h)
      <4>1. \A k \in Authorised : k # h => handle[k].at = "new" BY <3>1, <3>3 DEF RecordFits
      <4>2. sent \cap Authorised \subseteq {h} BY <4>1 DEF RecordFits
      <4>3. /\ record' \in {"not dispatched", "possibly dispatched", "completed"}
            /\ h \in sent => record' # "not dispatched"
            /\ record' = "completed" => h \in answered
        BY <3>3 DEF Dispatch
      <4> QED BY <2>0, <3>1, <3>3, <4>1, <4>2, <4>3, <2>9 DEF RecordFits
    <3> QED BY <2>21, <3>2, <3>3 DEF Settle
  <2>22. CASE Release(h)
    <3>1. handle[h].at # "new" /\ handle'[h].at = "released" BY <2>22 DEF Release, HandleTypeOK
    <3> QED BY <2>22, <3>1, <2>1 DEF Release, facts
  <2>23. CASE Answer(h)
    BY <2>23, <1>0 DEF Answer
  <2>24. CASE Close(h)
    <3>1. handle[h].at # "new" /\ handle'[h].at = handle[h].at BY <2>24 DEF Close, HandleTypeOK
    <3> QED BY <2>24, <3>1, <2>1 DEF Close
  <2>25. CASE SupervisorRefuses(h)
    BY <2>25, <1>0 DEF SupervisorRefuses, facts
  <2>26. CASE SupervisorStarts(h)
    BY <2>26, <1>0 DEF SupervisorStarts, facts
  <2>27. CASE SupervisorTerms(h)
    BY <2>27, <1>0 DEF SupervisorTerms, facts
  <2>27a. CASE NamespaceTerms(h)
    BY <2>27a, <1>0 DEF NamespaceTerms, facts
  <2>28. CASE SupervisorKills(h)
    BY <2>28, <1>0 DEF SupervisorKills, facts
  <2>29. CASE SupervisorReaps(h)
    BY <2>29, <1>0 DEF SupervisorReaps, facts
  <2>30. CASE PayloadExits(h)
    BY <2>30, <1>0 DEF PayloadExits, facts
  <2>31. CASE CommitClosure(h)
    BY <2>31, <1>0 DEF CommitClosure, facts
  <2>32. CASE Dispose(h)
    BY <2>32, <1>0 DEF Dispose, facts
  <2> HIDE DEF Goal
  <2> QED BY <1>2, <2>10, <2>11, <2>12, <2>13, <2>14, <2>15, <2>16, <2>17, <2>18, <2>19, <2>20, <2>21, <2>22, <2>23, <2>24, <2>25, <2>26, <2>27, <2>27a, <2>28, <2>29, <2>30, <2>31, <2>32, Zenon DEF Local, HandleStep, SupervisorStep, Goal
<1>3. ASSUME handle' = [h \in Handles |-> Gone(h)], UNCHANGED facts PROVE RecordFits'
  BY <1>0, <1>3 DEF facts, Gone, HandleTypeOK
<1>4. ASSUME ControllerCrash \/ Reboot PROVE RecordFits' BY <1>3, <1>4 DEF ControllerCrash, Reboot
<1>5. ASSUME UNCHANGED vars PROVE HandlesStay BY <1>5 DEF vars, HandlesStay
<1> QED BY <1>1, <1>2, <1>4, <1>5, Cases

-----------------------------------------------------------------------------
\* Before anything is published and acquired, every part of the invariant holds.
LEMMA InitInv ==
    ASSUME Init
    PROVE  Inv
<1> USE DEF Init, StoreInit
<1>1. StoreTypeOK BY DEF StoreTypeOK, Unselected, Selections, Idle, Identities
<1>2. HandleTypeOK BY DEF HandleTypeOK, New, Stages, Identities
<1>3. \A h \in Handles : Fits(h) BY DEF Fits, New, Guarded, Locked, Live
<1>4. LockFits BY DEF LockFits, New, Locked, Live
<1>5. StoreFits BY DEF StoreFits, Current, Unselected, Idle
<1>6. Licensed BY DEF Licensed, Live
<1>7. RecordFits BY HandleBounds DEF RecordFits, New
<1> QED BY <1>1, <1>2, <1>3, <1>4, <1>5, <1>6, <1>7 DEF Inv

\* The variables keep their types in every step.
LEMMA TypesStep ==
    ASSUME StoreTypeOK, HandleTypeOK, [Next]_vars
    PROVE  StoreTypeOK' /\ HandleTypeOK'
<1>1. ASSUME StoreStep \/ HelperKilled \/ StoreRestored, HandlesStay PROVE StoreTypeOK' /\ HandleTypeOK'
  <2>1. HandleTypeOK' BY <1>1 DEF HandlesStay, HandleTypeOK, processes, facts
  <2> QED BY <1>1, <2>1, StoreTyped
<1>2. ASSUME StoreStays PROVE StoreTypeOK'
  BY <1>2 DEF StoreStays, storeFacts, metadata, offline, StoreTypeOK
<1>3. ASSUME NEW h \in Handles, Local(h) PROVE StoreTypeOK' /\ HandleTypeOK' BY <1>2, <1>3, Frame
<1>4. ASSUME ControllerCrash PROVE StoreTypeOK' /\ HandleTypeOK'
  <2>1. StoreStays BY <1>4 DEF ControllerCrash, StoreStays
  <2> QED BY <1>2, <1>4, <2>1 DEF ControllerCrash, HandleTypeOK, Gone, Stages, facts
<1>5. ASSUME Reboot PROVE StoreTypeOK' /\ HandleTypeOK'
  <2>1. StoreTypeOK' BY <1>5 DEF Reboot, PowerLost, StoreTypeOK, Idle
  <2>2. handle' \in [Handles -> [at : Stages, sealed : [generation : Nat, live : Identities], closing : BOOLEAN]]
    BY <1>5 DEF Reboot, HandleTypeOK, Gone, Stages
  <2>3. /\ guard' \in [Handles -> SUBSET {"handle", "supervisor"}]
        /\ pipe' \in [Handles -> {"none", "open", "granted", "closed"}]
        /\ supervisor' \in [Handles -> {"none", "exited"} \cup Live]
        /\ payload' \in [Handles -> {"none", "alive", "termed", "dead"}]
    BY <1>5 DEF Reboot
  <2> QED BY <1>5, <2>1, <2>2, <2>3 DEF Reboot, HandleTypeOK, facts
<1>6. ASSUME UNCHANGED vars PROVE StoreTypeOK' /\ HandleTypeOK'
  <2>1. StoreStays BY <1>6 DEF vars, storeVars, StoreStays, storeFacts, metadata, offline
  <2> QED BY <1>2, <1>6, <2>1 DEF vars, HandleTypeOK, processes, facts
<1> QED BY <1>1, <1>3, <1>4, <1>5, <1>6, Cases

\* Guards, lock, selection and attempt record fit together in every reachable state, however
\* often the helpers, the controller and the host fail.
THEOREM Invariance == Spec => []Inv
<1>1. ASSUME Inv, [Next]_vars PROVE Inv'
  BY <1>1, TypesStep, FitsStep, LockStep, StoreFitsStep, LicensedStep, RecordStep DEF Inv
<1> QED BY InitInv, <1>1, PTL DEF Spec

\* A native process runs only with the generation published since the last exposure and on the
\* objects it was published for, and its attempt record never says less than what happened to
\* the turn (BindingStore.check_held, the supervisor's inherited lock, AttemptRecord).
THEOREM TurnsAreLicensed == Spec => []TurnIsLicensed
<1>1. ASSUME Inv PROVE TurnIsLicensed
  <2>1. \A h \in Handles : payload[h] \in {"alive", "termed"} => supervisor[h] \in Live
    BY <1>1 DEF Inv, Fits, Live
  <2>2. \A h \in sent \cap Authorised : sent \cap Authorised = {h}
    BY <1>1 DEF Inv, RecordFits
  <2>3. Cardinality(sent \cap Authorised) <= 1
    <3>1. CASE sent \cap Authorised = {} BY <3>1, FS_EmptySet
    <3>2. CASE \E h : sent \cap Authorised = {h} BY <3>2, FS_Singleton
    <3> QED BY <2>2, <3>1, <3>2
  <2>4. sent \cap Authorised # {} => record \in {"intent", "possibly dispatched", "completed"}
    BY <1>1 DEF Inv, RecordFits
  <2> QED BY <1>1, <2>1, <2>3, <2>4 DEF Inv, Licensed, RecordFits, TurnIsLicensed
<1> QED BY <1>1, Invariance, PTL

\* Recovery removes the files of an acquisition only when nothing of it runs, and nothing of it
\* runs afterwards (dispose_acquisition, the closure ref and the inherited guard).
THEOREM DisposalIsQuiet == Spec => []DisposedIsQuiet
<1>1. ASSUME Inv PROVE DisposedIsQuiet
  BY <1>1 DEF Inv, HandleTypeOK, Fits, Live, DisposedIsQuiet
<1> QED BY <1>1, Invariance, PTL
-----------------------------------------------------------------------------
(***************************************************************************)
(* The turn a handle runs, in the relay it runs in: CodexConversation with *)
(* constants and variables of its own.  What leaves through the relay does *)
(* not depend on the store, nor on anything that is said in the turn.      *)
(***************************************************************************)
CONSTANTS Conns, MaxConnections, ChunkWrites, Turns, MaxToolCalls, MaxPending
VARIABLES relay, stopping, accepted, conn, denied, control, late, left, stray, unauthorised,
          turn, c, wire, torn, ended, inbox, replied, emitted, outcome

Codex == INSTANCE CodexConversation WITH Worlds <- Turns, world <- turn, answered <- replied

\* What a connection has sent, and can still send, of the chunk it admitted last.
ChunkFits ==
    /\ left \in [Conns -> Nat] /\ stray \in [Conns -> Nat] /\ unauthorised = {}
    /\ \A k \in Conns :
        /\ stray[k] + left[k] <= ChunkWrites
        /\ Codex!Authorised => stray[k] = 0

\* How the relay, its connections and what was reported fit together.
RelayFits ==
    /\ relay # "live" => \A k \in Conns : conn[k] \in {"none", "closed"} /\ left[k] = 0
    /\ outcome # "none" => relay \in {"exited", "failed"}
    /\ Codex!Published => denied = {}

\* A handler loads a chunk only while it is authorised, and only then; its later writes use up
\* what was loaded.
LEMMA ChunkStepFits ==
    ASSUME ChunkWrites \in Nat, ChunkFits, NEW k, Codex!RelayStep(k)
    PROVE  ChunkFits'
<1>1. Codex!Authorised' <=> Codex!Authorised
  BY DEF Codex!RelayStep, Codex!Accept, Codex!Connect, Codex!Hello, Codex!Dial, Codex!Pump, Codex!Write, Codex!Cut, Codex!Authorised
<1>2. ASSUME UNCHANGED <<left, stray, unauthorised>> PROVE ChunkFits' BY <1>1, <1>2 DEF ChunkFits
<1>3. ASSUME Codex!Authorised, Codex!Loads(k), UNCHANGED stray PROVE ChunkFits'
  <2>1. PICK n \in 1 .. ChunkWrites : left' = [left EXCEPT ![k] = n] BY <1>3 DEF Codex!Loads
  <2>2. unauthorised' = {} BY <1>3 DEF Codex!Loads, ChunkFits
  <2>3. left' \in [Conns -> Nat] /\ stray' \in [Conns -> Nat]
    <3>1. n \in Nat OBVIOUS
    <3>2. left \in [Conns -> Nat] /\ stray \in [Conns -> Nat] BY DEF ChunkFits
    <3>3. left' \in [Conns -> Nat] BY <2>1, <3>1, <3>2
    <3> QED BY <1>3, <3>2, <3>3
  <2>4. \A j \in Conns : stray'[j] = 0 BY <1>3 DEF ChunkFits
  <2>5. \A j \in Conns : left'[j] <= ChunkWrites BY <2>1 DEF ChunkFits
  <2>6. \A j \in Conns : stray'[j] + left'[j] <= ChunkWrites BY <2>3, <2>4, <2>5
  <2> QED BY <2>2, <2>3, <2>4, <2>6 DEF ChunkFits
<1>4. ASSUME Codex!Write(k) PROVE ChunkFits'
  <2>1. left' = [left EXCEPT ![k] = @ - 1] /\ left[k] > 0 /\ unauthorised' = unauthorised BY <1>4 DEF Codex!Write
  <2>2. stray' = IF Codex!Authorised THEN stray ELSE [stray EXCEPT ![k] = @ + 1] BY <1>4 DEF Codex!Write
  <2>3. left \in [Conns -> Nat] /\ stray \in [Conns -> Nat] BY DEF ChunkFits
  <2>4. ASSUME NEW j \in Conns
        PROVE  left'[j] \in Nat /\ stray'[j] \in Nat /\ stray'[j] + left'[j] <= stray[j] + left[j]
    <3>1. j # k => left'[j] = left[j] /\ stray'[j] = stray[j] BY <2>1, <2>2, <2>3
    <3>2. j = k => left[j] > 0 /\ left'[j] = left[j] - 1 /\ (stray'[j] = stray[j] \/ stray'[j] = stray[j] + 1)
      BY <2>1, <2>2, <2>3
    <3> QED BY <2>3, <3>1, <3>2
  <2>5. left' \in [Conns -> Nat] /\ stray' \in [Conns -> Nat] BY <2>1, <2>2, <2>3, <2>4
  <2>6. \A j \in Conns : stray'[j] + left'[j] <= ChunkWrites BY <2>3, <2>4, <2>5 DEF ChunkFits
  <2>7. ASSUME NEW j \in Conns, Codex!Authorised PROVE stray'[j] = 0 BY <2>2, <2>7 DEF ChunkFits
  <2> QED BY <1>1, <2>1, <2>5, <2>6, <2>7 DEF ChunkFits
<1>5. ASSUME Codex!Discards(k), UNCHANGED stray PROVE ChunkFits'
  <2>1. left' = [left EXCEPT ![k] = 0] /\ unauthorised' = unauthorised BY <1>5 DEF Codex!Discards
  <2>2. left \in [Conns -> Nat] /\ stray \in [Conns -> Nat] BY DEF ChunkFits
  <2>3. left' \in [Conns -> Nat] BY <2>1, <2>2
  <2>4. \A j \in Conns : left'[j] <= left[j] BY <2>1, <2>2
  <2>5. \A j \in Conns : stray[j] + left'[j] <= ChunkWrites BY <2>2, <2>3, <2>4 DEF ChunkFits
  <2> QED BY <1>1, <1>5, <2>1, <2>3, <2>5 DEF ChunkFits
<1> QED
  BY <1>2, <1>3, <1>4, <1>5
     DEF Codex!RelayStep, Codex!Accept, Codex!Connect, Codex!Hello, Codex!Dial, Codex!Pump, Codex!Cut,
         Codex!StillAdmitted, Codex!Admitted, Codex!Live, Codex!Authorised, Codex!traffic

\* A handler's step belongs to a live relay, before any outcome.
LEMMA RelayStepFits ==
    ASSUME RelayFits, NEW k, Codex!RelayStep(k), UNCHANGED <<turn, outcome>>
    PROVE  RelayFits'
<1>1. relay = "live" /\ UNCHANGED relay
  BY DEF Codex!RelayStep, Codex!Accept, Codex!Connect, Codex!Hello, Codex!Dial, Codex!Pump, Codex!Write, Codex!Cut
<1>2. outcome = "none" BY <1>1 DEF RelayFits
<1> QED BY <1>1, <1>2 DEF RelayFits, Codex!Published

LEMMA TurnStepFits ==
    ASSUME ChunkWrites \in Nat, ChunkFits, RelayFits, [Codex!Next]_Codex!vars
    PROVE  ChunkFits' /\ RelayFits'
<1>1. ASSUME NEW k, Codex!RelayStep(k), Codex!RelayOnly PROVE ChunkFits' /\ RelayFits'
  BY <1>1, ChunkStepFits, RelayStepFits DEF Codex!RelayOnly
<1>2. ASSUME Codex!Exits PROVE ChunkFits' /\ RelayFits'
  <2>1. ChunkFits' BY <1>2 DEF Codex!Exits, Codex!RelayExits, ChunkFits, Codex!Authorised
  <2>2. RelayFits' BY <1>2 DEF Codex!Exits, Codex!RelayExits, ChunkFits, RelayFits, Codex!Published
  <2> QED BY <2>1, <2>2
<1>3. CASE Codex!RelayEnters /\ Codex!RelayOnly
  BY <1>3 DEF Codex!RelayEnters, Codex!RelayOnly, Codex!traffic, ChunkFits, Codex!Authorised, RelayFits, Codex!Published
<1>4. CASE (Codex!ControlLost \/ Codex!DeadlinePasses) /\ Codex!RelayOnly
  BY <1>4 DEF Codex!ControlLost, Codex!DeadlinePasses, Codex!RelayOnly, Codex!traffic, ChunkFits, Codex!Authorised,
              RelayFits, Codex!Published
<1>5. CASE Codex!Verdict
  BY <1>5 DEF Codex!Verdict, Codex!RelayDenied, Codex!relayVars, ChunkFits, Codex!Authorised, RelayFits, Codex!Published
<1>6. CASE Codex!NotLaunched
  BY <1>6 DEF Codex!NotLaunched, Codex!relayVars, ChunkFits, Codex!Authorised, RelayFits, Codex!Published
<1>7. CASE \/ Codex!Request \/ Codex!Read \/ Codex!Judge \/ Codex!ReadsNothing \/ Codex!WorkerReturns \/ Codex!Finish
           \/ Codex!ClientAnswers \/ Codex!ClientAdds \/ Codex!ClientCompletes \/ Codex!ClientExits \/ UNCHANGED Codex!vars
  <2>1. UNCHANGED <<Codex!relayVars, outcome>>
    BY <1>7 DEF Codex!Request, Codex!Read, Codex!Judge, Codex!ReadsNothing, Codex!WorkerReturns, Codex!Finish,
                Codex!ClientAnswers, Codex!ClientAdds, Codex!ClientCompletes, Codex!ClientExits, Codex!vars
  <2> QED BY <2>1 DEF Codex!relayVars, ChunkFits, Codex!Authorised, RelayFits, Codex!Published
<1> QED BY <1>1, <1>2, <1>3, <1>4, <1>5, <1>6, <1>7 DEF Codex!Next, Codex!Conversing

\* However many writes a chunk takes, and whenever control or the deadline is lost, every chunk
\* was admitted under both, and a connection that has lost one sends no more than the rest of
\* its one admitted chunk; nothing is reported while a connection is open, and nothing is
\* published of a turn with a refused one (egress.py _open, _pump, __aexit__).
THEOREM EgressMediated ==
    ASSUME ChunkWrites \in Nat
    PROVE  Codex!Spec => []Codex!EgressIsMediated
<1>1. Codex!Init => ChunkFits /\ RelayFits
  <2>1. Codex!Init => Codex!RelayInit /\ outcome = "none" BY Zenon DEF Codex!Init
  <2>2. Codex!RelayInit => ChunkFits BY DEF Codex!RelayInit, ChunkFits
  <2>3. Codex!RelayInit /\ outcome = "none" => RelayFits BY DEF Codex!RelayInit, RelayFits, Codex!Published
  <2> QED BY <2>1, <2>2, <2>3
<1>2. ChunkFits /\ RelayFits /\ [Codex!Next]_Codex!vars => (ChunkFits /\ RelayFits)' BY TurnStepFits
<1>3. ChunkFits /\ RelayFits => Codex!EgressIsMediated BY DEF ChunkFits, RelayFits, Codex!EgressIsMediated
<1> QED BY <1>1, <1>2, <1>3, PTL DEF Codex!Spec
=============================================================================
