------------------------- MODULE RunLifecycleProofs -------------------------
(***************************************************************************)
(* Theorems about RunLifecycle, for every set of workers, every number of  *)
(* units and bindings and every bound on epochs.                           *)
(*                                                                         *)
(* Inductive (defined in RunLifecycle) is the inductive invariant.  Each   *)
(* of its conjuncts has one lemma XStep below: from the conjuncts it needs *)
(* and one step, the conjunct holds again, with one proof step per action. *)
(* The lemmas before them say what helper operators return and when an     *)
(* attempt that a step does not touch keeps its part of a conjunct.        *)
(***************************************************************************)
EXTENDS RunLifecycle, TLAPS

\* The order in which bindings, acquisitions and stale rows are visited picks
\* an element of what is left.
LEMMA ChooseElement == \A S : S # {} => FirstOf(S) \in S
  BY DEF FirstOf

\* Wherever an attempt visits the next one, there is one left.
LEMMA ChosenElements ==
  ASSUME TypeOK, Shape, NEW w \in Workers
  PROVE  /\ pc[w] \in {"stale", "staleRow"} => NextStale(w) \in stale[w]
         /\ pc[w] \in {"acquire", "record"} => NextBind(w) \in Binds \ acquired[w]
         /\ pc[w] \in {"closing", "closeRow"} => NextAcquired(w) \in acquired[w]
  <1>1. pc[w] \in {"stale", "staleRow"} => stale[w] # {}
    BY DEF Shape, ShapeOf
  <1>2. pc[w] \in {"acquire", "record"} => Binds \ acquired[w] # {}
    BY DEF Shape, ShapeOf, TypeOK, InvocationTypes
  <1>3. pc[w] \in {"closing", "closeRow"} => acquired[w] # {}
    BY DEF Shape, ShapeOf
  <1> QED BY <1>1, <1>2, <1>3, ChooseElement DEF NextStale, NextBind, NextAcquired

\* The acquisition an attempt works on carries a unit and a claimed epoch.
LEMMA AcquisitionTyped ==
  ASSUME TypeOK, Shape, NEW w \in Workers, NEW b \in Binds, pc[w] \in Invoking \cup Closing
  PROVE  AcquisitionOf(w, b) \in Acquisitions
  BY BoundsAssumption DEF TypeOK, AttemptTypes, InvocationTypes, Shape, ShapeOf, AcquisitionOf, Acquisitions, Epochs, Units, Invoking, Closing

\* The bookkeeping stays typed when a unit is done.
LEMMA UnitDoneTyped ==
  ASSUME InvocationTypes, NEW w \in Workers, unit[w] \in Units,
         NEW outcome \in Results, UnitDone(w, outcome)
  PROVE  InvocationTypes'
  <1>1. unit' \in [Workers -> 1..(NumUnits + 1)]
    BY BoundsAssumption DEF UnitDone, InvocationTypes, Units
  <1>2. result' \in [Workers -> [Units -> Results]]
    BY DEF UnitDone, InvocationTypes
  <1> QED BY <1>1, <1>2 DEF UnitDone, InvocationTypes

\* An attempt that a step does not touch keeps agreeing with the checkpoints.
LEMMA ProgressKept ==
  ASSUME NEW v \in Workers, ProgressOf(v), ShapeOf(v),
         pc'[v] = pc[v], unit'[v] = unit[v], result'[v] = result[v], after'[v] = after[v],
         \A u \in Units : ckpt[u] # 0 => ckpt'[u] # 0
  PROVE  ProgressOf(v)'
  BY DEF ProgressOf, ShapeOf, Closing

\* A fresh or forgotten attempt claims nothing about any unit.
LEMMA ProgressForgotten ==
  ASSUME NEW v \in Workers, unit'[v] = 1, result'[v] = Unvisited, pc'[v] \notin Closing
  PROVE  ProgressOf(v)'
  BY BoundsAssumption DEF ProgressOf, Unvisited, Units

\* An attempt that finishes a unit.
LEMMA ProgressAfterUnit ==
  ASSUME TypeOK, NEW w \in Workers, ProgressOf(w), unit[w] \in Units,
         NEW outcome \in Results \ {"none"}, UnitDone(w, outcome),
         outcome = "completed" => ckpt[unit[w]] # 0, UNCHANGED ckpt
  PROVE  ProgressOf(w)'
  <1>1. unit'[w] = unit[w] + 1 /\ pc'[w] = "scan"
    BY DEF UnitDone, Goto, TypeOK, AttemptTypes, InvocationTypes
  <1>2. \A u \in Units : result'[w][u] = IF u = unit[w] THEN outcome ELSE result[w][u]
    BY DEF UnitDone, TypeOK, InvocationTypes
  <1>3. \A u \in Units : u < unit[w] + 1 => u < unit[w] \/ u = unit[w]
    BY BoundsAssumption DEF Units
  <1> QED BY <1>1, <1>2, <1>3 DEF ProgressOf, Closing

\* An attempt that a step does not touch keeps its acquisitions, if the step
\* removes nothing of that attempt's epoch.
LEMMA LiveKept ==
  ASSUME NEW v \in Workers, LiveOf(v), UNCHANGED epoch,
         pc'[v] = pc[v], unit'[v] = unit[v], held'[v] = held[v], acquired'[v] = acquired[v],
         \A u, b : <<u, b, held[v]>> \in staging => <<u, b, held[v]>> \in staging',
         \A u, b : <<u, b, held[v]>> \in active => <<u, b, held[v]>> \in active'
  PROVE  LiveOf(v)'
  BY DEF LiveOf, AcquisitionOf, NextBind

\* A step of w that removes only acquisitions of w's own epoch or older ones
\* leaves the acquisitions of every other attempt that holds the current epoch.
LEMMA LiveOfOthers ==
  ASSUME TypeOK, UniqueEpochs, EpochsBounded, NEW w \in Workers, NEW v \in Workers, v # w,
         held[w] # 0, LiveOf(v), UNCHANGED epoch,
         pc'[v] = pc[v], unit'[v] = unit[v], held'[v] = held[v], acquired'[v] = acquired[v],
         \A a \in staging \ staging' : a[3] <= held[w],
         \A a \in active \ active' : a[3] <= held[w]
  PROVE  LiveOf(v)'
  <1>1. CASE held[v] # epoch
    BY <1>1 DEF LiveOf
  <1>2. CASE held[v] = epoch
    <2>1. held[w] < held[v] /\ held[v] \in Nat /\ held[w] \in Nat
      BY <1>2 DEF UniqueEpochs, EpochsBounded, TypeOK, AttemptTypes, JournalTypes
    <2>2. \A u, b : <<u, b, held[v]>> \in staging => <<u, b, held[v]>> \in staging'
      BY <2>1
    <2>3. \A u, b : <<u, b, held[v]>> \in active => <<u, b, held[v]>> \in active'
      BY <2>1
    <2> QED BY <2>2, <2>3, LiveKept
  <1> QED BY <1>1, <1>2

\* An attempt that a step does not touch keeps what it knows of its candidates.
LEMMA CandidatesKept ==
  ASSUME NEW v \in Workers, CandidatesOf(v), UNCHANGED epoch,
         pc'[v] = pc[v], unit'[v] = unit[v], held'[v] = held[v], after'[v] = after[v],
         \A u : ckpt'[u] = ckpt[u] \/ ckpt'[u] # held[v],
         \A a \in imported' : a[3] = held[v] => a \in imported,
         \A a \in candidates : a[3] = held[v] /\ held[v] = epoch => a \in candidates'
  PROVE  CandidatesOf(v)'
  BY DEF CandidatesOf

\* The ways through an attempt: only an invocation invokes on, only it or its own
\* close closes, and the implementation is reached only from before it.
MovesOn(w) ==
  /\ pc'[w] \in Invoking => pc[w] \in Invoking
  /\ pc'[w] \in Closing /\ after'[w] # "completed" =>
        pc[w] \in Invoking \/ (pc[w] \in Closing /\ after[w] # "completed")
  /\ pc'[w] \in BeforeImpl => pc[w] \in BeforeImpl
  /\ pc'[w] \in {"impl", "complete"} => pc[w] \in {"impl", "complete"} \cup BeforeImpl

\* A step that only moves one attempt along those ways keeps Candidates.
LEMMA CandidatesMoved ==
  ASSUME NEW w \in Workers, TypeOK, Candidates, MovesOn(w),
         UNCHANGED <<ckpt, candidates, imported, epoch, unit, held>>,
         \A v \in Workers \ {w} : pc'[v] = pc[v] /\ after'[v] = after[v]
  PROVE  Candidates'
  <1>1. ASSUME NEW v \in Workers, v # w PROVE CandidatesOf(v)'
    BY <1>1, CandidatesKept DEF Candidates
  <1>2. CandidatesOf(w)
    BY DEF Candidates
  <1>3. pc[w] \in BeforeImpl => \A a \in imported : a[3] = held[w] => a[1] # unit[w]
    BY <1>2 DEF CandidatesOf, TypeOK, ResourceTypes, InvocationTypes, Acquisitions, Units
  <1>4. CandidatesOf(w)'
    BY <1>2, <1>3 DEF CandidatesOf, MovesOn
  <1> QED BY <1>1, <1>4 DEF Candidates

\* An attempt of an epoch under which nothing was imported.
LEMMA CandidatesFresh ==
  ASSUME NEW v \in Workers, pc'[v] \notin Invoking \cup Closing,
         \A a \in imported' : a[3] # held'[v]
  PROVE  CandidatesOf(v)'
  BY DEF CandidatesOf, Invoking

\* An attempt that finishes a unit whose imports it has left behind.
LEMMA CandidatesAfterUnit ==
  ASSUME TypeOK, NEW w \in Workers, NEW outcome, UnitDone(w, outcome), UNCHANGED <<held, imported>>,
         \A a \in imported : a[3] = held[w] => a[1] <= unit[w]
  PROVE  CandidatesOf(w)'
  <1>1. unit'[w] = unit[w] + 1 /\ pc'[w] = "scan" /\ unit[w] \in Nat
    BY BoundsAssumption DEF UnitDone, Goto, TypeOK, AttemptTypes, InvocationTypes
  <1>2. \A a \in imported : a[1] \in Nat
    BY BoundsAssumption DEF TypeOK, ResourceTypes, Acquisitions, Units
  <1> QED BY <1>1, <1>2 DEF CandidatesOf, Invoking, Closing, BeforeImpl

\* Every step keeps the types of the run row and the checkpoints.
LEMMA JournalTypesStep ==
  ASSUME TypeOK, Shape, [Next]_vars
  PROVE  JournalTypes'
  <1> USE BoundsAssumption, NoneAssumption
  <1>1. ASSUME NEW w \in Workers, ClaimRun(w) PROVE JournalTypes'
    <2>1. epoch' \in 0..MaxEpoch
      <3>1. epoch \in 0..MaxEpoch /\ epoch < MaxEpoch /\ epoch' = epoch + 1
        BY <1>1 DEF ClaimRun, NextEpoch, TypeOK, JournalTypes
      <3> QED BY <3>1
    <2>2. owner' = w /\ expired' = FALSE
      BY <1>1 DEF ClaimRun
    <2> QED BY <1>1, <2>1, <2>2 DEF ClaimRun, TypeOK, JournalTypes
  <1>2. ASSUME NEW w \in Workers, Begin(w) PROVE JournalTypes'
    BY <1>2 DEF Begin, Goto, Event, Stop, Claimable, Fenced, TypeOK, JournalTypes,
         AttemptTypes, Statuses, Terminal, vars, journal, runRow, rowVars, physical, attempt,
         invocation
  <1>3. ASSUME NEW w \in Workers, ReadStaleLeases(w) PROVE JournalTypes'
    BY <1>3 DEF ReadStaleLeases, Goto, TypeOK, JournalTypes, AttemptTypes, Statuses, Terminal,
         vars, journal, runRow, rowVars, physical, attempt, invocation
  <1>4. ASSUME NEW w \in Workers, ReconcileStale(w) PROVE JournalTypes'
    BY <1>4 DEF ReconcileStale, Goto, TypeOK, JournalTypes, AttemptTypes, Statuses, Terminal,
         vars, journal, runRow, rowVars, physical, attempt, invocation
  <1>5. ASSUME NEW w \in Workers, CloseStaleRow(w) PROVE JournalTypes'
    BY <1>5 DEF CloseStaleRow, CloseLeaseRow, Goto, Event, Stop, MayWrite, Fenced, TypeOK,
         JournalTypes, AttemptTypes, Statuses, Terminal, vars, journal, runRow, rowVars,
         physical, attempt, invocation
  <1>6. ASSUME NEW w \in Workers, ScanControl(w) PROVE JournalTypes'
    BY <1>6 DEF ScanControl, Goto, TypeOK, JournalTypes, AttemptTypes, Statuses, Terminal,
         vars, journal, runRow, rowVars, physical, attempt, invocation
  <1>7. ASSUME NEW w \in Workers, ScanUnit(w) PROVE JournalTypes'
    BY <1>7 DEF ScanUnit, UnitDone, Goto, Event, Stop, MayWrite, Fenced, TypeOK, JournalTypes,
         AttemptTypes, Statuses, Terminal, vars, journal, runRow, rowVars, physical, attempt,
         invocation
  <1>8. ASSUME NEW w \in Workers, Conclude(w) PROVE JournalTypes'
    BY <1>8 DEF Conclude, ConcludeAs, Goto, Event, Stop, MayWrite, Fenced, TypeOK,
         JournalTypes, AttemptTypes, Statuses, Terminal, vars, journal, runRow, rowVars,
         physical, attempt, invocation, Verdict
  <1>9. ASSUME NEW w \in Workers, ConcludeCancelled(w) PROVE JournalTypes'
    BY <1>9 DEF ConcludeCancelled, ConcludeAs, Goto, Event, MayWrite, Fenced, TypeOK,
         JournalTypes, AttemptTypes, Statuses, Terminal, vars, journal, runRow, rowVars,
         physical, attempt, invocation
  <1>10. ASSUME NEW w \in Workers, Acquire(w) PROVE JournalTypes'
    BY <1>10 DEF Acquire, StartClose, Goto, Stop, TypeOK, JournalTypes, AttemptTypes, Statuses,
         Terminal, vars, journal, runRow, rowVars, physical, attempt, invocation
  <1>11. ASSUME NEW w \in Workers, RecordLease(w) PROVE JournalTypes'
    BY <1>11 DEF RecordLease, Goto, Event, MayWrite, Fenced, TypeOK, JournalTypes,
         AttemptTypes, Statuses, Terminal, vars, journal, runRow, rowVars, physical, attempt,
         invocation
  <1>12. ASSUME NEW w \in Workers, RecordLeaseAnswerLost(w) PROVE JournalTypes'
    BY <1>12 DEF RecordLeaseAnswerLost, StartClose, Goto, Event, MayWrite, Fenced, TypeOK,
         JournalTypes, AttemptTypes, Statuses, Terminal, vars, journal, runRow, rowVars,
         physical, attempt, invocation
  <1>13. ASSUME NEW w \in Workers, ImplReturns(w) PROVE JournalTypes'
    BY <1>13 DEF ImplReturns, Goto, TypeOK, JournalTypes, AttemptTypes, Statuses, Terminal,
         vars, journal, runRow, rowVars, physical, attempt, invocation
  <1>14. ASSUME NEW w \in Workers, ImplRaises(w) PROVE JournalTypes'
    BY <1>14 DEF ImplRaises, StartClose, Goto, TypeOK, JournalTypes, AttemptTypes, Statuses,
         Terminal, vars, journal, runRow, rowVars, physical, attempt, invocation
  <1>15. ASSUME NEW w \in Workers, ImplFencedOut(w) PROVE JournalTypes'
    BY <1>15 DEF ImplFencedOut, Stop, Goto, TypeOK, JournalTypes, AttemptTypes, Statuses,
         Terminal, vars, journal, runRow, rowVars, physical, attempt, invocation
  <1>16. ASSUME NEW w \in Workers, RecordCompletion(w) PROVE JournalTypes'
    <2>1. ckpt' \in [Units -> 0..MaxEpoch] /\ writer' \in 0..MaxEpoch
      BY <1>16 DEF RecordCompletion, Event, Stop, Shape, ShapeOf, Invoking, TypeOK,
           JournalTypes, AttemptTypes, journal
    <2>2. UNCHANGED <<runRow, mode>>
      BY <1>16 DEF RecordCompletion, Stop, journal
    <2> QED BY <2>1, <2>2 DEF runRow, TypeOK, JournalTypes
  <1>17. ASSUME NEW w \in Workers, RecordCompletionAnswerLost(w) PROVE JournalTypes'
    BY <1>17 DEF RecordCompletionAnswerLost, StartClose, Goto, Event, MayWrite, Fenced,
         FaultOn, TypeOK, JournalTypes, AttemptTypes, Statuses, Terminal, vars, journal,
         runRow, rowVars, physical, attempt, invocation, Shape, ShapeOf, Invoking, Units
  <1>18. ASSUME NEW w \in Workers, AffirmOwnership(w) PROVE JournalTypes'
    BY <1>18 DEF AffirmOwnership, Goto, Stop, TypeOK, JournalTypes, AttemptTypes, Statuses,
         Terminal, vars, journal, runRow, rowVars, physical, attempt, invocation
  <1>19. ASSUME NEW w \in Workers, NothingToClose(w) PROVE JournalTypes'
    BY <1>19 DEF NothingToClose, Goto, TypeOK, JournalTypes, AttemptTypes, Statuses, Terminal,
         vars, journal, runRow, rowVars, physical, attempt, invocation
  <1>20. ASSUME NEW w \in Workers, ClosePhysical(w) PROVE JournalTypes'
    BY <1>20 DEF ClosePhysical, Goto, TypeOK, JournalTypes, AttemptTypes, Statuses, Terminal,
         vars, journal, runRow, rowVars, physical, attempt, invocation
  <1>21. ASSUME NEW w \in Workers, CloseFails(w) PROVE JournalTypes'
    BY <1>21 DEF CloseFails, Goto, TypeOK, JournalTypes, AttemptTypes, Statuses, Terminal,
         vars, journal, runRow, rowVars, physical, attempt, invocation
  <1>22. ASSUME NEW w \in Workers, CloseRow(w) PROVE JournalTypes'
    BY <1>22 DEF CloseRow, CloseLeaseRow, Goto, Event, Stop, MayWrite, Fenced, TypeOK,
         JournalTypes, AttemptTypes, Statuses, Terminal, vars, journal, runRow, rowVars,
         physical, attempt, invocation
  <1>23. ASSUME NEW w \in Workers, Settle(w) PROVE JournalTypes'
    BY <1>23 DEF Settle, UnitDone, Goto, Event, Stop, MayWrite, Fenced, TypeOK, JournalTypes,
         AttemptTypes, Statuses, Terminal, vars, journal, runRow, rowVars, physical, attempt,
         invocation
  <1>24. ASSUME NEW w \in Workers, RecordIntent(w) PROVE JournalTypes'
    BY <1>24 DEF RecordIntent, Goto, TypeOK, JournalTypes, AttemptTypes, Statuses, Terminal,
         vars, journal, runRow, rowVars, physical, attempt, invocation
  <1>25. ASSUME NEW w \in Workers, FinalCancel(w) PROVE JournalTypes'
    BY <1>25 DEF FinalCancel, ConcludeAs, Goto, Event, MayWrite, Fenced, TypeOK, JournalTypes,
         AttemptTypes, Statuses, Terminal, vars, journal, runRow, rowVars, physical, attempt,
         invocation
  <1>26. ASSUME NEW w \in Workers, ReleaseRun(w) PROVE JournalTypes'
    BY <1>26 DEF ReleaseRun, Forget, Goto, Unvisited, TypeOK, JournalTypes, AttemptTypes,
         Statuses, Terminal, vars, journal, runRow, rowVars, physical, attempt, invocation
  <1>27. ASSUME NEW w \in Workers, ImportCandidate(w) PROVE JournalTypes'
    BY <1>27 DEF ImportCandidate, TypeOK, JournalTypes, AttemptTypes, Statuses, Terminal, vars,
         journal, runRow, rowVars, physical, attempt, invocation
  <1>28. ASSUME NEW w \in Workers, Heartbeat(w) PROVE JournalTypes'
    BY <1>28 DEF Heartbeat, TypeOK, JournalTypes, AttemptTypes, Statuses, Terminal, vars,
         journal, runRow, rowVars, physical, attempt, invocation
  <1>29. ASSUME NEW w \in Workers, AsyncCancel(w) PROVE JournalTypes'
    BY <1>29 DEF AsyncCancel, StartClose, Goto, TypeOK, JournalTypes, AttemptTypes, Statuses,
         Terminal, vars, journal, runRow, rowVars, physical, attempt, invocation
  <1>30. ASSUME NEW w \in Workers, Crash(w) PROVE JournalTypes'
    BY <1>30 DEF Crash, Forget, Goto, Unvisited, TypeOK, JournalTypes, AttemptTypes, Statuses,
         Terminal, vars, journal, runRow, rowVars, physical, attempt, invocation
  <1>31. CASE Expire
    BY <1>31 DEF Expire, TypeOK, JournalTypes, AttemptTypes, Statuses, Terminal, vars, journal,
         runRow, rowVars, physical, attempt, invocation
  <1>32. CASE RequestCancel
    BY <1>32 DEF RequestCancel, TypeOK, JournalTypes, AttemptTypes, Statuses, Terminal, vars,
         journal, runRow, rowVars, physical, attempt, invocation
  <1>33. CASE UNCHANGED vars
    BY <1>33 DEF vars, TypeOK, JournalTypes, AttemptTypes, Statuses, Terminal, vars, journal,
         runRow, rowVars, physical, attempt, invocation
  <1> QED BY <1>1, <1>2, <1>3, <1>4, <1>5, <1>6, <1>7, <1>8, <1>9, <1>10, <1>11, <1>12, <1>13,
       <1>14, <1>15, <1>16, <1>17, <1>18, <1>19, <1>20, <1>21, <1>22, <1>23, <1>24, <1>25,
       <1>26, <1>27, <1>28, <1>29, <1>30, <1>31, <1>32, <1>33 DEF Next, Drive

\* Every step keeps the types of the lease rows and the git resources.
LEMMA ResourceTypesStep ==
  ASSUME TypeOK, Shape, [Next]_vars
  PROVE  ResourceTypes'
  <1> USE BoundsAssumption, NoneAssumption
  <1>1. ASSUME NEW w \in Workers, ClaimRun(w) PROVE ResourceTypes'
    BY <1>1 DEF ClaimRun, Goto, Unvisited, NextEpoch, LeaseFree, Claimable, TypeOK,
         ResourceTypes, vars, journal, runRow, rowVars, physical, attempt, invocation
  <1>2. ASSUME NEW w \in Workers, Begin(w) PROVE ResourceTypes'
    BY <1>2 DEF Begin, Goto, Event, Stop, Claimable, Fenced, TypeOK, ResourceTypes, vars,
         journal, runRow, rowVars, physical, attempt, invocation
  <1>3. ASSUME NEW w \in Workers, ReadStaleLeases(w) PROVE ResourceTypes'
    BY <1>3 DEF ReadStaleLeases, Goto, TypeOK, ResourceTypes, vars, journal, runRow, rowVars,
         physical, attempt, invocation
  <1>4. ASSUME NEW w \in Workers, ReconcileStale(w) PROVE ResourceTypes'
    BY <1>4, ChosenElements DEF ReconcileStale, Goto, TypeOK, ResourceTypes, vars, journal,
         runRow, rowVars, physical, attempt, invocation
  <1>5. ASSUME NEW w \in Workers, CloseStaleRow(w) PROVE ResourceTypes'
    BY <1>5, ChosenElements DEF CloseStaleRow, CloseLeaseRow, Goto, Event, Stop, MayWrite,
         Fenced, TypeOK, ResourceTypes, vars, journal, runRow, rowVars, physical, attempt,
         invocation
  <1>6. ASSUME NEW w \in Workers, ScanControl(w) PROVE ResourceTypes'
    BY <1>6 DEF ScanControl, Goto, TypeOK, ResourceTypes, vars, journal, runRow, rowVars,
         physical, attempt, invocation
  <1>7. ASSUME NEW w \in Workers, ScanUnit(w) PROVE ResourceTypes'
    BY <1>7 DEF ScanUnit, UnitDone, Goto, Event, Stop, MayWrite, Fenced, TypeOK, ResourceTypes,
         vars, journal, runRow, rowVars, physical, attempt, invocation
  <1>8. ASSUME NEW w \in Workers, Conclude(w) PROVE ResourceTypes'
    BY <1>8 DEF Conclude, ConcludeAs, Goto, Event, Stop, MayWrite, Fenced, TypeOK,
         ResourceTypes, vars, journal, runRow, rowVars, physical, attempt, invocation
  <1>9. ASSUME NEW w \in Workers, ConcludeCancelled(w) PROVE ResourceTypes'
    BY <1>9 DEF ConcludeCancelled, ConcludeAs, Goto, Event, MayWrite, Fenced, TypeOK,
         ResourceTypes, vars, journal, runRow, rowVars, physical, attempt, invocation
  <1>10. ASSUME NEW w \in Workers, Acquire(w) PROVE ResourceTypes'
    BY <1>10, ChosenElements, AcquisitionTyped DEF Acquire, StartClose, Goto, Stop, TypeOK,
         ResourceTypes, vars, journal, runRow, rowVars, physical, attempt, invocation,
         Invoking, Closing
  <1>11. ASSUME NEW w \in Workers, RecordLease(w) PROVE ResourceTypes'
    BY <1>11, ChosenElements, AcquisitionTyped DEF RecordLease, Goto, Event, MayWrite, Fenced,
         TypeOK, ResourceTypes, vars, journal, runRow, rowVars, physical, attempt, invocation,
         Invoking, Closing
  <1>12. ASSUME NEW w \in Workers, RecordLeaseAnswerLost(w) PROVE ResourceTypes'
    BY <1>12, ChosenElements, AcquisitionTyped DEF RecordLeaseAnswerLost, StartClose, Goto,
         Event, MayWrite, Fenced, TypeOK, ResourceTypes, vars, journal, runRow, rowVars,
         physical, attempt, invocation, Invoking, Closing
  <1>13. ASSUME NEW w \in Workers, ImplReturns(w) PROVE ResourceTypes'
    BY <1>13 DEF ImplReturns, Goto, TypeOK, ResourceTypes, vars, journal, runRow, rowVars,
         physical, attempt, invocation
  <1>14. ASSUME NEW w \in Workers, ImplRaises(w) PROVE ResourceTypes'
    BY <1>14 DEF ImplRaises, StartClose, Goto, TypeOK, ResourceTypes, vars, journal, runRow,
         rowVars, physical, attempt, invocation
  <1>15. ASSUME NEW w \in Workers, ImplFencedOut(w) PROVE ResourceTypes'
    BY <1>15 DEF ImplFencedOut, Stop, Goto, TypeOK, ResourceTypes, vars, journal, runRow,
         rowVars, physical, attempt, invocation
  <1>16. ASSUME NEW w \in Workers, RecordCompletion(w) PROVE ResourceTypes'
    BY <1>16 DEF RecordCompletion, StartClose, Goto, Event, Stop, MayWrite, Fenced, TypeOK,
         ResourceTypes, vars, journal, runRow, rowVars, physical, attempt, invocation
  <1>17. ASSUME NEW w \in Workers, RecordCompletionAnswerLost(w) PROVE ResourceTypes'
    BY <1>17 DEF RecordCompletionAnswerLost, StartClose, Goto, Event, MayWrite, Fenced,
         FaultOn, TypeOK, ResourceTypes, vars, journal, runRow, rowVars, physical, attempt,
         invocation
  <1>18. ASSUME NEW w \in Workers, AffirmOwnership(w) PROVE ResourceTypes'
    BY <1>18 DEF AffirmOwnership, Goto, Stop, TypeOK, ResourceTypes, vars, journal, runRow,
         rowVars, physical, attempt, invocation
  <1>19. ASSUME NEW w \in Workers, NothingToClose(w) PROVE ResourceTypes'
    BY <1>19 DEF NothingToClose, Goto, TypeOK, ResourceTypes, vars, journal, runRow, rowVars,
         physical, attempt, invocation
  <1>20. ASSUME NEW w \in Workers, ClosePhysical(w) PROVE ResourceTypes'
    BY <1>20, ChosenElements DEF ClosePhysical, Goto, TypeOK, ResourceTypes, vars, journal,
         runRow, rowVars, physical, attempt, invocation
  <1>21. ASSUME NEW w \in Workers, CloseFails(w) PROVE ResourceTypes'
    BY <1>21, ChosenElements DEF CloseFails, Goto, TypeOK, ResourceTypes, vars, journal,
         runRow, rowVars, physical, attempt, invocation
  <1>22. ASSUME NEW w \in Workers, CloseRow(w) PROVE ResourceTypes'
    BY <1>22, ChosenElements DEF CloseRow, CloseLeaseRow, Goto, Event, Stop, MayWrite, Fenced,
         TypeOK, ResourceTypes, vars, journal, runRow, rowVars, physical, attempt, invocation
  <1>23. ASSUME NEW w \in Workers, Settle(w) PROVE ResourceTypes'
    BY <1>23 DEF Settle, UnitDone, Goto, Event, Stop, MayWrite, Fenced, TypeOK, ResourceTypes,
         vars, journal, runRow, rowVars, physical, attempt, invocation
  <1>24. ASSUME NEW w \in Workers, RecordIntent(w) PROVE ResourceTypes'
    BY <1>24 DEF RecordIntent, Goto, TypeOK, ResourceTypes, vars, journal, runRow, rowVars,
         physical, attempt, invocation
  <1>25. ASSUME NEW w \in Workers, FinalCancel(w) PROVE ResourceTypes'
    BY <1>25 DEF FinalCancel, ConcludeAs, Goto, Event, MayWrite, Fenced, TypeOK, ResourceTypes,
         vars, journal, runRow, rowVars, physical, attempt, invocation
  <1>26. ASSUME NEW w \in Workers, ReleaseRun(w) PROVE ResourceTypes'
    BY <1>26 DEF ReleaseRun, Forget, Goto, Unvisited, TypeOK, ResourceTypes, vars, journal,
         runRow, rowVars, physical, attempt, invocation
  <1>27. ASSUME NEW w \in Workers, ImportCandidate(w) PROVE ResourceTypes'
    BY <1>27, AcquisitionTyped DEF ImportCandidate, TypeOK, ResourceTypes, vars, journal,
         runRow, rowVars, physical, attempt, invocation, Invoking, Closing
  <1>28. ASSUME NEW w \in Workers, Heartbeat(w) PROVE ResourceTypes'
    BY <1>28 DEF Heartbeat, TypeOK, ResourceTypes, vars, journal, runRow, rowVars, physical,
         attempt, invocation
  <1>29. ASSUME NEW w \in Workers, AsyncCancel(w) PROVE ResourceTypes'
    BY <1>29 DEF AsyncCancel, StartClose, Goto, TypeOK, ResourceTypes, vars, journal, runRow,
         rowVars, physical, attempt, invocation
  <1>30. ASSUME NEW w \in Workers, Crash(w) PROVE ResourceTypes'
    BY <1>30 DEF Crash, Forget, Goto, Unvisited, TypeOK, ResourceTypes, vars, journal, runRow,
         rowVars, physical, attempt, invocation
  <1>31. CASE Expire
    BY <1>31 DEF Expire, TypeOK, ResourceTypes, vars, journal, runRow, rowVars, physical,
         attempt, invocation
  <1>32. CASE RequestCancel
    BY <1>32 DEF RequestCancel, TypeOK, ResourceTypes, vars, journal, runRow, rowVars,
         physical, attempt, invocation
  <1>33. CASE UNCHANGED vars
    BY <1>33 DEF vars, TypeOK, ResourceTypes, vars, journal, runRow, rowVars, physical,
         attempt, invocation
  <1> QED BY <1>1, <1>2, <1>3, <1>4, <1>5, <1>6, <1>7, <1>8, <1>9, <1>10, <1>11, <1>12, <1>13,
       <1>14, <1>15, <1>16, <1>17, <1>18, <1>19, <1>20, <1>21, <1>22, <1>23, <1>24, <1>25,
       <1>26, <1>27, <1>28, <1>29, <1>30, <1>31, <1>32, <1>33 DEF Next, Drive

\* Every step keeps the types of the attempts' control state.
LEMMA AttemptTypesStep ==
  ASSUME TypeOK, Shape, [Next]_vars
  PROVE  AttemptTypes'
  <1> USE BoundsAssumption, NoneAssumption
  <1>1. ASSUME NEW w \in Workers, ClaimRun(w) PROVE AttemptTypes'
    BY <1>1 DEF ClaimRun, Goto, Unvisited, NextEpoch, LeaseFree, Claimable, TypeOK,
         AttemptTypes, JournalTypes, PCs, Reasons, vars, journal, runRow, rowVars, physical,
         attempt, invocation
  <1>2. ASSUME NEW w \in Workers, Begin(w) PROVE AttemptTypes'
    BY <1>2 DEF Begin, Goto, Event, Stop, Claimable, Fenced, TypeOK, AttemptTypes,
         JournalTypes, PCs, Reasons, vars, journal, runRow, rowVars, physical, attempt,
         invocation
  <1>3. ASSUME NEW w \in Workers, ReadStaleLeases(w) PROVE AttemptTypes'
    BY <1>3 DEF ReadStaleLeases, Goto, TypeOK, AttemptTypes, JournalTypes, PCs, Reasons, vars,
         journal, runRow, rowVars, physical, attempt, invocation
  <1>4. ASSUME NEW w \in Workers, ReconcileStale(w) PROVE AttemptTypes'
    BY <1>4 DEF ReconcileStale, Goto, TypeOK, AttemptTypes, JournalTypes, PCs, Reasons, vars,
         journal, runRow, rowVars, physical, attempt, invocation
  <1>5. ASSUME NEW w \in Workers, CloseStaleRow(w) PROVE AttemptTypes'
    BY <1>5 DEF CloseStaleRow, CloseLeaseRow, Goto, Event, Stop, MayWrite, Fenced, TypeOK,
         AttemptTypes, JournalTypes, PCs, Reasons, vars, journal, runRow, rowVars, physical,
         attempt, invocation
  <1>6. ASSUME NEW w \in Workers, ScanControl(w) PROVE AttemptTypes'
    BY <1>6 DEF ScanControl, Goto, TypeOK, AttemptTypes, JournalTypes, PCs, Reasons, vars,
         journal, runRow, rowVars, physical, attempt, invocation
  <1>7. ASSUME NEW w \in Workers, ScanUnit(w) PROVE AttemptTypes'
    BY <1>7 DEF ScanUnit, UnitDone, Goto, Event, Stop, MayWrite, Fenced, TypeOK, AttemptTypes,
         JournalTypes, PCs, Reasons, vars, journal, runRow, rowVars, physical, attempt,
         invocation
  <1>8. ASSUME NEW w \in Workers, Conclude(w) PROVE AttemptTypes'
    BY <1>8 DEF Conclude, ConcludeAs, Goto, Event, Stop, MayWrite, Fenced, TypeOK,
         AttemptTypes, JournalTypes, PCs, Reasons, vars, journal, runRow, rowVars, physical,
         attempt, invocation
  <1>9. ASSUME NEW w \in Workers, ConcludeCancelled(w) PROVE AttemptTypes'
    BY <1>9 DEF ConcludeCancelled, ConcludeAs, Goto, Event, MayWrite, Fenced, TypeOK,
         AttemptTypes, JournalTypes, PCs, Reasons, vars, journal, runRow, rowVars, physical,
         attempt, invocation
  <1>10. ASSUME NEW w \in Workers, Acquire(w) PROVE AttemptTypes'
    BY <1>10 DEF Acquire, StartClose, Goto, Stop, TypeOK, AttemptTypes, JournalTypes, PCs,
         Reasons, vars, journal, runRow, rowVars, physical, attempt, invocation
  <1>11. ASSUME NEW w \in Workers, RecordLease(w) PROVE AttemptTypes'
    BY <1>11 DEF RecordLease, Goto, Event, MayWrite, Fenced, TypeOK, AttemptTypes,
         JournalTypes, PCs, Reasons, vars, journal, runRow, rowVars, physical, attempt,
         invocation
  <1>12. ASSUME NEW w \in Workers, RecordLeaseAnswerLost(w) PROVE AttemptTypes'
    BY <1>12 DEF RecordLeaseAnswerLost, StartClose, Goto, Event, MayWrite, Fenced, TypeOK,
         AttemptTypes, JournalTypes, PCs, Reasons, vars, journal, runRow, rowVars, physical,
         attempt, invocation
  <1>13. ASSUME NEW w \in Workers, ImplReturns(w) PROVE AttemptTypes'
    BY <1>13 DEF ImplReturns, Goto, TypeOK, AttemptTypes, JournalTypes, PCs, Reasons, vars,
         journal, runRow, rowVars, physical, attempt, invocation
  <1>14. ASSUME NEW w \in Workers, ImplRaises(w) PROVE AttemptTypes'
    BY <1>14 DEF ImplRaises, StartClose, Goto, TypeOK, AttemptTypes, JournalTypes, PCs,
         Reasons, vars, journal, runRow, rowVars, physical, attempt, invocation
  <1>15. ASSUME NEW w \in Workers, ImplFencedOut(w) PROVE AttemptTypes'
    BY <1>15 DEF ImplFencedOut, Stop, Goto, TypeOK, AttemptTypes, JournalTypes, PCs, Reasons,
         vars, journal, runRow, rowVars, physical, attempt, invocation
  <1>16. ASSUME NEW w \in Workers, RecordCompletion(w) PROVE AttemptTypes'
    BY <1>16 DEF RecordCompletion, StartClose, Goto, Event, Stop, MayWrite, Fenced, TypeOK,
         AttemptTypes, JournalTypes, PCs, Reasons, vars, journal, runRow, rowVars, physical,
         attempt, invocation
  <1>17. ASSUME NEW w \in Workers, RecordCompletionAnswerLost(w) PROVE AttemptTypes'
    BY <1>17 DEF RecordCompletionAnswerLost, StartClose, Goto, Event, MayWrite, Fenced,
         FaultOn, TypeOK, AttemptTypes, JournalTypes, PCs, Reasons, vars, journal, runRow,
         rowVars, physical, attempt, invocation
  <1>18. ASSUME NEW w \in Workers, AffirmOwnership(w) PROVE AttemptTypes'
    BY <1>18 DEF AffirmOwnership, Goto, Stop, TypeOK, AttemptTypes, JournalTypes, PCs, Reasons,
         vars, journal, runRow, rowVars, physical, attempt, invocation
  <1>19. ASSUME NEW w \in Workers, NothingToClose(w) PROVE AttemptTypes'
    BY <1>19 DEF NothingToClose, Goto, TypeOK, AttemptTypes, JournalTypes, PCs, Reasons, vars,
         journal, runRow, rowVars, physical, attempt, invocation
  <1>20. ASSUME NEW w \in Workers, ClosePhysical(w) PROVE AttemptTypes'
    BY <1>20 DEF ClosePhysical, Goto, TypeOK, AttemptTypes, JournalTypes, PCs, Reasons, vars,
         journal, runRow, rowVars, physical, attempt, invocation
  <1>21. ASSUME NEW w \in Workers, CloseFails(w) PROVE AttemptTypes'
    BY <1>21 DEF CloseFails, Goto, TypeOK, AttemptTypes, JournalTypes, PCs, Reasons, vars,
         journal, runRow, rowVars, physical, attempt, invocation
  <1>22. ASSUME NEW w \in Workers, CloseRow(w) PROVE AttemptTypes'
    BY <1>22 DEF CloseRow, CloseLeaseRow, Goto, Event, Stop, MayWrite, Fenced, TypeOK,
         AttemptTypes, JournalTypes, PCs, Reasons, vars, journal, runRow, rowVars, physical,
         attempt, invocation
  <1>23. ASSUME NEW w \in Workers, Settle(w) PROVE AttemptTypes'
    BY <1>23 DEF Settle, UnitDone, Goto, Event, Stop, MayWrite, Fenced, TypeOK, AttemptTypes,
         JournalTypes, PCs, Reasons, vars, journal, runRow, rowVars, physical, attempt,
         invocation
  <1>24. ASSUME NEW w \in Workers, RecordIntent(w) PROVE AttemptTypes'
    BY <1>24 DEF RecordIntent, Goto, TypeOK, AttemptTypes, JournalTypes, PCs, Reasons, vars,
         journal, runRow, rowVars, physical, attempt, invocation
  <1>25. ASSUME NEW w \in Workers, FinalCancel(w) PROVE AttemptTypes'
    BY <1>25 DEF FinalCancel, ConcludeAs, Goto, Event, MayWrite, Fenced, TypeOK, AttemptTypes,
         JournalTypes, PCs, Reasons, vars, journal, runRow, rowVars, physical, attempt,
         invocation
  <1>26. ASSUME NEW w \in Workers, ReleaseRun(w) PROVE AttemptTypes'
    BY <1>26 DEF ReleaseRun, Forget, Goto, Unvisited, TypeOK, AttemptTypes, JournalTypes, PCs,
         Reasons, vars, journal, runRow, rowVars, physical, attempt, invocation
  <1>27. ASSUME NEW w \in Workers, ImportCandidate(w) PROVE AttemptTypes'
    BY <1>27 DEF ImportCandidate, TypeOK, AttemptTypes, JournalTypes, PCs, Reasons, vars,
         journal, runRow, rowVars, physical, attempt, invocation
  <1>28. ASSUME NEW w \in Workers, Heartbeat(w) PROVE AttemptTypes'
    BY <1>28 DEF Heartbeat, TypeOK, AttemptTypes, JournalTypes, PCs, Reasons, vars, journal,
         runRow, rowVars, physical, attempt, invocation
  <1>29. ASSUME NEW w \in Workers, AsyncCancel(w) PROVE AttemptTypes'
    BY <1>29 DEF AsyncCancel, StartClose, Goto, TypeOK, AttemptTypes, JournalTypes, PCs,
         Reasons, vars, journal, runRow, rowVars, physical, attempt, invocation
  <1>30. ASSUME NEW w \in Workers, Crash(w) PROVE AttemptTypes'
    BY <1>30 DEF Crash, Forget, Goto, Unvisited, TypeOK, AttemptTypes, JournalTypes, PCs,
         Reasons, vars, journal, runRow, rowVars, physical, attempt, invocation
  <1>31. CASE Expire
    BY <1>31 DEF Expire, TypeOK, AttemptTypes, JournalTypes, PCs, Reasons, vars, journal,
         runRow, rowVars, physical, attempt, invocation
  <1>32. CASE RequestCancel
    BY <1>32 DEF RequestCancel, TypeOK, AttemptTypes, JournalTypes, PCs, Reasons, vars,
         journal, runRow, rowVars, physical, attempt, invocation
  <1>33. CASE UNCHANGED vars
    BY <1>33 DEF vars, TypeOK, AttemptTypes, JournalTypes, PCs, Reasons, vars, journal, runRow,
         rowVars, physical, attempt, invocation
  <1> QED BY <1>1, <1>2, <1>3, <1>4, <1>5, <1>6, <1>7, <1>8, <1>9, <1>10, <1>11, <1>12, <1>13,
       <1>14, <1>15, <1>16, <1>17, <1>18, <1>19, <1>20, <1>21, <1>22, <1>23, <1>24, <1>25,
       <1>26, <1>27, <1>28, <1>29, <1>30, <1>31, <1>32, <1>33 DEF Next, Drive

\* Every step keeps the types of the attempts' bookkeeping.
LEMMA InvocationTypesStep ==
  ASSUME TypeOK, Shape, [Next]_vars
  PROVE  InvocationTypes'
  <1> USE BoundsAssumption, NoneAssumption
  <1>1. ASSUME NEW w \in Workers, ClaimRun(w) PROVE InvocationTypes'
    BY <1>1 DEF ClaimRun, Goto, Unvisited, NextEpoch, LeaseFree, Claimable, TypeOK,
         InvocationTypes, AttemptTypes, ResourceTypes, Results, vars, journal, runRow, rowVars,
         physical, attempt, invocation
  <1>2. ASSUME NEW w \in Workers, Begin(w) PROVE InvocationTypes'
    BY <1>2 DEF Begin, Goto, Event, Stop, Claimable, Fenced, TypeOK, InvocationTypes,
         AttemptTypes, ResourceTypes, Results, vars, journal, runRow, rowVars, physical,
         attempt, invocation
  <1>3. ASSUME NEW w \in Workers, ReadStaleLeases(w) PROVE InvocationTypes'
    BY <1>3 DEF ReadStaleLeases, Goto, TypeOK, InvocationTypes, AttemptTypes, ResourceTypes,
         Results, vars, journal, runRow, rowVars, physical, attempt, invocation
  <1>4. ASSUME NEW w \in Workers, ReconcileStale(w) PROVE InvocationTypes'
    BY <1>4 DEF ReconcileStale, Goto, TypeOK, InvocationTypes, AttemptTypes, ResourceTypes,
         Results, vars, journal, runRow, rowVars, physical, attempt, invocation
  <1>5. ASSUME NEW w \in Workers, CloseStaleRow(w) PROVE InvocationTypes'
    BY <1>5 DEF CloseStaleRow, CloseLeaseRow, Goto, Event, Stop, MayWrite, Fenced, TypeOK,
         InvocationTypes, AttemptTypes, ResourceTypes, Results, vars, journal, runRow, rowVars,
         physical, attempt, invocation
  <1>6. ASSUME NEW w \in Workers, ScanControl(w) PROVE InvocationTypes'
    BY <1>6 DEF ScanControl, Goto, TypeOK, InvocationTypes, AttemptTypes, ResourceTypes,
         Results, vars, journal, runRow, rowVars, physical, attempt, invocation
  <1>7. ASSUME NEW w \in Workers, ScanUnit(w) PROVE InvocationTypes'
    <2>1. CASE UNCHANGED <<unit, acquired, result, stale>>
      BY <2>1 DEF TypeOK, InvocationTypes
    <2>2. CASE UnitDone(w, "blocked") \/ UnitDone(w, "completed")
      BY <1>7, <2>2, UnitDoneTyped DEF ScanUnit, TypeOK, Results
    <2> QED BY <1>7, <2>1, <2>2 DEF ScanUnit, Stop, invocation
  <1>8. ASSUME NEW w \in Workers, Conclude(w) PROVE InvocationTypes'
    BY <1>8 DEF Conclude, ConcludeAs, Goto, Event, Stop, MayWrite, Fenced, TypeOK,
         InvocationTypes, AttemptTypes, ResourceTypes, Results, vars, journal, runRow, rowVars,
         physical, attempt, invocation
  <1>9. ASSUME NEW w \in Workers, ConcludeCancelled(w) PROVE InvocationTypes'
    BY <1>9 DEF ConcludeCancelled, ConcludeAs, Goto, Event, MayWrite, Fenced, TypeOK,
         InvocationTypes, AttemptTypes, ResourceTypes, Results, vars, journal, runRow, rowVars,
         physical, attempt, invocation
  <1>10. ASSUME NEW w \in Workers, Acquire(w) PROVE InvocationTypes'
    BY <1>10 DEF Acquire, StartClose, Goto, Stop, TypeOK, InvocationTypes, AttemptTypes,
         ResourceTypes, Results, vars, journal, runRow, rowVars, physical, attempt, invocation
  <1>11. ASSUME NEW w \in Workers, RecordLease(w) PROVE InvocationTypes'
    <2>1. acquired' \in [Workers -> SUBSET Binds]
      BY <1>11, ChosenElements DEF RecordLease, TypeOK, InvocationTypes, invocation
    <2> QED BY <1>11, <2>1 DEF RecordLease, TypeOK, InvocationTypes, invocation
  <1>12. ASSUME NEW w \in Workers, RecordLeaseAnswerLost(w) PROVE InvocationTypes'
    <2>1. acquired' \in [Workers -> SUBSET Binds]
      BY <1>12, ChosenElements DEF RecordLeaseAnswerLost, TypeOK, InvocationTypes
    <2> QED BY <1>12, <2>1 DEF RecordLeaseAnswerLost, TypeOK, InvocationTypes
  <1>13. ASSUME NEW w \in Workers, ImplReturns(w) PROVE InvocationTypes'
    BY <1>13 DEF ImplReturns, Goto, TypeOK, InvocationTypes, AttemptTypes, ResourceTypes,
         Results, vars, journal, runRow, rowVars, physical, attempt, invocation
  <1>14. ASSUME NEW w \in Workers, ImplRaises(w) PROVE InvocationTypes'
    BY <1>14 DEF ImplRaises, StartClose, Goto, TypeOK, InvocationTypes, AttemptTypes,
         ResourceTypes, Results, vars, journal, runRow, rowVars, physical, attempt, invocation
  <1>15. ASSUME NEW w \in Workers, ImplFencedOut(w) PROVE InvocationTypes'
    BY <1>15 DEF ImplFencedOut, Stop, Goto, TypeOK, InvocationTypes, AttemptTypes,
         ResourceTypes, Results, vars, journal, runRow, rowVars, physical, attempt, invocation
  <1>16. ASSUME NEW w \in Workers, RecordCompletion(w) PROVE InvocationTypes'
    BY <1>16 DEF RecordCompletion, StartClose, Goto, Event, Stop, MayWrite, Fenced, TypeOK,
         InvocationTypes, AttemptTypes, ResourceTypes, Results, vars, journal, runRow, rowVars,
         physical, attempt, invocation
  <1>17. ASSUME NEW w \in Workers, RecordCompletionAnswerLost(w) PROVE InvocationTypes'
    BY <1>17 DEF RecordCompletionAnswerLost, StartClose, Goto, Event, MayWrite, Fenced,
         FaultOn, TypeOK, InvocationTypes, AttemptTypes, ResourceTypes, Results, vars, journal,
         runRow, rowVars, physical, attempt, invocation
  <1>18. ASSUME NEW w \in Workers, AffirmOwnership(w) PROVE InvocationTypes'
    BY <1>18 DEF AffirmOwnership, Goto, Stop, TypeOK, InvocationTypes, AttemptTypes,
         ResourceTypes, Results, vars, journal, runRow, rowVars, physical, attempt, invocation
  <1>19. ASSUME NEW w \in Workers, NothingToClose(w) PROVE InvocationTypes'
    BY <1>19 DEF NothingToClose, Goto, TypeOK, InvocationTypes, AttemptTypes, ResourceTypes,
         Results, vars, journal, runRow, rowVars, physical, attempt, invocation
  <1>20. ASSUME NEW w \in Workers, ClosePhysical(w) PROVE InvocationTypes'
    BY <1>20 DEF ClosePhysical, Goto, TypeOK, InvocationTypes, AttemptTypes, ResourceTypes,
         Results, vars, journal, runRow, rowVars, physical, attempt, invocation
  <1>21. ASSUME NEW w \in Workers, CloseFails(w) PROVE InvocationTypes'
    BY <1>21, ChosenElements DEF CloseFails, Goto, TypeOK, InvocationTypes, AttemptTypes,
         ResourceTypes, Results, vars, journal, runRow, rowVars, physical, attempt, invocation
  <1>22. ASSUME NEW w \in Workers, CloseRow(w) PROVE InvocationTypes'
    <2>1. acquired' \in [Workers -> SUBSET Binds]
      BY <1>22 DEF CloseRow, Stop, TypeOK, InvocationTypes, invocation
    <2> QED BY <1>22, <2>1 DEF CloseRow, Stop, TypeOK, InvocationTypes, invocation
  <1>23. ASSUME NEW w \in Workers, Settle(w) PROVE InvocationTypes'
    <2>1. CASE UNCHANGED <<unit, acquired, result, stale>>
      BY <2>1 DEF TypeOK, InvocationTypes
    <2>2. CASE \E outcome \in Results : UnitDone(w, outcome)
      BY <1>23, <2>2, UnitDoneTyped DEF Settle, TypeOK, Shape, ShapeOf, Closing
    <2> QED BY <1>23, <2>1, <2>2 DEF Settle, Stop, invocation, Results
  <1>24. ASSUME NEW w \in Workers, RecordIntent(w) PROVE InvocationTypes'
    BY <1>24 DEF RecordIntent, Goto, TypeOK, InvocationTypes, AttemptTypes, ResourceTypes,
         Results, vars, journal, runRow, rowVars, physical, attempt, invocation
  <1>25. ASSUME NEW w \in Workers, FinalCancel(w) PROVE InvocationTypes'
    BY <1>25 DEF FinalCancel, ConcludeAs, Goto, Event, MayWrite, Fenced, TypeOK,
         InvocationTypes, AttemptTypes, ResourceTypes, Results, vars, journal, runRow, rowVars,
         physical, attempt, invocation
  <1>26. ASSUME NEW w \in Workers, ReleaseRun(w) PROVE InvocationTypes'
    BY <1>26 DEF ReleaseRun, Forget, Goto, Unvisited, TypeOK, InvocationTypes, AttemptTypes,
         ResourceTypes, Results, vars, journal, runRow, rowVars, physical, attempt, invocation
  <1>27. ASSUME NEW w \in Workers, ImportCandidate(w) PROVE InvocationTypes'
    BY <1>27 DEF ImportCandidate, TypeOK, InvocationTypes, AttemptTypes, ResourceTypes,
         Results, vars, journal, runRow, rowVars, physical, attempt, invocation
  <1>28. ASSUME NEW w \in Workers, Heartbeat(w) PROVE InvocationTypes'
    BY <1>28 DEF Heartbeat, TypeOK, InvocationTypes, AttemptTypes, ResourceTypes, Results,
         vars, journal, runRow, rowVars, physical, attempt, invocation
  <1>29. ASSUME NEW w \in Workers, AsyncCancel(w) PROVE InvocationTypes'
    BY <1>29 DEF AsyncCancel, StartClose, Goto, TypeOK, InvocationTypes, AttemptTypes,
         ResourceTypes, Results, vars, journal, runRow, rowVars, physical, attempt, invocation
  <1>30. ASSUME NEW w \in Workers, Crash(w) PROVE InvocationTypes'
    BY <1>30 DEF Crash, Forget, Goto, Unvisited, TypeOK, InvocationTypes, AttemptTypes,
         ResourceTypes, Results, vars, journal, runRow, rowVars, physical, attempt, invocation
  <1>31. CASE Expire
    BY <1>31 DEF Expire, TypeOK, InvocationTypes, AttemptTypes, ResourceTypes, Results, vars,
         journal, runRow, rowVars, physical, attempt, invocation
  <1>32. CASE RequestCancel
    BY <1>32 DEF RequestCancel, TypeOK, InvocationTypes, AttemptTypes, ResourceTypes, Results,
         vars, journal, runRow, rowVars, physical, attempt, invocation
  <1>33. CASE UNCHANGED vars
    BY <1>33 DEF vars, TypeOK, InvocationTypes, AttemptTypes, ResourceTypes, Results, vars,
         journal, runRow, rowVars, physical, attempt, invocation
  <1> QED BY <1>1, <1>2, <1>3, <1>4, <1>5, <1>6, <1>7, <1>8, <1>9, <1>10, <1>11, <1>12, <1>13,
       <1>14, <1>15, <1>16, <1>17, <1>18, <1>19, <1>20, <1>21, <1>22, <1>23, <1>24, <1>25,
       <1>26, <1>27, <1>28, <1>29, <1>30, <1>31, <1>32, <1>33 DEF Next, Drive

\* Every step keeps the types.
LEMMA TypeStep ==
  ASSUME TypeOK, Shape, [Next]_vars
  PROVE  TypeOK'
  BY JournalTypesStep, ResourceTypesStep, AttemptTypesStep, InvocationTypesStep DEF TypeOK

\* Every step keeps the shape of the attempts' bookkeeping.
LEMMA ShapeStep ==
  ASSUME TypeOK, Shape, [Next]_vars
  PROVE  Shape'
  <1> USE BoundsAssumption, NoneAssumption
  <1>1. ASSUME NEW w \in Workers, ClaimRun(w) PROVE Shape'
    BY <1>1 DEF ClaimRun, Goto, Unvisited, NextEpoch, LeaseFree, Claimable, Shape, ShapeOf,
         Invoking, Closing, TypeOK, JournalTypes, AttemptTypes, InvocationTypes, vars, journal,
         runRow, rowVars, physical, attempt, invocation
  <1>2. ASSUME NEW w \in Workers, Begin(w) PROVE Shape'
    BY <1>2 DEF Begin, Goto, Event, Stop, Claimable, Fenced, Shape, ShapeOf, Invoking, Closing,
         TypeOK, JournalTypes, AttemptTypes, InvocationTypes, vars, journal, runRow, rowVars,
         physical, attempt, invocation
  <1>3. ASSUME NEW w \in Workers, ReadStaleLeases(w) PROVE Shape'
    BY <1>3 DEF ReadStaleLeases, Goto, Shape, ShapeOf, Invoking, Closing, TypeOK, JournalTypes,
         AttemptTypes, InvocationTypes, vars, journal, runRow, rowVars, physical, attempt,
         invocation
  <1>4. ASSUME NEW w \in Workers, ReconcileStale(w) PROVE Shape'
    BY <1>4, ChosenElements DEF ReconcileStale, Goto, Shape, ShapeOf, Invoking, Closing,
         TypeOK, JournalTypes, AttemptTypes, InvocationTypes, vars, journal, runRow, rowVars,
         physical, attempt, invocation
  <1>5. ASSUME NEW w \in Workers, CloseStaleRow(w) PROVE Shape'
    BY <1>5, ChosenElements DEF CloseStaleRow, CloseLeaseRow, Goto, Event, Stop, MayWrite,
         Fenced, Shape, ShapeOf, Invoking, Closing, TypeOK, JournalTypes, AttemptTypes,
         InvocationTypes, vars, journal, runRow, rowVars, physical, attempt, invocation
  <1>6. ASSUME NEW w \in Workers, ScanControl(w) PROVE Shape'
    BY <1>6 DEF ScanControl, Goto, Shape, ShapeOf, Invoking, Closing, TypeOK, JournalTypes,
         AttemptTypes, InvocationTypes, vars, journal, runRow, rowVars, physical, attempt,
         invocation
  <1>7. ASSUME NEW w \in Workers, ScanUnit(w) PROVE Shape'
    <2>1. UNCHANGED <<held, stale, acquired>> /\ acquired[w] = {} /\ held[w] # 0
      BY <1>7 DEF ScanUnit, UnitDone, Stop, invocation, attempt, Shape, ShapeOf
    <2>2. /\ pc'[w] \in {"scan", "release", "acquire", "impl"}
          /\ \A v \in Workers \ {w} : pc'[v] = pc[v] /\ unit'[v] = unit[v]
      BY <1>7 DEF ScanUnit, UnitDone, Stop, Goto, invocation, TypeOK, AttemptTypes,
           InvocationTypes
    <2>3. pc'[w] \in {"acquire", "impl"} => unit'[w] \in Units /\ (pc'[w] = "impl" <=> Binds =
         {})
      BY <1>7 DEF ScanUnit, UnitDone, Stop, Goto, TypeOK, AttemptTypes
    <2> QED BY <2>1, <2>2, <2>3 DEF Shape, ShapeOf, Invoking, Closing
  <1>8. ASSUME NEW w \in Workers, Conclude(w) PROVE Shape'
    BY <1>8 DEF Conclude, ConcludeAs, Goto, Event, Stop, MayWrite, Fenced, Shape, ShapeOf,
         Invoking, Closing, TypeOK, JournalTypes, AttemptTypes, InvocationTypes, vars, journal,
         runRow, rowVars, physical, attempt, invocation
  <1>9. ASSUME NEW w \in Workers, ConcludeCancelled(w) PROVE Shape'
    BY <1>9 DEF ConcludeCancelled, ConcludeAs, Goto, Event, MayWrite, Fenced, Shape, ShapeOf,
         Invoking, Closing, TypeOK, JournalTypes, AttemptTypes, InvocationTypes, vars, journal,
         runRow, rowVars, physical, attempt, invocation
  <1>10. ASSUME NEW w \in Workers, Acquire(w) PROVE Shape'
    BY <1>10, ChosenElements DEF Acquire, StartClose, Goto, Stop, Shape, ShapeOf, Invoking,
         Closing, TypeOK, JournalTypes, AttemptTypes, InvocationTypes, vars, journal, runRow,
         rowVars, physical, attempt, invocation
  <1>11. ASSUME NEW w \in Workers, RecordLease(w) PROVE Shape'
    <2> DEFINE all == acquired[w] \cup {NextBind(w)}
    <2>1. UNCHANGED <<held, stale, unit>> /\ held[w] # 0 /\ unit[w] \in Units
      BY <1>11 DEF RecordLease, invocation, attempt, Shape, ShapeOf, Invoking
    <2>2. /\ \A v \in Workers \ {w} : pc'[v] = pc[v] /\ acquired'[v] = acquired[v]
          /\ \/ pc'[w] = "release"
             \/ pc'[w] = "impl" /\ acquired'[w] = all /\ all = Binds
             \/ pc'[w] = "acquire" /\ acquired'[w] = all /\ all # Binds
      BY <1>11 DEF RecordLease, Goto, invocation, TypeOK, AttemptTypes, InvocationTypes
    <2> HIDE DEF all
    <2> QED BY <2>1, <2>2 DEF Shape, ShapeOf, Invoking, Closing
  <1>12. ASSUME NEW w \in Workers, RecordLeaseAnswerLost(w) PROVE Shape'
    BY <1>12, ChosenElements DEF RecordLeaseAnswerLost, StartClose, Goto, Event, MayWrite,
         Fenced, Shape, ShapeOf, Invoking, Closing, TypeOK, JournalTypes, AttemptTypes,
         InvocationTypes, vars, journal, runRow, rowVars, physical, attempt, invocation
  <1>13. ASSUME NEW w \in Workers, ImplReturns(w) PROVE Shape'
    BY <1>13 DEF ImplReturns, Goto, Shape, ShapeOf, Invoking, Closing, TypeOK, JournalTypes,
         AttemptTypes, InvocationTypes, vars, journal, runRow, rowVars, physical, attempt,
         invocation
  <1>14. ASSUME NEW w \in Workers, ImplRaises(w) PROVE Shape'
    BY <1>14 DEF ImplRaises, StartClose, Goto, Shape, ShapeOf, Invoking, Closing, TypeOK,
         JournalTypes, AttemptTypes, InvocationTypes, vars, journal, runRow, rowVars, physical,
         attempt, invocation
  <1>15. ASSUME NEW w \in Workers, ImplFencedOut(w) PROVE Shape'
    BY <1>15 DEF ImplFencedOut, Stop, Goto, Shape, ShapeOf, Invoking, Closing, TypeOK,
         JournalTypes, AttemptTypes, InvocationTypes, vars, journal, runRow, rowVars, physical,
         attempt, invocation
  <1>16. ASSUME NEW w \in Workers, RecordCompletion(w) PROVE Shape'
    BY <1>16 DEF RecordCompletion, StartClose, Goto, Event, Stop, MayWrite, Fenced, Shape,
         ShapeOf, Invoking, Closing, TypeOK, JournalTypes, AttemptTypes, InvocationTypes, vars,
         journal, runRow, rowVars, physical, attempt, invocation
  <1>17. ASSUME NEW w \in Workers, RecordCompletionAnswerLost(w) PROVE Shape'
    BY <1>17 DEF RecordCompletionAnswerLost, StartClose, Goto, Event, MayWrite, Fenced,
         FaultOn, Shape, ShapeOf, Invoking, Closing, TypeOK, JournalTypes, AttemptTypes,
         InvocationTypes, vars, journal, runRow, rowVars, physical, attempt, invocation
  <1>18. ASSUME NEW w \in Workers, AffirmOwnership(w) PROVE Shape'
    BY <1>18 DEF AffirmOwnership, Goto, Stop, Shape, ShapeOf, Invoking, Closing, TypeOK,
         JournalTypes, AttemptTypes, InvocationTypes, vars, journal, runRow, rowVars, physical,
         attempt, invocation
  <1>19. ASSUME NEW w \in Workers, NothingToClose(w) PROVE Shape'
    BY <1>19 DEF NothingToClose, Goto, Shape, ShapeOf, Invoking, Closing, TypeOK, JournalTypes,
         AttemptTypes, InvocationTypes, vars, journal, runRow, rowVars, physical, attempt,
         invocation
  <1>20. ASSUME NEW w \in Workers, ClosePhysical(w) PROVE Shape'
    BY <1>20, ChosenElements DEF ClosePhysical, Goto, Shape, ShapeOf, Invoking, Closing,
         TypeOK, JournalTypes, AttemptTypes, InvocationTypes, vars, journal, runRow, rowVars,
         physical, attempt, invocation
  <1>21. ASSUME NEW w \in Workers, CloseFails(w) PROVE Shape'
    BY <1>21, ChosenElements DEF CloseFails, Goto, Shape, ShapeOf, Invoking, Closing, TypeOK,
         JournalTypes, AttemptTypes, InvocationTypes, vars, journal, runRow, rowVars, physical,
         attempt, invocation
  <1>22. ASSUME NEW w \in Workers, CloseRow(w) PROVE Shape'
    BY <1>22, ChosenElements DEF CloseRow, CloseLeaseRow, Goto, Event, Stop, MayWrite, Fenced,
         Shape, ShapeOf, Invoking, Closing, TypeOK, JournalTypes, AttemptTypes,
         InvocationTypes, vars, journal, runRow, rowVars, physical, attempt, invocation
  <1>23. ASSUME NEW w \in Workers, Settle(w) PROVE Shape'
    BY <1>23 DEF Settle, UnitDone, Goto, Event, Stop, MayWrite, Fenced, Shape, ShapeOf,
         Invoking, Closing, TypeOK, JournalTypes, AttemptTypes, InvocationTypes, vars, journal,
         runRow, rowVars, physical, attempt, invocation
  <1>24. ASSUME NEW w \in Workers, RecordIntent(w) PROVE Shape'
    BY <1>24 DEF RecordIntent, Goto, Shape, ShapeOf, Invoking, Closing, TypeOK, JournalTypes,
         AttemptTypes, InvocationTypes, vars, journal, runRow, rowVars, physical, attempt,
         invocation
  <1>25. ASSUME NEW w \in Workers, FinalCancel(w) PROVE Shape'
    BY <1>25 DEF FinalCancel, ConcludeAs, Goto, Event, MayWrite, Fenced, Shape, ShapeOf,
         Invoking, Closing, TypeOK, JournalTypes, AttemptTypes, InvocationTypes, vars, journal,
         runRow, rowVars, physical, attempt, invocation
  <1>26. ASSUME NEW w \in Workers, ReleaseRun(w) PROVE Shape'
    BY <1>26 DEF ReleaseRun, Forget, Goto, Unvisited, Shape, ShapeOf, Invoking, Closing,
         TypeOK, JournalTypes, AttemptTypes, InvocationTypes, vars, journal, runRow, rowVars,
         physical, attempt, invocation
  <1>27. ASSUME NEW w \in Workers, ImportCandidate(w) PROVE Shape'
    BY <1>27 DEF ImportCandidate, Shape, ShapeOf, Invoking, Closing, TypeOK, JournalTypes,
         AttemptTypes, InvocationTypes, vars, journal, runRow, rowVars, physical, attempt,
         invocation
  <1>28. ASSUME NEW w \in Workers, Heartbeat(w) PROVE Shape'
    BY <1>28 DEF Heartbeat, Shape, ShapeOf, Invoking, Closing, TypeOK, JournalTypes,
         AttemptTypes, InvocationTypes, vars, journal, runRow, rowVars, physical, attempt,
         invocation
  <1>29. ASSUME NEW w \in Workers, AsyncCancel(w) PROVE Shape'
    BY <1>29 DEF AsyncCancel, StartClose, Goto, Shape, ShapeOf, Invoking, Closing, TypeOK,
         JournalTypes, AttemptTypes, InvocationTypes, vars, journal, runRow, rowVars, physical,
         attempt, invocation
  <1>30. ASSUME NEW w \in Workers, Crash(w) PROVE Shape'
    BY <1>30 DEF Crash, Forget, Goto, Unvisited, Shape, ShapeOf, Invoking, Closing, TypeOK,
         JournalTypes, AttemptTypes, InvocationTypes, vars, journal, runRow, rowVars, physical,
         attempt, invocation
  <1>31. CASE Expire
    BY <1>31 DEF Expire, Shape, ShapeOf, Invoking, Closing, TypeOK, JournalTypes, AttemptTypes,
         InvocationTypes, vars, journal, runRow, rowVars, physical, attempt, invocation
  <1>32. CASE RequestCancel
    BY <1>32 DEF RequestCancel, Shape, ShapeOf, Invoking, Closing, TypeOK, JournalTypes,
         AttemptTypes, InvocationTypes, vars, journal, runRow, rowVars, physical, attempt,
         invocation
  <1>33. CASE UNCHANGED vars
    BY <1>33 DEF vars, Shape, ShapeOf, Invoking, Closing, TypeOK, JournalTypes, AttemptTypes,
         InvocationTypes, vars, journal, runRow, rowVars, physical, attempt, invocation
  <1> QED BY <1>1, <1>2, <1>3, <1>4, <1>5, <1>6, <1>7, <1>8, <1>9, <1>10, <1>11, <1>12, <1>13,
       <1>14, <1>15, <1>16, <1>17, <1>18, <1>19, <1>20, <1>21, <1>22, <1>23, <1>24, <1>25,
       <1>26, <1>27, <1>28, <1>29, <1>30, <1>31, <1>32, <1>33 DEF Next, Drive

\* No step gives two attempts one epoch: a claimed epoch is ahead of every held one.
LEMMA UniqueEpochsStep ==
  ASSUME TypeOK, UniqueEpochs, EpochsBounded, [Next]_vars
  PROVE  UniqueEpochs'
  <1> USE BoundsAssumption, NoneAssumption
  <1>1. ASSUME NEW w \in Workers, ClaimRun(w) PROVE UniqueEpochs'
    BY <1>1 DEF ClaimRun, Goto, Unvisited, NextEpoch, LeaseFree, Claimable, UniqueEpochs,
         EpochsBounded, TypeOK, JournalTypes, AttemptTypes, vars, journal, runRow, rowVars,
         physical, attempt, invocation
  <1>2. ASSUME NEW w \in Workers, Begin(w) PROVE UniqueEpochs'
    BY <1>2 DEF Begin, Goto, Event, Stop, Claimable, Fenced, UniqueEpochs, EpochsBounded,
         TypeOK, JournalTypes, AttemptTypes, vars, journal, runRow, rowVars, physical, attempt,
         invocation
  <1>3. ASSUME NEW w \in Workers, ReadStaleLeases(w) PROVE UniqueEpochs'
    BY <1>3 DEF ReadStaleLeases, Goto, UniqueEpochs, EpochsBounded, TypeOK, JournalTypes,
         AttemptTypes, vars, journal, runRow, rowVars, physical, attempt, invocation
  <1>4. ASSUME NEW w \in Workers, ReconcileStale(w) PROVE UniqueEpochs'
    BY <1>4 DEF ReconcileStale, Goto, UniqueEpochs, EpochsBounded, TypeOK, JournalTypes,
         AttemptTypes, vars, journal, runRow, rowVars, physical, attempt, invocation
  <1>5. ASSUME NEW w \in Workers, CloseStaleRow(w) PROVE UniqueEpochs'
    BY <1>5 DEF CloseStaleRow, CloseLeaseRow, Goto, Event, Stop, MayWrite, Fenced,
         UniqueEpochs, EpochsBounded, TypeOK, JournalTypes, AttemptTypes, vars, journal,
         runRow, rowVars, physical, attempt, invocation
  <1>6. ASSUME NEW w \in Workers, ScanControl(w) PROVE UniqueEpochs'
    BY <1>6 DEF ScanControl, Goto, UniqueEpochs, EpochsBounded, TypeOK, JournalTypes,
         AttemptTypes, vars, journal, runRow, rowVars, physical, attempt, invocation
  <1>7. ASSUME NEW w \in Workers, ScanUnit(w) PROVE UniqueEpochs'
    BY <1>7 DEF ScanUnit, UnitDone, Goto, Event, Stop, MayWrite, Fenced, UniqueEpochs,
         EpochsBounded, TypeOK, JournalTypes, AttemptTypes, vars, journal, runRow, rowVars,
         physical, attempt, invocation
  <1>8. ASSUME NEW w \in Workers, Conclude(w) PROVE UniqueEpochs'
    BY <1>8 DEF Conclude, ConcludeAs, Goto, Event, Stop, MayWrite, Fenced, UniqueEpochs,
         EpochsBounded, TypeOK, JournalTypes, AttemptTypes, vars, journal, runRow, rowVars,
         physical, attempt, invocation
  <1>9. ASSUME NEW w \in Workers, ConcludeCancelled(w) PROVE UniqueEpochs'
    BY <1>9 DEF ConcludeCancelled, ConcludeAs, Goto, Event, MayWrite, Fenced, UniqueEpochs,
         EpochsBounded, TypeOK, JournalTypes, AttemptTypes, vars, journal, runRow, rowVars,
         physical, attempt, invocation
  <1>10. ASSUME NEW w \in Workers, Acquire(w) PROVE UniqueEpochs'
    BY <1>10 DEF Acquire, StartClose, Goto, Stop, UniqueEpochs, EpochsBounded, TypeOK,
         JournalTypes, AttemptTypes, vars, journal, runRow, rowVars, physical, attempt,
         invocation
  <1>11. ASSUME NEW w \in Workers, RecordLease(w) PROVE UniqueEpochs'
    BY <1>11 DEF RecordLease, Goto, Event, MayWrite, Fenced, UniqueEpochs, EpochsBounded,
         TypeOK, JournalTypes, AttemptTypes, vars, journal, runRow, rowVars, physical, attempt,
         invocation
  <1>12. ASSUME NEW w \in Workers, RecordLeaseAnswerLost(w) PROVE UniqueEpochs'
    BY <1>12 DEF RecordLeaseAnswerLost, StartClose, Goto, Event, MayWrite, Fenced,
         UniqueEpochs, EpochsBounded, TypeOK, JournalTypes, AttemptTypes, vars, journal,
         runRow, rowVars, physical, attempt, invocation
  <1>13. ASSUME NEW w \in Workers, ImplReturns(w) PROVE UniqueEpochs'
    BY <1>13 DEF ImplReturns, Goto, UniqueEpochs, EpochsBounded, TypeOK, JournalTypes,
         AttemptTypes, vars, journal, runRow, rowVars, physical, attempt, invocation
  <1>14. ASSUME NEW w \in Workers, ImplRaises(w) PROVE UniqueEpochs'
    BY <1>14 DEF ImplRaises, StartClose, Goto, UniqueEpochs, EpochsBounded, TypeOK,
         JournalTypes, AttemptTypes, vars, journal, runRow, rowVars, physical, attempt,
         invocation
  <1>15. ASSUME NEW w \in Workers, ImplFencedOut(w) PROVE UniqueEpochs'
    BY <1>15 DEF ImplFencedOut, Stop, Goto, UniqueEpochs, EpochsBounded, TypeOK, JournalTypes,
         AttemptTypes, vars, journal, runRow, rowVars, physical, attempt, invocation
  <1>16. ASSUME NEW w \in Workers, RecordCompletion(w) PROVE UniqueEpochs'
    BY <1>16 DEF RecordCompletion, StartClose, Goto, Event, Stop, MayWrite, Fenced,
         UniqueEpochs, EpochsBounded, TypeOK, JournalTypes, AttemptTypes, vars, journal,
         runRow, rowVars, physical, attempt, invocation
  <1>17. ASSUME NEW w \in Workers, RecordCompletionAnswerLost(w) PROVE UniqueEpochs'
    BY <1>17 DEF RecordCompletionAnswerLost, StartClose, Goto, Event, MayWrite, Fenced,
         FaultOn, UniqueEpochs, EpochsBounded, TypeOK, JournalTypes, AttemptTypes, vars,
         journal, runRow, rowVars, physical, attempt, invocation
  <1>18. ASSUME NEW w \in Workers, AffirmOwnership(w) PROVE UniqueEpochs'
    BY <1>18 DEF AffirmOwnership, Goto, Stop, UniqueEpochs, EpochsBounded, TypeOK,
         JournalTypes, AttemptTypes, vars, journal, runRow, rowVars, physical, attempt,
         invocation
  <1>19. ASSUME NEW w \in Workers, NothingToClose(w) PROVE UniqueEpochs'
    BY <1>19 DEF NothingToClose, Goto, UniqueEpochs, EpochsBounded, TypeOK, JournalTypes,
         AttemptTypes, vars, journal, runRow, rowVars, physical, attempt, invocation
  <1>20. ASSUME NEW w \in Workers, ClosePhysical(w) PROVE UniqueEpochs'
    BY <1>20 DEF ClosePhysical, Goto, UniqueEpochs, EpochsBounded, TypeOK, JournalTypes,
         AttemptTypes, vars, journal, runRow, rowVars, physical, attempt, invocation
  <1>21. ASSUME NEW w \in Workers, CloseFails(w) PROVE UniqueEpochs'
    BY <1>21 DEF CloseFails, Goto, UniqueEpochs, EpochsBounded, TypeOK, JournalTypes,
         AttemptTypes, vars, journal, runRow, rowVars, physical, attempt, invocation
  <1>22. ASSUME NEW w \in Workers, CloseRow(w) PROVE UniqueEpochs'
    BY <1>22 DEF CloseRow, CloseLeaseRow, Goto, Event, Stop, MayWrite, Fenced, UniqueEpochs,
         EpochsBounded, TypeOK, JournalTypes, AttemptTypes, vars, journal, runRow, rowVars,
         physical, attempt, invocation
  <1>23. ASSUME NEW w \in Workers, Settle(w) PROVE UniqueEpochs'
    BY <1>23 DEF Settle, UnitDone, Goto, Event, Stop, MayWrite, Fenced, UniqueEpochs,
         EpochsBounded, TypeOK, JournalTypes, AttemptTypes, vars, journal, runRow, rowVars,
         physical, attempt, invocation
  <1>24. ASSUME NEW w \in Workers, RecordIntent(w) PROVE UniqueEpochs'
    BY <1>24 DEF RecordIntent, Goto, UniqueEpochs, EpochsBounded, TypeOK, JournalTypes,
         AttemptTypes, vars, journal, runRow, rowVars, physical, attempt, invocation
  <1>25. ASSUME NEW w \in Workers, FinalCancel(w) PROVE UniqueEpochs'
    BY <1>25 DEF FinalCancel, ConcludeAs, Goto, Event, MayWrite, Fenced, UniqueEpochs,
         EpochsBounded, TypeOK, JournalTypes, AttemptTypes, vars, journal, runRow, rowVars,
         physical, attempt, invocation
  <1>26. ASSUME NEW w \in Workers, ReleaseRun(w) PROVE UniqueEpochs'
    BY <1>26 DEF ReleaseRun, Forget, Goto, Unvisited, UniqueEpochs, EpochsBounded, TypeOK,
         JournalTypes, AttemptTypes, vars, journal, runRow, rowVars, physical, attempt,
         invocation
  <1>27. ASSUME NEW w \in Workers, ImportCandidate(w) PROVE UniqueEpochs'
    BY <1>27 DEF ImportCandidate, UniqueEpochs, EpochsBounded, TypeOK, JournalTypes,
         AttemptTypes, vars, journal, runRow, rowVars, physical, attempt, invocation
  <1>28. ASSUME NEW w \in Workers, Heartbeat(w) PROVE UniqueEpochs'
    BY <1>28 DEF Heartbeat, UniqueEpochs, EpochsBounded, TypeOK, JournalTypes, AttemptTypes,
         vars, journal, runRow, rowVars, physical, attempt, invocation
  <1>29. ASSUME NEW w \in Workers, AsyncCancel(w) PROVE UniqueEpochs'
    BY <1>29 DEF AsyncCancel, StartClose, Goto, UniqueEpochs, EpochsBounded, TypeOK,
         JournalTypes, AttemptTypes, vars, journal, runRow, rowVars, physical, attempt,
         invocation
  <1>30. ASSUME NEW w \in Workers, Crash(w) PROVE UniqueEpochs'
    BY <1>30 DEF Crash, Forget, Goto, Unvisited, UniqueEpochs, EpochsBounded, TypeOK,
         JournalTypes, AttemptTypes, vars, journal, runRow, rowVars, physical, attempt,
         invocation
  <1>31. CASE Expire
    BY <1>31 DEF Expire, UniqueEpochs, EpochsBounded, TypeOK, JournalTypes, AttemptTypes, vars,
         journal, runRow, rowVars, physical, attempt, invocation
  <1>32. CASE RequestCancel
    BY <1>32 DEF RequestCancel, UniqueEpochs, EpochsBounded, TypeOK, JournalTypes,
         AttemptTypes, vars, journal, runRow, rowVars, physical, attempt, invocation
  <1>33. CASE UNCHANGED vars
    BY <1>33 DEF vars, UniqueEpochs, EpochsBounded, TypeOK, JournalTypes, AttemptTypes, vars,
         journal, runRow, rowVars, physical, attempt, invocation
  <1> QED BY <1>1, <1>2, <1>3, <1>4, <1>5, <1>6, <1>7, <1>8, <1>9, <1>10, <1>11, <1>12, <1>13,
       <1>14, <1>15, <1>16, <1>17, <1>18, <1>19, <1>20, <1>21, <1>22, <1>23, <1>24, <1>25,
       <1>26, <1>27, <1>28, <1>29, <1>30, <1>31, <1>32, <1>33 DEF Next, Drive

\* The run row's epoch stays ahead of everything written or held under an epoch.
LEMMA EpochsBoundedStep ==
  ASSUME TypeOK, Shape, EpochsBounded, [Next]_vars
  PROVE  EpochsBounded'
  <1> USE BoundsAssumption, NoneAssumption
  <1>1. ASSUME NEW w \in Workers, ClaimRun(w) PROVE EpochsBounded'
    <2>1. epoch \in Nat /\ epoch' = epoch + 1
      BY <1>1 DEF ClaimRun, NextEpoch, TypeOK, JournalTypes
    <2>2. \A v \in Workers : held'[v] \in Nat /\ (held'[v] = held[v] \/ held'[v] = epoch + 1)
      BY <1>1, <2>1 DEF ClaimRun, NextEpoch, TypeOK, AttemptTypes
    <2>3. \A a \in imported : a[3] \in Nat
      BY DEF TypeOK, ResourceTypes, Acquisitions, Epochs
    <2>4. writer \in Nat /\ \A u \in Units : ckpt[u] \in Nat
      BY DEF TypeOK, JournalTypes
    <2>5. UNCHANGED <<writer, ckpt, imported>>
      BY <1>1 DEF ClaimRun, physical
    <2>6. \A v \in Workers : held[v] \in Nat
      BY DEF TypeOK, AttemptTypes
    <2> QED BY <2>1, <2>2, <2>3, <2>4, <2>5, <2>6 DEF EpochsBounded
  <1>2. ASSUME NEW w \in Workers, Begin(w) PROVE EpochsBounded'
    BY <1>2 DEF Begin, Goto, Event, Stop, Claimable, Fenced, EpochsBounded, TypeOK,
         JournalTypes, AttemptTypes, InvocationTypes, vars, journal, runRow, rowVars, physical,
         attempt, invocation
  <1>3. ASSUME NEW w \in Workers, ReadStaleLeases(w) PROVE EpochsBounded'
    BY <1>3 DEF ReadStaleLeases, Goto, EpochsBounded, TypeOK, JournalTypes, AttemptTypes,
         InvocationTypes, vars, journal, runRow, rowVars, physical, attempt, invocation
  <1>4. ASSUME NEW w \in Workers, ReconcileStale(w) PROVE EpochsBounded'
    BY <1>4 DEF ReconcileStale, Goto, EpochsBounded, TypeOK, JournalTypes, AttemptTypes,
         InvocationTypes, vars, journal, runRow, rowVars, physical, attempt, invocation
  <1>5. ASSUME NEW w \in Workers, CloseStaleRow(w) PROVE EpochsBounded'
    BY <1>5 DEF CloseStaleRow, CloseLeaseRow, Goto, Event, Stop, MayWrite, Fenced,
         EpochsBounded, TypeOK, JournalTypes, AttemptTypes, InvocationTypes, vars, journal,
         runRow, rowVars, physical, attempt, invocation
  <1>6. ASSUME NEW w \in Workers, ScanControl(w) PROVE EpochsBounded'
    BY <1>6 DEF ScanControl, Goto, EpochsBounded, TypeOK, JournalTypes, AttemptTypes,
         InvocationTypes, vars, journal, runRow, rowVars, physical, attempt, invocation
  <1>7. ASSUME NEW w \in Workers, ScanUnit(w) PROVE EpochsBounded'
    BY <1>7 DEF ScanUnit, UnitDone, Goto, Event, Stop, MayWrite, Fenced, EpochsBounded, TypeOK,
         JournalTypes, AttemptTypes, InvocationTypes, vars, journal, runRow, rowVars, physical,
         attempt, invocation
  <1>8. ASSUME NEW w \in Workers, Conclude(w) PROVE EpochsBounded'
    BY <1>8 DEF Conclude, ConcludeAs, Goto, Event, Stop, MayWrite, Fenced, EpochsBounded,
         TypeOK, JournalTypes, AttemptTypes, InvocationTypes, vars, journal, runRow, rowVars,
         physical, attempt, invocation
  <1>9. ASSUME NEW w \in Workers, ConcludeCancelled(w) PROVE EpochsBounded'
    BY <1>9 DEF ConcludeCancelled, ConcludeAs, Goto, Event, MayWrite, Fenced, EpochsBounded,
         TypeOK, JournalTypes, AttemptTypes, InvocationTypes, vars, journal, runRow, rowVars,
         physical, attempt, invocation
  <1>10. ASSUME NEW w \in Workers, Acquire(w) PROVE EpochsBounded'
    BY <1>10 DEF Acquire, StartClose, Goto, Stop, EpochsBounded, TypeOK, JournalTypes,
         AttemptTypes, InvocationTypes, vars, journal, runRow, rowVars, physical, attempt,
         invocation
  <1>11. ASSUME NEW w \in Workers, RecordLease(w) PROVE EpochsBounded'
    BY <1>11 DEF RecordLease, Goto, Event, MayWrite, Fenced, EpochsBounded, TypeOK,
         JournalTypes, AttemptTypes, InvocationTypes, vars, journal, runRow, rowVars, physical,
         attempt, invocation
  <1>12. ASSUME NEW w \in Workers, RecordLeaseAnswerLost(w) PROVE EpochsBounded'
    BY <1>12 DEF RecordLeaseAnswerLost, StartClose, Goto, Event, MayWrite, Fenced,
         EpochsBounded, TypeOK, JournalTypes, AttemptTypes, InvocationTypes, vars, journal,
         runRow, rowVars, physical, attempt, invocation
  <1>13. ASSUME NEW w \in Workers, ImplReturns(w) PROVE EpochsBounded'
    BY <1>13 DEF ImplReturns, Goto, EpochsBounded, TypeOK, JournalTypes, AttemptTypes,
         InvocationTypes, vars, journal, runRow, rowVars, physical, attempt, invocation
  <1>14. ASSUME NEW w \in Workers, ImplRaises(w) PROVE EpochsBounded'
    BY <1>14 DEF ImplRaises, StartClose, Goto, EpochsBounded, TypeOK, JournalTypes,
         AttemptTypes, InvocationTypes, vars, journal, runRow, rowVars, physical, attempt,
         invocation
  <1>15. ASSUME NEW w \in Workers, ImplFencedOut(w) PROVE EpochsBounded'
    BY <1>15 DEF ImplFencedOut, Stop, Goto, EpochsBounded, TypeOK, JournalTypes, AttemptTypes,
         InvocationTypes, vars, journal, runRow, rowVars, physical, attempt, invocation
  <1>16. ASSUME NEW w \in Workers, RecordCompletion(w) PROVE EpochsBounded'
    BY <1>16 DEF RecordCompletion, StartClose, Goto, Event, Stop, MayWrite, Fenced,
         EpochsBounded, TypeOK, JournalTypes, AttemptTypes, InvocationTypes, vars, journal,
         runRow, rowVars, physical, attempt, invocation
  <1>17. ASSUME NEW w \in Workers, RecordCompletionAnswerLost(w) PROVE EpochsBounded'
    BY <1>17 DEF RecordCompletionAnswerLost, StartClose, Goto, Event, MayWrite, Fenced,
         FaultOn, EpochsBounded, TypeOK, JournalTypes, AttemptTypes, InvocationTypes, vars,
         journal, runRow, rowVars, physical, attempt, invocation
  <1>18. ASSUME NEW w \in Workers, AffirmOwnership(w) PROVE EpochsBounded'
    BY <1>18 DEF AffirmOwnership, Goto, Stop, EpochsBounded, TypeOK, JournalTypes,
         AttemptTypes, InvocationTypes, vars, journal, runRow, rowVars, physical, attempt,
         invocation
  <1>19. ASSUME NEW w \in Workers, NothingToClose(w) PROVE EpochsBounded'
    BY <1>19 DEF NothingToClose, Goto, EpochsBounded, TypeOK, JournalTypes, AttemptTypes,
         InvocationTypes, vars, journal, runRow, rowVars, physical, attempt, invocation
  <1>20. ASSUME NEW w \in Workers, ClosePhysical(w) PROVE EpochsBounded'
    BY <1>20 DEF ClosePhysical, Goto, EpochsBounded, TypeOK, JournalTypes, AttemptTypes,
         InvocationTypes, vars, journal, runRow, rowVars, physical, attempt, invocation
  <1>21. ASSUME NEW w \in Workers, CloseFails(w) PROVE EpochsBounded'
    BY <1>21 DEF CloseFails, Goto, EpochsBounded, TypeOK, JournalTypes, AttemptTypes,
         InvocationTypes, vars, journal, runRow, rowVars, physical, attempt, invocation
  <1>22. ASSUME NEW w \in Workers, CloseRow(w) PROVE EpochsBounded'
    BY <1>22 DEF CloseRow, CloseLeaseRow, Goto, Event, Stop, MayWrite, Fenced, EpochsBounded,
         TypeOK, JournalTypes, AttemptTypes, InvocationTypes, vars, journal, runRow, rowVars,
         physical, attempt, invocation
  <1>23. ASSUME NEW w \in Workers, Settle(w) PROVE EpochsBounded'
    BY <1>23 DEF Settle, UnitDone, Goto, Event, Stop, MayWrite, Fenced, EpochsBounded, TypeOK,
         JournalTypes, AttemptTypes, InvocationTypes, vars, journal, runRow, rowVars, physical,
         attempt, invocation
  <1>24. ASSUME NEW w \in Workers, RecordIntent(w) PROVE EpochsBounded'
    BY <1>24 DEF RecordIntent, Goto, EpochsBounded, TypeOK, JournalTypes, AttemptTypes,
         InvocationTypes, vars, journal, runRow, rowVars, physical, attempt, invocation
  <1>25. ASSUME NEW w \in Workers, FinalCancel(w) PROVE EpochsBounded'
    BY <1>25 DEF FinalCancel, ConcludeAs, Goto, Event, MayWrite, Fenced, EpochsBounded, TypeOK,
         JournalTypes, AttemptTypes, InvocationTypes, vars, journal, runRow, rowVars, physical,
         attempt, invocation
  <1>26. ASSUME NEW w \in Workers, ReleaseRun(w) PROVE EpochsBounded'
    BY <1>26 DEF ReleaseRun, Forget, Goto, Unvisited, EpochsBounded, TypeOK, JournalTypes,
         AttemptTypes, InvocationTypes, vars, journal, runRow, rowVars, physical, attempt,
         invocation
  <1>27. ASSUME NEW w \in Workers, ImportCandidate(w) PROVE EpochsBounded'
    BY <1>27 DEF ImportCandidate, EpochsBounded, TypeOK, JournalTypes, AttemptTypes,
         InvocationTypes, vars, journal, runRow, rowVars, physical, attempt, invocation,
         AcquisitionOf
  <1>28. ASSUME NEW w \in Workers, Heartbeat(w) PROVE EpochsBounded'
    BY <1>28 DEF Heartbeat, EpochsBounded, TypeOK, JournalTypes, AttemptTypes, InvocationTypes,
         vars, journal, runRow, rowVars, physical, attempt, invocation
  <1>29. ASSUME NEW w \in Workers, AsyncCancel(w) PROVE EpochsBounded'
    BY <1>29 DEF AsyncCancel, StartClose, Goto, EpochsBounded, TypeOK, JournalTypes,
         AttemptTypes, InvocationTypes, vars, journal, runRow, rowVars, physical, attempt,
         invocation
  <1>30. ASSUME NEW w \in Workers, Crash(w) PROVE EpochsBounded'
    BY <1>30 DEF Crash, Forget, Goto, Unvisited, EpochsBounded, TypeOK, JournalTypes,
         AttemptTypes, InvocationTypes, vars, journal, runRow, rowVars, physical, attempt,
         invocation
  <1>31. CASE Expire
    BY <1>31 DEF Expire, EpochsBounded, TypeOK, JournalTypes, AttemptTypes, InvocationTypes,
         vars, journal, runRow, rowVars, physical, attempt, invocation
  <1>32. CASE RequestCancel
    BY <1>32 DEF RequestCancel, EpochsBounded, TypeOK, JournalTypes, AttemptTypes,
         InvocationTypes, vars, journal, runRow, rowVars, physical, attempt, invocation
  <1>33. CASE UNCHANGED vars
    BY <1>33 DEF vars, EpochsBounded, TypeOK, JournalTypes, AttemptTypes, InvocationTypes,
         vars, journal, runRow, rowVars, physical, attempt, invocation
  <1> QED BY <1>1, <1>2, <1>3, <1>4, <1>5, <1>6, <1>7, <1>8, <1>9, <1>10, <1>11, <1>12, <1>13,
       <1>14, <1>15, <1>16, <1>17, <1>18, <1>19, <1>20, <1>21, <1>22, <1>23, <1>24, <1>25,
       <1>26, <1>27, <1>28, <1>29, <1>30, <1>31, <1>32, <1>33 DEF Next, Drive

\* Only the owner concludes its run, and it then leaves.
LEMMA OwnerSeesRunningStep ==
  ASSUME TypeOK, Shape, OwnerSeesRunning, [Next]_vars
  PROVE  OwnerSeesRunning'
  <1> USE BoundsAssumption, NoneAssumption
  <1>1. ASSUME NEW w \in Workers, ClaimRun(w) PROVE OwnerSeesRunning'
    BY <1>1 DEF ClaimRun, Goto, Unvisited, NextEpoch, LeaseFree, Claimable, OwnerSeesRunning,
         Fenced, TypeOK, JournalTypes, AttemptTypes, InvocationTypes, vars, journal, runRow,
         rowVars, physical, attempt, invocation
  <1>2. ASSUME NEW w \in Workers, Begin(w) PROVE OwnerSeesRunning'
    BY <1>2 DEF Begin, Goto, Event, Stop, Claimable, Fenced, OwnerSeesRunning, Fenced, TypeOK,
         JournalTypes, AttemptTypes, InvocationTypes, vars, journal, runRow, rowVars, physical,
         attempt, invocation
  <1>3. ASSUME NEW w \in Workers, ReadStaleLeases(w) PROVE OwnerSeesRunning'
    BY <1>3 DEF ReadStaleLeases, Goto, OwnerSeesRunning, Fenced, TypeOK, JournalTypes,
         AttemptTypes, InvocationTypes, vars, journal, runRow, rowVars, physical, attempt,
         invocation
  <1>4. ASSUME NEW w \in Workers, ReconcileStale(w) PROVE OwnerSeesRunning'
    BY <1>4 DEF ReconcileStale, Goto, OwnerSeesRunning, Fenced, TypeOK, JournalTypes,
         AttemptTypes, InvocationTypes, vars, journal, runRow, rowVars, physical, attempt,
         invocation
  <1>5. ASSUME NEW w \in Workers, CloseStaleRow(w) PROVE OwnerSeesRunning'
    BY <1>5 DEF CloseStaleRow, CloseLeaseRow, Goto, Event, Stop, MayWrite, Fenced,
         OwnerSeesRunning, Fenced, TypeOK, JournalTypes, AttemptTypes, InvocationTypes, vars,
         journal, runRow, rowVars, physical, attempt, invocation
  <1>6. ASSUME NEW w \in Workers, ScanControl(w) PROVE OwnerSeesRunning'
    BY <1>6 DEF ScanControl, Goto, OwnerSeesRunning, Fenced, TypeOK, JournalTypes,
         AttemptTypes, InvocationTypes, vars, journal, runRow, rowVars, physical, attempt,
         invocation
  <1>7. ASSUME NEW w \in Workers, ScanUnit(w) PROVE OwnerSeesRunning'
    BY <1>7 DEF ScanUnit, UnitDone, Goto, Event, Stop, MayWrite, Fenced, OwnerSeesRunning,
         Fenced, TypeOK, JournalTypes, AttemptTypes, InvocationTypes, vars, journal, runRow,
         rowVars, physical, attempt, invocation
  <1>8. ASSUME NEW w \in Workers, Conclude(w) PROVE OwnerSeesRunning'
    BY <1>8 DEF Conclude, ConcludeAs, Goto, Event, Stop, MayWrite, Fenced, OwnerSeesRunning,
         Fenced, TypeOK, JournalTypes, AttemptTypes, InvocationTypes, vars, journal, runRow,
         rowVars, physical, attempt, invocation
  <1>9. ASSUME NEW w \in Workers, ConcludeCancelled(w) PROVE OwnerSeesRunning'
    BY <1>9 DEF ConcludeCancelled, ConcludeAs, Goto, Event, MayWrite, Fenced, OwnerSeesRunning,
         Fenced, TypeOK, JournalTypes, AttemptTypes, InvocationTypes, vars, journal, runRow,
         rowVars, physical, attempt, invocation
  <1>10. ASSUME NEW w \in Workers, Acquire(w) PROVE OwnerSeesRunning'
    BY <1>10 DEF Acquire, StartClose, Goto, Stop, OwnerSeesRunning, Fenced, TypeOK,
         JournalTypes, AttemptTypes, InvocationTypes, vars, journal, runRow, rowVars, physical,
         attempt, invocation
  <1>11. ASSUME NEW w \in Workers, RecordLease(w) PROVE OwnerSeesRunning'
    BY <1>11 DEF RecordLease, Goto, Event, MayWrite, Fenced, OwnerSeesRunning, Fenced, TypeOK,
         JournalTypes, AttemptTypes, InvocationTypes, vars, journal, runRow, rowVars, physical,
         attempt, invocation
  <1>12. ASSUME NEW w \in Workers, RecordLeaseAnswerLost(w) PROVE OwnerSeesRunning'
    BY <1>12 DEF RecordLeaseAnswerLost, StartClose, Goto, Event, MayWrite, Fenced,
         OwnerSeesRunning, Fenced, TypeOK, JournalTypes, AttemptTypes, InvocationTypes, vars,
         journal, runRow, rowVars, physical, attempt, invocation
  <1>13. ASSUME NEW w \in Workers, ImplReturns(w) PROVE OwnerSeesRunning'
    BY <1>13 DEF ImplReturns, Goto, OwnerSeesRunning, Fenced, TypeOK, JournalTypes,
         AttemptTypes, InvocationTypes, vars, journal, runRow, rowVars, physical, attempt,
         invocation
  <1>14. ASSUME NEW w \in Workers, ImplRaises(w) PROVE OwnerSeesRunning'
    BY <1>14 DEF ImplRaises, StartClose, Goto, OwnerSeesRunning, Fenced, TypeOK, JournalTypes,
         AttemptTypes, InvocationTypes, vars, journal, runRow, rowVars, physical, attempt,
         invocation
  <1>15. ASSUME NEW w \in Workers, ImplFencedOut(w) PROVE OwnerSeesRunning'
    BY <1>15 DEF ImplFencedOut, Stop, Goto, OwnerSeesRunning, Fenced, TypeOK, JournalTypes,
         AttemptTypes, InvocationTypes, vars, journal, runRow, rowVars, physical, attempt,
         invocation
  <1>16. ASSUME NEW w \in Workers, RecordCompletion(w) PROVE OwnerSeesRunning'
    BY <1>16 DEF RecordCompletion, StartClose, Goto, Event, Stop, MayWrite, Fenced,
         OwnerSeesRunning, Fenced, TypeOK, JournalTypes, AttemptTypes, InvocationTypes, vars,
         journal, runRow, rowVars, physical, attempt, invocation
  <1>17. ASSUME NEW w \in Workers, RecordCompletionAnswerLost(w) PROVE OwnerSeesRunning'
    BY <1>17 DEF RecordCompletionAnswerLost, StartClose, Goto, Event, MayWrite, Fenced,
         FaultOn, OwnerSeesRunning, Fenced, TypeOK, JournalTypes, AttemptTypes,
         InvocationTypes, vars, journal, runRow, rowVars, physical, attempt, invocation
  <1>18. ASSUME NEW w \in Workers, AffirmOwnership(w) PROVE OwnerSeesRunning'
    BY <1>18 DEF AffirmOwnership, Goto, Stop, OwnerSeesRunning, Fenced, TypeOK, JournalTypes,
         AttemptTypes, InvocationTypes, vars, journal, runRow, rowVars, physical, attempt,
         invocation
  <1>19. ASSUME NEW w \in Workers, NothingToClose(w) PROVE OwnerSeesRunning'
    BY <1>19 DEF NothingToClose, Goto, OwnerSeesRunning, Fenced, TypeOK, JournalTypes,
         AttemptTypes, InvocationTypes, vars, journal, runRow, rowVars, physical, attempt,
         invocation
  <1>20. ASSUME NEW w \in Workers, ClosePhysical(w) PROVE OwnerSeesRunning'
    BY <1>20 DEF ClosePhysical, Goto, OwnerSeesRunning, Fenced, TypeOK, JournalTypes,
         AttemptTypes, InvocationTypes, vars, journal, runRow, rowVars, physical, attempt,
         invocation
  <1>21. ASSUME NEW w \in Workers, CloseFails(w) PROVE OwnerSeesRunning'
    BY <1>21 DEF CloseFails, Goto, OwnerSeesRunning, Fenced, TypeOK, JournalTypes,
         AttemptTypes, InvocationTypes, vars, journal, runRow, rowVars, physical, attempt,
         invocation
  <1>22. ASSUME NEW w \in Workers, CloseRow(w) PROVE OwnerSeesRunning'
    BY <1>22 DEF CloseRow, CloseLeaseRow, Goto, Event, Stop, MayWrite, Fenced,
         OwnerSeesRunning, Fenced, TypeOK, JournalTypes, AttemptTypes, InvocationTypes, vars,
         journal, runRow, rowVars, physical, attempt, invocation
  <1>23. ASSUME NEW w \in Workers, Settle(w) PROVE OwnerSeesRunning'
    BY <1>23 DEF Settle, UnitDone, Goto, Event, Stop, MayWrite, Fenced, OwnerSeesRunning,
         Fenced, TypeOK, JournalTypes, AttemptTypes, InvocationTypes, vars, journal, runRow,
         rowVars, physical, attempt, invocation
  <1>24. ASSUME NEW w \in Workers, RecordIntent(w) PROVE OwnerSeesRunning'
    BY <1>24 DEF RecordIntent, Goto, OwnerSeesRunning, Fenced, TypeOK, JournalTypes,
         AttemptTypes, InvocationTypes, vars, journal, runRow, rowVars, physical, attempt,
         invocation
  <1>25. ASSUME NEW w \in Workers, FinalCancel(w) PROVE OwnerSeesRunning'
    BY <1>25 DEF FinalCancel, ConcludeAs, Goto, Event, MayWrite, Fenced, OwnerSeesRunning,
         Fenced, TypeOK, JournalTypes, AttemptTypes, InvocationTypes, vars, journal, runRow,
         rowVars, physical, attempt, invocation
  <1>26. ASSUME NEW w \in Workers, ReleaseRun(w) PROVE OwnerSeesRunning'
    BY <1>26 DEF ReleaseRun, Forget, Goto, Unvisited, OwnerSeesRunning, Fenced, TypeOK,
         JournalTypes, AttemptTypes, InvocationTypes, vars, journal, runRow, rowVars, physical,
         attempt, invocation
  <1>27. ASSUME NEW w \in Workers, ImportCandidate(w) PROVE OwnerSeesRunning'
    BY <1>27 DEF ImportCandidate, OwnerSeesRunning, Fenced, TypeOK, JournalTypes, AttemptTypes,
         InvocationTypes, vars, journal, runRow, rowVars, physical, attempt, invocation
  <1>28. ASSUME NEW w \in Workers, Heartbeat(w) PROVE OwnerSeesRunning'
    BY <1>28 DEF Heartbeat, OwnerSeesRunning, Fenced, TypeOK, JournalTypes, AttemptTypes,
         InvocationTypes, vars, journal, runRow, rowVars, physical, attempt, invocation
  <1>29. ASSUME NEW w \in Workers, AsyncCancel(w) PROVE OwnerSeesRunning'
    BY <1>29 DEF AsyncCancel, StartClose, Goto, OwnerSeesRunning, Fenced, TypeOK, JournalTypes,
         AttemptTypes, InvocationTypes, vars, journal, runRow, rowVars, physical, attempt,
         invocation
  <1>30. ASSUME NEW w \in Workers, Crash(w) PROVE OwnerSeesRunning'
    BY <1>30 DEF Crash, Forget, Goto, Unvisited, OwnerSeesRunning, Fenced, TypeOK,
         JournalTypes, AttemptTypes, InvocationTypes, vars, journal, runRow, rowVars, physical,
         attempt, invocation
  <1>31. CASE Expire
    BY <1>31 DEF Expire, OwnerSeesRunning, Fenced, TypeOK, JournalTypes, AttemptTypes,
         InvocationTypes, vars, journal, runRow, rowVars, physical, attempt, invocation
  <1>32. CASE RequestCancel
    BY <1>32 DEF RequestCancel, OwnerSeesRunning, Fenced, TypeOK, JournalTypes, AttemptTypes,
         InvocationTypes, vars, journal, runRow, rowVars, physical, attempt, invocation
  <1>33. CASE UNCHANGED vars
    BY <1>33 DEF vars, OwnerSeesRunning, Fenced, TypeOK, JournalTypes, AttemptTypes,
         InvocationTypes, vars, journal, runRow, rowVars, physical, attempt, invocation
  <1> QED BY <1>1, <1>2, <1>3, <1>4, <1>5, <1>6, <1>7, <1>8, <1>9, <1>10, <1>11, <1>12, <1>13,
       <1>14, <1>15, <1>16, <1>17, <1>18, <1>19, <1>20, <1>21, <1>22, <1>23, <1>24, <1>25,
       <1>26, <1>27, <1>28, <1>29, <1>30, <1>31, <1>32, <1>33 DEF Next, Drive

\* Rows are opened only while the run is RUNNING; it concludes only when none is open.
LEMMA ConcludedIsCleanStep ==
  ASSUME TypeOK, ConcludedIsClean, [Next]_vars
  PROVE  ConcludedIsClean'
  <1> USE BoundsAssumption, NoneAssumption
  <1>1. ASSUME NEW w \in Workers, ClaimRun(w) PROVE ConcludedIsClean'
    BY <1>1 DEF ClaimRun, Goto, Unvisited, NextEpoch, LeaseFree, Claimable, ConcludedIsClean,
         CleanupResolved, Terminal, vars, journal, runRow, rowVars, physical, attempt,
         invocation
  <1>2. ASSUME NEW w \in Workers, Begin(w) PROVE ConcludedIsClean'
    BY <1>2 DEF Begin, Goto, Event, Stop, Claimable, Fenced, ConcludedIsClean, CleanupResolved,
         Terminal, vars, journal, runRow, rowVars, physical, attempt, invocation
  <1>3. ASSUME NEW w \in Workers, ReadStaleLeases(w) PROVE ConcludedIsClean'
    BY <1>3 DEF ReadStaleLeases, Goto, ConcludedIsClean, CleanupResolved, Terminal, vars,
         journal, runRow, rowVars, physical, attempt, invocation
  <1>4. ASSUME NEW w \in Workers, ReconcileStale(w) PROVE ConcludedIsClean'
    BY <1>4 DEF ReconcileStale, Goto, ConcludedIsClean, CleanupResolved, Terminal, vars,
         journal, runRow, rowVars, physical, attempt, invocation
  <1>5. ASSUME NEW w \in Workers, CloseStaleRow(w) PROVE ConcludedIsClean'
    BY <1>5 DEF CloseStaleRow, CloseLeaseRow, Goto, Event, Stop, MayWrite, Fenced,
         ConcludedIsClean, CleanupResolved, Terminal, vars, journal, runRow, rowVars, physical,
         attempt, invocation
  <1>6. ASSUME NEW w \in Workers, ScanControl(w) PROVE ConcludedIsClean'
    BY <1>6 DEF ScanControl, Goto, ConcludedIsClean, CleanupResolved, Terminal, vars, journal,
         runRow, rowVars, physical, attempt, invocation
  <1>7. ASSUME NEW w \in Workers, ScanUnit(w) PROVE ConcludedIsClean'
    BY <1>7 DEF ScanUnit, UnitDone, Goto, Event, Stop, MayWrite, Fenced, ConcludedIsClean,
         CleanupResolved, Terminal, vars, journal, runRow, rowVars, physical, attempt,
         invocation
  <1>8. ASSUME NEW w \in Workers, Conclude(w) PROVE ConcludedIsClean'
    BY <1>8 DEF Conclude, ConcludeAs, Goto, Event, Stop, MayWrite, Fenced, ConcludedIsClean,
         CleanupResolved, Terminal, vars, journal, runRow, rowVars, physical, attempt,
         invocation
  <1>9. ASSUME NEW w \in Workers, ConcludeCancelled(w) PROVE ConcludedIsClean'
    BY <1>9 DEF ConcludeCancelled, ConcludeAs, Goto, Event, MayWrite, Fenced, ConcludedIsClean,
         CleanupResolved, Terminal, vars, journal, runRow, rowVars, physical, attempt,
         invocation
  <1>10. ASSUME NEW w \in Workers, Acquire(w) PROVE ConcludedIsClean'
    BY <1>10 DEF Acquire, StartClose, Goto, Stop, ConcludedIsClean, CleanupResolved, Terminal,
         vars, journal, runRow, rowVars, physical, attempt, invocation
  <1>11. ASSUME NEW w \in Workers, RecordLease(w) PROVE ConcludedIsClean'
    BY <1>11 DEF RecordLease, Goto, Event, MayWrite, Fenced, ConcludedIsClean, CleanupResolved,
         Terminal, vars, journal, runRow, rowVars, physical, attempt, invocation
  <1>12. ASSUME NEW w \in Workers, RecordLeaseAnswerLost(w) PROVE ConcludedIsClean'
    BY <1>12 DEF RecordLeaseAnswerLost, StartClose, Goto, Event, MayWrite, Fenced,
         ConcludedIsClean, CleanupResolved, Terminal, vars, journal, runRow, rowVars, physical,
         attempt, invocation
  <1>13. ASSUME NEW w \in Workers, ImplReturns(w) PROVE ConcludedIsClean'
    BY <1>13 DEF ImplReturns, Goto, ConcludedIsClean, CleanupResolved, Terminal, vars, journal,
         runRow, rowVars, physical, attempt, invocation
  <1>14. ASSUME NEW w \in Workers, ImplRaises(w) PROVE ConcludedIsClean'
    BY <1>14 DEF ImplRaises, StartClose, Goto, ConcludedIsClean, CleanupResolved, Terminal,
         vars, journal, runRow, rowVars, physical, attempt, invocation
  <1>15. ASSUME NEW w \in Workers, ImplFencedOut(w) PROVE ConcludedIsClean'
    BY <1>15 DEF ImplFencedOut, Stop, Goto, ConcludedIsClean, CleanupResolved, Terminal, vars,
         journal, runRow, rowVars, physical, attempt, invocation
  <1>16. ASSUME NEW w \in Workers, RecordCompletion(w) PROVE ConcludedIsClean'
    BY <1>16 DEF RecordCompletion, StartClose, Goto, Event, Stop, MayWrite, Fenced,
         ConcludedIsClean, CleanupResolved, Terminal, vars, journal, runRow, rowVars, physical,
         attempt, invocation
  <1>17. ASSUME NEW w \in Workers, RecordCompletionAnswerLost(w) PROVE ConcludedIsClean'
    BY <1>17 DEF RecordCompletionAnswerLost, StartClose, Goto, Event, MayWrite, Fenced,
         FaultOn, ConcludedIsClean, CleanupResolved, Terminal, vars, journal, runRow, rowVars,
         physical, attempt, invocation
  <1>18. ASSUME NEW w \in Workers, AffirmOwnership(w) PROVE ConcludedIsClean'
    BY <1>18 DEF AffirmOwnership, Goto, Stop, ConcludedIsClean, CleanupResolved, Terminal,
         vars, journal, runRow, rowVars, physical, attempt, invocation
  <1>19. ASSUME NEW w \in Workers, NothingToClose(w) PROVE ConcludedIsClean'
    BY <1>19 DEF NothingToClose, Goto, ConcludedIsClean, CleanupResolved, Terminal, vars,
         journal, runRow, rowVars, physical, attempt, invocation
  <1>20. ASSUME NEW w \in Workers, ClosePhysical(w) PROVE ConcludedIsClean'
    BY <1>20 DEF ClosePhysical, Goto, ConcludedIsClean, CleanupResolved, Terminal, vars,
         journal, runRow, rowVars, physical, attempt, invocation
  <1>21. ASSUME NEW w \in Workers, CloseFails(w) PROVE ConcludedIsClean'
    BY <1>21 DEF CloseFails, Goto, ConcludedIsClean, CleanupResolved, Terminal, vars, journal,
         runRow, rowVars, physical, attempt, invocation
  <1>22. ASSUME NEW w \in Workers, CloseRow(w) PROVE ConcludedIsClean'
    BY <1>22 DEF CloseRow, CloseLeaseRow, Goto, Event, Stop, MayWrite, Fenced,
         ConcludedIsClean, CleanupResolved, Terminal, vars, journal, runRow, rowVars, physical,
         attempt, invocation
  <1>23. ASSUME NEW w \in Workers, Settle(w) PROVE ConcludedIsClean'
    BY <1>23 DEF Settle, UnitDone, Goto, Event, Stop, MayWrite, Fenced, ConcludedIsClean,
         CleanupResolved, Terminal, vars, journal, runRow, rowVars, physical, attempt,
         invocation
  <1>24. ASSUME NEW w \in Workers, RecordIntent(w) PROVE ConcludedIsClean'
    BY <1>24 DEF RecordIntent, Goto, ConcludedIsClean, CleanupResolved, Terminal, vars,
         journal, runRow, rowVars, physical, attempt, invocation
  <1>25. ASSUME NEW w \in Workers, FinalCancel(w) PROVE ConcludedIsClean'
    BY <1>25 DEF FinalCancel, ConcludeAs, Goto, Event, MayWrite, Fenced, ConcludedIsClean,
         CleanupResolved, Terminal, vars, journal, runRow, rowVars, physical, attempt,
         invocation
  <1>26. ASSUME NEW w \in Workers, ReleaseRun(w) PROVE ConcludedIsClean'
    BY <1>26 DEF ReleaseRun, Forget, Goto, Unvisited, ConcludedIsClean, CleanupResolved,
         Terminal, vars, journal, runRow, rowVars, physical, attempt, invocation
  <1>27. ASSUME NEW w \in Workers, ImportCandidate(w) PROVE ConcludedIsClean'
    BY <1>27 DEF ImportCandidate, ConcludedIsClean, CleanupResolved, Terminal, vars, journal,
         runRow, rowVars, physical, attempt, invocation
  <1>28. ASSUME NEW w \in Workers, Heartbeat(w) PROVE ConcludedIsClean'
    BY <1>28 DEF Heartbeat, ConcludedIsClean, CleanupResolved, Terminal, vars, journal, runRow,
         rowVars, physical, attempt, invocation
  <1>29. ASSUME NEW w \in Workers, AsyncCancel(w) PROVE ConcludedIsClean'
    BY <1>29 DEF AsyncCancel, StartClose, Goto, ConcludedIsClean, CleanupResolved, Terminal,
         vars, journal, runRow, rowVars, physical, attempt, invocation
  <1>30. ASSUME NEW w \in Workers, Crash(w) PROVE ConcludedIsClean'
    BY <1>30 DEF Crash, Forget, Goto, Unvisited, ConcludedIsClean, CleanupResolved, Terminal,
         vars, journal, runRow, rowVars, physical, attempt, invocation
  <1>31. CASE Expire
    BY <1>31 DEF Expire, ConcludedIsClean, CleanupResolved, Terminal, vars, journal, runRow,
         rowVars, physical, attempt, invocation
  <1>32. CASE RequestCancel
    BY <1>32 DEF RequestCancel, ConcludedIsClean, CleanupResolved, Terminal, vars, journal,
         runRow, rowVars, physical, attempt, invocation
  <1>33. CASE UNCHANGED vars
    BY <1>33 DEF vars, ConcludedIsClean, CleanupResolved, Terminal, vars, journal, runRow,
         rowVars, physical, attempt, invocation
  <1> QED BY <1>1, <1>2, <1>3, <1>4, <1>5, <1>6, <1>7, <1>8, <1>9, <1>10, <1>11, <1>12, <1>13,
       <1>14, <1>15, <1>16, <1>17, <1>18, <1>19, <1>20, <1>21, <1>22, <1>23, <1>24, <1>25,
       <1>26, <1>27, <1>28, <1>29, <1>30, <1>31, <1>32, <1>33 DEF Next, Drive

\* status_by_unit keeps agreeing with the checkpoints, which are write-once.
LEMMA ProgressStep ==
  ASSUME TypeOK, Shape, Progress, [Next]_vars
  PROVE  Progress'
  <1> USE BoundsAssumption, NoneAssumption
  <1>1. ASSUME NEW w \in Workers, ClaimRun(w) PROVE Progress'
    <2>1. ProgressOf(w)'
      BY <1>1, ProgressForgotten DEF ClaimRun, Goto, Closing, TypeOK, AttemptTypes,
           InvocationTypes
    <2>2. ASSUME NEW v \in Workers, v # w PROVE ProgressOf(v)'
      BY <1>1, <2>2, ProgressKept DEF ClaimRun, Goto, Progress, Shape, TypeOK, AttemptTypes,
           InvocationTypes
    <2> QED BY <2>1, <2>2 DEF Progress
  <1>2. ASSUME NEW w \in Workers, Begin(w) PROVE Progress'
    BY <1>2 DEF Begin, Goto, Event, Stop, Claimable, Fenced, Progress, ProgressOf, Closing,
         TypeOK, JournalTypes, AttemptTypes, InvocationTypes, vars, journal, runRow, rowVars,
         physical, attempt, invocation
  <1>3. ASSUME NEW w \in Workers, ReadStaleLeases(w) PROVE Progress'
    BY <1>3 DEF ReadStaleLeases, Goto, Progress, ProgressOf, Closing, TypeOK, JournalTypes,
         AttemptTypes, InvocationTypes, vars, journal, runRow, rowVars, physical, attempt,
         invocation
  <1>4. ASSUME NEW w \in Workers, ReconcileStale(w) PROVE Progress'
    BY <1>4 DEF ReconcileStale, Goto, Progress, ProgressOf, Closing, TypeOK, JournalTypes,
         AttemptTypes, InvocationTypes, vars, journal, runRow, rowVars, physical, attempt,
         invocation
  <1>5. ASSUME NEW w \in Workers, CloseStaleRow(w) PROVE Progress'
    BY <1>5 DEF CloseStaleRow, CloseLeaseRow, Goto, Event, Stop, MayWrite, Fenced, Progress,
         ProgressOf, Closing, TypeOK, JournalTypes, AttemptTypes, InvocationTypes, vars,
         journal, runRow, rowVars, physical, attempt, invocation
  <1>6. ASSUME NEW w \in Workers, ScanControl(w) PROVE Progress'
    BY <1>6 DEF ScanControl, Goto, Progress, ProgressOf, Closing, TypeOK, JournalTypes,
         AttemptTypes, InvocationTypes, vars, journal, runRow, rowVars, physical, attempt,
         invocation
  <1>7. ASSUME NEW w \in Workers, ScanUnit(w) PROVE Progress'
    <2>1. UNCHANGED <<ckpt, after>> /\ unit[w] \in Units
      BY <1>7 DEF ScanUnit, Stop, journal, invocation
    <2>2. ASSUME NEW v \in Workers, v # w PROVE ProgressOf(v)'
      BY <1>7, <2>1, <2>2, ProgressKept DEF ScanUnit, UnitDone, Stop, Goto, Progress, Shape,
           invocation, TypeOK, AttemptTypes, InvocationTypes
    <2>3. ASSUME UnitDone(w, "blocked") PROVE ProgressOf(w)'
      BY <2>1, <2>3, ProgressAfterUnit DEF Progress, Results
    <2>4. ASSUME UnitDone(w, "completed") /\ ckpt[unit[w]] # 0 PROVE ProgressOf(w)'
      BY <2>1, <2>4, ProgressAfterUnit DEF Progress, Results
    <2>5. ASSUME UNCHANGED <<unit, result>> /\ pc'[w] \notin Closing PROVE ProgressOf(w)'
      BY <2>1, <2>5 DEF Progress, ProgressOf
    <2>6. ProgressOf(w)'
      BY <1>7, <2>3, <2>4, <2>5 DEF ScanUnit, Stop, Goto, invocation, Closing, TypeOK,
           AttemptTypes
    <2> QED BY <2>2, <2>6 DEF Progress
  <1>8. ASSUME NEW w \in Workers, Conclude(w) PROVE Progress'
    BY <1>8 DEF Conclude, ConcludeAs, Goto, Event, Stop, MayWrite, Fenced, Progress,
         ProgressOf, Closing, TypeOK, JournalTypes, AttemptTypes, InvocationTypes, vars,
         journal, runRow, rowVars, physical, attempt, invocation
  <1>9. ASSUME NEW w \in Workers, ConcludeCancelled(w) PROVE Progress'
    BY <1>9 DEF ConcludeCancelled, ConcludeAs, Goto, Event, MayWrite, Fenced, Progress,
         ProgressOf, Closing, TypeOK, JournalTypes, AttemptTypes, InvocationTypes, vars,
         journal, runRow, rowVars, physical, attempt, invocation
  <1>10. ASSUME NEW w \in Workers, Acquire(w) PROVE Progress'
    BY <1>10 DEF Acquire, StartClose, Goto, Stop, Progress, ProgressOf, Closing, TypeOK,
         JournalTypes, AttemptTypes, InvocationTypes, vars, journal, runRow, rowVars, physical,
         attempt, invocation
  <1>11. ASSUME NEW w \in Workers, RecordLease(w) PROVE Progress'
    BY <1>11 DEF RecordLease, Goto, Event, MayWrite, Fenced, Progress, ProgressOf, Closing,
         TypeOK, JournalTypes, AttemptTypes, InvocationTypes, vars, journal, runRow, rowVars,
         physical, attempt, invocation
  <1>12. ASSUME NEW w \in Workers, RecordLeaseAnswerLost(w) PROVE Progress'
    BY <1>12 DEF RecordLeaseAnswerLost, StartClose, Goto, Event, MayWrite, Fenced, Progress,
         ProgressOf, Closing, TypeOK, JournalTypes, AttemptTypes, InvocationTypes, vars,
         journal, runRow, rowVars, physical, attempt, invocation
  <1>13. ASSUME NEW w \in Workers, ImplReturns(w) PROVE Progress'
    BY <1>13 DEF ImplReturns, Goto, Progress, ProgressOf, Closing, TypeOK, JournalTypes,
         AttemptTypes, InvocationTypes, vars, journal, runRow, rowVars, physical, attempt,
         invocation
  <1>14. ASSUME NEW w \in Workers, ImplRaises(w) PROVE Progress'
    BY <1>14 DEF ImplRaises, StartClose, Goto, Progress, ProgressOf, Closing, TypeOK,
         JournalTypes, AttemptTypes, InvocationTypes, vars, journal, runRow, rowVars, physical,
         attempt, invocation
  <1>15. ASSUME NEW w \in Workers, ImplFencedOut(w) PROVE Progress'
    BY <1>15 DEF ImplFencedOut, Stop, Goto, Progress, ProgressOf, Closing, TypeOK,
         JournalTypes, AttemptTypes, InvocationTypes, vars, journal, runRow, rowVars, physical,
         attempt, invocation
  <1>16. ASSUME NEW w \in Workers, RecordCompletion(w) PROVE Progress'
    <2>1. unit[w] \in Units /\ UNCHANGED <<unit, result>>
      BY <1>16 DEF RecordCompletion, Stop, invocation, Shape, ShapeOf, Invoking
    <2>2. \A u \in Units : ckpt[u] # 0 => ckpt'[u] # 0
      BY <1>16, <2>1 DEF RecordCompletion, Stop, journal, TypeOK, JournalTypes
    <2>3. ASSUME NEW v \in Workers, v # w PROVE ProgressOf(v)'
      BY <1>16, <2>1, <2>2, <2>3, ProgressKept DEF RecordCompletion, StartClose, Stop, Goto,
           Progress, Shape, invocation, TypeOK, AttemptTypes
    <2>4. pc'[w] \in Closing /\ after'[w] = "completed" => ckpt'[unit[w]] # 0
      <3>1. held[w] # 0
        BY <1>16 DEF RecordCompletion, Shape, ShapeOf
      <3>2. CASE Stop(w)
        BY <3>2 DEF Stop, Goto, Closing, TypeOK, AttemptTypes
      <3>3. CASE ckpt[unit[w]] # 0
        BY <2>1, <2>2, <3>3
      <3>4. CASE ckpt' = [ckpt EXCEPT ![unit[w]] = held[w]]
        BY <2>1, <3>1, <3>4 DEF TypeOK, JournalTypes
      <3> QED BY <1>16, <3>2, <3>3, <3>4 DEF RecordCompletion
    <2>5. ProgressOf(w)'
      BY <2>1, <2>2, <2>4 DEF Progress, ProgressOf
    <2> QED BY <2>3, <2>5 DEF Progress
  <1>17. ASSUME NEW w \in Workers, RecordCompletionAnswerLost(w) PROVE Progress'
    BY <1>17 DEF RecordCompletionAnswerLost, StartClose, Goto, Event, MayWrite, Fenced,
         FaultOn, Progress, ProgressOf, Closing, TypeOK, JournalTypes, AttemptTypes,
         InvocationTypes, vars, journal, runRow, rowVars, physical, attempt, invocation
  <1>18. ASSUME NEW w \in Workers, AffirmOwnership(w) PROVE Progress'
    BY <1>18 DEF AffirmOwnership, Goto, Stop, Progress, ProgressOf, Closing, TypeOK,
         JournalTypes, AttemptTypes, InvocationTypes, vars, journal, runRow, rowVars, physical,
         attempt, invocation
  <1>19. ASSUME NEW w \in Workers, NothingToClose(w) PROVE Progress'
    BY <1>19 DEF NothingToClose, Goto, Progress, ProgressOf, Closing, TypeOK, JournalTypes,
         AttemptTypes, InvocationTypes, vars, journal, runRow, rowVars, physical, attempt,
         invocation
  <1>20. ASSUME NEW w \in Workers, ClosePhysical(w) PROVE Progress'
    BY <1>20 DEF ClosePhysical, Goto, Progress, ProgressOf, Closing, TypeOK, JournalTypes,
         AttemptTypes, InvocationTypes, vars, journal, runRow, rowVars, physical, attempt,
         invocation
  <1>21. ASSUME NEW w \in Workers, CloseFails(w) PROVE Progress'
    BY <1>21 DEF CloseFails, Goto, Progress, ProgressOf, Closing, TypeOK, JournalTypes,
         AttemptTypes, InvocationTypes, vars, journal, runRow, rowVars, physical, attempt,
         invocation
  <1>22. ASSUME NEW w \in Workers, CloseRow(w) PROVE Progress'
    BY <1>22 DEF CloseRow, CloseLeaseRow, Goto, Event, Stop, MayWrite, Fenced, Progress,
         ProgressOf, Closing, TypeOK, JournalTypes, AttemptTypes, InvocationTypes, vars,
         journal, runRow, rowVars, physical, attempt, invocation
  <1>23. ASSUME NEW w \in Workers, Settle(w) PROVE Progress'
    <2>1. UNCHANGED <<ckpt, after>> /\ unit[w] \in Units
      BY <1>23 DEF Settle, Stop, journal, invocation, Shape, ShapeOf, Closing
    <2>2. ASSUME NEW v \in Workers, v # w PROVE ProgressOf(v)'
      BY <1>23, <2>1, <2>2, ProgressKept DEF Settle, UnitDone, Stop, Goto, Progress, Shape,
           invocation, TypeOK, AttemptTypes, InvocationTypes
    <2>3. ASSUME UnitDone(w, "completed") /\ after[w] = "completed" PROVE ProgressOf(w)'
      <3>1. ckpt[unit[w]] # 0
        BY <1>23, <2>3 DEF Settle, Progress, ProgressOf, Closing
      <3> QED BY <2>1, <2>3, <3>1, ProgressAfterUnit DEF Progress, Results
    <2>4. ASSUME UnitDone(w, after[w]) /\ after[w] \in {"failed", "parked"} PROVE ProgressOf(w)'
      BY <2>1, <2>4, ProgressAfterUnit DEF Progress, Results
    <2>5. ASSUME UNCHANGED <<unit, result>> /\ pc'[w] \notin Closing PROVE ProgressOf(w)'
      BY <2>1, <2>5 DEF Progress, ProgressOf
    <2>6. ProgressOf(w)'
      BY <1>23, <2>3, <2>4, <2>5 DEF Settle, Stop, Goto, invocation, Closing, TypeOK,
           AttemptTypes
    <2> QED BY <2>2, <2>6 DEF Progress
  <1>24. ASSUME NEW w \in Workers, RecordIntent(w) PROVE Progress'
    BY <1>24 DEF RecordIntent, Goto, Progress, ProgressOf, Closing, TypeOK, JournalTypes,
         AttemptTypes, InvocationTypes, vars, journal, runRow, rowVars, physical, attempt,
         invocation
  <1>25. ASSUME NEW w \in Workers, FinalCancel(w) PROVE Progress'
    BY <1>25 DEF FinalCancel, ConcludeAs, Goto, Event, MayWrite, Fenced, Progress, ProgressOf,
         Closing, TypeOK, JournalTypes, AttemptTypes, InvocationTypes, vars, journal, runRow,
         rowVars, physical, attempt, invocation
  <1>26. ASSUME NEW w \in Workers, ReleaseRun(w) PROVE Progress'
    <2>1. ProgressOf(w)'
      BY <1>26, ProgressForgotten DEF ReleaseRun, Forget, Goto, Closing, TypeOK, AttemptTypes,
           InvocationTypes
    <2>2. ASSUME NEW v \in Workers, v # w PROVE ProgressOf(v)'
      BY <1>26, <2>2, ProgressKept DEF ReleaseRun, Forget, Goto, Progress, Shape, TypeOK,
           AttemptTypes, InvocationTypes
    <2> QED BY <2>1, <2>2 DEF Progress
  <1>27. ASSUME NEW w \in Workers, ImportCandidate(w) PROVE Progress'
    BY <1>27 DEF ImportCandidate, Progress, ProgressOf, Closing, TypeOK, JournalTypes,
         AttemptTypes, InvocationTypes, vars, journal, runRow, rowVars, physical, attempt,
         invocation
  <1>28. ASSUME NEW w \in Workers, Heartbeat(w) PROVE Progress'
    BY <1>28 DEF Heartbeat, Progress, ProgressOf, Closing, TypeOK, JournalTypes, AttemptTypes,
         InvocationTypes, vars, journal, runRow, rowVars, physical, attempt, invocation
  <1>29. ASSUME NEW w \in Workers, AsyncCancel(w) PROVE Progress'
    BY <1>29 DEF AsyncCancel, StartClose, Goto, Progress, ProgressOf, Closing, TypeOK,
         JournalTypes, AttemptTypes, InvocationTypes, vars, journal, runRow, rowVars, physical,
         attempt, invocation
  <1>30. ASSUME NEW w \in Workers, Crash(w) PROVE Progress'
    <2>1. ProgressOf(w)'
      BY <1>30, ProgressForgotten DEF Crash, Forget, Goto, Closing, TypeOK, AttemptTypes,
           InvocationTypes
    <2>2. ASSUME NEW v \in Workers, v # w PROVE ProgressOf(v)'
      BY <1>30, <2>2, ProgressKept DEF Crash, Forget, Goto, Progress, Shape, journal, TypeOK,
           AttemptTypes, InvocationTypes
    <2> QED BY <2>1, <2>2 DEF Progress
  <1>31. CASE Expire
    BY <1>31 DEF Expire, Progress, ProgressOf, Closing, TypeOK, JournalTypes, AttemptTypes,
         InvocationTypes, vars, journal, runRow, rowVars, physical, attempt, invocation
  <1>32. CASE RequestCancel
    BY <1>32 DEF RequestCancel, Progress, ProgressOf, Closing, TypeOK, JournalTypes,
         AttemptTypes, InvocationTypes, vars, journal, runRow, rowVars, physical, attempt,
         invocation
  <1>33. CASE UNCHANGED vars
    BY <1>33 DEF vars, Progress, ProgressOf, Closing, TypeOK, JournalTypes, AttemptTypes,
         InvocationTypes, vars, journal, runRow, rowVars, physical, attempt, invocation
  <1> QED BY <1>1, <1>2, <1>3, <1>4, <1>5, <1>6, <1>7, <1>8, <1>9, <1>10, <1>11, <1>12, <1>13,
       <1>14, <1>15, <1>16, <1>17, <1>18, <1>19, <1>20, <1>21, <1>22, <1>23, <1>24, <1>25,
       <1>26, <1>27, <1>28, <1>29, <1>30, <1>31, <1>32, <1>33 DEF Next, Drive

\* The verdict "succeeded" needs every unit completed, hence checkpointed.
LEMMA SucceededIsCompleteStep ==
  ASSUME TypeOK, Shape, Progress, SucceededIsComplete, [Next]_vars
  PROVE  SucceededIsComplete'
  <1> USE BoundsAssumption, NoneAssumption
  <1>1. ASSUME NEW w \in Workers, ClaimRun(w) PROVE SucceededIsComplete'
    BY <1>1 DEF ClaimRun, Goto, Unvisited, NextEpoch, LeaseFree, Claimable,
         SucceededIsComplete, TypeOK, JournalTypes, AttemptTypes, InvocationTypes, vars,
         journal, runRow, rowVars, physical, attempt, invocation
  <1>2. ASSUME NEW w \in Workers, Begin(w) PROVE SucceededIsComplete'
    BY <1>2 DEF Begin, Goto, Event, Stop, Claimable, Fenced, SucceededIsComplete, TypeOK,
         JournalTypes, AttemptTypes, InvocationTypes, vars, journal, runRow, rowVars, physical,
         attempt, invocation
  <1>3. ASSUME NEW w \in Workers, ReadStaleLeases(w) PROVE SucceededIsComplete'
    BY <1>3 DEF ReadStaleLeases, Goto, SucceededIsComplete, TypeOK, JournalTypes, AttemptTypes,
         InvocationTypes, vars, journal, runRow, rowVars, physical, attempt, invocation
  <1>4. ASSUME NEW w \in Workers, ReconcileStale(w) PROVE SucceededIsComplete'
    BY <1>4 DEF ReconcileStale, Goto, SucceededIsComplete, TypeOK, JournalTypes, AttemptTypes,
         InvocationTypes, vars, journal, runRow, rowVars, physical, attempt, invocation
  <1>5. ASSUME NEW w \in Workers, CloseStaleRow(w) PROVE SucceededIsComplete'
    BY <1>5 DEF CloseStaleRow, CloseLeaseRow, Goto, Event, Stop, MayWrite, Fenced,
         SucceededIsComplete, TypeOK, JournalTypes, AttemptTypes, InvocationTypes, vars,
         journal, runRow, rowVars, physical, attempt, invocation
  <1>6. ASSUME NEW w \in Workers, ScanControl(w) PROVE SucceededIsComplete'
    BY <1>6 DEF ScanControl, Goto, SucceededIsComplete, TypeOK, JournalTypes, AttemptTypes,
         InvocationTypes, vars, journal, runRow, rowVars, physical, attempt, invocation
  <1>7. ASSUME NEW w \in Workers, ScanUnit(w) PROVE SucceededIsComplete'
    BY <1>7 DEF ScanUnit, UnitDone, Goto, Event, Stop, MayWrite, Fenced, SucceededIsComplete,
         TypeOK, JournalTypes, AttemptTypes, InvocationTypes, vars, journal, runRow, rowVars,
         physical, attempt, invocation
  <1>8. ASSUME NEW w \in Workers, Conclude(w) PROVE SucceededIsComplete'
    BY <1>8 DEF Conclude, ConcludeAs, Goto, Event, Stop, MayWrite, Fenced, SucceededIsComplete,
         TypeOK, JournalTypes, AttemptTypes, InvocationTypes, vars, journal, runRow, rowVars,
         physical, attempt, invocation, Verdict, OnlyBlocked, Progress, ProgressOf, Units,
         Results
  <1>9. ASSUME NEW w \in Workers, ConcludeCancelled(w) PROVE SucceededIsComplete'
    BY <1>9 DEF ConcludeCancelled, ConcludeAs, Goto, Event, MayWrite, Fenced,
         SucceededIsComplete, TypeOK, JournalTypes, AttemptTypes, InvocationTypes, vars,
         journal, runRow, rowVars, physical, attempt, invocation
  <1>10. ASSUME NEW w \in Workers, Acquire(w) PROVE SucceededIsComplete'
    BY <1>10 DEF Acquire, StartClose, Goto, Stop, SucceededIsComplete, TypeOK, JournalTypes,
         AttemptTypes, InvocationTypes, vars, journal, runRow, rowVars, physical, attempt,
         invocation
  <1>11. ASSUME NEW w \in Workers, RecordLease(w) PROVE SucceededIsComplete'
    BY <1>11 DEF RecordLease, Goto, Event, MayWrite, Fenced, SucceededIsComplete, TypeOK,
         JournalTypes, AttemptTypes, InvocationTypes, vars, journal, runRow, rowVars, physical,
         attempt, invocation
  <1>12. ASSUME NEW w \in Workers, RecordLeaseAnswerLost(w) PROVE SucceededIsComplete'
    BY <1>12 DEF RecordLeaseAnswerLost, StartClose, Goto, Event, MayWrite, Fenced,
         SucceededIsComplete, TypeOK, JournalTypes, AttemptTypes, InvocationTypes, vars,
         journal, runRow, rowVars, physical, attempt, invocation
  <1>13. ASSUME NEW w \in Workers, ImplReturns(w) PROVE SucceededIsComplete'
    BY <1>13 DEF ImplReturns, Goto, SucceededIsComplete, TypeOK, JournalTypes, AttemptTypes,
         InvocationTypes, vars, journal, runRow, rowVars, physical, attempt, invocation
  <1>14. ASSUME NEW w \in Workers, ImplRaises(w) PROVE SucceededIsComplete'
    BY <1>14 DEF ImplRaises, StartClose, Goto, SucceededIsComplete, TypeOK, JournalTypes,
         AttemptTypes, InvocationTypes, vars, journal, runRow, rowVars, physical, attempt,
         invocation
  <1>15. ASSUME NEW w \in Workers, ImplFencedOut(w) PROVE SucceededIsComplete'
    BY <1>15 DEF ImplFencedOut, Stop, Goto, SucceededIsComplete, TypeOK, JournalTypes,
         AttemptTypes, InvocationTypes, vars, journal, runRow, rowVars, physical, attempt,
         invocation
  <1>16. ASSUME NEW w \in Workers, RecordCompletion(w) PROVE SucceededIsComplete'
    BY <1>16 DEF RecordCompletion, StartClose, Goto, Event, Stop, MayWrite, Fenced,
         SucceededIsComplete, TypeOK, JournalTypes, AttemptTypes, InvocationTypes, vars,
         journal, runRow, rowVars, physical, attempt, invocation
  <1>17. ASSUME NEW w \in Workers, RecordCompletionAnswerLost(w) PROVE SucceededIsComplete'
    BY <1>17 DEF RecordCompletionAnswerLost, StartClose, Goto, Event, MayWrite, Fenced,
         FaultOn, SucceededIsComplete, TypeOK, JournalTypes, AttemptTypes, InvocationTypes,
         vars, journal, runRow, rowVars, physical, attempt, invocation
  <1>18. ASSUME NEW w \in Workers, AffirmOwnership(w) PROVE SucceededIsComplete'
    BY <1>18 DEF AffirmOwnership, Goto, Stop, SucceededIsComplete, TypeOK, JournalTypes,
         AttemptTypes, InvocationTypes, vars, journal, runRow, rowVars, physical, attempt,
         invocation
  <1>19. ASSUME NEW w \in Workers, NothingToClose(w) PROVE SucceededIsComplete'
    BY <1>19 DEF NothingToClose, Goto, SucceededIsComplete, TypeOK, JournalTypes, AttemptTypes,
         InvocationTypes, vars, journal, runRow, rowVars, physical, attempt, invocation
  <1>20. ASSUME NEW w \in Workers, ClosePhysical(w) PROVE SucceededIsComplete'
    BY <1>20 DEF ClosePhysical, Goto, SucceededIsComplete, TypeOK, JournalTypes, AttemptTypes,
         InvocationTypes, vars, journal, runRow, rowVars, physical, attempt, invocation
  <1>21. ASSUME NEW w \in Workers, CloseFails(w) PROVE SucceededIsComplete'
    BY <1>21 DEF CloseFails, Goto, SucceededIsComplete, TypeOK, JournalTypes, AttemptTypes,
         InvocationTypes, vars, journal, runRow, rowVars, physical, attempt, invocation
  <1>22. ASSUME NEW w \in Workers, CloseRow(w) PROVE SucceededIsComplete'
    BY <1>22 DEF CloseRow, CloseLeaseRow, Goto, Event, Stop, MayWrite, Fenced,
         SucceededIsComplete, TypeOK, JournalTypes, AttemptTypes, InvocationTypes, vars,
         journal, runRow, rowVars, physical, attempt, invocation
  <1>23. ASSUME NEW w \in Workers, Settle(w) PROVE SucceededIsComplete'
    BY <1>23 DEF Settle, UnitDone, Goto, Event, Stop, MayWrite, Fenced, SucceededIsComplete,
         TypeOK, JournalTypes, AttemptTypes, InvocationTypes, vars, journal, runRow, rowVars,
         physical, attempt, invocation
  <1>24. ASSUME NEW w \in Workers, RecordIntent(w) PROVE SucceededIsComplete'
    BY <1>24 DEF RecordIntent, Goto, SucceededIsComplete, TypeOK, JournalTypes, AttemptTypes,
         InvocationTypes, vars, journal, runRow, rowVars, physical, attempt, invocation
  <1>25. ASSUME NEW w \in Workers, FinalCancel(w) PROVE SucceededIsComplete'
    BY <1>25 DEF FinalCancel, ConcludeAs, Goto, Event, MayWrite, Fenced, SucceededIsComplete,
         TypeOK, JournalTypes, AttemptTypes, InvocationTypes, vars, journal, runRow, rowVars,
         physical, attempt, invocation
  <1>26. ASSUME NEW w \in Workers, ReleaseRun(w) PROVE SucceededIsComplete'
    BY <1>26 DEF ReleaseRun, Forget, Goto, Unvisited, SucceededIsComplete, TypeOK,
         JournalTypes, AttemptTypes, InvocationTypes, vars, journal, runRow, rowVars, physical,
         attempt, invocation
  <1>27. ASSUME NEW w \in Workers, ImportCandidate(w) PROVE SucceededIsComplete'
    BY <1>27 DEF ImportCandidate, SucceededIsComplete, TypeOK, JournalTypes, AttemptTypes,
         InvocationTypes, vars, journal, runRow, rowVars, physical, attempt, invocation
  <1>28. ASSUME NEW w \in Workers, Heartbeat(w) PROVE SucceededIsComplete'
    BY <1>28 DEF Heartbeat, SucceededIsComplete, TypeOK, JournalTypes, AttemptTypes,
         InvocationTypes, vars, journal, runRow, rowVars, physical, attempt, invocation
  <1>29. ASSUME NEW w \in Workers, AsyncCancel(w) PROVE SucceededIsComplete'
    BY <1>29 DEF AsyncCancel, StartClose, Goto, SucceededIsComplete, TypeOK, JournalTypes,
         AttemptTypes, InvocationTypes, vars, journal, runRow, rowVars, physical, attempt,
         invocation
  <1>30. ASSUME NEW w \in Workers, Crash(w) PROVE SucceededIsComplete'
    BY <1>30 DEF Crash, Forget, Goto, Unvisited, SucceededIsComplete, TypeOK, JournalTypes,
         AttemptTypes, InvocationTypes, vars, journal, runRow, rowVars, physical, attempt,
         invocation
  <1>31. CASE Expire
    BY <1>31 DEF Expire, SucceededIsComplete, TypeOK, JournalTypes, AttemptTypes,
         InvocationTypes, vars, journal, runRow, rowVars, physical, attempt, invocation
  <1>32. CASE RequestCancel
    BY <1>32 DEF RequestCancel, SucceededIsComplete, TypeOK, JournalTypes, AttemptTypes,
         InvocationTypes, vars, journal, runRow, rowVars, physical, attempt, invocation
  <1>33. CASE UNCHANGED vars
    BY <1>33 DEF vars, SucceededIsComplete, TypeOK, JournalTypes, AttemptTypes,
         InvocationTypes, vars, journal, runRow, rowVars, physical, attempt, invocation
  <1> QED BY <1>1, <1>2, <1>3, <1>4, <1>5, <1>6, <1>7, <1>8, <1>9, <1>10, <1>11, <1>12, <1>13,
       <1>14, <1>15, <1>16, <1>17, <1>18, <1>19, <1>20, <1>21, <1>22, <1>23, <1>24, <1>25,
       <1>26, <1>27, <1>28, <1>29, <1>30, <1>31, <1>32, <1>33 DEF Next, Drive

\* No step of another attempt removes an acquisition of the current epoch.
LEMMA LiveStep ==
  ASSUME TypeOK, Shape, UniqueEpochs, EpochsBounded, LiveAcquisitions, [Next]_vars
  PROVE  LiveAcquisitions'
  <1> USE BoundsAssumption, NoneAssumption
  <1>1. ASSUME NEW w \in Workers, ClaimRun(w) PROVE LiveAcquisitions'
    <2>1. pc'[w] = "begin"
      BY <1>1 DEF ClaimRun, Goto, TypeOK, AttemptTypes
    <2>2. ASSUME NEW v \in Workers, v # w PROVE held'[v] # epoch'
      BY <1>1, <2>2 DEF ClaimRun, NextEpoch, EpochsBounded, TypeOK, JournalTypes, AttemptTypes
    <2> QED BY <2>1, <2>2 DEF LiveAcquisitions, LiveOf
  <1>2. ASSUME NEW w \in Workers, Begin(w) PROVE LiveAcquisitions'
    BY <1>2 DEF Begin, Goto, Event, Stop, Claimable, Fenced, LiveAcquisitions, LiveOf,
         AcquisitionOf, NextBind, TypeOK, JournalTypes, AttemptTypes, InvocationTypes, vars,
         journal, runRow, rowVars, physical, attempt, invocation
  <1>3. ASSUME NEW w \in Workers, ReadStaleLeases(w) PROVE LiveAcquisitions'
    BY <1>3 DEF ReadStaleLeases, Goto, LiveAcquisitions, LiveOf, AcquisitionOf, NextBind,
         TypeOK, JournalTypes, AttemptTypes, InvocationTypes, vars, journal, runRow, rowVars,
         physical, attempt, invocation
  <1>4. ASSUME NEW w \in Workers, ReconcileStale(w) PROVE LiveAcquisitions'
    <2>1. NextStale(w) \in Acquisitions /\ NextStale(w)[3] <= held[w] /\ held[w] # 0
      BY <1>4, ChosenElements DEF ReconcileStale, Shape, ShapeOf, TypeOK, InvocationTypes,
           AttemptTypes, Acquisitions, Epochs
    <2>2. staging' = staging \ {NextStale(w)} /\ UNCHANGED <<active, epoch, unit, held,
         acquired>>
      BY <1>4 DEF ReconcileStale, journal, rowVars, runRow, attempt, invocation
    <2>3. pc'[w] = "staleRow" /\ \A v \in Workers \ {w} : pc'[v] = pc[v]
      BY <1>4 DEF ReconcileStale, Goto, TypeOK, AttemptTypes
    <2>4. ASSUME NEW v \in Workers, v # w PROVE LiveOf(v)'
      BY <2>1, <2>2, <2>3, <2>4, LiveOfOthers DEF LiveAcquisitions
    <2>5. LiveOf(w)'
      BY <2>3 DEF LiveOf
    <2> QED BY <2>4, <2>5 DEF LiveAcquisitions
  <1>5. ASSUME NEW w \in Workers, CloseStaleRow(w) PROVE LiveAcquisitions'
    <2>1. NextStale(w) \in Acquisitions /\ NextStale(w)[3] <= held[w] /\ held[w] # 0
      BY <1>5, ChosenElements DEF CloseStaleRow, Shape, ShapeOf, TypeOK, InvocationTypes,
           AttemptTypes, Acquisitions, Epochs
    <2>2. /\ active' = active \/ active' = active \ {NextStale(w)}
          /\ UNCHANGED <<staging, epoch, unit, held, acquired>>
      BY <1>5 DEF CloseStaleRow, CloseLeaseRow, Stop, journal, rowVars, runRow, physical,
           attempt, invocation
    <2>3. pc'[w] \in {"scan", "stale", "release"} /\ \A v \in Workers \ {w} : pc'[v] = pc[v]
      BY <1>5 DEF CloseStaleRow, Stop, Goto, TypeOK, AttemptTypes
    <2>4. ASSUME NEW v \in Workers, v # w PROVE LiveOf(v)'
      BY <2>1, <2>2, <2>3, <2>4, LiveOfOthers DEF LiveAcquisitions
    <2>5. LiveOf(w)'
      BY <2>3 DEF LiveOf
    <2> QED BY <2>4, <2>5 DEF LiveAcquisitions
  <1>6. ASSUME NEW w \in Workers, ScanControl(w) PROVE LiveAcquisitions'
    BY <1>6 DEF ScanControl, Goto, LiveAcquisitions, LiveOf, AcquisitionOf, NextBind, TypeOK,
         JournalTypes, AttemptTypes, InvocationTypes, vars, journal, runRow, rowVars, physical,
         attempt, invocation
  <1>7. ASSUME NEW w \in Workers, ScanUnit(w) PROVE LiveAcquisitions'
    <2>1. UNCHANGED <<active, staging, epoch, held, acquired>> /\ acquired[w] = {} /\ held[w] #
         0
      BY <1>7 DEF ScanUnit, UnitDone, Stop, journal, rowVars, runRow, physical, attempt,
           invocation, Shape, ShapeOf
    <2>2. /\ pc'[w] # "record"
          /\ \A v \in Workers \ {w} : pc'[v] = pc[v] /\ unit'[v] = unit[v]
      BY <1>7 DEF ScanUnit, UnitDone, Stop, Goto, invocation, TypeOK, AttemptTypes,
           InvocationTypes
    <2>3. ASSUME NEW v \in Workers, v # w PROVE LiveOf(v)'
      BY <2>1, <2>2, <2>3, LiveKept DEF LiveAcquisitions
    <2>4. LiveOf(w)'
      BY <2>1, <2>2 DEF LiveOf
    <2> QED BY <2>3, <2>4 DEF LiveAcquisitions
  <1>8. ASSUME NEW w \in Workers, Conclude(w) PROVE LiveAcquisitions'
    BY <1>8 DEF Conclude, ConcludeAs, Goto, Event, Stop, MayWrite, Fenced, LiveAcquisitions,
         LiveOf, AcquisitionOf, NextBind, TypeOK, JournalTypes, AttemptTypes, InvocationTypes,
         vars, journal, runRow, rowVars, physical, attempt, invocation
  <1>9. ASSUME NEW w \in Workers, ConcludeCancelled(w) PROVE LiveAcquisitions'
    BY <1>9 DEF ConcludeCancelled, ConcludeAs, Goto, Event, MayWrite, Fenced, LiveAcquisitions,
         LiveOf, AcquisitionOf, NextBind, TypeOK, JournalTypes, AttemptTypes, InvocationTypes,
         vars, journal, runRow, rowVars, physical, attempt, invocation
  <1>10. ASSUME NEW w \in Workers, Acquire(w) PROVE LiveAcquisitions'
    BY <1>10 DEF Acquire, StartClose, Goto, Stop, LiveAcquisitions, LiveOf, AcquisitionOf,
         NextBind, TypeOK, JournalTypes, AttemptTypes, InvocationTypes, vars, journal, runRow,
         rowVars, physical, attempt, invocation
  <1>11. ASSUME NEW w \in Workers, RecordLease(w) PROVE LiveAcquisitions'
    <2> DEFINE a == AcquisitionOf(w, NextBind(w))
    <2>1. a[3] = held[w] /\ held[w] # 0 /\ held[w] \in Nat
      BY <1>11 DEF RecordLease, AcquisitionOf, Shape, ShapeOf, TypeOK, AttemptTypes
    <2>2. UNCHANGED <<epoch, unit, held>> /\ \A v \in Workers \ {w} : pc'[v] = pc[v] /\
         acquired'[v] = acquired[v]
      BY <1>11 DEF RecordLease, Goto, journal, runRow, attempt, invocation, TypeOK,
           AttemptTypes, InvocationTypes
    <2>3. \/ pc'[w] = "release" /\ staging' = staging \ {a} /\ active' = active
          \/ /\ pc'[w] \in {"acquire", "impl"} /\ staging' = staging /\ active' = active \cup
               {a}
             /\ acquired'[w] = acquired[w] \cup {NextBind(w)}
      BY <1>11 DEF RecordLease, Goto, journal, rowVars, physical, TypeOK, AttemptTypes,
           InvocationTypes
    <2>4. held[w] = epoch => a \in staging /\ \A b \in acquired[w] : AcquisitionOf(w, b) \in
         staging \cap active
      BY <1>11 DEF RecordLease, LiveAcquisitions, LiveOf
    <2> HIDE DEF a
    <2>5. ASSUME NEW v \in Workers, v # w PROVE LiveOf(v)'
      <3>1. \A x \in (staging \ staging') \cup (active \ active') : x[3] <= held[w]
        BY <2>1, <2>3
      <3> QED BY <2>1, <2>2, <2>5, <3>1, LiveOfOthers DEF LiveAcquisitions
    <2>6. LiveOf(w)'
      <3>1. CASE pc'[w] = "release"
        BY <3>1 DEF LiveOf
      <3>2. CASE pc'[w] # "release"
        BY <2>2, <2>3, <2>4, <3>2 DEF a, LiveOf, AcquisitionOf
      <3> QED BY <3>1, <3>2
    <2> QED BY <2>5, <2>6 DEF LiveAcquisitions
  <1>12. ASSUME NEW w \in Workers, RecordLeaseAnswerLost(w) PROVE LiveAcquisitions'
    <2> DEFINE a == AcquisitionOf(w, NextBind(w))
    <2>1. a[3] = held[w] /\ held[w] # 0 /\ held[w] \in Nat
      BY <1>12 DEF RecordLeaseAnswerLost, AcquisitionOf, Shape, ShapeOf, TypeOK, AttemptTypes
    <2>2. UNCHANGED <<epoch, unit, held>> /\ \A v \in Workers \ {w} : pc'[v] = pc[v] /\
         acquired'[v] = acquired[v]
      BY <1>12 DEF RecordLeaseAnswerLost, StartClose, Goto, runRow, attempt, TypeOK,
           AttemptTypes, InvocationTypes
    <2>3. /\ pc'[w] = "close" /\ staging \ {a} \subseteq staging'
          /\ active \subseteq active'
      BY <1>12 DEF RecordLeaseAnswerLost, StartClose, Goto, TypeOK, AttemptTypes
    <2> HIDE DEF a
    <2>4. ASSUME NEW v \in Workers, v # w PROVE LiveOf(v)'
      <3>1. \A x \in (staging \ staging') \cup (active \ active') : x[3] <= held[w]
        BY <2>1, <2>3
      <3> QED BY <2>1, <2>2, <2>3, <2>4, <3>1, LiveOfOthers DEF LiveAcquisitions
    <2>5. LiveOf(w)'
      BY <2>3 DEF LiveOf
    <2> QED BY <2>4, <2>5 DEF LiveAcquisitions
  <1>13. ASSUME NEW w \in Workers, ImplReturns(w) PROVE LiveAcquisitions'
    BY <1>13 DEF ImplReturns, Goto, LiveAcquisitions, LiveOf, AcquisitionOf, NextBind, TypeOK,
         JournalTypes, AttemptTypes, InvocationTypes, vars, journal, runRow, rowVars, physical,
         attempt, invocation
  <1>14. ASSUME NEW w \in Workers, ImplRaises(w) PROVE LiveAcquisitions'
    BY <1>14 DEF ImplRaises, StartClose, Goto, LiveAcquisitions, LiveOf, AcquisitionOf,
         NextBind, TypeOK, JournalTypes, AttemptTypes, InvocationTypes, vars, journal, runRow,
         rowVars, physical, attempt, invocation
  <1>15. ASSUME NEW w \in Workers, ImplFencedOut(w) PROVE LiveAcquisitions'
    BY <1>15 DEF ImplFencedOut, Stop, Goto, LiveAcquisitions, LiveOf, AcquisitionOf, NextBind,
         TypeOK, JournalTypes, AttemptTypes, InvocationTypes, vars, journal, runRow, rowVars,
         physical, attempt, invocation
  <1>16. ASSUME NEW w \in Workers, RecordCompletion(w) PROVE LiveAcquisitions'
    BY <1>16 DEF RecordCompletion, StartClose, Goto, Event, Stop, MayWrite, Fenced,
         LiveAcquisitions, LiveOf, AcquisitionOf, NextBind, TypeOK, JournalTypes, AttemptTypes,
         InvocationTypes, vars, journal, runRow, rowVars, physical, attempt, invocation
  <1>17. ASSUME NEW w \in Workers, RecordCompletionAnswerLost(w) PROVE LiveAcquisitions'
    BY <1>17 DEF RecordCompletionAnswerLost, StartClose, Goto, Event, MayWrite, Fenced,
         FaultOn, LiveAcquisitions, LiveOf, AcquisitionOf, NextBind, TypeOK, JournalTypes,
         AttemptTypes, InvocationTypes, vars, journal, runRow, rowVars, physical, attempt,
         invocation
  <1>18. ASSUME NEW w \in Workers, AffirmOwnership(w) PROVE LiveAcquisitions'
    BY <1>18 DEF AffirmOwnership, Goto, Stop, LiveAcquisitions, LiveOf, AcquisitionOf,
         NextBind, TypeOK, JournalTypes, AttemptTypes, InvocationTypes, vars, journal, runRow,
         rowVars, physical, attempt, invocation
  <1>19. ASSUME NEW w \in Workers, NothingToClose(w) PROVE LiveAcquisitions'
    BY <1>19 DEF NothingToClose, Goto, LiveAcquisitions, LiveOf, AcquisitionOf, NextBind,
         TypeOK, JournalTypes, AttemptTypes, InvocationTypes, vars, journal, runRow, rowVars,
         physical, attempt, invocation
  <1>20. ASSUME NEW w \in Workers, ClosePhysical(w) PROVE LiveAcquisitions'
    <2> DEFINE a == AcquisitionOf(w, NextAcquired(w))
    <2>1. a[3] = held[w] /\ held[w] # 0 /\ held[w] \in Nat
      BY <1>20 DEF ClosePhysical, AcquisitionOf, Shape, ShapeOf, TypeOK, AttemptTypes
    <2>2. UNCHANGED <<active, epoch, unit, held, acquired>> /\ \A v \in Workers \ {w} : pc'[v]
         = pc[v]
      BY <1>20 DEF ClosePhysical, Goto, journal, rowVars, runRow, attempt, invocation, TypeOK,
           AttemptTypes
    <2>3. pc'[w] = "closeRow" /\ staging' = staging \ {a}
      BY <1>20 DEF ClosePhysical, Goto, TypeOK, AttemptTypes
    <2> HIDE DEF a
    <2>4. ASSUME NEW v \in Workers, v # w PROVE LiveOf(v)'
      <3>1. \A x \in (staging \ staging') \cup (active \ active') : x[3] <= held[w]
        BY <2>1, <2>2, <2>3
      <3> QED BY <2>1, <2>2, <2>4, <3>1, LiveOfOthers DEF LiveAcquisitions
    <2>5. LiveOf(w)'
      BY <2>3 DEF LiveOf
    <2> QED BY <2>4, <2>5 DEF LiveAcquisitions
  <1>21. ASSUME NEW w \in Workers, CloseFails(w) PROVE LiveAcquisitions'
    BY <1>21 DEF CloseFails, Goto, LiveAcquisitions, LiveOf, AcquisitionOf, NextBind, TypeOK,
         JournalTypes, AttemptTypes, InvocationTypes, vars, journal, runRow, rowVars, physical,
         attempt, invocation
  <1>22. ASSUME NEW w \in Workers, CloseRow(w) PROVE LiveAcquisitions'
    <2> DEFINE a == AcquisitionOf(w, NextAcquired(w))
    <2>1. a[3] = held[w] /\ held[w] # 0 /\ held[w] \in Nat
      BY <1>22 DEF CloseRow, AcquisitionOf, Shape, ShapeOf, TypeOK, AttemptTypes
    <2>2. UNCHANGED <<staging, epoch, unit, held>> /\ \A v \in Workers \ {w} : pc'[v] = pc[v]
         /\ acquired'[v] = acquired[v]
      BY <1>22 DEF CloseRow, CloseLeaseRow, Stop, Goto, journal, runRow, physical, attempt,
           invocation, TypeOK, AttemptTypes, InvocationTypes
    <2>3. pc'[w] \in {"close", "release"} /\ (active' = active \/ active' = active \ {a})
      BY <1>22 DEF CloseRow, CloseLeaseRow, Stop, Goto, journal, rowVars, TypeOK, AttemptTypes
    <2> HIDE DEF a
    <2>4. ASSUME NEW v \in Workers, v # w PROVE LiveOf(v)'
      <3>1. \A x \in (staging \ staging') \cup (active \ active') : x[3] <= held[w]
        BY <2>1, <2>2, <2>3
      <3> QED BY <2>1, <2>2, <2>4, <3>1, LiveOfOthers DEF LiveAcquisitions
    <2>5. LiveOf(w)'
      BY <2>3 DEF LiveOf
    <2> QED BY <2>4, <2>5 DEF LiveAcquisitions
  <1>23. ASSUME NEW w \in Workers, Settle(w) PROVE LiveAcquisitions'
    BY <1>23 DEF Settle, UnitDone, Goto, Event, Stop, MayWrite, Fenced, LiveAcquisitions,
         LiveOf, AcquisitionOf, NextBind, TypeOK, JournalTypes, AttemptTypes, InvocationTypes,
         vars, journal, runRow, rowVars, physical, attempt, invocation
  <1>24. ASSUME NEW w \in Workers, RecordIntent(w) PROVE LiveAcquisitions'
    BY <1>24 DEF RecordIntent, Goto, LiveAcquisitions, LiveOf, AcquisitionOf, NextBind, TypeOK,
         JournalTypes, AttemptTypes, InvocationTypes, vars, journal, runRow, rowVars, physical,
         attempt, invocation
  <1>25. ASSUME NEW w \in Workers, FinalCancel(w) PROVE LiveAcquisitions'
    BY <1>25 DEF FinalCancel, ConcludeAs, Goto, Event, MayWrite, Fenced, LiveAcquisitions,
         LiveOf, AcquisitionOf, NextBind, TypeOK, JournalTypes, AttemptTypes, InvocationTypes,
         vars, journal, runRow, rowVars, physical, attempt, invocation
  <1>26. ASSUME NEW w \in Workers, ReleaseRun(w) PROVE LiveAcquisitions'
    BY <1>26 DEF ReleaseRun, Forget, Goto, Unvisited, LiveAcquisitions, LiveOf, AcquisitionOf,
         NextBind, TypeOK, JournalTypes, AttemptTypes, InvocationTypes, vars, journal, runRow,
         rowVars, physical, attempt, invocation
  <1>27. ASSUME NEW w \in Workers, ImportCandidate(w) PROVE LiveAcquisitions'
    BY <1>27 DEF ImportCandidate, LiveAcquisitions, LiveOf, AcquisitionOf, NextBind, TypeOK,
         JournalTypes, AttemptTypes, InvocationTypes, vars, journal, runRow, rowVars, physical,
         attempt, invocation
  <1>28. ASSUME NEW w \in Workers, Heartbeat(w) PROVE LiveAcquisitions'
    BY <1>28 DEF Heartbeat, LiveAcquisitions, LiveOf, AcquisitionOf, NextBind, TypeOK,
         JournalTypes, AttemptTypes, InvocationTypes, vars, journal, runRow, rowVars, physical,
         attempt, invocation
  <1>29. ASSUME NEW w \in Workers, AsyncCancel(w) PROVE LiveAcquisitions'
    BY <1>29 DEF AsyncCancel, StartClose, Goto, LiveAcquisitions, LiveOf, AcquisitionOf,
         NextBind, TypeOK, JournalTypes, AttemptTypes, InvocationTypes, vars, journal, runRow,
         rowVars, physical, attempt, invocation
  <1>30. ASSUME NEW w \in Workers, Crash(w) PROVE LiveAcquisitions'
    BY <1>30 DEF Crash, Forget, Goto, Unvisited, LiveAcquisitions, LiveOf, AcquisitionOf,
         NextBind, TypeOK, JournalTypes, AttemptTypes, InvocationTypes, vars, journal, runRow,
         rowVars, physical, attempt, invocation
  <1>31. CASE Expire
    BY <1>31 DEF Expire, LiveAcquisitions, LiveOf, AcquisitionOf, NextBind, TypeOK,
         JournalTypes, AttemptTypes, InvocationTypes, vars, journal, runRow, rowVars, physical,
         attempt, invocation
  <1>32. CASE RequestCancel
    BY <1>32 DEF RequestCancel, LiveAcquisitions, LiveOf, AcquisitionOf, NextBind, TypeOK,
         JournalTypes, AttemptTypes, InvocationTypes, vars, journal, runRow, rowVars, physical,
         attempt, invocation
  <1>33. CASE UNCHANGED vars
    BY <1>33 DEF vars, LiveAcquisitions, LiveOf, AcquisitionOf, NextBind, TypeOK, JournalTypes,
         AttemptTypes, InvocationTypes, vars, journal, runRow, rowVars, physical, attempt,
         invocation
  <1> QED BY <1>1, <1>2, <1>3, <1>4, <1>5, <1>6, <1>7, <1>8, <1>9, <1>10, <1>11, <1>12, <1>13,
       <1>14, <1>15, <1>16, <1>17, <1>18, <1>19, <1>20, <1>21, <1>22, <1>23, <1>24, <1>25,
       <1>26, <1>27, <1>28, <1>29, <1>30, <1>31, <1>32, <1>33 DEF Next, Drive

\* A run keeps the capability mode it was prepared with.
LEMMA ModeStep ==
  ASSUME [Next]_vars
  PROVE  mode' = mode
  <1>1. ASSUME NEW w \in Workers, ClaimRun(w) PROVE mode' = mode
    BY <1>1 DEF ClaimRun, Goto, journal
  <1>2. ASSUME NEW w \in Workers, Begin(w) PROVE mode' = mode
    BY <1>2 DEF Begin, Goto, Event, Stop, journal
  <1>3. ASSUME NEW w \in Workers, ReadStaleLeases(w) PROVE mode' = mode
    BY <1>3 DEF ReadStaleLeases, Goto, journal
  <1>4. ASSUME NEW w \in Workers, ReconcileStale(w) PROVE mode' = mode
    BY <1>4 DEF ReconcileStale, Goto, journal
  <1>5. ASSUME NEW w \in Workers, CloseStaleRow(w) PROVE mode' = mode
    BY <1>5 DEF CloseStaleRow, CloseLeaseRow, Goto, Event, Stop, journal
  <1>6. ASSUME NEW w \in Workers, ScanControl(w) PROVE mode' = mode
    BY <1>6 DEF ScanControl, Goto, journal
  <1>7. ASSUME NEW w \in Workers, ScanUnit(w) PROVE mode' = mode
    BY <1>7 DEF ScanUnit, UnitDone, Goto, Event, Stop, journal
  <1>8. ASSUME NEW w \in Workers, Conclude(w) PROVE mode' = mode
    BY <1>8 DEF Conclude, ConcludeAs, Goto, Event, Stop, journal
  <1>9. ASSUME NEW w \in Workers, ConcludeCancelled(w) PROVE mode' = mode
    BY <1>9 DEF ConcludeCancelled, ConcludeAs, Goto, Event, journal
  <1>10. ASSUME NEW w \in Workers, Acquire(w) PROVE mode' = mode
    BY <1>10 DEF Acquire, StartClose, Goto, Stop, journal
  <1>11. ASSUME NEW w \in Workers, RecordLease(w) PROVE mode' = mode
    BY <1>11 DEF RecordLease, Goto, Event, journal
  <1>12. ASSUME NEW w \in Workers, RecordLeaseAnswerLost(w) PROVE mode' = mode
    BY <1>12 DEF RecordLeaseAnswerLost, StartClose, Goto, Event, journal
  <1>13. ASSUME NEW w \in Workers, ImplReturns(w) PROVE mode' = mode
    BY <1>13 DEF ImplReturns, Goto, journal
  <1>14. ASSUME NEW w \in Workers, ImplRaises(w) PROVE mode' = mode
    BY <1>14 DEF ImplRaises, StartClose, Goto, journal
  <1>15. ASSUME NEW w \in Workers, ImplFencedOut(w) PROVE mode' = mode
    BY <1>15 DEF ImplFencedOut, Stop, Goto, journal
  <1>16. ASSUME NEW w \in Workers, RecordCompletion(w) PROVE mode' = mode
    BY <1>16 DEF RecordCompletion, StartClose, Goto, Event, Stop, journal
  <1>17. ASSUME NEW w \in Workers, RecordCompletionAnswerLost(w) PROVE mode' = mode
    BY <1>17 DEF RecordCompletionAnswerLost, StartClose, Goto, Event, FaultOn, journal
  <1>18. ASSUME NEW w \in Workers, AffirmOwnership(w) PROVE mode' = mode
    BY <1>18 DEF AffirmOwnership, Goto, Stop, journal
  <1>19. ASSUME NEW w \in Workers, NothingToClose(w) PROVE mode' = mode
    BY <1>19 DEF NothingToClose, Goto, journal
  <1>20. ASSUME NEW w \in Workers, ClosePhysical(w) PROVE mode' = mode
    BY <1>20 DEF ClosePhysical, Goto, journal
  <1>21. ASSUME NEW w \in Workers, CloseFails(w) PROVE mode' = mode
    BY <1>21 DEF CloseFails, Goto, journal
  <1>22. ASSUME NEW w \in Workers, CloseRow(w) PROVE mode' = mode
    BY <1>22 DEF CloseRow, CloseLeaseRow, Goto, Event, Stop, journal
  <1>23. ASSUME NEW w \in Workers, Settle(w) PROVE mode' = mode
    BY <1>23 DEF Settle, UnitDone, Goto, Event, Stop, journal
  <1>24. ASSUME NEW w \in Workers, RecordIntent(w) PROVE mode' = mode
    BY <1>24 DEF RecordIntent, Goto, journal
  <1>25. ASSUME NEW w \in Workers, FinalCancel(w) PROVE mode' = mode
    BY <1>25 DEF FinalCancel, ConcludeAs, Goto, Event, journal
  <1>26. ASSUME NEW w \in Workers, ReleaseRun(w) PROVE mode' = mode
    BY <1>26 DEF ReleaseRun, Forget, Goto, journal
  <1>27. ASSUME NEW w \in Workers, ImportCandidate(w) PROVE mode' = mode
    BY <1>27 DEF ImportCandidate, journal
  <1>28. ASSUME NEW w \in Workers, Heartbeat(w) PROVE mode' = mode
    BY <1>28 DEF Heartbeat, journal
  <1>29. ASSUME NEW w \in Workers, AsyncCancel(w) PROVE mode' = mode
    BY <1>29 DEF AsyncCancel, StartClose, Goto, journal
  <1>30. ASSUME NEW w \in Workers, Crash(w) PROVE mode' = mode
    BY <1>30 DEF Crash, Forget, Goto, journal
  <1>31. CASE Expire
    BY <1>31 DEF Expire, journal
  <1>32. CASE RequestCancel
    BY <1>32 DEF RequestCancel, journal
  <1>33. CASE UNCHANGED vars
    BY <1>33 DEF vars, journal
  <1> QED BY <1>1, <1>2, <1>3, <1>4, <1>5, <1>6, <1>7, <1>8, <1>9, <1>10, <1>11, <1>12, <1>13,
       <1>14, <1>15, <1>16, <1>17, <1>18, <1>19, <1>20, <1>21, <1>22, <1>23, <1>24, <1>25,
       <1>26, <1>27, <1>28, <1>29, <1>30, <1>31, <1>32, <1>33 DEF Next, Drive

\* Unless a completion's answer is lost, an attempt that discards never checkpointed.
LEMMA CandidatesStep ==
  ASSUME CompletionsAnswered, TypeOK, Shape, UniqueEpochs, EpochsBounded,
       Candidates, [Next]_vars
  PROVE  Candidates'
  <1> USE BoundsAssumption, NoneAssumption
  <1>1. ASSUME NEW w \in Workers, ClaimRun(w) PROVE Candidates'
    <2>1. \A a \in imported' : a[3] # held'[w]
      <3>1. \A a \in imported : a[3] <= epoch /\ a[3] \in Nat
        BY DEF EpochsBounded, TypeOK, ResourceTypes, Acquisitions, Epochs
      <3>2. imported' = imported /\ held'[w] = epoch + 1 /\ epoch \in Nat
        BY <1>1 DEF ClaimRun, NextEpoch, physical, TypeOK, AttemptTypes, JournalTypes
      <3> QED BY <3>1, <3>2
    <2>2. CandidatesOf(w)'
      BY <1>1, <2>1, CandidatesFresh DEF ClaimRun, Goto, Invoking, Closing, TypeOK, AttemptTypes
    <2>3. ASSUME NEW v \in Workers, v # w PROVE CandidatesOf(v)'
      <3>1. CandidatesOf(v) /\ held[v] # epoch'
        BY <1>1 DEF ClaimRun, NextEpoch, EpochsBounded, Candidates, TypeOK, AttemptTypes,
             JournalTypes
      <3>2. pc'[v] = pc[v] /\ unit'[v] = unit[v] /\ held'[v] = held[v]
        BY <1>1, <2>3 DEF ClaimRun, Goto, TypeOK, AttemptTypes, InvocationTypes
      <3> QED BY <1>1, <3>1, <3>2 DEF ClaimRun, CandidatesOf, physical
    <2> QED BY <2>2, <2>3 DEF Candidates
  <1>2. ASSUME NEW w \in Workers, Begin(w) PROVE Candidates'
    <2>1. UNCHANGED <<ckpt, candidates, imported, epoch, unit, held>>
      BY <1>2 DEF Begin, Stop, journal, runRow, rowVars, physical, attempt, invocation
    <2>2. \A v \in Workers \ {w} : pc'[v] = pc[v] /\ after'[v] = after[v]
      BY <1>2 DEF Begin, Stop, Goto, invocation, TypeOK, AttemptTypes, InvocationTypes
    <2>3. MovesOn(w)
      BY <1>2 DEF Begin, Stop, Goto, invocation, MovesOn, Invoking, Closing, BeforeImpl,
           TypeOK, AttemptTypes, InvocationTypes
    <2> QED BY <2>1, <2>2, <2>3, CandidatesMoved
  <1>3. ASSUME NEW w \in Workers, ReadStaleLeases(w) PROVE Candidates'
    <2>1. UNCHANGED <<ckpt, candidates, imported, epoch, unit, held>>
      BY <1>3 DEF ReadStaleLeases, journal, runRow, rowVars, physical, attempt, invocation
    <2>2. \A v \in Workers \ {w} : pc'[v] = pc[v] /\ after'[v] = after[v]
      BY <1>3 DEF ReadStaleLeases, Goto, invocation, TypeOK, AttemptTypes, InvocationTypes
    <2>3. MovesOn(w)
      BY <1>3 DEF ReadStaleLeases, Goto, invocation, MovesOn, Invoking, Closing, BeforeImpl,
           TypeOK, AttemptTypes, InvocationTypes
    <2> QED BY <2>1, <2>2, <2>3, CandidatesMoved
  <1>4. ASSUME NEW w \in Workers, ReconcileStale(w) PROVE Candidates'
    <2>1. NextStale(w)[3] < held[w] /\ NextStale(w)[3] \in Nat
      BY <1>4, ChosenElements DEF ReconcileStale, Shape, ShapeOf, TypeOK, InvocationTypes,
           Acquisitions, Epochs
    <2>2. /\ UNCHANGED <<ckpt, imported, epoch, unit, held, after>>
          /\ \A a \in candidates : a # NextStale(w) => a \in candidates'
      BY <1>4 DEF ReconcileStale, journal, runRow, attempt, invocation
    <2>3. pc'[w] = "staleRow" /\ pc[w] = "stale" /\ \A v \in Workers \ {w} : pc'[v] = pc[v]
      BY <1>4 DEF ReconcileStale, Goto, TypeOK, AttemptTypes
    <2>4. \A a \in candidates : a[3] = epoch => a \in candidates'
      BY <2>1, <2>2 DEF EpochsBounded, TypeOK, AttemptTypes, JournalTypes
    <2>5. ASSUME NEW v \in Workers, v # w PROVE CandidatesOf(v)'
      BY <2>2, <2>3, <2>4, <2>5, CandidatesKept DEF Candidates
    <2>6. CandidatesOf(w)'
      BY <2>2, <2>3 DEF Candidates, CandidatesOf, Invoking, Closing, BeforeImpl
    <2> QED BY <2>5, <2>6 DEF Candidates
  <1>5. ASSUME NEW w \in Workers, CloseStaleRow(w) PROVE Candidates'
    <2>1. UNCHANGED <<ckpt, candidates, imported, epoch, unit, held>>
      BY <1>5 DEF CloseStaleRow, CloseLeaseRow, Stop, journal, runRow, rowVars, physical,
           attempt, invocation
    <2>2. \A v \in Workers \ {w} : pc'[v] = pc[v] /\ after'[v] = after[v]
      BY <1>5 DEF CloseStaleRow, CloseLeaseRow, Stop, Goto, invocation, TypeOK, AttemptTypes,
           InvocationTypes
    <2>3. MovesOn(w)
      BY <1>5 DEF CloseStaleRow, CloseLeaseRow, Stop, Goto, invocation, MovesOn, Invoking,
           Closing, BeforeImpl, TypeOK, AttemptTypes, InvocationTypes
    <2> QED BY <2>1, <2>2, <2>3, CandidatesMoved
  <1>6. ASSUME NEW w \in Workers, ScanControl(w) PROVE Candidates'
    <2>1. UNCHANGED <<ckpt, candidates, imported, epoch, unit, held>>
      BY <1>6 DEF ScanControl, journal, runRow, rowVars, physical, attempt, invocation
    <2>2. \A v \in Workers \ {w} : pc'[v] = pc[v] /\ after'[v] = after[v]
      BY <1>6 DEF ScanControl, Goto, invocation, TypeOK, AttemptTypes, InvocationTypes
    <2>3. MovesOn(w)
      BY <1>6 DEF ScanControl, Goto, invocation, MovesOn, Invoking, Closing, BeforeImpl,
           TypeOK, AttemptTypes, InvocationTypes
    <2> QED BY <2>1, <2>2, <2>3, CandidatesMoved
  <1>7. ASSUME NEW w \in Workers, ScanUnit(w) PROVE Candidates'
    <2>1. UNCHANGED <<ckpt, candidates, imported, epoch, held, after>> /\ held[w] # 0
      BY <1>7 DEF ScanUnit, Stop, journal, runRow, physical, attempt, invocation, Shape, ShapeOf
    <2>2. ASSUME NEW v \in Workers, v # w PROVE CandidatesOf(v)'
      <3>1. pc'[v] = pc[v] /\ unit'[v] = unit[v]
        BY <1>7, <2>2 DEF ScanUnit, UnitDone, Stop, Goto, invocation, TypeOK, AttemptTypes,
             InvocationTypes
      <3> QED BY <2>1, <2>2, <3>1, CandidatesKept DEF Candidates
    <2>3. \A a \in imported : a[3] = held[w] => a[1] <= unit[w] /\ a[1] < unit[w]
      BY <1>7 DEF ScanUnit, Candidates, CandidatesOf, BeforeImpl
    <2>4. ASSUME NEW outcome, UnitDone(w, outcome) PROVE CandidatesOf(w)'
      BY <2>1, <2>3, <2>4, CandidatesAfterUnit
    <2>5. ASSUME pc'[w] = "release", unit' = unit PROVE CandidatesOf(w)'
      BY <2>1, <2>3, <2>5 DEF CandidatesOf, Invoking, Closing, BeforeImpl
    <2>6. ASSUME pc'[w] \in {"impl", "acquire"}, unit' = unit, ckpt[unit[w]] = 0 PROVE
         CandidatesOf(w)'
      <3>1. \A a \in imported : a[3] = held[w] => a[1] # unit[w]
        BY <2>3 DEF TypeOK, ResourceTypes, InvocationTypes, Acquisitions, Units
      <3> QED BY <2>1, <2>3, <2>6, <3>1 DEF CandidatesOf, Invoking, Closing, BeforeImpl
    <2>7. CandidatesOf(w)'
      BY <1>7, <2>4, <2>5, <2>6 DEF ScanUnit, Stop, Goto, invocation, TypeOK, AttemptTypes
    <2> QED BY <2>2, <2>7 DEF Candidates
  <1>8. ASSUME NEW w \in Workers, Conclude(w) PROVE Candidates'
    <2>1. UNCHANGED <<ckpt, candidates, imported, epoch, unit, held>>
      BY <1>8 DEF Conclude, ConcludeAs, Stop, journal, runRow, rowVars, physical, attempt,
           invocation
    <2>2. \A v \in Workers \ {w} : pc'[v] = pc[v] /\ after'[v] = after[v]
      BY <1>8 DEF Conclude, ConcludeAs, Stop, Goto, invocation, TypeOK, AttemptTypes,
           InvocationTypes
    <2>3. MovesOn(w)
      BY <1>8 DEF Conclude, ConcludeAs, Stop, Goto, invocation, MovesOn, Invoking, Closing,
           BeforeImpl, TypeOK, AttemptTypes, InvocationTypes
    <2> QED BY <2>1, <2>2, <2>3, CandidatesMoved
  <1>9. ASSUME NEW w \in Workers, ConcludeCancelled(w) PROVE Candidates'
    <2>1. UNCHANGED <<ckpt, candidates, imported, epoch, unit, held>>
      BY <1>9 DEF ConcludeCancelled, ConcludeAs, journal, runRow, rowVars, physical, attempt,
           invocation
    <2>2. \A v \in Workers \ {w} : pc'[v] = pc[v] /\ after'[v] = after[v]
      BY <1>9 DEF ConcludeCancelled, ConcludeAs, Goto, invocation, TypeOK, AttemptTypes,
           InvocationTypes
    <2>3. MovesOn(w)
      BY <1>9 DEF ConcludeCancelled, ConcludeAs, Goto, invocation, MovesOn, Invoking, Closing,
           BeforeImpl, TypeOK, AttemptTypes, InvocationTypes
    <2> QED BY <2>1, <2>2, <2>3, CandidatesMoved
  <1>10. ASSUME NEW w \in Workers, Acquire(w) PROVE Candidates'
    <2>1. UNCHANGED <<ckpt, candidates, imported, epoch, unit, held>>
      BY <1>10 DEF Acquire, StartClose, Stop, journal, runRow, rowVars, physical, attempt,
           invocation
    <2>2. \A v \in Workers \ {w} : pc'[v] = pc[v] /\ after'[v] = after[v]
      BY <1>10 DEF Acquire, StartClose, Stop, Goto, invocation, TypeOK, AttemptTypes,
           InvocationTypes
    <2>3. MovesOn(w)
      BY <1>10 DEF Acquire, StartClose, Stop, Goto, invocation, MovesOn, Invoking, Closing,
           BeforeImpl, TypeOK, AttemptTypes, InvocationTypes
    <2> QED BY <2>1, <2>2, <2>3, CandidatesMoved
  <1>11. ASSUME NEW w \in Workers, RecordLease(w) PROVE Candidates'
    <2>1. UNCHANGED <<ckpt, candidates, imported, epoch, unit, held>>
      BY <1>11 DEF RecordLease, journal, runRow, rowVars, physical, attempt, invocation
    <2>2. \A v \in Workers \ {w} : pc'[v] = pc[v] /\ after'[v] = after[v]
      BY <1>11 DEF RecordLease, Goto, invocation, TypeOK, AttemptTypes, InvocationTypes
    <2>3. MovesOn(w)
      BY <1>11 DEF RecordLease, Goto, invocation, MovesOn, Invoking, Closing, BeforeImpl,
           TypeOK, AttemptTypes, InvocationTypes
    <2> QED BY <2>1, <2>2, <2>3, CandidatesMoved
  <1>12. ASSUME NEW w \in Workers, RecordLeaseAnswerLost(w) PROVE Candidates'
    <2>1. UNCHANGED <<ckpt, candidates, imported, epoch, unit, held>>
      BY <1>12 DEF RecordLeaseAnswerLost, StartClose, journal, runRow, rowVars, physical,
           attempt, invocation
    <2>2. \A v \in Workers \ {w} : pc'[v] = pc[v] /\ after'[v] = after[v]
      BY <1>12 DEF RecordLeaseAnswerLost, StartClose, Goto, invocation, TypeOK, AttemptTypes,
           InvocationTypes
    <2>3. MovesOn(w)
      BY <1>12 DEF RecordLeaseAnswerLost, StartClose, Goto, invocation, MovesOn, Invoking,
           Closing, BeforeImpl, TypeOK, AttemptTypes, InvocationTypes
    <2> QED BY <2>1, <2>2, <2>3, CandidatesMoved
  <1>13. ASSUME NEW w \in Workers, ImplReturns(w) PROVE Candidates'
    <2>1. UNCHANGED <<ckpt, candidates, imported, epoch, unit, held>>
      BY <1>13 DEF ImplReturns, journal, runRow, rowVars, physical, attempt, invocation
    <2>2. \A v \in Workers \ {w} : pc'[v] = pc[v] /\ after'[v] = after[v]
      BY <1>13 DEF ImplReturns, Goto, invocation, TypeOK, AttemptTypes, InvocationTypes
    <2>3. MovesOn(w)
      BY <1>13 DEF ImplReturns, Goto, invocation, MovesOn, Invoking, Closing, BeforeImpl,
           TypeOK, AttemptTypes, InvocationTypes
    <2> QED BY <2>1, <2>2, <2>3, CandidatesMoved
  <1>14. ASSUME NEW w \in Workers, ImplRaises(w) PROVE Candidates'
    <2>1. UNCHANGED <<ckpt, candidates, imported, epoch, unit, held>>
      BY <1>14 DEF ImplRaises, StartClose, journal, runRow, rowVars, physical, attempt,
           invocation
    <2>2. \A v \in Workers \ {w} : pc'[v] = pc[v] /\ after'[v] = after[v]
      BY <1>14 DEF ImplRaises, StartClose, Goto, invocation, TypeOK, AttemptTypes,
           InvocationTypes
    <2>3. MovesOn(w)
      BY <1>14 DEF ImplRaises, StartClose, Goto, invocation, MovesOn, Invoking, Closing,
           BeforeImpl, TypeOK, AttemptTypes, InvocationTypes
    <2> QED BY <2>1, <2>2, <2>3, CandidatesMoved
  <1>15. ASSUME NEW w \in Workers, ImplFencedOut(w) PROVE Candidates'
    <2>1. UNCHANGED <<ckpt, candidates, imported, epoch, unit, held>>
      BY <1>15 DEF ImplFencedOut, Stop, journal, runRow, rowVars, physical, attempt, invocation
    <2>2. \A v \in Workers \ {w} : pc'[v] = pc[v] /\ after'[v] = after[v]
      BY <1>15 DEF ImplFencedOut, Stop, Goto, invocation, TypeOK, AttemptTypes, InvocationTypes
    <2>3. MovesOn(w)
      BY <1>15 DEF ImplFencedOut, Stop, Goto, invocation, MovesOn, Invoking, Closing,
           BeforeImpl, TypeOK, AttemptTypes, InvocationTypes
    <2> QED BY <2>1, <2>2, <2>3, CandidatesMoved
  <1>16. ASSUME NEW w \in Workers, RecordCompletion(w) PROVE Candidates'
    <2>1. UNCHANGED <<candidates, imported, epoch, unit, held>> /\ held[w] # 0 /\ pc[w] =
         "complete"
      BY <1>16 DEF RecordCompletion, Stop, journal, runRow, physical, attempt, invocation,
           Shape, ShapeOf
    <2>2. ckpt' = ckpt \/ ckpt' = [ckpt EXCEPT ![unit[w]] = held[w]]
      BY <1>16 DEF RecordCompletion, Stop, journal
    <2>3. ASSUME NEW v \in Workers, v # w PROVE CandidatesOf(v)'
      <3>1. pc'[v] = pc[v] /\ after'[v] = after[v]
        BY <1>16, <2>3 DEF RecordCompletion, StartClose, Stop, Goto, invocation, TypeOK,
             AttemptTypes
      <3>2. CASE held[v] # 0
        <4>1. \A u \in Units : ckpt'[u] = ckpt[u] \/ ckpt'[u] # held[v]
          BY <2>1, <2>2, <2>3, <3>2 DEF UniqueEpochs, TypeOK, JournalTypes
        <4> QED BY <2>1, <3>1, <4>1 DEF Candidates, CandidatesOf, Shape, ShapeOf, Invoking,
             Closing
      <3>3. CASE held[v] = 0
        BY <2>1, <3>1, <3>3 DEF Candidates, CandidatesOf, Shape, ShapeOf, Invoking, Closing
      <3> QED BY <3>2, <3>3
    <2>4. /\ ckpt[unit[w]] # held[w]
          /\ \A a \in imported : a[3] = held[w] => a[1] <= unit[w]
      BY <2>1 DEF Candidates, CandidatesOf, Invoking
    <2>5. \/ pc'[w] = "release"
          \/ pc'[w] = "close" /\ (after'[w] = "completed" \/ ckpt' = ckpt)
      BY <1>16 DEF RecordCompletion, StartClose, Stop, Goto, journal, TypeOK, AttemptTypes
    <2>6. CandidatesOf(w)'
      BY <2>1, <2>4, <2>5 DEF CandidatesOf, Invoking, Closing, BeforeImpl
    <2> QED BY <2>3, <2>6 DEF Candidates
  <1>17. ASSUME NEW w \in Workers, RecordCompletionAnswerLost(w) PROVE Candidates'
    BY <1>17 DEF RecordCompletionAnswerLost, StartClose, Goto, Event, MayWrite, Fenced,
         FaultOn, CompletionsAnswered, Candidates, CandidatesOf, Invoking, Closing, BeforeImpl, TypeOK,
         JournalTypes, AttemptTypes, InvocationTypes, vars, journal, runRow, rowVars, physical,
         attempt, invocation
  <1>18. ASSUME NEW w \in Workers, AffirmOwnership(w) PROVE Candidates'
    <2>1. UNCHANGED <<ckpt, candidates, imported, epoch, unit, held>>
      BY <1>18 DEF AffirmOwnership, Stop, journal, runRow, rowVars, physical, attempt,
           invocation
    <2>2. \A v \in Workers \ {w} : pc'[v] = pc[v] /\ after'[v] = after[v]
      BY <1>18 DEF AffirmOwnership, Stop, Goto, invocation, TypeOK, AttemptTypes,
           InvocationTypes
    <2>3. MovesOn(w)
      BY <1>18 DEF AffirmOwnership, Stop, Goto, invocation, MovesOn, Invoking, Closing,
           BeforeImpl, TypeOK, AttemptTypes, InvocationTypes
    <2> QED BY <2>1, <2>2, <2>3, CandidatesMoved
  <1>19. ASSUME NEW w \in Workers, NothingToClose(w) PROVE Candidates'
    <2>1. UNCHANGED <<ckpt, candidates, imported, epoch, unit, held>>
      BY <1>19 DEF NothingToClose, journal, runRow, rowVars, physical, attempt, invocation
    <2>2. \A v \in Workers \ {w} : pc'[v] = pc[v] /\ after'[v] = after[v]
      BY <1>19 DEF NothingToClose, Goto, invocation, TypeOK, AttemptTypes, InvocationTypes
    <2>3. MovesOn(w)
      BY <1>19 DEF NothingToClose, Goto, invocation, MovesOn, Invoking, Closing, BeforeImpl,
           TypeOK, AttemptTypes, InvocationTypes
    <2> QED BY <2>1, <2>2, <2>3, CandidatesMoved
  <1>20. ASSUME NEW w \in Workers, ClosePhysical(w) PROVE Candidates'
    <2> DEFINE a == AcquisitionOf(w, NextAcquired(w))
    <2>1. a[3] = held[w] /\ held[w] # 0
      BY <1>20 DEF ClosePhysical, AcquisitionOf, Shape, ShapeOf
    <2>2. /\ UNCHANGED <<ckpt, imported, epoch, unit, held, after>>
          /\ \A x \in candidates : x # a => x \in candidates'
      BY <1>20 DEF ClosePhysical, journal, runRow, attempt, invocation
    <2>3. pc'[w] = "closeRow" /\ pc[w] = "closing" /\ \A v \in Workers \ {w} : pc'[v] = pc[v]
      BY <1>20 DEF ClosePhysical, Goto, TypeOK, AttemptTypes
    <2> HIDE DEF a
    <2>4. ASSUME NEW v \in Workers, v # w PROVE CandidatesOf(v)'
      <3>1. \A x \in candidates : x[3] = held[v] => x \in candidates'
        BY <2>1, <2>2, <2>4 DEF UniqueEpochs
      <3> QED BY <2>2, <2>3, <2>4, <3>1, CandidatesKept DEF Candidates
    <2>5. CandidatesOf(w)'
      BY <2>2, <2>3 DEF Candidates, CandidatesOf, Invoking, Closing, BeforeImpl
    <2> QED BY <2>4, <2>5 DEF Candidates
  <1>21. ASSUME NEW w \in Workers, CloseFails(w) PROVE Candidates'
    <2>1. UNCHANGED <<ckpt, candidates, imported, epoch, unit, held>>
      BY <1>21 DEF CloseFails, journal, runRow, rowVars, physical, attempt, invocation
    <2>2. \A v \in Workers \ {w} : pc'[v] = pc[v] /\ after'[v] = after[v]
      BY <1>21 DEF CloseFails, Goto, invocation, TypeOK, AttemptTypes, InvocationTypes
    <2>3. MovesOn(w)
      BY <1>21 DEF CloseFails, Goto, invocation, MovesOn, Invoking, Closing, BeforeImpl,
           TypeOK, AttemptTypes, InvocationTypes
    <2> QED BY <2>1, <2>2, <2>3, CandidatesMoved
  <1>22. ASSUME NEW w \in Workers, CloseRow(w) PROVE Candidates'
    <2>1. UNCHANGED <<ckpt, candidates, imported, epoch, unit, held>>
      BY <1>22 DEF CloseRow, CloseLeaseRow, Stop, journal, runRow, rowVars, physical, attempt,
           invocation
    <2>2. \A v \in Workers \ {w} : pc'[v] = pc[v] /\ after'[v] = after[v]
      BY <1>22 DEF CloseRow, CloseLeaseRow, Stop, Goto, invocation, TypeOK, AttemptTypes,
           InvocationTypes
    <2>3. MovesOn(w)
      BY <1>22 DEF CloseRow, CloseLeaseRow, Stop, Goto, invocation, MovesOn, Invoking, Closing,
           BeforeImpl, TypeOK, AttemptTypes, InvocationTypes
    <2> QED BY <2>1, <2>2, <2>3, CandidatesMoved
  <1>23. ASSUME NEW w \in Workers, Settle(w) PROVE Candidates'
    <2>1. UNCHANGED <<ckpt, candidates, imported, epoch, held, after>> /\ pc[w] = "settle"
      BY <1>23 DEF Settle, Stop, journal, runRow, physical, attempt, invocation
    <2>2. ASSUME NEW v \in Workers, v # w PROVE CandidatesOf(v)'
      <3>1. pc'[v] = pc[v] /\ unit'[v] = unit[v]
        BY <1>23, <2>2 DEF Settle, UnitDone, Stop, Goto, invocation, TypeOK, AttemptTypes,
             InvocationTypes
      <3> QED BY <2>1, <2>2, <3>1, CandidatesKept DEF Candidates
    <2>3. \A a \in imported : a[3] = held[w] => a[1] <= unit[w]
      BY DEF Candidates, CandidatesOf
    <2>4. ASSUME NEW outcome, UnitDone(w, outcome) PROVE CandidatesOf(w)'
      BY <2>1, <2>3, <2>4, CandidatesAfterUnit
    <2>5. ASSUME pc'[w] \in {"intent", "release", "cancelling"}, unit' = unit PROVE
         CandidatesOf(w)'
      BY <2>1, <2>3, <2>5 DEF CandidatesOf, Invoking, Closing, BeforeImpl
    <2>6. CandidatesOf(w)'
      BY <1>23, <2>4, <2>5 DEF Settle, Stop, Goto, invocation, TypeOK, AttemptTypes
    <2> QED BY <2>2, <2>6 DEF Candidates
  <1>24. ASSUME NEW w \in Workers, RecordIntent(w) PROVE Candidates'
    <2>1. UNCHANGED <<ckpt, candidates, imported, epoch, unit, held>>
      BY <1>24 DEF RecordIntent, journal, runRow, rowVars, physical, attempt, invocation
    <2>2. \A v \in Workers \ {w} : pc'[v] = pc[v] /\ after'[v] = after[v]
      BY <1>24 DEF RecordIntent, Goto, invocation, TypeOK, AttemptTypes, InvocationTypes
    <2>3. MovesOn(w)
      BY <1>24 DEF RecordIntent, Goto, invocation, MovesOn, Invoking, Closing, BeforeImpl,
           TypeOK, AttemptTypes, InvocationTypes
    <2> QED BY <2>1, <2>2, <2>3, CandidatesMoved
  <1>25. ASSUME NEW w \in Workers, FinalCancel(w) PROVE Candidates'
    <2>1. UNCHANGED <<ckpt, candidates, imported, epoch, unit, held>>
      BY <1>25 DEF FinalCancel, ConcludeAs, journal, runRow, rowVars, physical, attempt,
           invocation
    <2>2. \A v \in Workers \ {w} : pc'[v] = pc[v] /\ after'[v] = after[v]
      BY <1>25 DEF FinalCancel, ConcludeAs, Goto, invocation, TypeOK, AttemptTypes,
           InvocationTypes
    <2>3. MovesOn(w)
      BY <1>25 DEF FinalCancel, ConcludeAs, Goto, invocation, MovesOn, Invoking, Closing,
           BeforeImpl, TypeOK, AttemptTypes, InvocationTypes
    <2> QED BY <2>1, <2>2, <2>3, CandidatesMoved
  <1>26. ASSUME NEW w \in Workers, ReleaseRun(w) PROVE Candidates'
    <2>1. held'[w] = 0 /\ pc'[w] = "idle" /\ UNCHANGED <<ckpt, candidates, imported, epoch>>
      BY <1>26 DEF ReleaseRun, Forget, Goto, physical, TypeOK, AttemptTypes, runRow
    <2>2. \A a \in imported' : a[3] # held'[w]
      BY <2>1 DEF TypeOK, ResourceTypes, Acquisitions, Epochs
    <2>3. CandidatesOf(w)'
      BY <2>1, <2>2, CandidatesFresh DEF Invoking, Closing
    <2>4. ASSUME NEW v \in Workers, v # w PROVE CandidatesOf(v)'
      <3>1. pc'[v] = pc[v] /\ unit'[v] = unit[v] /\ held'[v] = held[v] /\ after'[v] = after[v]
        BY <1>26, <2>4 DEF ReleaseRun, Forget, Goto, TypeOK, AttemptTypes, InvocationTypes
      <3> QED BY <2>1, <3>1, CandidatesKept DEF Candidates
    <2> QED BY <2>3, <2>4 DEF Candidates
  <1>27. ASSUME NEW w \in Workers, ImportCandidate(w) PROVE Candidates'
    <2>1. PICK b \in Binds : candidates' = candidates \cup {AcquisitionOf(w, b)} /\ imported' =
         imported \cup {AcquisitionOf(w, b)}
      BY <1>27 DEF ImportCandidate
    <2> DEFINE a == AcquisitionOf(w, b)
    <2>2. a[1] = unit[w] /\ a[3] = held[w] /\ held[w] # 0 /\ unit[w] \in Nat
      BY <1>27 DEF ImportCandidate, AcquisitionOf, Shape, ShapeOf, Invoking, Units
    <2>3. UNCHANGED <<ckpt, epoch, pc, unit, held, after>> /\ pc[w] = "impl"
      BY <1>27 DEF ImportCandidate, journal, runRow, attempt, invocation
    <2> HIDE DEF a
    <2>4. candidates' = candidates \cup {a} /\ imported' = imported \cup {a}
      BY <2>1 DEF a
    <2>5. ASSUME NEW v \in Workers, v # w PROVE CandidatesOf(v)'
      <3>1. held[v] # held[w]
        BY <2>2, <2>5 DEF UniqueEpochs
      <3> QED BY <2>2, <2>3, <2>4, <3>1, CandidatesKept DEF Candidates
    <2>6. CandidatesOf(w)'
      BY <2>2, <2>3, <2>4 DEF Candidates, CandidatesOf, BeforeImpl, Invoking, Closing
    <2> QED BY <2>5, <2>6 DEF Candidates
  <1>28. ASSUME NEW w \in Workers, Heartbeat(w) PROVE Candidates'
    <2>1. UNCHANGED <<ckpt, candidates, imported, epoch, unit, held>>
      BY <1>28 DEF Heartbeat, journal, runRow, rowVars, physical, attempt, invocation
    <2>2. \A v \in Workers \ {w} : pc'[v] = pc[v] /\ after'[v] = after[v]
      BY <1>28 DEF Heartbeat, Goto, invocation, TypeOK, AttemptTypes, InvocationTypes
    <2>3. MovesOn(w)
      BY <1>28 DEF Heartbeat, Goto, invocation, MovesOn, Invoking, Closing, BeforeImpl, TypeOK,
           AttemptTypes, InvocationTypes
    <2> QED BY <2>1, <2>2, <2>3, CandidatesMoved
  <1>29. ASSUME NEW w \in Workers, AsyncCancel(w) PROVE Candidates'
    <2>1. UNCHANGED <<ckpt, candidates, imported, epoch, unit, held>>
      BY <1>29 DEF AsyncCancel, StartClose, journal, runRow, rowVars, physical, attempt,
           invocation
    <2>2. \A v \in Workers \ {w} : pc'[v] = pc[v] /\ after'[v] = after[v]
      BY <1>29 DEF AsyncCancel, StartClose, Goto, invocation, TypeOK, AttemptTypes,
           InvocationTypes
    <2>3. MovesOn(w)
      BY <1>29 DEF AsyncCancel, StartClose, Goto, invocation, MovesOn, Invoking, Closing,
           BeforeImpl, TypeOK, AttemptTypes, InvocationTypes
    <2> QED BY <2>1, <2>2, <2>3, CandidatesMoved
  <1>30. ASSUME NEW w \in Workers, Crash(w) PROVE Candidates'
    <2>1. held'[w] = 0 /\ pc'[w] = "idle" /\ UNCHANGED <<ckpt, candidates, imported, epoch>>
      BY <1>30 DEF Crash, Forget, Goto, physical, TypeOK, AttemptTypes, journal, runRow
    <2>2. \A a \in imported' : a[3] # held'[w]
      BY <2>1 DEF TypeOK, ResourceTypes, Acquisitions, Epochs
    <2>3. CandidatesOf(w)'
      BY <2>1, <2>2, CandidatesFresh DEF Invoking, Closing
    <2>4. ASSUME NEW v \in Workers, v # w PROVE CandidatesOf(v)'
      <3>1. pc'[v] = pc[v] /\ unit'[v] = unit[v] /\ held'[v] = held[v] /\ after'[v] = after[v]
        BY <1>30, <2>4 DEF Crash, Forget, Goto, TypeOK, AttemptTypes, InvocationTypes
      <3> QED BY <2>1, <3>1, CandidatesKept DEF Candidates
    <2> QED BY <2>3, <2>4 DEF Candidates
  <1>31. CASE Expire
    BY <1>31 DEF Expire, Candidates, CandidatesOf, Invoking, Closing, BeforeImpl, TypeOK,
         JournalTypes, AttemptTypes, InvocationTypes, vars, journal, runRow, rowVars, physical,
         attempt, invocation
  <1>32. CASE RequestCancel
    BY <1>32 DEF RequestCancel, Candidates, CandidatesOf, Invoking, Closing, BeforeImpl,
         TypeOK, JournalTypes, AttemptTypes, InvocationTypes, vars, journal, runRow, rowVars,
         physical, attempt, invocation
  <1>33. CASE UNCHANGED vars
    BY <1>33 DEF vars, Candidates, CandidatesOf, Invoking, Closing, BeforeImpl, TypeOK,
         JournalTypes, AttemptTypes, InvocationTypes, vars, journal, runRow, rowVars, physical,
         attempt, invocation
  <1> QED BY <1>1, <1>2, <1>3, <1>4, <1>5, <1>6, <1>7, <1>8, <1>9, <1>10, <1>11, <1>12, <1>13,
       <1>14, <1>15, <1>16, <1>17, <1>18, <1>19, <1>20, <1>21, <1>22, <1>23, <1>24, <1>25,
       <1>26, <1>27, <1>28, <1>29, <1>30, <1>31, <1>32, <1>33 DEF Next, Drive

\* No step deletes a candidate of a checkpointed unit.
LEMMA CandidateKeptStep ==
  ASSUME CompletionsAnswered, TypeOK, Shape, UniqueEpochs, EpochsBounded,
       Candidates, CheckpointedCandidateKept, [Next]_vars
  PROVE  CheckpointedCandidateKept'
  <1> USE BoundsAssumption, NoneAssumption
  <1>1. ASSUME NEW w \in Workers, ClaimRun(w) PROVE CheckpointedCandidateKept'
    BY <1>1 DEF ClaimRun, Goto, Unvisited, NextEpoch, LeaseFree, Claimable,
         CheckpointedCandidateKept, TypeOK, JournalTypes, AttemptTypes, InvocationTypes, vars,
         journal, runRow, rowVars, physical, attempt, invocation
  <1>2. ASSUME NEW w \in Workers, Begin(w) PROVE CheckpointedCandidateKept'
    BY <1>2 DEF Begin, Goto, Event, Stop, Claimable, Fenced, CheckpointedCandidateKept, TypeOK,
         JournalTypes, AttemptTypes, InvocationTypes, vars, journal, runRow, rowVars, physical,
         attempt, invocation
  <1>3. ASSUME NEW w \in Workers, ReadStaleLeases(w) PROVE CheckpointedCandidateKept'
    BY <1>3 DEF ReadStaleLeases, Goto, CheckpointedCandidateKept, TypeOK, JournalTypes,
         AttemptTypes, InvocationTypes, vars, journal, runRow, rowVars, physical, attempt,
         invocation
  <1>4. ASSUME NEW w \in Workers, ReconcileStale(w) PROVE CheckpointedCandidateKept'
    <2>1. NextStale(w)[3] # 0
      BY <1>4, ChosenElements DEF ReconcileStale, TypeOK, InvocationTypes, Acquisitions, Epochs
    <2>2. UNCHANGED <<ckpt, imported, mode>>
      BY <1>4 DEF ReconcileStale, journal
    <2>3. ASSUME mode = "normal", ckpt[NextStale(w)[1]] = NextStale(w)[3] PROVE candidates' =
         candidates
      BY <1>4, <2>1, <2>3 DEF ReconcileStale, StaleDisposition
    <2>4. \A a \in candidates : a # NextStale(w) => a \in candidates'
      BY <1>4 DEF ReconcileStale
    <2> QED BY <2>2, <2>3, <2>4 DEF CheckpointedCandidateKept
  <1>5. ASSUME NEW w \in Workers, CloseStaleRow(w) PROVE CheckpointedCandidateKept'
    BY <1>5 DEF CloseStaleRow, CloseLeaseRow, Goto, Event, Stop, MayWrite, Fenced,
         CheckpointedCandidateKept, TypeOK, JournalTypes, AttemptTypes, InvocationTypes, vars,
         journal, runRow, rowVars, physical, attempt, invocation
  <1>6. ASSUME NEW w \in Workers, ScanControl(w) PROVE CheckpointedCandidateKept'
    BY <1>6 DEF ScanControl, Goto, CheckpointedCandidateKept, TypeOK, JournalTypes,
         AttemptTypes, InvocationTypes, vars, journal, runRow, rowVars, physical, attempt,
         invocation
  <1>7. ASSUME NEW w \in Workers, ScanUnit(w) PROVE CheckpointedCandidateKept'
    BY <1>7 DEF ScanUnit, UnitDone, Goto, Event, Stop, MayWrite, Fenced,
         CheckpointedCandidateKept, TypeOK, JournalTypes, AttemptTypes, InvocationTypes, vars,
         journal, runRow, rowVars, physical, attempt, invocation
  <1>8. ASSUME NEW w \in Workers, Conclude(w) PROVE CheckpointedCandidateKept'
    BY <1>8 DEF Conclude, ConcludeAs, Goto, Event, Stop, MayWrite, Fenced,
         CheckpointedCandidateKept, TypeOK, JournalTypes, AttemptTypes, InvocationTypes, vars,
         journal, runRow, rowVars, physical, attempt, invocation
  <1>9. ASSUME NEW w \in Workers, ConcludeCancelled(w) PROVE CheckpointedCandidateKept'
    BY <1>9 DEF ConcludeCancelled, ConcludeAs, Goto, Event, MayWrite, Fenced,
         CheckpointedCandidateKept, TypeOK, JournalTypes, AttemptTypes, InvocationTypes, vars,
         journal, runRow, rowVars, physical, attempt, invocation
  <1>10. ASSUME NEW w \in Workers, Acquire(w) PROVE CheckpointedCandidateKept'
    BY <1>10 DEF Acquire, StartClose, Goto, Stop, CheckpointedCandidateKept, TypeOK,
         JournalTypes, AttemptTypes, InvocationTypes, vars, journal, runRow, rowVars, physical,
         attempt, invocation
  <1>11. ASSUME NEW w \in Workers, RecordLease(w) PROVE CheckpointedCandidateKept'
    BY <1>11 DEF RecordLease, Goto, Event, MayWrite, Fenced, CheckpointedCandidateKept, TypeOK,
         JournalTypes, AttemptTypes, InvocationTypes, vars, journal, runRow, rowVars, physical,
         attempt, invocation
  <1>12. ASSUME NEW w \in Workers, RecordLeaseAnswerLost(w) PROVE CheckpointedCandidateKept'
    BY <1>12 DEF RecordLeaseAnswerLost, StartClose, Goto, Event, MayWrite, Fenced,
         CheckpointedCandidateKept, TypeOK, JournalTypes, AttemptTypes, InvocationTypes, vars,
         journal, runRow, rowVars, physical, attempt, invocation
  <1>13. ASSUME NEW w \in Workers, ImplReturns(w) PROVE CheckpointedCandidateKept'
    BY <1>13 DEF ImplReturns, Goto, CheckpointedCandidateKept, TypeOK, JournalTypes,
         AttemptTypes, InvocationTypes, vars, journal, runRow, rowVars, physical, attempt,
         invocation
  <1>14. ASSUME NEW w \in Workers, ImplRaises(w) PROVE CheckpointedCandidateKept'
    BY <1>14 DEF ImplRaises, StartClose, Goto, CheckpointedCandidateKept, TypeOK, JournalTypes,
         AttemptTypes, InvocationTypes, vars, journal, runRow, rowVars, physical, attempt,
         invocation
  <1>15. ASSUME NEW w \in Workers, ImplFencedOut(w) PROVE CheckpointedCandidateKept'
    BY <1>15 DEF ImplFencedOut, Stop, Goto, CheckpointedCandidateKept, TypeOK, JournalTypes,
         AttemptTypes, InvocationTypes, vars, journal, runRow, rowVars, physical, attempt,
         invocation
  <1>16. ASSUME NEW w \in Workers, RecordCompletion(w) PROVE CheckpointedCandidateKept'
    <2>1. UNCHANGED <<candidates, imported, mode>> /\ unit[w] \in Units
      BY <1>16 DEF RecordCompletion, Stop, journal, physical, Shape, ShapeOf, Invoking
    <2>2. CASE ckpt' = ckpt
      BY <2>1, <2>2 DEF CheckpointedCandidateKept
    <2>3. CASE ckpt' = [ckpt EXCEPT ![unit[w]] = held[w]] /\ held[w] = epoch
      <3>1. \A a \in imported : a[1] = unit[w] /\ a[3] = held[w] => a \in candidates
        BY <1>16, <2>3 DEF RecordCompletion, Candidates, CandidatesOf
      <3>2. \A a \in imported : a[1] \in Units
        BY DEF TypeOK, ResourceTypes, Acquisitions
      <3>3. \A u \in Units : ckpt'[u] = IF u = unit[w] THEN held[w] ELSE ckpt[u]
        BY <2>1, <2>3 DEF TypeOK, JournalTypes
      <3> QED BY <2>1, <3>1, <3>2, <3>3 DEF CheckpointedCandidateKept
    <2> QED BY <1>16, <2>2, <2>3 DEF RecordCompletion, Stop, MayWrite, Fenced, journal
  <1>17. ASSUME NEW w \in Workers, RecordCompletionAnswerLost(w) PROVE
       CheckpointedCandidateKept'
    BY <1>17 DEF RecordCompletionAnswerLost, StartClose, Goto, Event, MayWrite, Fenced,
         FaultOn, CompletionsAnswered, CheckpointedCandidateKept, TypeOK, JournalTypes, AttemptTypes,
         InvocationTypes, vars, journal, runRow, rowVars, physical, attempt, invocation
  <1>18. ASSUME NEW w \in Workers, AffirmOwnership(w) PROVE CheckpointedCandidateKept'
    BY <1>18 DEF AffirmOwnership, Goto, Stop, CheckpointedCandidateKept, TypeOK, JournalTypes,
         AttemptTypes, InvocationTypes, vars, journal, runRow, rowVars, physical, attempt,
         invocation
  <1>19. ASSUME NEW w \in Workers, NothingToClose(w) PROVE CheckpointedCandidateKept'
    BY <1>19 DEF NothingToClose, Goto, CheckpointedCandidateKept, TypeOK, JournalTypes,
         AttemptTypes, InvocationTypes, vars, journal, runRow, rowVars, physical, attempt,
         invocation
  <1>20. ASSUME NEW w \in Workers, ClosePhysical(w) PROVE CheckpointedCandidateKept'
    <2> DEFINE a == AcquisitionOf(w, NextAcquired(w))
    <2>1. UNCHANGED <<ckpt, imported, mode>> /\ pc[w] = "closing"
      BY <1>20 DEF ClosePhysical, journal
    <2>2. a[1] = unit[w] /\ a[3] = held[w]
      BY DEF AcquisitionOf
    <2>3. candidates' = IF Disposition(w) = "discard" THEN candidates \ {a} ELSE candidates
      BY <1>20 DEF ClosePhysical
    <2> HIDE DEF a
    <2>4. ASSUME mode = "normal", ckpt[a[1]] = a[3] PROVE candidates' = candidates
      BY <2>1, <2>2, <2>3, <2>4 DEF Disposition, Candidates, CandidatesOf, Closing
    <2> QED BY <2>1, <2>3, <2>4 DEF CheckpointedCandidateKept
  <1>21. ASSUME NEW w \in Workers, CloseFails(w) PROVE CheckpointedCandidateKept'
    BY <1>21 DEF CloseFails, Goto, CheckpointedCandidateKept, TypeOK, JournalTypes,
         AttemptTypes, InvocationTypes, vars, journal, runRow, rowVars, physical, attempt,
         invocation
  <1>22. ASSUME NEW w \in Workers, CloseRow(w) PROVE CheckpointedCandidateKept'
    BY <1>22 DEF CloseRow, CloseLeaseRow, Goto, Event, Stop, MayWrite, Fenced,
         CheckpointedCandidateKept, TypeOK, JournalTypes, AttemptTypes, InvocationTypes, vars,
         journal, runRow, rowVars, physical, attempt, invocation
  <1>23. ASSUME NEW w \in Workers, Settle(w) PROVE CheckpointedCandidateKept'
    BY <1>23 DEF Settle, UnitDone, Goto, Event, Stop, MayWrite, Fenced,
         CheckpointedCandidateKept, TypeOK, JournalTypes, AttemptTypes, InvocationTypes, vars,
         journal, runRow, rowVars, physical, attempt, invocation
  <1>24. ASSUME NEW w \in Workers, RecordIntent(w) PROVE CheckpointedCandidateKept'
    BY <1>24 DEF RecordIntent, Goto, CheckpointedCandidateKept, TypeOK, JournalTypes,
         AttemptTypes, InvocationTypes, vars, journal, runRow, rowVars, physical, attempt,
         invocation
  <1>25. ASSUME NEW w \in Workers, FinalCancel(w) PROVE CheckpointedCandidateKept'
    BY <1>25 DEF FinalCancel, ConcludeAs, Goto, Event, MayWrite, Fenced,
         CheckpointedCandidateKept, TypeOK, JournalTypes, AttemptTypes, InvocationTypes, vars,
         journal, runRow, rowVars, physical, attempt, invocation
  <1>26. ASSUME NEW w \in Workers, ReleaseRun(w) PROVE CheckpointedCandidateKept'
    BY <1>26 DEF ReleaseRun, Forget, Goto, Unvisited, CheckpointedCandidateKept, TypeOK,
         JournalTypes, AttemptTypes, InvocationTypes, vars, journal, runRow, rowVars, physical,
         attempt, invocation
  <1>27. ASSUME NEW w \in Workers, ImportCandidate(w) PROVE CheckpointedCandidateKept'
    BY <1>27 DEF ImportCandidate, CheckpointedCandidateKept, TypeOK, JournalTypes,
         AttemptTypes, InvocationTypes, vars, journal, runRow, rowVars, physical, attempt,
         invocation
  <1>28. ASSUME NEW w \in Workers, Heartbeat(w) PROVE CheckpointedCandidateKept'
    BY <1>28 DEF Heartbeat, CheckpointedCandidateKept, TypeOK, JournalTypes, AttemptTypes,
         InvocationTypes, vars, journal, runRow, rowVars, physical, attempt, invocation
  <1>29. ASSUME NEW w \in Workers, AsyncCancel(w) PROVE CheckpointedCandidateKept'
    BY <1>29 DEF AsyncCancel, StartClose, Goto, CheckpointedCandidateKept, TypeOK,
         JournalTypes, AttemptTypes, InvocationTypes, vars, journal, runRow, rowVars, physical,
         attempt, invocation
  <1>30. ASSUME NEW w \in Workers, Crash(w) PROVE CheckpointedCandidateKept'
    BY <1>30 DEF Crash, Forget, Goto, Unvisited, CheckpointedCandidateKept, TypeOK,
         JournalTypes, AttemptTypes, InvocationTypes, vars, journal, runRow, rowVars, physical,
         attempt, invocation
  <1>31. CASE Expire
    BY <1>31 DEF Expire, CheckpointedCandidateKept, TypeOK, JournalTypes, AttemptTypes,
         InvocationTypes, vars, journal, runRow, rowVars, physical, attempt, invocation
  <1>32. CASE RequestCancel
    BY <1>32 DEF RequestCancel, CheckpointedCandidateKept, TypeOK, JournalTypes, AttemptTypes,
         InvocationTypes, vars, journal, runRow, rowVars, physical, attempt, invocation
  <1>33. CASE UNCHANGED vars
    BY <1>33 DEF vars, CheckpointedCandidateKept, TypeOK, JournalTypes, AttemptTypes,
         InvocationTypes, vars, journal, runRow, rowVars, physical, attempt, invocation
  <1> QED BY <1>1, <1>2, <1>3, <1>4, <1>5, <1>6, <1>7, <1>8, <1>9, <1>10, <1>11, <1>12, <1>13,
       <1>14, <1>15, <1>16, <1>17, <1>18, <1>19, <1>20, <1>21, <1>22, <1>23, <1>24, <1>25,
       <1>26, <1>27, <1>28, <1>29, <1>30, <1>31, <1>32, <1>33 DEF Next, Drive

\* Every event is written under the epoch of the run row.
LEMMA WriterStep ==
  ASSUME TypeOK, EpochsBounded, [Next]_vars
  PROVE  writer' >= writer
  <1> USE BoundsAssumption, NoneAssumption
  <1>1. ASSUME NEW w \in Workers, ClaimRun(w) PROVE writer' >= writer
    BY <1>1 DEF ClaimRun, Goto, Unvisited, NextEpoch, LeaseFree, Claimable, EpochsBounded,
         TypeOK, JournalTypes, AttemptTypes, vars, journal, runRow, rowVars, physical, attempt,
         invocation
  <1>2. ASSUME NEW w \in Workers, Begin(w) PROVE writer' >= writer
    BY <1>2 DEF Begin, Goto, Event, Stop, Claimable, Fenced, EpochsBounded, TypeOK,
         JournalTypes, AttemptTypes, vars, journal, runRow, rowVars, physical, attempt,
         invocation
  <1>3. ASSUME NEW w \in Workers, ReadStaleLeases(w) PROVE writer' >= writer
    BY <1>3 DEF ReadStaleLeases, Goto, EpochsBounded, TypeOK, JournalTypes, AttemptTypes, vars,
         journal, runRow, rowVars, physical, attempt, invocation
  <1>4. ASSUME NEW w \in Workers, ReconcileStale(w) PROVE writer' >= writer
    BY <1>4 DEF ReconcileStale, Goto, EpochsBounded, TypeOK, JournalTypes, AttemptTypes, vars,
         journal, runRow, rowVars, physical, attempt, invocation
  <1>5. ASSUME NEW w \in Workers, CloseStaleRow(w) PROVE writer' >= writer
    BY <1>5 DEF CloseStaleRow, CloseLeaseRow, Goto, Event, Stop, MayWrite, Fenced,
         EpochsBounded, TypeOK, JournalTypes, AttemptTypes, vars, journal, runRow, rowVars,
         physical, attempt, invocation
  <1>6. ASSUME NEW w \in Workers, ScanControl(w) PROVE writer' >= writer
    BY <1>6 DEF ScanControl, Goto, EpochsBounded, TypeOK, JournalTypes, AttemptTypes, vars,
         journal, runRow, rowVars, physical, attempt, invocation
  <1>7. ASSUME NEW w \in Workers, ScanUnit(w) PROVE writer' >= writer
    BY <1>7 DEF ScanUnit, UnitDone, Goto, Event, Stop, MayWrite, Fenced, EpochsBounded, TypeOK,
         JournalTypes, AttemptTypes, vars, journal, runRow, rowVars, physical, attempt,
         invocation
  <1>8. ASSUME NEW w \in Workers, Conclude(w) PROVE writer' >= writer
    BY <1>8 DEF Conclude, ConcludeAs, Goto, Event, Stop, MayWrite, Fenced, EpochsBounded,
         TypeOK, JournalTypes, AttemptTypes, vars, journal, runRow, rowVars, physical, attempt,
         invocation
  <1>9. ASSUME NEW w \in Workers, ConcludeCancelled(w) PROVE writer' >= writer
    BY <1>9 DEF ConcludeCancelled, ConcludeAs, Goto, Event, MayWrite, Fenced, EpochsBounded,
         TypeOK, JournalTypes, AttemptTypes, vars, journal, runRow, rowVars, physical, attempt,
         invocation
  <1>10. ASSUME NEW w \in Workers, Acquire(w) PROVE writer' >= writer
    BY <1>10 DEF Acquire, StartClose, Goto, Stop, EpochsBounded, TypeOK, JournalTypes,
         AttemptTypes, vars, journal, runRow, rowVars, physical, attempt, invocation
  <1>11. ASSUME NEW w \in Workers, RecordLease(w) PROVE writer' >= writer
    BY <1>11 DEF RecordLease, Goto, Event, MayWrite, Fenced, EpochsBounded, TypeOK,
         JournalTypes, AttemptTypes, vars, journal, runRow, rowVars, physical, attempt,
         invocation
  <1>12. ASSUME NEW w \in Workers, RecordLeaseAnswerLost(w) PROVE writer' >= writer
    BY <1>12 DEF RecordLeaseAnswerLost, StartClose, Goto, Event, MayWrite, Fenced,
         EpochsBounded, TypeOK, JournalTypes, AttemptTypes, vars, journal, runRow, rowVars,
         physical, attempt, invocation
  <1>13. ASSUME NEW w \in Workers, ImplReturns(w) PROVE writer' >= writer
    BY <1>13 DEF ImplReturns, Goto, EpochsBounded, TypeOK, JournalTypes, AttemptTypes, vars,
         journal, runRow, rowVars, physical, attempt, invocation
  <1>14. ASSUME NEW w \in Workers, ImplRaises(w) PROVE writer' >= writer
    BY <1>14 DEF ImplRaises, StartClose, Goto, EpochsBounded, TypeOK, JournalTypes,
         AttemptTypes, vars, journal, runRow, rowVars, physical, attempt, invocation
  <1>15. ASSUME NEW w \in Workers, ImplFencedOut(w) PROVE writer' >= writer
    BY <1>15 DEF ImplFencedOut, Stop, Goto, EpochsBounded, TypeOK, JournalTypes, AttemptTypes,
         vars, journal, runRow, rowVars, physical, attempt, invocation
  <1>16. ASSUME NEW w \in Workers, RecordCompletion(w) PROVE writer' >= writer
    BY <1>16 DEF RecordCompletion, StartClose, Goto, Event, Stop, MayWrite, Fenced,
         EpochsBounded, TypeOK, JournalTypes, AttemptTypes, vars, journal, runRow, rowVars,
         physical, attempt, invocation
  <1>17. ASSUME NEW w \in Workers, RecordCompletionAnswerLost(w) PROVE writer' >= writer
    BY <1>17 DEF RecordCompletionAnswerLost, StartClose, Goto, Event, MayWrite, Fenced,
         FaultOn, EpochsBounded, TypeOK, JournalTypes, AttemptTypes, vars, journal, runRow,
         rowVars, physical, attempt, invocation
  <1>18. ASSUME NEW w \in Workers, AffirmOwnership(w) PROVE writer' >= writer
    BY <1>18 DEF AffirmOwnership, Goto, Stop, EpochsBounded, TypeOK, JournalTypes,
         AttemptTypes, vars, journal, runRow, rowVars, physical, attempt, invocation
  <1>19. ASSUME NEW w \in Workers, NothingToClose(w) PROVE writer' >= writer
    BY <1>19 DEF NothingToClose, Goto, EpochsBounded, TypeOK, JournalTypes, AttemptTypes, vars,
         journal, runRow, rowVars, physical, attempt, invocation
  <1>20. ASSUME NEW w \in Workers, ClosePhysical(w) PROVE writer' >= writer
    BY <1>20 DEF ClosePhysical, Goto, EpochsBounded, TypeOK, JournalTypes, AttemptTypes, vars,
         journal, runRow, rowVars, physical, attempt, invocation
  <1>21. ASSUME NEW w \in Workers, CloseFails(w) PROVE writer' >= writer
    BY <1>21 DEF CloseFails, Goto, EpochsBounded, TypeOK, JournalTypes, AttemptTypes, vars,
         journal, runRow, rowVars, physical, attempt, invocation
  <1>22. ASSUME NEW w \in Workers, CloseRow(w) PROVE writer' >= writer
    BY <1>22 DEF CloseRow, CloseLeaseRow, Goto, Event, Stop, MayWrite, Fenced, EpochsBounded,
         TypeOK, JournalTypes, AttemptTypes, vars, journal, runRow, rowVars, physical, attempt,
         invocation
  <1>23. ASSUME NEW w \in Workers, Settle(w) PROVE writer' >= writer
    BY <1>23 DEF Settle, UnitDone, Goto, Event, Stop, MayWrite, Fenced, EpochsBounded, TypeOK,
         JournalTypes, AttemptTypes, vars, journal, runRow, rowVars, physical, attempt,
         invocation
  <1>24. ASSUME NEW w \in Workers, RecordIntent(w) PROVE writer' >= writer
    BY <1>24 DEF RecordIntent, Goto, EpochsBounded, TypeOK, JournalTypes, AttemptTypes, vars,
         journal, runRow, rowVars, physical, attempt, invocation
  <1>25. ASSUME NEW w \in Workers, FinalCancel(w) PROVE writer' >= writer
    BY <1>25 DEF FinalCancel, ConcludeAs, Goto, Event, MayWrite, Fenced, EpochsBounded, TypeOK,
         JournalTypes, AttemptTypes, vars, journal, runRow, rowVars, physical, attempt,
         invocation
  <1>26. ASSUME NEW w \in Workers, ReleaseRun(w) PROVE writer' >= writer
    BY <1>26 DEF ReleaseRun, Forget, Goto, Unvisited, EpochsBounded, TypeOK, JournalTypes,
         AttemptTypes, vars, journal, runRow, rowVars, physical, attempt, invocation
  <1>27. ASSUME NEW w \in Workers, ImportCandidate(w) PROVE writer' >= writer
    BY <1>27 DEF ImportCandidate, EpochsBounded, TypeOK, JournalTypes, AttemptTypes, vars,
         journal, runRow, rowVars, physical, attempt, invocation
  <1>28. ASSUME NEW w \in Workers, Heartbeat(w) PROVE writer' >= writer
    BY <1>28 DEF Heartbeat, EpochsBounded, TypeOK, JournalTypes, AttemptTypes, vars, journal,
         runRow, rowVars, physical, attempt, invocation
  <1>29. ASSUME NEW w \in Workers, AsyncCancel(w) PROVE writer' >= writer
    BY <1>29 DEF AsyncCancel, StartClose, Goto, EpochsBounded, TypeOK, JournalTypes,
         AttemptTypes, vars, journal, runRow, rowVars, physical, attempt, invocation
  <1>30. ASSUME NEW w \in Workers, Crash(w) PROVE writer' >= writer
    BY <1>30 DEF Crash, Forget, Goto, Unvisited, EpochsBounded, TypeOK, JournalTypes,
         AttemptTypes, vars, journal, runRow, rowVars, physical, attempt, invocation
  <1>31. CASE Expire
    BY <1>31 DEF Expire, EpochsBounded, TypeOK, JournalTypes, AttemptTypes, vars, journal,
         runRow, rowVars, physical, attempt, invocation
  <1>32. CASE RequestCancel
    BY <1>32 DEF RequestCancel, EpochsBounded, TypeOK, JournalTypes, AttemptTypes, vars,
         journal, runRow, rowVars, physical, attempt, invocation
  <1>33. CASE UNCHANGED vars
    BY <1>33 DEF vars, EpochsBounded, TypeOK, JournalTypes, AttemptTypes, vars, journal,
         runRow, rowVars, physical, attempt, invocation
  <1> QED BY <1>1, <1>2, <1>3, <1>4, <1>5, <1>6, <1>7, <1>8, <1>9, <1>10, <1>11, <1>12, <1>13,
       <1>14, <1>15, <1>16, <1>17, <1>18, <1>19, <1>20, <1>21, <1>22, <1>23, <1>24, <1>25,
       <1>26, <1>27, <1>28, <1>29, <1>30, <1>31, <1>32, <1>33 DEF Next, Drive

\* The fence and the status check keep every write away from a final run.
LEMMA FinalStep ==
  ASSUME TypeOK, OwnerSeesRunning, [Next]_vars
  PROVE  (status \in {"succeeded", "cancelled"}) => (status' = status /\ ckpt' = ckpt)
  <1> USE BoundsAssumption, NoneAssumption
  <1>1. ASSUME NEW w \in Workers, ClaimRun(w) PROVE (status \in {"succeeded", "cancelled"}) =>
       (status' = status /\ ckpt' = ckpt)
    BY <1>1 DEF ClaimRun, Goto, Unvisited, NextEpoch, LeaseFree, Claimable, OwnerSeesRunning,
         TypeOK, AttemptTypes, vars, journal, runRow, rowVars, physical, attempt, invocation
  <1>2. ASSUME NEW w \in Workers, Begin(w) PROVE (status \in {"succeeded", "cancelled"}) =>
       (status' = status /\ ckpt' = ckpt)
    BY <1>2 DEF Begin, Goto, Event, Stop, Claimable, Fenced, OwnerSeesRunning, TypeOK,
         AttemptTypes, vars, journal, runRow, rowVars, physical, attempt, invocation
  <1>3. ASSUME NEW w \in Workers, ReadStaleLeases(w) PROVE (status \in {"succeeded",
       "cancelled"}) => (status' = status /\ ckpt' = ckpt)
    BY <1>3 DEF ReadStaleLeases, Goto, OwnerSeesRunning, TypeOK, AttemptTypes, vars, journal,
         runRow, rowVars, physical, attempt, invocation
  <1>4. ASSUME NEW w \in Workers, ReconcileStale(w) PROVE (status \in {"succeeded",
       "cancelled"}) => (status' = status /\ ckpt' = ckpt)
    BY <1>4 DEF ReconcileStale, Goto, OwnerSeesRunning, TypeOK, AttemptTypes, vars, journal,
         runRow, rowVars, physical, attempt, invocation
  <1>5. ASSUME NEW w \in Workers, CloseStaleRow(w) PROVE (status \in {"succeeded",
       "cancelled"}) => (status' = status /\ ckpt' = ckpt)
    BY <1>5 DEF CloseStaleRow, CloseLeaseRow, Goto, Event, Stop, MayWrite, Fenced,
         OwnerSeesRunning, TypeOK, AttemptTypes, vars, journal, runRow, rowVars, physical,
         attempt, invocation
  <1>6. ASSUME NEW w \in Workers, ScanControl(w) PROVE (status \in {"succeeded", "cancelled"})
       => (status' = status /\ ckpt' = ckpt)
    BY <1>6 DEF ScanControl, Goto, OwnerSeesRunning, TypeOK, AttemptTypes, vars, journal,
         runRow, rowVars, physical, attempt, invocation
  <1>7. ASSUME NEW w \in Workers, ScanUnit(w) PROVE (status \in {"succeeded", "cancelled"}) =>
       (status' = status /\ ckpt' = ckpt)
    BY <1>7 DEF ScanUnit, UnitDone, Goto, Event, Stop, MayWrite, Fenced, OwnerSeesRunning,
         TypeOK, AttemptTypes, vars, journal, runRow, rowVars, physical, attempt, invocation
  <1>8. ASSUME NEW w \in Workers, Conclude(w) PROVE (status \in {"succeeded", "cancelled"}) =>
       (status' = status /\ ckpt' = ckpt)
    BY <1>8 DEF Conclude, ConcludeAs, Goto, Event, Stop, MayWrite, Fenced, OwnerSeesRunning,
         TypeOK, AttemptTypes, vars, journal, runRow, rowVars, physical, attempt, invocation
  <1>9. ASSUME NEW w \in Workers, ConcludeCancelled(w) PROVE (status \in {"succeeded",
       "cancelled"}) => (status' = status /\ ckpt' = ckpt)
    BY <1>9 DEF ConcludeCancelled, ConcludeAs, Goto, Event, MayWrite, Fenced, OwnerSeesRunning,
         TypeOK, AttemptTypes, vars, journal, runRow, rowVars, physical, attempt, invocation
  <1>10. ASSUME NEW w \in Workers, Acquire(w) PROVE (status \in {"succeeded", "cancelled"}) =>
       (status' = status /\ ckpt' = ckpt)
    BY <1>10 DEF Acquire, StartClose, Goto, Stop, OwnerSeesRunning, TypeOK, AttemptTypes, vars,
         journal, runRow, rowVars, physical, attempt, invocation
  <1>11. ASSUME NEW w \in Workers, RecordLease(w) PROVE (status \in {"succeeded", "cancelled"})
       => (status' = status /\ ckpt' = ckpt)
    BY <1>11 DEF RecordLease, Goto, Event, MayWrite, Fenced, OwnerSeesRunning, TypeOK,
         AttemptTypes, vars, journal, runRow, rowVars, physical, attempt, invocation
  <1>12. ASSUME NEW w \in Workers, RecordLeaseAnswerLost(w) PROVE (status \in {"succeeded",
       "cancelled"}) => (status' = status /\ ckpt' = ckpt)
    BY <1>12 DEF RecordLeaseAnswerLost, StartClose, Goto, Event, MayWrite, Fenced,
         OwnerSeesRunning, TypeOK, AttemptTypes, vars, journal, runRow, rowVars, physical,
         attempt, invocation
  <1>13. ASSUME NEW w \in Workers, ImplReturns(w) PROVE (status \in {"succeeded", "cancelled"})
       => (status' = status /\ ckpt' = ckpt)
    BY <1>13 DEF ImplReturns, Goto, OwnerSeesRunning, TypeOK, AttemptTypes, vars, journal,
         runRow, rowVars, physical, attempt, invocation
  <1>14. ASSUME NEW w \in Workers, ImplRaises(w) PROVE (status \in {"succeeded", "cancelled"})
       => (status' = status /\ ckpt' = ckpt)
    BY <1>14 DEF ImplRaises, StartClose, Goto, OwnerSeesRunning, TypeOK, AttemptTypes, vars,
         journal, runRow, rowVars, physical, attempt, invocation
  <1>15. ASSUME NEW w \in Workers, ImplFencedOut(w) PROVE (status \in {"succeeded",
       "cancelled"}) => (status' = status /\ ckpt' = ckpt)
    BY <1>15 DEF ImplFencedOut, Stop, Goto, OwnerSeesRunning, TypeOK, AttemptTypes, vars,
         journal, runRow, rowVars, physical, attempt, invocation
  <1>16. ASSUME NEW w \in Workers, RecordCompletion(w) PROVE (status \in {"succeeded",
       "cancelled"}) => (status' = status /\ ckpt' = ckpt)
    BY <1>16 DEF RecordCompletion, StartClose, Goto, Event, Stop, MayWrite, Fenced,
         OwnerSeesRunning, TypeOK, AttemptTypes, vars, journal, runRow, rowVars, physical,
         attempt, invocation
  <1>17. ASSUME NEW w \in Workers, RecordCompletionAnswerLost(w) PROVE (status \in
       {"succeeded", "cancelled"}) => (status' = status /\ ckpt' = ckpt)
    BY <1>17 DEF RecordCompletionAnswerLost, StartClose, Goto, Event, MayWrite, Fenced,
         FaultOn, OwnerSeesRunning, TypeOK, AttemptTypes, vars, journal, runRow, rowVars,
         physical, attempt, invocation
  <1>18. ASSUME NEW w \in Workers, AffirmOwnership(w) PROVE (status \in {"succeeded",
       "cancelled"}) => (status' = status /\ ckpt' = ckpt)
    BY <1>18 DEF AffirmOwnership, Goto, Stop, OwnerSeesRunning, TypeOK, AttemptTypes, vars,
         journal, runRow, rowVars, physical, attempt, invocation
  <1>19. ASSUME NEW w \in Workers, NothingToClose(w) PROVE (status \in {"succeeded",
       "cancelled"}) => (status' = status /\ ckpt' = ckpt)
    BY <1>19 DEF NothingToClose, Goto, OwnerSeesRunning, TypeOK, AttemptTypes, vars, journal,
         runRow, rowVars, physical, attempt, invocation
  <1>20. ASSUME NEW w \in Workers, ClosePhysical(w) PROVE (status \in {"succeeded",
       "cancelled"}) => (status' = status /\ ckpt' = ckpt)
    BY <1>20 DEF ClosePhysical, Goto, OwnerSeesRunning, TypeOK, AttemptTypes, vars, journal,
         runRow, rowVars, physical, attempt, invocation
  <1>21. ASSUME NEW w \in Workers, CloseFails(w) PROVE (status \in {"succeeded", "cancelled"})
       => (status' = status /\ ckpt' = ckpt)
    BY <1>21 DEF CloseFails, Goto, OwnerSeesRunning, TypeOK, AttemptTypes, vars, journal,
         runRow, rowVars, physical, attempt, invocation
  <1>22. ASSUME NEW w \in Workers, CloseRow(w) PROVE (status \in {"succeeded", "cancelled"}) =>
       (status' = status /\ ckpt' = ckpt)
    BY <1>22 DEF CloseRow, CloseLeaseRow, Goto, Event, Stop, MayWrite, Fenced,
         OwnerSeesRunning, TypeOK, AttemptTypes, vars, journal, runRow, rowVars, physical,
         attempt, invocation
  <1>23. ASSUME NEW w \in Workers, Settle(w) PROVE (status \in {"succeeded", "cancelled"}) =>
       (status' = status /\ ckpt' = ckpt)
    BY <1>23 DEF Settle, UnitDone, Goto, Event, Stop, MayWrite, Fenced, OwnerSeesRunning,
         TypeOK, AttemptTypes, vars, journal, runRow, rowVars, physical, attempt, invocation
  <1>24. ASSUME NEW w \in Workers, RecordIntent(w) PROVE (status \in {"succeeded",
       "cancelled"}) => (status' = status /\ ckpt' = ckpt)
    BY <1>24 DEF RecordIntent, Goto, OwnerSeesRunning, TypeOK, AttemptTypes, vars, journal,
         runRow, rowVars, physical, attempt, invocation
  <1>25. ASSUME NEW w \in Workers, FinalCancel(w) PROVE (status \in {"succeeded", "cancelled"})
       => (status' = status /\ ckpt' = ckpt)
    BY <1>25 DEF FinalCancel, ConcludeAs, Goto, Event, MayWrite, Fenced, OwnerSeesRunning,
         TypeOK, AttemptTypes, vars, journal, runRow, rowVars, physical, attempt, invocation
  <1>26. ASSUME NEW w \in Workers, ReleaseRun(w) PROVE (status \in {"succeeded", "cancelled"})
       => (status' = status /\ ckpt' = ckpt)
    BY <1>26 DEF ReleaseRun, Forget, Goto, Unvisited, OwnerSeesRunning, TypeOK, AttemptTypes,
         vars, journal, runRow, rowVars, physical, attempt, invocation
  <1>27. ASSUME NEW w \in Workers, ImportCandidate(w) PROVE (status \in {"succeeded",
       "cancelled"}) => (status' = status /\ ckpt' = ckpt)
    BY <1>27 DEF ImportCandidate, OwnerSeesRunning, TypeOK, AttemptTypes, vars, journal,
         runRow, rowVars, physical, attempt, invocation
  <1>28. ASSUME NEW w \in Workers, Heartbeat(w) PROVE (status \in {"succeeded", "cancelled"})
       => (status' = status /\ ckpt' = ckpt)
    BY <1>28 DEF Heartbeat, OwnerSeesRunning, TypeOK, AttemptTypes, vars, journal, runRow,
         rowVars, physical, attempt, invocation
  <1>29. ASSUME NEW w \in Workers, AsyncCancel(w) PROVE (status \in {"succeeded", "cancelled"})
       => (status' = status /\ ckpt' = ckpt)
    BY <1>29 DEF AsyncCancel, StartClose, Goto, OwnerSeesRunning, TypeOK, AttemptTypes, vars,
         journal, runRow, rowVars, physical, attempt, invocation
  <1>30. ASSUME NEW w \in Workers, Crash(w) PROVE (status \in {"succeeded", "cancelled"}) =>
       (status' = status /\ ckpt' = ckpt)
    BY <1>30 DEF Crash, Forget, Goto, Unvisited, OwnerSeesRunning, TypeOK, AttemptTypes, vars,
         journal, runRow, rowVars, physical, attempt, invocation
  <1>31. CASE Expire
    BY <1>31 DEF Expire, OwnerSeesRunning, TypeOK, AttemptTypes, vars, journal, runRow,
         rowVars, physical, attempt, invocation
  <1>32. CASE RequestCancel
    BY <1>32 DEF RequestCancel, OwnerSeesRunning, TypeOK, AttemptTypes, vars, journal, runRow,
         rowVars, physical, attempt, invocation
  <1>33. CASE UNCHANGED vars
    BY <1>33 DEF vars, OwnerSeesRunning, TypeOK, AttemptTypes, vars, journal, runRow, rowVars,
         physical, attempt, invocation
  <1> QED BY <1>1, <1>2, <1>3, <1>4, <1>5, <1>6, <1>7, <1>8, <1>9, <1>10, <1>11, <1>12, <1>13,
       <1>14, <1>15, <1>16, <1>17, <1>18, <1>19, <1>20, <1>21, <1>22, <1>23, <1>24, <1>25,
       <1>26, <1>27, <1>28, <1>29, <1>30, <1>31, <1>32, <1>33 DEF Next, Drive
\* A fresh PENDING run satisfies the inductive invariant.
LEMMA InitInductive == Init => Inductive
  <1> SUFFICES ASSUME Init PROVE Inductive
    OBVIOUS
  <1> USE BoundsAssumption DEF Init
  <1>1. TypeOK
    <2>1. JournalTypes
      <3>1. expired \in BOOLEAN /\ cancel \in BOOLEAN
        OBVIOUS
      <3>2. 0 \in 0..MaxEpoch
        OBVIOUS
      <3> QED BY <3>1, <3>2, Zenon DEF JournalTypes, Statuses
    <2>2. ResourceTypes
      BY DEF ResourceTypes
    <2>3. AttemptTypes
      BY DEF AttemptTypes, PCs, Reasons
    <2>4. InvocationTypes
      BY DEF InvocationTypes, Results, Unvisited
    <2> QED BY <2>1, <2>2, <2>3, <2>4 DEF TypeOK
  <1>2. Shape
    BY DEF Shape, ShapeOf, Invoking, Closing
  <1>3. UniqueEpochs /\ EpochsBounded
    BY DEF UniqueEpochs, EpochsBounded
  <1>4. OwnerSeesRunning /\ ConcludedIsClean
    BY DEF OwnerSeesRunning, ConcludedIsClean, Terminal
  <1>5. Progress /\ SucceededIsComplete
    BY DEF Progress, ProgressOf, SucceededIsComplete, Unvisited, Units, Closing
  <1>6. LiveAcquisitions
    BY DEF LiveAcquisitions, LiveOf
  <1>7. Candidates /\ CheckpointedCandidateKept
    BY DEF Candidates, CandidatesOf, CheckpointedCandidateKept, Invoking, Closing
  <1> QED BY <1>1, <1>2, <1>3, <1>4, <1>5, <1>6, <1>7 DEF Inductive

\* Every step keeps the inductive invariant.
LEMMA StepInductive == Inductive /\ [Next]_vars => Inductive'
  <1> SUFFICES ASSUME Inductive, [Next]_vars PROVE Inductive'
    OBVIOUS
  <1> USE DEF Inductive
  <1>1. TypeOK' /\ Shape' /\ UniqueEpochs' /\ EpochsBounded'
    BY TypeStep, ShapeStep, UniqueEpochsStep, EpochsBoundedStep
  <1>2. OwnerSeesRunning' /\ ConcludedIsClean' /\ Progress' /\ SucceededIsComplete'
    BY OwnerSeesRunningStep, ConcludedIsCleanStep, ProgressStep, SucceededIsCompleteStep
  <1>3. LiveAcquisitions'
    BY LiveStep
  <1>4. CompletionsAnswered' => Candidates' /\ CheckpointedCandidateKept'
    BY CandidatesStep, CandidateKeptStep, ModeStep DEF CompletionsAnswered
  <1> QED BY <1>1, <1>2, <1>3, <1>4

\* The inductive invariant holds of every reachable state of a run, for any
\* number of workers, units, bindings and epochs.
THEOREM InductiveInvariant == Spec => []Inductive
  BY InitInductive, StepInductive, PTL DEF Spec

\* Type correctness.
THEOREM TypeCorrect == Spec => []TypeOK
  <1>1. Inductive => TypeOK
    BY DEF Inductive
  <1> QED BY <1>1, InductiveInvariant, PTL

\* claim_run never hands out one owner epoch twice.
THEOREM EpochsAreUnique == Spec => []UniqueEpochs
  <1>1. Inductive => UniqueEpochs
    BY DEF Inductive
  <1> QED BY <1>1, InductiveInvariant, PTL

\* The rightful owner is never refused by the status check of _allocate_seq.
THEOREM OwnerIsNeverRefused == Spec => []OwnerSeesRunning
  <1>1. Inductive => OwnerSeesRunning
    BY DEF Inductive
  <1> QED BY <1>1, InductiveInvariant, PTL

\* transition_run concludes a run only when no acquisition is left open.
THEOREM ConcludedRunIsClean == Spec => []ConcludedIsClean
  <1>1. Inductive => ConcludedIsClean
    BY DEF Inductive
  <1> QED BY <1>1, InductiveInvariant, PTL

\* SUCCEEDED means that every unit is checkpointed.
THEOREM SuccessIsComplete == Spec => []SucceededIsComplete
  <1>1. Inductive => SucceededIsComplete
    BY DEF Inductive
  <1> QED BY <1>1, InductiveInvariant, PTL

\* The workspace of the attempt that holds the run is there while its
\* implementation runs.
THEOREM WorkspaceStaysLive == Spec => []LiveWorkspace
  <1>1. Inductive => LiveWorkspace
    BY DEF Inductive, LiveWorkspace, LiveAcquisitions, LiveOf, Shape, ShapeOf, Fenced
  <1> QED BY <1>1, InductiveInvariant, PTL

\* Unless the answer of record_completion is lost in a run that keeps its
\* candidates, no candidate of a checkpointed unit is ever deleted.
THEOREM CandidateOfCheckpointKept ==
  ASSUME "completion_answer" \notin Faults["normal"]
  PROVE  Spec => []CheckpointedCandidateKept
  <1>1. Inductive => CheckpointedCandidateKept
    BY DEF Inductive, CompletionsAnswered, CheckpointedCandidateKept
  <1> QED BY <1>1, InductiveInvariant, PTL

\* Once a successor has written, no predecessor's write lands.
THEOREM WritesFollowEpochs == Spec => EpochOrdered
  <1>1. Inductive /\ [Next]_vars => [writer' >= writer]_vars
    BY WriterStep DEF Inductive
  <1> QED BY <1>1, InductiveInvariant, PTL DEF Spec, EpochOrdered

\* SUCCEEDED and CANCELLED are final.
THEOREM ConclusionIsFinal == Spec => ConcludedIsFinal
  <1>1. Inductive /\ [Next]_vars =>
          [(status \in {"succeeded", "cancelled"}) => (status' = status /\ ckpt' = ckpt)]_vars
    BY FinalStep DEF Inductive
  <1> QED BY <1>1, InductiveInvariant, PTL DEF Spec, ConcludedIsFinal
=============================================================================
