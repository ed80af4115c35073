----------------------- MODULE ControlCommandsProofs -----------------------
(***************************************************************************)
(* Theorems about ControlCommands, for any processes, commands, workloads, *)
(* histories and bounds: an exchange is whole, replays are exact, and the  *)
(* ledger implements the command law.                                      *)
(*                                                                         *)
(* The argument has two halves.  A step of any process only adds to what   *)
(* the store and the ledger say (StoreGrows, PlansKept), and what it adds  *)
(* to the facts a command owns it adds for a command that is still open    *)
(* (Gains).  And wherever a process is inside a command, what it is about  *)
(* to answer is already true of the store (Ready), so it stays true when   *)
(* the process is paused there for any time.                               *)
(***************************************************************************)
EXTENDS ControlCommands, TLAPS

Pointer == {"initial", "promote", "rollback"}    \* the operations that move the stable pointer

\* The version a pointer command moves the stable pointer from.
BaseFor(c) == IF KindOf[c] = "initial" THEN None ELSE BaseOf[c]

(***************************************************************************)
(* The shape of the state.                                                 *)
(***************************************************************************)
LedgerShape ==
    /\ DOMAIN ledger = Commands
    /\ \A c \in Commands :
        DOMAIN ledger[c] = {"state", "owner", "epoch", "leased", "plan", "answer"}

ProcShape ==
    /\ DOMAIN proc = Procs /\ DOMAIN hosted = Procs
    /\ \A p \in Procs : DOMAIN proc[p] = {"cmd", "epoch", "at", "draft"}

StoreShape ==
    /\ DOMAIN store = {"status", "owned", "seq", "epoch", "cancelled", "rows", "attempts",
                       "created", "receipts", "approvals", "reply", "ack", "stamp", "minted",
                       "promotions"}
    /\ DOMAIN store.stamp = Versions
    /\ \E S : store.promotions \in Seq(S)

Shape ==
    /\ LedgerShape /\ ProcShape /\ StoreShape
    /\ DOMAIN heard = Commands
    /\ \E s \in Scenarios : workload = s.commands

(***************************************************************************)
(* What a plan, a ledger row and a process inside a command rest on.       *)
(***************************************************************************)
PlanFits(c, d) ==
    /\ d.tag \in {"do", "refuse"}
    /\ d.tag = "refuse" => d.to \in Reasons
    /\ d.tag = "do" /\ KindOf[c] = "cancel" => d.to \in {"terminal", "requested"}
    /\ d.tag = "do" /\ KindOf[c] = "register" => d.to # None
    /\ d.tag = "do" /\ KindOf[c] \in Pointer => d.base = BaseFor(c) /\ d.to # None
    /\ d.tag = "do" /\ KindOf[c] = "initial" => d.to = TargetOf[c]

\* The mutation that lets the command be answered as committed is in the store.
Settled(c) == Plan(c).tag = "do" /\ (KindOf[c] # "resume" => Done(c))

\* What lets a command that has a mutation to do be answered as lost.
Beaten(c) ==
    /\ Plan(c).tag = "do"
    /\ KindOf[c] \in {"dispose", "resume", "approve", "reply", "ack"} \cup Pointer
    /\ KindOf[c] \in {"approve", "reply"} => ForeignReply(c)
    /\ KindOf[c] = "ack" => ForeignAck(c)

RowFits(c) ==
    /\ ledger[c].state \in {"absent", "prepared", "committed", "rejected"}
    /\ ledger[c].state \in {"absent", "prepared"} => ledger[c].answer = None
    /\ ledger[c].state = "committed" => ledger[c].answer = Committed /\ Settled(c)
    /\ ledger[c].state = "rejected" =>
        \/ Plan(c).tag = "refuse" /\ ledger[c].answer = Plan(c).to
        \/ ledger[c].answer = Lost /\ Beaten(c) /\ (KindOf[c] = "dispose" => c \notin store.receipts)
    /\ Plan(c) = NoPlan \/ PlanFits(c, Plan(c))

\* Where a process is once its command has a plan.
Onward == {"apply", "launch", "compare", "swap", "recheck", "complete", "reject"}

Ready(p) ==
    /\ proc[p].at \in {"idle", "claimed", "decided"} \cup Onward
    /\ proc[p].at # "idle" => Here(p) \in workload
    /\ proc[p].at = "decided" => PlanFits(Here(p), proc[p].draft)
    /\ proc[p].at \in Onward => Plan(Here(p)) # NoPlan
    /\ proc[p].at = "launch" => Plan(Here(p)).tag = "do" /\ KindOf[Here(p)] = "resume"
    /\ proc[p].at \in {"compare", "swap", "recheck"} => Plan(Here(p)).tag = "do" /\ KindOf[Here(p)] \in Pointer
    /\ proc[p].at = "complete" => Settled(Here(p))
    /\ proc[p].at = "reject" => Plan(Here(p)).tag = "refuse" \/ Beaten(Here(p))

HostedFits(p) ==
    hosted[p] # None =>
        hosted[p] \in Commands /\ KindOf[hosted[p]] = "resume" /\ Plan(hosted[p]).tag = "do"

\* The reply is by a command of the workload that may write one.
ReplyFits ==
    store.reply # None => store.reply \in workload /\ KindOf[store.reply] \in {"approve", "reply"}

\* The inductive invariant: an exchange is whole because of who writes its parts; the rest
\* says what each row and each process rests on.
Inv ==
    /\ Shape
    /\ \A c \in Commands : RowFits(c)
    /\ \A p \in Procs : Ready(p) /\ HostedFits(p)
    /\ ReplyFits /\ ExchangeIsWhole

-----------------------------------------------------------------------------

(***************************************************************************)
(* What a step may do.                                                     *)
(***************************************************************************)
\* Nothing that is in the store is taken back.
StoreGrows ==
    /\ store.created \subseteq store'.created /\ store.receipts \subseteq store'.receipts
    /\ store.attempts \subseteq store'.attempts /\ store.approvals \subseteq store'.approvals
    /\ store.cancelled => store'.cancelled
    /\ store.reply # None => store'.reply = store.reply
    /\ store.ack # None => store'.ack = store.ack
    /\ \A v \in Versions : store.stamp[v] # None => store'.stamp[v] = store.stamp[v]
    /\ \A x : Used(x) => Used(x)'

\* A plan is stored once.
PlansKept == \A c \in Commands : Plan(c) # NoPlan => Plan(c)' = Plan(c)

Open(c) == ledger[c].state = "prepared"

\* A fact that a command owns is written while the command is open; an attempt, unless
\* the command is rejected.
Gains ==
    /\ \A c \in store'.receipts : c \notin store.receipts => Open(c)
    /\ \A c \in store'.approvals : c \notin store.approvals =>
        Open(c) /\ (KindOf[c] = "approve" => store'.reply = c /\ store.reply = None)
    /\ \A c \in store'.attempts : c \notin store.attempts => ledger[c].state # "rejected"
    /\ store'.reply # store.reply =>
        /\ Open(store'.reply) /\ store'.reply \in workload
        /\ KindOf[store'.reply] \in {"approve", "reply"}
        /\ KindOf[store'.reply] = "approve" => store'.reply \in store'.approvals
        /\ store'.ack # None
    /\ store'.ack # store.ack => Open(store'.ack)

\* The actions that leave the store alone.
LEMMA Unstored ==
    ASSUME UNCHANGED store
    PROVE  StoreGrows /\ Gains
  BY DEF StoreGrows, Gains, Used

LEMMA WorkloadOfCommands ==
    ASSUME Shape
    PROVE  workload \subseteq Commands
  BY KindAssumption DEF Shape

\* Appending a move keeps the proofs that were used.
LEMMA AppendUses ==
    ASSUME NEW S, NEW s \in Seq(S), NEW m
    PROVE  /\ Append(s, m) \in Seq(S \cup {m})
           /\ DOMAIN Append(s, m) = 1 .. (Len(s) + 1)
           /\ \A i \in DOMAIN s : i \in DOMAIN Append(s, m) /\ Append(s, m)[i] = s[i]
           /\ Append(s, m)[Len(s) + 1] = m
           /\ Len(Append(s, m)) = Len(s) + 1 /\ Append(s, m) # <<>>
  OBVIOUS

\* Every step adds to the store, and only for commands that are open.
LEMMA StoreStep ==
    ASSUME Inv, [Next]_vars
    PROVE  StoreGrows /\ Gains /\ StoreShape'
<1> DEFINE Goal == StoreGrows /\ Gains /\ StoreShape'
<1>a. StoreShape /\ ReplyFits /\ (store.reply # None => store.ack # None)
  BY DEF Inv, Shape, ExchangeIsWhole
<1>w. workload \subseteq Commands
  BY WorkloadOfCommands DEF Inv
<1>r. \A p \in Procs : proc[p].at # "idle" => Here(p) \in workload
  BY DEF Inv, Ready, Onward
<1>n. None \notin Commands
  BY NoneAssumption
<1>u. ASSUME UNCHANGED store PROVE Goal
  BY <1>a, <1>u, Unstored DEF StoreShape
<1>1. ASSUME NEW p \in Procs, NEW c \in Commands, Claim(p, c) PROVE Goal
  BY <1>1, <1>u DEF Claim, Leave, Goto, Applied, Aborts
<1>2. ASSUME NEW p \in Procs, NEW c \in Commands, Replay(p, c) PROVE Goal
  BY <1>2, <1>u DEF Replay, Leave, Goto, Applied, Aborts
<1>3. ASSUME NEW p \in Procs, DecidePlan(p) PROVE Goal
  BY <1>3, <1>u DEF DecidePlan, Leave, Goto, Applied, Aborts
<1>4. ASSUME NEW p \in Procs, StorePlan(p) PROVE Goal
  BY <1>4, <1>u DEF StorePlan, Leave, Goto, Applied, Aborts
<1>5. ASSUME NEW p \in Procs, FollowRefusal(p) PROVE Goal
  BY <1>5, <1>u DEF FollowRefusal, Leave, Goto, Applied, Aborts
<1>6. ASSUME NEW p \in Procs, CreateRun(p) PROVE Goal
  BY <1>6, <1>a DEF StoreGrows, Gains, StoreShape, Used, Open, CreateRun, Applied, Aborts, Applying, Busy, Leave, Goto
<1>7. ASSUME NEW p \in Procs, RequestCancel(p) PROVE Goal
  BY <1>7, <1>a DEF StoreGrows, Gains, StoreShape, Used, Open, RequestCancel, Applied, Aborts, Applying, Busy, Leave, Goto
<1>8. ASSUME NEW p \in Procs, DisposeCapabilities(p) PROVE Goal
  <2>1. \/ UNCHANGED store
        \/ /\ Open(Here(p))
           /\ \E n : store' = [store EXCEPT !.rows = "lost", !.receipts = @ \cup {Here(p)}, !.seq = n]
    BY <1>8 DEF DisposeCapabilities, Fenced, Open, Applied, Aborts
  <2>2. ASSUME NEW n, Open(Here(p)),
               store' = [store EXCEPT !.rows = "lost", !.receipts = @ \cup {Here(p)}, !.seq = n]
        PROVE  Goal
    BY <1>a, <2>2 DEF StoreGrows, Gains, StoreShape, Used
  <2> QED
    BY <1>u, <2>1, <2>2
<1>9. ASSUME NEW p \in Procs, ClassifyResume(p) PROVE Goal
  BY <1>9, <1>u DEF ClassifyResume, Leave, Goto, Applied, Aborts
<1>10. ASSUME NEW p \in Procs, LaunchResume(p) PROVE Goal
  BY <1>10, <1>u DEF LaunchResume, Leave, Goto, Applied, Aborts
<1>11. ASSUME NEW p \in Procs, StoreApproval(p) PROVE Goal
  BY <1>11, <1>a DEF StoreGrows, Gains, StoreShape, Used, Open, StoreApproval, Fenced, Applied, Aborts, Applying, Busy, Leave, Goto
<1>12. ASSUME NEW p \in Procs, StoreExchange(p) PROVE Goal
  <2>1. Here(p) \in workload /\ KindOf[Here(p)] = "approve"
    BY <1>12, <1>r DEF StoreExchange, Applying, Busy
  <2>2. \/ UNCHANGED store
        \/ /\ Open(Here(p)) /\ store.reply = None
           /\ store' = [store EXCEPT !.reply = Here(p), !.ack = Acknowledged(Here(p)),
                                     !.approvals = @ \cup {Here(p)}]
    BY <1>12, <1>a DEF StoreExchange, Fenced, Open, Applied, Aborts, Replied, StoreShape
  <2>3. CASE store' = [store EXCEPT !.reply = Here(p), !.ack = Acknowledged(Here(p)),
                                     !.approvals = @ \cup {Here(p)}] /\ Open(Here(p)) /\ store.reply = None
    <3> DEFINE c == Here(p)
               a == Acknowledged(c)
    <3>1. a # None /\ (store.ack # None => a = store.ack) /\ (a # store.ack => a = c)
      BY <1>w, <1>n, <2>1 DEF Acknowledged
    <3> HIDE DEF c, a
    <3>2. store' = [store EXCEPT !.reply = c, !.ack = a, !.approvals = @ \cup {c}]
      BY <2>3 DEF c, a
    <3>3. StoreGrows /\ StoreShape'
      BY <1>a, <2>3, <3>1, <3>2 DEF StoreGrows, StoreShape, Used
    <3>4. Gains
      <4>1. /\ store'.reply = c /\ store'.ack = a /\ store'.approvals = store.approvals \cup {c}
            /\ store'.receipts = store.receipts /\ store'.attempts = store.attempts
        BY <1>a, <3>2 DEF StoreShape
      <4>2. Open(c) /\ store.reply = None /\ c \in workload /\ KindOf[c] = "approve"
        BY <2>1, <2>3 DEF c
      <4> QED
        BY <3>1, <4>1, <4>2 DEF Gains
    <3> QED
      BY <3>3, <3>4
  <2> QED
    BY <1>u, <2>2, <2>3
<1>13. ASSUME NEW p \in Procs, ChannelsReply(p) PROVE Goal
  <2>1. Here(p) \in workload /\ KindOf[Here(p)] = "reply"
    BY <1>13, <1>r DEF ChannelsReply, Applying, Busy
  <2>2. \/ UNCHANGED store
        \/ /\ Open(Here(p)) /\ store.reply = None
           /\ store' = [store EXCEPT !.reply = Here(p), !.ack = Acknowledged(Here(p))]
    BY <1>13 DEF ChannelsReply, MayReply, Open, Applied, Aborts, Replied
  <2> QED
    BY <1>a, <1>u, <1>w, <1>n, <2>1, <2>2 DEF StoreGrows, Gains, StoreShape, Used, Acknowledged
<1>14. ASSUME NEW p \in Procs, ChannelsAck(p) PROVE Goal
  BY <1>14, <1>a DEF StoreGrows, Gains, StoreShape, Used, Open, ChannelsAck, MayAcknowledge, Applied, Aborts, Applying, Busy, Leave, Goto
<1>15. ASSUME NEW p \in Procs, RegistryRegister(p) PROVE Goal
  BY <1>15, <1>a DEF StoreGrows, Gains, StoreShape, Used, Open, RegistryRegister, StoreVersion, Applied, Aborts, Applying, Busy, Leave, Goto
<1>16. ASSUME NEW p \in Procs, RegistryPromote(p) PROVE Goal
  BY <1>16, <1>u DEF RegistryPromote, Leave, Goto, Applied, Aborts
<1>17. ASSUME NEW p \in Procs, PolicyPromotion(p) PROVE Goal
  BY <1>17, <1>a DEF StoreGrows, Gains, StoreShape, Used, Open, PolicyPromotion, Applied, Aborts, Applying, Busy, Leave, Goto
<1>18. ASSUME NEW p \in Procs, SwapStable(p) PROVE Goal
  <2>1. ASSUME NEW m, store' = [store EXCEPT !.promotions = Append(@, m)] PROVE Goal
    <3>1. PICK S : store.promotions \in Seq(S)
      BY <1>a DEF StoreShape
    <3>2. store'.promotions = Append(store.promotions, m)
      BY <1>a, <2>1 DEF StoreShape
    <3>3. StoreShape'
      BY <1>a, <2>1, <3>1, <3>2, AppendUses DEF StoreShape
    <3>4. \A x : Used(x) => Used(x)'
      BY <3>1, <3>2, AppendUses DEF Used
    <3> QED
      BY <1>a, <2>1, <3>3, <3>4 DEF StoreGrows, Gains, StoreShape
  <2> QED
    BY <1>18, <1>u, <2>1 DEF SwapStable, Applied
<1>28. ASSUME NEW p \in Procs, CompareStable(p) PROVE Goal
  BY <1>28, <1>u DEF CompareStable, Applied
<1>29. ASSUME NEW p \in Procs, RecheckReceipt(p) PROVE Goal
  BY <1>29, <1>u DEF RecheckReceipt, Applied
<1>19. ASSUME NEW p \in Procs, Complete(p) PROVE Goal
  BY <1>19, <1>u DEF Complete, Leave, Goto, Applied, Aborts
<1>20. ASSUME NEW p \in Procs, Reject(p) PROVE Goal
  BY <1>20, <1>u DEF Reject, Leave, Goto, Applied, Aborts
<1>21. ASSUME NEW p \in Procs, Crash(p) PROVE Goal
  BY <1>21, <1>u DEF Crash, Leave, Goto, Applied, Aborts
<1>22. ASSUME NEW p \in Procs, ScanResumes(p) PROVE Goal
  BY <1>22, <1>u DEF ScanResumes, Leave, Goto, Applied, Aborts
<1>23. ASSUME NEW p \in Procs, HostBegins(p) PROVE Goal
  BY <1>23, <1>a DEF StoreGrows, Gains, StoreShape, Used, Open, HostBegins
<1>24. ASSUME NEW p \in Procs, HostDrops(p) PROVE Goal
  BY <1>24, <1>u DEF HostDrops, Leave, Goto, Applied, Aborts
<1>25. ASSUME NEW c \in Commands, Expire(c) PROVE Goal
  BY <1>25, <1>u DEF Expire, Leave, Goto, Applied, Aborts
<1>26. CASE RunMoves
  BY <1>26, <1>a DEF StoreGrows, Gains, StoreShape, Used, Open, RunMoves
<1>27. CASE UNCHANGED vars
  BY <1>27, <1>u DEF vars
<1> QED
  BY <1>1, <1>2, <1>3, <1>4, <1>5, <1>6, <1>7, <1>8, <1>9, <1>10, <1>11, <1>12, <1>13, <1>14, <1>15, <1>16, <1>17, <1>18, <1>19, <1>20, <1>21, <1>22, <1>23, <1>24, <1>25, <1>26, <1>27, <1>28, <1>29 DEF Next, Step

\* What holds of a command goes on holding while others are at work.
LEMMA Keeps ==
    ASSUME Inv, StoreGrows, PlansKept, NEW c \in Commands
    PROVE  (Done(c) => Done(c)') /\ (Settled(c) => Settled(c)') /\ (Beaten(c) => Beaten(c)')
<1>1. ASSUME Plan(c).tag = "do" PROVE Plan(c)' = Plan(c)
  BY <1>1 DEF PlansKept, NoPlan
<1>2. KindOf[c] \in Kinds
  BY KindAssumption
<1>3. KindOf[c] = "register" => TargetOf[c] \in Versions
  BY TargetAssumption DEF Versions
<1>4. ASSUME Done(c) PROVE Done(c)'
  <2>1. Plan(c).tag = "do" /\ Plan(c)' = Plan(c)
    BY <1>1, <1>4 DEF Done
  <2>2. CASE KindOf[c] \in {"start", "clone", "cancel", "resume", "dispose", "decide"}
    BY <1>4, <2>1, <2>2 DEF Done, StoreGrows
  <2>3. CASE KindOf[c] \in {"approve", "reply", "ack"}
    BY <1>4, <2>1, <2>3, NoneAssumption DEF Done, StoreGrows
  <2>4. CASE KindOf[c] = "register"
    BY <1>3, <1>4, <2>1, <2>4 DEF Done, StoreGrows
  <2>5. CASE KindOf[c] \in Pointer
    <3>1. Used(Proof(c, Plan(c)))
      BY <1>4, <2>5 DEF Done, Pointer
    <3>2. Proof(c, Plan(c))' = Proof(c, Plan(c))
      BY <2>1 DEF Proof
    <3>3. Used(Proof(c, Plan(c)))'
      BY <3>1, <3>2 DEF StoreGrows, Used
    <3> QED
      BY <2>1, <2>5, <3>3 DEF Done, Pointer
  <2> QED
    BY <1>2, <2>2, <2>3, <2>4, <2>5 DEF Kinds, Pointer
<1>5. ASSUME Beaten(c) PROVE Beaten(c)'
  BY <1>1, <1>5 DEF Beaten, StoreGrows, ForeignReply, ForeignAck
<1> QED
  BY <1>1, <1>4, <1>5 DEF Settled

LEMMA DraftFits ==
    ASSUME NEW c \in Commands, NEW d \in Draft(c)
    PROVE  PlanFits(c, d)
<1>1. ASSUME NEW why \in Reasons, d = Refuse(why) PROVE PlanFits(c, d)
  BY <1>1 DEF PlanFits, Refuse
<1>2. ASSUME NEW b, NEW t, d = Do(b, t), KindOf[c] = "register" => t # None,
             KindOf[c] = "cancel" => t \in {"terminal", "requested"},
             KindOf[c] \in Pointer => b = BaseFor(c) /\ t # None, KindOf[c] = "initial" => t = TargetOf[c]
      PROVE  PlanFits(c, d)
  BY <1>2 DEF PlanFits, Do
<1>i. CASE c \in Invalid
  BY <1>1, <1>i DEF Draft, Reasons
<1> SUFFICES ASSUME c \notin Invalid PROVE PlanFits(c, d)
  BY <1>i
<1>3. CASE KindOf[c] = "start"
  BY <1>1, <1>2, <1>3 DEF Draft, Reasons, Pointer
<1>4. CASE KindOf[c] = "clone"
  BY <1>1, <1>2, <1>4 DEF Draft, Reasons, Pointer, CloneDraft, AdmitCounterfactual
<1>5. CASE KindOf[c] = "cancel"
  BY <1>1, <1>2, <1>5 DEF Draft, Reasons, Pointer
<1>6. CASE KindOf[c] = "resume"
  BY <1>1, <1>2, <1>6 DEF Draft, Reasons, Pointer, ResumeDraft
<1>7. CASE KindOf[c] = "dispose"
  BY <1>1, <1>2, <1>7 DEF Draft, Reasons, Pointer, DisposalDraft
<1>8. CASE KindOf[c] = "register"
  BY <1>1, <1>2, <1>8, NoneAssumption DEF Draft, Reasons, Pointer, RegistrationDraft
<1>9. CASE KindOf[c] = "initial"
  BY <1>1, <1>2, <1>9, TargetAssumption DEF Draft, Reasons, Pointer, InitialDraft, BaseFor
<1>10. CASE KindOf[c] = "promote"
  BY <1>1, <1>2, <1>10, TargetAssumption DEF Draft, Reasons, Pointer, PromotionDraft, BaseFor
<1>11. CASE KindOf[c] = "rollback"
  BY <1>1, <1>2, <1>11 DEF Draft, Reasons, Pointer, RollbackDraft, BaseFor
<1>12. CASE KindOf[c] \in {"decide", "approve", "reply", "ack"}
  BY <1>1, <1>2, <1>12 DEF Draft, Reasons, Pointer
<1> QED
  BY <1>3, <1>4, <1>5, <1>6, <1>7, <1>8, <1>9, <1>10, <1>11, <1>12, KindAssumption DEF Kinds

\* A row is left with its state, its answer and its plan.
RowKept(c) ==
    /\ ledger'[c].state = ledger[c].state
    /\ ledger'[c].answer = ledger[c].answer /\ ledger'[c].plan = ledger[c].plan

LEMMA RowKeptFits ==
    ASSUME Inv, StoreGrows, PlansKept, Gains, NEW c \in Commands, RowKept(c)
    PROVE  RowFits(c)'
<1>1. RowFits(c) /\ Plan(c)' = Plan(c)
  BY DEF Inv, RowKept, Plan
<1>2. c \in store'.receipts => c \in store.receipts \/ ledger[c].state = "prepared"
  BY DEF Gains, Open
<1>3. PlanFits(c, Plan(c)) => PlanFits(c, Plan(c))'
  BY <1>1 DEF PlanFits, BaseFor
<1> QED
  BY <1>1, <1>2, <1>3, Keeps DEF RowFits, RowKept, NoPlan

\* The ledger of a step: plans are kept and every row rests on the store as it is then.
LEMMA LedgerStep ==
    ASSUME Inv, [Next]_vars
    PROVE  PlansKept /\ LedgerShape' /\ \A d \in Commands : RowFits(d)'
<1> DEFINE Goal == PlansKept /\ LedgerShape' /\ \A d \in Commands : RowFits(d)'
<1>a. LedgerShape /\ \A d \in Commands : RowFits(d)
  BY DEF Inv, Shape
<1>g. Inv /\ StoreGrows /\ Gains
  BY StoreStep
<1>w. workload \subseteq Commands
  BY WorkloadOfCommands DEF Inv
<1>r. \A p \in Procs : Ready(p)
  BY DEF Inv
<1>u. ASSUME UNCHANGED ledger PROVE Goal
  <2>1. PlansKept /\ LedgerShape' /\ \A d \in Commands : RowKept(d)
    BY <1>a, <1>u DEF PlansKept, LedgerShape, RowKept, Plan
  <2> QED
    BY <1>g, <2>1, RowKeptFits
<1>1. ASSUME NEW p \in Procs, NEW c \in Commands, Claim(p, c) PROVE Goal
  <2>1. ledger[c].state \in {"absent", "prepared"} /\ ledger[c].answer = None
    BY <1>1, <1>a DEF Claim, MayClaim, Terminal, RowFits
  <2>2. PICK e : ledger' = [ledger EXCEPT ![c] = [@ EXCEPT !.state = "prepared", !.owner = p,
                                                          !.epoch = e, !.leased = TRUE]]
    BY <1>1 DEF Claim
  <2>3. LedgerShape' /\ PlansKept
    BY <1>a, <2>2 DEF LedgerShape, PlansKept, Plan
  <2>4. \A d \in Commands : d # c => RowKept(d)
    BY <1>a, <2>2 DEF LedgerShape, RowKept
  <2>5. ledger'[c].state = "prepared" /\ ledger'[c].answer = None /\ ledger'[c].plan = ledger[c].plan
    BY <1>a, <2>1, <2>2 DEF LedgerShape
  <2>6. RowFits(c)'
    BY <1>a, <2>5 DEF RowFits, Plan, PlanFits, BaseFor, NoPlan
  <2> QED
    BY <1>g, <2>3, <2>4, <2>6, RowKeptFits
<1>2. ASSUME NEW p \in Procs, NEW c \in Commands, Replay(p, c) PROVE Goal
  BY <1>2, <1>u DEF Replay, Applied, Aborts
<1>3. ASSUME NEW p \in Procs, DecidePlan(p) PROVE Goal
  BY <1>3, <1>u DEF DecidePlan, Applied, Aborts
<1>4. ASSUME NEW p \in Procs, StorePlan(p) PROVE Goal
  <2>0. Here(p) \in Commands /\ PlanFits(Here(p), proc[p].draft)
    BY <1>4, <1>r, <1>w DEF StorePlan, Busy, Ready, Onward
  <2>c. PICK c \in Commands : c = Here(p) /\ PlanFits(c, proc[p].draft)
    BY <2>0
  <2>1. PICK d : c \in Commands /\ c = Here(p) /\ d = proc[p].draft /\ PlanFits(c, d)
    BY <2>c
  <2>2. CASE UNCHANGED ledger
    BY <1>u, <2>2
  <2>3. CASE ledger' = [ledger EXCEPT ![c].plan = d] /\ Fenced(p) /\ Plan(c) = NoPlan
    <3>1. LedgerShape' /\ PlansKept
      BY <1>a, <2>1, <2>3 DEF LedgerShape, PlansKept, Plan
    <3>2. \A b \in Commands : b # c => RowKept(b)
      BY <1>a, <2>1, <2>3 DEF LedgerShape, RowKept
    <3>3. ledger[c].state = "prepared" /\ ledger[c].answer = None
      BY <1>a, <2>1, <2>3 DEF Fenced, RowFits
    <3>4. ledger'[c].state = "prepared" /\ ledger'[c].answer = None /\ ledger'[c].plan = d
      BY <1>a, <2>1, <2>3, <3>3 DEF LedgerShape
    <3>5. RowFits(c)'
      BY <1>a, <2>1, <3>4 DEF RowFits, Plan, PlanFits, BaseFor
    <3> QED
      BY <1>g, <3>1, <3>2, <3>5, RowKeptFits
  <2> QED
    BY <1>4, <2>1, <2>2, <2>3 DEF StorePlan
<1>5. ASSUME NEW p \in Procs, FollowRefusal(p) PROVE Goal
  BY <1>5, <1>u DEF FollowRefusal, Applied, Aborts
<1>6. ASSUME NEW p \in Procs, CreateRun(p) PROVE Goal
  BY <1>6, <1>u DEF CreateRun, Applied, Aborts
<1>7. ASSUME NEW p \in Procs, RequestCancel(p) PROVE Goal
  BY <1>7, <1>u DEF RequestCancel, Applied, Aborts
<1>8. ASSUME NEW p \in Procs, DisposeCapabilities(p) PROVE Goal
  BY <1>8, <1>u DEF DisposeCapabilities, Applied, Aborts
<1>9. ASSUME NEW p \in Procs, ClassifyResume(p) PROVE Goal
  BY <1>9, <1>u DEF ClassifyResume, Applied, Aborts
<1>10. ASSUME NEW p \in Procs, LaunchResume(p) PROVE Goal
  BY <1>10, <1>u DEF LaunchResume, Applied, Aborts
<1>11. ASSUME NEW p \in Procs, StoreApproval(p) PROVE Goal
  BY <1>11, <1>u DEF StoreApproval, Applied, Aborts
<1>12. ASSUME NEW p \in Procs, StoreExchange(p) PROVE Goal
  BY <1>12, <1>u DEF StoreExchange, Applied, Aborts
<1>13. ASSUME NEW p \in Procs, ChannelsReply(p) PROVE Goal
  BY <1>13, <1>u DEF ChannelsReply, Applied, Aborts
<1>14. ASSUME NEW p \in Procs, ChannelsAck(p) PROVE Goal
  BY <1>14, <1>u DEF ChannelsAck, Applied, Aborts
<1>15. ASSUME NEW p \in Procs, RegistryRegister(p) PROVE Goal
  BY <1>15, <1>u DEF RegistryRegister, Applied, Aborts
<1>16. ASSUME NEW p \in Procs, RegistryPromote(p) PROVE Goal
  BY <1>16, <1>u DEF RegistryPromote, Applied, Aborts
<1>17. ASSUME NEW p \in Procs, PolicyPromotion(p) PROVE Goal
  BY <1>17, <1>u DEF PolicyPromotion, Applied, Aborts
<1>18. ASSUME NEW p \in Procs, SwapStable(p) PROVE Goal
  BY <1>18, <1>u DEF SwapStable, Applied, Aborts
<1>28. ASSUME NEW p \in Procs, CompareStable(p) PROVE Goal
  BY <1>28, <1>u DEF CompareStable, Applied
<1>29. ASSUME NEW p \in Procs, RecheckReceipt(p) PROVE Goal
  BY <1>29, <1>u DEF RecheckReceipt, Applied
<1>19. ASSUME NEW p \in Procs, Complete(p) PROVE Goal
  <2>1. PICK c \in Commands : c = Here(p) /\ Settled(c)
    BY <1>19, <1>r, <1>w DEF Complete, Busy, Ready, Onward, NoPlan
  <2>2. CASE UNCHANGED ledger
    BY <1>u, <2>2
  <2>3. CASE Fenced(p) /\ ledger' = [ledger EXCEPT ![c] = Closed(@, "committed", Committed)]
    <3>1. PlansKept /\ LedgerShape' /\ \A b \in Commands : b # c => RowKept(b)
      BY <1>a, <2>1, <2>3 DEF LedgerShape, PlansKept, Plan, RowKept, Closed
    <3>2. ledger'[c].state = "committed" /\ ledger'[c].answer = Committed /\ ledger'[c].plan = ledger[c].plan
      BY <1>a, <2>1, <2>3 DEF LedgerShape, Closed
    <3>3. UNCHANGED store
      BY <1>19 DEF Complete
    <3>4. (Settled(c) => Settled(c)') /\ (Beaten(c) => Beaten(c)')
      BY <1>g, <2>1, <3>1, Keeps
    <3>5. RowFits(c)'
      BY <1>a, <2>1, <3>2, <3>4 DEF RowFits, Plan, PlanFits, BaseFor, NoPlan
    <3> QED
      BY <1>g, <3>1, <3>5, RowKeptFits
  <2> QED
    BY <1>19, <2>1, <2>2, <2>3 DEF Complete, Answered
<1>20. ASSUME NEW p \in Procs, Reject(p) PROVE Goal
  <2>1. PICK c \in Commands : c = Here(p) /\ (Plan(c).tag = "refuse" \/ Beaten(c))
    BY <1>20, <1>r, <1>w DEF Reject, Busy, Ready, Onward, NoPlan
  <2>2. CASE UNCHANGED ledger
    BY <1>u, <2>2
  <2>3. CASE Fenced(p) /\ ledger' = [ledger EXCEPT ![c] = Closed(@, "rejected", IF Plan(c).tag = "refuse" THEN Plan(c).to ELSE Lost)] /\ ~ OwnedFact(c)
    <3>1. PlansKept /\ LedgerShape' /\ \A b \in Commands : b # c => RowKept(b)
      BY <1>a, <2>1, <2>3 DEF LedgerShape, PlansKept, Plan, RowKept, Closed
    <3>2. ledger'[c].state = "rejected" /\ ledger'[c].answer = (IF Plan(c).tag = "refuse" THEN Plan(c).to ELSE Lost) /\ ledger'[c].plan = ledger[c].plan
      BY <1>a, <2>1, <2>3 DEF LedgerShape, Closed
    <3>3. UNCHANGED store
      BY <1>20 DEF Reject
    <3>4. (Settled(c) => Settled(c)') /\ (Beaten(c) => Beaten(c)')
      BY <1>g, <2>1, <3>1, Keeps
    <3>5. RowFits(c)'
      <4>1. Beaten(c) /\ KindOf[c] = "dispose" => c \notin store.receipts
        BY <2>3 DEF OwnedFact, Done, Beaten
      <4>2. Plan(c)' = Plan(c)
        BY <3>2 DEF Plan
      <4> QED
        BY <1>a, <2>1, <3>2, <3>3, <3>4, <4>1, <4>2 DEF RowFits, PlanFits, BaseFor, NoPlan, Beaten
    <3> QED
      BY <1>g, <3>1, <3>5, RowKeptFits
  <2> QED
    BY <1>20, <2>1, <2>2, <2>3 DEF Reject, Answered
<1>21. ASSUME NEW p \in Procs, Crash(p) PROVE Goal
  BY <1>21, <1>u DEF Crash, Applied, Aborts
<1>22. ASSUME NEW p \in Procs, ScanResumes(p) PROVE Goal
  BY <1>22, <1>u DEF ScanResumes, Applied, Aborts
<1>23. ASSUME NEW p \in Procs, HostBegins(p) PROVE Goal
  BY <1>23, <1>u DEF HostBegins, Applied, Aborts
<1>24. ASSUME NEW p \in Procs, HostDrops(p) PROVE Goal
  BY <1>24, <1>u DEF HostDrops, Applied, Aborts
<1>25. ASSUME NEW c \in Commands, Expire(c) PROVE Goal
  <2>1. LedgerShape' /\ PlansKept /\ \A d \in Commands : RowKept(d)
    BY <1>25, <1>a DEF Expire, LedgerShape, PlansKept, Plan, RowKept
  <2> QED
    BY <1>g, <2>1, RowKeptFits
<1>26. CASE RunMoves
  BY <1>26, <1>u DEF RunMoves
<1>27. CASE UNCHANGED vars
  BY <1>27, <1>u DEF vars
<1> QED
  BY <1>1, <1>2, <1>3, <1>4, <1>5, <1>6, <1>7, <1>8, <1>9, <1>10, <1>11, <1>12, <1>13, <1>14, <1>15, <1>16, <1>17, <1>18, <1>19, <1>20, <1>21, <1>22, <1>23, <1>24, <1>25, <1>26, <1>27, <1>28, <1>29 DEF Next, Step

\* A process that does not move loses nothing it rests on.
LEMMA ReadyKept ==
    ASSUME Inv, StoreGrows, PlansKept, UNCHANGED workload, NEW q \in Procs, proc'[q] = proc[q]
    PROVE  Ready(q)'
<1>1. Ready(q) /\ Here(q)' = Here(q)
  BY DEF Inv, Here
<1>2. CASE proc[q].at = "idle"
  BY <1>2 DEF Ready, Onward
<1>3. CASE proc[q].at # "idle"
  <2>1. PICK c \in Commands : c = Here(q)
    BY <1>1, <1>3, WorkloadOfCommands DEF Ready, Onward, Inv
  <2>2. (Settled(c) => Settled(c)') /\ (Beaten(c) => Beaten(c)')
    BY <2>1, Keeps
  <2>3. Plan(c) # NoPlan => Plan(c)' = Plan(c) /\ Plan(c)' # NoPlan
    BY <2>1 DEF PlansKept, NoPlan
  <2>4. Plan(c).tag \in {"do", "refuse"} => Plan(c) # NoPlan
    BY DEF NoPlan
  <2>5. PlanFits(c, proc[q].draft) => PlanFits(c, proc[q].draft)'
    BY DEF PlanFits, BaseFor
  <2> QED
    BY <1>1, <2>1, <2>2, <2>3, <2>4, <2>5 DEF Ready, Onward
<1> QED
  BY <1>2, <1>3

LEMMA HostedKept ==
    ASSUME Inv, PlansKept, NEW q \in Procs, hosted'[q] \in {hosted[q], None}
    PROVE  HostedFits(q)'
<1>1. HostedFits(q)
  BY DEF Inv
<1> QED
  BY <1>1 DEF HostedFits, PlansKept, NoPlan

AllReady == ProcShape /\ \A q \in Procs : Ready(q) /\ HostedFits(q)

\* A process leaves its command, whatever becomes of what its host has queued.
LEMMA Leaves ==
    ASSUME Inv, StoreGrows, PlansKept, UNCHANGED workload, NEW p \in Procs, Leave(p),
           DOMAIN hosted' = Procs, \A q \in Procs : HostedFits(q)'
    PROVE  AllReady'
<1>1. ProcShape' /\ proc'[p] = Idle /\ \A q \in Procs : q # p => proc'[q] = proc[q]
  BY DEF Inv, Shape, ProcShape, Leave, Idle
<1>2. Ready(p)'
  BY <1>1 DEF Ready, Onward, Idle
<1> QED
  BY <1>1, <1>2, ReadyKept DEF AllReady

\* A process goes on to the next part of its command.
LEMMA Goes ==
    ASSUME Inv, StoreGrows, PlansKept, UNCHANGED workload, NEW p \in Procs,
           DOMAIN hosted' = Procs, \A q \in Procs : HostedFits(q)',
           NEW at \in Onward, Goto(p, at),
           NEW c \in Commands, c = Here(p), c \in workload, Plan(c)' # NoPlan,
           at = "launch" => Plan(c)'.tag = "do" /\ KindOf[c] = "resume",
           at \in {"compare", "swap", "recheck"} => Plan(c)'.tag = "do" /\ KindOf[c] \in Pointer,
           at = "complete" => Settled(c)',
           at = "reject" => Plan(c)'.tag = "refuse" \/ Beaten(c)'
    PROVE  AllReady'
<1>1. /\ ProcShape' /\ proc'[p].at = at /\ proc'[p].cmd = c
      /\ \A q \in Procs : q # p => proc'[q] = proc[q]
  BY DEF Inv, Shape, ProcShape, Goto, Here
<1>2. Ready(p)'
  BY <1>1 DEF Ready, Onward, Here
<1> QED
  BY <1>1, <1>2, ReadyKept DEF AllReady

\* Every process inside a command is ready for what it does next.
LEMMA ProcStep ==
    ASSUME Inv, [Next]_vars
    PROVE  AllReady'
<1> DEFINE Goal == AllReady'
<1>a. ProcShape /\ \A p \in Procs : Ready(p) /\ HostedFits(p)
  BY DEF Inv, Shape
<1>t. StoreShape
  BY DEF Inv, Shape
<1>l. LedgerShape
  BY DEF Inv, Shape
<1>f. \A d \in Commands : Plan(d) = NoPlan \/ PlanFits(d, Plan(d))
  BY DEF Inv, RowFits
<1>g. Inv /\ StoreGrows /\ PlansKept /\ UNCHANGED workload
  <2>1. UNCHANGED workload
    BY DEF Next, Step, vars, Claim, Replay, Crash, ScanResumes, HostBegins, HostDrops, Expire,
           RunMoves, DecidePlan, StorePlan, FollowRefusal, CreateRun, RequestCancel,
           DisposeCapabilities, ClassifyResume, LaunchResume, StoreApproval, StoreExchange,
           ChannelsReply, ChannelsAck, RegistryRegister, RegistryPromote, PolicyPromotion,
           CompareStable, SwapStable, RecheckReceipt, Complete, Reject, Applied, Aborts
  <2> QED
    BY <2>1, StoreStep, LedgerStep
<1>w. workload \subseteq Commands
  BY WorkloadOfCommands DEF Inv
<1>r. \A p \in Procs : Ready(p)
  BY DEF Inv
<1>c. \A d \in Commands : ledger[d].answer = Committed => Plan(d).tag = "do" /\ Plan(d)' = Plan(d)
  <2>1. \A d \in Commands : ledger[d].answer = Committed => Plan(d).tag = "do"
    BY NoneAssumption DEF Inv, RowFits, Settled, Responses, Reasons, Committed, Lost, PlanFits, NoPlan
  <2> QED
    BY <1>g, <2>1 DEF PlansKept, NoPlan
<1>h. ASSUME UNCHANGED hosted PROVE \A q \in Procs : HostedFits(q)'
  BY <1>g, <1>h, HostedKept
<1>s. ASSUME UNCHANGED proc, DOMAIN hosted' = Procs, \A q \in Procs : HostedFits(q)' PROVE Goal
  BY <1>a, <1>g, <1>s, ReadyKept DEF AllReady, ProcShape
<1>1. ASSUME NEW p \in Procs, NEW c \in Commands, Claim(p, c) PROVE Goal
  <2>1. proc' = [proc EXCEPT ![p] = [cmd |-> c, epoch |-> ledger[c].epoch + 1, at |-> "claimed", draft |-> None]]
    BY <1>1 DEF Claim
  <2>2. UNCHANGED hosted /\ c \in workload
    BY <1>1 DEF Claim
  <2>3. /\ ProcShape' /\ proc'[p].at = "claimed" /\ proc'[p].cmd = c
        /\ \A q \in Procs : q # p => proc'[q] = proc[q]
    BY <1>a, <2>1, <2>2 DEF ProcShape
  <2>4. Ready(p)'
    BY <1>g, <2>2, <2>3 DEF Ready, Onward, Here
  <2> QED
    BY <1>g, <1>h, <2>2, <2>3, <2>4, ReadyKept DEF AllReady
<1>2. ASSUME NEW p \in Procs, NEW c \in Commands, Replay(p, c) PROVE Goal
  <2>1. UNCHANGED proc
    BY <1>2 DEF Replay
  <2>2. DOMAIN hosted' = Procs /\ \A q \in Procs :
          \/ hosted'[q] = hosted[q]
          \/ \E d \in Commands : hosted'[q] = d /\ KindOf[d] = "resume" /\ ledger[d].answer = Committed
    BY <1>2, <1>a, <1>w DEF Replay, ProcShape, Queued
  <2>3. \A d \in Commands : ledger[d].answer = Committed => Plan(d).tag = "do" /\ Plan(d)' = Plan(d)
    BY <1>c
  <2>4. \A q \in Procs : HostedFits(q)'
    BY <1>g, <2>2, <2>3, HostedKept DEF HostedFits
  <2> QED
    BY <1>s, <2>1, <2>2, <2>4
<1>3. ASSUME NEW p \in Procs, DecidePlan(p) PROVE Goal
  <2>1. PICK c \in Commands : c = Here(p) /\ c \in workload
    BY <1>3, <1>r, <1>w DEF DecidePlan, Busy, Ready, Onward
  <2>2. UNCHANGED hosted
    BY <1>3 DEF DecidePlan
  <2>3. CASE Leave(p)
    BY <1>g, <1>h, <1>a, <2>2, <2>3, Leaves DEF ProcShape
  <2>4. CASE Plan(c) # NoPlan /\ Goto(p, "apply")
    <3>1. Plan(c)' # NoPlan
      BY <1>g, <2>4 DEF PlansKept
    <3> QED
      BY <1>g, <1>h, <1>a, <2>1, <2>2, <2>4, <3>1, Goes DEF ProcShape, Onward
  <2>5. ASSUME NEW d \in Draft(c), proc' = [proc EXCEPT ![p].at = "decided", ![p].draft = d] PROVE Goal
    <3>1. PlanFits(c, d)
      BY <2>1, DraftFits
    <3>2. /\ ProcShape' /\ proc'[p].at = "decided" /\ proc'[p].cmd = c /\ proc'[p].draft = d
          /\ \A q \in Procs : q # p => proc'[q] = proc[q]
      BY <1>a, <2>1, <2>2, <2>5 DEF ProcShape, Here
    <3>3. Ready(p)'
      BY <1>g, <2>1, <3>1, <3>2 DEF Ready, Onward, Here, PlanFits, BaseFor
    <3> QED
      BY <1>g, <1>h, <2>2, <3>2, <3>3, ReadyKept DEF AllReady
  <2> QED
    BY <1>3, <2>1, <2>3, <2>4, <2>5 DEF DecidePlan
<1>4. ASSUME NEW p \in Procs, StorePlan(p) PROVE Goal
  <2>c. PICK c \in Commands : c = Here(p) /\ c \in workload /\ PlanFits(c, proc[p].draft)
    BY <1>4, <1>r, <1>w DEF StorePlan, Busy, Ready, Onward
  <2>1. PICK d : c = Here(p) /\ c \in workload /\ d = proc[p].draft /\ PlanFits(c, d)
    BY <2>c
  <2>2. UNCHANGED hosted /\ DOMAIN hosted' = Procs /\ \A q \in Procs : HostedFits(q)'
    BY <1>4, <1>a, <1>h DEF StorePlan, ProcShape
  <2>3. CASE Leave(p)
    BY <1>g, <2>2, <2>3, Leaves
  <2>4. CASE ledger' = [ledger EXCEPT ![c].plan = d] /\ Goto(p, IF d.tag = "refuse" THEN "reject" ELSE "apply")
    <3>1. Plan(c)' = d /\ d # NoPlan
      BY <1>l, <2>1, <2>4 DEF Plan, LedgerShape, NoPlan, PlanFits
    <3> QED
      BY <1>g, <2>1, <2>2, <2>4, <3>1, Goes DEF Onward
  <2>5. CASE Plan(c) # NoPlan /\ (Goto(p, "apply") \/ (Plan(c).tag = "refuse" /\ Goto(p, "reject")))
    <3>1. Plan(c)' = Plan(c)
      BY <1>g, <2>5 DEF PlansKept
    <3>2. CASE Goto(p, "apply")
      BY <1>g, <2>1, <2>2, <2>5, <3>1, <3>2, Goes DEF Onward
    <3>3. CASE Goto(p, "reject") /\ Plan(c).tag = "refuse"
      BY <1>g, <2>1, <2>2, <2>5, <3>1, <3>3, Goes DEF Onward
    <3> QED
      BY <2>5, <3>2, <3>3
  <2>6. \/ Leave(p)
        \/ /\ ledger' = [ledger EXCEPT ![Here(p)].plan = proc[p].draft]
           /\ Goto(p, IF proc[p].draft.tag = "refuse" THEN "reject" ELSE "apply")
        \/ /\ Plan(Here(p)) # NoPlan
           /\ (Goto(p, "apply") \/ (Plan(Here(p)).tag = "refuse" /\ Goto(p, "reject")))
    BY <1>4 DEF StorePlan, Goto, Leave
  <2> QED
    BY <2>1, <2>3, <2>4, <2>5, <2>6
<1>5. ASSUME NEW p \in Procs, FollowRefusal(p) PROVE Goal
  <2>1. PICK c \in Commands : c = Here(p) /\ c \in workload /\ Plan(c) # NoPlan /\ Plan(c).tag = "refuse"
    BY <1>5, <1>r, <1>w DEF FollowRefusal, Busy, Ready, Onward
  <2>2. UNCHANGED hosted /\ DOMAIN hosted' = Procs /\ \A q \in Procs : HostedFits(q)'
    BY <1>5, <1>a, <1>h DEF FollowRefusal, ProcShape
  <2>3. Plan(c)' = Plan(c) /\ Goto(p, "reject")
    BY <1>5, <1>g, <2>1 DEF PlansKept, FollowRefusal
  <2> QED
    BY <1>g, <2>1, <2>2, <2>3, Goes DEF Onward
<1>6. ASSUME NEW p \in Procs, CreateRun(p) PROVE Goal
  <2>1. PICK c \in Commands : c = Here(p) /\ c \in workload /\ Plan(c) # NoPlan /\ Plan(c).tag = "do" /\ KindOf[c] \in {"start", "clone"}
    BY <1>6, <1>r, <1>w DEF CreateRun, Applying, Busy, Ready, Onward
  <2>2. UNCHANGED hosted /\ DOMAIN hosted' = Procs /\ \A q \in Procs : HostedFits(q)'
    BY <1>6, <1>a, <1>h DEF CreateRun, Applied, Aborts, ProcShape
  <2>3. Plan(c)' = Plan(c)
    BY <1>g, <2>1 DEF PlansKept
  <2>4. CASE Leave(p)
    BY <1>g, <2>2, <2>4, Leaves
  <2>5. CASE store' = [store EXCEPT !.created = @ \cup {c}] /\ Goto(p, "complete")
    <3>1. Settled(c)'
      BY <1>t, <2>1, <2>3, <2>5 DEF Settled, Done, StoreShape
    <3> QED
      BY <1>g, <2>1, <2>2, <2>3, <2>5, <3>1, Goes DEF Onward
  <2> QED
    BY <1>6, <2>1, <2>5 DEF CreateRun, Applied
<1>7. ASSUME NEW p \in Procs, RequestCancel(p) PROVE Goal
  <2>1. PICK c \in Commands : c = Here(p) /\ c \in workload /\ Plan(c) # NoPlan /\ Plan(c).tag = "do" /\ KindOf[c] \in {"cancel"}
    BY <1>7, <1>r, <1>w DEF RequestCancel, Applying, Busy, Ready, Onward
  <2>2. UNCHANGED hosted /\ DOMAIN hosted' = Procs /\ \A q \in Procs : HostedFits(q)'
    BY <1>7, <1>a, <1>h DEF RequestCancel, Applied, Aborts, ProcShape
  <2>3. Plan(c)' = Plan(c)
    BY <1>g, <2>1 DEF PlansKept
  <2>4. CASE Leave(p)
    BY <1>g, <2>2, <2>4, Leaves
  <2>5. CASE store' = [store EXCEPT !.cancelled = @ \/ Plan(c).to = "requested"] /\ Goto(p, "complete")
    <3>1. Settled(c)'
      BY <1>f, <1>t, <2>1, <2>3, <2>5 DEF Settled, Done, StoreShape, PlanFits
    <3> QED
      BY <1>g, <2>1, <2>2, <2>3, <2>5, <3>1, Goes DEF Onward
  <2> QED
    BY <1>7, <2>1, <2>5 DEF RequestCancel, Applied
<1>8. ASSUME NEW p \in Procs, DisposeCapabilities(p) PROVE Goal
  <2>1. PICK c \in Commands : c = Here(p) /\ c \in workload /\ Plan(c) # NoPlan /\ Plan(c).tag = "do" /\ KindOf[c] \in {"dispose"}
    BY <1>8, <1>r, <1>w DEF DisposeCapabilities, Applying, Busy, Ready, Onward
  <2>2. UNCHANGED hosted /\ DOMAIN hosted' = Procs /\ \A q \in Procs : HostedFits(q)'
    BY <1>8, <1>a, <1>h DEF DisposeCapabilities, Applied, Aborts, ProcShape
  <2>3. Plan(c)' = Plan(c)
    BY <1>g, <2>1 DEF PlansKept
  <2>4. CASE Leave(p)
    BY <1>g, <2>2, <2>4, Leaves
  <2>5. CASE c \in store'.receipts /\ Goto(p, "complete")
    <3>1. Settled(c)'
      BY <1>t, <2>1, <2>3, <2>5 DEF Settled, Done
    <3> QED
      BY <1>g, <2>1, <2>2, <2>3, <2>5, <3>1, Goes DEF Onward
  <2>6. CASE TRUE /\ Goto(p, "reject")
    <3>1. Beaten(c)'
      BY <1>t, <2>1, <2>3, <2>6 DEF Beaten, Pointer
    <3> QED
      BY <1>g, <2>1, <2>2, <2>3, <2>6, <3>1, Goes DEF Onward
  <2>7. \/ Leave(p)
        \/ Here(p) \in store.receipts /\ store' = store /\ Goto(p, "complete")
        \/ Goto(p, "reject")
        \/ /\ \E n : store' = [store EXCEPT !.rows = "lost", !.receipts = @ \cup {Here(p)}, !.seq = n]
           /\ Goto(p, "complete")
    BY <1>8 DEF DisposeCapabilities, Applied, Aborts
  <2>9. (Here(p) \in store'.receipts /\ Goto(p, "complete")) \/ Leave(p) \/ Goto(p, "reject")
    BY <1>t, <2>7 DEF StoreShape
  <2> QED
    BY <2>1, <2>4, <2>5, <2>6, <2>9
<1>9. ASSUME NEW p \in Procs, ClassifyResume(p) PROVE Goal
  <2>1. PICK c \in Commands : c = Here(p) /\ c \in workload /\ Plan(c) # NoPlan /\ Plan(c).tag = "do" /\ KindOf[c] \in {"resume"}
    BY <1>9, <1>r, <1>w DEF ClassifyResume, Applying, Busy, Ready, Onward
  <2>2. UNCHANGED hosted /\ DOMAIN hosted' = Procs /\ \A q \in Procs : HostedFits(q)'
    BY <1>9, <1>a, <1>h DEF ClassifyResume, Applied, Aborts, ProcShape
  <2>3. Plan(c)' = Plan(c)
    BY <1>g, <2>1 DEF PlansKept
  <2>4. CASE Leave(p)
    BY <1>g, <2>2, <2>4, Leaves
  <2>5. CASE TRUE /\ Goto(p, "complete")
    <3>1. Settled(c)'
      BY <1>t, <2>1, <2>3 DEF Settled
    <3> QED
      BY <1>g, <2>1, <2>2, <2>3, <2>5, <3>1, Goes DEF Onward
  <2>6. CASE TRUE /\ Goto(p, "reject")
    <3>1. Beaten(c)'
      BY <1>t, <2>1, <2>3 DEF Beaten
    <3> QED
      BY <1>g, <2>1, <2>2, <2>3, <2>6, <3>1, Goes DEF Onward
  <2>7. CASE TRUE /\ Goto(p, "launch")
    BY <1>g, <2>1, <2>2, <2>3, <2>7, Goes DEF Onward
  <2> QED
    BY <1>9, <2>1, <2>5, <2>6, <2>7 DEF ClassifyResume, Applied
<1>10. ASSUME NEW p \in Procs, LaunchResume(p) PROVE Goal
  <2>1. PICK c \in Commands : c = Here(p) /\ c \in workload /\ Plan(c) # NoPlan /\ Plan(c).tag = "do" /\ KindOf[c] = "resume"
    BY <1>10, <1>r, <1>w DEF LaunchResume, Busy, Ready, Onward
  <2>2. Plan(c)' = Plan(c)
    BY <1>g, <2>1 DEF PlansKept
  <2>3. DOMAIN hosted' = Procs /\ \A q \in Procs : hosted'[q] \in {hosted[q], c}
    BY <1>10, <1>a, <2>1 DEF LaunchResume, ProcShape
  <2>4. \A q \in Procs : HostedFits(q)'
    BY <1>g, <2>1, <2>2, <2>3, HostedKept DEF HostedFits
  <2>5. Settled(c)' /\ Beaten(c)'
    BY <2>1, <2>2 DEF Settled, Beaten
  <2>6. Goto(p, "complete") \/ Goto(p, "reject")
    BY <1>10 DEF LaunchResume
  <2> QED
    BY <1>g, <2>1, <2>2, <2>3, <2>4, <2>5, <2>6, Goes DEF Onward
<1>11. ASSUME NEW p \in Procs, StoreApproval(p) PROVE Goal
  <2>1. PICK c \in Commands : c = Here(p) /\ c \in workload /\ Plan(c) # NoPlan /\ Plan(c).tag = "do" /\ KindOf[c] \in {"decide"}
    BY <1>11, <1>r, <1>w DEF StoreApproval, Applying, Busy, Ready, Onward
  <2>2. UNCHANGED hosted /\ DOMAIN hosted' = Procs /\ \A q \in Procs : HostedFits(q)'
    BY <1>11, <1>a, <1>h DEF StoreApproval, Applied, Aborts, ProcShape
  <2>3. Plan(c)' = Plan(c)
    BY <1>g, <2>1 DEF PlansKept
  <2>4. CASE Leave(p)
    BY <1>g, <2>2, <2>4, Leaves
  <2>5. CASE store' = [store EXCEPT !.approvals = @ \cup {c}] /\ Goto(p, "complete")
    <3>1. Settled(c)'
      BY <1>t, <2>1, <2>3, <2>5 DEF Settled, Done, StoreShape
    <3> QED
      BY <1>g, <2>1, <2>2, <2>3, <2>5, <3>1, Goes DEF Onward
  <2> QED
    BY <1>11, <2>1, <2>4, <2>5 DEF StoreApproval, Applied, Aborts
<1>12. ASSUME NEW p \in Procs, StoreExchange(p) PROVE Goal
  <2>1. PICK c \in Commands : c = Here(p) /\ c \in workload /\ Plan(c) # NoPlan /\ Plan(c).tag = "do" /\ KindOf[c] \in {"approve"}
    BY <1>12, <1>r, <1>w DEF StoreExchange, Applying, Busy, Ready, Onward
  <2>2. UNCHANGED hosted /\ DOMAIN hosted' = Procs /\ \A q \in Procs : HostedFits(q)'
    BY <1>12, <1>a, <1>h DEF StoreExchange, Applied, Aborts, ProcShape
  <2>3. Plan(c)' = Plan(c)
    BY <1>g, <2>1 DEF PlansKept
  <2>4. CASE Leave(p)
    BY <1>g, <2>2, <2>4, Leaves
  <2>5. CASE store'.reply = c /\ Goto(p, "complete")
    <3>1. Settled(c)'
      BY <1>t, <2>1, <2>3, <2>5 DEF Settled, Done
    <3> QED
      BY <1>g, <2>1, <2>2, <2>3, <2>5, <3>1, Goes DEF Onward
  <2>6. CASE store'.reply \notin {None, c} /\ Goto(p, "reject")
    <3>1. Beaten(c)'
      BY <1>t, <2>1, <2>3, <2>6 DEF Beaten, ForeignReply
    <3> QED
      BY <1>g, <2>1, <2>2, <2>3, <2>6, <3>1, Goes DEF Onward
  <2> QED
    BY <1>12, <2>1, <2>4, <2>5, <2>6, <1>t DEF StoreExchange, Applied, Aborts, Replied, StoreShape
<1>13. ASSUME NEW p \in Procs, ChannelsReply(p) PROVE Goal
  <2>1. PICK c \in Commands : c = Here(p) /\ c \in workload /\ Plan(c) # NoPlan /\ Plan(c).tag = "do" /\ KindOf[c] \in {"reply"}
    BY <1>13, <1>r, <1>w DEF ChannelsReply, Applying, Busy, Ready, Onward
  <2>2. UNCHANGED hosted /\ DOMAIN hosted' = Procs /\ \A q \in Procs : HostedFits(q)'
    BY <1>13, <1>a, <1>h DEF ChannelsReply, Applied, Aborts, ProcShape
  <2>3. Plan(c)' = Plan(c)
    BY <1>g, <2>1 DEF PlansKept
  <2>4. CASE Leave(p)
    BY <1>g, <2>2, <2>4, Leaves
  <2>5. CASE store'.reply = c /\ Goto(p, "complete")
    <3>1. Settled(c)'
      BY <1>t, <2>1, <2>3, <2>5 DEF Settled, Done
    <3> QED
      BY <1>g, <2>1, <2>2, <2>3, <2>5, <3>1, Goes DEF Onward
  <2>6. CASE store'.reply \notin {None, c} /\ Goto(p, "reject")
    <3>1. Beaten(c)'
      BY <1>t, <2>1, <2>3, <2>6 DEF Beaten, ForeignReply
    <3> QED
      BY <1>g, <2>1, <2>2, <2>3, <2>6, <3>1, Goes DEF Onward
  <2> QED
    BY <1>13, <2>1, <2>4, <2>5, <2>6, <1>t DEF ChannelsReply, Applied, Aborts, Replied, StoreShape
<1>14. ASSUME NEW p \in Procs, ChannelsAck(p) PROVE Goal
  <2>1. PICK c \in Commands : c = Here(p) /\ c \in workload /\ Plan(c) # NoPlan /\ Plan(c).tag = "do" /\ KindOf[c] \in {"ack"}
    BY <1>14, <1>r, <1>w DEF ChannelsAck, Applying, Busy, Ready, Onward
  <2>2. UNCHANGED hosted /\ DOMAIN hosted' = Procs /\ \A q \in Procs : HostedFits(q)'
    BY <1>14, <1>a, <1>h DEF ChannelsAck, Applied, Aborts, ProcShape
  <2>3. Plan(c)' = Plan(c)
    BY <1>g, <2>1 DEF PlansKept
  <2>4. CASE Leave(p)
    BY <1>g, <2>2, <2>4, Leaves
  <2>5. CASE store'.ack = c /\ Goto(p, "complete")
    <3>1. Settled(c)'
      BY <1>t, <2>1, <2>3, <2>5 DEF Settled, Done
    <3> QED
      BY <1>g, <2>1, <2>2, <2>3, <2>5, <3>1, Goes DEF Onward
  <2>6. CASE store'.ack \notin {None, c} /\ Goto(p, "reject")
    <3>1. Beaten(c)'
      BY <1>t, <2>1, <2>3, <2>6 DEF Beaten, ForeignAck
    <3> QED
      BY <1>g, <2>1, <2>2, <2>3, <2>6, <3>1, Goes DEF Onward
  <2> QED
    BY <1>14, <2>1, <2>4, <2>5, <2>6, <1>t DEF ChannelsAck, Applied, Aborts, StoreShape
<1>15. ASSUME NEW p \in Procs, RegistryRegister(p) PROVE Goal
  <2>1. PICK c \in Commands : c = Here(p) /\ c \in workload /\ Plan(c) # NoPlan /\ Plan(c).tag = "do" /\ KindOf[c] \in {"register"}
    BY <1>15, <1>r, <1>w DEF RegistryRegister, Applying, Busy, Ready, Onward
  <2>2. UNCHANGED hosted /\ DOMAIN hosted' = Procs /\ \A q \in Procs : HostedFits(q)'
    BY <1>15, <1>a, <1>h DEF RegistryRegister, Applied, Aborts, ProcShape
  <2>3. Plan(c)' = Plan(c)
    BY <1>g, <2>1 DEF PlansKept
  <2>4. CASE Leave(p)
    BY <1>g, <2>2, <2>4, Leaves
  <2>5. CASE store' = StoreVersion(TargetOf[c], Plan(c).to) /\ Goto(p, "complete")
    <3>1. Settled(c)'
      <4>1. TargetOf[c] \in Versions
        BY <2>1, TargetAssumption DEF Versions
      <4>2. Plan(c).to # None
        BY <1>f, <2>1 DEF PlanFits
      <4>3. store'.stamp[TargetOf[c]] # None
        BY <1>t, <2>5, <4>1, <4>2 DEF StoreVersion, StoreShape
      <4> QED
        BY <2>1, <2>3, <4>3 DEF Settled, Done
    <3> QED
      BY <1>g, <2>1, <2>2, <2>3, <2>5, <3>1, Goes DEF Onward
  <2> QED
    BY <1>15, <2>1, <2>5 DEF RegistryRegister, Applied
<1>16. ASSUME NEW p \in Procs, RegistryPromote(p) PROVE Goal
  <2>1. PICK c \in Commands : c = Here(p) /\ c \in workload /\ Plan(c) # NoPlan /\ Plan(c).tag = "do" /\ KindOf[c] \in {"promote"}
    BY <1>16, <1>r, <1>w DEF RegistryPromote, Applying, Busy, Ready, Onward
  <2>2. UNCHANGED hosted /\ DOMAIN hosted' = Procs /\ \A q \in Procs : HostedFits(q)'
    BY <1>16, <1>a, <1>h DEF RegistryPromote, Applied, Aborts, ProcShape
  <2>3. Plan(c)' = Plan(c)
    BY <1>g, <2>1 DEF PlansKept
  <2>4. CASE Leave(p)
    BY <1>g, <2>2, <2>4, Leaves
  <2>8. Used(Proof(c, Plan(c))) => Used(Proof(c, Plan(c)))'
    <3>1. Proof(c, Plan(c))' = Proof(c, Plan(c))
      BY <2>3 DEF Proof
    <3> QED
      BY <1>g, <3>1 DEF StoreGrows, Used
  <2>5. CASE Used(Proof(c, Plan(c))) /\ Goto(p, "complete")
    <3>1. Settled(c)'
      BY <2>1, <2>3, <2>5, <2>8 DEF Settled, Done
    <3> QED
      BY <1>g, <2>1, <2>2, <2>3, <2>5, <3>1, Goes DEF Onward
  <2>7. CASE TRUE /\ Goto(p, "compare")
    BY <1>g, <2>1, <2>2, <2>3, <2>7, Goes DEF Pointer, Onward
  <2> QED
    BY <1>16, <2>1, <2>5, <2>7 DEF RegistryPromote, Applied, Proof
<1>17. ASSUME NEW p \in Procs, PolicyPromotion(p) PROVE Goal
  <2>1. PICK c \in Commands : c = Here(p) /\ c \in workload /\ Plan(c) # NoPlan /\ Plan(c).tag = "do" /\ KindOf[c] \in {"initial", "rollback"}
    BY <1>17, <1>r, <1>w DEF PolicyPromotion, Applying, Busy, Ready, Onward
  <2>2. UNCHANGED hosted /\ DOMAIN hosted' = Procs /\ \A q \in Procs : HostedFits(q)'
    BY <1>17, <1>a, <1>h DEF PolicyPromotion, Applied, Aborts, ProcShape
  <2>3. Plan(c)' = Plan(c)
    BY <1>g, <2>1 DEF PlansKept
  <2>4. CASE Leave(p)
    BY <1>g, <2>2, <2>4, Leaves
  <2>8. Used(Proof(c, Plan(c))) => Used(Proof(c, Plan(c)))'
    <3>1. Proof(c, Plan(c))' = Proof(c, Plan(c))
      BY <2>3 DEF Proof
    <3> QED
      BY <1>g, <3>1 DEF StoreGrows, Used
  <2>5. CASE Used(Proof(c, Plan(c))) /\ Goto(p, "complete")
    <3>1. Settled(c)'
      BY <2>1, <2>3, <2>5, <2>8 DEF Settled, Done
    <3> QED
      BY <1>g, <2>1, <2>2, <2>3, <2>5, <3>1, Goes DEF Onward
  <2>7. CASE TRUE /\ Goto(p, "compare")
    BY <1>g, <2>1, <2>2, <2>3, <2>7, Goes DEF Pointer, Onward
  <2> QED
    BY <1>17, <2>1, <2>5, <2>7 DEF PolicyPromotion, Applied, Proof
<1>18. ASSUME NEW p \in Procs, SwapStable(p) PROVE Goal
  <2>1. PICK c \in Commands : c = Here(p) /\ c \in workload /\ Plan(c) # NoPlan /\ Plan(c).tag = "do" /\ KindOf[c] \in Pointer
    BY <1>18, <1>r, <1>w DEF SwapStable, Applying, Busy, Ready, Onward
  <2>2. UNCHANGED hosted /\ DOMAIN hosted' = Procs /\ \A q \in Procs : HostedFits(q)'
    BY <1>18, <1>a, <1>h DEF SwapStable, Applied, Aborts, ProcShape
  <2>3. Plan(c)' = Plan(c)
    BY <1>g, <2>1 DEF PlansKept
  <2>4. CASE Leave(p)
    BY <1>g, <2>2, <2>4, Leaves
  <2>8. Used(Proof(c, Plan(c))) => Used(Proof(c, Plan(c)))'
    <3>1. Proof(c, Plan(c))' = Proof(c, Plan(c))
      BY <2>3 DEF Proof
    <3> QED
      BY <1>g, <3>1 DEF StoreGrows, Used
  <2>5. CASE Used(Proof(c, Plan(c))) /\ Goto(p, "complete")
    <3>1. Settled(c)'
      BY <2>1, <2>3, <2>5, <2>8 DEF Settled, Done, Pointer
    <3> QED
      BY <1>g, <2>1, <2>2, <2>3, <2>5, <3>1, Goes DEF Onward
  <2>6. CASE TRUE /\ Goto(p, "recheck")
    BY <1>g, <2>1, <2>2, <2>3, <2>6, Goes DEF Onward
  <2>7. ASSUME NEW m, m.proof = Proof(c, Plan(c)), Goto(p, "complete"),
               store' = [store EXCEPT !.promotions = Append(@, m)]
        PROVE  Goal
    <3>1. PICK S : store.promotions \in Seq(S)
      BY <1>t DEF StoreShape
    <3>2. store'.promotions = Append(store.promotions, m)
      BY <1>t, <2>7 DEF StoreShape
    <3>3. Len(store.promotions) + 1 \in DOMAIN store'.promotions /\ store'.promotions[Len(store.promotions) + 1] = m
      BY <3>1, <3>2, AppendUses
    <3>4. Proof(c, Plan(c))' = Proof(c, Plan(c))
      BY <2>3 DEF Proof
    <3>5. Used(Proof(c, Plan(c)))'
      BY <2>7, <3>3, <3>4 DEF Used
    <3>6. Settled(c)'
      BY <2>1, <2>3, <3>5 DEF Settled, Done, Pointer
    <3> QED
      BY <1>g, <2>1, <2>2, <2>3, <2>7, <3>6, Goes DEF Onward
  <2> QED
    BY <1>18, <2>1, <2>5, <2>6, <2>7 DEF SwapStable, Applied
<1>28. ASSUME NEW p \in Procs, CompareStable(p) PROVE Goal
  <2>1. PICK c \in Commands : c = Here(p) /\ c \in workload /\ Plan(c) # NoPlan /\ Plan(c).tag = "do" /\ KindOf[c] \in Pointer
    BY <1>28, <1>r, <1>w DEF CompareStable, Busy, Ready, Onward
  <2>2. UNCHANGED hosted /\ DOMAIN hosted' = Procs /\ \A q \in Procs : HostedFits(q)'
    BY <1>28, <1>a, <1>h DEF CompareStable, Applied, ProcShape
  <2>3. Plan(c)' = Plan(c)
    BY <1>g, <2>1 DEF PlansKept
  <2>4. CASE TRUE /\ Goto(p, "reject")
    <3>1. Beaten(c)'
      BY <1>t, <2>1, <2>3 DEF Beaten, Pointer
    <3> QED
      BY <1>g, <2>1, <2>2, <2>3, <2>4, <3>1, Goes DEF Onward
  <2>5. ASSUME NEW at \in {"swap", "recheck"}, Goto(p, at) PROVE Goal
    BY <1>g, <2>1, <2>2, <2>3, <2>5, Goes DEF Onward
  <2> QED
    BY <1>28, <2>4, <2>5 DEF CompareStable, OffBaseline, Applied
<1>29. ASSUME NEW p \in Procs, RecheckReceipt(p) PROVE Goal
  <2>1. PICK c \in Commands : c = Here(p) /\ c \in workload /\ Plan(c) # NoPlan /\ Plan(c).tag = "do" /\ KindOf[c] \in Pointer
    BY <1>29, <1>r, <1>w DEF RecheckReceipt, Busy, Ready, Onward
  <2>2. UNCHANGED hosted /\ DOMAIN hosted' = Procs /\ \A q \in Procs : HostedFits(q)'
    BY <1>29, <1>a, <1>h DEF RecheckReceipt, Applied, ProcShape
  <2>3. Plan(c)' = Plan(c)
    BY <1>g, <2>1 DEF PlansKept
  <2>4. CASE TRUE /\ Goto(p, "reject")
    <3>1. Beaten(c)'
      BY <1>t, <2>1, <2>3 DEF Beaten, Pointer
    <3> QED
      BY <1>g, <2>1, <2>2, <2>3, <2>4, <3>1, Goes DEF Onward
  <2>5. CASE Used(Proof(c, Plan(c))) /\ Goto(p, "complete")
    <3>1. Proof(c, Plan(c))' = Proof(c, Plan(c))
      BY <2>3 DEF Proof
    <3>2. Used(Proof(c, Plan(c)))'
      BY <1>g, <2>5, <3>1 DEF StoreGrows, Used
    <3>3. Settled(c)'
      BY <2>1, <2>3, <3>2 DEF Settled, Done, Pointer
    <3> QED
      BY <1>g, <2>1, <2>2, <2>3, <2>5, <3>3, Goes DEF Onward
  <2> QED
    BY <1>29, <2>1, <2>4, <2>5 DEF RecheckReceipt, Applied
<1>19. ASSUME NEW p \in Procs, Complete(p) PROVE Goal
  <2>1. Leave(p) /\ UNCHANGED hosted
    BY <1>19 DEF Complete
  <2> QED
    BY <1>a, <1>g, <1>h, <2>1, Leaves DEF ProcShape
<1>20. ASSUME NEW p \in Procs, Reject(p) PROVE Goal
  <2>1. Leave(p) /\ UNCHANGED hosted
    BY <1>20 DEF Reject
  <2> QED
    BY <1>a, <1>g, <1>h, <2>1, Leaves DEF ProcShape
<1>21. ASSUME NEW p \in Procs, Crash(p) PROVE Goal
  <2>1. Leave(p) /\ DOMAIN hosted' = Procs /\ \A q \in Procs : hosted'[q] \in {hosted[q], None}
    BY <1>21, <1>a DEF Crash, ProcShape
  <2> QED
    BY <1>g, <2>1, Leaves, HostedKept
<1>22. ASSUME NEW p \in Procs, ScanResumes(p) PROVE Goal
  <2>1. UNCHANGED proc
    BY <1>22 DEF ScanResumes
  <2>2. DOMAIN hosted' = Procs /\ \A q \in Procs :
          \/ hosted'[q] = hosted[q]
          \/ \E d \in Commands : hosted'[q] = d /\ KindOf[d] = "resume" /\ ledger[d].answer = Committed
    BY <1>22, <1>a, <1>w DEF ScanResumes, ProcShape
  <2>3. \A d \in Commands : ledger[d].answer = Committed => Plan(d).tag = "do" /\ Plan(d)' = Plan(d)
    BY <1>c
  <2>4. \A q \in Procs : HostedFits(q)'
    BY <1>g, <2>2, <2>3, HostedKept DEF HostedFits
  <2> QED
    BY <1>s, <2>1, <2>2, <2>4
<1>23. ASSUME NEW p \in Procs, HostBegins(p) PROVE Goal
  <2>1. UNCHANGED proc /\ DOMAIN hosted' = Procs /\ \A q \in Procs : hosted'[q] \in {hosted[q], None}
    BY <1>23, <1>a DEF HostBegins, ProcShape
  <2> QED
    BY <1>g, <1>s, <2>1, HostedKept
<1>24. ASSUME NEW p \in Procs, HostDrops(p) PROVE Goal
  <2>1. UNCHANGED proc /\ DOMAIN hosted' = Procs /\ \A q \in Procs : hosted'[q] \in {hosted[q], None}
    BY <1>24, <1>a DEF HostDrops, ProcShape
  <2> QED
    BY <1>g, <1>s, <2>1, HostedKept
<1>25. ASSUME NEW c \in Commands, Expire(c) PROVE Goal
  BY <1>25, <1>a, <1>s, <1>h DEF Expire, ProcShape
<1>26. CASE RunMoves
  BY <1>26, <1>a, <1>s, <1>h DEF RunMoves, ProcShape
<1>27. CASE UNCHANGED vars
  BY <1>27, <1>a, <1>s, <1>h DEF vars, ProcShape
<1> QED
  BY <1>1, <1>2, <1>3, <1>4, <1>5, <1>6, <1>7, <1>8, <1>9, <1>10, <1>11, <1>12, <1>13, <1>14, <1>15, <1>16, <1>17, <1>18, <1>19, <1>20, <1>21, <1>22, <1>23, <1>24, <1>25, <1>26, <1>27, <1>28, <1>29 DEF Next, Step

\* Nothing else of a step matters to the shape of the state.
LEMMA FrameStep ==
    ASSUME [Next]_vars
    PROVE  UNCHANGED workload /\ DOMAIN heard' = DOMAIN heard
<1>1. UNCHANGED workload
  BY DEF Next, Step, vars, Claim, Replay, Crash, ScanResumes, HostBegins, HostDrops, Expire, RunMoves,
         DecidePlan, StorePlan, FollowRefusal, CreateRun, RequestCancel, DisposeCapabilities,
         ClassifyResume, LaunchResume, StoreApproval, StoreExchange, ChannelsReply, ChannelsAck,
         RegistryRegister, RegistryPromote, PolicyPromotion, CompareStable, SwapStable, RecheckReceipt, Complete, Reject,
         Applied, Aborts
<1>2. \/ UNCHANGED heard
      \/ \E p \in Procs : (\E c \in Commands : Replay(p, c)) \/ Complete(p) \/ Reject(p)
  BY DEF Next, Step, vars, Claim, Crash, ScanResumes, HostBegins, HostDrops, Expire, RunMoves,
         DecidePlan, StorePlan, FollowRefusal, CreateRun, RequestCancel, DisposeCapabilities,
         ClassifyResume, LaunchResume, StoreApproval, StoreExchange, ChannelsReply, ChannelsAck,
         RegistryRegister, RegistryPromote, PolicyPromotion, CompareStable, SwapStable, RecheckReceipt,
         Applied, Aborts
<1>3. ASSUME NEW p \in Procs, NEW c \in Commands, Replay(p, c) PROVE DOMAIN heard' = DOMAIN heard
  BY <1>3 DEF Replay
<1>4. ASSUME NEW p \in Procs, Complete(p) \/ Reject(p) PROVE DOMAIN heard' = DOMAIN heard
  BY <1>4 DEF Complete, Reject, Answered
<1> QED
  BY <1>1, <1>2, <1>3, <1>4

\* Who writes the parts of an exchange writes all of them.
LEMMA ExchangeStep ==
    ASSUME Inv, [Next]_vars
    PROVE  ReplyFits' /\ ExchangeIsWhole'
<1>1. StoreGrows /\ Gains /\ ReplyFits /\ ExchangeIsWhole /\ UNCHANGED workload
  BY StoreStep, FrameStep DEF Inv
<1>2. ReplyFits'
  BY <1>1 DEF ReplyFits, StoreGrows, Gains
<1>3. ASSUME NEW c \in Commands, KindOf[c] = "approve"
      PROVE  c \in store'.approvals <=> store'.reply = c
  BY <1>1, <1>3, NoneAssumption DEF ExchangeIsWhole, StoreGrows, Gains
<1>4. store'.reply # None => store'.ack # None
  BY <1>1 DEF ExchangeIsWhole, StoreGrows, Gains
<1> QED
  BY <1>2, <1>3, <1>4 DEF ExchangeIsWhole

LEMMA InitInv ==
    ASSUME Init
    PROVE  Inv
<1>1. PICK s \in Scenarios :
        /\ workload = s.commands
        /\ store = [status |-> s.status, owned |-> FALSE, seq |-> 1, epoch |-> 1,
                    cancelled |-> FALSE, rows |-> "active", attempts |-> {}, created |-> {},
                    receipts |-> {}, approvals |-> {}, reply |-> None, ack |-> None,
                    stamp |-> [v \in Versions |-> IF v \in Registered THEN "initially" ELSE None],
                    minted |-> {}, promotions |-> s.promotions]
  BY DEF Init
<1>2. Shape
  <2>1. s.promotions \in Seq(Range(s.promotions))
    BY HistoryAssumption
  <2>2. StoreShape
    BY <1>1, <2>1 DEF StoreShape
  <2>3. LedgerShape /\ ProcShape /\ DOMAIN heard = Commands
    BY DEF Init, LedgerShape, ProcShape, NoClaim, Idle
  <2> QED
    BY <1>1, <2>2, <2>3 DEF Shape
<1>3. \A c \in Commands : RowFits(c)
  BY DEF Init, RowFits, NoClaim, Plan
<1>4. \A p \in Procs : Ready(p) /\ HostedFits(p)
  BY DEF Init, Ready, Onward, HostedFits, Idle
<1>5. ReplyFits /\ ExchangeIsWhole
  BY <1>1, NoneAssumption DEF ReplyFits, ExchangeIsWhole
<1> QED
  BY <1>2, <1>3, <1>4, <1>5 DEF Inv

LEMMA StepInv ==
    ASSUME Inv, [Next]_vars
    PROVE  Inv'
<1>1. LedgerShape' /\ \A c \in Commands : RowFits(c)'
  BY LedgerStep
<1>2. ProcShape' /\ \A p \in Procs : Ready(p)' /\ HostedFits(p)'
  BY ProcStep DEF AllReady
<1>3. StoreShape' /\ ReplyFits' /\ ExchangeIsWhole'
  BY StoreStep, ExchangeStep
<1>4. Shape'
  BY <1>1, <1>2, <1>3, FrameStep DEF Inv, Shape
<1> QED
  BY <1>1, <1>2, <1>3, <1>4 DEF Inv

\* Every reachable state of the ledger, the processes and the store is well-formed and
\* coherent: a closed command has the answer that the store bears out, and a process inside
\* a command (a claimed _CommandSession, however long it was paused) is about to say nothing
\* that is not so.
THEOREM Invariance == Spec => []Inv
<1>1. Init => Inv
  BY InitInv
<1>2. Inv /\ [Next]_vars => Inv'
  BY StepInv
<1> QED
  BY <1>1, <1>2, PTL DEF Spec

\* A reply by runs_approve, its approval and the acknowledgement are one fact
\* (store_approval_exchange), whichever deciders, repliers and acknowledging commands race
\* and however often their claims are taken over.
THEOREM ExchangesAreWhole == Spec => []ExchangeIsWhole
<1>1. Inv => ExchangeIsWhole
  BY DEF Inv
<1> QED
  BY <1>1, Invariance, PTL

(***************************************************************************)
(* Replays.  A definition that two commands of one workload register is    *)
(* left out: the second of them commits against a row with the other's     *)
(* timestamp, which its replay does not accept.                            *)
(***************************************************************************)
RegisteredOnce ==
    \A s \in Scenarios : \A c, d \in s.commands :
        KindOf[c] = "register" /\ KindOf[d] = "register" /\ TargetOf[c] = TargetOf[d] => c = d

\* The row of a definition is missing or has the timestamp that its command plans.
StampsFit ==
    /\ \A c \in workload : KindOf[c] = "register" /\ Plan(c).tag = "do" => store.stamp[TargetOf[c]] \in {None, Plan(c).to}
    /\ \A p \in Procs :
        proc[p].at = "decided" /\ KindOf[Here(p)] = "register" /\ proc[p].draft.tag = "do" /\ Plan(Here(p)) = NoPlan
            => store.stamp[TargetOf[Here(p)]] \in {None, proc[p].draft.to}

LEMMA StampsStep ==
    ASSUME RegisteredOnce, Inv, StampsFit, [Next]_vars
    PROVE  StampsFit'
<1> DEFINE Goal == StampsFit'
<1>a. StoreShape /\ LedgerShape /\ ProcShape
  BY DEF Inv, Shape
<1>b. StampsFit
  OBVIOUS
<1>g. UNCHANGED workload
  BY FrameStep
<1>w. workload \subseteq Commands
  BY WorkloadOfCommands DEF Inv
<1>r. \A p \in Procs : Ready(p)
  BY DEF Inv
<1>o. \A c, d \in workload : KindOf[c] = "register" /\ KindOf[d] = "register" /\ TargetOf[c] = TargetOf[d] => c = d
  BY DEF RegisteredOnce, Inv, Shape
<1>q. ASSUME store'.stamp = store.stamp, \A d \in Commands : Plan(d)' = Plan(d),
             \A q \in Procs : proc'[q].at = "decided" => proc'[q] = proc[q]
      PROVE  Goal
  <2>1. \A d \in workload : KindOf[d] = "register" /\ Plan(d)'.tag = "do" => store'.stamp[TargetOf[d]] \in {None, Plan(d)'.to}
    BY <1>b, <1>q, <1>w DEF StampsFit
  <2>2. ASSUME NEW q \in Procs, proc'[q].at = "decided", KindOf[Here(q)'] = "register",
               proc'[q].draft.tag = "do", Plan(Here(q))' = NoPlan
        PROVE  store'.stamp[TargetOf[Here(q)']] \in {None, proc'[q].draft.to}
    <3>1. PICK c \in Commands : c = Here(q)
      BY <1>q, <1>r, <1>w, <2>2 DEF Ready, Onward
    <3>2. Here(q)' = c /\ proc'[q] = proc[q] /\ Plan(c) = NoPlan
      BY <1>q, <2>2, <3>1 DEF Here, Plan
    <3> QED
      BY <1>b, <1>q, <2>2, <3>1, <3>2 DEF StampsFit
  <2> QED
    BY <1>g, <2>1, <2>2 DEF StampsFit
<1>1. ASSUME NEW p \in Procs, NEW c \in Commands, Claim(p, c) PROVE Goal
  BY <1>1, <1>a, <1>q DEF Claim, Leave, Goto, Applied, Aborts, Idle, StoreShape, LedgerShape, ProcShape, Plan
<1>2. ASSUME NEW p \in Procs, NEW c \in Commands, Replay(p, c) PROVE Goal
  BY <1>2, <1>a, <1>q DEF Replay, Leave, Goto, Applied, Aborts, Idle, StoreShape, LedgerShape, ProcShape, Plan
<1>3. ASSUME NEW p \in Procs, DecidePlan(p) PROVE Goal
  <2>1. UNCHANGED <<ledger, store>>
    BY <1>3 DEF DecidePlan
  <2>2. \A q \in Procs : q # p => proc'[q] = proc[q]
    BY <1>3, <1>a DEF DecidePlan, Goto, Leave, ProcShape
  <2>3. PICK c \in Commands : c = Here(p)
    BY <1>3, <1>r, <1>w DEF DecidePlan, Busy, Ready, Onward
  <2>4. ASSUME proc'[p].at = "decided"
        PROVE  proc'[p].cmd = c /\ \E d \in Draft(c) : proc'[p].draft = d
    BY <1>3, <1>a, <2>3, <2>4 DEF DecidePlan, Goto, Leave, ProcShape, Idle, Here
  <2>5. ASSUME KindOf[c] = "register", NEW d \in Draft(c), d.tag = "do"
        PROVE  store.stamp[TargetOf[c]] \in {None, d.to}
    BY <2>5 DEF Draft, RegistrationDraft, Do, Refuse
  <2>6. ASSUME NEW q \in Procs, proc'[q].at = "decided", KindOf[Here(q)'] = "register",
               proc'[q].draft.tag = "do", Plan(Here(q))' = NoPlan
        PROVE  store'.stamp[TargetOf[Here(q)']] \in {None, proc'[q].draft.to}
    <3>1. CASE q = p
      BY <2>1, <2>4, <2>5, <2>6, <3>1 DEF Here
    <3>2. CASE q # p
      BY <1>b, <2>1, <2>2, <2>6, <3>2 DEF StampsFit, Here, Plan
    <3> QED
      BY <3>1, <3>2
  <2> QED
    BY <1>b, <1>g, <2>1, <2>6 DEF StampsFit, Plan
<1>4. ASSUME NEW p \in Procs, StorePlan(p) PROVE Goal
  <2>1. PICK c \in Commands : c = Here(p)
    BY <1>4, <1>r, <1>w DEF StorePlan, Busy, Ready, Onward
  <2>2. /\ \A q \in Procs : q # p => proc'[q] = proc[q]
        /\ proc'[p].at # "decided" /\ UNCHANGED store
    BY <1>4, <1>a DEF StorePlan, Goto, Leave, ProcShape, Idle
  <2>3. CASE UNCHANGED ledger
    BY <1>q, <2>2, <2>3 DEF Plan
  <2>4. CASE ledger' = [ledger EXCEPT ![c].plan = proc[p].draft] /\ Plan(c) = NoPlan
    <3>1. Plan(c)' = proc[p].draft /\ \A d \in Commands : d # c => Plan(d)' = Plan(d)
      BY <1>a, <2>1, <2>4 DEF Plan, LedgerShape
    <3>2. ASSUME KindOf[c] = "register", proc[p].draft.tag = "do"
          PROVE  store.stamp[TargetOf[c]] \in {None, proc[p].draft.to}
      BY <1>4, <1>b, <2>1, <2>4, <3>2 DEF StampsFit, StorePlan, Busy
    <3>3. \A d \in workload : KindOf[d] = "register" /\ Plan(d)'.tag = "do" => store.stamp[TargetOf[d]] \in {None, Plan(d)'.to}
      BY <1>b, <1>w, <3>1, <3>2 DEF StampsFit
    <3>4. \A q \in Procs : proc'[q].at = "decided" => proc'[q] = proc[q] /\ Here(q) \in Commands
      BY <1>r, <1>w, <2>2 DEF Ready, Onward
    <3>5. \A d \in Commands : Plan(d)' = NoPlan => Plan(d) = NoPlan
      BY <2>4, <3>1
    <3> QED
      BY <1>b, <1>g, <2>2, <3>3, <3>4, <3>5 DEF StampsFit, Here
  <2> QED
    BY <1>4, <2>1, <2>3, <2>4 DEF StorePlan
<1>5. ASSUME NEW p \in Procs, FollowRefusal(p) PROVE Goal
  BY <1>5, <1>a, <1>q DEF FollowRefusal, Leave, Goto, Applied, Aborts, Idle, StoreShape, LedgerShape, ProcShape, Plan
<1>6. ASSUME NEW p \in Procs, CreateRun(p) PROVE Goal
  BY <1>6, <1>a, <1>q DEF CreateRun, Leave, Goto, Applied, Aborts, Idle, StoreShape, LedgerShape, ProcShape, Plan
<1>7. ASSUME NEW p \in Procs, RequestCancel(p) PROVE Goal
  BY <1>7, <1>a, <1>q DEF RequestCancel, Leave, Goto, Applied, Aborts, Idle, StoreShape, LedgerShape, ProcShape, Plan
<1>8. ASSUME NEW p \in Procs, DisposeCapabilities(p) PROVE Goal
  <2>1. /\ \A q \in Procs : proc'[q].at = "decided" => proc'[q] = proc[q]
        /\ UNCHANGED ledger
    BY <1>8, <1>a DEF DisposeCapabilities, Applied, Aborts, Goto, Leave, Idle, ProcShape
  <2>2. store'.stamp = store.stamp
    BY <1>8, <1>a DEF DisposeCapabilities, Applied, Aborts, Replied, StoreShape
  <2> QED
    BY <1>q, <2>1, <2>2 DEF Plan
<1>9. ASSUME NEW p \in Procs, ClassifyResume(p) PROVE Goal
  BY <1>9, <1>a, <1>q DEF ClassifyResume, Leave, Goto, Applied, Aborts, Idle, StoreShape, LedgerShape, ProcShape, Plan
<1>10. ASSUME NEW p \in Procs, LaunchResume(p) PROVE Goal
  BY <1>10, <1>a, <1>q DEF LaunchResume, Leave, Goto, Applied, Aborts, Idle, StoreShape, LedgerShape, ProcShape, Plan
<1>11. ASSUME NEW p \in Procs, StoreApproval(p) PROVE Goal
  BY <1>11, <1>a, <1>q DEF StoreApproval, Leave, Goto, Applied, Aborts, Idle, StoreShape, LedgerShape, ProcShape, Plan
<1>12. ASSUME NEW p \in Procs, StoreExchange(p) PROVE Goal
  <2>1. /\ \A q \in Procs : proc'[q].at = "decided" => proc'[q] = proc[q]
        /\ UNCHANGED ledger
    BY <1>12, <1>a DEF StoreExchange, Applied, Aborts, Goto, Leave, Idle, ProcShape
  <2>2. store'.stamp = store.stamp
    BY <1>12, <1>a DEF StoreExchange, Applied, Aborts, Replied, StoreShape
  <2> QED
    BY <1>q, <2>1, <2>2 DEF Plan
<1>13. ASSUME NEW p \in Procs, ChannelsReply(p) PROVE Goal
  <2>1. /\ \A q \in Procs : proc'[q].at = "decided" => proc'[q] = proc[q]
        /\ UNCHANGED ledger
    BY <1>13, <1>a DEF ChannelsReply, Applied, Aborts, Goto, Leave, Idle, ProcShape
  <2>2. store'.stamp = store.stamp
    BY <1>13, <1>a DEF ChannelsReply, Applied, Aborts, Replied, StoreShape
  <2> QED
    BY <1>q, <2>1, <2>2 DEF Plan
<1>14. ASSUME NEW p \in Procs, ChannelsAck(p) PROVE Goal
  BY <1>14, <1>a, <1>q DEF ChannelsAck, Leave, Goto, Applied, Aborts, Idle, StoreShape, LedgerShape, ProcShape, Plan
<1>15. ASSUME NEW p \in Procs, RegistryRegister(p) PROVE Goal
  <2>1. PICK c \in Commands : c = Here(p) /\ c \in workload /\ KindOf[c] = "register" /\ Plan(c).tag = "do"
    BY <1>15, <1>r, <1>w DEF RegistryRegister, Applying, Busy, Ready, Onward
  <2>2. /\ store' = [store EXCEPT !.stamp[TargetOf[c]] = IF @ = None THEN Plan(c).to ELSE @]
        /\ UNCHANGED ledger
    BY <1>15, <2>1 DEF RegistryRegister, Applied, StoreVersion
  <2>3. \A q \in Procs : proc'[q].at = "decided" => proc'[q] = proc[q]
    BY <1>15, <1>a DEF RegistryRegister, Applied, Goto, ProcShape
  <2>4. \A v \in Versions : v # TargetOf[c] => store'.stamp[v] = store.stamp[v]
    BY <1>a, <2>2 DEF StoreShape
  <2>5. store'.stamp[TargetOf[c]] \in {None, Plan(c).to}
    <3>1. TargetOf[c] \in Versions
      BY <2>1, TargetAssumption DEF Versions
    <3>2. store.stamp[TargetOf[c]] \in {None, Plan(c).to}
      BY <1>b, <2>1 DEF StampsFit
    <3> QED
      BY <1>a, <2>2, <3>1, <3>2 DEF StoreShape
  <2>6. \A d \in workload : KindOf[d] = "register" => TargetOf[d] \in Versions /\ (TargetOf[d] = TargetOf[c] => d = c)
    BY <1>w, <1>o, <2>1, TargetAssumption DEF Versions
  <2>7. \A q \in Procs : proc[q].at = "decided" => Here(q) \in workload
    BY <1>r DEF Ready, Onward
  <2>8. Plan(c) # NoPlan
    BY <2>1 DEF NoPlan
  <2>9. \A d \in workload : KindOf[d] = "register" /\ Plan(d)'.tag = "do" => store'.stamp[TargetOf[d]] \in {None, Plan(d)'.to}
    BY <1>b, <2>2, <2>4, <2>5, <2>6 DEF StampsFit, Plan
  <2>10. ASSUME NEW q \in Procs, proc'[q].at = "decided", KindOf[Here(q)'] = "register",
                proc'[q].draft.tag = "do", Plan(Here(q))' = NoPlan
         PROVE  store'.stamp[TargetOf[Here(q)']] \in {None, proc'[q].draft.to}
    <3>1. Here(q)' = Here(q) /\ proc'[q] = proc[q] /\ Plan(Here(q)) = NoPlan
      BY <2>2, <2>3, <2>10 DEF Here, Plan
    <3> QED
      BY <1>b, <2>4, <2>6, <2>7, <2>8, <2>10, <3>1 DEF StampsFit
  <2> QED
    BY <1>g, <2>9, <2>10 DEF StampsFit
<1>16. ASSUME NEW p \in Procs, RegistryPromote(p) PROVE Goal
  BY <1>16, <1>a, <1>q DEF RegistryPromote, Leave, Goto, Applied, Aborts, Idle, StoreShape, LedgerShape, ProcShape, Plan
<1>17. ASSUME NEW p \in Procs, PolicyPromotion(p) PROVE Goal
  <2>1. /\ \A q \in Procs : proc'[q].at = "decided" => proc'[q] = proc[q]
        /\ UNCHANGED ledger
    BY <1>17, <1>a DEF PolicyPromotion, Applied, Aborts, Goto, Leave, Idle, ProcShape
  <2>2. store'.stamp = store.stamp
    BY <1>17, <1>a DEF PolicyPromotion, Applied, Aborts, Replied, StoreShape
  <2> QED
    BY <1>q, <2>1, <2>2 DEF Plan
<1>18. ASSUME NEW p \in Procs, SwapStable(p) PROVE Goal
  <2>1. /\ \A q \in Procs : proc'[q].at = "decided" => proc'[q] = proc[q]
        /\ UNCHANGED ledger
    BY <1>18, <1>a DEF SwapStable, Applied, Goto, ProcShape
  <2>2. store'.stamp = store.stamp
    BY <1>18, <1>a DEF SwapStable, Applied, StoreShape
  <2> QED
    BY <1>q, <2>1, <2>2 DEF Plan
<1>28. ASSUME NEW p \in Procs, CompareStable(p) PROVE Goal
  BY <1>28, <1>a, <1>q DEF CompareStable, OffBaseline, Goto, Applied, StoreShape, LedgerShape, ProcShape, Plan
<1>29. ASSUME NEW p \in Procs, RecheckReceipt(p) PROVE Goal
  BY <1>29, <1>a, <1>q DEF RecheckReceipt, Goto, Applied, StoreShape, LedgerShape, ProcShape, Plan
<1>19. ASSUME NEW p \in Procs, Complete(p) PROVE Goal
  <2>1. /\ \A q \in Procs : proc'[q].at = "decided" => proc'[q] = proc[q]
        /\ store' = store
    BY <1>19, <1>a DEF Complete, Leave, Idle, ProcShape
  <2>2. \A d \in Commands : ledger'[d].plan = ledger[d].plan
    <3>1. UNCHANGED ledger \/ \E st, r : Fenced(p) /\ ledger' = [ledger EXCEPT ![Here(p)] = Closed(@, st, r)]
      BY <1>19 DEF Complete, Answered
    <3>2. Here(p) \in Commands
      BY <1>19, <1>r, <1>w DEF Complete, Busy, Ready, Onward
    <3> QED
      BY <1>a, <3>1, <3>2 DEF Closed, LedgerShape
  <2> QED
    BY <1>q, <2>1, <2>2 DEF Plan
<1>20. ASSUME NEW p \in Procs, Reject(p) PROVE Goal
  <2>1. /\ \A q \in Procs : proc'[q].at = "decided" => proc'[q] = proc[q]
        /\ store' = store
    BY <1>20, <1>a DEF Reject, Leave, Idle, ProcShape
  <2>2. \A d \in Commands : ledger'[d].plan = ledger[d].plan
    <3>1. UNCHANGED ledger \/ \E st, r : Fenced(p) /\ ledger' = [ledger EXCEPT ![Here(p)] = Closed(@, st, r)]
      BY <1>20 DEF Reject, Answered
    <3>2. Here(p) \in Commands
      BY <1>20, <1>r, <1>w DEF Reject, Busy, Ready, Onward
    <3> QED
      BY <1>a, <3>1, <3>2 DEF Closed, LedgerShape
  <2> QED
    BY <1>q, <2>1, <2>2 DEF Plan
<1>21. ASSUME NEW p \in Procs, Crash(p) PROVE Goal
  BY <1>21, <1>a, <1>q DEF Crash, Leave, Goto, Applied, Aborts, Idle, StoreShape, LedgerShape, ProcShape, Plan
<1>22. ASSUME NEW p \in Procs, ScanResumes(p) PROVE Goal
  BY <1>22, <1>a, <1>q DEF ScanResumes, Leave, Goto, Applied, Aborts, Idle, StoreShape, LedgerShape, ProcShape, Plan
<1>23. ASSUME NEW p \in Procs, HostBegins(p) PROVE Goal
  BY <1>23, <1>a, <1>q DEF HostBegins, Plan, StoreShape, LedgerShape, ProcShape
<1>24. ASSUME NEW p \in Procs, HostDrops(p) PROVE Goal
  BY <1>24, <1>a, <1>q DEF HostDrops, Leave, Goto, Applied, Aborts, Idle, StoreShape, LedgerShape, ProcShape, Plan
<1>25. ASSUME NEW c \in Commands, Expire(c) PROVE Goal
  BY <1>25, <1>a, <1>q DEF Expire, Leave, Goto, Applied, Aborts, Idle, StoreShape, LedgerShape, ProcShape, Plan
<1>26. CASE RunMoves
  BY <1>26, <1>a, <1>q DEF RunMoves, Plan, StoreShape, LedgerShape, ProcShape
<1>27. CASE UNCHANGED vars
  BY <1>27, <1>q DEF vars, Plan
<1> QED
  BY <1>1, <1>2, <1>3, <1>4, <1>5, <1>6, <1>7, <1>8, <1>9, <1>10, <1>11, <1>12, <1>13, <1>14, <1>15, <1>16, <1>17, <1>18, <1>19, <1>20, <1>21, <1>22, <1>23, <1>24, <1>25, <1>26, <1>27, <1>28, <1>29 DEF Next, Step

\* The store bears out the answer of every closed command of the workload.
LEMMA RowsReplay ==
    ASSUME Inv, StampsFit, NEW c \in workload
    PROVE  ReplayValid(c)
<1>w. c \in Commands
  BY WorkloadOfCommands DEF Inv
<1>1. RowFits(c) /\ KindOf[c] \in Kinds
  BY <1>w, KindAssumption DEF Inv
<1>2. ASSUME ledger[c].answer = Committed PROVE CommittedValid(c)
  <2>1. Settled(c)
    BY <1>1, <1>2, NoneAssumption DEF RowFits, PlanFits, NoPlan, Responses, Reasons, Committed, Lost
  <2>2. CASE KindOf[c] = "approve"
    <3>1. store.reply = c /\ c \in store.approvals
      BY <1>w, <2>1, <2>2 DEF Settled, Done, Inv, ExchangeIsWhole
    <3>2. store.ack # None
      BY <1>w, <3>1, NoneAssumption DEF Inv, ExchangeIsWhole
    <3> QED
      BY <2>2, <3>1, <3>2 DEF CommittedValid, ExchangeValid, WholeExchange
  <2>3. CASE KindOf[c] = "reply"
    <3>1. store.reply = c
      BY <2>1, <2>3 DEF Settled, Done
    <3>2. store.ack # None
      BY <1>w, <3>1, NoneAssumption DEF Inv, ExchangeIsWhole
    <3> QED
      BY <2>3, <3>1, <3>2 DEF CommittedValid, ExchangeValid
  <2>4. CASE KindOf[c] = "ack"
    BY <2>1, <2>4 DEF Settled, Done, CommittedValid, ExchangeValid
  <2>5. CASE KindOf[c] = "register"
    BY <2>1, <2>5 DEF Settled, Done, CommittedValid, RegistryValid, StampsFit
  <2>6. CASE KindOf[c] \in Pointer
    <3>1. Used(Proof(c, Plan(c)))
      BY <2>1, <2>6 DEF Settled, Done, Pointer
    <3> QED
      BY <2>6, <3>1 DEF CommittedValid, RegistryValid, Pointer
  <2>7. CASE KindOf[c] \in {"start", "clone", "cancel", "resume", "dispose", "decide"}
    BY <2>1, <2>7 DEF Settled, CommittedValid
  <2> QED
    BY <1>1, <2>2, <2>3, <2>4, <2>5, <2>6, <2>7 DEF Kinds, Pointer
<1>3. ASSUME ledger[c].answer = Lost PROVE LostValid(c)
  <2>1. Beaten(c) /\ (KindOf[c] = "dispose" => c \notin store.receipts)
    BY <1>1, <1>3, NoneAssumption DEF RowFits, PlanFits, NoPlan, Responses, Reasons, Committed, Lost
  <2>2. CASE KindOf[c] = "approve"
    <3>1. ForeignReply(c) /\ store.reply \in workload /\ KindOf[store.reply] \in {"approve", "reply"}
      BY <2>1, <2>2 DEF Beaten, ForeignReply, Inv, ReplyFits
    <3>2. KindOf[store.reply] = "approve"
      BY <2>2, <3>1, RequestAssumption DEF Inv, Shape
    <3>3. store.reply \in store.approvals /\ store.ack # None
      BY <3>1, <3>2, WorkloadOfCommands DEF Inv, ExchangeIsWhole, ForeignReply
    <3> QED
      BY <2>2, <3>1, <3>3 DEF LostValid, WholeExchange
  <2> QED
    BY <2>1, <2>2 DEF LostValid, Beaten
<1> QED
  BY <1>2, <1>3 DEF ReplayValid

\* No replay is answered with JournalDamaged (_validate_terminal_response and
\* _validate_terminal_rejection accept every terminal command that _begin_command finds),
\* for every workload that does not register one definition by two commands.
THEOREM ReplaysExact ==
    ASSUME RegisteredOnce
    PROVE  Spec => []ReplaysAreExact
<1> DEFINE RInv == Inv /\ StampsFit /\ ReplaysAreExact
<1>1. Init => RInv
  <2>1. ASSUME Init PROVE StampsFit /\ ReplaysAreExact
    <3>1. workload \subseteq Commands
      BY <2>1, InitInv, WorkloadOfCommands DEF Inv
    <3>2. \A c \in workload : Plan(c).tag # "do"
      BY <2>1, <3>1 DEF Init, Plan, NoClaim, NoPlan
    <3>3. \A p \in Procs : proc[p].at # "decided"
      BY <2>1 DEF Init, Idle
    <3> QED
      BY <2>1, <3>2, <3>3 DEF Init, StampsFit, ReplaysAreExact
  <2> QED
    BY <2>1, InitInv
<1>2. RInv /\ [Next]_vars => RInv'
  <2> SUFFICES ASSUME RInv, [Next]_vars PROVE RInv'
    OBVIOUS
  <2>1. Inv' /\ StampsFit'
    BY StepInv, StampsStep
  <2>2. ASSUME NEW p \in Procs, NEW c \in Commands, Replay(p, c) PROVE damaged' = damaged
    <3>1. c \in workload
      BY <2>2 DEF Replay
    <3> QED
      BY <2>2, <3>1, RowsReplay DEF Replay
  <2>3. damaged' = damaged
    BY <2>2 DEF Next, Step, vars, Claim, Crash, ScanResumes, HostBegins, HostDrops, Expire, RunMoves,
         DecidePlan, StorePlan, FollowRefusal, CreateRun, RequestCancel, DisposeCapabilities,
         ClassifyResume, LaunchResume, StoreApproval, StoreExchange, ChannelsReply, ChannelsAck,
         RegistryRegister, RegistryPromote, PolicyPromotion, CompareStable, SwapStable, RecheckReceipt, Complete, Reject,
         Applied, Aborts
  <2> QED
    BY <2>1, <2>3 DEF ReplaysAreExact
<1>3. RInv => ReplaysAreExact
  OBVIOUS
<1> QED
  BY <1>1, <1>2, <1>3, PTL DEF Spec

(***************************************************************************)
(* The command law.  A step is silent, or tells a caller the answer that a *)
(* command has, or answers a command on grounds that are in the store.     *)
(***************************************************************************)
Silence == UNCHANGED heard /\ \A d \in Commands : ledger'[d].answer = ledger[d].answer

Tells(c) ==
    /\ ledger[c].answer # None
    /\ heard' = [heard EXCEPT ![c] = @ \cup {ledger[c].answer}]
    /\ UNCHANGED <<ledger, store>>

Grounds(c, r) ==
    \/ r = Committed /\ Settled(c)
    \/ r # Committed /\ Plan(c).tag = "refuse"
    \/ /\ r = Lost /\ Beaten(c) /\ ~ OwnedFact(c)
       /\ \E q \in Procs : proc[q].at = "reject" /\ Here(q) = c

Answers(c, r) ==
    /\ ledger[c].answer = None /\ r \in Responses /\ Grounds(c, r)
    /\ heard' = [heard EXCEPT ![c] = @ \cup {r}]
    /\ ledger'[c].answer = r /\ \A d \in Commands : d # c => ledger'[d] = ledger[d]
    /\ UNCHANGED store /\ \A d \in Commands : Plan(d)' = Plan(d)

LEMMA AnswerStep ==
    ASSUME Inv, [Next]_vars
    PROVE  Silence \/ (\E d \in Commands : Tells(d)) \/ (\E d \in Commands : \E r \in Responses : Answers(d, r))
<1> DEFINE Goal == Silence \/ (\E d \in Commands : Tells(d)) \/ (\E d \in Commands : \E r \in Responses : Answers(d, r))
<1>a. LedgerShape
  BY DEF Inv, Shape
<1>f. \A d \in Commands : RowFits(d)
  BY DEF Inv
<1>w. workload \subseteq Commands
  BY WorkloadOfCommands DEF Inv
<1>r. \A p \in Procs : Ready(p)
  BY DEF Inv
<1>q. ASSUME UNCHANGED heard, \/ UNCHANGED ledger
                              \/ \A d \in Commands : ledger'[d].answer = ledger[d].answer
      PROVE  Goal
  BY <1>q DEF Silence
<1>1. ASSUME NEW p \in Procs, NEW c \in Commands, Claim(p, c) PROVE Goal
  <2>1. UNCHANGED heard /\ \A d \in Commands : ledger'[d].answer = ledger[d].answer
    BY <1>1, <1>a DEF Claim, LedgerShape
  <2> QED
    BY <1>q, <2>1
<1>2. ASSUME NEW p \in Procs, NEW c \in Commands, Replay(p, c) PROVE Goal
  <2>1. ledger[c].answer # None
    BY <1>2, <1>f, NoneAssumption DEF Replay, Terminal, RowFits, PlanFits, NoPlan, Responses, Beaten, Settled
  <2>2. UNCHANGED heard \/ heard' = [heard EXCEPT ![c] = @ \cup {ledger[c].answer}]
    BY <1>2 DEF Replay
  <2>3. UNCHANGED <<ledger, store>>
    BY <1>2 DEF Replay
  <2> QED
    BY <1>q, <2>1, <2>2, <2>3 DEF Tells
<1>3. ASSUME NEW p \in Procs, DecidePlan(p) PROVE Goal
  BY <1>3, <1>q DEF DecidePlan, Applied, Aborts
<1>4. ASSUME NEW p \in Procs, StorePlan(p) PROVE Goal
  <2>1. Here(p) \in Commands
    BY <1>4, <1>r, <1>w DEF StorePlan, Busy, Ready, Onward
  <2>2. UNCHANGED heard /\ \A d \in Commands : ledger'[d].answer = ledger[d].answer
    BY <1>4, <1>a, <2>1 DEF StorePlan, LedgerShape
  <2> QED
    BY <1>q, <2>2
<1>5. ASSUME NEW p \in Procs, FollowRefusal(p) PROVE Goal
  BY <1>5, <1>q DEF FollowRefusal, Applied, Aborts
<1>6. ASSUME NEW p \in Procs, CreateRun(p) PROVE Goal
  BY <1>6, <1>q DEF CreateRun, Applied, Aborts
<1>7. ASSUME NEW p \in Procs, RequestCancel(p) PROVE Goal
  BY <1>7, <1>q DEF RequestCancel, Applied, Aborts
<1>8. ASSUME NEW p \in Procs, DisposeCapabilities(p) PROVE Goal
  BY <1>8, <1>q DEF DisposeCapabilities, Applied, Aborts
<1>9. ASSUME NEW p \in Procs, ClassifyResume(p) PROVE Goal
  BY <1>9, <1>q DEF ClassifyResume, Applied, Aborts
<1>10. ASSUME NEW p \in Procs, LaunchResume(p) PROVE Goal
  BY <1>10, <1>q DEF LaunchResume, Applied, Aborts
<1>11. ASSUME NEW p \in Procs, StoreApproval(p) PROVE Goal
  BY <1>11, <1>q DEF StoreApproval, Applied, Aborts
<1>12. ASSUME NEW p \in Procs, StoreExchange(p) PROVE Goal
  BY <1>12, <1>q DEF StoreExchange, Applied, Aborts
<1>13. ASSUME NEW p \in Procs, ChannelsReply(p) PROVE Goal
  BY <1>13, <1>q DEF ChannelsReply, Applied, Aborts
<1>14. ASSUME NEW p \in Procs, ChannelsAck(p) PROVE Goal
  BY <1>14, <1>q DEF ChannelsAck, Applied, Aborts
<1>15. ASSUME NEW p \in Procs, RegistryRegister(p) PROVE Goal
  BY <1>15, <1>q DEF RegistryRegister, Applied, Aborts
<1>16. ASSUME NEW p \in Procs, RegistryPromote(p) PROVE Goal
  BY <1>16, <1>q DEF RegistryPromote, Applied, Aborts
<1>17. ASSUME NEW p \in Procs, PolicyPromotion(p) PROVE Goal
  BY <1>17, <1>q DEF PolicyPromotion, Applied, Aborts
<1>18. ASSUME NEW p \in Procs, SwapStable(p) PROVE Goal
  BY <1>18, <1>q DEF SwapStable, Applied, Aborts
<1>28. ASSUME NEW p \in Procs, CompareStable(p) PROVE Goal
  BY <1>28, <1>q DEF CompareStable, Applied
<1>29. ASSUME NEW p \in Procs, RecheckReceipt(p) PROVE Goal
  BY <1>29, <1>q DEF RecheckReceipt, Applied
<1>19. ASSUME NEW p \in Procs, Complete(p) PROVE Goal
  <2>1. PICK c \in Commands : c = Here(p) /\ c \in workload /\ Settled(c)
    BY <1>19, <1>r, <1>w DEF Complete, Busy, Ready, Onward, NoPlan
  <2>2. PICK r : r = Committed
    OBVIOUS
  <2>3. UNCHANGED store
    BY <1>19 DEF Complete
  <2>4. r \in Responses
    BY <2>2 DEF Responses
  <2>5. CASE UNCHANGED <<ledger, heard>>
    BY <1>q, <2>5
  <2>6. CASE Terminal(c) /\ ledger[c].answer = r /\ heard' = [heard EXCEPT ![c] = @ \cup {r}] /\ UNCHANGED ledger
    BY <2>3, <2>4, <2>6, NoneAssumption DEF Tells
  <2>7. CASE /\ Fenced(p) /\ heard' = [heard EXCEPT ![c] = @ \cup {r}]
             /\ ledger' = [ledger EXCEPT ![c] = Closed(@, "committed", r)]
    <3>1. ledger[c].answer = None
      BY <1>f, <2>1, <2>7 DEF Fenced, RowFits
    <3>2. /\ ledger'[c].answer = r /\ ledger'[c].plan = ledger[c].plan
          /\ \A d \in Commands : d # c => ledger'[d] = ledger[d]
      BY <1>a, <2>1, <2>7 DEF LedgerShape, Closed
    <3>3. \A d \in Commands : Plan(d)' = Plan(d)
      BY <3>2 DEF Plan
    <3>4. Grounds(c, r)
      BY <2>1, <2>2 DEF Grounds
    <3> QED
      BY <2>3, <2>4, <2>7, <3>1, <3>2, <3>3, <3>4 DEF Answers
  <2> QED
    BY <1>19, <2>1, <2>2, <2>5, <2>6, <2>7 DEF Complete, Answered
<1>20. ASSUME NEW p \in Procs, Reject(p) PROVE Goal
  <2>1. PICK c \in Commands : c = Here(p) /\ c \in workload /\ (Plan(c).tag = "refuse" \/ Beaten(c))
    BY <1>20, <1>r, <1>w DEF Reject, Busy, Ready, Onward, NoPlan
  <2>2. PICK r : r = IF Plan(c).tag = "refuse" THEN Plan(c).to ELSE Lost
    OBVIOUS
  <2>3. UNCHANGED store
    BY <1>20 DEF Reject
  <2>4. r \in Responses
    <3>1. Plan(c).tag = "refuse" => Plan(c).to \in Reasons
      BY <1>f DEF RowFits, PlanFits, NoPlan
    <3> QED
      BY <2>2, <3>1 DEF Responses
  <2>5. CASE UNCHANGED <<ledger, heard>>
    BY <1>q, <2>5
  <2>6. CASE Terminal(c) /\ ledger[c].answer = r /\ heard' = [heard EXCEPT ![c] = @ \cup {r}] /\ UNCHANGED ledger
    BY <2>3, <2>4, <2>6, NoneAssumption DEF Tells
  <2>7. CASE /\ Fenced(p) /\ heard' = [heard EXCEPT ![c] = @ \cup {r}] /\ ~ OwnedFact(c)
             /\ ledger' = [ledger EXCEPT ![c] = Closed(@, "rejected", r)]
    <3>1. ledger[c].answer = None
      BY <1>f, <2>1, <2>7 DEF Fenced, RowFits
    <3>2. /\ ledger'[c].answer = r /\ ledger'[c].plan = ledger[c].plan
          /\ \A d \in Commands : d # c => ledger'[d] = ledger[d]
      BY <1>a, <2>1, <2>7 DEF LedgerShape, Closed
    <3>3. \A d \in Commands : Plan(d)' = Plan(d)
      BY <3>2 DEF Plan
    <3>4. Grounds(c, r)
      <4>1. r # Committed
        BY <1>f, <2>2 DEF RowFits, PlanFits, NoPlan, Reasons, Committed, Lost
      <4>2. Plan(c).tag # "refuse" => Beaten(c) /\ ~ OwnedFact(c) /\ \E q \in Procs : proc[q].at = "reject" /\ Here(q) = c
        BY <1>20, <2>1, <2>7 DEF Reject, Busy
      <4> QED
        BY <2>2, <4>1, <4>2 DEF Grounds
    <3> QED
      BY <2>3, <2>4, <2>7, <3>1, <3>2, <3>3, <3>4 DEF Answers
  <2> QED
    BY <1>20, <2>1, <2>2, <2>5, <2>6, <2>7 DEF Reject, Answered
<1>21. ASSUME NEW p \in Procs, Crash(p) PROVE Goal
  BY <1>21, <1>q DEF Crash, Applied, Aborts
<1>22. ASSUME NEW p \in Procs, ScanResumes(p) PROVE Goal
  BY <1>22, <1>q DEF ScanResumes, Applied, Aborts
<1>23. ASSUME NEW p \in Procs, HostBegins(p) PROVE Goal
  BY <1>23, <1>q DEF HostBegins, Applied, Aborts
<1>24. ASSUME NEW p \in Procs, HostDrops(p) PROVE Goal
  BY <1>24, <1>q DEF HostDrops, Applied, Aborts
<1>25. ASSUME NEW c \in Commands, Expire(c) PROVE Goal
  <2>1. UNCHANGED heard /\ \A d \in Commands : ledger'[d].answer = ledger[d].answer
    BY <1>25, <1>a DEF Expire, LedgerShape
  <2> QED
    BY <1>q, <2>1
<1>26. CASE RunMoves
  BY <1>26, <1>q DEF RunMoves
<1>27. CASE UNCHANGED vars
  BY <1>27, <1>q DEF vars
<1> QED
  BY <1>1, <1>2, <1>3, <1>4, <1>5, <1>6, <1>7, <1>8, <1>9, <1>10, <1>11, <1>12, <1>13, <1>14, <1>15, <1>16, <1>17, <1>18, <1>19, <1>20, <1>21, <1>22, <1>23, <1>24, <1>25, <1>26, <1>27, <1>28, <1>29 DEF Next, Step

\* A command whose mutation comes into the store is still without an answer, or is a resume
\* whose launch was answered; for a pointer command that is what InitialFits is for.
LEMMA NewlyDone ==
    ASSUME Inv, [Next]_vars, NEW c \in Commands, ~ Done(c), Done(c)',
           KindOf[c] \in Pointer => ledger[c].answer # Lost
    PROVE  ledger[c].answer = None \/ (ledger[c].answer = Committed /\ KindOf[c] = "resume")
<1>1. RowFits(c) /\ StoreGrows /\ Gains /\ PlansKept
  BY StoreStep, LedgerStep DEF Inv
<1>2. Plan(c)'.tag = "do" /\ (Plan(c) # NoPlan => Plan(c).tag = "do")
  BY <1>1 DEF Done, PlansKept
<1>3. CASE ledger[c].state = "committed"
  BY <1>1, <1>3 DEF RowFits, Settled
<1>4. CASE ledger[c].state = "rejected"
  <2>1. Beaten(c) /\ KindOf[c] \notin Pointer
    BY <1>1, <1>2, <1>4 DEF RowFits, Beaten, NoPlan
  <2>2. CASE KindOf[c] = "dispose"
    BY <1>1, <1>2, <1>4, <2>1, <2>2 DEF Done, Gains, Open, Beaten
  <2>3. CASE KindOf[c] = "resume"
    BY <1>1, <1>2, <1>4, <2>1, <2>3 DEF Done, Gains, Open, Beaten
  <2>4. CASE KindOf[c] \in {"approve", "reply", "ack"}
    BY <1>1, <1>2, <1>4, <2>1, <2>4 DEF Done, Gains, Open, Beaten
  <2> QED
    BY <2>1, <2>2, <2>3, <2>4 DEF Beaten
<1> QED
  BY <1>1, <1>3, <1>4 DEF RowFits

\* An answer other than committed is given where the mutation is not in the store.
LEMMA NotDone ==
    ASSUME NEW c \in Commands, NEW r, Grounds(c, r), r # Committed, KindOf[c] \notin Pointer
    PROVE  ~ Done(c)
  BY DEF Grounds, Done, Beaten, OwnedFact

(***************************************************************************)
(* The stable pointer.  Once a component has a stable version it never is  *)
(* without one again, so an initial promotion that found the pointer set   *)
(* and its own receipt missing has lost for good.  SwapStable asks for the *)
(* pointer and never for the command: any other move that lost may still   *)
(* come when the pointer returns to its base.                              *)
(***************************************************************************)
\* The moves of a step: none, or the one that the compare-and-swap lets through.
Swaps(p) ==
    LET plan == Plan(Here(p))
        proof == Proof(Here(p), plan)
    IN  /\ MaySwap(proof, plan.base)
        /\ store'.promotions = Append(store.promotions, [from |-> plan.base, to |-> plan.to, proof |-> proof])

LEMMA PointerMoves ==
    ASSUME Inv, [Next]_vars
    PROVE  store'.promotions = store.promotions \/ \E p \in Procs : SwapStable(p) /\ Swaps(p)
<1> DEFINE Goal == store'.promotions = store.promotions \/ \E p \in Procs : SwapStable(p) /\ Swaps(p)
<1>a. StoreShape
  BY DEF Inv, Shape
<1>1. ASSUME NEW p \in Procs, NEW d \in Commands, Claim(p, d) PROVE Goal
  BY <1>1 DEF Claim
<1>2. ASSUME NEW p \in Procs, NEW d \in Commands, Replay(p, d) PROVE Goal
  BY <1>2 DEF Replay
<1>3. ASSUME NEW p \in Procs, DecidePlan(p) PROVE Goal
  BY <1>3, <1>a DEF DecidePlan, Applied, Aborts, Replied, StoreVersion, StoreShape
<1>4. ASSUME NEW p \in Procs, StorePlan(p) PROVE Goal
  BY <1>4, <1>a DEF StorePlan, Applied, Aborts, Replied, StoreVersion, StoreShape
<1>5. ASSUME NEW p \in Procs, FollowRefusal(p) PROVE Goal
  BY <1>5, <1>a DEF FollowRefusal, Applied, Aborts, Replied, StoreVersion, StoreShape
<1>6. ASSUME NEW p \in Procs, CreateRun(p) PROVE Goal
  BY <1>6, <1>a DEF CreateRun, Applied, Aborts, Replied, StoreVersion, StoreShape
<1>7. ASSUME NEW p \in Procs, RequestCancel(p) PROVE Goal
  BY <1>7, <1>a DEF RequestCancel, Applied, Aborts, Replied, StoreVersion, StoreShape
<1>8. ASSUME NEW p \in Procs, DisposeCapabilities(p) PROVE Goal
  BY <1>8, <1>a DEF DisposeCapabilities, Applied, Aborts, Replied, StoreVersion, StoreShape
<1>9. ASSUME NEW p \in Procs, ClassifyResume(p) PROVE Goal
  BY <1>9, <1>a DEF ClassifyResume, Applied, Aborts, Replied, StoreVersion, StoreShape
<1>10. ASSUME NEW p \in Procs, LaunchResume(p) PROVE Goal
  BY <1>10, <1>a DEF LaunchResume, Applied, Aborts, Replied, StoreVersion, StoreShape
<1>11. ASSUME NEW p \in Procs, StoreApproval(p) PROVE Goal
  BY <1>11, <1>a DEF StoreApproval, Applied, Aborts, Replied, StoreVersion, StoreShape
<1>12. ASSUME NEW p \in Procs, StoreExchange(p) PROVE Goal
  BY <1>12, <1>a DEF StoreExchange, Applied, Aborts, Replied, StoreVersion, StoreShape
<1>13. ASSUME NEW p \in Procs, ChannelsReply(p) PROVE Goal
  BY <1>13, <1>a DEF ChannelsReply, Applied, Aborts, Replied, StoreVersion, StoreShape
<1>14. ASSUME NEW p \in Procs, ChannelsAck(p) PROVE Goal
  BY <1>14, <1>a DEF ChannelsAck, Applied, Aborts, Replied, StoreVersion, StoreShape
<1>15. ASSUME NEW p \in Procs, RegistryRegister(p) PROVE Goal
  BY <1>15, <1>a DEF RegistryRegister, Applied, Aborts, Replied, StoreVersion, StoreShape
<1>16. ASSUME NEW p \in Procs, RegistryPromote(p) PROVE Goal
  BY <1>16, <1>a DEF RegistryPromote, Applied, Aborts, Replied, StoreVersion, StoreShape
<1>17. ASSUME NEW p \in Procs, PolicyPromotion(p) PROVE Goal
  BY <1>17, <1>a DEF PolicyPromotion, Applied, Aborts, Replied, StoreVersion, StoreShape
<1>18. ASSUME NEW p \in Procs, SwapStable(p) PROVE Goal
  BY <1>18, <1>a DEF SwapStable, Swaps, Applied, StoreShape
<1>28. ASSUME NEW p \in Procs, CompareStable(p) PROVE Goal
  BY <1>28, <1>a DEF CompareStable, Applied, Aborts, Replied, StoreVersion, StoreShape
<1>29. ASSUME NEW p \in Procs, RecheckReceipt(p) PROVE Goal
  BY <1>29, <1>a DEF RecheckReceipt, Applied, Aborts, Replied, StoreVersion, StoreShape
<1>19. ASSUME NEW p \in Procs, Complete(p) PROVE Goal
  BY <1>19, <1>a DEF Complete, Applied, Aborts, Replied, StoreVersion, StoreShape
<1>20. ASSUME NEW p \in Procs, Reject(p) PROVE Goal
  BY <1>20, <1>a DEF Reject, Applied, Aborts, Replied, StoreVersion, StoreShape
<1>21. ASSUME NEW p \in Procs, Crash(p) PROVE Goal
  BY <1>21, <1>a DEF Crash, Applied, Aborts, Replied, StoreVersion, StoreShape
<1>22. ASSUME NEW p \in Procs, ScanResumes(p) PROVE Goal
  BY <1>22, <1>a DEF ScanResumes, Applied, Aborts, Replied, StoreVersion, StoreShape
<1>23. ASSUME NEW p \in Procs, HostBegins(p) PROVE Goal
  BY <1>23, <1>a DEF HostBegins, Applied, Aborts, Replied, StoreVersion, StoreShape
<1>24. ASSUME NEW p \in Procs, HostDrops(p) PROVE Goal
  BY <1>24, <1>a DEF HostDrops, Applied, Aborts, Replied, StoreVersion, StoreShape
<1>25. ASSUME NEW d \in Commands, Expire(d) PROVE Goal
  BY <1>25 DEF Expire
<1>26. CASE RunMoves
  BY <1>26, <1>a DEF RunMoves, StoreShape
<1>27. CASE UNCHANGED vars
  BY <1>27 DEF vars
<1> QED
  BY <1>1, <1>2, <1>3, <1>4, <1>5, <1>6, <1>7, <1>8, <1>9, <1>10, <1>11, <1>12, <1>13, <1>14, <1>15, <1>16, <1>17, <1>18, <1>19, <1>20, <1>21, <1>22, <1>23, <1>24, <1>25, <1>26, <1>27, <1>28, <1>29 DEF Next, Step

\* The component has a stable version, and not by this initial promotion.
Blocked(c) == Stable # None /\ ~ Used(<<None, TargetOf[c]>>)

LEMMA StaysStable ==
    ASSUME Inv, [Next]_vars, Stable # None
    PROVE  /\ Stable' # None
           /\ \A v \in Versions : ~ Used(<<None, v>>) => ~ Used(<<None, v>>)'
<1>1. CASE store'.promotions = store.promotions
  BY <1>1 DEF Stable, Used
<1>2. ASSUME NEW p \in Procs, SwapStable(p), Swaps(p)
      PROVE  /\ Stable' # None
             /\ \A v \in Versions : ~ Used(<<None, v>>) => ~ Used(<<None, v>>)'
  <2>1. PICK c \in Commands : c = Here(p) /\ KindOf[c] \in Pointer /\ Plan(c).tag = "do" /\ PlanFits(c, Plan(c))
    BY <1>2, WorkloadOfCommands DEF SwapStable, Busy, Inv, Ready, Onward, RowFits, NoPlan
  <2>2. PICK m : /\ store'.promotions = Append(store.promotions, m) /\ m.to = Plan(c).to
                 /\ m.proof = Proof(c, Plan(c))
    BY <1>2, <2>1 DEF Swaps
  <2>3. PICK S : store.promotions \in Seq(S)
    BY DEF Inv, Shape, StoreShape
  <2>4. /\ DOMAIN store'.promotions = 1 .. (Len(store.promotions) + 1)
        /\ \A i \in DOMAIN store.promotions : store'.promotions[i] = store.promotions[i]
        /\ store'.promotions[Len(store.promotions) + 1] = m /\ store'.promotions # <<>>
        /\ DOMAIN store.promotions = 1 .. Len(store.promotions) /\ Len(store.promotions) \in Nat
        /\ Len(store'.promotions) = Len(store.promotions) + 1
    BY <2>2, <2>3, AppendUses
  <2>5. Stable' # None
    <3>1. m.to # None
      BY <2>1, <2>2 DEF PlanFits
    <3>2. Last(store'.promotions) = m
      BY <2>4 DEF Last
    <3> QED
      BY <2>4, <3>1, <3>2 DEF Stable
  <2>6. \A v \in Versions : m.proof # <<None, v>>
    <3>1. Plan(c).base # None
      BY <1>2, <2>1 DEF Swaps, MaySwap
    <3>2. CASE KindOf[c] = "promote"
      BY <2>2, <3>2, ProofAssumption DEF Proof
    <3>3. CASE KindOf[c] # "promote"
      BY <2>2, <3>1, <3>3 DEF Proof
    <3> QED
      BY <3>2, <3>3
  <2>7. ASSUME NEW v \in Versions, Used(<<None, v>>)' PROVE Used(<<None, v>>)
    <3>1. PICK i \in DOMAIN store'.promotions : store'.promotions[i].proof = <<None, v>>
      BY <2>7 DEF Used
    <3>2. i # Len(store.promotions) + 1
      BY <2>4, <2>6, <3>1
    <3>3. i \in DOMAIN store.promotions
      BY <2>4, <3>2
    <3> QED
      BY <2>4, <3>1, <3>3 DEF Used
  <2> QED
    BY <2>5, <2>7
<1> QED
  BY <1>1, <1>2, PointerMoves

LEMMA StaysBlocked ==
    ASSUME Inv, [Next]_vars, NEW c \in Commands, KindOf[c] = "initial", Blocked(c)
    PROVE  Blocked(c)'
<1>1. TargetOf[c] \in Versions
  BY TargetAssumption DEF Versions
<1>2. Stable' # None /\ ~ Used(<<None, TargetOf[c]>>)'
  BY <1>1, StaysStable DEF Blocked
<1> QED
  BY <1>2 DEF Blocked

\* How a process comes to a place where it has seen that an initial promotion lost.
LEMMA IntoRejection ==
    ASSUME Inv, [Next]_vars, NEW q \in Procs, proc'[q].at \in {"recheck", "reject"}, proc'[q] # proc[q]
    PROVE  /\ Here(q)' = Here(q) /\ Here(q) \in Commands
           /\ \/ Plan(Here(q))'.tag = "refuse" \/ KindOf[Here(q)] # "initial"
              \/ CompareStable(q) \/ SwapStable(q) \/ RecheckReceipt(q)
<1> DEFINE Goal ==
       /\ Here(q)' = Here(q) /\ Here(q) \in Commands
       /\ \/ Plan(Here(q))'.tag = "refuse" \/ KindOf[Here(q)] # "initial"
          \/ CompareStable(q) \/ SwapStable(q) \/ RecheckReceipt(q)
<1>a. ProcShape /\ LedgerShape
  BY DEF Inv, Shape
<1>w. workload \subseteq Commands
  BY WorkloadOfCommands DEF Inv
<1>r. \A p \in Procs : proc[p].at # "idle" => Here(p) \in Commands
  BY <1>w DEF Inv, Ready, Onward
<1>1. ASSUME NEW p \in Procs, NEW d \in Commands, Claim(p, d) PROVE Goal
  BY <1>1, <1>a DEF Claim, ProcShape
<1>2. ASSUME NEW p \in Procs, NEW d \in Commands, Replay(p, d) PROVE Goal
  BY <1>2 DEF Replay
<1>3. ASSUME NEW p \in Procs, DecidePlan(p) PROVE Goal
  BY <1>3, <1>a DEF DecidePlan, Goto, Leave, Idle, ProcShape
<1>4. ASSUME NEW p \in Procs, StorePlan(p) PROVE Goal
  <2>1. q = p /\ Here(p) \in Commands /\ Here(p)' = Here(p)
    BY <1>4, <1>a, <1>r DEF StorePlan, Busy, Goto, Leave, Idle, ProcShape, Here
  <2>2. Plan(Here(p))'.tag = "refuse"
    BY <1>4, <1>a, <2>1 DEF StorePlan, Goto, Leave, Idle, ProcShape, LedgerShape, Here, Plan
  <2> QED
    BY <2>1, <2>2
<1>5. ASSUME NEW p \in Procs, FollowRefusal(p) PROVE Goal
  <2>1. q = p /\ Here(p) \in Commands /\ Here(p)' = Here(p)
    BY <1>5, <1>a, <1>r DEF FollowRefusal, Busy, Goto, ProcShape, Here
  <2> QED
    BY <1>5, <2>1 DEF FollowRefusal, Plan
<1>6. ASSUME NEW p \in Procs, CreateRun(p) PROVE Goal
  BY <1>6, <1>a, <1>r DEF CreateRun, Applying, Busy, Applied, Aborts, Goto, Leave, Idle, ProcShape, Here
<1>7. ASSUME NEW p \in Procs, RequestCancel(p) PROVE Goal
  BY <1>7, <1>a, <1>r DEF RequestCancel, Applying, Busy, Applied, Aborts, Goto, Leave, Idle, ProcShape, Here
<1>8. ASSUME NEW p \in Procs, DisposeCapabilities(p) PROVE Goal
  BY <1>8, <1>a, <1>r DEF DisposeCapabilities, Applying, Busy, Applied, Aborts, Goto, Leave, Idle, ProcShape, Here
<1>9. ASSUME NEW p \in Procs, ClassifyResume(p) PROVE Goal
  BY <1>9, <1>a, <1>r DEF ClassifyResume, Applying, Busy, Applied, Aborts, Goto, Leave, Idle, ProcShape, Here
<1>10. ASSUME NEW p \in Procs, LaunchResume(p) PROVE Goal
  <2>1. KindOf[Here(p)] # "initial"
    BY <1>10 DEF LaunchResume, Busy, Inv, Ready, Onward
  <2> QED
    BY <1>10, <1>a, <1>r, <2>1 DEF LaunchResume, Busy, Goto, ProcShape, Here
<1>11. ASSUME NEW p \in Procs, StoreApproval(p) PROVE Goal
  BY <1>11, <1>a, <1>r DEF StoreApproval, Applying, Busy, Applied, Aborts, Goto, Leave, Idle, ProcShape, Here
<1>12. ASSUME NEW p \in Procs, StoreExchange(p) PROVE Goal
  BY <1>12, <1>a, <1>r DEF StoreExchange, Applying, Busy, Applied, Aborts, Goto, Leave, Idle, ProcShape, Here
<1>13. ASSUME NEW p \in Procs, ChannelsReply(p) PROVE Goal
  BY <1>13, <1>a, <1>r DEF ChannelsReply, Applying, Busy, Applied, Aborts, Goto, Leave, Idle, ProcShape, Here
<1>14. ASSUME NEW p \in Procs, ChannelsAck(p) PROVE Goal
  BY <1>14, <1>a, <1>r DEF ChannelsAck, Applying, Busy, Applied, Aborts, Goto, Leave, Idle, ProcShape, Here
<1>15. ASSUME NEW p \in Procs, RegistryRegister(p) PROVE Goal
  BY <1>15, <1>a, <1>r DEF RegistryRegister, Applying, Busy, Applied, Aborts, Goto, Leave, Idle, ProcShape, Here
<1>16. ASSUME NEW p \in Procs, RegistryPromote(p) PROVE Goal
  BY <1>16, <1>a, <1>r DEF RegistryPromote, Applying, Busy, Applied, Aborts, Goto, Leave, Idle, ProcShape, Here
<1>17. ASSUME NEW p \in Procs, PolicyPromotion(p) PROVE Goal
  BY <1>17, <1>a, <1>r DEF PolicyPromotion, Applying, Busy, Applied, Aborts, Goto, Leave, Idle, ProcShape, Here
<1>18. ASSUME NEW p \in Procs, SwapStable(p) PROVE Goal
  BY <1>18, <1>a, <1>r DEF SwapStable, Busy, Applied, Goto, ProcShape, Here
<1>28. ASSUME NEW p \in Procs, CompareStable(p) PROVE Goal
  BY <1>28, <1>a, <1>r DEF CompareStable, Busy, Applied, Goto, ProcShape, Here
<1>29. ASSUME NEW p \in Procs, RecheckReceipt(p) PROVE Goal
  BY <1>29, <1>a, <1>r DEF RecheckReceipt, Busy, Applied, Goto, ProcShape, Here
<1>19. ASSUME NEW p \in Procs, Complete(p) PROVE Goal
  BY <1>19, <1>a DEF Complete, Leave, Idle, ProcShape
<1>20. ASSUME NEW p \in Procs, Reject(p) PROVE Goal
  BY <1>20, <1>a DEF Reject, Leave, Idle, ProcShape
<1>21. ASSUME NEW p \in Procs, Crash(p) PROVE Goal
  BY <1>21, <1>a DEF Crash, Leave, Idle, ProcShape
<1>22. ASSUME NEW p \in Procs, ScanResumes(p) PROVE Goal
  BY <1>22 DEF ScanResumes
<1>23. ASSUME NEW p \in Procs, HostBegins(p) PROVE Goal
  BY <1>23 DEF HostBegins
<1>24. ASSUME NEW p \in Procs, HostDrops(p) PROVE Goal
  BY <1>24 DEF HostDrops
<1>25. ASSUME NEW d \in Commands, Expire(d) PROVE Goal
  BY <1>25 DEF Expire
<1>26. CASE RunMoves
  BY <1>26 DEF RunMoves
<1>27. CASE UNCHANGED vars
  BY <1>27 DEF vars
<1> QED
  BY <1>1, <1>2, <1>3, <1>4, <1>5, <1>6, <1>7, <1>8, <1>9, <1>10, <1>11, <1>12, <1>13, <1>14, <1>15, <1>16, <1>17, <1>18, <1>19, <1>20, <1>21, <1>22, <1>23, <1>24, <1>25, <1>26, <1>27, <1>28, <1>29 DEF Next, Step

\* Wherever a process is about to reject an initial promotion that it might have made, and
\* for good once it is answered as lost, the promotion is out of reach.
InitialFits ==
    /\ \A p \in Procs :
        proc[p].at = "recheck" /\ KindOf[Here(p)] = "initial" => Stable # None
    /\ \A p \in Procs :
        proc[p].at = "reject" /\ KindOf[Here(p)] = "initial" /\ Plan(Here(p)).tag = "do" => Blocked(Here(p))
    /\ \A c \in Commands : KindOf[c] = "initial" /\ ledger[c].answer = Lost => Blocked(c)

\* An initial promotion's proof is the one Blocked speaks of.
LEMMA InitialProof ==
    ASSUME Inv, NEW c \in Commands, KindOf[c] = "initial", Plan(c).tag = "do"
    PROVE  Plan(c).base = None /\ Proof(c, Plan(c)) = <<None, TargetOf[c]>>
<1>1. PlanFits(c, Plan(c))
  BY DEF Inv, RowFits, NoPlan
<1> QED
  BY <1>1 DEF PlanFits, Pointer, BaseFor, Proof

LEMMA InitialProofNext ==
    ASSUME Inv', NEW c \in Commands, KindOf[c] = "initial", Plan(c)'.tag = "do"
    PROVE  Proof(c, Plan(c))' = <<None, TargetOf[c]>>
<1>1. PlanFits(c, Plan(c))'
  BY DEF Inv, RowFits, NoPlan
<1> QED
  BY <1>1 DEF PlanFits, Pointer, BaseFor, Proof

LEMMA InitialStep ==
    ASSUME Inv, InitialFits, [Next]_vars
    PROVE  InitialFits'
<1>a. ProcShape /\ \A p \in Procs : Ready(p)
  BY DEF Inv, Shape
<1>w. workload \subseteq Commands
  BY WorkloadOfCommands DEF Inv
<1>k. PlansKept
  BY LedgerStep
<1>1. ASSUME NEW q \in Procs, proc'[q].at \in {"recheck", "reject"}, KindOf[Here(q)'] = "initial",
             proc'[q].at = "reject" => Plan(Here(q))'.tag = "do"
      PROVE  Stable' # None /\ (proc'[q].at = "reject" => Blocked(Here(q))')
  <2>1. CASE proc'[q] = proc[q]
    <3>1. PICK c \in Commands : c = Here(q) /\ Here(q)' = c /\ Plan(c) # NoPlan
      BY <1>1, <1>a, <1>w, <2>1 DEF Ready, Onward, Here
    <3>2. Plan(c)' = Plan(c)
      BY <1>k, <3>1 DEF PlansKept
    <3>3. CASE proc[q].at = "recheck"
      <4>1. Stable # None
        BY <1>1, <2>1, <3>1, <3>3 DEF InitialFits
      <4> QED
        BY <2>1, <3>3, <4>1, StaysStable
    <3>4. CASE proc[q].at = "reject"
      <4>0. Plan(c)'.tag = "do"
        BY <1>1, <2>1, <3>1, <3>4
      <4>1. Blocked(c) /\ KindOf[c] = "initial"
        BY <1>1, <2>1, <3>1, <3>2, <3>4, <4>0 DEF InitialFits
      <4>2. Blocked(c)'
        BY <4>1, StaysBlocked
      <4>3. Stable' # None
        BY <4>1, StaysStable DEF Blocked
      <4> QED
        BY <3>1, <4>2, <4>3
    <3> QED
      BY <1>1, <2>1, <3>3, <3>4
  <2>2. CASE proc'[q] # proc[q]
    <3>1. PICK c \in Commands : c = Here(q) /\ Here(q)' = c /\ KindOf[c] = "initial"
      BY <1>1, <2>2, IntoRejection
    <3>2. CASE CompareStable(q) \/ SwapStable(q)
      <4>1. Plan(c).tag = "do" /\ Plan(c) # NoPlan
        BY <1>a, <3>1, <3>2 DEF CompareStable, SwapStable, Busy, Ready, Onward
      <4>2. proc'[q].at = "recheck" /\ Stable # Plan(c).base /\ UNCHANGED store
        BY <1>1, <1>a, <3>1, <3>2 DEF CompareStable, SwapStable, OffBaseline, MaySwap, Applied, Goto, ProcShape
      <4>3. Stable # None
        BY <3>1, <4>1, <4>2, InitialProof
      <4> QED
        BY <4>2, <4>3 DEF Stable
    <3>3. CASE RecheckReceipt(q)
      <4>1. Plan(c).tag = "do" /\ Plan(c) # NoPlan
        BY <1>a, <3>1, <3>3 DEF RecheckReceipt, Busy, Ready, Onward
      <4>2. proc'[q].at = "reject" /\ ~ Used(Proof(c, Plan(c))) /\ UNCHANGED store
        BY <1>1, <1>a, <3>1, <3>3 DEF RecheckReceipt, Applied, Goto, ProcShape
      <4>3. Stable # None
        BY <3>1, <3>3 DEF InitialFits, RecheckReceipt, Busy
      <4>4. Blocked(c)
        BY <3>1, <4>1, <4>2, <4>3, InitialProof DEF Blocked
      <4>5. Blocked(c)' /\ Stable' # None
        BY <3>1, <4>3, <4>4, StaysBlocked, StaysStable
      <4> QED
        BY <3>1, <4>5
    <3>4. CASE Plan(c)'.tag = "refuse"
      <4>1. proc'[q].at = "recheck"
        BY <1>1, <3>1, <3>4
      <4>2. AllReady'
        BY ProcStep
      <4> QED
        BY <3>1, <3>4, <4>1, <4>2 DEF AllReady, Ready, Onward
    <3> QED
      BY <2>2, <1>1, <3>1, <3>2, <3>3, <3>4, IntoRejection
  <2> QED
    BY <2>1, <2>2
<1>2. ASSUME NEW c \in Commands, KindOf[c] = "initial", ledger'[c].answer = Lost
      PROVE  Blocked(c)'
  <2>1. Blocked(c)
    <3>1. CASE ledger[c].answer = Lost
      BY <1>2, <3>1 DEF InitialFits
    <3>2. CASE ledger[c].answer # Lost
      <4>1. Grounds(c, Lost)
        BY <1>2, <3>2, AnswerStep DEF Silence, Tells, Answers
      <4>2. Plan(c).tag # "refuse"
        <5>1. ~ (\E d \in Commands : Tells(d)) /\ ~ Silence
          BY <1>2, <3>2 DEF Silence, Tells
        <5>2. Plan(c)' = Plan(c) /\ RowFits(c)'
          BY <1>2, <5>1, AnswerStep, StepInv DEF Answers, Inv
        <5>3. Plan(c).tag = "refuse" => Plan(c).to \in Reasons
          BY DEF Inv, RowFits, PlanFits, NoPlan
        <5> QED
          BY <1>2, <5>2, <5>3, NoneAssumption DEF RowFits, Responses, Reasons, Lost, Committed, Beaten
      <4>3. PICK q \in Procs : proc[q].at = "reject" /\ Here(q) = c /\ Plan(c).tag = "do"
        BY <4>1, <4>2 DEF Grounds, Beaten, Lost, Committed
      <4> QED
        BY <1>2, <4>3 DEF InitialFits
    <3> QED
      BY <3>1, <3>2
  <2> QED
    BY <1>2, <2>1, StaysBlocked
<1> QED
  BY <1>1, <1>2 DEF InitialFits

(***************************************************************************)
(* The refinement.                                                         *)
(***************************************************************************)
\* A promotion or a rollback that is answered as lost.
Overtaken(d, r) == r = Lost /\ KindOf[d] \in {"promote", "rollback"}

LEMMA CommandStep ==
    ASSUME InitialFits, Inv, [Next]_vars
    PROVE  [Law!Next]_Law!lawVars
<1>p. ASSUME NEW d \in Commands, KindOf[d] \in Pointer, NEW r \in Responses, Answers(d, r), r # Committed
      PROVE  ~ Done(d) \/ Overtaken(d, r)
  <2>1. \/ Plan(d).tag = "refuse"
        \/ r = Lost /\ Plan(d).tag = "do" /\ \E q \in Procs : proc[q].at = "reject" /\ Here(q) = d
    BY <1>p DEF Answers, Grounds, Beaten
  <2>2. CASE Plan(d).tag = "refuse"
    BY <2>2 DEF Done
  <2>3. CASE Plan(d).tag = "do" /\ KindOf[d] = "initial" /\ \E q \in Procs : proc[q].at = "reject" /\ Here(q) = d
    <3>1. Blocked(d)
      BY <2>3 DEF InitialFits
    <3> QED
      BY <2>3, <3>1, InitialProof DEF Blocked, Done
  <2> QED
    BY <1>p, <2>1, <2>2, <2>3 DEF Overtaken, Pointer
<1>l. ASSUME NEW d \in Commands, KindOf[d] = "initial", ledger[d].answer = Lost PROVE ~ Done(d)'
  <2>1. Blocked(d)'
    BY <1>l, StaysBlocked DEF InitialFits
  <2>2. Done(d)' => Plan(d)'.tag = "do" /\ Used(Proof(d, Plan(d)))'
    BY <1>l DEF Done
  <2>3. Plan(d)'.tag = "do" => Proof(d, Plan(d))' = <<None, TargetOf[d]>>
    BY <1>l, StepInv, InitialProofNext
  <2> QED
    BY <2>1, <2>2, <2>3 DEF Blocked, Used
<1>k. \A d \in Commands : Done(d) => Done(d)'
  BY StoreStep, LedgerStep, Keeps
<1>1. CASE Silence
  <2>1. [c \in Commands |-> ledger[c].answer]' = [c \in Commands |-> ledger[c].answer]
    BY <1>1 DEF Silence
  <2>2. heard' = heard
    BY <1>1 DEF Silence
  <2>3. {c \in Commands : Done(c)} \subseteq {c \in Commands : Done(c)}'
    BY <1>k
  <2>4. ASSUME NEW d \in Commands, ~ Done(d), Done(d)'
        PROVE  \/ ledger[d].answer = None \/ (ledger[d].answer = Committed /\ KindOf[d] = "resume")
               \/ Overtaken(d, ledger[d].answer)
    BY <1>l, <2>4, NewlyDone DEF Overtaken, Pointer
  <2> QED
    BY <2>1, <2>2, <2>3, <2>4 DEF Law!Next, Law!Mutate, Overtaken
<1>2. ASSUME NEW c \in Commands, Tells(c) PROVE [Law!Next]_Law!lawVars
  <2>1. [d \in Commands |-> ledger[d].answer]' = [d \in Commands |-> ledger[d].answer]
    BY <1>2 DEF Tells
  <2>2. {d \in Commands : Done(d)}' = {d \in Commands : Done(d)}
    <3>1. \A d \in Commands : Done(d)' <=> Done(d)
      BY <1>2 DEF Tells, Done, Plan, Used, Proof
    <3> QED
      BY <3>1
  <2> QED
    BY <1>2, <2>1, <2>2 DEF Tells, Law!Next, Law!Tell
<1>3. ASSUME NEW c \in Commands, NEW r \in Responses, Answers(c, r) PROVE [Law!Next]_Law!lawVars
  <2>1. \A d \in Commands : Done(d)' <=> Done(d)
    BY <1>3 DEF Answers, Done, Used, Proof
  <2>2. {d \in Commands : Done(d)}' = {d \in Commands : Done(d)}
    BY <2>1
  <2>3. [d \in Commands |-> ledger[d].answer]' = [[d \in Commands |-> ledger[d].answer] EXCEPT ![c] = r]
    BY <1>3 DEF Answers
  <2>4. (r = Committed => Done(c) \/ KindOf[c] = "resume") /\ (r # Committed => ~ Done(c) \/ Overtaken(c, r))
    BY <1>3, <1>p, NotDone DEF Answers, Grounds, Settled, Lost, Committed
  <2> QED
    BY <1>3, <2>2, <2>3, <2>4 DEF Answers, Law!Next, Law!Answer, Overtaken
<1> QED
  BY <1>1, <1>2, <1>3, AnswerStep

\* Of all the commands, promotions of every kind and rollbacks among them, whatever moves
\* the pointer meanwhile: the ledger and the domain tables implement the command law.
THEOREM CommandsObeyLaw == Spec => ImplementsCommandLaw
<1> DEFINE PInv == Inv /\ InitialFits
<1>1. Init => PInv /\ Law!Init
  <2>1. SUFFICES ASSUME Init PROVE PInv /\ Law!Init
    OBVIOUS
  <2>2. [c \in Commands |-> ledger[c].answer] = [c \in Commands |-> None]
    BY <2>1 DEF Init, NoClaim
  <2>3. \A c \in Commands : ledger[c].answer = None /\ Plan(c).tag # "do"
    BY <2>1 DEF Init, NoClaim, NoPlan, Plan
  <2>4. Law!Init
    BY <2>1, <2>2, <2>3 DEF Init, Law!Init, Done
  <2>5. \A p \in Procs : proc[p].at = "idle"
    BY <2>1 DEF Init, Idle
  <2>6. InitialFits
    BY <2>3, <2>5, NoneAssumption DEF InitialFits, Responses
  <2> QED
    BY <2>1, <2>4, <2>6, InitInv
<1>2. PInv /\ [Next]_vars => PInv' /\ [Law!Next]_Law!lawVars
  BY StepInv, InitialStep, CommandStep
<1> QED
  BY <1>1, <1>2, PTL DEF Spec, ImplementsCommandLaw, Law!Spec
=============================================================================
