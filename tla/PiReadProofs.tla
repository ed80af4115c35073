---------------------------- MODULE PiReadProofs ----------------------------
(***************************************************************************)
(* Theorems about PiRead and the contained workspace under it, for every   *)
(* list of operations, every client, every disposition and trouble, and    *)
(* any number of attempts of a ref transaction.                            *)
(*                                                                         *)
(* Custody is an argument about one lock.  A party removes a payload only  *)
(* while its descriptor is the only one on the guard (Removing,            *)
(* PartiesExclude), and whatever still works on the payload shares the     *)
(* guard: the host by its own descriptor while an operation is under way   *)
(* (Working), its process by the one it inherited (Mounted).  A closed     *)
(* acquisition is entered by nobody, so what was quiet stays quiet.        *)
(*                                                                         *)
(* A success is an argument about the decoder.  As long as it has not      *)
(* stopped on damage or a refusal, its fields stand for the records it was *)
(* fed (Tells), and an exchange that is settled, final and accepted in     *)
(* that sense is a whole one.                                              *)
(***************************************************************************)
EXTENDS PiRead, FiniteSetTheorems, TLAPS

Children == {"none", "peer", "stage", "capture", "export", "import", "reset"}
Descriptors == {"task", "child", "close", "next"}
HostFields == {"at", "todo", "oid", "returned", "open", "ready", "shut", "executed", "poisoned"}
PartyFields == {"at", "acq", "todo", "tries", "seen"}

HostTypes ==
    /\ world \in Worlds
    /\ DOMAIN h = HostFields
    /\ child \in Children
LockTypes ==
    /\ guard \in [Acqs -> SUBSET Descriptors]
    /\ payload \in [Acqs -> {"none", "made", "gone"}]
    /\ closed \in [Acqs -> BOOLEAN]
PartyTypes ==
    /\ DOMAIN c = Parties
    /\ \A x \in Parties :
         DOMAIN c[x] = PartyFields /\ c[x].todo \in Seq(Acqs) /\ (c[x].at # "idle" => c[x].acq \in Acqs)

\* Places of the host at which the workspace's directory is being worked on.
OnPayload == {"stage", "waiting", "capture", "export", "import", "reset"}

\* The host's descriptor is on the workspace's guard during an operation, and the payload is there.
Working ==
    /\ h.at \in OnPayload \cup {"opened", "used"} => "task" \in guard["w"]
    /\ h.at \in OnPayload => payload["w"] = "made"

\* An operation of a WRITE workspace is a reset or a capture.
OperationFits == ~ Pi /\ h.at \in {"using", "used"} => Head(h.todo) \in {"reset", "capture"}

\* A process holds the guards of what it works on, and the payload is there.
Mounted ==
    /\ child # "none" => payload["w"] = "made" /\ \A a \in Mounts(child) : "child" \in guard[a]
    /\ "child" \in guard["w"] => child # "none"

\* A party's descriptor is alone on a guard, and only where the party removes a revoked payload.
PartiesExclude ==
    \A a \in Acqs, x \in Parties :
        x \in guard[a] => guard[a] = {x} /\ closed[a] /\ c[x].at = "remove" /\ c[x].acq = a

\* A party that is about to remove has the guard, unless its host died.
Removing == \A x \in Parties : c[x].at = "remove" /\ Runs(x) => guard[c[x].acq] = {x}

\* The guard is waited for behind the closure, and a reported disposal is quiet.
DisposedFirst ==
    \A x \in Parties :
        /\ c[x].at \in {"guard", "remove", "done"} => closed[c[x].acq]
        /\ c[x].at = "done" => "child" \notin guard[c[x].acq] /\ payload[c[x].acq] # "made"

Custody ==
    /\ HostTypes /\ LockTypes /\ PartyTypes /\ Working /\ OperationFits
    /\ Mounted /\ PartiesExclude /\ Removing /\ DisposedFirst

-----------------------------------------------------------------------------
(***************************************************************************)
(* Steps, by what they do to the locks.                                    *)
(***************************************************************************)
\* The host moves to a place that claims nothing, or to the start of an operation.
HostMoves ==
    /\ world' = world /\ DOMAIN h' = HostFields
    /\ h'.at # "dead" => h.at # "dead"
    /\ \/ h'.at = h.at /\ h'.todo = h.todo
       \/ h'.at \notin OnPayload \cup {"opened", "used", "using"}
       \/ h'.at = "using" /\ (Pi \/ Head(h'.todo) \in {"reset", "capture"})

\* Such a move, with the locks as they were.
LEMMA Quiet ==
  ASSUME Custody, HostMoves, UNCHANGED <<child, guard, payload, closed, c>>
  PROVE  Custody'
  <1> USE DEF Custody, HostMoves
  <1>1. HostTypes' /\ LockTypes' /\ PartyTypes'
    BY DEF HostTypes, LockTypes, PartyTypes
  <1>2. Working' /\ OperationFits'
    BY DEF Working, OperationFits, Pi, OnPayload
  <1>3. Mounted' /\ PartiesExclude' /\ Removing' /\ DisposedFirst'
    BY DEF Mounted, Mounts, PartiesExclude, Removing, DisposedFirst, Runs, Alive
  <1> QED BY <1>1, <1>2, <1>3

\* A host's descriptor leaves a guard; the host is at a place that does not need it.
LEMMA Unlocking ==
  ASSUME Custody, HostMoves, NEW a \in Acqs, guard' = Unlocked(a, "task"),
         a = "w" => h'.at \notin OnPayload \cup {"opened", "used"},
         UNCHANGED <<child, payload, closed, c>>
  PROVE  Custody'
  <1> USE DEF Custody, HostMoves
  <1>1. guard' = [guard EXCEPT ![a] = @ \ {"task"}]
    BY DEF Unlocked
  <1>2. HostTypes' /\ LockTypes' /\ PartyTypes'
    BY <1>1 DEF HostTypes, LockTypes, PartyTypes
  <1>3. Working' /\ OperationFits'
    BY <1>1 DEF Working, OperationFits, Pi, OnPayload, LockTypes, Acqs
  <1>4. /\ \A b \in Acqs : guard'[b] \subseteq guard[b] /\ ("child" \in guard[b] => "child" \in guard'[b])
        /\ \A b \in Acqs, x \in Parties : guard[b] = {x} => guard'[b] = {x}
    BY <1>1 DEF LockTypes, Parties
  <1>5. Mounted'
    BY <1>4 DEF Mounted, Mounts, Acqs
  <1>6. PartiesExclude'
    BY <1>4 DEF PartiesExclude
  <1>7. Removing'
    BY <1>4 DEF Removing, Runs, Alive, PartyTypes
  <1>8. DisposedFirst'
    BY <1>4 DEF DisposedFirst, PartyTypes
  <1> QED BY <1>2, <1>3, <1>5, <1>6, <1>7, <1>8

\* The host takes a guard that nobody holds.
LEMMA Locking ==
  ASSUME Custody, NEW a \in Acqs, NEW to, Lock(a, "task"), Goes(to), h.at # "dead",
         to \notin OnPayload \cup {"using", "dead"}, to \in {"opened", "used"} => a = "w",
         to = "used" => h.at = "using",
         UNCHANGED <<world, child, payload, closed, c>>
  PROVE  Custody'
  <1> USE DEF Custody
  <1>1. guard[a] = {} /\ guard' = [guard EXCEPT ![a] = {"task"}]
    BY DEF Lock
  <1>2. h'.at = to /\ h'.todo = h.todo /\ DOMAIN h' = HostFields
    BY DEF Goes, HostTypes, HostFields
  <1>3. HostTypes' /\ LockTypes' /\ PartyTypes'
    BY <1>1, <1>2 DEF HostTypes, LockTypes, PartyTypes, Descriptors
  <1>4. Working' /\ OperationFits'
    BY <1>1, <1>2 DEF Working, OperationFits, Pi, OnPayload, LockTypes, Acqs
  <1>5. /\ \A b \in Acqs : b # a => guard'[b] = guard[b]
        /\ guard'[a] = {"task"}
    BY <1>1 DEF LockTypes
  <1>6. Mounted'
    BY <1>1, <1>5 DEF Mounted, Mounts, Acqs
  <1>7. PartiesExclude'
    BY <1>1, <1>5 DEF PartiesExclude, Parties
  <1>8. Removing'
    <2>1. \A x \in Parties : c[x].at = "remove" => c[x].acq \in Acqs
      BY DEF PartyTypes
    <2> QED BY <1>1, <1>2, <1>5, <2>1 DEF Removing, Runs, Alive
  <1>9. DisposedFirst'
    BY <1>1, <1>5 DEF DisposedFirst, PartyTypes
  <1> QED BY <1>3, <1>4, <1>6, <1>7, <1>8, <1>9

\* A process starts on acquisitions that are open, or on the workspace during an operation of
\* the host, whose payload is there.
LEMMA Spawning ==
  ASSUME Custody, NEW kind \in Children \ {"none"}, Spawned(kind),
         payload'["w"] = "made", payload' = [payload EXCEPT !["w"] = "made"],
         \A a \in Mounts(kind) : ~ closed[a] \/ (a = "w" /\ h.at \in OnPayload),
         h.at \in OnPayload \cup {"opened", "used"}, DOMAIN h' = HostFields, h'.todo = h.todo,
         h'.at \in {"waiting", "talking"},
         UNCHANGED <<world, closed, c>>
  PROVE  Custody'
  <1> USE DEF Custody
  <1>1. child' = kind /\ guard' = [a \in Acqs |-> IF a \in Mounts(kind) THEN guard[a] \cup {"child"} ELSE guard[a]]
    BY DEF Spawned
  <1>2. "task" \in guard["w"] /\ "w" \in Acqs
    BY DEF Working, Acqs
  <1>3. Mounts(kind) \subseteq Acqs /\ "w" \in Mounts(kind)
    BY DEF Mounts, Acqs
  <1>4. HostTypes' /\ LockTypes' /\ PartyTypes'
    BY <1>1 DEF HostTypes, LockTypes, PartyTypes, Descriptors
  <1>5. Working' /\ OperationFits'
    BY <1>1, <1>2, <1>3 DEF Working, OperationFits, OnPayload
  <1>6. Mounted'
    BY <1>1, <1>3 DEF Mounted
  <1>7. ASSUME NEW a \in Mounts(kind), NEW x \in Parties PROVE x \notin guard[a]
    <2>1. x # "task"
      BY DEF Parties
    <2> QED BY <1>2, <1>3, <2>1 DEF PartiesExclude
  <1>8. PartiesExclude'
    <2> SUFFICES ASSUME NEW a \in Acqs, NEW x \in Parties, x \in guard'[a]
                 PROVE  guard'[a] = {x} /\ closed[a] /\ c[x].at = "remove" /\ c[x].acq = a
      BY DEF PartiesExclude
    <2>1. x # "child"
      BY DEF Parties
    <2>2. x \in guard[a] /\ a \notin Mounts(kind)
      BY <1>1, <1>7, <2>1
    <2> QED BY <1>1, <2>2 DEF PartiesExclude
  <1>9. Removing'
    <2> SUFFICES ASSUME NEW x \in Parties, c[x].at = "remove", Runs(x)'
                 PROVE  guard'[c[x].acq] = {x}
      BY DEF Removing
    <2>1. Runs(x)
      BY DEF Runs, Alive, OnPayload
    <2>2. guard[c[x].acq] = {x} /\ c[x].acq \in Acqs
      BY <2>1 DEF Removing, PartyTypes
    <2> QED BY <1>1, <1>7, <2>2
  <1>10. DisposedFirst'
    <2> SUFFICES ASSUME NEW x \in Parties
                 PROVE  /\ c[x].at \in {"guard", "remove", "done"} => closed[c[x].acq]
                        /\ c[x].at = "done" => "child" \notin guard'[c[x].acq] /\ payload'[c[x].acq] # "made"
      BY DEF DisposedFirst
    <2>1. c[x].at = "done" => c[x].acq \in Acqs \ Mounts(kind)
      BY <1>3 DEF DisposedFirst, PartyTypes, Working
    <2> QED BY <1>1, <1>3, <2>1 DEF DisposedFirst, LockTypes
  <1> QED BY <1>4, <1>5, <1>6, <1>8, <1>9, <1>10

\* A process ends, and its descriptors with it.
LEMMA Reaping ==
  ASSUME Custody, Reaped, DOMAIN h' = HostFields, h'.todo = h.todo, h'.at # "dead" => h.at # "dead",
         \/ h'.at = h.at
         \/ h.at = "waiting" /\ h'.at \in OnPayload
         \/ h'.at \notin OnPayload \cup {"opened", "used", "using"},
         UNCHANGED <<world, payload, closed, c>>
  PROVE  Custody'
  <1> USE DEF Custody
  <1>1. child' = "none" /\ guard' = [a \in Acqs |-> guard[a] \ {"child"}]
    BY DEF Reaped
  <1>2. HostTypes' /\ LockTypes' /\ PartyTypes'
    BY <1>1 DEF HostTypes, LockTypes, PartyTypes, Children
  <1>3. Working' /\ OperationFits'
    BY <1>1 DEF Working, OperationFits, OnPayload, Pi, Acqs
  <1>4. Mounted'
    BY <1>1 DEF Mounted, Acqs
  <1>5. /\ \A b \in Acqs : guard'[b] \subseteq guard[b]
        /\ \A b \in Acqs, x \in Parties : guard[b] = {x} => guard'[b] = {x}
    BY <1>1 DEF Parties
  <1>6. PartiesExclude'
    BY <1>5 DEF PartiesExclude
  <1>7. Removing'
    BY <1>5 DEF Removing, Runs, Alive, PartyTypes
  <1>8. DisposedFirst'
    BY <1>5 DEF DisposedFirst, PartyTypes
  <1> QED BY <1>2, <1>3, <1>4, <1>6, <1>7, <1>8

\* A party goes on between two of its places that hold no guard; a close that has joined its
\* task releases the task's guard.
LEMMA PartyMoves ==
  ASSUME Custody, NEW x \in Parties, UNCHANGED <<world, child, payload>>,
         guard' = guard \/ guard' = Unlocked("p", "task"),
         DOMAIN h' = HostFields, h'.at = h.at, h'.todo = h.todo,
         DOMAIN c' = Parties, DOMAIN c'[x] = PartyFields, \A y \in Parties : y # x => c'[y] = c[y],
         c[x].at # "remove", c'[x].at \notin {"remove", "done"}, c'[x].acq \in Acqs,
         c'[x].todo \in Seq(Acqs),
         closed' \in [Acqs -> BOOLEAN], \A a \in Acqs : closed[a] => closed'[a],
         c'[x].at = "guard" => closed'[c'[x].acq]
  PROVE  Custody'
  <1> USE DEF Custody
  <1>1. /\ guard' \in [Acqs -> SUBSET Descriptors]
        /\ guard'["w"] = guard["w"]
        /\ \A b \in Acqs : guard'[b] \subseteq guard[b] /\ ("child" \in guard[b] => "child" \in guard'[b])
        /\ \A b \in Acqs, y \in Parties : guard[b] = {y} => guard'[b] = {y}
    BY DEF Unlocked, LockTypes, Parties, Acqs
  <1>2. HostTypes' /\ LockTypes' /\ PartyTypes'
    BY <1>1 DEF HostTypes, LockTypes, PartyTypes
  <1>3. Working' /\ OperationFits'
    BY <1>1 DEF Working, OperationFits, OnPayload, Pi
  <1>4. Mounted'
    BY <1>1 DEF Mounted, Mounts, Acqs
  <1>5. PartiesExclude'
    <2> SUFFICES ASSUME NEW a \in Acqs, NEW y \in Parties, y \in guard'[a]
                 PROVE  guard'[a] = {y} /\ closed'[a] /\ c'[y].at = "remove" /\ c'[y].acq = a
      BY DEF PartiesExclude
    <2>1. guard[a] = {y} /\ closed[a] /\ c[y].at = "remove" /\ c[y].acq = a
      BY <1>1 DEF PartiesExclude
    <2> QED BY <1>1, <2>1
  <1>6. Removing'
    <2> SUFFICES ASSUME NEW y \in Parties, c'[y].at = "remove", Runs(y)'
                 PROVE  guard'[c'[y].acq] = {y}
      BY DEF Removing
    <2>1. c'[y] = c[y] /\ Runs(y)
      BY DEF Runs, Alive
    <2>2. guard[c[y].acq] = {y} /\ c[y].acq \in Acqs
      BY <2>1 DEF Removing, PartyTypes
    <2> QED BY <1>1, <2>1, <2>2
  <1>7. DisposedFirst'
    BY <1>1 DEF DisposedFirst, PartyTypes
  <1> QED BY <1>2, <1>3, <1>4, <1>5, <1>6, <1>7

\* A party that revoked its acquisition gets the guard once nobody works on it.
LEMMA Guarding ==
  ASSUME Custody, NEW x \in Parties, DisposeGuard(x), UNCHANGED world
  PROVE  Custody'
  <1> USE DEF Custody
  <1> DEFINE a == c[x].acq
  <1>1. /\ Runs(x) /\ c[x].at = "guard" /\ UNCHANGED <<h, child, payload, closed>>
        /\ guard[a] = {} /\ guard' = [guard EXCEPT ![a] = {x}]
        /\ c' = [c EXCEPT ![x].at = "remove"]
    BY DEF DisposeGuard, Lock, Party
  <1>2. a \in Acqs /\ closed[a]
    BY <1>1 DEF PartyTypes, DisposedFirst
  <1>3. /\ DOMAIN c' = Parties /\ c'[x].at = "remove" /\ c'[x].acq = a /\ c'[x].todo = c[x].todo /\ DOMAIN c'[x] = PartyFields
        /\ \A y \in Parties : y # x => c'[y] = c[y]
    BY <1>1 DEF PartyTypes, PartyFields
  <1> HIDE DEF a
  <1>4. guard'[a] = {x} /\ \A b \in Acqs : b # a => guard'[b] = guard[b]
    BY <1>1, <1>2 DEF LockTypes
  <1>5. HostTypes' /\ LockTypes' /\ PartyTypes'
    BY <1>1, <1>2, <1>3 DEF HostTypes, LockTypes, PartyTypes, Descriptors, Parties
  <1>6. Working' /\ OperationFits'
    BY <1>1, <1>2, <1>4 DEF Working, OperationFits, OnPayload, Pi, Acqs
  <1>7. Mounted'
    BY <1>1, <1>2, <1>4 DEF Mounted, Mounts, Acqs, Parties
  <1>8. PartiesExclude'
    <2> SUFFICES ASSUME NEW b \in Acqs, NEW y \in Parties, y \in guard'[b]
                 PROVE  guard'[b] = {y} /\ closed[b] /\ c'[y].at = "remove" /\ c'[y].acq = b
      BY <1>1 DEF PartiesExclude
    <2>1. CASE b = a
      BY <2>1, <1>2, <1>3, <1>4
    <2>2. CASE b # a
      <3>1. guard[b] = {y} /\ closed[b] /\ c[y].at = "remove" /\ c[y].acq = b
        BY <2>2, <1>4 DEF PartiesExclude
      <3> QED BY <3>1, <2>2, <1>1, <1>3, <1>4
    <2> QED BY <2>1, <2>2
  <1>9. Removing'
    <2>1. \A y \in Parties : c[y].at = "remove" => c[y].acq \in Acqs
      BY DEF PartyTypes
    <2> QED BY <1>1, <1>2, <1>3, <1>4, <2>1 DEF Removing, Runs, Alive
  <1>10. DisposedFirst'
    <2> SUFFICES ASSUME NEW y \in Parties
                 PROVE  /\ c'[y].at \in {"guard", "remove", "done"} => closed[c'[y].acq]
                        /\ c'[y].at = "done" => "child" \notin guard'[c'[y].acq] /\ payload[c'[y].acq] # "made"
      BY <1>1 DEF DisposedFirst
    <2>1. x # "child"
      BY DEF Parties
    <2> QED BY <2>1, <1>2, <1>3, <1>4 DEF DisposedFirst, PartyTypes
  <1> QED BY <1>5, <1>6, <1>7, <1>8, <1>9, <1>10

\* Alone on the guard, it removes the payload and reports.
LEMMA RemovalKeeps ==
  ASSUME Custody, NEW x \in Parties, RemovePayload(x), UNCHANGED world
  PROVE  Custody'
  <1> USE DEF Custody
  <1> DEFINE a == c[x].acq
  <1>1. /\ Runs(x) /\ c[x].at = "remove" /\ UNCHANGED <<h, child, closed>>
        /\ guard' = [guard EXCEPT ![a] = @ \ {x}]
        /\ payload' = [payload EXCEPT ![a] = IF @ = "made" THEN "gone" ELSE @]
        /\ c' = [c EXCEPT ![x].at = "done"]
    BY DEF RemovePayload, Unlocked, Party
  <1>2. a \in Acqs /\ closed[a] /\ guard[a] = {x}
    BY <1>1 DEF PartyTypes, DisposedFirst, Removing
  <1>3. /\ DOMAIN c' = Parties /\ c'[x].at = "done" /\ c'[x].acq = a /\ c'[x].todo = c[x].todo /\ DOMAIN c'[x] = PartyFields
        /\ \A y \in Parties : y # x => c'[y] = c[y]
    BY <1>1 DEF PartyTypes, PartyFields
  <1> HIDE DEF a
  <1>4. /\ guard'[a] = {} /\ \A b \in Acqs : b # a => guard'[b] = guard[b] /\ payload'[b] = payload[b]
        /\ payload'[a] # "made" /\ payload' \in [Acqs -> {"none", "made", "gone"}]
    BY <1>1, <1>2 DEF LockTypes
  <1>5. x # "child" /\ x # "task"
    BY DEF Parties
  <1>6. HostTypes' /\ LockTypes' /\ PartyTypes'
    BY <1>1, <1>2, <1>3, <1>4 DEF HostTypes, LockTypes, PartyTypes
  <1>7. Working' /\ OperationFits'
    BY <1>1, <1>2, <1>4, <1>5 DEF Working, OperationFits, OnPayload, Pi, Acqs
  <1>8. Mounted'
    BY <1>1, <1>2, <1>4, <1>5 DEF Mounted, Mounts, Acqs
  <1>9. PartiesExclude'
    <2> SUFFICES ASSUME NEW b \in Acqs, NEW y \in Parties, y \in guard'[b]
                 PROVE  guard'[b] = {y} /\ closed[b] /\ c'[y].at = "remove" /\ c'[y].acq = b
      BY <1>1 DEF PartiesExclude
    <2>1. b # a
      BY <1>4
    <2>2. guard[b] = {y} /\ closed[b] /\ c[y].at = "remove" /\ c[y].acq = b
      BY <2>1, <1>4 DEF PartiesExclude
    <2>3. y # x
      BY <2>1, <2>2 DEF a
    <2> QED BY <2>1, <2>2, <2>3, <1>3, <1>4
  <1>10. Removing'
    <2> SUFFICES ASSUME NEW y \in Parties, c'[y].at = "remove", Runs(y)'
                 PROVE  guard'[c'[y].acq] = {y}
      BY DEF Removing
    <2>1. y # x /\ c'[y] = c[y] /\ Runs(y)
      BY <1>1, <1>3 DEF Runs, Alive
    <2>2. guard[c[y].acq] = {y} /\ c[y].acq \in Acqs
      BY <2>1 DEF Removing, PartyTypes
    <2>3. c[y].acq # a
      BY <2>1, <2>2, <1>2
    <2> QED BY <2>1, <2>2, <2>3, <1>4
  <1>11. DisposedFirst'
    <2> SUFFICES ASSUME NEW y \in Parties
                 PROVE  /\ c'[y].at \in {"guard", "remove", "done"} => closed[c'[y].acq]
                        /\ c'[y].at = "done" => "child" \notin guard'[c'[y].acq] /\ payload'[c'[y].acq] # "made"
      BY <1>1 DEF DisposedFirst
    <2>1. CASE y = x
      BY <2>1, <1>2, <1>3, <1>4
    <2>2. CASE y # x
      BY <2>2, <1>3, <1>4 DEF DisposedFirst, PartyTypes
    <2> QED BY <2>1, <2>2
  <1> QED BY <1>6, <1>7, <1>8, <1>9, <1>10, <1>11

\* The host dies: its descriptors go, and its process keeps its own.
LEMMA CrashKeeps ==
  ASSUME Custody, Crash, UNCHANGED world
  PROVE  Custody'
  <1> USE DEF Custody
  <1>1. /\ h' = [h EXCEPT !.at = "dead"] /\ UNCHANGED <<child, payload, closed, c>>
        /\ guard' = [a \in Acqs |-> guard[a] \ {"task", "close"}]
    BY DEF Crash, Goes
  <1>2. h'.at = "dead" /\ h'.todo = h.todo /\ DOMAIN h' = HostFields
    BY <1>1 DEF HostTypes, HostFields
  <1>3. HostTypes' /\ LockTypes' /\ PartyTypes'
    BY <1>1, <1>2 DEF HostTypes, LockTypes, PartyTypes
  <1>4. Working' /\ OperationFits'
    BY <1>2 DEF Working, OperationFits, OnPayload
  <1>5. /\ \A b \in Acqs : guard'[b] \subseteq guard[b] /\ ("child" \in guard[b] => "child" \in guard'[b])
        /\ \A b \in Acqs : guard[b] = {"next"} => guard'[b] = {"next"}
        /\ \A b \in Acqs : "close" \notin guard'[b]
    BY <1>1
  <1>6. Mounted'
    BY <1>1, <1>5 DEF Mounted, Mounts, Acqs
  <1>7. PartiesExclude'
    BY <1>1, <1>5 DEF PartiesExclude, Parties
  <1>8. Removing'
    BY <1>1, <1>2, <1>5 DEF Removing, Runs, Alive, PartyTypes, Parties
  <1>9. DisposedFirst'
    BY <1>1, <1>5 DEF DisposedFirst, PartyTypes
  <1> QED BY <1>3, <1>4, <1>6, <1>7, <1>8, <1>9

-----------------------------------------------------------------------------
(***************************************************************************)
(* The actions.                                                            *)
(***************************************************************************)
\* A host that goes somewhere keeps its shape.
LEMMA GoesTo ==
  ASSUME HostTypes, NEW to, Goes(to)
  PROVE  h'.at = to /\ h'.todo = h.todo /\ h'.oid = h.oid /\ h'.returned = h.returned /\ DOMAIN h' = HostFields
  BY DEF HostTypes, HostFields, Goes

\* The workspace's steps that touch no lock.
LEMMA WorkspaceQuiet ==
  ASSUME Custody, UNCHANGED world,
         EnterWorkspace \/ Edit \/ Begin \/ ResetDone \/ Publish \/ PublishReads \/ Published \/ Finish
  PROVE  Custody'
  <1> USE DEF Custody
  <1>1. UNCHANGED <<child, guard, payload, closed, c>>
    BY DEF EnterWorkspace, Edit, Begin, ResetDone, Publish, PublishReads, Published, Finish, workVars
  <1>2. HostMoves
    <2>1. CASE EnterWorkspace
      <3>1. At("acquired") /\ (Goes("failing") \/ Goes("opening"))
        BY <2>1 DEF EnterWorkspace
      <3> QED BY <3>1, GoesTo DEF HostMoves, HostTypes, OnPayload, At
    <2>2. CASE Edit
      <3>1. h.at = "ready" /\ h' = [h EXCEPT !.todo = Tail(@)]
        BY <2>2 DEF Edit, At
      <3>2. h'.at = "ready" /\ h'.todo = Tail(h.todo) /\ DOMAIN h' = HostFields
        BY <3>1 DEF HostTypes, HostFields
      <3> QED BY <3>1, <3>2 DEF HostMoves, HostTypes, OnPayload
    <2>3. CASE Begin
      <3>1. h.at = "ready" /\ Head(h.todo) \in {"reset", "capture"} /\ (Goes("using") \/ Goes("failing"))
        BY <2>3 DEF Begin, At
      <3> QED BY <3>1, GoesTo DEF HostMoves, HostTypes, OnPayload
    <2>4. CASE ResetDone
      <3>1. h.at = "reset" /\ (Goes("left") \/ Goes("failing"))
        BY <2>4 DEF ResetDone, At
      <3> QED BY <3>1, GoesTo DEF HostMoves, HostTypes, OnPayload
    <2>5. CASE Publish
      <3>1. h.at = "imported" /\ (Goes("publishing") \/ Goes("failing"))
        BY <2>5 DEF Publish, At
      <3> QED BY <3>1, GoesTo DEF HostMoves, HostTypes, OnPayload
    <2>6. CASE PublishReads
      BY <2>6 DEF PublishReads, HostMoves, HostTypes
    <2>7. CASE Published
      <3>1. h.at = "publishing" /\ (h' = [h EXCEPT !.at = "left", !.returned = h.oid] \/ Goes("failing"))
        BY <2>7 DEF Published, At
      <3>2. h'.at \in {"left", "failing"} /\ h'.todo = h.todo /\ DOMAIN h' = HostFields
        BY <3>1, GoesTo DEF HostTypes, HostFields
      <3> QED BY <3>1, <3>2 DEF HostMoves, HostTypes, OnPayload
    <2>8. CASE Finish
      <3>1. h.at = "ready" /\ Goes("over")
        BY <2>8 DEF Finish, At
      <3> QED BY <3>1, GoesTo DEF HostMoves, HostTypes, OnPayload
    <2> QED BY <2>1, <2>2, <2>3, <2>4, <2>5, <2>6, <2>7, <2>8
  <1> QED BY <1>1, <1>2, Quiet

\* The provider's, the handle's and the conversation's.
LEMMA InvocationQuiet ==
  ASSUME Custody, UNCHANGED world,
         \/ Qualify \/ QualifyAgain \/ Qualified \/ Acquire \/ Materialize \/ Execute \/ ExecuteAgain
         \/ SendState \/ SendPrompt \/ CloseStdin \/ PeerSays \/ PeerTears \/ Interrupt \/ LoseControl
         \/ \E clean \in BOOLEAN : PeerExits(clean)
         \/ \E busy \in BOOLEAN : PublishLands(busy)
  PROVE  Custody'
  <1> USE DEF Custody
  <1>1. UNCHANGED <<child, guard, payload, closed, c>>
    BY DEF Qualify, QualifyAgain, Qualified, Acquire, Materialize, Execute, ExecuteAgain, SendState, SendPrompt,
       CloseStdin, PeerSays, PeerTears, Interrupt, LoseControl, PeerExits, PublishLands, workVars
  <1>2. HostMoves
    <2>1. CASE Qualify \/ Qualified \/ Acquire \/ Interrupt
      <3>1. h.at # "dead" /\ \E to \in {"probing", "over", "qualified", "acquired", "failing"} : Goes(to)
        BY <2>1 DEF Qualify, Qualified, Acquire, Interrupt, Interruptible, At
      <3> QED BY <3>1, GoesTo DEF HostMoves, HostTypes, OnPayload
    <2>2. CASE Materialize
      <3>1. h.at = "ready" /\ h' = [h EXCEPT !.open = ~ h.shut, !.at = IF Held THEN "guarding" ELSE "failing"]
        BY <2>2 DEF Materialize, At
      <3>2. h'.at \in {"guarding", "failing"} /\ h'.todo = h.todo /\ DOMAIN h' = HostFields
        BY <3>1 DEF HostTypes, HostFields
      <3> QED BY <3>1, <3>2 DEF HostMoves, HostTypes, OnPayload
    <2>3. CASE Execute
      <3>1. Pi /\ h.at = "ready" /\ h' = [h EXCEPT !.executed = TRUE, !.at = IF Held /\ Owned THEN "using" ELSE "failing"]
        BY <2>3 DEF Execute, At
      <3>2. h'.at \in {"using", "failing"} /\ h'.todo = h.todo /\ DOMAIN h' = HostFields
        BY <3>1 DEF HostTypes, HostFields
      <3> QED BY <3>1, <3>2 DEF HostMoves, HostTypes, OnPayload
    <2>4. CASE ExecuteAgain
      <3>1. h' = [h EXCEPT !.poisoned = TRUE]
        BY <2>4 DEF ExecuteAgain
      <3>2. h'.at = h.at /\ h'.todo = h.todo /\ DOMAIN h' = HostFields
        BY <3>1 DEF HostTypes, HostFields
      <3> QED BY <3>2 DEF HostMoves, HostTypes
    <2>5. CASE h' = h
      BY <2>5 DEF HostMoves, HostTypes
    <2> QED BY <2>1, <2>2, <2>3, <2>4, <2>5 DEF QualifyAgain, SendState, SendPrompt, CloseStdin, PeerSays, PeerTears,
            LoseControl, PeerExits, PublishLands
  <1> QED BY <1>1, <1>2, Quiet

\* A guard is taken for an operation, or for the handle.
LEMMA LocksKeep ==
  ASSUME Custody, UNCHANGED world, OpenWorkspace \/ Use \/ TakeHandle
  PROVE  Custody'
  <1>1. CASE OpenWorkspace
    BY <1>1, Locking DEF OpenWorkspace, OnPayload, At, Acqs
  <1>2. CASE Use
    BY <1>2, Locking DEF Use, OnPayload, At, Acqs
  <1>3. CASE TakeHandle
    BY <1>3, Locking DEF TakeHandle, OnPayload, At, Acqs
  <1> QED BY <1>1, <1>2, <1>3

\* And given back.
LEMMA UnlocksKeep ==
  ASSUME Custody, UNCHANGED world,
         Populated \/ Imported \/ Leave \/ Fail \/ Report \/ Materialized \/ Relinquish
  PROVE  Custody'
  <1> USE DEF Custody
  <1>1. CASE Populated \/ Imported \/ Fail \/ Report
    <2>1. /\ guard' = Unlocked("w", "task") /\ UNCHANGED <<child, payload, closed, c>> /\ h.at # "dead"
          /\ Goes("ready") \/ Goes("imported") \/ Goes("over")
      BY <1>1 DEF Populated, Imported, Fail, Report, At
    <2>2. HostMoves /\ h'.at \notin OnPayload \cup {"opened", "used"}
      BY <2>1, GoesTo DEF HostMoves, HostTypes, OnPayload
    <2> QED BY <2>1, <2>2, Unlocking DEF Acqs
  <1>2. CASE Leave
    <2>1. /\ guard' = Unlocked("w", "task") /\ UNCHANGED <<child, payload, closed, c>> /\ h.at = "left"
          /\ h' = [h EXCEPT !.at = "ready", !.todo = Tail(@)]
      BY <1>2 DEF Leave, At
    <2>2. h'.at = "ready" /\ h'.todo = Tail(h.todo) /\ DOMAIN h' = HostFields
      BY <2>1 DEF HostTypes, HostFields
    <2>3. HostMoves
      BY <2>1, <2>2 DEF HostMoves, HostTypes, OnPayload
    <2> QED BY <2>1, <2>2, <2>3, Unlocking DEF Acqs, OnPayload
  <1>3. CASE Materialized
    <2>1. h.at = "guarded" /\ UNCHANGED <<child, payload, closed, c>>
      BY <1>3 DEF Materialized, At
    <2>2. CASE Goes("failing") /\ guard' = Unlocked("p", "task")
      <3>1. HostMoves
        BY <2>1, <2>2, GoesTo DEF HostMoves, HostTypes, OnPayload
      <3> QED BY <2>1, <2>2, <3>1, Unlocking DEF Acqs
    <2>3. CASE h' = [h EXCEPT !.at = "ready", !.ready = TRUE] /\ UNCHANGED guard
      <3>1. h'.at = "ready" /\ h'.todo = h.todo /\ DOMAIN h' = HostFields
        BY <2>3 DEF HostTypes, HostFields
      <3>2. HostMoves
        BY <2>1, <3>1 DEF HostMoves, HostTypes, OnPayload
      <3> QED BY <2>1, <2>3, <3>2, Quiet
    <2> QED BY <1>3, <2>2, <2>3 DEF Materialized
  <1>4. CASE Relinquish
    <2>1. /\ h' = [h EXCEPT !.shut = TRUE] /\ guard' = Unlocked("p", "task")
          /\ UNCHANGED <<child, payload, closed, c>>
      BY <1>4 DEF Relinquish
    <2>2. h'.at = h.at /\ h'.todo = h.todo /\ DOMAIN h' = HostFields
      BY <2>1 DEF HostTypes, HostFields
    <2>3. HostMoves
      BY <2>2 DEF HostMoves, HostTypes
    <2> QED BY <2>1, <2>3, Unlocking DEF Acqs
  <1> QED BY <1>1, <1>2, <1>3, <1>4

\* A process is started: for the workspace's own operations and for the task.
LEMMA SpawnsKeep ==
  ASSUME Custody, UNCHANGED world, Populate \/ Operate \/ Captured \/ Exported \/ Launch
  PROVE  Custody'
  <1> USE DEF Custody
  <1>0. payload["w"] = "made" => payload = [payload EXCEPT !["w"] = "made"]
    BY DEF LockTypes
  <1>1. CASE Populate
    <2>1. h.at = "opened" /\ UNCHANGED <<closed, c>>
      BY <1>1 DEF Populate, At
    <2>2. CASE closed["w"]
      <3>1. Goes("failing") /\ UNCHANGED <<payload, child, guard>>
        BY <1>1, <2>2 DEF Populate
      <3>2. HostMoves
        BY <2>1, <3>1, GoesTo DEF HostMoves, HostTypes, OnPayload
      <3> QED BY <2>1, <3>1, <3>2, Quiet
    <2>3. CASE ~ closed["w"] /\ ~ Pi
      <3>1. payload' = [payload EXCEPT !["w"] = "made"] /\ Goes("waiting") /\ Spawned("stage")
        BY <1>1, <2>3 DEF Populate
      <3>2. payload'["w"] = "made"
        BY <3>1 DEF LockTypes, Acqs
      <3>3. h'.at = "waiting" /\ h'.todo = h.todo /\ DOMAIN h' = HostFields
        BY <3>1, GoesTo
      <3>4. Mounts("stage") = {"w"} /\ "stage" \in Children \ {"none"}
        BY DEF Mounts, Children
      <3> QED BY <2>1, <2>3, <3>1, <3>2, <3>3, <3>4, Spawning
    <2>4. CASE ~ closed["w"] /\ Pi
      <3>1. payload' = [payload EXCEPT !["w"] = "made"] /\ Goes("stage") /\ UNCHANGED <<child, guard>>
        BY <1>1, <2>4 DEF Populate
      <3>2. /\ payload'["w"] = "made" /\ payload'["p"] = payload["p"]
            /\ payload' \in [Acqs -> {"none", "made", "gone"}]
        BY <3>1 DEF LockTypes, Acqs
      <3>3. h'.at = "stage" /\ h'.todo = h.todo /\ DOMAIN h' = HostFields
        BY <3>1, GoesTo
      <3>4. HostTypes' /\ LockTypes' /\ PartyTypes'
        BY <2>1, <3>1, <3>2, <3>3 DEF HostTypes, LockTypes, PartyTypes
      <3>5. Working' /\ OperationFits' /\ Mounted'
        BY <2>1, <3>1, <3>2, <3>3 DEF Working, OperationFits, Mounted, Mounts, OnPayload
      <3>6. PartiesExclude' /\ Removing'
        BY <2>1, <3>1, <3>3 DEF PartiesExclude, Removing, Runs, Alive
      <3>7. DisposedFirst'
        BY <2>1, <2>4, <3>1, <3>2 DEF DisposedFirst, PartyTypes, Acqs
      <3> QED BY <3>4, <3>5, <3>6, <3>7
    <2> QED BY <2>2, <2>3, <2>4
  <1>2. CASE Operate
    <2>1. h.at = "used" /\ ~ Pi /\ UNCHANGED <<payload, closed, c>>
      BY <1>2 DEF Operate, At
    <2>2. Head(h.todo) \in {"reset", "capture"}
      BY <2>1 DEF OperationFits
    <2>3. \/ Goes("failing") /\ UNCHANGED <<child, guard>>
          \/ h' = [h EXCEPT !.at = "left", !.oid = candidate, !.returned = candidate] /\ UNCHANGED <<child, guard>>
          \/ Usable /\ Spawned(Head(h.todo)) /\ Goes("waiting")
      BY <1>2 DEF Operate
    <2>4. CASE Goes("failing") /\ UNCHANGED <<child, guard>>
      <3>1. HostMoves
        BY <2>1, <2>4, GoesTo DEF HostMoves, HostTypes, OnPayload
      <3> QED BY <2>1, <2>4, <3>1, Quiet
    <2>5. CASE h' = [h EXCEPT !.at = "left", !.oid = candidate, !.returned = candidate] /\ UNCHANGED <<child, guard>>
      <3>1. h'.at = "left" /\ h'.todo = h.todo /\ DOMAIN h' = HostFields
        BY <2>5 DEF HostTypes, HostFields
      <3>2. HostMoves
        BY <2>1, <3>1 DEF HostMoves, HostTypes, OnPayload
      <3> QED BY <2>1, <2>5, <3>2, Quiet
    <2>6. CASE Usable /\ Spawned(Head(h.todo)) /\ Goes("waiting")
      <3>1. ~ closed["w"] /\ payload["w"] = "made"
        BY <2>6 DEF Usable
      <3>2. h'.at = "waiting" /\ h'.todo = h.todo /\ DOMAIN h' = HostFields
        BY <2>6, GoesTo
      <3>3. Mounts(Head(h.todo)) = {"w"} /\ Head(h.todo) \in Children \ {"none"}
        BY <2>2 DEF Mounts, Children
      <3> QED BY <1>0, <2>1, <2>6, <3>1, <3>2, <3>3, Spawning
    <2> QED BY <2>3, <2>4, <2>5, <2>6
  <1>3. CASE Captured \/ Exported
    <2>1. h.at \in {"capture", "export"} /\ UNCHANGED <<payload, closed, c>>
      BY <1>3 DEF Captured, Exported, At
    <2>2. \/ Goes("failing") /\ UNCHANGED <<child, guard>>
          \/ \E kind \in {"export", "import"} : Spawned(kind) /\ (h' = [h EXCEPT !.at = "waiting", !.oid = stage.head] \/ Goes("waiting"))
      BY <1>3 DEF Captured, Exported
    <2>3. CASE Goes("failing") /\ UNCHANGED <<child, guard>>
      <3>1. HostMoves
        BY <2>1, <2>3, GoesTo DEF HostMoves, HostTypes, OnPayload
      <3> QED BY <2>1, <2>3, <3>1, Quiet
    <2>4. ASSUME NEW kind \in {"export", "import"}, Spawned(kind),
                 h' = [h EXCEPT !.at = "waiting", !.oid = stage.head] \/ Goes("waiting")
          PROVE  Custody'
      <3>1. h'.at = "waiting" /\ h'.todo = h.todo /\ DOMAIN h' = HostFields
        BY <2>4, GoesTo DEF HostTypes, HostFields
      <3>2. Mounts(kind) = {"w"} /\ kind \in Children \ {"none"}
        BY DEF Mounts, Children
      <3>3. h.at \in OnPayload /\ payload["w"] = "made"
        BY <2>1 DEF Working, OnPayload
      <3> QED BY <1>0, <2>1, <2>4, <3>1, <3>2, <3>3, Spawning
    <2> QED BY <2>2, <2>3, <2>4
  <1>4. CASE Launch
    <2>1. h.at = "used" /\ UNCHANGED <<payload, closed, c>>
      BY <1>4 DEF Launch, At
    <2>2. CASE Usable /\ Held /\ ~ closed["p"]
      <3>1. Spawned("peer") /\ Goes("talking") /\ ~ closed["w"] /\ ~ closed["p"] /\ payload["w"] = "made"
        BY <1>4, <2>2 DEF Launch, Usable
      <3>2. h'.at = "talking" /\ h'.todo = h.todo /\ DOMAIN h' = HostFields
        BY <3>1, GoesTo
      <3>3. Mounts("peer") = {"w", "p"} /\ "peer" \in Children \ {"none"}
        BY DEF Mounts, Children, Acqs
      <3> QED BY <1>0, <2>1, <3>1, <3>2, <3>3, Spawning
    <2>3. CASE ~ (Usable /\ Held /\ ~ closed["p"])
      <3>1. Goes("failing") /\ UNCHANGED <<child, guard>>
        BY <1>4, <2>3 DEF Launch
      <3>2. HostMoves
        BY <2>1, <3>1, GoesTo DEF HostMoves, HostTypes, OnPayload
      <3> QED BY <2>1, <3>1, <3>2, Quiet
    <2> QED BY <2>2, <2>3
  <1> QED BY <1>1, <1>2, <1>3, <1>4

\* A process ended by itself, with its task or by its launcher.
LEMMA ReapsKeep ==
  ASSUME Custody, UNCHANGED world, ChildKilled \/ Conclude \/ \E ok \in BOOLEAN : ChildEnds(ok)
  PROVE  Custody'
  <1> USE DEF Custody
  <1>1. CASE ChildKilled
    BY <1>1, Reaping DEF ChildKilled, HostTypes
  <1>2. CASE Conclude
    <2>1. Goes("concluded") /\ h.at = "talking" /\ Reaped /\ UNCHANGED <<payload, closed, c>>
      BY <1>2 DEF Conclude, Talking, At
    <2>2. h'.at = "concluded" /\ h'.todo = h.todo /\ DOMAIN h' = HostFields
      BY <2>1, GoesTo
    <2>3. "concluded" \notin OnPayload \cup {"opened", "used", "using"}
      BY DEF OnPayload
    <2> QED BY <2>1, <2>2, <2>3, Reaping
  <1>3. ASSUME NEW ok \in BOOLEAN, ChildEnds(ok) PROVE Custody'
    <2>1. /\ h.at = "waiting" /\ child \notin {"none", "peer"} /\ Reaped /\ UNCHANGED <<payload, closed, c>>
          /\ Goes(child) \/ Goes("failing")
      BY <1>3 DEF ChildEnds, At
    <2>2. child \in OnPayload /\ child # "dead"
      BY <2>1 DEF HostTypes, Children, OnPayload
    <2>3. (h'.at = child \/ h'.at = "failing") /\ h'.todo = h.todo /\ DOMAIN h' = HostFields
      BY <2>1, GoesTo
    <2>4. "failing" \notin OnPayload \cup {"opened", "used", "using"}
      BY DEF OnPayload
    <2> QED BY <2>1, <2>2, <2>3, <2>4, Reaping
  <1> QED BY <1>1, <1>2, <1>3

\* What a record of a party looks like after an update of its fields.
LEMMA PartyShape ==
  ASSUME PartyTypes, NEW x \in Parties
  PROVE  /\ \A to : Party(x, to) =>
              /\ DOMAIN c' = Parties /\ DOMAIN c'[x] = PartyFields /\ \A y \in Parties : y # x => c'[y] = c[y]
              /\ c'[x].at = to /\ c'[x].acq = c[x].acq /\ c'[x].todo = c[x].todo
         /\ \A e : c' = [c EXCEPT ![x] = e] =>
              DOMAIN c' = Parties /\ c'[x] = e /\ \A y \in Parties : y # x => c'[y] = c[y]
  BY DEF PartyTypes, PartyFields, Party

\* The parties, up to the guard.
LEMMA PartiesKeep ==
  ASSUME Custody, UNCHANGED world,
         \/ Reconcile \/ CloseWorkspace \/ CloseHandle \/ JoinAndRelease
         \/ \E x \in Parties : DisposeReads(x) \/ \E busy \in BOOLEAN : DisposeLands(x, busy)
  PROVE  Custody'
  <1> USE DEF Custody
  <1>0. closed \in [Acqs -> BOOLEAN] /\ DOMAIN h = HostFields
    BY DEF LockTypes, HostTypes
  <1>1. ASSUME NEW x \in Parties, DisposeReads(x) PROVE Custody'
    <2>1. /\ UNCHANGED <<h, child, guard, payload, closed>> /\ c[x].at \in {"fence", "read"}
          /\ c' = [c EXCEPT ![x].at = IF @ = "fence" THEN "fencing" ELSE "txn",
                            ![x].seen = [closed |-> closed[c[x].acq], cand |-> candidate]]
      BY <1>1 DEF DisposeReads
    <2>2. /\ DOMAIN c' = Parties /\ DOMAIN c'[x] = PartyFields /\ \A y \in Parties : y # x => c'[y] = c[y]
          /\ c'[x].at \in {"fencing", "txn"} /\ c'[x].acq = c[x].acq /\ c'[x].todo = c[x].todo
      BY <2>1 DEF PartyTypes, PartyFields
    <2>3. c[x].acq \in Acqs /\ c[x].todo \in Seq(Acqs)
      BY <2>1 DEF PartyTypes
    <2> QED BY <1>0, <2>1, <2>2, <2>3, PartyMoves
  <1>2. ASSUME NEW x \in Parties, NEW busy \in BOOLEAN, DisposeLands(x, busy) PROVE Custody'
    <2>1. UNCHANGED <<h, child, guard, payload>> /\ c[x].at \in {"fencing", "txn"}
      BY <1>2 DEF DisposeLands
    <2>2. c[x].acq \in Acqs /\ c[x].todo \in Seq(Acqs)
      BY <2>1 DEF PartyTypes
    <2>3. CASE Revokes(x) /\ ~ busy
      <3>1. /\ closed' = [closed EXCEPT ![c[x].acq] = TRUE]
            /\ c' = [c EXCEPT ![x].at = IF @ = "fencing" THEN "join" ELSE "guard", ![x].tries = 0]
        BY <1>2, <2>3 DEF DisposeLands
      <3>2. /\ DOMAIN c' = Parties /\ DOMAIN c'[x] = PartyFields /\ \A y \in Parties : y # x => c'[y] = c[y]
            /\ c'[x].at \in {"join", "guard"} /\ c'[x].acq = c[x].acq /\ c'[x].todo = c[x].todo
        BY <3>1 DEF PartyTypes, PartyFields
      <3>3. /\ closed' \in [Acqs -> BOOLEAN] /\ closed'[c[x].acq] /\ \A a \in Acqs : closed[a] => closed'[a]
        BY <1>0, <2>2, <3>1
      <3> QED BY <1>0, <2>1, <2>2, <3>2, <3>3, PartyMoves
    <2>4. CASE ~ (Revokes(x) /\ ~ busy)
      <3>1. closed' = closed /\ \E to \in {"unfenced", "failed", "fence", "read"} :
                c' = [c EXCEPT ![x].tries = @ + 1, ![x].at = to]
        BY <1>2, <2>4 DEF DisposeLands, PartyTypes, PartyFields
      <3>2. /\ DOMAIN c' = Parties /\ DOMAIN c'[x] = PartyFields /\ \A y \in Parties : y # x => c'[y] = c[y]
            /\ c'[x].at \in {"unfenced", "failed", "fence", "read"} /\ c'[x].acq = c[x].acq /\ c'[x].todo = c[x].todo
        BY <3>1 DEF PartyTypes, PartyFields
      <3> QED BY <1>0, <2>1, <2>2, <3>1, <3>2, PartyMoves
    <2> QED BY <2>3, <2>4
  <1>3. CASE Reconcile
    <2>1. UNCHANGED <<h, child, guard, payload, closed>> /\ c["next"].at \in {"idle", "done", "failed"}
      BY <1>3 DEF Reconcile
    <2>2. "next" \in Parties /\ c["next"].todo \in Seq(Acqs) /\ <<"p", "w">> \in Seq(Acqs) /\ <<"w">> \in Seq(Acqs)
      BY DEF Parties, PartyTypes, Acqs
    <2>3. PICK rest \in Seq(Acqs) :
            /\ rest # <<>>
            /\ c' = [c EXCEPT !["next"] = [Idle EXCEPT !.at = "read", !.acq = Head(rest), !.todo = Tail(rest)]]
      BY <1>3, <2>2 DEF Reconcile
    <2> DEFINE e == [Idle EXCEPT !.at = "read", !.acq = Head(rest), !.todo = Tail(rest)]
    <2>4. DOMAIN e = PartyFields /\ e.at = "read" /\ e.acq = Head(rest) /\ e.todo = Tail(rest)
      BY DEF Idle, PartyFields
    <2>5. Head(rest) \in Acqs /\ Tail(rest) \in Seq(Acqs)
      BY <2>3
    <2> HIDE DEF e
    <2>6. DOMAIN c' = Parties /\ c'["next"] = e /\ \A y \in Parties : y # "next" => c'[y] = c[y]
      BY <2>2, <2>3, PartyShape DEF e
    <2> QED BY <1>0, <2>1, <2>2, <2>4, <2>5, <2>6, PartyMoves
  <1>4. CASE CloseWorkspace
    <2>1. /\ UNCHANGED <<h, child, guard, payload, closed>> /\ c["close"].at \in {"idle", "done", "failed"}
          /\ c' = c \/ c' = [c EXCEPT !["close"] = [Idle EXCEPT !.at = "read", !.acq = "w"]]
      BY <1>4 DEF CloseWorkspace
    <2>2. CASE c' = c
      <3>1. HostMoves
        BY <2>1 DEF HostMoves, HostTypes
      <3> QED BY <2>1, <2>2, <3>1, Quiet
    <2>3. CASE c' = [c EXCEPT !["close"] = [Idle EXCEPT !.at = "read", !.acq = "w"]]
      <3> DEFINE e == [Idle EXCEPT !.at = "read", !.acq = "w"]
      <3>1. DOMAIN e = PartyFields /\ e.at = "read" /\ e.acq = "w" /\ e.todo = <<>>
        BY DEF Idle, PartyFields
      <3> HIDE DEF e
      <3>2. DOMAIN c' = Parties /\ c'["close"] = e /\ \A y \in Parties : y # "close" => c'[y] = c[y]
        BY <2>3, PartyShape DEF e, Parties
      <3>3. "close" \in Parties /\ "w" \in Acqs /\ <<>> \in Seq(Acqs)
        BY DEF Parties, Acqs
      <3>4. /\ DOMAIN c'["close"] = PartyFields /\ c'["close"].at = "read" /\ c'["close"].acq \in Acqs
            /\ c'["close"].todo \in Seq(Acqs)
        BY <3>1, <3>2, <3>3
      <3> QED BY <1>0, <2>1, <3>2, <3>3, <3>4, PartyMoves
    <2> QED BY <2>1, <2>2, <2>3
  <1>5. CASE CloseHandle
    <2>1. /\ UNCHANGED <<child, guard, payload, closed>> /\ c["close"].at = "idle" /\ h' = [h EXCEPT !.shut = TRUE]
          /\ c' = c \/ c' = [c EXCEPT !["close"] = [Idle EXCEPT !.at = "fence", !.acq = "p"]]
      BY <1>5 DEF CloseHandle
    <2>2. h'.at = h.at /\ h'.todo = h.todo /\ DOMAIN h' = HostFields
      BY <2>1 DEF HostTypes, HostFields
    <2>3. CASE c' = c
      <3>1. HostMoves
        BY <2>2 DEF HostMoves, HostTypes
      <3> QED BY <2>1, <2>3, <3>1, Quiet
    <2>4. CASE c' = [c EXCEPT !["close"] = [Idle EXCEPT !.at = "fence", !.acq = "p"]]
      <3> DEFINE e == [Idle EXCEPT !.at = "fence", !.acq = "p"]
      <3>1. DOMAIN e = PartyFields /\ e.at = "fence" /\ e.acq = "p" /\ e.todo = <<>>
        BY DEF Idle, PartyFields
      <3> HIDE DEF e
      <3>2. DOMAIN c' = Parties /\ c'["close"] = e /\ \A y \in Parties : y # "close" => c'[y] = c[y]
        BY <2>4, PartyShape DEF e, Parties
      <3>3. "close" \in Parties /\ "p" \in Acqs /\ <<>> \in Seq(Acqs)
        BY DEF Parties, Acqs
      <3>4. /\ DOMAIN c'["close"] = PartyFields /\ c'["close"].at = "fence" /\ c'["close"].acq \in Acqs
            /\ c'["close"].todo \in Seq(Acqs)
        BY <3>1, <3>2, <3>3
      <3> QED BY <1>0, <2>1, <2>2, <3>2, <3>3, <3>4, PartyMoves
    <2> QED BY <2>1, <2>3, <2>4
  <1>6. CASE JoinAndRelease
    <2>1. /\ UNCHANGED <<h, child, payload, closed>> /\ guard' = Unlocked("p", "task")
          /\ c["close"].at \in {"join", "unfenced"} /\ (Party("close", "read") \/ Party("close", "failed"))
      BY <1>6 DEF JoinAndRelease
    <2>2. "close" \in Parties /\ c["close"].acq \in Acqs /\ c["close"].todo \in Seq(Acqs)
      BY <2>1 DEF PartyTypes, Parties
    <2>3. /\ DOMAIN c' = Parties /\ DOMAIN c'["close"] = PartyFields /\ \A y \in Parties : y # "close" => c'[y] = c[y]
          /\ c'["close"].at \in {"read", "failed"} /\ c'["close"].acq = c["close"].acq
          /\ c'["close"].todo = c["close"].todo
      BY <2>1, <2>2, PartyShape
    <2> QED BY <1>0, <2>1, <2>2, <2>3, PartyMoves
  <1> QED BY <1>1, <1>2, <1>3, <1>4, <1>5, <1>6

-----------------------------------------------------------------------------
(***************************************************************************)
(* Custody.                                                                *)
(***************************************************************************)
\* Before the first step nothing is held, made or revoked.
LEMMA InitCustody == Init => Custody
  <1> SUFFICES ASSUME Init PROVE Custody
    OBVIOUS
  <1>1. /\ h = NewHost /\ world \in Worlds /\ child = "none" /\ guard = [a \in Acqs |-> {}]
        /\ payload = [a \in Acqs |-> "none"] /\ closed = [a \in Acqs |-> FALSE] /\ c = [x \in Parties |-> Idle]
    BY DEF Init, WorkInit
  <1>2. DOMAIN h = HostFields /\ h.at = "new"
    BY <1>1 DEF NewHost, HostFields
  <1>3. DOMAIN Idle = PartyFields /\ Idle.at = "idle" /\ Idle.todo \in Seq(Acqs)
    BY DEF Idle, PartyFields
  <1>4. HostTypes /\ LockTypes
    BY <1>1, <1>2 DEF HostTypes, LockTypes, Children
  <1>5. PartyTypes /\ \A x \in Parties : c[x].at = "idle"
    BY <1>1, <1>3 DEF PartyTypes
  <1>6. Working /\ OperationFits /\ Mounted
    BY <1>1, <1>2 DEF Working, OperationFits, Mounted, OnPayload, Acqs
  <1>7. PartiesExclude /\ Removing /\ DisposedFirst
    BY <1>1, <1>5 DEF PartiesExclude, Removing, DisposedFirst
  <1> QED BY <1>4, <1>5, <1>6, <1>7 DEF Custody

\* A step of the workspace's operations keeps custody.
LEMMA WorkspaceStepKeeps ==
  ASSUME Custody, UNCHANGED world, WorkspaceStep
  PROVE  Custody'
  <1>1. CASE EnterWorkspace \/ Edit \/ Begin \/ ResetDone \/ Publish \/ PublishReads \/ Published \/ Finish
    BY <1>1, WorkspaceQuiet
  <1>2. CASE OpenWorkspace \/ Use
    BY <1>2, LocksKeep
  <1>3. CASE Populated \/ Imported \/ Leave \/ Fail
    BY <1>3, UnlocksKeep
  <1>4. CASE Populate \/ Operate \/ Captured \/ Exported
    BY <1>4, SpawnsKeep
  <1>5. CASE \E ok \in BOOLEAN : ChildEnds(ok)
    BY <1>5, ReapsKeep
  <1> QED BY <1>1, <1>2, <1>3, <1>4, <1>5 DEF WorkspaceStep

\* So does every step.
LEMMA NextCustody == Custody /\ [Next]_vars => Custody'
  <1> SUFFICES ASSUME Custody, [Next]_vars PROVE Custody'
    OBVIOUS
  <1>1. CASE UNCHANGED vars
    <2>1. HostMoves /\ UNCHANGED <<child, guard, payload, closed, c>>
      BY <1>1 DEF vars, workVars, HostMoves, Custody, HostTypes
    <2> QED BY <2>1, Quiet
  <1>2. CASE Next
    <2>0. UNCHANGED world
      BY <1>2 DEF Next
    <2>1. CASE WorkspaceStep
      BY <2>0, <2>1, WorkspaceStepKeeps
    <2>2. CASE \/ Qualify \/ QualifyAgain \/ Qualified \/ Acquire \/ Materialize \/ Execute \/ ExecuteAgain
               \/ SendState \/ SendPrompt \/ CloseStdin \/ PeerSays \/ PeerTears \/ Interrupt \/ LoseControl
               \/ \E clean \in BOOLEAN : PeerExits(clean)
               \/ \E busy \in BOOLEAN : PublishLands(busy)
      BY <2>0, <2>2, InvocationQuiet
    <2>3. CASE TakeHandle
      BY <2>0, <2>3, LocksKeep
    <2>4. CASE Report \/ Materialized \/ Relinquish
      BY <2>0, <2>4, UnlocksKeep
    <2>5. CASE Launch
      BY <2>0, <2>5, SpawnsKeep
    <2>6. CASE ChildKilled \/ Conclude
      BY <2>0, <2>6, ReapsKeep
    <2>7. CASE \/ Reconcile \/ CloseWorkspace \/ CloseHandle \/ JoinAndRelease
               \/ \E x \in Parties : DisposeReads(x) \/ \E busy \in BOOLEAN : DisposeLands(x, busy)
      BY <2>0, <2>7, PartiesKeep
    <2>8. CASE \E x \in Parties : DisposeGuard(x) \/ RemovePayload(x)
      BY <2>0, <2>8, Guarding, RemovalKeeps
    <2>9. CASE Crash
      BY <2>0, <2>9, CrashKeeps
    <2> QED BY <1>2, <2>1, <2>2, <2>3, <2>4, <2>5, <2>6, <2>7, <2>8, <2>9
          DEF Next, HostStep, Disposal, DisposalStep
  <1> QED BY <1>1, <1>2

\* Who holds a guard, and what is on the payload under it: the law of
\* dispose_acquisition, acquisition_guard and the child's inherited descriptor, kept by every step
\* of the host, the client, the parties, and through the death of the host.
THEOREM CustodyHolds == Spec => []Custody
  <1>1. Init => Custody
    BY InitCustody
  <1>2. Custody /\ [Next]_vars => Custody'
    BY NextCustody
  <1> QED BY <1>1, <1>2, PTL DEF Spec

\* DisposedMeansQuiet: a contained process works on a payload that is there under the guard it
\* holds, and a reported disposal of a revoked acquisition (dispose_acquisition,
\* _remove_at_namespace) leaves no process on it and no payload, whatever else was under way.
THEOREM DisposalIsQuiet == Spec => []DisposedMeansQuiet
  <1>1. Custody => DisposedMeansQuiet
    BY DEF Custody, DisposedMeansQuiet, Mounted, DisposedFirst, Mounts
  <1> QED BY <1>1, CustodyHolds, PTL

-----------------------------------------------------------------------------
(***************************************************************************)
(* The candidate.  The commit under publication is held by the authority   *)
(* from its import on, and the transaction replaces only nothing or the    *)
(* same commit, so that what a capture returned is what the ref names      *)
(* until a party discards it.                                              *)
(***************************************************************************)
PubFields == {"at", "tries", "seen"}

\* The commit of a publication is one that was imported.
Verified ==
    /\ DOMAIN pub = PubFields
    /\ candidate # NoCommit => candidate \in objects
    /\ h.at \in {"import", "imported", "publishing"} => h.oid \in objects
    /\ pub.at \in {"read", "txn", "done"} => h.oid \in objects /\ h.at \in {"publishing", "failing", "dead"}
    /\ pub.at = "txn" => pub.seen \in {NoCommit, h.oid}

\* What was published or returned is what the ref names, where nobody discards.
Kept ==
    "discard" \notin {world.own, world.next} =>
        /\ pub.at = "done" => candidate = h.oid
        /\ h.returned # NoCommit => candidate = h.returned

\* A step that leaves commits and publication alone, and leaves a failed or dead host so.
Calm ==
    /\ UNCHANGED <<world, candidate, objects, pub>> /\ h'.oid = h.oid /\ h'.returned = h.returned
    /\ \/ h'.at = h.at
       \/ /\ h'.at \notin {"import", "imported", "publishing"}
          /\ h.at \in {"publishing", "failing", "dead"} => h'.at \in {"failing", "dead"}

\* Such a step keeps both.
LEMMA CalmKeeps ==
  ASSUME Verified, Kept, Calm
  PROVE  Verified' /\ Kept'
  BY DEF Verified, Kept, Calm

\* The workspace's steps around its processes.
LEMMA WorkspaceCalm ==
  ASSUME HostTypes, UNCHANGED world,
         \/ EnterWorkspace \/ OpenWorkspace \/ Populate \/ Populated \/ Edit \/ Begin \/ Use \/ ResetDone
         \/ Exported \/ Leave \/ Finish \/ CloseWorkspace \/ ChildKilled
  PROVE  Calm
  <1>1. UNCHANGED <<candidate, objects, pub>>
    BY DEF EnterWorkspace, OpenWorkspace, Populate, Populated, Edit, Begin, Use, ResetDone, Exported, Leave, Finish,
       CloseWorkspace, ChildKilled, workVars
  <1>2. CASE EnterWorkspace \/ OpenWorkspace \/ Populate \/ Populated \/ Begin \/ Use \/ ResetDone \/ Exported \/ Finish
    <2>1. /\ h.at \notin {"publishing", "failing", "dead"}
          /\ \E to \in {"failing", "opening", "opened", "stage", "waiting", "ready", "using", "used", "left", "over"} : Goes(to)
      BY <1>2 DEF EnterWorkspace, OpenWorkspace, Populate, Populated, Begin, Use, ResetDone, Exported, Finish, At
    <2> QED BY <1>1, <2>1, GoesTo DEF Calm
  <1>3. CASE Edit \/ Leave
    <2>1. h.at \in {"ready", "left"} /\ (h' = [h EXCEPT !.todo = Tail(@)] \/ h' = [h EXCEPT !.at = "ready", !.todo = Tail(@)])
      BY <1>3 DEF Edit, Leave, At
    <2>2. h'.at \in {"ready", "left"} /\ h'.oid = h.oid /\ h'.returned = h.returned
      BY <2>1 DEF HostTypes, HostFields
    <2> QED BY <1>1, <2>1, <2>2 DEF Calm
  <1>4. CASE CloseWorkspace \/ ChildKilled
    BY <1>1, <1>4 DEF Calm, CloseWorkspace, ChildKilled
  <1> QED BY <1>2, <1>3, <1>4

\* The invocation's.
LEMMA InvocationCalm ==
  ASSUME HostTypes, UNCHANGED world,
         \/ Qualify \/ QualifyAgain \/ Qualified \/ Acquire \/ Materialize \/ TakeHandle \/ Materialized \/ Execute
         \/ ExecuteAgain \/ Launch \/ SendState \/ SendPrompt \/ CloseStdin \/ PeerSays \/ PeerTears \/ Conclude
         \/ Report \/ Interrupt \/ CloseHandle \/ JoinAndRelease \/ Relinquish \/ LoseControl \/ Crash
         \/ \E clean \in BOOLEAN : PeerExits(clean)
  PROVE  Calm
  <1>1. UNCHANGED <<candidate, objects, pub>>
    BY DEF Qualify, QualifyAgain, Qualified, Acquire, Materialize, TakeHandle, Materialized, Execute, ExecuteAgain,
       Launch, SendState, SendPrompt, CloseStdin, PeerSays, PeerTears, Conclude, Report, Interrupt, CloseHandle,
       JoinAndRelease, Relinquish, LoseControl, Crash, PeerExits, workVars
  <1>2. CASE Qualify \/ Qualified \/ Acquire \/ TakeHandle \/ Launch \/ Conclude \/ Report
    <2>1. /\ h.at \notin {"publishing", "failing", "dead"}
          /\ \E to \in {"probing", "over", "qualified", "acquired", "guarded", "talking", "failing", "concluded"} : Goes(to)
      BY <1>2 DEF Qualify, Qualified, Acquire, TakeHandle, Launch, Conclude, Report, Talking, At
    <2> QED BY <1>1, <2>1, GoesTo DEF Calm
  <1>3. CASE Interrupt \/ Crash
    <2>1. h.at # "dead" /\ (Goes("failing") \/ Goes("dead"))
      BY <1>3 DEF Interrupt, Crash, Interruptible, Alive
    <2> QED BY <1>1, <2>1, GoesTo DEF Calm
  <1>4. CASE Materialize \/ Materialized \/ Execute
    <2>1. /\ h.at \in {"ready", "guarded"}
          /\ \E to \in {"guarding", "failing", "ready", "using"} :
               \/ h' = [h EXCEPT !.open = ~ h.shut, !.at = to]
               \/ h' = [h EXCEPT !.at = to, !.ready = TRUE]
               \/ h' = [h EXCEPT !.at = to]
               \/ h' = [h EXCEPT !.executed = TRUE, !.at = to]
      BY <1>4 DEF Materialize, Materialized, Execute, At, Goes
    <2>2. h'.at \in {"guarding", "failing", "ready", "using"} /\ h'.oid = h.oid /\ h'.returned = h.returned
      BY <2>1 DEF HostTypes, HostFields
    <2> QED BY <1>1, <2>1, <2>2 DEF Calm
  <1>5. CASE ExecuteAgain \/ CloseHandle \/ Relinquish
    <2>1. h' = [h EXCEPT !.poisoned = TRUE] \/ h' = [h EXCEPT !.shut = TRUE]
      BY <1>5 DEF ExecuteAgain, CloseHandle, Relinquish
    <2>2. h'.at = h.at /\ h'.oid = h.oid /\ h'.returned = h.returned
      BY <2>1 DEF HostTypes, HostFields
    <2> QED BY <1>1, <2>2 DEF Calm
  <1>6. CASE h' = h
    BY <1>1, <1>6 DEF Calm
  <1> QED BY <1>2, <1>3, <1>4, <1>5, <1>6 DEF QualifyAgain, SendState, SendPrompt, CloseStdin, PeerSays, PeerTears,
          JoinAndRelease, LoseControl, PeerExits

\* The parties', but for the transaction that may discard.
LEMMA PartiesCalm ==
  ASSUME UNCHANGED world, Reconcile \/ \E x \in Parties : DisposeReads(x) \/ DisposeGuard(x) \/ RemovePayload(x)
  PROVE  Calm
  BY DEF Calm, Reconcile, DisposeReads, DisposeGuard, RemovePayload

\* A capture: its process, its commit and the import of it.
LEMMA CapturesKeep ==
  ASSUME HostTypes, Verified, Kept, UNCHANGED world,
         Operate \/ Captured \/ Imported \/ \E ok \in BOOLEAN : ChildEnds(ok)
  PROVE  Verified' /\ Kept'
  <1>1. CASE Operate
    <2>1. h.at = "used" /\ UNCHANGED <<candidate, objects, pub>>
      BY <1>1 DEF Operate, At
    <2>2. \/ Goes("failing") \/ Goes("waiting")
          \/ h' = [h EXCEPT !.at = "left", !.oid = candidate, !.returned = candidate]
      BY <1>1 DEF Operate
    <2>3. CASE Goes("failing") \/ Goes("waiting")
      BY <2>1, <2>3, GoesTo, CalmKeeps DEF Calm
    <2>4. CASE h' = [h EXCEPT !.at = "left", !.oid = candidate, !.returned = candidate]
      <3>1. h'.at = "left" /\ h'.oid = candidate /\ h'.returned = candidate
        BY <2>4 DEF HostTypes, HostFields
      <3>2. pub.at \notin {"read", "txn", "done"}
        BY <2>1 DEF Verified
      <3> QED BY <2>1, <3>1, <3>2 DEF Verified, Kept
    <2> QED BY <2>2, <2>3, <2>4
  <1>2. CASE Captured
    <2>1. h.at = "capture" /\ UNCHANGED <<candidate, objects, pub>>
      BY <1>2 DEF Captured, At
    <2>2. Goes("failing") \/ h' = [h EXCEPT !.at = "waiting", !.oid = stage.head]
      BY <1>2 DEF Captured
    <2>3. h'.at \in {"failing", "waiting"} /\ h'.returned = h.returned
      BY <2>2, GoesTo DEF HostTypes, HostFields
    <2>4. pub.at \notin {"read", "txn", "done"}
      BY <2>1 DEF Verified
    <2> QED BY <2>1, <2>3, <2>4 DEF Verified, Kept
  <1>3. CASE Imported
    <2>1. h.at = "import" /\ UNCHANGED <<candidate, objects, pub>> /\ Goes("imported")
      BY <1>3 DEF Imported, At
    <2>2. h'.at = "imported" /\ h'.oid = h.oid /\ h'.returned = h.returned
      BY <2>1, GoesTo
    <2> QED BY <2>1, <2>2 DEF Verified, Kept
  <1>4. ASSUME NEW ok \in BOOLEAN, ChildEnds(ok) PROVE Verified' /\ Kept'
    <2>1. h.at = "waiting" /\ UNCHANGED <<candidate, pub>> /\ (Goes(child) \/ Goes("failing"))
      BY <1>4 DEF ChildEnds, At
    <2>2. objects \subseteq objects' /\ (Goes(child) /\ ok /\ child = "import" => h.oid \in objects')
      BY <1>4 DEF ChildEnds
    <2>3. h'.oid = h.oid /\ h'.returned = h.returned /\ (h'.at = child \/ h'.at = "failing")
      BY <2>1, GoesTo
    <2>4. h'.at = "import" => h.oid \in objects'
      BY <1>4, <2>2, GoesTo DEF ChildEnds
    <2>5. h'.at \notin {"imported", "publishing"} /\ pub.at \notin {"read", "txn", "done"}
      BY <2>1, <2>3 DEF HostTypes, Children, Verified
    <2> QED BY <2>1, <2>2, <2>3, <2>4, <2>5 DEF Verified, Kept
  <1> QED BY <1>1, <1>2, <1>3, <1>4

\* Its publication: the attempts, the transaction and what the host makes of the answer.
LEMMA PublicationKeeps ==
  ASSUME HostTypes, Verified, Kept, UNCHANGED world,
         Publish \/ PublishReads \/ Published \/ Fail \/ \E busy \in BOOLEAN : PublishLands(busy)
  PROVE  Verified' /\ Kept'
  <1>0. DOMAIN pub = PubFields
    BY DEF Verified
  <1>1. CASE Publish
    <2>1. h.at = "imported" /\ UNCHANGED <<candidate, objects>>
      BY <1>1 DEF Publish, At
    <2>2. CASE Goes("failing") /\ UNCHANGED pub
      BY <2>1, <2>2, GoesTo, CalmKeeps DEF Calm
    <2>3. CASE Goes("publishing") /\ pub' = [at |-> "read", tries |-> 0, seen |-> NoCommit]
      <3>1. h'.at = "publishing" /\ h'.oid = h.oid /\ h'.returned = h.returned
        BY <2>3, GoesTo
      <3>2. DOMAIN pub' = PubFields /\ pub'.at = "read"
        BY <2>3 DEF PubFields
      <3> QED BY <2>1, <3>1, <3>2 DEF Verified, Kept
    <2> QED BY <1>1, <2>2, <2>3 DEF Publish
  <1>2. CASE PublishReads
    <2>1. /\ UNCHANGED <<h, candidate, objects>> /\ pub.at = "read"
          /\ pub' = [pub EXCEPT !.at = IF closed["w"] \/ candidate \notin {NoCommit, h.oid} THEN "refused" ELSE "txn",
                                !.seen = candidate]
      BY <1>2 DEF PublishReads
    <2>2. /\ DOMAIN pub' = PubFields /\ pub'.at \in {"refused", "txn"} /\ pub'.seen = candidate
          /\ pub'.at = "txn" => candidate \in {NoCommit, h.oid}
      BY <1>0, <2>1 DEF PubFields
    <2> QED BY <2>1, <2>2 DEF Verified, Kept
  <1>3. CASE Published
    <2>1. /\ h.at = "publishing" /\ pub.at \in {"done", "refused"} /\ UNCHANGED <<candidate, objects>>
          /\ pub' = [pub EXCEPT !.at = "none"]
          /\ \/ pub.at = "done" /\ h' = [h EXCEPT !.at = "left", !.returned = h.oid]
             \/ Goes("failing")
      BY <1>3 DEF Published, At
    <2>2. DOMAIN pub' = PubFields /\ pub'.at = "none"
      BY <1>0, <2>1 DEF PubFields
    <2>3. /\ h'.at \in {"left", "failing"}
          /\ h'.returned = h.returned \/ (pub.at = "done" /\ h'.returned = h.oid)
      BY <2>1, GoesTo DEF HostTypes, HostFields
    <2> QED BY <2>1, <2>2, <2>3 DEF Verified, Kept
  <1>4. CASE Fail
    <2>1. UNCHANGED <<candidate, objects>> /\ pub' = [pub EXCEPT !.at = "none"] /\ Goes("over")
      BY <1>4 DEF Fail
    <2>2. DOMAIN pub' = PubFields /\ pub'.at = "none"
      BY <1>0, <2>1 DEF PubFields
    <2>3. h'.at = "over" /\ h'.returned = h.returned
      BY <2>1, GoesTo
    <2> QED BY <2>1, <2>2, <2>3 DEF Verified, Kept
  <1>5. ASSUME NEW busy \in BOOLEAN, PublishLands(busy) PROVE Verified' /\ Kept'
    <2>1. pub.at = "txn" /\ UNCHANGED <<h, objects>>
      BY <1>5 DEF PublishLands
    <2>2. CASE Publishes /\ ~ busy
      <3>1. candidate = pub.seen /\ candidate' = h.oid /\ pub' = [pub EXCEPT !.at = "done"]
        BY <1>5, <2>2 DEF PublishLands, Publishes
      <3>2. DOMAIN pub' = PubFields /\ pub'.at = "done"
        BY <1>0, <3>1 DEF PubFields
      <3> QED BY <2>1, <3>1, <3>2 DEF Verified, Kept
    <2>3. CASE ~ (Publishes /\ ~ busy)
      <3>1. candidate' = candidate /\ \E to \in {"refused", "read"} : pub' = [pub EXCEPT !.tries = @ + 1, !.at = to]
        BY <1>5, <2>3 DEF PublishLands
      <3>2. DOMAIN pub' = PubFields /\ pub'.at \in {"refused", "read"}
        BY <1>0, <3>1 DEF PubFields
      <3> QED BY <2>1, <3>1, <3>2 DEF Verified, Kept
    <2> QED BY <2>2, <2>3
  <1> QED BY <1>1, <1>2, <1>3, <1>4, <1>5

\* A disposal removes the candidate only where the disposition discards.
LEMMA DiscardKeeps ==
  ASSUME Verified, Kept, UNCHANGED world, NEW x \in Parties, NEW busy \in BOOLEAN, DisposeLands(x, busy)
  PROVE  Verified' /\ Kept'
  <1>1. UNCHANGED <<h, objects, pub>> /\ (candidate' = candidate \/ (candidate' = NoCommit /\ Discards(x)))
    BY DEF DisposeLands
  <1>2. Discards(x) => "discard" \in {world.own, world.next}
    BY DEF Discards, Disposition
  <1> QED BY <1>1, <1>2 DEF Verified, Kept

\* Every step keeps both.
LEMMA NextCandidate == Custody /\ Verified /\ Kept /\ [Next]_vars => Verified' /\ Kept'
  <1> SUFFICES ASSUME Custody, Verified, Kept, [Next]_vars PROVE Verified' /\ Kept'
    OBVIOUS
  <1>0. HostTypes
    BY DEF Custody
  <1>1. CASE UNCHANGED vars
    BY <1>1 DEF vars, workVars, Verified, Kept
  <1>2. CASE Next
    <2>0. UNCHANGED world
      BY <1>2 DEF Next
    <2>1. CASE \/ EnterWorkspace \/ OpenWorkspace \/ Populate \/ Populated \/ Edit \/ Begin \/ Use \/ ResetDone
               \/ Exported \/ Leave \/ Finish \/ CloseWorkspace \/ ChildKilled
      BY <1>0, <2>0, <2>1, WorkspaceCalm, CalmKeeps
    <2>2. CASE \/ Qualify \/ QualifyAgain \/ Qualified \/ Acquire \/ Materialize \/ TakeHandle \/ Materialized \/ Execute
               \/ ExecuteAgain \/ Launch \/ SendState \/ SendPrompt \/ CloseStdin \/ PeerSays \/ PeerTears \/ Conclude
               \/ Report \/ Interrupt \/ CloseHandle \/ JoinAndRelease \/ Relinquish \/ LoseControl \/ Crash
               \/ \E clean \in BOOLEAN : PeerExits(clean)
      BY <1>0, <2>0, <2>2, InvocationCalm, CalmKeeps
    <2>3. CASE Operate \/ Captured \/ Imported \/ \E ok \in BOOLEAN : ChildEnds(ok)
      BY <1>0, <2>0, <2>3, CapturesKeep
    <2>4. CASE Publish \/ PublishReads \/ Published \/ Fail \/ \E busy \in BOOLEAN : PublishLands(busy)
      BY <1>0, <2>0, <2>4, PublicationKeeps
    <2>5. CASE Reconcile \/ \E x \in Parties : DisposeReads(x) \/ DisposeGuard(x) \/ RemovePayload(x)
      BY <2>0, <2>5, PartiesCalm, CalmKeeps
    <2>6. CASE \E x \in Parties, busy \in BOOLEAN : DisposeLands(x, busy)
      BY <2>0, <2>6, DiscardKeeps
    <2> QED BY <1>2, <2>1, <2>2, <2>3, <2>4, <2>5, <2>6
          DEF Next, HostStep, WorkspaceStep, Disposal, DisposalStep
  <1> QED BY <1>1, <1>2

\* Behind the closure no step gives the ref a commit.
LEMMA ClosedPublishesNothing == Custody /\ [Next]_vars => (closed["w"] => candidate' \in {candidate, NoCommit})
  <1> SUFFICES ASSUME Custody, [Next]_vars, closed["w"] PROVE candidate' \in {candidate, NoCommit}
    OBVIOUS
  <1>0. HostTypes
    BY DEF Custody
  <1>1. CASE UNCHANGED vars
    BY <1>1 DEF vars, workVars
  <1>2. CASE Next
    <2>0. UNCHANGED world
      BY <1>2 DEF Next
    <2>1. CASE \/ EnterWorkspace \/ OpenWorkspace \/ Populate \/ Populated \/ Edit \/ Begin \/ Use \/ ResetDone
               \/ Exported \/ Leave \/ Finish \/ CloseWorkspace \/ ChildKilled
      BY <1>0, <2>0, <2>1, WorkspaceCalm DEF Calm
    <2>2. CASE \/ Qualify \/ QualifyAgain \/ Qualified \/ Acquire \/ Materialize \/ TakeHandle \/ Materialized \/ Execute
               \/ ExecuteAgain \/ Launch \/ SendState \/ SendPrompt \/ CloseStdin \/ PeerSays \/ PeerTears \/ Conclude
               \/ Report \/ Interrupt \/ CloseHandle \/ JoinAndRelease \/ Relinquish \/ LoseControl \/ Crash
               \/ \E clean \in BOOLEAN : PeerExits(clean)
      BY <1>0, <2>0, <2>2, InvocationCalm DEF Calm
    <2>3. CASE \/ Operate \/ Captured \/ Imported \/ Publish \/ PublishReads \/ Published \/ Fail
               \/ \E ok \in BOOLEAN : ChildEnds(ok)
      BY <2>3 DEF Operate, Captured, Imported, Publish, PublishReads, Published, Fail, ChildEnds
    <2>4. CASE \E busy \in BOOLEAN : PublishLands(busy)
      BY <2>4 DEF PublishLands, Publishes
    <2>5. CASE Reconcile \/ \E x \in Parties : DisposeReads(x) \/ DisposeGuard(x) \/ RemovePayload(x)
      BY <2>0, <2>5, PartiesCalm DEF Calm
    <2>6. CASE \E x \in Parties, busy \in BOOLEAN : DisposeLands(x, busy)
      BY <2>6 DEF DisposeLands
    <2> QED BY <1>2, <2>1, <2>2, <2>3, <2>4, <2>5, <2>6
          DEF Next, HostStep, WorkspaceStep, Disposal, DisposalStep
  <1> QED BY <1>1, <1>2

\* CandidateIsSound: the ref names a commit that was verified and imported (pack.py), and what a
\* capture returned until a party discards it; and once an acquisition is revoked its publication
\* (AcquisitionClosure.publish) cannot land, also from a host that was displaced or died.
THEOREM CandidatesAreSound == Spec => CandidateIsSound
  <1>1. Init => Verified /\ Kept
    <2> SUFFICES ASSUME Init PROVE Verified /\ Kept
      OBVIOUS
    <2>1. h = NewHost /\ candidate = NoCommit /\ pub = [at |-> "none", tries |-> 0, seen |-> NoCommit]
      BY DEF Init, WorkInit
    <2>2. h.at = "new" /\ h.returned = NoCommit /\ pub.at = "none" /\ DOMAIN pub = PubFields
      BY <2>1 DEF NewHost, PubFields
    <2> QED BY <2>1, <2>2 DEF Verified, Kept
  <1>2. Custody /\ Verified /\ Kept /\ [Next]_vars => Verified' /\ Kept'
    BY NextCandidate
  <1>3. /\ Verified => (candidate # NoCommit => candidate \in objects)
        /\ Kept => (h.returned # NoCommit /\ "discard" \notin {world.own, world.next} => candidate = h.returned)
    BY DEF Verified, Kept
  <1>4. Custody /\ [Next]_vars => [closed["w"] => candidate' \in {candidate, NoCommit}]_vars
    BY ClosedPublishesNothing
  <1> QED BY <1>1, <1>2, <1>3, <1>4, CustodyHolds, PTL DEF Spec, CandidateIsSound
-----------------------------------------------------------------------------
(***************************************************************************)
(* The exchange.  While the decoder is neither damaged nor refused, every  *)
(* field it judges by stands for the records it was computed from (Tells): *)
(* its flags for the one record of a kind, its sequences for the messages  *)
(* themselves, the stage of a read for the records about it.  A record     *)
(* that is accepted is one of few moves, and each of them keeps each part. *)
(***************************************************************************)
IsSeq(q) == \E S : q \in Seq(S)
One(S) == \E x : S = {x}

DecoderFields ==
    {"gen", "frame", "torn", "count", "expected", "state", "accepted", "eof", "started", "ended", "settled", "turn",
     "role", "user", "messages", "assistant", "completion", "results", "call", "content", "final", "damaged", "refused"}
Flags == {"state", "accepted", "started", "ended", "settled", "turn", "user", "final"}
ReadStages == {"none", "declared", "started", "ended", "answered"}

DecoderTypes(a) ==
    /\ DOMAIN a = DecoderFields
    /\ \A x \in Flags : a[x] \in BOOLEAN
    /\ a.gen \in Nat /\ a.expected \in {"", "get_state", "prompt"}
    /\ a.call \in [Calls -> ReadStages] /\ DOMAIN a.content = Calls
    /\ IsSeq(a.messages) /\ IsSeq(a.assistant) /\ IsSeq(a.results)

\* Which request is open, and what was answered.
Asked(a) ==
    /\ a.gen = 0 => a.expected = "" /\ ~ a.state
    /\ a.expected = "get_state" => a.gen = 1 /\ ~ a.state
    /\ a.expected = "prompt" => a.gen = 2 /\ a.state /\ ~ a.accepted
    /\ a.accepted => a.gen = 2 /\ a.state
    /\ ~ a.state => a.gen < 2

\* The replies among the records.
RepliesTold(a, s) ==
    /\ \A i \in Kind(s, "response") : s[i].body = "ok" /\ s[i].id \in {"get_state", "prompt"}
    /\ IF a.state THEN Of(s, "response", "get_state") = {1} ELSE s = <<>>
    /\ IF a.accepted THEN One(Of(s, "response", "prompt")) ELSE Of(s, "response", "prompt") = {}

\* The bounds of the run.
RunTold(a, s) ==
    /\ IF a.started THEN One(Kind(s, "agent_start")) ELSE Kind(s, "agent_start") = {} /\ Kind(s, "turn_start") = {}
    /\ IF a.ended THEN One(Kind(s, "agent_end")) ELSE Kind(s, "agent_end") = {}
    /\ IF a.settled THEN One(Kind(s, "settled")) ELSE Kind(s, "settled") = {}
    /\ Before(Kind(s, "agent_start"), Kind(s, "turn_start"))
    /\ Before(Kind(s, "turn_end"), Kind(s, "agent_end"))
    /\ Before(Kind(s, "agent_end"), Kind(s, "settled"))
    /\ a.turn => a.started /\ ~ a.ended
    /\ a.ended => a.started
    /\ a.settled => a.ended

Answers(s) == Of(s, "message_end", "assistant")

\* Turns, and the one answer of each.
TurnsTold(a, s) ==
    /\ Cardinality(Kind(s, "turn_start")) = Cardinality(Kind(s, "turn_end")) + (IF a.turn THEN 1 ELSE 0)
    /\ Cardinality(Answers(s)) = Cardinality(Kind(s, "turn_end")) + (IF a.turn /\ a.assistant # <<>> THEN 1 ELSE 0)

\* The prompt, before every answer.
UserTold(a, s) ==
    /\ IF a.user THEN \E i : Of(s, "message_end", "user") = {i} /\ s[i].body = "ok"
                 ELSE Of(s, "message_end", "user") = {} /\ Answers(s) = {}
    /\ Before(Of(s, "message_end", "user"), Answers(s))

\* The final answer, behind every other and behind every result.
FinalTold(a, s) ==
    /\ IF a.final THEN One(Stops(s)) /\ Answered(a) /\ Declared(a) # {} ELSE Stops(s) = {}
    /\ Before(Answers(s) \ Stops(s), Stops(s))
    /\ Before(Of(s, "message_end", "toolResult"), Stops(s))

\* A read, by the stage it has reached.
ReadTold(a, s, k) ==
    LET declared == About(s, "message_end", "assistant", k)
        started == About(s, "execution", "start", k)
        ended == About(s, "execution", "end", k)
        answered == About(s, "message_end", "toolResult", k)
    IN  /\ IF a.call[k] = "none" THEN declared = {} ELSE One(declared)
        /\ IF a.call[k] \in {"none", "declared"} THEN started = {} ELSE One(started)
        /\ IF a.call[k] \in {"ended", "answered"}
           THEN a.content[k] # "error" /\ \E i : ended = {i} /\ s[i].body = a.content[k]
           ELSE ended = {}
        /\ IF a.call[k] = "answered" THEN \E i : answered = {i} /\ s[i].body = a.content[k] ELSE answered = {}
        /\ Before(declared, started) /\ Before(started, ended) /\ Before(ended, answered)

\* The messages the decoder keeps, and the copies it compared with them.
CopiesTold(a, s) ==
    /\ Lists(a.messages, s, Kind(s, "message_end"))
    /\ a.turn => Lists(a.assistant \o a.results, s, InTurn(s, Len(s)))
    /\ a.turn /\ a.assistant = <<>> => a.results = <<>>
    /\ (a.turn => a.assistant = <<>>) => Answered(a)
    /\ TrueCopies(s)

Tells(a, s) ==
    /\ IsSeq(s) /\ DecoderTypes(a) /\ Asked(a) /\ RepliesTold(a, s) /\ RunTold(a, s) /\ TurnsTold(a, s)
    /\ UserTold(a, s) /\ FinalTold(a, s) /\ (\A k \in Calls : ReadTold(a, s, k)) /\ CopiesTold(a, s)

-----------------------------------------------------------------------------
\* What a client's record looks like.
Shape(r) ==
    /\ r.kind = "message_end" => r.id \in Roles /\ (r.id = "toolResult" => \E k \in Calls : r.calls = {k})
    /\ r.kind = "message_update" => r.id \in {"delta", "error", "done"}
    /\ r.kind = "execution" => r.id \in {"start", "update", "end"} /\ \E k \in Calls : r.calls = {k}

\* The fields that stand for records; X changes, and the others do not.
Told ==
    {"gen", "expected", "state", "accepted", "started", "ended", "settled", "turn", "user", "messages", "assistant",
     "results", "call", "content", "final"}
Same(a, b, X) == \A x \in Told \ X : b[x] = a[x]

\* The moves of a decoder that accepts a record.
Replied(a, b, r) ==
    /\ r.kind = "response" /\ r.body = "ok" /\ r.id = a.expected /\ b.expected = ""
    /\ \/ r.id = "get_state" /\ b.state = TRUE /\ Same(a, b, {"expected", "state"})
       \/ r.id = "prompt" /\ b.accepted = TRUE /\ Same(a, b, {"expected", "accepted"})
Open(a) == a.state = TRUE /\ a.gen = 2 /\ a.settled = FALSE
Begun(a, b, r) == r.kind = "agent_start" /\ a.started = FALSE /\ b.started = TRUE /\ Same(a, b, {"started"})
TurnBegun(a, b, r) ==
    /\ r.kind = "turn_start" /\ a.started = TRUE /\ a.turn = FALSE /\ a.ended = FALSE /\ a.final = FALSE
    /\ b.turn = TRUE /\ b.assistant = <<>> /\ b.results = <<>> /\ Same(a, b, {"turn", "assistant", "results"})
Noted(a, b, r) ==
    /\ r.kind \in {"message_start", "message_update"} \/ (r.kind = "execution" /\ r.id = "update")
    /\ Same(a, b, {})
Messaged(a, b, r) == r.kind = "message_end" /\ a.turn = TRUE /\ b.messages = Append(a.messages, r)
SystemSaid(a, b, r) == Messaged(a, b, r) /\ r.id = "system" /\ Same(a, b, {"messages"})
UserSaid(a, b, r) ==
    /\ Messaged(a, b, r) /\ r.id = "user" /\ r.body = "ok" /\ a.user = FALSE /\ b.user = TRUE
    /\ Same(a, b, {"messages", "user"})
ResultSaid(a, b, r) ==
    /\ Messaged(a, b, r) /\ r.id = "toolResult" /\ Same(a, b, {"messages", "results", "call"})
    /\ b.results = Append(a.results, r)
    /\ \E k \in Calls : /\ r.calls = {k} /\ a.call[k] = "ended" /\ r.body = a.content[k]
                        /\ b.call = [a.call EXCEPT ![k] = "answered"]
AssistantSaid(a, b, r) ==
    /\ Messaged(a, b, r) /\ r.id = "assistant" /\ a.user = TRUE /\ a.assistant = <<>> /\ a.final = FALSE
    /\ b.assistant = <<r>>
StopSaid(a, b, r) ==
    /\ AssistantSaid(a, b, r) /\ r.body = "stop" /\ r.calls = {} /\ Declared(a) # {} /\ Answered(a)
    /\ b.final = TRUE /\ Same(a, b, {"messages", "assistant", "final"})
UseSaid(a, b, r) ==
    /\ AssistantSaid(a, b, r) /\ r.body = "toolUse" /\ r.calls \cap Declared(a) = {}
    /\ b.call = [k \in Calls |-> IF k \in r.calls THEN "declared" ELSE a.call[k]]
    /\ Same(a, b, {"messages", "assistant", "call"})
ReadBegun(a, b, r) ==
    /\ r.kind = "execution" /\ r.id = "start" /\ a.turn = TRUE /\ Same(a, b, {"call"})
    /\ \E k \in Calls : r.calls = {k} /\ a.call[k] = "declared" /\ b.call = [a.call EXCEPT ![k] = "started"]
ReadEnded(a, b, r) ==
    /\ r.kind = "execution" /\ r.id = "end" /\ r.body # "error" /\ a.turn = TRUE /\ Same(a, b, {"call", "content"})
    /\ \E k \in Calls : /\ r.calls = {k} /\ a.call[k] = "started" /\ b.call = [a.call EXCEPT ![k] = "ended"]
                        /\ b.content = [a.content EXCEPT ![k] = r.body]
TurnEnded(a, b, r) ==
    /\ r.kind = "turn_end" /\ a.turn = TRUE /\ a.assistant # <<>> /\ r.copy = a.assistant \o a.results /\ Answered(a)
    /\ b.turn = FALSE /\ Same(a, b, {"turn"})
RunEnded(a, b, r) ==
    /\ r.kind = "agent_end" /\ a.started = TRUE /\ a.ended = FALSE /\ a.turn = FALSE /\ a.final = TRUE
    /\ r.copy = a.messages /\ b.ended = TRUE /\ Same(a, b, {"ended"})
Settled(a, b, r) == r.kind = "settled" /\ a.ended = TRUE /\ b.settled = TRUE /\ Same(a, b, {"settled"})

\* One accepted record.
Moves(a, b, r) ==
    \/ Replied(a, b, r)
    \/ /\ Open(a)
       /\ \/ Begun(a, b, r) \/ TurnBegun(a, b, r) \/ Noted(a, b, r) \/ SystemSaid(a, b, r) \/ UserSaid(a, b, r)
          \/ ResultSaid(a, b, r) \/ StopSaid(a, b, r) \/ UseSaid(a, b, r) \/ ReadBegun(a, b, r) \/ ReadEnded(a, b, r)
          \/ TurnEnded(a, b, r) \/ RunEnded(a, b, r) \/ Settled(a, b, r)

\* The only element of a set is the one The names.
LEMMA TheOne == ASSUME NEW k PROVE The({k}) = k
  BY DEF The

\* Appending, with positions.
LEMMA Appended ==
  ASSUME NEW q, NEW r, IsSeq(q)
  PROVE  /\ IsSeq(Append(q, r)) /\ Len(q) \in Nat /\ Len(Append(q, r)) = Len(q) + 1
         /\ Append(q, r)[Len(q) + 1] = r
         /\ \A i \in 1 .. Len(q) : Append(q, r)[i] = q[i]
  <1>1. PICK S : q \in Seq(S)
    BY DEF IsSeq
  <1>2. DEFINE U == S \cup {r}
  <1>3. q \in Seq(U) /\ r \in U
    BY <1>1
  <1>4. Append(q, r) \in Seq(U)
    BY <1>3
  <1> QED BY <1>3, <1>4 DEF IsSeq

\* Where the records of a kind stand once one more is there.
LEMMA KindGrows ==
  ASSUME NEW s, NEW r, IsSeq(s)
  PROVE  /\ \A kind : r.kind = kind => Kind(Append(s, r), kind) = Kind(s, kind) \cup {Len(s) + 1}
         /\ \A kind : r.kind # kind => Kind(Append(s, r), kind) = Kind(s, kind)
         /\ \A kind : Kind(s, kind) \subseteq 1 .. Len(s)
  BY Appended DEF Kind
\* One more record: the places of a kind and name,
LEMMA OfGrows ==
  ASSUME NEW s, NEW r, IsSeq(s)
  PROVE  /\ \A kind, id : r.kind = kind /\ r.id = id => Of(Append(s, r), kind, id) = Of(s, kind, id) \cup {Len(s) + 1}
         /\ \A kind, id : ~ (r.kind = kind /\ r.id = id) => Of(Append(s, r), kind, id) = Of(s, kind, id)
         /\ \A kind, id : Of(s, kind, id) \subseteq 1 .. Len(s)
  BY Appended DEF Kind, Of
\* of those about a read,
LEMMA AboutGrows ==
  ASSUME NEW s, NEW r, IsSeq(s)
  PROVE  /\ \A kind, id, k : r.kind = kind /\ r.id = id /\ k \in r.calls =>
              About(Append(s, r), kind, id, k) = About(s, kind, id, k) \cup {Len(s) + 1}
         /\ \A kind, id, k : ~ (r.kind = kind /\ r.id = id /\ k \in r.calls) =>
              About(Append(s, r), kind, id, k) = About(s, kind, id, k)
         /\ \A kind, id, k : About(s, kind, id, k) \subseteq 1 .. Len(s)
  BY Appended DEF Kind, Of, About
\* of the final answers,
LEMMA StopsGrow ==
  ASSUME NEW s, NEW r, IsSeq(s)
  PROVE  /\ r.kind = "message_end" /\ r.id = "assistant" /\ r.body = "stop" => Stops(Append(s, r)) = Stops(s) \cup {Len(s) + 1}
         /\ ~ (r.kind = "message_end" /\ r.id = "assistant" /\ r.body = "stop") => Stops(Append(s, r)) = Stops(s)
         /\ Stops(s) \subseteq 1 .. Len(s)
  BY Appended DEF Kind, Of, Stops

\* and of the messages of the turn under way.
LEMMA TurnGrows ==
  ASSUME NEW s, NEW r, IsSeq(s)
  PROVE  LET t == Append(s, r)
             n == Len(s) + 1
         IN  /\ \A i \in 1 .. Len(s) : InTurn(t, i) = InTurn(s, i)
             /\ r.kind = "turn_start" => InTurn(t, n) = {}
             /\ r.kind = "message_end" /\ r.id \in {"assistant", "toolResult"} => InTurn(t, n) = InTurn(s, Len(s)) \cup {n}
             /\ r.kind # "turn_start" /\ ~ (r.kind = "message_end" /\ r.id \in {"assistant", "toolResult"}) =>
                  InTurn(t, n) = InTurn(s, Len(s))
             /\ InTurn(s, Len(s)) \subseteq 1 .. Len(s)
             /\ \A i : InTurn(s, i) \subseteq 1 .. Len(s)
  <1> DEFINE t == Append(s, r)
             n == Len(s) + 1
             M(q) == Of(q, "message_end", "assistant") \cup Of(q, "message_end", "toolResult")
  <1>1. /\ Len(s) \in Nat /\ Len(t) = n /\ t[n] = r
        /\ \A i \in 1 .. Len(s) : t[i] = s[i]
    BY Appended
  <1>2. /\ M(s) \subseteq 1 .. Len(s)
        /\ r.kind = "message_end" /\ r.id \in {"assistant", "toolResult"} => M(t) = M(s) \cup {n}
        /\ ~ (r.kind = "message_end" /\ r.id \in {"assistant", "toolResult"}) => M(t) = M(s)
    BY <1>1, OfGrows
  <1>3. \A q, i : InTurn(q, i) = {j \in M(q) : j <= i /\ \A l \in j .. i : q[l].kind # "turn_start"}
    BY DEF InTurn
  <1> HIDE DEF t, n, M
  <1>4. ASSUME NEW i \in 1 .. Len(s) PROVE InTurn(t, i) = InTurn(s, i)
    <2>1. \A j \in 1 .. Len(s) : \A l \in j .. i : t[l] = s[l]
      BY <1>1
    <2>2. \A j \in 1 .. Len(s) : j \in M(t) <=> j \in M(s)
      BY <1>1, <1>2 DEF n
    <2>3. \A j \in M(t) : j <= i => j \in 1 .. Len(s)
      BY <1>1, <1>2 DEF n
    <2> QED BY <1>2, <1>3, <2>1, <2>2, <2>3
  <1>5. ASSUME NEW j \in M(s) PROVE (\A l \in j .. n : t[l].kind # "turn_start") <=> r.kind # "turn_start" /\ \A l \in j .. Len(s) : s[l].kind # "turn_start"
    <2>1. j \in 1 .. Len(s)
      BY <1>2
    <2>2. \A l \in j .. Len(s) : t[l] = s[l]
      BY <1>1, <2>1
    <2>3. j .. n = (j .. Len(s)) \cup {n}
      BY <1>1, <2>1 DEF n
    <2> QED BY <1>1, <2>2, <2>3
  <1>6. \A j \in M(s) : j <= n /\ j <= Len(s)
    BY <1>1, <1>2 DEF n
  <1>7. r.kind = "message_end" => n <= n /\ \A l \in n .. n : t[l].kind # "turn_start"
    BY <1>1 DEF n
  <1>8. r.kind = "turn_start" => InTurn(t, n) = {}
    BY <1>2, <1>3, <1>5
  <1>9. r.kind = "message_end" /\ r.id \in {"assistant", "toolResult"} => InTurn(t, n) = InTurn(s, Len(s)) \cup {n}
    <2> SUFFICES ASSUME r.kind = "message_end", r.id \in {"assistant", "toolResult"} PROVE InTurn(t, n) = InTurn(s, Len(s)) \cup {n}
      OBVIOUS
    <2>1. M(t) = M(s) \cup {n}
      BY <1>2
    <2>2. \A j \in M(t) : (j <= n /\ \A l \in j .. n : t[l].kind # "turn_start") <=>
             j = n \/ (j \in M(s) /\ j <= Len(s) /\ \A l \in j .. Len(s) : s[l].kind # "turn_start")
      BY <1>5, <1>6, <1>7, <2>1
    <2> QED BY <1>3, <2>1, <2>2
  <1>10. r.kind # "turn_start" /\ ~ (r.kind = "message_end" /\ r.id \in {"assistant", "toolResult"}) => InTurn(t, n) = InTurn(s, Len(s))
    BY <1>2, <1>3, <1>5, <1>6
  <1>11. \A i : InTurn(s, i) \subseteq 1 .. Len(s)
    BY <1>2, <1>3
  <1> QED BY <1>4, <1>8, <1>9, <1>10, <1>11 DEF t, n

\* A set of positions is finite, and the number of those up to one of them is a place in its list.
LEMMA Places ==
  ASSUME NEW n \in Nat, NEW P, P \subseteq 1 .. n
  PROVE  /\ IsFiniteSet(P) /\ Cardinality(P) \in Nat
         /\ \A i \in P : Cardinality({j \in P : j <= i}) \in 1 .. Cardinality(P)
         /\ \A m : m \notin P => Cardinality(P \cup {m}) = Cardinality(P) + 1
  <1>1. IsFiniteSet(1 .. n)
    BY FS_Interval
  <1>2. IsFiniteSet(P) /\ Cardinality(P) \in Nat
    BY <1>1, FS_Subset, FS_CardinalityType
  <1>3. ASSUME NEW i \in P PROVE Cardinality({j \in P : j <= i}) \in 1 .. Cardinality(P)
    <2> DEFINE Q == {j \in P : j <= i}
    <2>1. Q \subseteq P /\ i \in Q
      OBVIOUS
    <2>2. IsFiniteSet(Q) /\ Cardinality(Q) \in Nat /\ Cardinality(Q) <= Cardinality(P)
      BY <1>2, <2>1, FS_Subset, FS_CardinalityType
    <2>3. Cardinality(Q) # 0
      BY <2>1, <2>2, FS_EmptySet
    <2> QED BY <1>2, <2>2, <2>3
  <1>4. \A m : m \notin P => Cardinality(P \cup {m}) = Cardinality(P) + 1
    BY <1>2, FS_AddElement
  <1> QED BY <1>2, <1>3, <1>4

\* A list of positions, when the last record is one of them, and when it is not.
LEMMA ListsKept ==
  ASSUME NEW s, NEW r, IsSeq(s), NEW P, P \subseteq 1 .. Len(s), NEW copy, Lists(copy, s, P)
  PROVE  Lists(copy, Append(s, r), P)
  BY Appended DEF Lists

\* A copy with the new record at its end lists the places with the new one.
LEMMA ListsGrow ==
  ASSUME NEW s, NEW r, IsSeq(s), NEW P, P \subseteq 1 .. Len(s), NEW copy, IsSeq(copy), Lists(copy, s, P)
  PROVE  Lists(Append(copy, r), Append(s, r), P \cup {Len(s) + 1})
  <1> DEFINE n == Len(s) + 1
             Q == P \cup {n}
  <1>1. /\ Len(s) \in Nat /\ Append(s, r)[n] = r
        /\ \A i \in 1 .. Len(s) : Append(s, r)[i] = s[i]
    BY Appended
  <1>2. n \notin P /\ Cardinality(P) \in Nat /\ Cardinality(Q) = Cardinality(P) + 1
    <2>1. n \notin P
      BY <1>1
    <2> HIDE DEF n
    <2> QED BY <1>1, <2>1, Places
  <1>3. /\ Len(copy) = Cardinality(P) /\ Len(Append(copy, r)) = Len(copy) + 1
        /\ Append(copy, r)[Len(copy) + 1] = r
        /\ \A i \in 1 .. Len(copy) : Append(copy, r)[i] = copy[i]
    BY Appended DEF Lists
  <1>4. ASSUME NEW i \in Q PROVE Append(copy, r)[Cardinality({j \in Q : j <= i})] = Append(s, r)[i]
    <2>1. CASE i = n
      <3>1. \A j \in Q : j <= n
        BY <1>1
      <3>2. {j \in Q : j <= i} = Q
        BY <2>1, <3>1
      <3> QED BY <1>1, <1>2, <1>3, <2>1, <3>2
    <2>2. CASE i \in P
      <3>1. {j \in Q : j <= i} = {j \in P : j <= i}
        BY <1>1, <2>2
      <3>2. Cardinality({j \in P : j <= i}) \in 1 .. Cardinality(P)
        BY <1>1, <2>2, Places
      <3>3. copy[Cardinality({j \in P : j <= i})] = s[i]
        BY <2>2 DEF Lists
      <3>4. Append(s, r)[i] = s[i]
        BY <1>1, <2>2
      <3> QED BY <1>3, <3>1, <3>2, <3>3, <3>4
    <2> QED BY <2>1, <2>2
  <1> QED BY <1>2, <1>3, <1>4 DEF Lists

\* Damage and refusal show.
LEMMA Marks ==
  ASSUME NEW a, DOMAIN a = DecoderFields
  PROVE  Damage(a).damaged = TRUE /\ Decline(a).refused = TRUE
  BY DEF Damage, Decline, DecoderFields

\* A reply that is accepted is the open request's, and good.
LEMMA ReplyMoves ==
  ASSUME NEW a, NEW r, NEW b, DecoderTypes(a), b = Response(a, r), ~ b.damaged, ~ b.refused, r.kind = "response"
  PROVE  DOMAIN b = DecoderFields /\ Replied(a, b, r)
  <1>1. DOMAIN a = DecoderFields /\ a.expected \in {"", "get_state", "prompt"}
    BY DEF DecoderTypes
  <1>2. a.expected # "" /\ r.id = a.expected
    BY <1>1, Marks DEF Response
  <1> DEFINE e == [a EXCEPT !.expected = ""]
  <1>3. DOMAIN e = DecoderFields /\ e.expected = "" /\ \A x \in DecoderFields \ {"expected"} : e[x] = a[x]
    BY <1>1 DEF DecoderFields
  <1>4. b = CASE r.body = "ok" /\ r.id = "get_state" -> [e EXCEPT !.state = TRUE]
              [] r.body = "ok" /\ r.id = "prompt" -> [e EXCEPT !.accepted = TRUE]
              [] r.body = "shapeless" -> Damage(e)
              [] OTHER -> Decline(e)
    BY <1>1, <1>2, Marks DEF Response
  <1> HIDE DEF e
  <1>5. CASE r.body = "ok" /\ r.id = "get_state"
    <2>1. b = [e EXCEPT !.state = TRUE]
      BY <1>4, <1>5
    <2> QED BY <1>2, <1>3, <1>5, <2>1 DEF DecoderFields, Told, Same, Replied
  <1>6. CASE r.body = "ok" /\ r.id = "prompt"
    <2>1. b = [e EXCEPT !.accepted = TRUE]
      BY <1>4, <1>6
    <2> QED BY <1>2, <1>3, <1>6, <2>1 DEF DecoderFields, Told, Same, Replied
  <1>7. CASE r.body # "ok"
    <2>1. b = Damage(e) \/ b = Decline(e)
      BY <1>4, <1>7
    <2> QED BY <1>3, <2>1, Marks
  <1> QED BY <1>1, <1>2, <1>5, <1>6, <1>7

\* The events of the run and of a turn.
LEMMA BoundMoves ==
  ASSUME NEW a, NEW r, NEW b, DecoderTypes(a), Open(a), b = Event(a, r), ~ b.damaged, ~ b.refused,
         r.kind \in {"agent_start", "turn_start", "turn_end", "agent_end", "settled"}
  PROVE  /\ DOMAIN b = DecoderFields
         /\ Begun(a, b, r) \/ TurnBegun(a, b, r) \/ TurnEnded(a, b, r) \/ RunEnded(a, b, r) \/ Settled(a, b, r)
  <1>1. DOMAIN a = DecoderFields /\ \A x \in Flags : a[x] \in BOOLEAN
    BY DEF DecoderTypes
  <1>2. CASE r.kind = "agent_start"
    <2>1. b = IF a.started THEN Damage(a) ELSE [a EXCEPT !.started = TRUE]
      BY <1>2 DEF Event, Open
    <2>2. a.started = FALSE /\ b = [a EXCEPT !.started = TRUE]
      BY <1>1, <2>1, Marks DEF Flags
    <2> QED BY <1>1, <1>2, <2>2 DEF DecoderFields, Told, Same, Begun
  <1>3. CASE r.kind = "turn_start"
    <2>1. b = TurnStart(a)
      BY <1>3 DEF Event, Open
    <2>2. /\ a.started = TRUE /\ a.turn = FALSE /\ a.ended = FALSE /\ a.final = FALSE
          /\ b = [a EXCEPT !.turn = TRUE, !.assistant = <<>>, !.results = <<>>]
      BY <1>1, <2>1, Marks DEF Flags, TurnStart
    <2> QED BY <1>1, <1>3, <2>2 DEF DecoderFields, Told, Same, TurnBegun
  <1>4. CASE r.kind = "turn_end"
    <2>1. b = TurnEnd(a, r)
      BY <1>4 DEF Event, Open
    <2>2. /\ a.turn = TRUE /\ a.assistant # <<>> /\ r.copy = a.assistant \o a.results /\ Answered(a)
          /\ b = [a EXCEPT !.turn = FALSE]
      BY <1>1, <2>1, Marks DEF Flags, TurnEnd
    <2> QED BY <1>1, <1>4, <2>2 DEF DecoderFields, Told, Same, TurnEnded
  <1>5. CASE r.kind = "agent_end"
    <2>1. b = AgentEnd(a, r)
      BY <1>5 DEF Event, Open
    <2>2. /\ a.started = TRUE /\ a.ended = FALSE /\ a.turn = FALSE /\ a.final = TRUE /\ r.copy = a.messages
          /\ b = [a EXCEPT !.ended = TRUE]
      BY <1>1, <2>1, Marks DEF Flags, AgentEnd
    <2> QED BY <1>1, <1>5, <2>2 DEF DecoderFields, Told, Same, RunEnded
  <1>6. CASE r.kind = "settled"
    <2> DEFINE e == [a EXCEPT !.settled = TRUE]
    <2>1. b = Settle(a, r)
      BY <1>6 DEF Event, Open
    <2>2. DOMAIN e = DecoderFields
      BY <1>1
    <2>3. a.ended = TRUE /\ b = e
      BY <1>1, <2>1, <2>2, Marks DEF Flags, Settle
    <2> QED BY <1>1, <1>6, <2>3 DEF DecoderFields, Told, Same, Settled
  <1> QED BY <1>2, <1>3, <1>4, <1>5, <1>6

\* The records around a message, and those of a read.
LEMMA ReadMoves ==
  ASSUME NEW a, NEW r, NEW b, DecoderTypes(a), Open(a), b = Event(a, r), ~ b.damaged, ~ b.refused, Shape(r),
         r.kind \in {"message_start", "message_update", "execution"}
  PROVE  /\ DOMAIN b = DecoderFields
         /\ Noted(a, b, r) \/ ReadBegun(a, b, r) \/ ReadEnded(a, b, r)
  <1>1. DOMAIN a = DecoderFields /\ \A x \in Flags : a[x] \in BOOLEAN
    BY DEF DecoderTypes
  <1>2. CASE r.kind = "message_start"
    <2>1. b = MessageStart(a, r)
      BY <1>2 DEF Event, Open
    <2>2. b = [a EXCEPT !.role = r.id]
      BY <1>1, <2>1, Marks DEF MessageStart
    <2> QED BY <1>1, <1>2, <2>2 DEF DecoderFields, Told, Same, Noted
  <1>3. CASE r.kind = "message_update"
    <2> DEFINE e == [a EXCEPT !.completion = <<r.body, r.calls>>]
    <2>1. b = Update(a, r) /\ r.id \in {"delta", "error", "done"}
      BY <1>3 DEF Event, Open, Shape
    <2>2. DOMAIN e = DecoderFields
      BY <1>1
    <2>3. b = a \/ b = e
      BY <1>1, <2>1, <2>2, Marks DEF Update
    <2> QED BY <1>1, <1>3, <2>3 DEF DecoderFields, Told, Same, Noted
  <1>4. CASE r.kind = "execution"
    <2>1. b = Execution(a, r) /\ r.id \in {"start", "update", "end"}
      BY <1>4 DEF Event, Open, Shape
    <2>2. PICK k \in Calls : r.calls = {k}
      BY <1>4 DEF Shape
    <2>3. The(r.calls) = k
      BY <2>2, TheOne
    <2>4. a.turn = TRUE
      BY <1>1, <2>1, Marks DEF Execution, Flags
    <2>5. DOMAIN a.call = Calls /\ DOMAIN a.content = Calls
      BY DEF DecoderTypes
    <2>6. CASE r.id = "start"
      <3>1. a.call[k] = "declared" /\ b = [a EXCEPT !.call[k] = "started"]
        BY <1>1, <2>1, <2>3, <2>4, <2>6, Marks DEF Execution
      <3>2. DOMAIN b = DecoderFields /\ b.call = [a.call EXCEPT ![k] = "started"] /\ \A x \in DecoderFields \ {"call"} : b[x] = a[x]
        BY <1>1, <3>1 DEF DecoderFields
      <3> QED BY <1>4, <2>2, <2>4, <2>6, <3>1, <3>2 DEF ReadBegun, Same, Told, DecoderFields
    <2>7. CASE r.id = "update"
      <3>1. b = a
        BY <1>1, <2>1, <2>3, <2>4, <2>7, Marks DEF Execution
      <3> QED BY <1>1, <1>4, <2>7, <3>1 DEF Noted, Same
    <2>8. CASE r.id = "end"
      <3> DEFINE e == [a EXCEPT !.call[k] = "ended", !.content[k] = r.body]
      <3>1. DOMAIN e = DecoderFields
        BY <1>1
      <3>2. a.call[k] = "started" /\ r.body # "error" /\ b = e
        BY <1>1, <2>1, <2>3, <2>4, <2>8, <3>1, Marks DEF Execution
      <3>3. /\ b.call = [a.call EXCEPT ![k] = "ended"] /\ b.content = [a.content EXCEPT ![k] = r.body]
            /\ \A x \in DecoderFields \ {"call", "content"} : b[x] = a[x]
        BY <1>1, <3>2 DEF DecoderFields
      <3> QED BY <1>4, <2>2, <2>4, <2>8, <3>1, <3>2, <3>3 DEF ReadEnded, Same, Told, DecoderFields
    <2> QED BY <2>1, <2>6, <2>7, <2>8
  <1> QED BY <1>2, <1>3, <1>4

\* A completed message.
LEMMA MessageMoves ==
  ASSUME NEW a, NEW r, NEW b, DecoderTypes(a), Open(a), b = Event(a, r), ~ b.damaged, ~ b.refused, Shape(r),
         r.kind = "message_end"
  PROVE  /\ DOMAIN b = DecoderFields
         /\ SystemSaid(a, b, r) \/ UserSaid(a, b, r) \/ ResultSaid(a, b, r) \/ StopSaid(a, b, r) \/ UseSaid(a, b, r)
  <1>1. DOMAIN a = DecoderFields /\ \A x \in Flags : a[x] \in BOOLEAN
    BY DEF DecoderTypes
  <1>2. b = MessageEnd(a, r) /\ r.id \in Roles
    BY DEF Event, Open, Shape
  <1> DEFINE e == [a EXCEPT !.role = ""]
             f == CASE r.id = "system" -> SystemEnd(e, r)
                    [] r.id = "user" -> UserEnd(e, r)
                    [] r.id = "toolResult" -> ResultEnd(e, r)
                    [] r.id = "assistant" -> AssistantEnd(e, r)
  <1>3. DOMAIN e = DecoderFields /\ \A x \in Told : e[x] = a[x]
    BY <1>1 DEF DecoderFields, Told
  <1>4. a.turn = TRUE /\ b = [f EXCEPT !.messages = Append(@, r)]
    BY <1>1, <1>2, Marks DEF MessageEnd, Flags
  <1>5. Declared(e) = Declared(a) /\ (Answered(e) <=> Answered(a))
    BY <1>3 DEF Declared, Answered, Told
  <1> HIDE DEF e, f
  \* A message damages through the same update.
  <1>6. ASSUME NEW g, DOMAIN g = DecoderFields, f = Damage(g) \/ f = Decline(g) PROVE FALSE
    <2>1. DOMAIN f = DecoderFields /\ (f.damaged = TRUE \/ f.refused = TRUE)
      BY <1>6, Marks DEF Damage, Decline
    <2>2. b.damaged = f.damaged /\ b.refused = f.refused
      BY <1>4, <2>1 DEF DecoderFields
    <2> QED BY <2>1, <2>2
  <1>7. ASSUME DOMAIN f = DecoderFields
        PROVE  /\ DOMAIN b = DecoderFields /\ b.messages = Append(f.messages, r)
               /\ \A x \in DecoderFields \ {"messages"} : b[x] = f[x]
    BY <1>4, <1>7 DEF DecoderFields
  <1>8. CASE r.id = "system"
    <2>1. f = SystemEnd(e, r)
      BY <1>8 DEF f
    <2>2. f = e
      BY <1>3, <1>6, <2>1 DEF SystemEnd
    <2> QED BY <1>3, <1>4, <1>7, <1>8, <2>2 DEF DecoderFields, Told, Same, Messaged, SystemSaid
  <1>9. CASE r.id = "user"
    <2>1. f = UserEnd(e, r)
      BY <1>9 DEF f
    <2>2. ~ e.user /\ r.body = "ok" /\ f = [e EXCEPT !.user = TRUE]
      BY <1>3, <1>6, <2>1 DEF UserEnd
    <2>3. a.user = FALSE
      BY <1>1, <1>3, <2>2 DEF Flags, Told
    <2>4. DOMAIN f = DecoderFields /\ f.user = TRUE /\ \A x \in DecoderFields \ {"user"} : f[x] = e[x]
      BY <1>3, <2>2 DEF DecoderFields
    <2> QED BY <1>3, <1>4, <1>7, <1>9, <2>2, <2>3, <2>4 DEF DecoderFields, Told, Same, Messaged, UserSaid
  <1>10. CASE r.id = "toolResult"
    <2>1. f = ResultEnd(e, r)
      BY <1>10 DEF f
    <2>2. PICK k \in Calls : r.calls = {k}
      BY <1>10 DEF Shape
    <2>3. The(r.calls) = k
      BY <2>2, TheOne
    <2>4. e.call[k] = "ended" /\ r.body = e.content[k] /\ f = [e EXCEPT !.call[k] = "answered", !.results = Append(@, r)]
      BY <1>3, <1>6, <2>1, <2>3 DEF ResultEnd
    <2>5. /\ DOMAIN f = DecoderFields /\ f.call = [e.call EXCEPT ![k] = "answered"] /\ f.results = Append(e.results, r)
          /\ \A x \in DecoderFields \ {"call", "results"} : f[x] = e[x]
      BY <1>3, <2>4 DEF DecoderFields
    <2>6. /\ DOMAIN b = DecoderFields /\ Messaged(a, b, r) /\ Same(a, b, {"messages", "results", "call"})
          /\ b.results = Append(a.results, r) /\ b.call = [a.call EXCEPT ![k] = "answered"]
          /\ a.call[k] = "ended" /\ r.body = a.content[k]
      BY <1>3, <1>4, <1>7, <2>4, <2>5 DEF DecoderFields, Told, Same, Messaged
    <2> QED BY <1>10, <2>2, <2>6 DEF ResultSaid
  <1>11. CASE r.id = "assistant"
    <2> DEFINE g == [e EXCEPT !.assistant = <<r>>, !.completion = <<>>]
               h1 == [g EXCEPT !.final = TRUE]
               h2 == [g EXCEPT !.call = [k \in Calls |-> IF k \in r.calls THEN "declared" ELSE @[k]]]
    <2>1. f = AssistantEnd(e, r)
      BY <1>11 DEF f
    <2>2. DOMAIN g = DecoderFields /\ g.assistant = <<r>> /\ \A x \in DecoderFields \ {"assistant", "completion"} : g[x] = e[x]
      BY <1>3 DEF DecoderFields
    <2>3. DOMAIN h1 = DecoderFields /\ h1.final = TRUE /\ \A x \in DecoderFields \ {"final"} : h1[x] = g[x]
      BY <2>2 DEF DecoderFields
    <2>4. /\ DOMAIN h2 = DecoderFields /\ h2.call = [k \in Calls |-> IF k \in r.calls THEN "declared" ELSE g.call[k]]
          /\ \A x \in DecoderFields \ {"call"} : h2[x] = g[x]
      BY <2>2 DEF DecoderFields
    <2>5. e.user /\ e.assistant = <<>> /\ ~ e.final
      BY <1>3, <1>6, <2>1 DEF AssistantEnd
    <2>6. f = CASE r.body = "stop" -> IF r.calls # {} \/ Declared(e) = {} \/ ~ Answered(e) THEN Damage(e) ELSE h1
                [] r.body = "toolUse" /\ r.calls # {} -> IF r.calls \cap Declared(e) # {} THEN Damage(e) ELSE h2
                [] r.body = "blank" -> Damage(e)
                [] OTHER -> Decline(g)
      BY <1>3, <1>6, <2>1 DEF AssistantEnd
    <2> HIDE DEF g, h1, h2
    <2>7. a.user = TRUE /\ a.assistant = <<>> /\ a.final = FALSE
      BY <1>1, <1>3, <2>5 DEF Flags, Told
    <2>8. CASE r.body = "stop"
      <3>1. r.calls = {} /\ Declared(a) # {} /\ Answered(a) /\ f = h1
        BY <1>3, <1>5, <1>6, <2>6, <2>8
      <3>2. /\ DOMAIN b = DecoderFields /\ Messaged(a, b, r) /\ b.assistant = <<r>> /\ b.final = TRUE
            /\ Same(a, b, {"messages", "assistant", "final"})
        <4>1. DOMAIN f = DecoderFields /\ f.assistant = <<r>> /\ f.final = TRUE
          BY <2>2, <2>3, <3>1 DEF DecoderFields
        <4>2. \A x \in Told \ {"assistant", "final"} : f[x] = a[x]
          BY <1>3, <2>2, <2>3, <3>1 DEF DecoderFields, Told
        <4> QED BY <1>4, <1>7, <4>1, <4>2 DEF DecoderFields, Told, Same, Messaged
      <3> QED BY <1>11, <2>7, <2>8, <3>1, <3>2 DEF StopSaid, AssistantSaid
    <2>9. CASE r.body = "toolUse" /\ r.calls # {}
      <3>1. r.calls \cap Declared(a) = {} /\ f = h2
        BY <1>3, <1>5, <1>6, <2>6, <2>9
      <3>2. /\ DOMAIN b = DecoderFields /\ Messaged(a, b, r) /\ b.assistant = <<r>>
            /\ Same(a, b, {"messages", "assistant", "call"})
        <4>1. DOMAIN f = DecoderFields /\ f.assistant = <<r>>
          BY <2>2, <2>4, <3>1 DEF DecoderFields
        <4>2. \A x \in Told \ {"assistant", "call"} : f[x] = a[x]
          BY <1>3, <2>2, <2>4, <3>1 DEF DecoderFields, Told
        <4> QED BY <1>4, <1>7, <4>1, <4>2 DEF DecoderFields, Told, Same, Messaged
      <3>3. g.call = a.call /\ b.call = h2.call
        BY <1>3, <1>7, <2>2, <2>4, <3>1 DEF DecoderFields, Told
      <3>4. b.call = [k \in Calls |-> IF k \in r.calls THEN "declared" ELSE a.call[k]]
        BY <2>4, <3>3
      <3> QED BY <1>11, <2>7, <2>9, <3>1, <3>2, <3>4 DEF UseSaid, AssistantSaid
    <2>10. CASE ~ (r.body = "stop") /\ ~ (r.body = "toolUse" /\ r.calls # {})
      <3>1. f = Damage(e) \/ f = Decline(g)
        BY <2>6, <2>10
      <3> QED BY <1>3, <1>6, <2>2, <3>1
    <2> QED BY <2>8, <2>9, <2>10
  <1> QED BY <1>2, <1>8, <1>9, <1>10, <1>11 DEF Roles

\* Whatever is accepted is one of the moves.
LEMMA EventMoves ==
  ASSUME NEW a, NEW r, NEW b, DecoderTypes(a), b = Event(a, r), ~ b.damaged, ~ b.refused, Shape(r), r.kind # "response"
  PROVE  DOMAIN b = DecoderFields /\ Moves(a, b, r)
  <1>1. DOMAIN a = DecoderFields /\ \A x \in Flags : a[x] \in BOOLEAN
    BY DEF DecoderTypes
  <1>2. Open(a)
    BY <1>1, Marks DEF Event, Open, Flags
  <1>3. r.kind \in {"agent_start", "turn_start", "turn_end", "agent_end", "settled",
                    "message_start", "message_update", "execution", "message_end"}
    BY <1>1, <1>2, Marks DEF Event, Open
  <1>4. CASE r.kind \in {"agent_start", "turn_start", "turn_end", "agent_end", "settled"}
    BY <1>2, <1>4, BoundMoves DEF Moves
  <1>5. CASE r.kind \in {"message_start", "message_update", "execution"}
    BY <1>2, <1>5, ReadMoves DEF Moves
  <1>6. CASE r.kind = "message_end"
    BY <1>2, <1>6, MessageMoves DEF Moves
  <1> QED BY <1>3, <1>4, <1>5, <1>6

\* And what the moves leave has the types of a decoder.
LEMMA Retyped ==
  ASSUME NEW a, NEW b, NEW X, DecoderTypes(a), DOMAIN b = DecoderFields, Same(a, b, X), "gen" \notin X,
         \A x \in X \cap Flags : b[x] \in BOOLEAN,
         "expected" \in X => b.expected \in {"", "get_state", "prompt"},
         "call" \in X => b.call \in [Calls -> ReadStages],
         "content" \in X => DOMAIN b.content = Calls,
         "messages" \in X => IsSeq(b.messages),
         "assistant" \in X => IsSeq(b.assistant),
         "results" \in X => IsSeq(b.results)
  PROVE  DecoderTypes(b)
  <1>1. \A x \in Told : x \notin X => b[x] = a[x]
    BY DEF Same
  <1>2. Flags \subseteq Told
    BY DEF Flags, Told
  <1>3. \A x \in Flags : b[x] \in BOOLEAN
    BY <1>1, <1>2 DEF DecoderTypes
  <1>4. b.gen \in Nat /\ b.expected \in {"", "get_state", "prompt"}
    BY <1>1 DEF DecoderTypes, Told
  <1>5. b.call \in [Calls -> ReadStages] /\ DOMAIN b.content = Calls
    BY <1>1 DEF DecoderTypes, Told
  <1>6. IsSeq(b.messages) /\ IsSeq(b.assistant) /\ IsSeq(b.results)
    BY <1>1 DEF DecoderTypes, Told
  <1> QED BY <1>3, <1>4, <1>5, <1>6 DEF DecoderTypes

\* Every move leaves a decoder of its type.
LEMMA MovesTyped ==
  ASSUME NEW a, NEW r, NEW b, DecoderTypes(a), DOMAIN b = DecoderFields, Moves(a, b, r)
  PROVE  DecoderTypes(b)
  <1>1. IsSeq(<<>>) /\ IsSeq(<<r>>)
    BY <<>> \in Seq({}), <<r>> \in Seq({r}) DEF IsSeq
  <1>2. IsSeq(Append(a.messages, r)) /\ IsSeq(Append(a.results, r))
    BY Appended DEF DecoderTypes
  <1>3. a.call \in [Calls -> ReadStages]
    BY DEF DecoderTypes
  <1>4. \A k, x : x \in ReadStages => [a.call EXCEPT ![k] = x] \in [Calls -> ReadStages]
    BY <1>3
  <1>5. CASE Replied(a, b, r)
    <2>0. /\ {"expected", "state"} \cap Flags = {"state"} /\ {"expected", "accepted"} \cap Flags = {"accepted"}
          /\ b.expected \in {"", "get_state", "prompt"}
      BY <1>5 DEF Flags, Replied
    <2>1. CASE Same(a, b, {"expected", "state"}) /\ b.state = TRUE
      BY <2>0, <2>1, Retyped
    <2>2. CASE Same(a, b, {"expected", "accepted"}) /\ b.accepted = TRUE
      BY <2>0, <2>2, Retyped
    <2> QED BY <1>5, <2>1, <2>2 DEF Replied
  <1>6. CASE Begun(a, b, r)
    <2>1. Same(a, b, {"started"}) /\ b.started = TRUE
      BY <1>6 DEF Begun
    <2> QED BY <2>1, Retyped
  <1>7. CASE TurnBegun(a, b, r)
    <2>1. Same(a, b, {"turn", "assistant", "results"}) /\ b.turn = TRUE /\ b.assistant = <<>> /\ b.results = <<>>
      BY <1>7 DEF TurnBegun
    <2>2. {"turn", "assistant", "results"} \cap Flags = {"turn"} /\ IsSeq(b.assistant) /\ IsSeq(b.results)
      BY <1>1, <2>1 DEF Flags
    <2> QED BY <2>1, <2>2, Retyped
  <1>8. CASE Noted(a, b, r)
    <2>1. Same(a, b, {})
      BY <1>8 DEF Noted
    <2> QED BY <2>1, Retyped
  <1>9. CASE SystemSaid(a, b, r)
    <2>1. Same(a, b, {"messages"}) /\ IsSeq(b.messages)
      BY <1>2, <1>9 DEF SystemSaid, Messaged
    <2>2. {"messages"} \cap Flags = {}
      BY DEF Flags
    <2> QED BY <2>1, <2>2, Retyped
  <1>10. CASE UserSaid(a, b, r)
    <2>1. Same(a, b, {"messages", "user"}) /\ IsSeq(b.messages) /\ b.user = TRUE
      BY <1>2, <1>10 DEF UserSaid, Messaged
    <2>2. {"messages", "user"} \cap Flags = {"user"}
      BY DEF Flags
    <2> QED BY <2>1, <2>2, Retyped
  <1>11. CASE ResultSaid(a, b, r)
    <2>1. Same(a, b, {"messages", "results", "call"}) /\ IsSeq(b.messages) /\ IsSeq(b.results)
      BY <1>2, <1>11 DEF ResultSaid, Messaged
    <2>2. b.call \in [Calls -> ReadStages]
      <3>1. PICK k \in Calls : b.call = [a.call EXCEPT ![k] = "answered"]
        BY <1>11 DEF ResultSaid
      <3> QED BY <1>4, <3>1 DEF ReadStages
    <2>3. {"messages", "results", "call"} \cap Flags = {}
      BY DEF Flags
    <2> QED BY <2>1, <2>2, <2>3, Retyped
  <1>12. CASE StopSaid(a, b, r)
    <2>1. Same(a, b, {"messages", "assistant", "final"}) /\ IsSeq(b.messages) /\ IsSeq(b.assistant) /\ b.final = TRUE
      BY <1>1, <1>2, <1>12 DEF StopSaid, AssistantSaid, Messaged
    <2>2. {"messages", "assistant", "final"} \cap Flags = {"final"}
      BY DEF Flags
    <2> QED BY <2>1, <2>2, Retyped
  <1>13. CASE UseSaid(a, b, r)
    <2>1. Same(a, b, {"messages", "assistant", "call"}) /\ IsSeq(b.messages) /\ IsSeq(b.assistant)
      BY <1>1, <1>2, <1>13 DEF UseSaid, AssistantSaid, Messaged
    <2>2. b.call = [k \in Calls |-> IF k \in r.calls THEN "declared" ELSE a.call[k]]
      BY <1>13 DEF UseSaid
    <2>3. b.call \in [Calls -> ReadStages]
      BY <1>3, <2>2 DEF ReadStages
    <2>4. {"messages", "assistant", "call"} \cap Flags = {}
      BY DEF Flags
    <2> QED BY <2>1, <2>3, <2>4, Retyped
  <1>14. CASE ReadBegun(a, b, r)
    <2>1. Same(a, b, {"call"}) /\ b.call \in [Calls -> ReadStages]
      BY <1>4, <1>14 DEF ReadBegun, ReadStages
    <2>2. {"call"} \cap Flags = {}
      BY DEF Flags
    <2> QED BY <2>1, <2>2, Retyped
  <1>15. CASE ReadEnded(a, b, r)
    <2>1. Same(a, b, {"call", "content"}) /\ b.call \in [Calls -> ReadStages]
      BY <1>4, <1>15 DEF ReadEnded, ReadStages
    <2>2. DOMAIN b.content = Calls
      BY <1>15 DEF ReadEnded, DecoderTypes
    <2>3. {"call", "content"} \cap Flags = {}
      BY DEF Flags
    <2> QED BY <2>1, <2>2, <2>3, Retyped
  <1>16. CASE TurnEnded(a, b, r)
    <2>1. Same(a, b, {"turn"}) /\ b.turn = FALSE
      BY <1>16 DEF TurnEnded
    <2> QED BY <2>1, Retyped
  <1>17. CASE RunEnded(a, b, r)
    <2>1. Same(a, b, {"ended"}) /\ b.ended = TRUE
      BY <1>17 DEF RunEnded
    <2> QED BY <2>1, Retyped
  <1>18. CASE Settled(a, b, r)
    <2>1. Same(a, b, {"settled"}) /\ b.settled = TRUE
      BY <1>18 DEF Settled
    <2> QED BY <2>1, Retyped
  <1> QED BY <1>5, <1>6, <1>7, <1>8, <1>9, <1>10, <1>11, <1>12, <1>13, <1>14, <1>15, <1>16, <1>17, <1>18 DEF Moves

\* What the decoder tells of the records does not depend on its requests and its buffer.
LEMMA TellsSame ==
  ASSUME NEW a, NEW b, NEW s, Tells(a, s), DOMAIN b = DecoderFields, Same(a, b, {"gen", "expected"}),
         b.gen \in Nat, b.expected \in {"", "get_state", "prompt"}, Asked(b)
  PROVE  Tells(b, s)
  <1>1. /\ b.state = a.state /\ b.accepted = a.accepted
        /\ b.started = a.started /\ b.ended = a.ended /\ b.settled = a.settled /\ b.turn = a.turn /\ b.user = a.user
        /\ b.messages = a.messages /\ b.assistant = a.assistant /\ b.results = a.results
        /\ b.call = a.call /\ b.content = a.content /\ b.final = a.final
    BY DEF Same, Told
  <1>2. Declared(b) = Declared(a) /\ (Answered(b) <=> Answered(a))
    BY <1>1 DEF Declared, Answered
  <1>3. DecoderTypes(b)
    BY <1>1 DEF Tells, DecoderTypes, Flags
  <1>4. RepliesTold(b, s)
    BY <1>1 DEF Tells, RepliesTold
  <1>5. RunTold(b, s) /\ TurnsTold(b, s)
    BY <1>1 DEF Tells, RunTold, TurnsTold
  <1>6. UserTold(b, s) /\ FinalTold(b, s)
    BY <1>1, <1>2 DEF Tells, UserTold, FinalTold
  <1>7. \A k \in Calls : ReadTold(b, s, k)
    BY <1>1 DEF Tells, ReadTold
  <1>8. CopiesTold(b, s)
    BY <1>1, <1>2 DEF Tells, CopiesTold
  <1> QED BY <1>3, <1>4, <1>5, <1>6, <1>7, <1>8 DEF Tells

\* What a decoder makes of an accepted record is a move, from a decoder that tells as much.
LEMMA FedMoves ==
  ASSUME NEW a, NEW r, NEW s, Tells(a, s), ~ a.damaged, ~ a.refused, Shape(r), ~ Fed(a, r).damaged, ~ Fed(a, r).refused
  PROVE  \E f : Tells(f, s) /\ f.gen = a.gen /\ Moves(f, Fed(a, r), r) /\ DecoderTypes(Fed(a, r))
  <1> DEFINE f == [a EXCEPT !.torn = FALSE, !.frame = IF a.torn THEN @ ELSE a.gen, !.count = @ + 1]
             b == Fed(a, r)
  <1>1. DOMAIN a = DecoderFields
    BY DEF Tells, DecoderTypes
  <1>2. DOMAIN f = DecoderFields /\ f.damaged = a.damaged /\ f.refused = a.refused /\ Same(a, f, {})
    BY <1>1 DEF DecoderFields, Same, Told
  <1>3. Tells(f, s)
    <2> HIDE DEF f
    <2>1. f.gen = a.gen /\ f.expected = a.expected /\ f.state = a.state /\ f.accepted = a.accepted
      BY <1>2 DEF Same, Told
    <2>2. Asked(f) /\ f.gen \in Nat /\ f.expected \in {"", "get_state", "prompt"}
      BY <2>1 DEF Tells, Asked, DecoderTypes
    <2>3. Same(a, f, {"gen", "expected"})
      BY <1>2 DEF Same
    <2> QED BY <1>2, <2>2, <2>3, TellsSame
  <1>4. b = IF f.count > RecordCount THEN Damage(f) ELSE Observe(f, r)
    BY DEF Fed
  <1> HIDE DEF f, b
  <1>5. ~ b.damaged /\ ~ b.refused
    BY DEF b
  <1>6. b = Observe(f, r)
    BY <1>2, <1>4, <1>5, Marks
  <1>7. b = IF r.kind = "response" THEN Response(f, r) ELSE Event(f, r)
    BY <1>2, <1>6 DEF Observe
  <1>8. DecoderTypes(f)
    BY <1>3 DEF Tells
  <1>9. DOMAIN b = DecoderFields /\ Moves(f, b, r)
    <2>1. CASE r.kind = "response"
      BY <1>5, <1>7, <1>8, <2>1, ReplyMoves DEF Moves
    <2>2. CASE r.kind # "response"
      BY <1>5, <1>7, <1>8, <2>2, EventMoves
    <2> QED BY <2>1, <2>2
  <1>10. DecoderTypes(b)
    BY <1>8, <1>9, MovesTyped
  <1>11. f.gen = a.gen
    BY <1>2 DEF Same, Told
  <1> QED BY <1>3, <1>9, <1>10, <1>11 DEF b

\* The moves by the kind of their record, and the fields each kind leaves alone.
LEMMA MovesByKind ==
  ASSUME NEW a, NEW b, NEW r, Moves(a, b, r)
  PROVE  /\ r.kind = "response" => Replied(a, b, r)
         /\ r.kind # "response" => Open(a)
         /\ r.kind = "agent_start" => Begun(a, b, r)
         /\ r.kind = "turn_start" => TurnBegun(a, b, r)
         /\ r.kind = "turn_end" => TurnEnded(a, b, r)
         /\ r.kind = "agent_end" => RunEnded(a, b, r)
         /\ r.kind = "settled" => Settled(a, b, r)
         /\ r.kind \in {"message_start", "message_update"} => Noted(a, b, r)
         /\ r.kind = "execution" => Noted(a, b, r) \/ ReadBegun(a, b, r) \/ ReadEnded(a, b, r)
         /\ r.kind = "message_end" =>
              SystemSaid(a, b, r) \/ UserSaid(a, b, r) \/ ResultSaid(a, b, r) \/ StopSaid(a, b, r) \/ UseSaid(a, b, r)
  BY DEF Moves, Replied, Begun, TurnBegun, Noted, Messaged, SystemSaid, UserSaid, ResultSaid, AssistantSaid, StopSaid, UseSaid,
         ReadBegun, ReadEnded, TurnEnded, RunEnded, Settled

\* The fields each kind of record leaves alone.
LEMMA FieldsByKind ==
  ASSUME NEW a, NEW b, NEW r, Moves(a, b, r)
  PROVE  /\ r.kind # "response" => b.expected = a.expected /\ b.state = a.state /\ b.accepted = a.accepted
         /\ b.gen = a.gen
         /\ r.kind # "agent_start" => b.started = a.started
         /\ r.kind # "agent_end" => b.ended = a.ended
         /\ r.kind # "settled" => b.settled = a.settled
         /\ r.kind \notin {"turn_start", "turn_end"} => b.turn = a.turn
         /\ r.kind # "message_end" => b.messages = a.messages /\ b.user = a.user /\ b.final = a.final
         /\ r.kind \notin {"message_end", "turn_start"} => b.assistant = a.assistant /\ b.results = a.results
         /\ r.kind \notin {"message_end", "execution"} => b.call = a.call
         /\ r.kind # "execution" => b.content = a.content
  <1> USE DEF Same, Told
  <1>1. CASE Replied(a, b, r)
    BY <1>1 DEF Replied
  <1>2. CASE Begun(a, b, r) \/ RunEnded(a, b, r) \/ Settled(a, b, r) \/ TurnEnded(a, b, r)
    BY <1>2 DEF Begun, RunEnded, Settled, TurnEnded
  <1>3. CASE TurnBegun(a, b, r)
    BY <1>3 DEF TurnBegun
  <1>4. CASE Noted(a, b, r)
    BY <1>4 DEF Noted
  <1>5. CASE ReadBegun(a, b, r) \/ ReadEnded(a, b, r)
    BY <1>5 DEF ReadBegun, ReadEnded
  <1>6. CASE SystemSaid(a, b, r) \/ UserSaid(a, b, r)
    BY <1>6 DEF SystemSaid, UserSaid, Messaged
  <1>7. CASE ResultSaid(a, b, r)
    BY <1>7 DEF ResultSaid, Messaged
  <1>8. CASE StopSaid(a, b, r) \/ UseSaid(a, b, r)
    BY <1>8 DEF StopSaid, UseSaid, AssistantSaid, Messaged
  <1> QED BY <1>1, <1>2, <1>3, <1>4, <1>5, <1>6, <1>7, <1>8 DEF Moves
-----------------------------------------------------------------------------
\* Each part of what is told is kept by a move.
LEMMA RepliesKept ==
  ASSUME NEW a, NEW b, NEW r, NEW s, Tells(a, s), Moves(a, b, r)
  PROVE  Asked(b) /\ RepliesTold(b, Append(s, r))
  <1> DEFINE t == Append(s, r)
             n == Len(s) + 1
  <1>1. IsSeq(s) /\ Asked(a) /\ RepliesTold(a, s)
    BY DEF Tells
  <1>2. Len(s) \in Nat /\ t[n] = r /\ \A i \in 1 .. Len(s) : t[i] = s[i]
    BY <1>1, Appended
  <1>3. /\ Kind(s, "response") \subseteq 1 .. Len(s)
        /\ r.kind = "response" => Kind(t, "response") = Kind(s, "response") \cup {n}
        /\ r.kind # "response" => Kind(t, "response") = Kind(s, "response")
    BY <1>1, KindGrows
  <1>4. /\ Of(s, "response", "prompt") \subseteq 1 .. Len(s) /\ Of(s, "response", "get_state") \subseteq 1 .. Len(s)
        /\ \A id : r.kind = "response" /\ r.id = id => Of(t, "response", id) = Of(s, "response", id) \cup {n}
        /\ \A id : ~ (r.kind = "response" /\ r.id = id) => Of(t, "response", id) = Of(s, "response", id)
    BY <1>1, OfGrows
  <1> HIDE DEF t, n
  <1>5. CASE r.kind = "response"
    <2>1. Replied(a, b, r)
      BY <1>5, MovesByKind
    <2>2. \A i \in Kind(t, "response") : t[i].body = "ok" /\ t[i].id \in {"get_state", "prompt"}
      BY <1>1, <1>2, <1>3, <1>5, <2>1 DEF RepliesTold, Replied
    <2>3. CASE r.id = "get_state"
      <3>0. b.gen = 1
        BY <1>1, <2>1, <2>3 DEF Replied, Asked, Same, Told
      <3>1. /\ b.expected = "" /\ b.state = TRUE /\ b.accepted = a.accepted /\ ~ a.state /\ ~ a.accepted
        BY <1>1, <2>1, <2>3 DEF Replied, Asked, Same, Told
      <3>2. s = <<>>
        BY <1>1, <3>1 DEF RepliesTold
      <3>3. Len(s) = 0 /\ n = 1
        BY <3>2 DEF n
      <3>4. Of(t, "response", "get_state") = {1} /\ Of(t, "response", "prompt") = {}
        BY <1>4, <1>5, <2>3, <3>3
      <3>5. b.gen # 0
        BY <3>0
      <3>6. Asked(b)
        BY <3>1, <3>5, Zenon DEF Asked
      <3> QED BY <2>2, <3>1, <3>4, <3>6 DEF RepliesTold, t
    <2>4. CASE r.id = "prompt"
      <3>0. b.gen = 2
        BY <1>1, <2>1, <2>4 DEF Replied, Asked, Same, Told
      <3>1. /\ b.expected = "" /\ b.accepted = TRUE /\ b.state = a.state /\ a.state /\ ~ a.accepted
        BY <1>1, <2>1, <2>4 DEF Replied, Asked, Same, Told
      <3>2. Of(t, "response", "get_state") = {1} /\ Of(t, "response", "prompt") = {n}
        BY <1>1, <1>4, <1>5, <2>4, <3>1 DEF RepliesTold
      <3>3. b.gen # 0
        BY <3>0
      <3>4. Asked(b)
        BY <3>0, <3>1, <3>3, Zenon DEF Asked
      <3> QED BY <2>2, <3>1, <3>2, <3>4 DEF RepliesTold, One, t
    <2> QED BY <2>1, <2>3, <2>4 DEF Replied
  <1>6. CASE r.kind # "response"
    <2>1. /\ b.expected = a.expected /\ b.state = a.state /\ b.accepted = a.accepted /\ b.gen = a.gen
          /\ a.state = TRUE
      BY <1>6, MovesByKind, FieldsByKind DEF Open
    <2>2. Asked(b)
      BY <1>1, <2>1 DEF Asked
    <2>3. RepliesTold(b, t)
      BY <1>1, <1>2, <1>3, <1>4, <1>6, <2>1 DEF RepliesTold
    <2> QED BY <2>2, <2>3 DEF t
  <1> QED BY <1>5, <1>6

\* The bounds of the run.
LEMMA RunKept ==
  ASSUME NEW a, NEW b, NEW r, NEW s, Tells(a, s), Moves(a, b, r)
  PROVE  RunTold(b, Append(s, r))
  <1> DEFINE t == Append(s, r)
             n == Len(s) + 1
  <1>1. IsSeq(s) /\ RunTold(a, s)
    BY DEF Tells
  <1>2. \A x \in {"started", "ended", "settled", "turn"} : a[x] \in BOOLEAN
    BY DEF Tells, DecoderTypes, Flags
  <1>3. Len(s) \in Nat
    BY <1>1, Appended
  <1>4. /\ \A kind : Kind(s, kind) \subseteq 1 .. Len(s)
        /\ \A kind : r.kind = kind => Kind(t, kind) = Kind(s, kind) \cup {n}
        /\ \A kind : r.kind # kind => Kind(t, kind) = Kind(s, kind)
    BY <1>1, KindGrows
  <1> HIDE DEF t
  <1>5. \A kind : \A i \in Kind(s, kind) : i \in Nat /\ i < n
    BY <1>3, <1>4
  <1> HIDE DEF n
  <1>6. CASE r.kind = "agent_start"
    <2>1. a.started = FALSE /\ b.started = TRUE /\ b.ended = a.ended /\ b.settled = a.settled /\ b.turn = a.turn
      <3>1. Begun(a, b, r)
        BY <1>6, MovesByKind
      <3> QED BY <1>6, <3>1, FieldsByKind DEF Begun
    <2>2. Kind(t, "agent_start") = {n} /\ Kind(t, "turn_start") = {}
      BY <1>1, <1>4, <1>6, <2>1 DEF RunTold
    <2> QED BY <1>1, <1>4, <1>6, <2>1, <2>2 DEF RunTold, One, Before, t
  <1>7. CASE r.kind = "turn_start"
    <2>1. /\ a.started = TRUE /\ b.started = TRUE /\ a.ended = FALSE /\ b.ended = FALSE /\ b.settled = a.settled /\ b.turn = TRUE
      <3>1. TurnBegun(a, b, r)
        BY <1>7, MovesByKind
      <3> QED BY <1>7, <3>1, FieldsByKind DEF TurnBegun
    <2>2. Before(Kind(t, "agent_start"), Kind(t, "turn_start"))
      BY <1>1, <1>4, <1>5, <1>7 DEF RunTold, Before
    <2> QED BY <1>1, <1>4, <1>7, <2>1, <2>2 DEF RunTold, t
  <1>8. CASE r.kind = "turn_end"
    <2>1. a.turn = TRUE /\ b.turn = FALSE /\ b.started = a.started /\ b.ended = a.ended /\ b.settled = a.settled
      <3>1. TurnEnded(a, b, r)
        BY <1>8, MovesByKind
      <3> QED BY <1>8, <3>1, FieldsByKind DEF TurnEnded
    <2>2. Kind(t, "agent_end") = {}
      BY <1>1, <1>4, <1>8, <2>1 DEF RunTold
    <2> QED BY <1>1, <1>4, <1>8, <2>1, <2>2 DEF RunTold, Before, t
  <1>9. CASE r.kind = "agent_end"
    <2>1. /\ a.ended = FALSE /\ a.turn = FALSE /\ b.turn = FALSE /\ b.ended = TRUE
          /\ a.started = TRUE /\ b.started = TRUE /\ b.settled = a.settled
      <3>1. RunEnded(a, b, r)
        BY <1>9, MovesByKind
      <3> QED BY <1>9, <3>1, FieldsByKind DEF RunEnded
    <2>2. Kind(t, "agent_end") = {n} /\ Kind(t, "settled") = {} /\ b.settled = FALSE
      BY <1>1, <1>2, <1>4, <1>9, <2>1 DEF RunTold
    <2>3. Before(Kind(t, "turn_end"), Kind(t, "agent_end"))
      BY <1>4, <1>5, <1>9, <2>2 DEF Before
    <2> QED BY <1>1, <1>4, <1>9, <2>1, <2>2, <2>3 DEF RunTold, One, Before, t
  <1>10. CASE r.kind = "settled"
    <2>1. a.ended = TRUE /\ b.ended = TRUE /\ b.started = a.started /\ b.settled = TRUE /\ b.turn = a.turn /\ a.settled = FALSE
      <3>1. Settled(a, b, r) /\ Open(a)
        BY <1>10, MovesByKind
      <3> QED BY <1>10, <3>1, FieldsByKind DEF Settled, Open
    <2>2. Kind(t, "settled") = {n}
      BY <1>1, <1>4, <1>10, <2>1 DEF RunTold
    <2>3. Before(Kind(t, "agent_end"), Kind(t, "settled"))
      BY <1>4, <1>5, <1>10, <2>2 DEF Before
    <2> QED BY <1>1, <1>4, <1>10, <2>1, <2>2, <2>3 DEF RunTold, One, t
  <1>11. CASE r.kind \notin {"agent_start", "turn_start", "turn_end", "agent_end", "settled"}
    <2>1. b.started = a.started /\ b.ended = a.ended /\ b.settled = a.settled /\ b.turn = a.turn
      BY <1>11, FieldsByKind
    <2>2. /\ Kind(t, "agent_start") = Kind(s, "agent_start") /\ Kind(t, "turn_start") = Kind(s, "turn_start")
          /\ Kind(t, "turn_end") = Kind(s, "turn_end") /\ Kind(t, "agent_end") = Kind(s, "agent_end")
          /\ Kind(t, "settled") = Kind(s, "settled")
      BY <1>4, <1>11
    <2> QED BY <1>1, <2>1, <2>2 DEF RunTold, t
  <1> QED BY <1>6, <1>7, <1>8, <1>9, <1>10, <1>11

\* A completed message, by its role.
LEMMA MessageFields ==
  ASSUME NEW a, NEW b, NEW r, Moves(a, b, r), r.kind = "message_end"
  PROVE  /\ a.turn = TRUE /\ b.turn = TRUE /\ b.messages = Append(a.messages, r)
         /\ r.id \in {"system", "user", "toolResult", "assistant"}
         /\ r.id = "user" => UserSaid(a, b, r)
         /\ r.id = "toolResult" => ResultSaid(a, b, r)
         /\ r.id = "assistant" => StopSaid(a, b, r) \/ UseSaid(a, b, r)
         /\ r.id # "user" => b.user = a.user
         /\ r.id # "assistant" => b.assistant = a.assistant /\ b.final = a.final
         /\ r.id # "toolResult" => b.results = a.results
         /\ r.id \in {"system", "user"} => b.call = a.call
  <1>1. SystemSaid(a, b, r) \/ UserSaid(a, b, r) \/ ResultSaid(a, b, r) \/ StopSaid(a, b, r) \/ UseSaid(a, b, r)
    BY MovesByKind
  <1>2. a.turn = TRUE /\ b.messages = Append(a.messages, r)
    BY <1>1 DEF SystemSaid, UserSaid, ResultSaid, StopSaid, UseSaid, AssistantSaid, Messaged
  <1>3. b.turn = a.turn
    BY FieldsByKind
  <1>4. CASE SystemSaid(a, b, r)
    BY <1>2, <1>3, <1>4 DEF SystemSaid, Same, Told
  <1>5. CASE UserSaid(a, b, r)
    BY <1>2, <1>3, <1>5 DEF UserSaid, Same, Told
  <1>6. CASE ResultSaid(a, b, r)
    <2>1. r.id = "toolResult" /\ Same(a, b, {"messages", "results", "call"})
      BY <1>6 DEF ResultSaid
    <2> QED BY <1>2, <1>3, <1>6, <2>1 DEF Same, Told
  <1>7. CASE StopSaid(a, b, r)
    <2>1. r.id = "assistant" /\ Same(a, b, {"messages", "assistant", "final"})
      BY <1>7 DEF StopSaid, AssistantSaid
    <2> QED BY <1>2, <1>3, <1>7, <2>1 DEF Same, Told
  <1>8. CASE UseSaid(a, b, r)
    <2>1. r.id = "assistant" /\ Same(a, b, {"messages", "assistant", "call"})
      BY <1>8 DEF UseSaid, AssistantSaid
    <2> QED BY <1>2, <1>3, <1>8, <2>1 DEF Same, Told
  <1> QED BY <1>1, <1>4, <1>5, <1>6, <1>7, <1>8

\* The places of the answers, with one more record.
LEMMA AnswersGrow ==
  ASSUME NEW s, NEW r, IsSeq(s)
  PROVE  /\ Answers(s) \subseteq 1 .. Len(s)
         /\ r.kind = "message_end" /\ r.id = "assistant" => Answers(Append(s, r)) = Answers(s) \cup {Len(s) + 1}
         /\ ~ (r.kind = "message_end" /\ r.id = "assistant") => Answers(Append(s, r)) = Answers(s)
  BY Appended DEF Answers, Of, Kind

\* Turns are counted with their answers: a turn closes only behind the one it has.
LEMMA TurnsKept ==
  ASSUME NEW a, NEW b, NEW r, NEW s, Tells(a, s), Moves(a, b, r)
  PROVE  TurnsTold(b, Append(s, r))
  <1> DEFINE t == Append(s, r)
             n == Len(s) + 1
  <1>1. IsSeq(s) /\ TurnsTold(a, s)
    BY DEF Tells
  <1>2. Len(s) \in Nat
    BY <1>1, Appended
  <1>3. /\ \A kind : Kind(s, kind) \subseteq 1 .. Len(s)
        /\ \A kind : r.kind = kind => Kind(t, kind) = Kind(s, kind) \cup {n}
        /\ \A kind : r.kind # kind => Kind(t, kind) = Kind(s, kind)
    BY <1>1, KindGrows
  <1>4. /\ Answers(s) \subseteq 1 .. Len(s)
        /\ r.kind = "message_end" /\ r.id = "assistant" => Answers(t) = Answers(s) \cup {n}
        /\ ~ (r.kind = "message_end" /\ r.id = "assistant") => Answers(t) = Answers(s)
    BY <1>1, AnswersGrow
  <1>5. ASSUME NEW P, P \subseteq 1 .. Len(s)
        PROVE  Cardinality(P) \in Nat /\ Cardinality(P \cup {n}) = Cardinality(P) + 1
    <2>1. n \notin P
      BY <1>2, <1>5
    <2> HIDE DEF n
    <2> QED BY <1>2, <1>5, <2>1, Places
  <1> DEFINE ts == Cardinality(Kind(s, "turn_start"))
             te == Cardinality(Kind(s, "turn_end"))
             as == Cardinality(Answers(s))
  <1>6. /\ ts \in Nat /\ te \in Nat /\ as \in Nat
        /\ Cardinality(Kind(s, "turn_start") \cup {n}) = ts + 1
        /\ Cardinality(Kind(s, "turn_end") \cup {n}) = te + 1
        /\ Cardinality(Answers(s) \cup {n}) = as + 1
    BY <1>3, <1>4, <1>5
  <1>7. ts = te + (IF a.turn THEN 1 ELSE 0) /\ as = te + (IF a.turn /\ a.assistant # <<>> THEN 1 ELSE 0)
    BY <1>1 DEF TurnsTold
  <1> HIDE DEF t, n, ts, te, as
  <1>8. CASE r.kind = "turn_start"
    <2>1. TurnBegun(a, b, r)
      BY <1>8, MovesByKind
    <2>2. ~ a.turn /\ b.turn /\ b.assistant = <<>>
      BY <2>1 DEF TurnBegun
    <2>3. Cardinality(Kind(t, "turn_start")) = ts + 1 /\ Cardinality(Kind(t, "turn_end")) = te /\ Cardinality(Answers(t)) = as
      BY <1>3, <1>4, <1>6, <1>8 DEF ts, te, as
    <2> QED BY <1>6, <1>7, <2>2, <2>3 DEF TurnsTold, t
  <1>9. CASE r.kind = "turn_end"
    <2>1. TurnEnded(a, b, r)
      BY <1>9, MovesByKind
    <2>2. a.turn /\ ~ b.turn /\ a.assistant # <<>>
      BY <2>1 DEF TurnEnded
    <2>3. Cardinality(Kind(t, "turn_start")) = ts /\ Cardinality(Kind(t, "turn_end")) = te + 1 /\ Cardinality(Answers(t)) = as
      BY <1>3, <1>4, <1>6, <1>9 DEF ts, te, as
    <2> QED BY <1>6, <1>7, <2>2, <2>3 DEF TurnsTold, t
  <1>10. CASE r.kind = "message_end" /\ r.id = "assistant"
    <2>1. StopSaid(a, b, r) \/ UseSaid(a, b, r)
      BY <1>10, MessageFields
    <2>2. a.assistant = <<>> /\ b.assistant = <<r>>
      BY <2>1 DEF StopSaid, UseSaid, AssistantSaid
    <2>3. a.turn /\ b.turn
      BY <1>10, MessageFields
    <2>4. b.assistant # <<>>
      BY <2>2
    <2>5. Cardinality(Kind(t, "turn_start")) = ts /\ Cardinality(Kind(t, "turn_end")) = te /\ Cardinality(Answers(t)) = as + 1
      BY <1>3, <1>4, <1>6, <1>10 DEF ts, te, as
    <2> QED BY <1>6, <1>7, <2>2, <2>3, <2>4, <2>5 DEF TurnsTold, t
  <1>11. CASE r.kind \notin {"turn_start", "turn_end"} /\ ~ (r.kind = "message_end" /\ r.id = "assistant")
    <2>1. b.turn = a.turn
      BY <1>11, FieldsByKind
    <2>2. b.assistant = a.assistant
      <3>1. CASE r.kind = "message_end"
        BY <1>11, <3>1, MessageFields
      <3>2. CASE r.kind # "message_end"
        BY <1>11, <3>2, FieldsByKind
      <3> QED BY <3>1, <3>2
    <2>3. Kind(t, "turn_start") = Kind(s, "turn_start") /\ Kind(t, "turn_end") = Kind(s, "turn_end") /\ Answers(t) = Answers(s)
      BY <1>3, <1>4, <1>11
    <2> QED BY <1>1, <2>1, <2>2, <2>3 DEF TurnsTold, t
  <1> QED BY <1>8, <1>9, <1>10, <1>11

\* The prompt is taken once, and before any answer.
LEMMA UserKept ==
  ASSUME NEW a, NEW b, NEW r, NEW s, Tells(a, s), Moves(a, b, r)
  PROVE  UserTold(b, Append(s, r))
  <1> DEFINE t == Append(s, r)
             n == Len(s) + 1
             U(q) == Of(q, "message_end", "user")
  <1>1. IsSeq(s) /\ UserTold(a, s) /\ a.user \in BOOLEAN
    BY DEF Tells, DecoderTypes, Flags
  <1>2. Len(s) \in Nat /\ t[n] = r /\ \A i \in 1 .. Len(s) : t[i] = s[i]
    BY <1>1, Appended
  <1>3. /\ U(s) \subseteq 1 .. Len(s)
        /\ r.kind = "message_end" /\ r.id = "user" => U(t) = U(s) \cup {n}
        /\ ~ (r.kind = "message_end" /\ r.id = "user") => U(t) = U(s)
    BY <1>1, OfGrows
  <1>4. /\ Answers(s) \subseteq 1 .. Len(s)
        /\ r.kind = "message_end" /\ r.id = "assistant" => Answers(t) = Answers(s) \cup {n}
        /\ ~ (r.kind = "message_end" /\ r.id = "assistant") => Answers(t) = Answers(s)
    BY <1>1, AnswersGrow
  <1>5. \A i \in U(s) : i \in 1 .. Len(s) /\ i < n
    BY <1>2, <1>3
  <1>6. /\ a.user => \E i : U(s) = {i} /\ s[i].body = "ok"
        /\ ~ a.user => U(s) = {} /\ Answers(s) = {}
        /\ Before(U(s), Answers(s))
    BY <1>1 DEF UserTold
  <1>7. ASSUME b.user => \E i : U(t) = {i} /\ t[i].body = "ok", ~ b.user => U(t) = {} /\ Answers(t) = {},
               Before(U(t), Answers(t))
        PROVE  UserTold(b, t)
    BY <1>7 DEF UserTold
  <1> HIDE DEF t, n, U
  <1>8. CASE r.kind = "message_end" /\ r.id = "user"
    <2>1. UserSaid(a, b, r)
      BY <1>8, MessageFields
    <2>2. ~ a.user /\ b.user /\ r.body = "ok"
      BY <2>1 DEF UserSaid
    <2>3. U(t) = {n} /\ Answers(t) = {}
      BY <1>3, <1>4, <1>6, <1>8, <2>2
    <2> QED BY <1>2, <1>7, <2>2, <2>3 DEF Before, t
  <1>9. CASE r.kind = "message_end" /\ r.id = "assistant"
    <2>1. StopSaid(a, b, r) \/ UseSaid(a, b, r)
      BY <1>9, MessageFields
    <2>2. a.user
      BY <2>1 DEF StopSaid, UseSaid, AssistantSaid
    <2>3. b.user = a.user
      BY <1>9, MessageFields
    <2>4. PICK i : U(s) = {i} /\ s[i].body = "ok"
      BY <1>6, <2>2
    <2>5. U(t) = {i} /\ t[i].body = "ok"
      BY <1>2, <1>3, <1>5, <1>9, <2>4
    <2>6. Before(U(t), Answers(t))
      BY <1>3, <1>4, <1>5, <1>6, <1>9 DEF Before
    <2> QED BY <1>7, <2>2, <2>3, <2>5, <2>6 DEF t
  <1>10. CASE ~ (r.kind = "message_end" /\ r.id \in {"user", "assistant"})
    <2>1. b.user = a.user
      <3>1. CASE r.kind = "message_end"
        BY <1>10, <3>1, MessageFields
      <3>2. CASE r.kind # "message_end"
        BY <3>2, FieldsByKind
      <3> QED BY <3>1, <3>2
    <2>2. U(t) = U(s) /\ Answers(t) = Answers(s)
      BY <1>3, <1>4, <1>10
    <2>3. \A i \in U(s) : t[i] = s[i]
      BY <1>2, <1>5
    <2> QED BY <1>6, <1>7, <2>1, <2>2, <2>3 DEF t
  <1> QED BY <1>8, <1>9, <1>10

\* An answered read is touched by no further record, and the moves that touch reads.
LEMMA CallsByKind ==
  ASSUME NEW a, NEW b, NEW r, Moves(a, b, r), Answered(a),
         ~ (r.kind = "message_end" /\ r.id = "assistant")
  PROVE  b.call = a.call /\ ~ (r.kind = "message_end" /\ r.id = "toolResult")
  <1>1. \A k \in Calls : a.call[k] \in {"none", "answered"}
    BY DEF Answered, Declared
  <1>2. CASE r.kind = "message_end"
    <2>1. r.id # "toolResult"
      <3>1. ASSUME r.id = "toolResult" PROVE FALSE
        <4>1. ResultSaid(a, b, r)
          BY <1>2, <3>1, MessageFields
        <4> QED BY <1>1, <4>1 DEF ResultSaid
      <3> QED BY <3>1
    <2>2. r.id \in {"system", "user"} /\ b.call = a.call
      BY <1>2, <2>1, MessageFields
    <2> QED BY <2>1, <2>2
  <1>3. CASE r.kind = "execution"
    <2>1. Noted(a, b, r) \/ ReadBegun(a, b, r) \/ ReadEnded(a, b, r)
      BY <1>3, MovesByKind
    <2>2. ~ ReadBegun(a, b, r) /\ ~ ReadEnded(a, b, r)
      BY <1>1 DEF ReadBegun, ReadEnded
    <2>3. Same(a, b, {})
      BY <2>1, <2>2 DEF Noted
    <2> QED BY <1>3, <2>3 DEF Same, Told
  <1>4. CASE r.kind \notin {"message_end", "execution"}
    BY <1>4, FieldsByKind
  <1> QED BY <1>2, <1>3, <1>4

\* Behind the final answer no answer and no result is accepted.
LEMMA FinalKept ==
  ASSUME NEW a, NEW b, NEW r, NEW s, Tells(a, s), Moves(a, b, r)
  PROVE  FinalTold(b, Append(s, r))
  <1> DEFINE t == Append(s, r)
             n == Len(s) + 1
             R(q) == Of(q, "message_end", "toolResult")
             stop == r.kind = "message_end" /\ r.id = "assistant" /\ r.body = "stop"
  <1>1. IsSeq(s) /\ FinalTold(a, s) /\ a.final \in BOOLEAN
    BY DEF Tells, DecoderTypes, Flags
  <1>2. Len(s) \in Nat
    BY <1>1, Appended
  <1>3. /\ R(s) \subseteq 1 .. Len(s)
        /\ ~ (r.kind = "message_end" /\ r.id = "toolResult") => R(t) = R(s)
    BY <1>1, Appended DEF Of, Kind
  <1>4. /\ Answers(s) \subseteq 1 .. Len(s)
        /\ r.kind = "message_end" /\ r.id = "assistant" => Answers(t) = Answers(s) \cup {n}
        /\ ~ (r.kind = "message_end" /\ r.id = "assistant") => Answers(t) = Answers(s)
    BY <1>1, AnswersGrow
  <1>5. (stop => Stops(t) = Stops(s) \cup {n}) /\ (~ stop => Stops(t) = Stops(s))
    BY <1>1, StopsGrow
  <1>6. ~ stop => b.final = a.final
    <2>1. CASE r.kind = "message_end" /\ r.id = "assistant"
      <3>1. StopSaid(a, b, r) \/ UseSaid(a, b, r)
        BY <2>1, MessageFields
      <3> QED BY <2>1, <3>1 DEF StopSaid, UseSaid, Same, Told
    <2>2. CASE r.kind = "message_end" /\ r.id # "assistant"
      BY <2>2, MessageFields
    <2>3. CASE r.kind # "message_end"
      BY <2>3, FieldsByKind
    <2> QED BY <2>1, <2>2, <2>3
  <1>7. /\ a.final => One(Stops(s)) /\ Answered(a) /\ Declared(a) # {}
        /\ ~ a.final => Stops(s) = {}
        /\ Before(Answers(s) \ Stops(s), Stops(s)) /\ Before(R(s), Stops(s))
    BY <1>1 DEF FinalTold
  <1>8. ASSUME b.final => One(Stops(t)) /\ Answered(b) /\ Declared(b) # {}, ~ b.final => Stops(t) = {},
               Before(Answers(t) \ Stops(t), Stops(t)), Before(R(t), Stops(t))
        PROVE  FinalTold(b, t)
    BY <1>8 DEF FinalTold
  <1>9. \A i \in Answers(s) \cup R(s) : i < n
    BY <1>2, <1>3, <1>4
  <1>10. ASSUME b.call = a.call PROVE Declared(b) = Declared(a) /\ (Answered(b) <=> Answered(a))
    BY <1>10 DEF Declared, Answered
  <1> HIDE DEF t, n, R
  <1>11. CASE stop
    <2>1. StopSaid(a, b, r) \/ UseSaid(a, b, r)
      BY <1>11, MessageFields
    <2>2. StopSaid(a, b, r)
      BY <1>11, <2>1 DEF UseSaid
    <2>3. b.call = a.call /\ b.final /\ ~ a.final /\ Declared(a) # {} /\ Answered(a)
      BY <2>2 DEF StopSaid, AssistantSaid, Same, Told
    <2>4. Stops(t) = {n} /\ R(t) = R(s) /\ Answers(t) = Answers(s) \cup {n}
      BY <1>3, <1>4, <1>5, <1>7, <1>11, <2>3
    <2>5. Before(Answers(t) \ Stops(t), Stops(t)) /\ Before(R(t), Stops(t))
      BY <1>9, <2>4 DEF Before
    <2> QED BY <1>8, <1>10, <2>3, <2>4, <2>5 DEF One, t
  <1>12. CASE ~ stop /\ ~ a.final
    <2>1. Stops(t) = {} /\ ~ b.final
      BY <1>5, <1>6, <1>7, <1>12
    <2>2. Before(Answers(t) \ Stops(t), Stops(t)) /\ Before(R(t), Stops(t))
      BY <2>1 DEF Before
    <2> QED BY <1>8, <2>1, <2>2 DEF t
  <1>13. CASE ~ stop /\ a.final
    <2>1. ~ (r.kind = "message_end" /\ r.id = "assistant")
      <3>1. ASSUME r.kind = "message_end", r.id = "assistant" PROVE FALSE
        <4>1. StopSaid(a, b, r) \/ UseSaid(a, b, r)
          BY <3>1, MessageFields
        <4> QED BY <1>13, <4>1 DEF StopSaid, UseSaid, AssistantSaid
      <3> QED BY <3>1
    <2>2. b.call = a.call /\ ~ (r.kind = "message_end" /\ r.id = "toolResult")
      BY <1>7, <1>13, <2>1, CallsByKind
    <2>3. Answers(t) = Answers(s) /\ R(t) = R(s) /\ Stops(t) = Stops(s)
      BY <1>3, <1>4, <1>5, <1>13, <2>1, <2>2
    <2> QED BY <1>6, <1>7, <1>8, <1>10, <1>13, <2>2, <2>3 DEF t
  <1> QED BY <1>11, <1>12, <1>13

\* A read, when the record is not about it.
LEMMA ReadUntouched ==
  ASSUME NEW a, NEW b, NEW r, NEW s, NEW k, IsSeq(s), ReadTold(a, s, k), b.call[k] = a.call[k], b.content[k] = a.content[k],
         k \notin r.calls \/ ~ \/ r.kind = "message_end" /\ r.id \in {"assistant", "toolResult"}
                               \/ r.kind = "execution" /\ r.id \in {"start", "end"}
  PROVE  ReadTold(b, Append(s, r), k)
  <1> DEFINE t == Append(s, r)
  <1>1. \A i \in 1 .. Len(s) : t[i] = s[i]
    BY Appended
  <1>2. /\ About(t, "message_end", "assistant", k) = About(s, "message_end", "assistant", k)
        /\ About(t, "message_end", "toolResult", k) = About(s, "message_end", "toolResult", k)
    BY AboutGrows
  <1>3. /\ About(t, "execution", "start", k) = About(s, "execution", "start", k)
        /\ About(t, "execution", "end", k) = About(s, "execution", "end", k)
    BY AboutGrows
  <1>4. /\ About(s, "execution", "end", k) \subseteq 1 .. Len(s)
        /\ About(s, "message_end", "toolResult", k) \subseteq 1 .. Len(s)
    BY AboutGrows
  <1> HIDE DEF t
  <1>5. /\ \A i : About(s, "execution", "end", k) = {i} => t[i] = s[i]
        /\ \A i : About(s, "message_end", "toolResult", k) = {i} => t[i] = s[i]
    BY <1>1, <1>4
  <1>6. ReadTold(b, t, k)
    BY <1>2, <1>3, <1>5 DEF ReadTold
  <1> QED BY <1>6 DEF t

\* A read that the record is about moves on by one stage, and by the next one.
LEMMA ReadsKept ==
  ASSUME NEW a, NEW b, NEW r, NEW s, Tells(a, s), Moves(a, b, r)
  PROVE  \A k \in Calls : ReadTold(b, Append(s, r), k)
  <1> SUFFICES ASSUME NEW k \in Calls PROVE ReadTold(b, Append(s, r), k)
    OBVIOUS
  <1> DEFINE t == Append(s, r)
             n == Len(s) + 1
             D(q) == About(q, "message_end", "assistant", k)
             S(q) == About(q, "execution", "start", k)
             E(q) == About(q, "execution", "end", k)
             R(q) == About(q, "message_end", "toolResult", k)
  <1>1. IsSeq(s) /\ ReadTold(a, s, k) /\ a.call[k] \in ReadStages
    BY DEF Tells, DecoderTypes
  <1>2. DOMAIN a.call = Calls /\ DOMAIN a.content = Calls
    BY DEF Tells, DecoderTypes
  <1>3. Len(s) \in Nat /\ t[n] = r /\ \A i \in 1 .. Len(s) : t[i] = s[i]
    BY <1>1, Appended
  <1>4. D(s) \subseteq 1 .. Len(s) /\ S(s) \subseteq 1 .. Len(s) /\ E(s) \subseteq 1 .. Len(s) /\ R(s) \subseteq 1 .. Len(s)
    BY <1>1, AboutGrows
  <1>5. /\ r.kind = "message_end" /\ r.id = "assistant" /\ k \in r.calls => D(t) = D(s) \cup {n}
        /\ ~ (r.kind = "message_end" /\ r.id = "assistant") => D(t) = D(s)
    BY <1>1, Appended DEF About, Of, Kind
  <1>6. /\ r.kind = "execution" /\ r.id = "start" /\ k \in r.calls => S(t) = S(s) \cup {n}
        /\ ~ (r.kind = "execution" /\ r.id = "start") => S(t) = S(s)
    BY <1>1, Appended DEF About, Of, Kind
  <1>7. /\ r.kind = "execution" /\ r.id = "end" /\ k \in r.calls => E(t) = E(s) \cup {n}
        /\ ~ (r.kind = "execution" /\ r.id = "end") => E(t) = E(s)
    BY <1>1, Appended DEF About, Of, Kind
  <1>8. /\ r.kind = "message_end" /\ r.id = "toolResult" /\ k \in r.calls => R(t) = R(s) \cup {n}
        /\ ~ (r.kind = "message_end" /\ r.id = "toolResult") => R(t) = R(s)
    BY <1>1, Appended DEF About, Of, Kind
  <1>9. /\ IF a.call[k] = "none" THEN D(s) = {} ELSE One(D(s))
        /\ IF a.call[k] \in {"none", "declared"} THEN S(s) = {} ELSE One(S(s))
        /\ IF a.call[k] \in {"ended", "answered"}
           THEN a.content[k] # "error" /\ \E i : E(s) = {i} /\ s[i].body = a.content[k] ELSE E(s) = {}
        /\ IF a.call[k] = "answered" THEN \E i : R(s) = {i} /\ s[i].body = a.content[k] ELSE R(s) = {}
        /\ Before(D(s), S(s)) /\ Before(S(s), E(s)) /\ Before(E(s), R(s))
    BY <1>1 DEF ReadTold
  <1>10. ASSUME IF b.call[k] = "none" THEN D(t) = {} ELSE One(D(t)),
                IF b.call[k] \in {"none", "declared"} THEN S(t) = {} ELSE One(S(t)),
                IF b.call[k] \in {"ended", "answered"}
                THEN b.content[k] # "error" /\ \E i : E(t) = {i} /\ t[i].body = b.content[k] ELSE E(t) = {},
                IF b.call[k] = "answered" THEN \E i : R(t) = {i} /\ t[i].body = b.content[k] ELSE R(t) = {},
                Before(D(t), S(t)), Before(S(t), E(t)), Before(E(t), R(t))
         PROVE  ReadTold(b, t, k)
    BY <1>10 DEF ReadTold
  <1>11. \A i \in D(s) \cup S(s) \cup E(s) \cup R(s) : i \in 1 .. Len(s) /\ i < n /\ t[i] = s[i]
    BY <1>3, <1>4
  <1>12. ASSUME b.call[k] = a.call[k], b.content[k] = a.content[k],
                k \notin r.calls \/ ~ \/ r.kind = "message_end" /\ r.id \in {"assistant", "toolResult"}
                                      \/ r.kind = "execution" /\ r.id \in {"start", "end"}
         PROVE  ReadTold(b, t, k)
    BY <1>1, <1>12, ReadUntouched
  <1> HIDE DEF t, n, D, S, E, R
  <1>13. CASE r.kind = "message_end" /\ r.id = "assistant"
    <2>1. StopSaid(a, b, r) \/ UseSaid(a, b, r)
      BY <1>13, MessageFields
    <2>2. CASE StopSaid(a, b, r)
      <3>1. b.call = a.call /\ b.content = a.content /\ r.calls = {}
        BY <2>2 DEF StopSaid, Same, Told
      <3> QED BY <1>12, <3>1 DEF t
    <2>3. CASE UseSaid(a, b, r)
      <3>1. /\ r.calls \cap Declared(a) = {} /\ b.content = a.content
            /\ b.call[k] = IF k \in r.calls THEN "declared" ELSE a.call[k]
        BY <2>3 DEF UseSaid, Same, Told
      <3>2. CASE k \in r.calls
        <4>1. a.call[k] = "none" /\ b.call[k] = "declared"
          BY <3>1, <3>2 DEF Declared
        <4>2. D(t) = {n} /\ S(t) = {} /\ E(t) = {} /\ R(t) = {}
          BY <1>5, <1>6, <1>7, <1>8, <1>9, <1>13, <3>2, <4>1
        <4> QED BY <1>10, <4>1, <4>2 DEF One, Before, t
      <3>3. CASE k \notin r.calls
        BY <1>12, <3>1, <3>3 DEF t
      <3> QED BY <3>2, <3>3
    <2> QED BY <2>1, <2>2, <2>3
  <1>14. CASE r.kind = "message_end" /\ r.id = "toolResult"
    <2>1. ResultSaid(a, b, r)
      BY <1>14, MessageFields
    <2>2. PICK l \in Calls : /\ r.calls = {l} /\ a.call[l] = "ended" /\ r.body = a.content[l]
                             /\ b.call = [a.call EXCEPT ![l] = "answered"]
      BY <2>1 DEF ResultSaid
    <2>3. b.content = a.content
      BY <1>14, FieldsByKind
    <2>4. CASE k = l
      <3>1. b.call[k] = "answered" /\ a.call[k] = "ended" /\ r.body = a.content[k] /\ k \in r.calls
        BY <1>2, <2>2, <2>4
      <3>2. D(t) = D(s) /\ S(t) = S(s) /\ E(t) = E(s) /\ R(t) = {n}
        BY <1>5, <1>6, <1>7, <1>8, <1>9, <1>14, <3>1
      <3>3. PICK i : E(s) = {i} /\ s[i].body = a.content[k]
        BY <1>9, <3>1
      <3>4. t[i].body = b.content[k] /\ t[n].body = b.content[k] /\ a.content[k] # "error"
        BY <1>3, <1>9, <1>11, <2>3, <3>1, <3>3
      <3>5. Before(E(t), R(t))
        BY <1>11, <3>2 DEF Before
      <3>6. One(D(t)) /\ One(S(t)) /\ Before(D(t), S(t)) /\ Before(S(t), E(t))
        BY <1>9, <3>1, <3>2
      <3> QED BY <1>10, <2>3, <3>1, <3>2, <3>3, <3>4, <3>5, <3>6 DEF t
    <2>5. CASE k # l
      <3>1. b.call[k] = a.call[k] /\ k \notin r.calls
        BY <1>2, <2>2, <2>5
      <3> QED BY <1>12, <2>3, <3>1 DEF t
    <2> QED BY <2>4, <2>5
  <1>15. CASE r.kind = "execution" /\ ReadBegun(a, b, r)
    <2>1. PICK l \in Calls : r.calls = {l} /\ a.call[l] = "declared" /\ b.call = [a.call EXCEPT ![l] = "started"]
      BY <1>15 DEF ReadBegun
    <2>2. b.content = a.content /\ r.id = "start"
      BY <1>15 DEF ReadBegun, Same, Told
    <2>3. CASE k = l
      <3>1. b.call[k] = "started" /\ a.call[k] = "declared" /\ k \in r.calls
        BY <1>2, <2>1, <2>3
      <3>2. D(t) = D(s) /\ S(t) = {n} /\ E(t) = {} /\ R(t) = {}
        BY <1>5, <1>6, <1>7, <1>8, <1>9, <1>15, <2>2, <3>1
      <3>3. Before(D(t), S(t)) /\ Before(S(t), E(t)) /\ Before(E(t), R(t))
        BY <1>11, <3>2 DEF Before
      <3>4. One(D(t)) /\ One(S(t))
        BY <1>9, <3>1, <3>2 DEF One
      <3> QED BY <1>10, <3>1, <3>2, <3>3, <3>4 DEF t
    <2>4. CASE k # l
      <3>1. b.call[k] = a.call[k] /\ k \notin r.calls
        BY <1>2, <2>1, <2>4
      <3> QED BY <1>12, <2>2, <3>1 DEF t
    <2> QED BY <2>3, <2>4
  <1>16. CASE r.kind = "execution" /\ ReadEnded(a, b, r)
    <2>1. PICK l \in Calls : /\ r.calls = {l} /\ a.call[l] = "started" /\ b.call = [a.call EXCEPT ![l] = "ended"]
                             /\ b.content = [a.content EXCEPT ![l] = r.body]
      BY <1>16 DEF ReadEnded
    <2>2. r.body # "error" /\ r.id = "end"
      BY <1>16 DEF ReadEnded
    <2>3. CASE k = l
      <3>1. b.call[k] = "ended" /\ a.call[k] = "started" /\ b.content[k] = r.body /\ k \in r.calls
        BY <1>2, <2>1, <2>3
      <3>2. D(t) = D(s) /\ S(t) = S(s) /\ E(t) = {n} /\ R(t) = {}
        BY <1>5, <1>6, <1>7, <1>8, <1>9, <1>16, <2>2, <3>1
      <3>3. Before(D(t), S(t)) /\ Before(S(t), E(t)) /\ Before(E(t), R(t))
        BY <1>9, <1>11, <3>2 DEF Before
      <3>4. One(D(t)) /\ One(S(t))
        BY <1>9, <3>1, <3>2
      <3>5. t[n].body = b.content[k] /\ b.content[k] # "error"
        BY <1>3, <2>2, <3>1
      <3> QED BY <1>10, <3>1, <3>2, <3>3, <3>4, <3>5 DEF t
    <2>4. CASE k # l
      <3>1. b.call[k] = a.call[k] /\ b.content[k] = a.content[k] /\ k \notin r.calls
        BY <1>2, <2>1, <2>4
      <3> QED BY <1>12, <3>1 DEF t
    <2> QED BY <2>3, <2>4
  <1>17. CASE r.kind = "execution" /\ Noted(a, b, r)
    <2>1. b.call = a.call /\ b.content = a.content /\ r.id = "update"
      BY <1>17 DEF Noted, Same, Told
    <2> QED BY <1>12, <1>17, <2>1 DEF t
  <1>18. CASE r.kind = "message_end" /\ r.id \notin {"assistant", "toolResult"}
    <2>1. b.call = a.call /\ b.content = a.content
      <3>1. r.id \in {"system", "user"}
        BY <1>18, MessageFields
      <3>2. b.call = a.call
        BY <1>18, <3>1, MessageFields
      <3>3. b.content = a.content
        BY <1>18, FieldsByKind
      <3> QED BY <3>2, <3>3
    <2> QED BY <1>12, <1>18, <2>1 DEF t
  <1>19. CASE r.kind \notin {"message_end", "execution"}
    <2>1. b.call = a.call /\ b.content = a.content
      BY <1>19, FieldsByKind
    <2> QED BY <1>12, <1>19, <2>1 DEF t
  <1>20. r.kind = "execution" => Noted(a, b, r) \/ ReadBegun(a, b, r) \/ ReadEnded(a, b, r)
    BY MovesByKind
  <1> QED BY <1>13, <1>14, <1>15, <1>16, <1>17, <1>18, <1>19, <1>20

\* Joining a copy of an answer with the results behind it.
LEMMA Joins ==
  ASSUME NEW p, NEW q, NEW r, IsSeq(p), IsSeq(q)
  PROVE  /\ p \o Append(q, r) = Append(p \o q, r) /\ IsSeq(p \o q)
         /\ <<r>> \o <<>> = Append(<<>>, r) /\ <<>> \o <<>> = <<>>
  <1>1. PICK S : p \in Seq(S)
    BY DEF IsSeq
  <1>2. PICK T : q \in Seq(T)
    BY DEF IsSeq
  <1> DEFINE U == S \cup T \cup {r}
  <1>3. p \in Seq(U) /\ q \in Seq(U) /\ r \in U
    BY <1>1, <1>2
  <1> HIDE DEF U
  <1>4. p \o q \in Seq(U) /\ Append(q, r) \in Seq(U)
    BY <1>3
  <1>5. p \o Append(q, r) = Append(p \o q, r)
    BY <1>3, <1>4
  <1>6. IsSeq(p \o q)
    BY <1>4 DEF IsSeq
  <1>7. <<r>> \o <<>> = Append(<<>>, r) /\ <<>> \o <<>> = <<>>
    OBVIOUS
  <1> QED BY <1>5, <1>6, <1>7

\* The decoder's messages are the records' own, and a copy it compared equal with them is true.
LEMMA CopiesKept ==
  ASSUME NEW a, NEW b, NEW r, NEW s, Tells(a, s), Moves(a, b, r)
  PROVE  CopiesTold(b, Append(s, r))
  <1> DEFINE t == Append(s, r)
             n == Len(s) + 1
             M(q) == Kind(q, "message_end")
             said1 == r.kind = "message_end" /\ r.id = "assistant"
             said2 == r.kind = "message_end" /\ r.id = "toolResult"
  <1>1. IsSeq(s) /\ CopiesTold(a, s) /\ RunTold(a, s) /\ a.turn \in BOOLEAN
    BY DEF Tells, DecoderTypes, Flags
  <1>2. IsSeq(a.messages) /\ IsSeq(a.assistant) /\ IsSeq(a.results)
    BY DEF Tells, DecoderTypes
  <1>3. Len(s) \in Nat /\ Len(t) = n /\ t[n] = r /\ \A i \in 1 .. Len(s) : t[i] = s[i]
    BY <1>1, Appended
  <1>4. /\ \A kind : Kind(s, kind) \subseteq 1 .. Len(s)
        /\ \A kind : r.kind = kind => Kind(t, kind) = Kind(s, kind) \cup {n}
        /\ \A kind : r.kind # kind => Kind(t, kind) = Kind(s, kind)
    BY <1>1, KindGrows
  <1>5. /\ \A i \in 1 .. Len(s) : InTurn(t, i) = InTurn(s, i)
        /\ r.kind = "turn_start" => InTurn(t, n) = {}
        /\ said1 \/ said2 => InTurn(t, n) = InTurn(s, Len(s)) \cup {n}
        /\ r.kind # "turn_start" /\ ~ said1 /\ ~ said2 => InTurn(t, n) = InTurn(s, Len(s))
        /\ \A i : InTurn(s, i) \subseteq 1 .. Len(s)
    BY <1>1, TurnGrows
  <1>6. \A P, copy : P \subseteq 1 .. Len(s) /\ Lists(copy, s, P) => Lists(copy, t, P)
    BY <1>1, ListsKept
  <1>7. \A P, copy : P \subseteq 1 .. Len(s) /\ IsSeq(copy) /\ Lists(copy, s, P) => Lists(Append(copy, r), t, P \cup {n})
    BY <1>1, ListsGrow
  <1>8. /\ Lists(a.messages, s, M(s))
        /\ a.turn => Lists(a.assistant \o a.results, s, InTurn(s, Len(s)))
        /\ a.turn /\ a.assistant = <<>> => a.results = <<>>
        /\ (a.turn => a.assistant = <<>>) => Answered(a)
        /\ \A i \in Kind(s, "agent_end") : Lists(s[i].copy, s, M(s))
        /\ \A i \in Kind(s, "turn_end") : Lists(s[i].copy, s, InTurn(s, i))
    BY <1>1 DEF CopiesTold, TrueCopies
  <1>9. ASSUME Lists(b.messages, t, M(t)),
               b.turn => Lists(b.assistant \o b.results, t, InTurn(t, n)),
               b.turn /\ b.assistant = <<>> => b.results = <<>>,
               (b.turn => b.assistant = <<>>) => Answered(b),
               \A i \in Kind(t, "agent_end") : Lists(t[i].copy, t, M(t)),
               \A i \in Kind(t, "turn_end") : Lists(t[i].copy, t, InTurn(t, i))
        PROVE  CopiesTold(b, t)
    BY <1>3, <1>9 DEF CopiesTold, TrueCopies
  <1>10. said1 => a.assistant = <<>> /\ b.assistant = <<r>>
    <2>1. ASSUME said1 PROVE StopSaid(a, b, r) \/ UseSaid(a, b, r)
      BY <2>1, MessageFields
    <2> QED BY <2>1 DEF StopSaid, UseSaid, AssistantSaid
  <1>11. said2 => a.assistant # <<>> /\ b.assistant = a.assistant /\ b.results = Append(a.results, r)
    <2> SUFFICES ASSUME said2 PROVE a.assistant # <<>> /\ b.assistant = a.assistant /\ b.results = Append(a.results, r)
      OBVIOUS
    <2>1. b.assistant = a.assistant /\ ResultSaid(a, b, r)
      BY MessageFields
    <2>2. ~ Answered(a)
      BY CallsByKind
    <2> QED BY <1>8, <2>1, <2>2 DEF ResultSaid
  <1>12. r.kind \notin {"turn_start", "turn_end"} => b.turn = a.turn
    BY FieldsByKind
  <1>13. r.kind # "turn_start" /\ ~ said1 /\ ~ said2 => b.assistant = a.assistant /\ b.results = a.results
    <2>1. CASE r.kind = "message_end"
      BY <2>1, MessageFields
    <2>2. CASE r.kind # "message_end"
      BY <2>2, FieldsByKind
    <2> QED BY <2>1, <2>2
  <1>14. r.kind = "turn_start" => a.turn = FALSE /\ b.turn = TRUE /\ b.assistant = <<>> /\ b.results = <<>>
    <2>1. ASSUME r.kind = "turn_start" PROVE TurnBegun(a, b, r)
      BY <2>1, MovesByKind
    <2> QED BY <2>1 DEF TurnBegun
  <1>15. r.kind = "turn_end" => a.turn = TRUE /\ b.turn = FALSE /\ r.copy = a.assistant \o a.results /\ Answered(a)
    <2>1. ASSUME r.kind = "turn_end" PROVE TurnEnded(a, b, r)
      BY <2>1, MovesByKind
    <2> QED BY <2>1 DEF TurnEnded
  <1>16. said1 \/ said2 => a.turn = TRUE /\ b.turn = TRUE
    BY MessageFields
  <1>17. ~ said1 /\ Answered(a) => b.call = a.call
    BY CallsByKind
  <1> HIDE DEF t, n, M
  \* the decoder's list of messages
  <1>20. Lists(b.messages, t, M(t))
    <2>1. CASE r.kind = "message_end"
      <3>1. b.messages = Append(a.messages, r)
        BY <2>1, MessageFields
      <3>2. M(t) = M(s) \cup {n} /\ M(s) \subseteq 1 .. Len(s)
        BY <1>4, <2>1 DEF M
      <3> QED BY <1>2, <1>7, <1>8, <3>1, <3>2
    <2>2. CASE r.kind # "message_end"
      <3>1. b.messages = a.messages
        BY <2>2, FieldsByKind
      <3>2. M(t) = M(s) /\ M(s) \subseteq 1 .. Len(s)
        BY <1>4, <2>2 DEF M
      <3> QED BY <1>6, <1>8, <3>1, <3>2
    <2> QED BY <2>1, <2>2
  \* the turn's
  <1>21. ASSUME b.turn PROVE Lists(b.assistant \o b.results, t, InTurn(t, n))
    <2>1. CASE r.kind = "turn_start"
      <3>1. Lists(<<>>, t, {})
        BY FS_EmptySet DEF Lists
      <3> QED BY <1>2, <1>5, <1>14, <2>1, <3>1, Joins
    <2>2. CASE said1
      <3>1. a.assistant = <<>> /\ a.results = <<>> /\ b.assistant = <<r>>
        BY <1>8, <1>10, <1>16, <2>2
      <3>2. b.results = <<>>
        BY <2>2, <3>1, MessageFields
      <3>3. b.assistant \o b.results = Append(a.assistant \o a.results, r) /\ IsSeq(a.assistant \o a.results)
        BY <1>2, <3>1, <3>2, Joins
      <3>4. Lists(a.assistant \o a.results, s, InTurn(s, Len(s)))
        BY <1>8, <1>16, <2>2
      <3> QED BY <1>5, <1>7, <2>2, <3>3, <3>4
    <2>3. CASE said2
      <3>0. a.assistant \o Append(a.results, r) = Append(a.assistant \o a.results, r) /\ IsSeq(a.assistant \o a.results)
        <4>1. PICK p, q : p = a.assistant /\ q = a.results
          OBVIOUS
        <4>2. IsSeq(p) /\ IsSeq(q)
          BY <1>2, <4>1
        <4>3. IsSeq(p \o q)
          BY <4>2, Joins
        <4>4. p \o Append(q, r) = Append(p \o q, r)
          BY <4>2, Joins
        <4> QED BY <4>1, <4>3, <4>4
      <3>1. b.assistant \o b.results = Append(a.assistant \o a.results, r)
        BY <1>11, <2>3, <3>0
      <3>2. Lists(a.assistant \o a.results, s, InTurn(s, Len(s)))
        BY <1>8, <1>16, <2>3
      <3> QED BY <1>5, <1>7, <2>3, <3>0, <3>1, <3>2
    <2>4. CASE r.kind # "turn_start" /\ ~ said1 /\ ~ said2
      <3>1. r.kind # "turn_end"
        BY <1>15, <1>21
      <3>2. a.turn /\ b.assistant = a.assistant /\ b.results = a.results /\ InTurn(t, n) = InTurn(s, Len(s))
        BY <1>5, <1>12, <1>13, <1>21, <2>4, <3>1
      <3> QED BY <1>5, <1>6, <1>8, <3>2
    <2> QED BY <2>1, <2>2, <2>3, <2>4
  <1>22. b.turn /\ b.assistant = <<>> => b.results = <<>>
    <2>1. CASE r.kind \in {"turn_start", "turn_end"}
      BY <1>14, <1>15, <2>1
    <2>2. CASE said1
      <3>1. <<r>> # <<>>
        OBVIOUS
      <3> QED BY <1>10, <2>2, <3>1
    <2>3. CASE said2
      BY <1>11, <2>3
    <2>4. CASE r.kind \notin {"turn_start", "turn_end"} /\ ~ said1 /\ ~ said2
      BY <1>8, <1>12, <1>13, <2>4
    <2> QED BY <2>1, <2>2, <2>3, <2>4
  <1>23. ASSUME b.turn => b.assistant = <<>> PROVE Answered(b)
    <2>1. ~ said1
      <3>1. <<r>> # <<>>
        OBVIOUS
      <3> QED BY <1>10, <1>16, <1>23, <3>1
    <2>2. Answered(a)
      <3>1. CASE r.kind \in {"turn_start", "turn_end"}
        BY <1>8, <1>14, <1>15, <3>1
      <3>2. CASE said2
        BY <1>11, <1>16, <1>23, <3>2
      <3>3. CASE r.kind \notin {"turn_start", "turn_end"} /\ ~ said2
        BY <1>8, <1>12, <1>13, <1>23, <2>1, <3>3
      <3> QED BY <3>1, <3>2, <3>3
    <2>3. b.call = a.call
      BY <1>17, <2>1, <2>2
    <2> QED BY <2>2, <2>3 DEF Answered, Declared
  <1>24. ASSUME NEW i \in Kind(t, "agent_end") PROVE Lists(t[i].copy, t, M(t))
    <2>1. CASE r.kind = "agent_end"
      <3>1. RunEnded(a, b, r)
        BY <2>1, MovesByKind
      <3>2. a.ended = FALSE /\ r.copy = a.messages
        BY <3>1 DEF RunEnded
      <3>3. i = n
        BY <1>1, <1>4, <1>24, <2>1, <3>2 DEF RunTold
      <3>4. M(t) = M(s) /\ M(s) \subseteq 1 .. Len(s)
        BY <1>4, <2>1 DEF M
      <3> QED BY <1>3, <1>6, <1>8, <3>2, <3>3, <3>4
    <2>2. CASE r.kind = "message_end"
      <3>1. a.turn = TRUE
        BY <2>2, MessageFields
      <3>2. Kind(t, "agent_end") = {}
        BY <1>1, <1>4, <2>2, <3>1 DEF RunTold
      <3> QED BY <1>24, <3>2
    <2>3. CASE r.kind \notin {"agent_end", "message_end"}
      <3>1. i \in Kind(s, "agent_end") /\ t[i] = s[i]
        BY <1>3, <1>4, <1>24, <2>3
      <3>2. M(t) = M(s) /\ M(s) \subseteq 1 .. Len(s)
        BY <1>4, <2>3 DEF M
      <3> QED BY <1>6, <1>8, <3>1, <3>2
    <2> QED BY <2>1, <2>2, <2>3
  <1>25. ASSUME NEW i \in Kind(t, "turn_end") PROVE Lists(t[i].copy, t, InTurn(t, i))
    <2>1. CASE i \in Kind(s, "turn_end")
      <3>1. i \in 1 .. Len(s) /\ t[i] = s[i] /\ InTurn(t, i) = InTurn(s, i)
        BY <1>3, <1>4, <1>5, <2>1
      <3> QED BY <1>5, <1>6, <1>8, <2>1, <3>1
    <2>2. CASE i \notin Kind(s, "turn_end")
      <3>1. i = n /\ r.kind = "turn_end"
        BY <1>4, <1>25, <2>2
      <3>2. Lists(r.copy, s, InTurn(s, Len(s)))
        BY <1>8, <1>15, <3>1
      <3>3. InTurn(t, n) = InTurn(s, Len(s))
        BY <1>5, <3>1
      <3> QED BY <1>3, <1>5, <1>6, <3>1, <3>2, <3>3
    <2> QED BY <2>1, <2>2
  <1> QED BY <1>9, <1>20, <1>21, <1>22, <1>23, <1>24, <1>25 DEF t
-----------------------------------------------------------------------------
\* A record that is accepted is told.
LEMMA FedTells ==
  ASSUME NEW a, NEW r, NEW s, Tells(a, s), ~ a.damaged, ~ a.refused, Shape(r), ~ Fed(a, r).damaged, ~ Fed(a, r).refused
  PROVE  Tells(Fed(a, r), Append(s, r)) /\ Fed(a, r).gen = a.gen
  <1> DEFINE b == Fed(a, r)
  <1>1. PICK f : Tells(f, s) /\ f.gen = a.gen /\ Moves(f, b, r) /\ DecoderTypes(b)
    BY FedMoves
  <1> HIDE DEF b
  <1>2. IsSeq(Append(s, r))
    BY Appended DEF Tells
  <1>3. Asked(b) /\ RepliesTold(b, Append(s, r))
    BY <1>1, RepliesKept
  <1>4. RunTold(b, Append(s, r)) /\ TurnsTold(b, Append(s, r))
    BY <1>1, RunKept, TurnsKept
  <1>5. UserTold(b, Append(s, r)) /\ FinalTold(b, Append(s, r))
    BY <1>1, UserKept, FinalKept
  <1>6. (\A k \in Calls : ReadTold(b, Append(s, r), k)) /\ CopiesTold(b, Append(s, r))
    BY <1>1, ReadsKept, CopiesKept
  <1>7. Tells(b, Append(s, r))
    BY <1>1, <1>2, <1>3, <1>4, <1>5, <1>6 DEF Tells
  <1>8. b.gen = a.gen
    BY <1>1, FieldsByKind
  <1> QED BY <1>7, <1>8 DEF b

\* A request that crosses nothing changes nothing that was told.
LEMMA RequestedTells ==
  ASSUME NEW a, NEW s, Tells(a, s), NEW command, ~ Requested(a, command).damaged,
         \/ command = "get_state" /\ a.gen = 0
         \/ command = "prompt" /\ a.gen = 1 /\ a.state
  PROVE  Tells(Requested(a, command), s) /\ Requested(a, command).gen = a.gen + 1
  <1> DEFINE e == IF a.expected # "" \/ a.torn \/ a.eof THEN Damage(a) ELSE a
             b == Requested(a, command)
  <1>1. DOMAIN a = DecoderFields /\ a.gen \in Nat
    BY DEF Tells, DecoderTypes
  <1>2. b = [e EXCEPT !.gen = @ + 1, !.expected = command]
    BY DEF Requested
  <1>3. DOMAIN e = DecoderFields
    BY <1>1 DEF Damage
  <1>4. b.damaged = e.damaged
    BY <1>2, <1>3 DEF DecoderFields
  <1>5. e = a
    BY <1>1, <1>4, Marks
  <1> HIDE DEF e, b
  <1>6. /\ DOMAIN b = DecoderFields /\ b.gen = a.gen + 1 /\ b.expected = command
        /\ \A x \in DecoderFields \ {"gen", "expected"} : b[x] = a[x]
    BY <1>1, <1>2, <1>5 DEF DecoderFields
  <1>7. Same(a, b, {"gen", "expected"}) /\ b.state = a.state /\ b.accepted = a.accepted
    BY <1>6 DEF Same, Told, DecoderFields
  <1>8. b.gen \in Nat /\ b.expected \in {"", "get_state", "prompt"}
    <2>1. b.gen = a.gen + 1 /\ a.gen \in Nat
      BY <1>1, <1>6
    <2>2. b.gen \in Nat
      BY <2>1
    <2>3. b.expected = command /\ command \in {"get_state", "prompt"}
      BY <1>6
    <2> QED BY <2>2, <2>3
  <1>9. Asked(a)
    BY DEF Tells
  <1>10. Asked(b)
    <2>1. CASE command = "get_state" /\ a.gen = 0
      <3>1. b.gen = 1
        BY <1>6, <2>1
      <3>0. a.gen # 2
        BY <2>1
      <3>2. ~ a.state /\ a.gen # 2
        BY <1>9, <2>1, <3>0, Zenon DEF Asked
      <3>3. ~ a.accepted
        BY <1>9, <3>2 DEF Asked
      <3>4. b.gen # 0 /\ b.gen < 2
        BY <3>1
      <3>5. b.expected = "get_state"
        BY <1>6, <2>1
      <3> QED BY <1>7, <3>1, <3>2, <3>3, <3>4, <3>5, Zenon DEF Asked
    <2>2. CASE command = "prompt" /\ a.gen = 1 /\ a.state
      <3>1. b.gen = 2
        BY <1>6, <2>2
      <3>2. a.gen # 2
        BY <2>2
      <3>3. ~ a.accepted
        BY <1>9, <3>2 DEF Asked
      <3>4. b.gen # 0
        BY <3>1
      <3>5. b.expected = "prompt"
        BY <1>6, <2>2
      <3> QED BY <1>7, <2>2, <3>1, <3>3, <3>4, <3>5, Zenon DEF Asked
    <2> QED BY <2>1, <2>2
  <1>11. Tells(b, s)
    BY <1>6, <1>7, <1>8, <1>10, TellsSame
  <1> QED BY <1>6, <1>11 DEF b

\* A new decoder tells of nothing.
LEMMA NewTells == Tells(NewDecoder, <<>>)
  <1> DEFINE a == NewDecoder
             s == <<>>
  <1>1. \A kind : Kind(s, kind) = {}
    BY DEF Kind
  <1>2. (\A kind, id : Of(s, kind, id) = {}) /\ (\A kind, id, k : About(s, kind, id, k) = {}) /\ Stops(s) = {}
    BY <1>1 DEF Of, About, Stops
  <1>3. /\ a.gen = 0 /\ a.expected = "" /\ ~ a.state /\ ~ a.accepted /\ ~ a.started /\ ~ a.ended /\ ~ a.settled /\ ~ a.turn
        /\ ~ a.user /\ ~ a.final /\ a.messages = <<>> /\ a.assistant = <<>> /\ a.results = <<>>
        /\ \A k \in Calls : a.call[k] = "none"
    BY DEF NewDecoder
  <1>4. IsSeq(s)
    BY <<>> \in Seq({}) DEF IsSeq
  <1>5. DecoderTypes(a)
    <2>1. DOMAIN a = DecoderFields
      BY DEF NewDecoder, DecoderFields
    <2>2. \A x \in Flags : a[x] \in BOOLEAN
      <3>1. /\ a["state"] = FALSE /\ a["accepted"] = FALSE /\ a["started"] = FALSE /\ a["ended"] = FALSE
            /\ a["settled"] = FALSE /\ a["turn"] = FALSE /\ a["user"] = FALSE /\ a["final"] = FALSE
        BY DEF NewDecoder
      <3> HIDE DEF a
      <3> QED BY <3>1 DEF Flags
    <2>3. a.call \in [Calls -> ReadStages] /\ DOMAIN a.content = Calls
      BY DEF NewDecoder, ReadStages
    <2>4. a.gen = 0
      BY DEF NewDecoder
    <2>5. a.gen \in Nat
      BY <2>4
    <2>6. a.expected = ""
      BY DEF NewDecoder
    <2>7. IsSeq(a.messages) /\ IsSeq(a.assistant) /\ IsSeq(a.results)
      BY <1>3, <1>4
    <2> HIDE DEF a
    <2> QED BY <2>1, <2>2, <2>3, <2>5, <2>6, <2>7 DEF DecoderTypes
  <1>6. Answered(a) /\ Cardinality({}) = 0
    BY <1>3, FS_EmptySet DEF Answered, Declared
  <1>7. Lists(<<>>, s, {})
    BY <1>6 DEF Lists
  <1> HIDE DEF a, s
  <1>8. Asked(a)
    <2>1. a.gen = 0
      BY <1>3
    <2>2. a.gen < 2
      BY <2>1
    <2>3. a.expected = "" /\ ~ a.state /\ ~ a.accepted
      BY <1>3
    <2> QED BY <2>2, <2>3, Zenon DEF Asked
  <1>9. RepliesTold(a, s) /\ RunTold(a, s)
    BY <1>1, <1>2, <1>3 DEF RepliesTold, RunTold, Before, s
  <1>10. TurnsTold(a, s) /\ UserTold(a, s) /\ FinalTold(a, s)
    <2>1. ~ a.turn /\ ~ a.user /\ ~ a.final
      BY <1>3
    <2>2. Kind(s, "turn_start") = {} /\ Kind(s, "turn_end") = {} /\ Answers(s) = {}
      BY <1>1, <1>2 DEF Answers
    <2>3. TurnsTold(a, s)
      BY <1>6, <2>1, <2>2 DEF TurnsTold
    <2>4. UserTold(a, s)
      BY <1>2, <2>1, <2>2 DEF UserTold, Before
    <2>5. FinalTold(a, s)
      BY <1>2, <2>1 DEF FinalTold, Before
    <2> QED BY <2>3, <2>4, <2>5
  <1>11. \A k \in Calls : ReadTold(a, s, k)
    BY <1>2, <1>3 DEF ReadTold, Before
  <1>12. CopiesTold(a, s)
    BY <1>1, <1>3, <1>6, <1>7 DEF CopiesTold, TrueCopies
  <1>13. Tells(a, s)
    BY <1>4, <1>5, <1>8, <1>9, <1>10, <1>11, <1>12 DEF Tells
  <1> QED BY <1>13 DEF a, s

\* What a settled decoder with an accepted prompt and a final answer tells is a whole exchange.
LEMMA SettledIsCoherent ==
  ASSUME NEW a, NEW s, Tells(a, s), a.accepted, a.settled, a.final
  PROVE  Coherent(s)
  <1>1. /\ IsSeq(s) /\ Asked(a) /\ RepliesTold(a, s) /\ RunTold(a, s) /\ TurnsTold(a, s)
        /\ UserTold(a, s) /\ FinalTold(a, s) /\ (\A k \in Calls : ReadTold(a, s, k)) /\ CopiesTold(a, s)
    BY DEF Tells
  <1>2. \A S : One(S) => Once(S)
    BY FS_Singleton DEF One, Once
  <1>3. a.state /\ a.ended /\ a.started /\ ~ a.turn
    BY <1>1 DEF Asked, RunTold
  <1>4. OneDialogue(s)
    <2>1. PICK p : Of(s, "response", "prompt") = {p}
      BY <1>1 DEF RepliesTold, One
    <2>2. Of(s, "response", "get_state") = {1}
      BY <1>1, <1>3 DEF RepliesTold
    <2>3. /\ 1 \in Kind(s, "response") /\ s[1].id = "get_state"
          /\ p \in Kind(s, "response") /\ s[p].id = "prompt"
      BY <2>1, <2>2 DEF Of
    <2>4. \A i \in Kind(s, "response") : s[i].body = "ok" /\ s[i].id \in {"get_state", "prompt"}
      BY <1>1 DEF RepliesTold
    <2>5. \A i \in Kind(s, "response") : i \in {1, p}
      <3>1. ASSUME NEW i \in Kind(s, "response") PROVE i \in {1, p}
        <4>1. CASE s[i].id = "get_state"
          BY <2>2, <4>1 DEF Of
        <4>2. CASE s[i].id = "prompt"
          BY <2>1, <4>2 DEF Of
        <4> QED BY <2>4, <4>1, <4>2
      <3> QED BY <3>1
    <2>6. Kind(s, "response") = {1, p} /\ p # 1
      BY <2>3, <2>5
    <2>7. Cardinality({1, p}) = 2
      <3>1. Cardinality({p}) = 1 /\ IsFiniteSet({p})
        BY FS_Singleton
      <3>2. Cardinality({p} \cup {1}) = Cardinality({p}) + 1
        BY <2>6, <3>1, FS_AddElement
      <3>3. {p} \cup {1} = {1, p}
        OBVIOUS
      <3> QED BY <3>1, <3>2, <3>3
    <2>8. {s[i].id : i \in Kind(s, "response")} = {"get_state", "prompt"}
      BY <2>3, <2>6
    <2> QED BY <2>3, <2>4, <2>6, <2>7, <2>8 DEF OneDialogue
  <1>5. OneRun(s)
    <2>1. One(Kind(s, "agent_start")) /\ One(Kind(s, "agent_end")) /\ One(Kind(s, "settled"))
      BY <1>1, <1>3 DEF RunTold
    <2>2. /\ Cardinality(Kind(s, "turn_start")) = Cardinality(Kind(s, "turn_end"))
          /\ Cardinality(Answers(s)) = Cardinality(Kind(s, "turn_end"))
      <3>1. Kind(s, "turn_end") \subseteq 1 .. Len(s) /\ Len(s) \in Nat
        BY <1>1, KindGrows, Appended
      <3>2. Cardinality(Kind(s, "turn_end")) \in Nat
        BY <3>1, Places
      <3> QED BY <1>1, <1>3, <3>2 DEF TurnsTold
    <2> QED BY <1>1, <1>2, <2>1, <2>2 DEF RunTold, OneRun, Answers
  <1>6. OneAnswer(s)
    <2>1. One(Stops(s)) /\ Declared(a) # {}
      BY <1>1 DEF FinalTold
    <2>2. Stops(s) \subseteq Answers(s)
      BY DEF Stops, Answers
    <2>3. Answers(s) # {}
      BY <2>1, <2>2 DEF One
    <2>4. a.user
      BY <1>1, <2>3 DEF UserTold
    <2>5. PICK i : Of(s, "message_end", "user") = {i} /\ s[i].body = "ok"
      BY <1>1, <2>4 DEF UserTold
    <2>6. The({i}) = i /\ Once({i})
      BY <1>2, TheOne DEF One
    <2>7. PICK k \in Calls : a.call[k] # "none"
      BY <2>1 DEF Declared
    <2>8. ReadTold(a, s, k)
      BY <1>1
    <2>9. One(About(s, "message_end", "assistant", k))
      BY <2>7, <2>8 DEF ReadTold
    <2>10. \E j \in Answers(s) : k \in s[j].calls
      BY <2>9 DEF One, About, Answers
    <2> QED BY <1>1, <1>2, <2>1, <2>5, <2>6, <2>10 DEF FinalTold, UserTold, OneAnswer, Answers
  <1>7. ASSUME NEW k \in Calls PROVE WholeRead(s, k)
    <2>1. a.call[k] \in {"none", "answered"}
      BY <1>1 DEF FinalTold, Answered, Declared
    <2>2. ReadTold(a, s, k)
      BY <1>1
    <2>3. CASE a.call[k] = "none"
      BY <2>2, <2>3 DEF ReadTold, WholeRead
    <2>4. CASE a.call[k] = "answered"
      <3>1. PICK i : About(s, "execution", "end", k) = {i} /\ s[i].body = a.content[k]
        BY <2>2, <2>4 DEF ReadTold
      <3>2. PICK j : About(s, "message_end", "toolResult", k) = {j} /\ s[j].body = a.content[k]
        BY <2>2, <2>4 DEF ReadTold
      <3>3. The({i}) = i /\ The({j}) = j /\ Once({i}) /\ Once({j})
        BY <1>2, TheOne DEF One
      <3>4. /\ One(About(s, "message_end", "assistant", k)) /\ One(About(s, "execution", "start", k))
            /\ a.content[k] # "error"
        BY <2>2, <2>4 DEF ReadTold
      <3>5. /\ Before(About(s, "message_end", "assistant", k), About(s, "execution", "start", k))
            /\ Before(About(s, "execution", "start", k), About(s, "execution", "end", k))
            /\ Before(About(s, "execution", "end", k), About(s, "message_end", "toolResult", k))
        BY <2>2 DEF ReadTold
      <3> QED BY <1>2, <3>1, <3>2, <3>3, <3>4, <3>5 DEF WholeRead
    <2> QED BY <2>1, <2>3, <2>4
  <1>8. TrueCopies(s)
    BY <1>1 DEF CopiesTold
  <1> QED BY <1>4, <1>5, <1>6, <1>7, <1>8 DEF Coherent

\* A decoder keeps its fields, whatever it is fed.
LEMMA FedDomain ==
  ASSUME NEW a, NEW r, DOMAIN a = DecoderFields, Shape(r)
  PROVE  DOMAIN Fed(a, r) = DecoderFields
  <1> DEFINE f == [a EXCEPT !.torn = FALSE, !.frame = IF a.torn THEN @ ELSE a.gen, !.count = @ + 1]
  <1>1. DOMAIN f = DecoderFields
    OBVIOUS
  <1>2. Fed(a, r) = IF f.count > RecordCount THEN Damage(f) ELSE Observe(f, r)
    BY DEF Fed
  <1> HIDE DEF f
  <1>3. \A g : DOMAIN Damage(g) = DOMAIN g /\ DOMAIN Decline(g) = DOMAIN g
    BY DEF Damage, Decline
  <1>4. DOMAIN Response(f, r) = DecoderFields
    BY <1>1, <1>3 DEF Response
  <1>5. DOMAIN TurnStart(f) = DecoderFields /\ DOMAIN TurnEnd(f, r) = DecoderFields
    BY <1>1, <1>3 DEF TurnStart, TurnEnd
  <1>6. DOMAIN AgentEnd(f, r) = DecoderFields /\ DOMAIN Settle(f, r) = DecoderFields
    BY <1>1, <1>3 DEF AgentEnd, Settle
  <1>7. DOMAIN MessageStart(f, r) = DecoderFields
    BY <1>1, <1>3 DEF MessageStart
  <1>8. r.kind = "message_update" => DOMAIN Update(f, r) = DecoderFields
    BY <1>1, <1>3 DEF Update, Shape
  <1>9. r.kind = "execution" => DOMAIN Execution(f, r) = DecoderFields
    BY <1>1, <1>3 DEF Execution, Shape
  <1>10. r.kind = "message_end" => DOMAIN MessageEnd(f, r) = DecoderFields
    <2> SUFFICES ASSUME r.kind = "message_end" PROVE DOMAIN MessageEnd(f, r) = DecoderFields
      OBVIOUS
    <2> DEFINE e == [f EXCEPT !.role = ""]
               g == CASE r.id = "system" -> SystemEnd(e, r)
                      [] r.id = "user" -> UserEnd(e, r)
                      [] r.id = "toolResult" -> ResultEnd(e, r)
                      [] r.id = "assistant" -> AssistantEnd(e, r)
    <2>1. DOMAIN e = DecoderFields
      BY <1>1
    <2>2. DOMAIN MessageEnd(f, r) \in {DOMAIN f, DOMAIN g}
      BY <1>3 DEF MessageEnd
    <2>3. r.id \in Roles
      BY DEF Shape
    <2> HIDE DEF e
    <2>4. DOMAIN SystemEnd(e, r) = DecoderFields /\ DOMAIN UserEnd(e, r) = DecoderFields
      BY <1>3, <2>1 DEF SystemEnd, UserEnd
    <2>5. DOMAIN ResultEnd(e, r) = DecoderFields
      BY <1>3, <2>1 DEF ResultEnd
    <2>6. DOMAIN AssistantEnd(e, r) = DecoderFields
      BY <1>3, <2>1 DEF AssistantEnd
    <2>7. DOMAIN g = DecoderFields
      BY <2>3, <2>4, <2>5, <2>6 DEF Roles
    <2> QED BY <1>1, <2>2, <2>7
  <1>11. DOMAIN Event(f, r) = DecoderFields
    BY <1>1, <1>3, <1>5, <1>6, <1>7, <1>8, <1>9, <1>10 DEF Event
  <1>12. DOMAIN Observe(f, r) = DecoderFields
    BY <1>1, <1>4, <1>11 DEF Observe
  <1> QED BY <1>1, <1>2, <1>3, <1>12

\* What stops a decoder is not undone by its buffer, by the end of its input or by a request.
LEMMA TornTells ==
  ASSUME NEW a, DOMAIN a = DecoderFields
  PROVE  /\ DOMAIN Torn(a) = DecoderFields /\ Torn(a).gen = a.gen
         /\ ~ Torn(a).damaged /\ ~ Torn(a).refused => ~ a.damaged /\ ~ a.refused
         /\ \A s : Tells(a, s) => Tells(Torn(a), s)
  <1> DEFINE b == Torn(a)
  <1>1. DOMAIN b = DecoderFields /\ Same(a, b, {}) /\ b.damaged = a.damaged /\ b.refused = a.refused
    BY DEF Torn, DecoderFields, Same, Told
  <1> HIDE DEF b
  <1>2. b.gen = a.gen /\ b.expected = a.expected /\ b.state = a.state /\ b.accepted = a.accepted
    BY <1>1 DEF Same, Told
  <1>3. Same(a, b, {"gen", "expected"})
    BY <1>1 DEF Same
  <1>4. ASSUME NEW s, Tells(a, s) PROVE Tells(b, s)
    <2>1. Asked(b) /\ b.gen \in Nat /\ b.expected \in {"", "get_state", "prompt"}
      BY <1>2, <1>4 DEF Tells, Asked, DecoderTypes
    <2> QED BY <1>1, <1>3, <1>4, <2>1, TellsSame
  <1> QED BY <1>1, <1>2, <1>4 DEF b

\* The end of the input.
LEMMA FinishedTells ==
  ASSUME NEW a, DOMAIN a = DecoderFields
  PROVE  /\ DOMAIN Finished(a) = DecoderFields /\ Finished(a).gen = a.gen
         /\ ~ Finished(a).damaged /\ ~ Finished(a).refused => ~ a.damaged /\ ~ a.refused
         /\ \A s : Tells(a, s) => Tells(Finished(a), s)
  <1> DEFINE b == Finished(a)
  <1>1. DOMAIN b = DecoderFields /\ Same(a, b, {}) /\ b.damaged = (a.damaged \/ a.torn) /\ b.refused = a.refused
    BY DEF Finished, DecoderFields, Same, Told
  <1> HIDE DEF b
  <1>2. b.gen = a.gen /\ b.expected = a.expected /\ b.state = a.state /\ b.accepted = a.accepted
    BY <1>1 DEF Same, Told
  <1>3. Same(a, b, {"gen", "expected"})
    BY <1>1 DEF Same
  <1>4. ASSUME NEW s, Tells(a, s) PROVE Tells(b, s)
    <2>1. Asked(b) /\ b.gen \in Nat /\ b.expected \in {"", "get_state", "prompt"}
      BY <1>2, <1>4 DEF Tells, Asked, DecoderTypes
    <2> QED BY <1>1, <1>3, <1>4, <2>1, TellsSame
  <1> QED BY <1>1, <1>2, <1>4 DEF b

\* A request.
LEMMA RequestedStopped ==
  ASSUME NEW a, NEW command, DOMAIN a = DecoderFields
  PROVE  /\ DOMAIN Requested(a, command) = DecoderFields /\ DOMAIN Decline(a) = DecoderFields
         /\ ~ Requested(a, command).damaged /\ ~ Requested(a, command).refused => ~ a.damaged /\ ~ a.refused
  <1> DEFINE e == IF a.expected # "" \/ a.torn \/ a.eof THEN Damage(a) ELSE a
             b == Requested(a, command)
  <1>1. b = [e EXCEPT !.gen = @ + 1, !.expected = command]
    BY DEF Requested
  <1>2. DOMAIN e = DecoderFields /\ e.refused = a.refused /\ (e.damaged = TRUE \/ e.damaged = a.damaged)
    BY DEF Damage, DecoderFields
  <1> HIDE DEF e
  <1>3. DOMAIN b = DecoderFields /\ b.damaged = e.damaged /\ b.refused = e.refused
    BY <1>1, <1>2 DEF DecoderFields
  <1>4. DOMAIN Decline(a) = DecoderFields
    BY DEF Decline
  <1> HIDE DEF b
  <1>5. ~ b.damaged /\ ~ b.refused => ~ a.damaged /\ ~ a.refused
    BY <1>2, <1>3
  <1> QED BY <1>3, <1>4, <1>5 DEF b

\* Every record of the client has the shape of one: an arbitrary client's, and the script's.
LEMMA VocabularyShaped == \A r \in Vocabulary : Shape(r)
  <1> SUFFICES ASSUME NEW r \in Vocabulary PROVE Shape(r)
    OBVIOUS
  <1>1. ASSUME NEW kind, NEW id, NEW calls, NEW body, NEW copy, r = Ev(kind, id, calls, body, copy)
        PROVE  r.kind = kind /\ r.id = id /\ r.calls = calls
    BY <1>1 DEF Ev
  <1>2. r.kind \notin {"message_end", "message_update", "execution"} => Shape(r)
    BY DEF Shape
  <1>3. CASE r \in Replies
    <2>1. r.kind = "response"
      BY <1>3 DEF Replies, Ev
    <2> QED BY <1>2, <2>1
  <1>4. CASE r \in Messages
    <2>1. /\ r.kind \in {"message_start", "message_end"} /\ r.id \in Roles
          /\ r.kind = "message_end" /\ r.id = "toolResult" => r.calls \in Reads
      BY <1>4 DEF Messages, Ev, Roles
    <2> QED BY <2>1 DEF Shape, Reads
  <1>5. CASE r \in Updates
    <2>1. r.kind = "message_update" /\ r.id \in {"delta", "error", "done"}
      BY <1>5 DEF Updates, Ev
    <2> QED BY <2>1 DEF Shape
  <1>6. CASE r \in Executions
    <2>1. r.kind = "execution" /\ r.id \in {"start", "update", "end"} /\ r.calls \in Reads
      BY <1>6 DEF Executions, Ev
    <2> QED BY <2>1 DEF Shape, Reads
  <1>7. CASE r \in Bounds
    <2>1. r.kind \in {"agent_start", "turn_start", "settled", "unknown", "turn_end", "agent_end"}
      <3>1. PICK x, b, q : /\ r = Ev(x, "", {}, b, q)
                           /\ x \in {"agent_start", "turn_start", "settled", "unknown", "turn_end", "agent_end"}
        BY <1>7 DEF Bounds
      <3> QED BY <1>1, <3>1
    <2> QED BY <1>2, <2>1
  <1> QED BY <1>3, <1>4, <1>5, <1>6, <1>7 DEF Vocabulary

\* The script's records.
LEMMA ScriptShaped == Len(said) \in Nat => \A r \in Scripted : Shape(r)
  <1> SUFFICES ASSUME Len(said) \in Nat, NEW r \in Scripted PROVE Shape(r)
    OBVIOUS
  <1> DEFINE k == CHOOSE x \in Calls : TRUE
             x1 == Ev("response", "get_state", {}, "ok", <<>>)
             x2 == Ev("response", "prompt", {}, "ok", <<>>)
             x3 == Ev("agent_start", "", {}, "ok", <<>>)
             x4 == Ev("turn_start", "", {}, "ok", <<>>)
             x5 == Ev("execution", "start", {k}, "same", <<>>)
             x6 == Ev("execution", "end", {k}, "x", <<>>)
             x7 == Ev("turn_end", "", {}, "ok", TurnCopy(said))
             x8 == Ev("agent_end", "", {}, "ok", MessagesOf(said))
             x9 == Ev("settled", "", {}, "ok", <<>>)
             m(role) == Ev("message_start", role, {}, "ok", <<>>)
             n1 == Ev("message_end", "user", {}, "ok", <<>>)
             n2 == Ev("message_end", "assistant", {k}, "toolUse", <<>>)
             n3 == Ev("message_end", "toolResult", {k}, "x", <<>>)
             n4 == Ev("message_end", "assistant", {}, "stop", <<>>)
             T == {x1, x2, x3, x4, x5, x6, x7, x8, x9, m("user"), m("assistant"), m("toolResult"), n1, n2, n3, n4}
             s == Script(k)
  <1>1. k \in Calls
    BY CallsAssumption
  <1> HIDE DEF k
  <1>2. \A x \in T : Shape(x)
    <2>1. Shape(x1) /\ Shape(x2) /\ Shape(x3) /\ Shape(x4) /\ Shape(x7) /\ Shape(x8) /\ Shape(x9)
      BY DEF Shape, Ev
    <2>2. Shape(x5) /\ Shape(x6)
      BY <1>1 DEF Shape, Ev
    <2>3. \A role : Shape(m(role))
      BY DEF Shape, Ev
    <2>4. Shape(n1) /\ Shape(n2) /\ Shape(n4)
      BY DEF Shape, Ev, Roles
    <2>5. Shape(n3)
      BY <1>1 DEF Shape, Ev, Roles
    <2> HIDE DEF x1, x2, x3, x4, x5, x6, x7, x8, x9, m, n1, n2, n3, n4
    <2> QED BY <2>1, <2>2, <2>3, <2>4, <2>5
  <1>3. s \in Seq(T)
    <2>1. s = <<x1, x2, x3, x4>> \o <<m("user"), n1>> \o <<m("assistant"), n2>> \o <<x5, x6>> \o <<m("toolResult"), n3>>
              \o <<x7, x4>> \o <<m("assistant"), n4>> \o <<x7, x8, x9>>
      BY DEF Script, Message
    <2> HIDE DEF x1, x2, x3, x4, x5, x6, x7, x8, x9, m, n1, n2, n3, n4, s
    <2>2. <<x1, x2, x3, x4>> \in Seq(T) /\ <<x7, x8, x9>> \in Seq(T)
      OBVIOUS
    <2>3. <<m("user"), n1>> \in Seq(T) /\ <<m("assistant"), n2>> \in Seq(T) /\ <<x5, x6>> \in Seq(T)
      OBVIOUS
    <2>4. <<m("toolResult"), n3>> \in Seq(T) /\ <<x7, x4>> \in Seq(T) /\ <<m("assistant"), n4>> \in Seq(T)
      OBVIOUS
    <2>5. \A p, q : p \in Seq(T) /\ q \in Seq(T) => p \o q \in Seq(T)
      OBVIOUS
    <2> HIDE DEF T
    <2> QED BY <2>1, <2>2, <2>3, <2>4, <2>5
  <1>4. Len(said) < Len(s) /\ r = s[Len(said) + 1]
    BY DEF Scripted, k
  <1> HIDE DEF s, T
  <1>5. r \in T
    BY <1>3, <1>4
  <1> QED BY <1>2, <1>5
-----------------------------------------------------------------------------
ConvFields == {"at", "spent", "stdin", "late", "clean"}
Listening == {"talking", "concluded"}

\* The decoder of a conversation under way, unless it stopped on damage or a refusal, tells what
\* was said; and so does the one a success was reported from.
Heard ==
    /\ Tells(d, said) /\ conv.spent = d.gen
    /\ conv.at = "get_state" => d.gen = 0
    /\ conv.at = "state" => d.gen = 1
Judged ==
    /\ h.at \in {"over", "dead"} /\ Tells(d, said) /\ conv.spent = 2
    /\ conv.clean /\ d.eof /\ d.accepted /\ d.settled /\ d.final
Conversing ==
    /\ DOMAIN conv = ConvFields /\ DOMAIN d = DecoderFields
    /\ conv.at = "none" => conv.spent = 0 /\ d = NewDecoder /\ said = <<>> /\ outcome = "none"
    /\ conv.at # "none" => h.at \in Listening \cup {"failing", "over", "dead"}
    /\ h.at \in Listening => conv.at # "none" /\ outcome = "none"
    /\ h.at \in Listening /\ ~ d.damaged /\ ~ d.refused => Heard
    /\ outcome = "success" => Judged

\* A step that leaves the conversation alone goes on with it, ends it, or has none.
Steady ==
    /\ UNCHANGED <<conv, d, said, outcome>>
    /\ \/ h'.at = h.at
       \/ h.at = "talking" /\ h'.at = "concluded"
       \/ h'.at \in {"over", "dead"}
       \/ h'.at \notin Listening /\ h.at \notin Listening \cup {"failing", "over", "dead"}

\* Such a step keeps it.
LEMMA SteadyConverses == Conversing /\ Steady => Conversing'
  <1> SUFFICES ASSUME Conversing, Steady PROVE Conversing'
    OBVIOUS
  <1>1. conv' = conv /\ d' = d /\ said' = said /\ outcome' = outcome
    BY DEF Steady
  <1>2. Heard' <=> Heard
    BY <1>1 DEF Heard
  <1>3. h.at \in {"over", "dead"} => h'.at \in {"over", "dead"}
    BY DEF Steady, Listening
  <1>4. Judged => Judged'
    BY <1>1, <1>3 DEF Judged
  <1>5. h'.at \in Listening => h.at \in Listening
    BY DEF Steady, Listening
  <1>6. conv.at # "none" => h'.at \in Listening \cup {"failing", "over", "dead"}
    BY DEF Conversing, Steady, Listening
  <1> QED BY <1>1, <1>2, <1>4, <1>5, <1>6 DEF Conversing

\* The workspace's steps and the parties' know no conversation.
LEMMA WorkspaceSteady ==
  ASSUME HostTypes, UNCHANGED piVars,
         WorkspaceStep \/ ChildKilled \/ CloseWorkspace \/ Disposal
  PROVE  Steady
  <1>0. UNCHANGED <<conv, d, said, outcome>>
    BY DEF piVars
  <1>1. CASE \/ EnterWorkspace \/ OpenWorkspace \/ Populate \/ Populated \/ Begin \/ Use \/ ResetDone \/ Exported \/ Imported
             \/ Publish
    <2>1. /\ h.at \in {"acquired", "opening", "opened", "stage", "ready", "using", "reset", "export", "import", "imported"}
          /\ \E to \in {"failing", "opening", "opened", "stage", "waiting", "ready", "using", "used", "left", "imported", "publishing"} :
               Goes(to)
      BY <1>1 DEF EnterWorkspace, OpenWorkspace, Populate, Populated, Begin, Use, ResetDone, Exported, Imported, Publish, At
    <2>2. h'.at \in {"failing", "opening", "opened", "stage", "waiting", "ready", "using", "used", "left", "imported", "publishing"}
      BY <2>1, GoesTo
    <2> QED BY <1>0, <2>1, <2>2 DEF Steady, Listening
  <1>2. CASE Edit \/ Operate \/ Captured \/ Published \/ Leave
    <2>1. /\ h.at \in {"ready", "used", "capture", "publishing", "left"}
          /\ \/ Goes("failing") \/ Goes("waiting") \/ h' = [h EXCEPT !.todo = Tail(@)]
             \/ h' = [h EXCEPT !.at = "left", !.oid = candidate, !.returned = candidate]
             \/ h' = [h EXCEPT !.at = "waiting", !.oid = stage.head]
             \/ h' = [h EXCEPT !.at = "left", !.returned = h.oid]
             \/ h' = [h EXCEPT !.at = "ready", !.todo = Tail(@)]
      BY <1>2 DEF Edit, Operate, Captured, Published, Leave, At
    <2>2. h'.at \in {"failing", "waiting", "left", "ready"} \/ h'.at = h.at
      BY <2>1, GoesTo DEF HostTypes, HostFields
    <2> QED BY <1>0, <2>1, <2>2 DEF Steady, Listening
  <1>3. CASE Fail \/ Finish
    <2>1. Goes("over")
      BY <1>3 DEF Fail, Finish
    <2> QED BY <1>0, <2>1, GoesTo DEF Steady
  <1>4. ASSUME NEW ok \in BOOLEAN, ChildEnds(ok) PROVE Steady
    <2>1. h.at = "waiting" /\ \E to \in Children \cup {"failing"} : Goes(to)
      BY <1>4 DEF ChildEnds, At, HostTypes
    <2>2. h'.at \in Children \cup {"failing"}
      BY <2>1, GoesTo
    <2> QED BY <1>0, <2>1, <2>2 DEF Steady, Listening, Children
  <1>5. CASE PublishReads \/ ChildKilled \/ CloseWorkspace \/ Disposal
    <2>1. h' = h
      BY <1>5 DEF PublishReads, ChildKilled, CloseWorkspace, Disposal, DisposalStep, DisposeReads, DisposeGuard, RemovePayload,
                  DisposeLands, Reconcile, PublishLands
    <2> QED BY <1>0, <2>1 DEF Steady
  <1> QED BY <1>1, <1>2, <1>3, <1>4, <1>5 DEF WorkspaceStep

\* Nor do the provider's and the handle's, up to the launch and from the conclusion on.
LEMMA HandleSteady ==
  ASSUME HostTypes,
         \/ Qualify \/ QualifyAgain \/ Qualified \/ Acquire \/ Materialize \/ TakeHandle \/ Materialized \/ Execute
         \/ ExecuteAgain \/ Conclude \/ CloseHandle \/ JoinAndRelease \/ Relinquish \/ LoseControl \/ Crash
  PROVE  Steady
  <1>0. UNCHANGED <<conv, d, said, outcome>>
    BY DEF Qualify, QualifyAgain, Qualified, Acquire, Materialize, TakeHandle, Materialized, Execute, ExecuteAgain, Conclude,
           CloseHandle, JoinAndRelease, Relinquish, LoseControl, Crash, piVars
  <1>1. CASE Qualify \/ Qualified \/ Acquire \/ TakeHandle
    <2>1. /\ h.at \in {"new", "probing", "qualified", "guarding"}
          /\ \E to \in {"probing", "over", "qualified", "acquired", "guarded"} : Goes(to)
      BY <1>1 DEF Qualify, Qualified, Acquire, TakeHandle, At
    <2>2. h'.at \in {"probing", "over", "qualified", "acquired", "guarded"}
      BY <2>1, GoesTo
    <2> QED BY <1>0, <2>1, <2>2 DEF Steady, Listening
  <1>2. CASE Materialize \/ Materialized \/ Execute
    <2>1. /\ h.at \in {"ready", "guarded"}
          /\ \E to \in {"guarding", "failing", "ready", "using"} :
               \/ h' = [h EXCEPT !.open = ~ h.shut, !.at = to]
               \/ h' = [h EXCEPT !.at = to, !.ready = TRUE]
               \/ h' = [h EXCEPT !.at = to]
               \/ h' = [h EXCEPT !.executed = TRUE, !.at = to]
      BY <1>2 DEF Materialize, Materialized, Execute, At, Goes
    <2>2. h'.at \in {"guarding", "failing", "ready", "using"}
      BY <2>1 DEF HostTypes, HostFields
    <2> QED BY <1>0, <2>1, <2>2 DEF Steady, Listening
  <1>3. CASE Conclude
    <2>1. h.at = "talking" /\ Goes("concluded")
      BY <1>3 DEF Conclude, Talking, At
    <2> QED BY <1>0, <2>1, GoesTo DEF Steady
  <1>4. CASE Crash
    <2>1. Goes("dead")
      BY <1>4 DEF Crash
    <2> QED BY <1>0, <2>1, GoesTo DEF Steady
  <1>5. CASE ExecuteAgain \/ CloseHandle \/ Relinquish
    <2>1. h' = [h EXCEPT !.poisoned = TRUE] \/ h' = [h EXCEPT !.shut = TRUE]
      BY <1>5 DEF ExecuteAgain, CloseHandle, Relinquish
    <2>2. h'.at = h.at
      BY <2>1 DEF HostTypes, HostFields
    <2> QED BY <1>0, <2>2 DEF Steady
  <1>6. CASE QualifyAgain \/ JoinAndRelease \/ LoseControl
    BY <1>0, <1>6 DEF Steady, QualifyAgain, JoinAndRelease, LoseControl
  <1> QED BY <1>1, <1>2, <1>3, <1>4, <1>5, <1>6

\* The launch: a new decoder, to which nothing was said.
LEMMA LaunchConverses == ASSUME HostTypes, Conversing, Launch PROVE Conversing'
  <1>1. h.at = "used"
    BY DEF Launch, At
  <1>2. conv.at = "none"
    BY <1>1 DEF Conversing, Listening
  <1>3. conv.spent = 0 /\ d = NewDecoder /\ said = <<>> /\ outcome = "none" /\ DOMAIN conv = ConvFields
    BY <1>2 DEF Conversing
  <1>4. CASE Goes("failing") /\ UNCHANGED conv
    <2>1. Steady
      BY <1>1, <1>4, GoesTo DEF Launch, Steady, Listening
    <2> QED BY <2>1, SteadyConverses
  <1>5. CASE Goes("talking") /\ conv' = [conv EXCEPT !.at = "get_state"]
    <2>1. d' = NewDecoder /\ said' = <<>> /\ outcome' = "none" /\ h'.at = "talking"
      BY <1>3, <1>5, GoesTo DEF Launch
    <2>2. DOMAIN conv' = ConvFields /\ conv'.at = "get_state" /\ conv'.spent = conv.spent
      BY <1>3, <1>5 DEF ConvFields
    <2>3. Tells(d', said')
      BY <2>1, NewTells
    <2>4. DOMAIN d' = DecoderFields
      BY <2>3 DEF Tells, DecoderTypes
    <2>5. d'.gen = 0
      BY <2>1 DEF NewDecoder
    <2>6. conv'.spent = d'.gen
      BY <1>3, <2>2, <2>5
    <2>7. Heard'
      BY <2>2, <2>3, <2>5, <2>6 DEF Heard
    <2> QED BY <2>1, <2>2, <2>4, <2>7 DEF Conversing, Listening
  <1> QED BY <1>4, <1>5 DEF Launch

\* The conversation goes on where its host and its outcome stay.
LEMMA GoesOn ==
  ASSUME Conversing, h.at = "talking", h' = h, outcome' = outcome, DOMAIN conv' = ConvFields, DOMAIN d' = DecoderFields,
         conv'.at # "none", ~ d'.damaged /\ ~ d'.refused => Heard'
  PROVE  Conversing'
  <1>1. outcome = "none"
    BY DEF Conversing, Listening
  <1> QED BY <1>1 DEF Conversing, Listening

\* A request.
LEMMA SentConverses ==
  ASSUME Conversing, h.at = "talking", h' = h, UNCHANGED <<said, outcome>>, NEW command, NEW next, Sent(command, next),
         \/ command = "get_state" /\ next = "state" /\ conv.at = "get_state"
         \/ command = "prompt" /\ next = "prompted" /\ conv.at = "state" /\ d.state
  PROVE  Conversing'
  <1>1. /\ conv' = [conv EXCEPT !.spent = conv.spent + 1, !.at = next]
        /\ d' = Decline(d) \/ d' = Requested(d, command)
    BY DEF Sent
  <1>2. DOMAIN conv = ConvFields /\ DOMAIN d = DecoderFields
    BY DEF Conversing
  <1>3. DOMAIN conv' = ConvFields /\ conv'.at = next
    BY <1>1, <1>2 DEF ConvFields
  <1>4. conv'.spent = conv.spent + 1
    BY <1>1, <1>2 DEF ConvFields
  <1>5. DOMAIN d' = DecoderFields
    BY <1>1, <1>2, RequestedStopped
  <1>6. ASSUME ~ d'.damaged, ~ d'.refused PROVE Heard'
    <2>1. d' = Requested(d, command)
      BY <1>1, <1>2, <1>6, Marks
    <2>2. ~ d.damaged /\ ~ d.refused
      BY <1>2, <1>6, <2>1, RequestedStopped
    <2>3. Heard
      BY <2>2 DEF Conversing, Listening
    <2>4. Tells(d, said) /\ conv.spent = d.gen
      BY <2>3 DEF Heard
    <2>5. \/ command = "get_state" /\ d.gen = 0
          \/ command = "prompt" /\ d.gen = 1 /\ d.state
      BY <2>3 DEF Heard
    <2>6. ~ Requested(d, command).damaged
      BY <1>6, <2>1
    <2>7. Tells(Requested(d, command), said) /\ Requested(d, command).gen = d.gen + 1
      BY <2>4, <2>5, <2>6, RequestedTells
    <2>8. Tells(d', said') /\ d'.gen = d.gen + 1
      BY <2>1, <2>7
    <2>9. conv'.spent = d'.gen
      BY <1>4, <2>4, <2>8
    <2>10. conv'.at = "state" => d'.gen = 1
      <3>1. conv'.at = "state" => d.gen = 0
        BY <1>3, <2>3 DEF Heard
      <3>2. d.gen = 0 => d'.gen = 1
        BY <2>8
      <3> QED BY <3>1, <3>2
    <2>11. conv'.at # "get_state"
      BY <1>3
    <2> QED BY <2>8, <2>9, <2>10, <2>11 DEF Heard
  <1> QED BY <1>3, <1>5, <1>6, GoesOn

\* The client's records, and the end of its input.
LEMMA PeerConverses ==
  ASSUME Conversing, PeerSays \/ PeerTears \/ \E clean \in BOOLEAN : PeerExits(clean)
  PROVE  Conversing'
  <1>1. h.at = "talking" /\ h' = h /\ outcome' = outcome
    BY DEF PeerSays, PeerTears, PeerExits, Talking, At
  <1>2. conv.at # "none" /\ DOMAIN conv = ConvFields /\ DOMAIN d = DecoderFields
    BY <1>1 DEF Conversing, Listening
  <1>3. ~ d.damaged /\ ~ d.refused => Heard
    BY <1>1 DEF Conversing, Listening
  <1>4. ASSUME conv'.at = conv.at, conv'.spent = conv.spent, Heard, d'.gen = d.gen, Tells(d', said') PROVE Heard'
    BY <1>4 DEF Heard
  <1>5. CASE PeerSays
    <2>1. PICK r : /\ r \in IF world.peer = "free" THEN Vocabulary ELSE Scripted
                   /\ d' = Fed(d, r) /\ said' = IF Fed(d, r).damaged \/ Fed(d, r).refused THEN <<>> ELSE Append(said, r)
      BY <1>5 DEF PeerSays
    <2>2. conv' = conv /\ ~ d.damaged /\ ~ d.refused
      BY <1>5 DEF PeerSays, Stopped
    <2>3. Heard /\ Tells(d, said)
      BY <1>3, <2>2 DEF Heard
    <2>4. Shape(r)
      <3>1. IsSeq(said)
        BY <2>3 DEF Tells
      <3>2. Len(said) \in Nat
        BY <3>1, Appended
      <3> QED BY <2>1, <3>2, VocabularyShaped, ScriptShaped
    <2>5. DOMAIN d' = DecoderFields
      BY <1>2, <2>1, <2>4, FedDomain
    <2>6. ASSUME ~ d'.damaged, ~ d'.refused PROVE Heard'
      <3>1. said' = Append(said, r)
        BY <2>1, <2>6
      <3>2. Tells(d', said') /\ d'.gen = d.gen
        BY <2>1, <2>2, <2>3, <2>4, <2>6, <3>1, FedTells
      <3> QED BY <1>4, <2>2, <2>3, <3>2
    <2> QED BY <1>1, <1>2, <2>2, <2>5, <2>6, GoesOn
  <1>6. CASE PeerTears
    <2>1. d' = Torn(d) /\ conv' = conv /\ said' = said
      BY <1>6 DEF PeerTears
    <2>2. DOMAIN d' = DecoderFields /\ d'.gen = d.gen
      BY <1>2, <2>1, TornTells
    <2>3. ASSUME ~ d'.damaged, ~ d'.refused PROVE Heard'
      <3>1. Heard
        BY <1>2, <1>3, <2>1, <2>3, TornTells
      <3>2. Tells(d', said')
        BY <1>2, <2>1, <3>1, TornTells DEF Heard
      <3> QED BY <1>4, <2>1, <2>2, <3>1, <3>2
    <2> QED BY <1>1, <1>2, <2>1, <2>2, <2>3, GoesOn
  <1>7. ASSUME NEW clean \in BOOLEAN, PeerExits(clean) PROVE Conversing'
    <2>1. d' = Finished(d) /\ conv' = [conv EXCEPT !.clean = clean] /\ said' = said
      BY <1>7 DEF PeerExits
    <2>2. DOMAIN d' = DecoderFields /\ d'.gen = d.gen
      BY <1>2, <2>1, FinishedTells
    <2>3. DOMAIN conv' = ConvFields /\ conv'.at = conv.at
      BY <1>2, <2>1 DEF ConvFields
    <2>4. conv'.spent = conv.spent
      BY <1>2, <2>1 DEF ConvFields
    <2>5. ASSUME ~ d'.damaged, ~ d'.refused PROVE Heard'
      <3>1. Heard
        BY <1>2, <1>3, <2>1, <2>5, FinishedTells
      <3>2. Tells(d', said')
        BY <1>2, <2>1, <3>1, FinishedTells DEF Heard
      <3> QED BY <1>4, <2>2, <2>3, <2>4, <3>1, <3>2
    <2> QED BY <1>1, <1>2, <2>2, <2>3, <2>5, GoesOn
  <1> QED BY <1>5, <1>6, <1>7

\* The half-close, the report and the interruption.
LEMMA EndConverses ==
  ASSUME HostTypes, Conversing, CloseStdin \/ Report \/ Interrupt
  PROVE  Conversing'
  <1>0. DOMAIN conv = ConvFields /\ DOMAIN d = DecoderFields
    BY DEF Conversing
  <1>1. Tells(NewDecoder, <<>>) /\ DOMAIN NewDecoder = DecoderFields
    BY NewTells DEF Tells, DecoderTypes
  <1>2. CASE CloseStdin
    <2>1. h.at = "talking" /\ h' = h /\ outcome' = outcome /\ d' = d /\ said' = said
      BY <1>2 DEF CloseStdin, Talking, At
    <2>2. conv' = [conv EXCEPT !.at = "draining", !.stdin = FALSE]
      BY <1>2 DEF CloseStdin
    <2>3. DOMAIN conv' = ConvFields /\ conv'.at = "draining" /\ conv'.spent = conv.spent
      BY <1>0, <2>2 DEF ConvFields
    <2>4. ASSUME ~ d.damaged, ~ d.refused PROVE Heard'
      <3>1. Heard
        BY <2>1, <2>4 DEF Conversing, Listening
      <3> QED BY <2>1, <2>3, <3>1 DEF Heard
    <2> QED BY <1>0, <2>1, <2>3, <2>4, GoesOn
  <1>3. CASE Report
    <2>1. h.at = "concluded" /\ Goes("over") /\ conv' = conv
      BY <1>3 DEF Report, At
    <2>2. h'.at = "over" /\ conv.at # "none"
      BY <2>1, GoesTo DEF Conversing, Listening
    <2>3. CASE outcome' = "success"
      <3>1. d' = d /\ said' = said /\ Outcome(d, conv.late, conv.clean) = "success"
        BY <1>3, <2>3 DEF Report
      <3>2. ~ d.damaged /\ ~ d.refused /\ d.accepted /\ d.eof /\ d.settled /\ d.final /\ conv.clean
        BY <3>1 DEF Outcome
      <3>3. Heard
        BY <2>1, <3>2 DEF Conversing, Listening
      <3>4. Tells(d, said) /\ conv.spent = d.gen /\ Asked(d)
        BY <3>3 DEF Heard, Tells
      <3>5. d.gen = 2
        BY <3>2, <3>4, Zenon DEF Asked
      <3>6. Judged'
        BY <2>1, <2>2, <3>1, <3>2, <3>4, <3>5 DEF Judged
      <3> QED BY <1>0, <2>1, <2>2, <2>3, <3>1, <3>6 DEF Conversing, Listening
    <2>4. CASE outcome' # "success"
      <3>1. d' = NewDecoder /\ said' = <<>>
        BY <1>3, <2>4 DEF Report, Dropped
      <3> QED BY <1>0, <1>1, <2>1, <2>2, <2>4, <3>1 DEF Conversing, Listening
    <2> QED BY <2>3, <2>4
  <1>4. CASE Interrupt
    <2>1. h.at \in Interruptible /\ Goes("failing") /\ outcome' = outcome /\ d' = NewDecoder /\ said' = <<>>
      BY <1>4 DEF Interrupt, Dropped
    <2>2. conv' = [conv EXCEPT !.late = ~ h.shut]
      BY <1>4 DEF Interrupt
    <2>3. DOMAIN conv' = ConvFields /\ conv'.at = conv.at
      BY <1>0, <2>2 DEF ConvFields
    <2>4. conv'.spent = conv.spent
      BY <1>0, <2>2 DEF ConvFields
    <2>5. outcome # "success"
      BY <2>1 DEF Conversing, Judged, Interruptible
    <2>6. h'.at = "failing"
      BY <2>1, GoesTo
    <2>7. conv.at = "none" => conv.spent = 0 /\ outcome = "none"
      BY DEF Conversing
    <2> QED BY <1>1, <2>1, <2>3, <2>4, <2>5, <2>6, <2>7 DEF Conversing, Listening
  <1> QED BY <1>2, <1>3, <1>4

\* Every step keeps it.
LEMMA NextConverses == Custody /\ Conversing /\ [Next]_vars => Conversing'
  <1> SUFFICES ASSUME Custody, Conversing, [Next]_vars PROVE Conversing'
    OBVIOUS
  <1>0. HostTypes
    BY DEF Custody
  <1>1. CASE UNCHANGED vars
    <2>1. Steady
      BY <1>1 DEF vars, piVars, Steady
    <2> QED BY <2>1, SteadyConverses
  <1>2. CASE (WorkspaceStep \/ ChildKilled \/ CloseWorkspace) /\ UNCHANGED piVars
    BY <1>0, <1>2, WorkspaceSteady, SteadyConverses
  <1>3. CASE Disposal
    <2>1. UNCHANGED piVars
      BY <1>3 DEF Disposal
    <2> QED BY <1>0, <1>3, <2>1, WorkspaceSteady, SteadyConverses
  <1>4. CASE \/ Qualify \/ QualifyAgain \/ Qualified \/ Acquire \/ Materialize \/ TakeHandle \/ Materialized \/ Execute
             \/ ExecuteAgain \/ Conclude \/ CloseHandle \/ JoinAndRelease \/ Relinquish \/ LoseControl \/ Crash
    BY <1>0, <1>4, HandleSteady, SteadyConverses
  <1>5. CASE Launch
    BY <1>0, <1>5, LaunchConverses
  <1>6. CASE SendState
    BY <1>6, SentConverses DEF SendState, Talking, At
  <1>7. CASE SendPrompt
    BY <1>7, SentConverses DEF SendPrompt, Talking, At
  <1>8. CASE PeerSays \/ PeerTears \/ \E clean \in BOOLEAN : PeerExits(clean)
    BY <1>8, PeerConverses
  <1>9. CASE CloseStdin \/ Report \/ Interrupt
    BY <1>0, <1>9, EndConverses
  <1> QED BY <1>1, <1>2, <1>3, <1>4, <1>5, <1>6, <1>7, <1>8, <1>9 DEF Next, HostStep

\* SuccessIsCoherent: a reported success rests on a decoder that told a whole exchange.  Whatever
\* order the client's records came in, and wherever its output was torn, PiDecoder.observe accepts
\* only what keeps its state true of the records, so that outcome sees a settled run only behind
\* one dialogue, whole turns, whole reads and copies that agree.
THEOREM SuccessesAreCoherent == Spec => []SuccessIsCoherent
  <1>1. Init => Conversing
    <2> SUFFICES ASSUME Init PROVE Conversing
      OBVIOUS
    <2>1. conv = NewConversation /\ d = NewDecoder /\ said = <<>> /\ outcome = "none" /\ h = NewHost
      BY DEF Init
    <2>2. DOMAIN conv = ConvFields /\ conv.at = "none"
      BY <2>1 DEF NewConversation, ConvFields
    <2>3. conv.spent = 0
      BY <2>1 DEF NewConversation
    <2>4. h.at = "new"
      BY <2>1 DEF NewHost
    <2>5. DOMAIN NewDecoder = DecoderFields
      BY NewTells DEF Tells, DecoderTypes
    <2> QED BY <2>1, <2>2, <2>3, <2>4, <2>5 DEF Conversing, Listening
  <1>2. Custody /\ Conversing /\ [Next]_vars => Conversing'
    BY NextConverses
  <1>3. Conversing => SuccessIsCoherent
    BY SettledIsCoherent DEF Conversing, Judged, SuccessIsCoherent
  <1> QED BY <1>1, <1>2, <1>3, CustodyHolds, PTL DEF Spec
=============================================================================
