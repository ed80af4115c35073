--------------------------- MODULE OperatorStore ---------------------------
(***************************************************************************)
(* Custody of one operator store (executors/operator_store.py): a bundle   *)
(* of a store directory, a retained lock, immutable numbered descriptors,  *)
(* an anchor and the file active.json, which selects a generation or       *)
(* withdraws all of them.                                                  *)
(*                                                                         *)
(* Root's three offline helpers (publish, maintain, activate) are the only *)
(* writers of metadata.  Maintenance exposes the store to a service-user   *)
(* lane that inherits the lock's open file description, so the lock is     *)
(* held until the last copy of the description is closed.  The users of a  *)
(* selection are in OperatorHandle, which extends this module.             *)
(*                                                                         *)
(* A file identity is abstracted to the boot and the object it names: a    *)
(* reboot changes every identity, restoring the store from a copy changes  *)
(* the store's.                                                            *)
(***************************************************************************)
EXTENDS Naturals, Sequences, FiniteSets

CONSTANTS MaxGeneration, MaxExposed

ASSUME StoreBounds == {MaxGeneration, MaxExposed} \subseteq Nat \ {0}

VARIABLES
    boot, store,    \* the running boot, the object at the store's path
    provisioned,    \* whether the bundle's directories exist
    anchor,         \* the boot in which anchor.json names the bundle, or 0
    descriptors,    \* the identities the generations 1, 2, ... were published for
    active,         \* active.json as every reader sees it
    durable,        \* active.json as a loss of power leaves it
    lock,           \* who has a copy of the description that holds the retained lock
    helper,         \* the root helper that is running, and what it has done
    lane,           \* the service-user lane of a maintenance
    exposed,        \* how often a maintenance has exposed the store
    issued          \* the exposures there had been when each generation was published

identity == <<boot, store>>
metadata == <<provisioned, anchor, descriptors, active, durable>>
offline == <<helper, lane, exposed, issued>>
storeVars == <<boot, store, metadata, lock, offline>>

\* One process's copy of an open file description.
Copy(process, of) == <<process, of>>

Unselected == [kind |-> "none", generation |-> 0]
Selects(g) == [kind |-> "selected", generation |-> g]
Withdraws(floor) == [kind |-> "withdrawn", generation |-> floor]

\* _descriptor_names: the highest generation of the inventory, or 0; publication leaves no gap.
Highest == Len(descriptors)

\* _anchor_is_current, for everyone but maintenance.
Anchored == anchor = boot

\* _check_descriptor: published for exactly the objects that are there now.
DescriptorHolds(g, live) == g \in DOMAIN descriptors /\ descriptors[g] = live

\* publish_descriptor_offline returns, and qualification seals, this identity.
Sealed(g) == [generation |-> g, live |-> descriptors[g]]

\* BindingStore._check_selection: the selection is read afresh every time.
SelectionHolds(sealed) ==
    /\ Anchored /\ active.kind = "selected"
    /\ active.generation = sealed.generation
    /\ DescriptorHolds(active.generation, identity) /\ sealed.live = identity

Idle == [job |-> "none", at |-> "idle", generation |-> 0]

StoreInit ==
    /\ boot = 1 /\ store = 1 /\ provisioned = FALSE /\ anchor = 0 /\ descriptors = <<>>
    /\ active = Unselected /\ durable = Unselected /\ lock = {}
    /\ helper = Idle /\ lane = "none" /\ exposed = 0 /\ issued = <<>>

HelperAt(job, at) == helper.job = job /\ helper.at = at
HelperMoves(at) == helper' = [helper EXCEPT !.at = at]
HelperEnds == helper' = Idle /\ lock' = lock \ {Copy("helper", "store")}

\* _hold_offline: the lock, then the objects again under it.  A held lock refuses.
Hold(job, g) ==
    /\ helper = Idle /\ lock = {}
    /\ lock' = {Copy("helper", "store")} /\ helper' = [job |-> job, at |-> "held", generation |-> g]
    /\ UNCHANGED <<boot, store, anchor, descriptors, active, durable, lane, exposed, issued>>

(***************************************************************************)
(* Publication.  The first one provisions the bundle.                      *)
(***************************************************************************)
PublishHold(g) ==
    /\ g \in 1 .. MaxGeneration
    /\ IF g = 1 THEN ~ provisioned ELSE Anchored
    /\ provisioned' = TRUE /\ Hold("publish", g)

\* The anchor is published once and never replaced here.
PublishAnchor ==
    /\ HelperAt("publish", "held")
    /\ \/ anchor = 0 /\ anchor' = boot /\ HelperMoves("anchored") /\ UNCHANGED lock
       \/ anchor = boot /\ HelperMoves("anchored") /\ UNCHANGED <<anchor, lock>>
       \/ anchor \notin {0, boot} /\ HelperEnds /\ UNCHANGED anchor
    /\ UNCHANGED <<boot, store, provisioned, descriptors, active, durable, lane, exposed, issued>>

\* The next generation only, for the objects of now; an existing name is never replaced.
PublishDescriptor ==
    /\ HelperAt("publish", "anchored")
    /\ IF helper.generation = Highest + 1
       THEN descriptors' = Append(descriptors, identity) /\ issued' = Append(issued, exposed)
       ELSE UNCHANGED <<descriptors, issued>>
    /\ HelperEnds
    /\ UNCHANGED <<boot, store, provisioned, anchor, active, durable, lane, exposed>>

(***************************************************************************)
(* Maintenance.                                                            *)
(***************************************************************************)
\* After a reboot the same physical bundle is still accepted, here alone.
MaintainHold == anchor # 0 /\ Hold("maintain", 0) /\ UNCHANGED provisioned

\* _replace_metadata: visible now, durable only when the directory is synced.
Replaced(value) == active' = value

MaintainWithdraw ==
    /\ HelperAt("maintain", "held")
    /\ Replaced(Withdraws(Highest)) /\ HelperMoves("replaced")
    /\ UNCHANGED <<boot, store, provisioned, anchor, descriptors, durable, lock, lane, exposed, issued>>

\* The sync of the directory; when it fails the helper raises with the file visible.
Synced(at) ==
    \/ durable' = active /\ HelperMoves(at) /\ UNCHANGED lock
    \/ HelperEnds /\ UNCHANGED durable

MaintainSync ==
    /\ HelperAt("maintain", "replaced") /\ Synced("withdrawn")
    /\ UNCHANGED <<boot, store, provisioned, anchor, descriptors, active, lane, exposed, issued>>

\* The anchor of an earlier boot is repaired after the withdrawal is durable.
MaintainRepair ==
    /\ HelperAt("maintain", "withdrawn")
    /\ anchor' = boot /\ HelperMoves("exposing")
    /\ UNCHANGED <<boot, store, provisioned, descriptors, active, durable, lock, lane, exposed, issued>>

\* run_under_maintenance: from here on the store may change; the lane inherits the lock.
MaintainExpose ==
    /\ HelperAt("maintain", "exposing") /\ exposed < MaxExposed
    /\ exposed' = exposed + 1 /\ lane' = "started" /\ lock' = lock \cup {Copy("lane", "store")} /\ HelperMoves("waiting")
    /\ UNCHANGED <<boot, store, metadata, issued>>

\* inherit_maintenance: the lane proves its custody and never takes it.
LaneProves ==
    /\ lane = "started"
    /\ lane' = IF /\ Copy("lane", "store") \in lock /\ HelperAt("maintain", "waiting")
                  /\ Anchored /\ active = Withdraws(Highest)
               THEN "proved" ELSE "refused"
    /\ UNCHANGED <<boot, store, metadata, lock, helper, exposed, issued>>

\* StoreMaintenance.check: this withdrawal still stands over these objects.
MaintenanceStands == Anchored /\ active = Withdraws(Highest)

\* A native launch of the lane (create_credential, open_credential) is checked first.
LaneUses ==
    /\ lane = "proved" /\ MaintenanceStands /\ lane' = "used"
    /\ UNCHANGED <<boot, store, metadata, lock, helper, exposed, issued>>

LaneExits ==
    /\ lane \in {"proved", "refused", "used"}
    /\ lane' = "none" /\ lock' = lock \ {Copy("lane", "store")}
    /\ UNCHANGED <<boot, store, metadata, helper, exposed, issued>>

\* Maintenance ends only after its lane; it never activates.
MaintainClose ==
    /\ HelperAt("maintain", "waiting") /\ lane = "none" /\ HelperEnds
    /\ UNCHANGED <<boot, store, metadata, lane, exposed, issued>>

(***************************************************************************)
(* Activation.                                                             *)
(***************************************************************************)
ActivateHold(g) ==
    /\ g \in DOMAIN descriptors /\ Anchored
    /\ Hold("activate", g) /\ UNCHANGED provisioned

\* _current_withdrawal: an activation follows a withdrawal, with a later generation.
AboveFloor(g) == active.kind = "withdrawn" /\ g > active.generation

ActivateSelect ==
    /\ HelperAt("activate", "held")
    /\ IF AboveFloor(helper.generation) /\ DescriptorHolds(helper.generation, identity)
       THEN Replaced(Selects(helper.generation)) /\ HelperMoves("replaced") /\ UNCHANGED lock
       ELSE HelperEnds /\ UNCHANGED active
    /\ UNCHANGED <<boot, store, provisioned, anchor, descriptors, durable, lane, exposed, issued>>

ActivateSync ==
    /\ HelperAt("activate", "replaced")
    /\ \/ durable' = active
       \/ UNCHANGED durable
    /\ HelperEnds
    /\ UNCHANGED <<boot, store, provisioned, anchor, descriptors, active, lane, exposed, issued>>

(***************************************************************************)
(* Failures.  A killed helper leaves its lane, which keeps the lock.       *)
(***************************************************************************)
HelperKilled ==
    /\ helper # Idle /\ HelperEnds
    /\ UNCHANGED <<boot, store, metadata, lane, exposed, issued>>

\* The store is restored from a copy while nobody has it open.
StoreRestored ==
    /\ lock = {} /\ store' = store + 1
    /\ UNCHANGED <<boot, metadata, lock, offline>>

\* The host loses power: no process survives, and active.json is what was synced or
\* what was visible.
PowerLost ==
    /\ boot' = boot + 1
    /\ active' \in {active, durable} /\ durable' = active'
    /\ lock' = {} /\ helper' = Idle /\ lane' = "none"
    /\ UNCHANGED <<store, provisioned, anchor, descriptors, exposed, issued>>

StoreStep ==
    \/ \E g \in 1 .. MaxGeneration : PublishHold(g) \/ ActivateHold(g)
    \/ PublishAnchor \/ PublishDescriptor
    \/ MaintainHold \/ MaintainWithdraw \/ MaintainSync \/ MaintainRepair \/ MaintainExpose \/ MaintainClose
    \/ ActivateSelect \/ ActivateSync
    \/ LaneProves \/ LaneUses \/ LaneExits
=============================================================================
