----------------------------- MODULE EffectLaw ------------------------------
(***************************************************************************)
(* What the effect boundary of Constructicon promises for one idempotency  *)
(* key, whatever adapter is behind it (core/effect.py; "Effects" in        *)
(* docs/ARCHITECTURE.md): the external transition happens at most once, a  *)
(* durable receipt says whether it happened, and nothing that was rejected *)
(* or only simulated happens later.  A rejection says that the outside is  *)
(* not in the state the effect leaves: the effect never happened, or other *)
(* transitions have come on top of it.                                     *)
(***************************************************************************)

CONSTANT Keys

VARIABLES
    happened,   \* keys whose external transition took place
    latest,     \* those of the last transition
    verdict     \* key -> status of its durable receipt, or "none"

lawVars == <<happened, latest, verdict>>

Init ==
    /\ happened = {} /\ latest = {}
    /\ verdict = [k \in Keys |-> "none"]

Receipted(k, status) ==
    /\ verdict[k] = "none"
    /\ verdict' = [verdict EXCEPT ![k] = status]
    /\ UNCHANGED <<happened, latest>>

\* One transition may be that of several keys, when they ask for the very same one.
Happen(keys) ==
    /\ keys \cap happened = {} /\ \A k \in keys : verdict[k] = "none"
    /\ happened' = happened \cup keys /\ latest' = keys
    /\ UNCHANGED verdict

Commit(k) == k \in happened /\ Receipted(k, "committed")
Reject(k) == k \notin latest /\ Receipted(k, "rejected")
Simulate(k) == k \notin happened /\ Receipted(k, "simulated")

Next ==
    \/ \E keys \in SUBSET Keys : Happen(keys)
    \/ \E k \in Keys : Commit(k) \/ Reject(k) \/ Simulate(k)

Spec == Init /\ [][Next]_lawVars
=============================================================================
