----------------------------- MODULE MCRunHost ------------------------------
(***************************************************************************)
(* Instances of RunHost: one run with every cause and every failure; two   *)
(* runs with capacity to spare, a resume for one and replies for the       *)
(* other; and a host filled by the one run that is not waiting.            *)
(***************************************************************************)
EXTENDS RunHost

Contended ==
    [parked |-> {1}, pending |-> {}, submitted |-> {1}, bareLaunched |-> {}, answerable |-> {1},
     resumed |-> {1}, commands |-> 2, maxConcurrency |-> 2, scanRows |-> 1,
     faults |-> FaultKinds, maxFaults |-> 2, maxSeq |-> 5, lasts |-> FALSE]

Spacious(kinds, n) ==
    [parked |-> {1, 2}, pending |-> {}, submitted |-> {}, bareLaunched |-> {2}, answerable |-> {2},
     resumed |-> {1}, commands |-> 1, maxConcurrency |-> 3, scanRows |-> 1,
     faults |-> kinds, maxFaults |-> n, maxSeq |-> 5, lasts |-> TRUE]

Filled ==
    [parked |-> {2}, pending |-> {1}, submitted |-> {}, bareLaunched |-> {}, answerable |-> {2},
     resumed |-> {}, commands |-> 0, maxConcurrency |-> 1, scanRows |-> 2,
     faults |-> {}, maxFaults |-> 0, maxSeq |-> 5, lasts |-> TRUE]

Passing == {Contended, Spacious({"rival", "crash", "completion"}, 2), Spacious({"stall"}, 1)}
Saturated == {Filled}
=============================================================================
