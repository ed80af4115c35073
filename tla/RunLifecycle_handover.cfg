SPECIFICATION FairSpec
CONSTANTS
    w1 = w1
    w2 = w2
    Workers = {w1, w2}
    None = None
    NumUnits = 2
    DependsOn <- Chain
    Binds = {"a"}
    MaxEpoch = 2
    Faults <- Failing
INVARIANTS
    SucceededIsComplete
    CheckpointedCandidateKept
    Inductive
PROPERTIES
    ConcludedIsFinal
    RunningConcludes
CHECK_DEADLOCK FALSE
