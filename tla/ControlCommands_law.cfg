SPECIFICATION FairSpec
CONSTANTS
    None = None
    Procs = {p, q}
    Commands <- Submittable
    KindOf <- Names
    TargetOf <- Targets
    BaseOf <- Bases
    ProofOf <- Proofs
    Invalid = {"bogus"}
    Scenarios <- Contending
    Registered = {"v1", "v2", "v3"}
    MaxEpoch = 4
    MaxSeq = 4
INVARIANTS
    ReplaysAreExact
    ExchangeIsWhole
PROPERTIES
    ImplementsCommandLaw
    CommandsAreAnswered
CHECK_DEADLOCK FALSE
