SPECIFICATION Spec
CONSTANTS
    Worlds <- Sampled
    Tries = 2
    Calls = {k1}
    RecordCount = 21
    MaxExtras = 1
INVARIANTS
    SuccessIsCoherent
    DisposedMeansQuiet
PROPERTIES
    CandidateIsSound
    EverythingIsDisposed
CHECK_DEADLOCK FALSE
