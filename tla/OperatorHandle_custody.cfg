SPECIFICATION Spec
CONSTANTS
    h1 = h1
    h2 = h2
    Handles = {h1, h2}
    Authorised = {h1}
    Worlds <- Sampled
    MaxGeneration = 2
    MaxExposed = 2
INVARIANTS
    TurnIsLicensed
    DisposedIsQuiet
PROPERTY
    CustodyIsReleased
CHECK_DEADLOCK FALSE
