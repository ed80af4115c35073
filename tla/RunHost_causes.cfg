SPECIFICATION FairSpec
CONSTANTS
    NoSlot = NoSlot
    LastRun = 2
    LastCommand = 2
    Slots = {s1, s2, s3, s4}
    Worlds <- Passing
INVARIANTS
    AttemptsAreFenced
PROPERTIES
    IntentKept
    CausesAreServed
CHECK_DEADLOCK FALSE
