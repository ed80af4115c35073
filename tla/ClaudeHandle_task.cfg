SPECIFICATION Spec
CONSTANTS
    Worlds <- Sampled
    UiRecords = 1
    WriteCalls = 2
    StartupInput = 8
    PostInput = 3
    MaxReply = 2
INVARIANTS
    SuccessIsEarned
    DispatchIsAccounted
    CustodyOutlivesWork
PROPERTIES
    WorkIsSettled
    EverythingEnds
CHECK_DEADLOCK FALSE
