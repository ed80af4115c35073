SPECIFICATION FairSpec
CONSTANTS
    NoSlot = NoSlot
    LastRun = 2
    LastCommand = 2
    Slots = {s1, s2, s3}
    Worlds <- Saturated
PROPERTIES
    AnsweredWaitWakes
