SPECIFICATION FairSpec
CONSTANTS
    None = None
    Attempts = {"a", "b", "c", "d"}
    Runs = {"source", "reproduction", "other"}
    Keys = {1, 2}
    Commits = {0, 1, 2, 9}
    Root = 0
    CommitOf <- OwnCommit
    Worlds <- Situations
INVARIANTS
    InstalledOnce
PROPERTIES
    ImplementsEffectLaw
    PreparedIsReceipted
CHECK_DEADLOCK FALSE
