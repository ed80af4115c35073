SPECIFICATION Spec
CONSTANTS
    None = None
    Asks = {"advise", "approve"}
    Route <- Routes
    Orders <- People
    Readers <- Inboxes
    PageSize = 1
    Worlds <- Sampled
INVARIANTS
    PagesAreTheCut
    OneExchange
PROPERTY
    AnsweredAsksReturn
CHECK_DEADLOCK FALSE
