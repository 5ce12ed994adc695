\* A request or a reply is lost, or the stream breaks, once.
CONSTANTS
    inv1 = inv1
    inv2 = inv2
    None = None
    Ids = {inv1}
    Decisions <- AllDecisions
    MaxFlagged = 1
    Deployments <- AllAndNothing
    MaxStrays = 1
    MaxStreams = 2
    MaxFaults = 1
SPECIFICATION LiveSpec
INVARIANTS
    LiveTypeOK
    ShownReportIsLogged
CHECK_DEADLOCK FALSE
