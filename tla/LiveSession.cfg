\* A live case and the page of its reviewer, over a network that loses nothing.
CONSTANTS
    inv1 = inv1
    inv2 = inv2
    None = None
    Ids <- MCIds
    Decisions <- AllDecisions
    MaxFlagged = 2
    Deployments <- WithAndWithoutLog
    MaxStrays = 1
    MaxStreams = 2
    MaxFaults = 0
SPECIFICATION LiveFairSpec
INVARIANTS
    PendingGateIsShown
    LogIsSubmission
    StatusesMatchLog
    ReportReadyIsFetchable
PROPERTY
    PageRecovers
CHECK_DEADLOCK FALSE
