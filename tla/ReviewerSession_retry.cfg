\* Posts are delayed, lost and repeated.
CONSTANTS
    inv1 = inv1
    inv2 = inv2
    inv9 = inv9
    None = None
    Ids <- MCIds
    Decisions <- MCDecisions
    MaxFlagged = 2
    Deployments <- MCDeployments
    MaxStrays = 4
    MaxAttempts = 2
SPECIFICATION SessionFairSpec
INVARIANTS
    ClientTypeOK
    PlanAnswerHonoured
    ActionAnswerHonoured
PROPERTIES
    AnswerIsConsumed
    StreamEnds
CHECK_DEADLOCK FALSE
