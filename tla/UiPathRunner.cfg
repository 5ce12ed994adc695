\* The live runner: calls fail, decisions arrive at any time.
CONSTANTS
    inv1 = inv1
    inv2 = inv2
    inv9 = inv9
    None = None
    Ids <- MCIds
    Decisions <- MCDecisions
    MaxFlagged = 2
    Deployments <- MCDeployments
    MaxStrays = 1
SPECIFICATION FairSpec
INVARIANTS
    TypeOK
    PendingGateIsBlockedGate
    DecisionIsFresh
    ClosedCaseIsReported
    LogMatchesReport
    LogHoldsReviewedFindings
    StageTracksStreamUntilFailure
PROPERTIES
    ClosedIsFinal
    ImplementsProtocol
    AnsweredGateResumes
    NoReportAfterExpiry
CHECK_DEADLOCK FALSE
