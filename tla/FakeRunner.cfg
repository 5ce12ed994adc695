\* The scripted runner: any client posts any decision at any time.
CONSTANTS
    inv1 = inv1
    inv2 = inv2
    inv9 = inv9
    None = None
    Ids <- MCIds
    Decisions <- MCDecisions
    FakeItems <- MCItems
    MaxStrays = 2
SPECIFICATION FairSpec
INVARIANTS
    WriteNeedsBothGates
    StageTracksStream
    ReportFollowsDecision
PROPERTIES
    ImplementsProtocol
    ReviewedStreamEnds
CHECK_DEADLOCK FALSE
