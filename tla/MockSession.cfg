\* Two cases on one page, one finding each.
CONSTANTS
    inv1 = inv1
    None = None
    Cases <- MCCases
    Ids <- MCIds
    Tools = 1
SPECIFICATION MockFairSpec
INVARIANTS
    MockTypeOK
    ReportIsSubmission
    ShownReportIsCurrent
    WaitingGateIsShown
PROPERTIES
    PageRecovers
    HandlersEnd
CHECK_DEADLOCK FALSE
