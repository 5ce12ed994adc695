\* Jobs that fail, are repeated and finish late, over small data sets.
CONSTANTS
    i1 = i1
    i2 = i2
    i3 = i3
    unknown = unknown
    text = text
    edited = edited
    empty = empty
    NoPlan = NoPlan
    NoId = NoId
    BuiltPlan = text
    Ids <- MCIds
    Plans <- MCPlans
    Blank <- MCBlank
    Datasets <- MCDatasets
    Results <- MCResults
    MaxFlagged = 2
    MaxAttempts = 3
SPECIFICATION CodedSpec
INVARIANTS
    CodedTypeOK
    WriteNeedsBothGrants
    LoggedWasReviewed
    ReportMatchesRows
    OneOriginalPerGroup
    StrongestAreShown
CHECK_DEADLOCK FALSE
