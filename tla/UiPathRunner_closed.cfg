\* store.py:92 says a streamed event updates the case.
CONSTANTS
    inv1 = inv1
    inv2 = inv2
    inv9 = inv9
    None = None
    Ids <- MCIds
    MaxFlagged = 2
    Deployments <- MCDeployments
    Decisions <- MCDecisions
    MaxStrays = 1
SPECIFICATION Spec
INVARIANT StreamedDoneClosesCase
CHECK_DEADLOCK FALSE
