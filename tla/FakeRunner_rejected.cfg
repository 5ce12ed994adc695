\* blueprint:120 says only approved findings are written.
CONSTANTS
    inv1 = inv1
    inv2 = inv2
    inv9 = inv9
    None = None
    Ids <- MCIds
    FakeItems <- MCItems
    Decisions <- MCDecisions
    MaxStrays = 1
SPECIFICATION Spec
INVARIANT RejectedNotWritten
CHECK_DEADLOCK FALSE
