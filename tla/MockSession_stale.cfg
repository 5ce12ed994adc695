\* README.md:14: at Gate 1 a human can approve, edit or reject the plan.
CONSTANTS
    inv1 = inv1
    None = None
    Cases <- MCCases
    Ids <- MCIds
    Tools = 1
SPECIFICATION MockSpec
INVARIANT Gate1IsOffered
CHECK_DEADLOCK FALSE
