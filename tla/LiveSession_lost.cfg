\* maestro-case-blueprint.md:120: only approved findings are written.
CONSTANTS
    inv1 = inv1
    inv2 = inv2
    None = None
    Ids = {inv1}
    Decisions <- AllDecisions
    MaxFlagged = 1
    Deployments <- WithAndWithoutLog
    MaxStrays = 1
    MaxStreams = 2
    MaxFaults = 1
SPECIFICATION LiveSpec
INVARIANT OnlyApprovedLogged
CHECK_DEADLOCK FALSE
