\* maestro-case-blueprint.md:145 says no write happens without a Gate 2 decision.
CONSTANTS
    inv1 = inv1
    inv2 = inv2
    inv9 = inv9
    None = None
    Ids <- MCIds
    Decisions <- MCDecisions
    MaxFlagged = 2
    Deployments <- MCDeployments
    MaxStrays = 6
    MaxAttempts = 3
SPECIFICATION SessionSpec
INVARIANT WriteNeedsGate2Decision
CHECK_DEADLOCK FALSE
