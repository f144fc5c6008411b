\* The task alone or with a sibling, gated or not; two disturbances in any place.
SPECIFICATION Spec
CONSTANTS
    Gating = {TRUE, FALSE}
    Siblings = {"none", "ready"}
    Ceilings <- MCCeilings
    Requests <- MCRequests
    MaxCheckpoints = 1
    MaxDisturbances = 2

INVARIANTS
    WithinCeilings
    UnitsConserved
    RetriedWasTransient
    RetryNeedsSettledPlan
    ApprovalCoversOneRun
    RetryRunsOnItsGround
    OneHolder
PROPERTIES
    ImplementsTaskAttempts
CHECK_DEADLOCK FALSE
