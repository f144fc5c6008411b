\* A task alone in its plan, undisturbed, to its third failure.
SPECIFICATION Spec
CONSTANTS
    Gating = {FALSE}
    Siblings = {"none"}
    Ceilings <- MCCeilings
    Requests <- MCRequests
    MaxCheckpoints = 0
    MaxDisturbances = 0
INVARIANTS
    PlanSettles
CHECK_DEADLOCK FALSE
