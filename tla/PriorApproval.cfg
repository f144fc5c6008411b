\* An approved task alone in its plan, undisturbed, to the lease of its second attempt.
SPECIFICATION Spec
CONSTANTS
    Gating = {TRUE}
    Siblings = {"none"}
    Ceilings <- MCCeilings
    Requests <- MCRequests
    MaxCheckpoints = 0
    MaxDisturbances = 0
INVARIANTS
    PriorApprovalServes
CHECK_DEADLOCK FALSE
