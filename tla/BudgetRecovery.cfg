\* A retried task whose first reservation expires while its second is open.
SPECIFICATION Spec
CONSTANTS
    Gating = {FALSE}
    Siblings = {"none"}
    Ceilings <- MCCeilings
    Requests <- MCRequests
    MaxCheckpoints = 0
    MaxDisturbances = 1
INVARIANTS
    RecoveryReleasesExpired
CHECK_DEADLOCK FALSE
