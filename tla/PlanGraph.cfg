\* A chain, a join or a cycle of three tasks, or a pair of which one is gated.
SPECIFICATION MCSpec
CONSTANTS
    t1 = t1  t2 = t2  t3 = t3  t4 = t4
    Tasks = {t1, t2, t3, t4}
    Leasable = {t1, t2, t3}
    Plans <- AllPlans
    Commands = {c1, c2}
    MaxRevision = 6
    MaxLeases = 2
    MaxSession = 2
SYMMETRY CommandSymmetry
INVARIANTS
    AdmittedIsAcyclic
    ReadinessFollowsGraph
    PlanSummarisesTasks
    GatedNeedsHuman
    OneEffectPerRevision
    OneLeaseHolder
    RunningHasOneReceipt
