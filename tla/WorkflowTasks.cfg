\* Either two related tasks and one worker, or one task contended by two workers.
SPECIFICATION MCSpec
CONSTANTS
    w1 = w1  t1 = t1  t2 = t2  k1 = k1  k2 = k2  p1 = p1  p2 = p2  key1 = key1  key2 = key2
    Workflows = {w1}
    Tasks = {t1, t2}
    Workers = {k1, k2}
    Policies = {p1, p2}
    Keys = {key1, key2}
    WorkflowOf <- OneWorkflow
    NoPolicy = NoPolicy
    NoTask = NoTask
    MaxAttempts = 2
    MaxProgress = 1
    MaxVersion = 6
    MaxBoots = 2
INVARIANTS
    RowsAgree
    NoOrphans
    ClosedIsSettled
    ReceiptsAreOutcomes
    LeaseDiesWithProcess
PROPERTIES
    TriggersAccept
