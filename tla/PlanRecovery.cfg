\* An approved task that waits for its lease, and another that is interrupted.
SPECIFICATION Spec
CONSTANTS
    t1 = t1  t2 = t2  t3 = t3  t4 = t4
    Tasks = {t1, t4}
    Leasable = {t1, t4}
    Plans <- GatedPairs
    Commands = {}
    MaxRevision = 4
    MaxLeases = 1
    MaxSession = 1
INVARIANTS
    RecoveryNeverRefused
