SPECIFICATION FairSpec
CONSTANTS
    Threads = {t1, t2, t3}
    Keys = {k1, k2}
    Locks = {l1, l2, l3}
    NoKey = NoKey
    NoLock = NoLock
    NoThread = NoThread
    MaxClaims = 2
INVARIANTS MutualExclusion CountIsExact
PROPERTIES ClaimGranted TablesDrain ImplementsActorLock
