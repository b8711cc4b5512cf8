SPECIFICATION FairSpec
CONSTANTS
    r1 = r1
    r2 = r2
    r3 = r3
    t1 = t1
    t2 = t2
    Requests = {r1, r2, r3}
    Turns = {t1, t2}
    TurnOf <- Retry
    Kernels <- AllKernels
    Actor = Actor
    Nobody = Nobody
    MaxFaults = 1
    MaxCrashes = 2
INVARIANTS TypeOK ActiveTurnsCounted AnswerIsRecorded ExecutorsAreAdmitted
PROPERTIES CompletedNeverRestarts NeverReexecuted RequestEnds OrphanIsMarked
CHECK_DEADLOCK FALSE
