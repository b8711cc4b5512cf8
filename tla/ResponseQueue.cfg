SPECIFICATION FairSpec
CONSTANTS
    Requests = {r1, r2}
    Flush = Flush
    None = None
    Oversized = {r2}
    MaxCloses = 2
    MaxCrashes = 1
    MaxFaults = 1
INVARIANTS AnsweredIsKept
PROPERTIES QueuedIsSent
CHECK_DEADLOCK FALSE
