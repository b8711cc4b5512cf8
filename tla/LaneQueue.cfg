SPECIFICATION FairSpec
CONSTANTS
    N = 2
    NumItems = 3
    Items <- MCItems
    NoItem = NoItem
    LaneOf <- MCLaneOf
    HasRunId <- MCHasRunId
    MaxTotal = 2
    MaxLimit = 2
    MaxCrashes = 1
    MaxFaults = 1
INVARIANTS TypeOK ThreadsWithinLimit DrainedMeansQuiet LaneFIFO NothingLost RunsAtMostOnce BoundedBypass
PROPERTIES QueuedIsServed
CHECK_DEADLOCK FALSE
