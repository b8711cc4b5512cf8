SPECIFICATION FairSpec
CONSTANTS
    Runs = {r1}
    Workers = {w1, w2}
    NoRun = NoRun
    NoWorker = NoWorker
    MaxRetries = 1
    MaxHanded = 4
    MaxRestarts = 1
    MaxFaults = 1
INVARIANTS NoRunIsStranded QueuedIsUnclaimed RetryBudget ResultIsFinishers
PROPERTIES TerminalIsFinal QueuedEnds
CHECK_DEADLOCK FALSE
