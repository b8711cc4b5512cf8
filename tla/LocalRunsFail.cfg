SPECIFICATION Spec
CONSTANTS
    Runs = {r1}
    Workers = {w1}
    NoRun = NoRun
    NoWorker = NoWorker
    MaxRetries = 1
    MaxHanded = 2
    MaxRestarts = 0
    MaxFaults = 0
PROPERTIES ReportedFailureEndsRun
CHECK_DEADLOCK FALSE
