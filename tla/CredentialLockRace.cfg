SPECIFICATION Spec
CONSTANTS
    Pids = {p1, p2}
    Clocks = {proc}
    NoClock = NoClock
    NoFile = NoFile
    MaxStarts = 2
CONSTRAINT NoMisread
INVARIANTS AtMostOneHolder
CHECK_DEADLOCK FALSE
