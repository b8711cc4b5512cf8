SPECIFICATION Spec
CONSTANTS
    Pids = {p1, p2, p3}
    Clocks = {proc, psutil}
    NoClock = NoClock
    NoFile = NoFile
    MaxStarts = 2
SYMMETRY Symmetry
CONSTRAINT NoOverlap
INVARIANTS TypeOK OneHolderIfApart
PROPERTIES RefusedOnlyIfHeld
CHECK_DEADLOCK FALSE
