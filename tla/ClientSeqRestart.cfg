SPECIFICATION Spec
CONSTANTS
    Savers = {s1, s2}
    Absent = Absent
    None = None
    MaxSeq = 3
    MaxRestarts = 1
    Faults = FALSE
    MaxWrites = 2
INVARIANTS StrictlyIncreasing
CHECK_DEADLOCK FALSE
