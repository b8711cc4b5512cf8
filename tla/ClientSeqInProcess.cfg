SPECIFICATION Spec
CONSTANTS
    Savers = {s1, s2}
    Absent = Absent
    None = None
    MaxSeq = 3
    MaxRestarts = 1
    Faults = TRUE
    MaxWrites = 2
INVARIANTS TypeOK IncreasingInOneLife
CHECK_DEADLOCK FALSE
