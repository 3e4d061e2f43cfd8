SPECIFICATION Spec
CONSTANTS
    p1 = p1
    Peers = {p1}
    Loads = {1, 2}
    MaxNodes = 2
    MaxHistory = 4
    MaxJobs = 3
    MaxManual = 0
INVARIANTS
    ResultsMatch
CHECK_DEADLOCK FALSE
