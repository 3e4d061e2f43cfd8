SPECIFICATION Spec
CONSTANTS
    p1 = p1
    p2 = p2
    Peers = {p1, p2}
    Loads = {1, 2}
    MaxNodes = 2
    MaxHistory = 2
    MaxJobs = 3
    MaxManual = 1
INVARIANTS
    HistoryInOrder
    LastCompletedIsLatest
    AlignedResultsMatch
PROPERTIES
    TargetIsFreshAndIdler
SYMMETRY Symmetry
