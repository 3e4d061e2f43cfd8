SPECIFICATION Spec
CONSTANTS
    a = a
    b = b
    Node <- Nodes
    MaxProcs = 3
    MaxTasks = 2
    MaxPid <- Pids
INVARIANTS
    TableMatchesTasks
    PidsUnique
CHECK_DEADLOCK FALSE
CONSTRAINT WatchB
