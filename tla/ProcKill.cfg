SPECIFICATION Spec
CONSTANTS
    a = a
    b = b
    Node <- Nodes
    MaxProcs = 2
    MaxTasks = 2
    MaxPid <- Pids
PROPERTIES
    OnlyNamedDies
CHECK_DEADLOCK FALSE
