SPECIFICATION Spec
CONSTANTS
    MaxTasks = 5
    TimeSlice = 2
    MaxSleep = 1
    MaxSpawns = 3
    Networked = FALSE
PROPERTIES
    KilledStaysStopped
