SPECIFICATION FairSpec
CONSTANTS
    MaxTasks = 4
    TimeSlice = 2
    MaxSleep = 1
    MaxSpawns = 3
    Networked = TRUE
INVARIANTS
    TypeOK
    RunningIsCurrent
    ExitedStaysOff
PROPERTIES
    ResumesBuiltFrames
    NoReuseUnderfoot
    NoOvertaking
    ReadyIsDispatched
    SleeperWakes
    DeadIsReaped
CHECK_DEADLOCK FALSE
