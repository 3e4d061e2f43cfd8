SPECIFICATION Spec
CONSTANTS
    PageSize = 8
    Header = 3
    MinSplit = 4
    Align = 2
    InitialPages = 1
    GrowPages = 1
    MaxPages = 3
    HeapBase = 1
    HighestPage = 5
    Reserved = {0}
    Requests = {1, 5, 14}
INVARIANTS
    Tiled
    Coalesced
    LiveIntact
    OnlyHeldIsFreed
    StatsMatch
    PagesAccounted
PROPERTIES
    IsAllocator
