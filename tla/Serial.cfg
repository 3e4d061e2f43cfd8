SPECIFICATION FairSpec
CONSTANTS
    Timeout = 2
    BufSize = 3
PROPERTIES
    PastehTimesOut
