SPECIFICATION FairSpec
CONSTANTS
    Candidates <- MCCandidates
    Paths <- MCPaths
    Markers <- MCMarkers
    Categories <- MCCategories
    MaxNotices = 2
    MaxClock = 3
    MaxFaults = 2
INVARIANTS
    TypeOK
    NoChangeMiscounted
    RateOverOwnWindow
    SensitiveMeansWritten
PROPERTY ChangesLeaveTheBuffer
CHECK_DEADLOCK FALSE
