SPECIFICATION FairSpec
CONSTANTS
    Collectors = {c1, c2, c3}
    CommandLine <- MCAccepted
    MaxBatch = 2
    MaxFaults = 2
INVARIANTS
    TypeOK
    CoverageHonest
    SweepComplete
    CleanExit
PROPERTIES
    StopCompletes
    KeepsSweeping
