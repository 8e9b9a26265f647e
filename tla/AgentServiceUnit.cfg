SPECIFICATION FairSpec
CONSTANTS
    Collectors = {c1}
    CommandLine <- ExecStart
    MaxBatch = 1
    MaxFaults = 0
PROPERTY
    UnitComesUp
