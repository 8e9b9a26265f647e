SPECIFICATION FairSpec
CONSTANTS
    Collectors = {c1}
    CommandLine <- MCAccepted
    MaxBatch = 1
    MaxFaults = 0
PROPERTY
    HaltEndsService
