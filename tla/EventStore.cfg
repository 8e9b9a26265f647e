\* Two threads and three events of two severities over a cap of two (target 1);
\* every second append checks the disk; one restart, one failing statement.
SPECIFICATION Spec
CONSTANTS
    Threads = {t1, t2}
    NoThread = NoThread
    EventIds <- MCThreeIds
    Levels <- MCTwoLevels
    MaxEvents = 2
    FloorSet = TRUE
    CheckEvery = 2
    GapThreshold = 1
    MaxClock = 1
    MaxRestarts = 1
    MaxFailures = 1
SYMMETRY MCSymmetry
INVARIANTS
    TypeOK
    LockDiscipline
    EvictionExact
    LossesDeclared
    RowCountExact
    CapRespected
    HaltOnRecord
    OvershootBounded
PROPERTIES
    ImplementsRecordedLog
    DowntimeIsReal
