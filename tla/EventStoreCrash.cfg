\* A process killed between the DELETE and the INSERT of _evict_locked.
SPECIFICATION Spec
CONSTANTS
    Threads = {t1}
    NoThread = NoThread
    EventIds <- MCThreeIds
    Levels <- MCUnscored
    MaxEvents = 2
    FloorSet = FALSE
    CheckEvery = 2
    GapThreshold = 1
    MaxClock = 0
    MaxRestarts = 1
    MaxFailures = 0
INVARIANTS
    EveryDropRecorded
