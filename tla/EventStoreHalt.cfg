\* A halted store and one more append.
SPECIFICATION Spec
CONSTANTS
    Threads = {t1}
    NoThread = NoThread
    EventIds <- MCThreeIds
    Levels <- MCUnscored
    MaxEvents = 2
    FloorSet = TRUE
    CheckEvery = 2
    GapThreshold = 1
    MaxClock = 0
    MaxRestarts = 0
    MaxFailures = 0
PROPERTIES
    NothingCapturedWhileHalted
