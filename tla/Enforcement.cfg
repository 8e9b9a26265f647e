SPECIFICATION FairSpec
CONSTANTS
    Operators = {o1, o2}
    HandWritten = {"payload", "garbage", "not_object"}
INVARIANTS
    TypeOK
    NeverHalfWritten
    EngageStands
    ActionHonoursSwitch
    OnlyTrustedHalts
    TamperingReported
    RecordTruthful
PROPERTY
    EventSurvives
