SPECIFICATION Spec
CONSTANTS
    Operators = {o1}
    HandWritten = {"payload", "garbage", "not_object"}
INVARIANT
    EnforceNeverRaises
