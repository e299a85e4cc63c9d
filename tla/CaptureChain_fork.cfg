\* A put of the manifest may fail.
SPECIFICATION Spec
CONSTANTS
    Call = {c1, c2}
    Payload = {p1}
    MaxTime = 2
    Day <- MCDay
    DayOf <- MCDayOf
    NoDay = NoDay
    NoCall = NoCall
    Fault = {"manifest"}
\* Every call ends and the clock stops at MaxTime.
CHECK_DEADLOCK FALSE
INVARIANTS
    ChainVerifies
