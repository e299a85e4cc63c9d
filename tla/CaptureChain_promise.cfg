\* No put of a manifest fails and the clock only advances.
SPECIFICATION FairSpec
CONSTANTS
    Call = {c1, c2, c3}
    Payload = {p1}
    MaxTime = 2
    Day <- MCDay
    DayOf <- MCDayOf
    NoDay = NoDay
    NoCall = NoCall
    Fault = {"read", "object", "crash"}
\* Every call ends and the clock stops at MaxTime.
CHECK_DEADLOCK FALSE
INVARIANTS
    ChainVerifies
    CaptureOrder
PROPERTIES
    IsEvidenceLog
    EveryCallEnds
