\* Every failure there is, a clock set back included.
SPECIFICATION Spec
CONSTANTS
    Call = {c1, c2, c3}
    Payload = {p1, p2}
    MaxTime = 2
    Day <- MCDay
    DayOf <- MCDayOf
    NoDay = NoDay
    NoCall = NoCall
    Fault = {"read", "object", "manifest", "crash", "clock"}
SYMMETRY Symmetry
\* Every call ends and the clock stops at MaxTime.
CHECK_DEADLOCK FALSE
INVARIANTS
    TypeOK
    EntriesRooted
    LinesBacked
    ReturnedRecorded
PROPERTIES
    AppendOnly
