\* A service that crashes and is never asked to stop, and a client that lists
\* the table meanwhile.
SPECIFICATION QSpec
CONSTANTS
    LastIngest = 4
    Key <- MCKey
    FileKey <- MCFileKey
    KeyOf <- MCKeyOf
    SizeOf <- MCSizeOf
    Malformed <- MCNone
    Fault = {"db", "crash"}
    EventTime <- MCEventTime
    UidRank <- MCUidRank
    Limit = 1
    Dated <- MCDated
\* Everything published, written and listed, the service waits.
CHECK_DEADLOCK FALSE
INVARIANT TypeOK
INVARIANT NoOvertaking
INVARIANT NotRetiredByOlder
INVARIANT PagesDescend
INVARIANT PagesComplete
PROPERTY EveryMessageSettles
