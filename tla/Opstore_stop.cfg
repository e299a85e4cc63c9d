\* A service that is stopped while messages arrive, are lost or do not parse,
\* and batches are written and fail.
SPECIFICATION FairSpec
CONSTANTS
    LastIngest = 3
    Key <- MCStopKey
    FileKey <- MCFolder
    KeyOf <- MCStopKeyOf
    SizeOf <- MCStopSizeOf
    Malformed <- MCStopMalformed
    Fault = {"drop", "db", "stop", "crash"}
\* Everything published and written, the service waits.
CHECK_DEADLOCK FALSE
INVARIANT Accounted
INVARIANT RetiredByStored
INVARIANT StopFlushesBuffer
PROPERTY HistoryKept
PROPERTY StopEnds
