\* One ingest whose CTOs reach the service in two windows.
SPECIFICATION Spec
CONSTANTS
    LastIngest = 2
    Key <- MCFolder
    FileKey <- MCFolder
    KeyOf <- MCKeyOfFolder
    SizeOf <- MCSizeOfFolder
    Malformed <- MCNone
    Fault = {}
\* Everything published and written, the service waits.
CHECK_DEADLOCK FALSE
INVARIANT RetiredByPriorOnly
