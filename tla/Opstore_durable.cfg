\* A stop while CTOs are still being delivered.
SPECIFICATION Spec
CONSTANTS
    LastIngest = 2
    Key <- MCFolder
    FileKey <- MCFolder
    KeyOf <- MCKeyOfFolder
    SizeOf <- MCSizeOfFolder
    Malformed <- MCNone
    Fault = {"stop"}
\* Everything published and written, the service waits.
CHECK_DEADLOCK FALSE
INVARIANT StopWritesAll
