\* A file whose ingest raises something else than the parser's own exception.
SPECIFICATION FairSpec
CONSTANTS
    LastFile = 2
    LastName = 2
    NameOf <- MCNameOfPoison
    Fate <- MCFatePoison
    CountOf <- MCCountOfPoison
    MaxTrouble = 0
    MaxLocked = 0
    Fault = {}
CHECK_DEADLOCK FALSE
PROPERTY EveryIngestMoves
