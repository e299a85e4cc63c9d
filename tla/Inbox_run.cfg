\* Slow writers, files replaced under the watcher's hands or not readable, every failure.
SPECIFICATION FairSpec
CONSTANTS
    LastFile = 3
    LastName = 2
    NameOf <- MCNameOf
    Fate <- MCFate
    CountOf <- MCCountOf
    MaxTrouble = 1
    MaxLocked = 1
    Fault = {"slow", "replace", "read", "capture", "publish", "move", "crash", "stop"}
\* Everything dropped and moved away, the watcher polls or is stopped.
CHECK_DEADLOCK FALSE
INVARIANT TypeOK
INVARIANT ProcessedWasIngested
INVARIANT CapturedFirst
INVARIANT IngestedOnce
PROPERTY EveryFileLeaves
PROPERTY StopEnds
