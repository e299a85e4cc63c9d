\* The readers of streams, messages and files, and what is forwarded of them.
SPECIFICATION Spec
CONSTANTS
    Wire <- MCWire
    GroupSize = 2
    MaxGroups = 3
    Magic = 3
    KmzInput <- KmzFiles
    OvlInput <- OvlFiles
    XmlInput <- XmlEvents
    PbInput <- PbEvents
\* A connection ends, and a sample does nothing.
CHECK_DEADLOCK FALSE
INVARIANT MessagesExact
INVARIANT XmlForwardKeeps
INVARIANT PbForwardKeeps
INVARIANT KmzIdentityHonest
INVARIANT FileOutcome
INVARIANT OvlDrawnKept
