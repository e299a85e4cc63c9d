\* A peer that keeps its connection and stops reading.
SPECIFICATION FairSpec
CONSTANTS
    LastMsg = 3
    Source <- MCSource
    Connection <- MCConnection
    SourceOf <- MCSourceOf
    Verdict <- MCVerdict
    LastRoute = 2
    Matching <- MCMatching
    DestOf <- MCDestOf
    Dest <- MCDest
    TcpDest <- MCTcpDest
    HighWater = 0
    Closer = Closer
    Fault = {"stall"}
\* Every message routed, the gateway waits, or it is shut down.
CHECK_DEADLOCK FALSE
PROPERTY EveryMessageEnds
