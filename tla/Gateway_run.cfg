\* Connections that fail and break, routes switched, a shutdown.
SPECIFICATION FairSpec
CONSTANTS
    LastMsg = 3
    Source <- MCSource
    Connection <- MCConnection
    SourceOf <- MCSourceOf
    Verdict <- MCVerdict
    LastRoute = 2
    Matching <- MCMatching
    DestOf <- MCDestOf
    Dest <- MCDest
    TcpDest <- MCTcpDest
    HighWater = 0
    Closer = Closer
    Fault = {"frame", "capture", "connect", "break", "send", "toggle", "shutdown"}
\* Every message routed, the gateway waits, or it is shut down.
CHECK_DEADLOCK FALSE
INVARIANT TypeOK
INVARIANT RouteAccounted
INVARIANT ListenerAccounted
INVARIANT EveryRouteTried
INVARIANT OneConnection
INVARIANT BufferBounded
PROPERTY EveryMessageEnds
PROPERTY ShutdownEnds
