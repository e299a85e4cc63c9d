------------------------------- MODULE Gateway -------------------------------
(***************************************************************************)
(* The live path of services/gateway: the CoT listeners of listeners.py,   *)
(* the sink of main.py and the route engine of route_engine.py, which      *)
(* sends each CTO to the destinations of its routes over one connection    *)
(* per destination.                                                        *)
(*                                                                         *)
(* A message is a task: one after the other on a TCP connection, at once   *)
(* for datagrams.  An action is the code between two awaits, or less.      *)
(* capture() itself is module CaptureChain.                                *)
(***************************************************************************)
EXTENDS Naturals, Sequences, FiniteSets, FiniteSetsExt

CONSTANTS
    LastMsg,    \* the messages, in the order in which they arrive
    Source,     \* client connections and datagram listeners
    Connection, \* those that are TCP connections
    SourceOf,
    Verdict,    \* what the normalizer makes of each message
    LastRoute,  \* the routes, in the order of the configuration
    Matching,   \* the messages whose CTO each route matches
    DestOf,
    Dest,       \* "kind://host:port"
    TcpDest,    \* those that are TCP
    HighWater,  \* the messages a connection buffers before drain() waits
    Closer,     \* close() of the route engine, on a sender's lock
    Fault       \* what may happen, a set of the members of FaultKind

Msg == 1 .. LastMsg
Route == 1 .. LastRoute

\* CoTXmlParseError, CoTPbError; any other exception; fine.
VerdictKind == {"parse", "escape", "good"}
FaultKind == {"frame", "capture", "connect", "break", "send", "stall", "toggle", "shutdown"}

ASSUME GatewayAssumption ==
    /\ LastMsg \in Nat /\ LastRoute \in Nat /\ HighWater \in Nat
    /\ Connection \subseteq Source /\ TcpDest \subseteq Dest
    /\ SourceOf \in [Msg -> Source]
    /\ Verdict \in [Msg -> VerdictKind]
    /\ Matching \in [Route -> SUBSET Msg]
    /\ DestOf \in [Route -> Dest]
    /\ Closer \notin Msg \cup {0}
    /\ Fault \subseteq FaultKind

VARIABLES
    pc,         \* where each message's task is
    at,         \* the route it is at
    up,         \* the client connections that are not closed
    received, normalized, parseErrors,  \* ListenerStats
    enabled,    \* the enabled routes
    steady,     \* those that have never been disabled
    matched, sent, sendErrors,          \* RouteStats
    senders,    \* the destinations that have a sender, oldest first
    holder, waiter, \* the lock of each TCP sender
    writer,     \* its connection
    live,       \* how many connections to it are open
    pending,    \* the messages in their buffers
    engine,     \* how far the shutdown is
    closing     \* the sender that is closed, and how many there were

listener == <<up, received, normalized, parseErrors>>
stats == <<matched, sent, sendErrors>>
lock == <<holder, waiter>>
socket == <<writer, live, pending>>
shutdown == <<engine, closing>>
vars == <<pc, at, listener, enabled, steady, stats, senders, lock, socket, shutdown>>

AtSender == {"waiting", "connecting", "writing", "draining", "sending"}
Ended == {"done", "dropped", "raised"}
Active(m) == pc[m] \notin Ended \cup {"new"}
AtRoute(r) == {m \in Msg : pc[m] \in AtSender /\ at[m] = r}
From(s) == {m \in Msg : SourceOf[m] = s}
Alive == engine \notin {"closed", "raised"}

TypeOK ==
    /\ pc \in [Msg -> {"new", "capturing", "routing"} \cup AtSender \cup Ended]
    /\ at \in [Msg -> 1 .. LastRoute + 1]
    /\ up \subseteq Connection
    /\ received \in [Source -> Nat] /\ normalized \in [Source -> Nat]
    /\ parseErrors \in [Source -> Nat]
    /\ enabled \subseteq Route /\ steady \subseteq enabled
    /\ matched \in [Route -> Nat] /\ sent \in [Route -> Nat]
    /\ sendErrors \in [Route -> Nat]
    /\ senders \in Seq(Dest)
    /\ holder \in [TcpDest -> Msg \cup {Closer, 0}]
    /\ waiter \in [TcpDest -> Seq(Msg \cup {Closer})]
    /\ writer \in [TcpDest -> {"none", "open", "closing"}]
    /\ live \in [TcpDest -> Nat] /\ pending \in [TcpDest -> Nat]
    /\ engine \in {"running", "closing", "locking", "flushing", "closed", "raised"}
    /\ closing \in Nat \X Nat

Zero(S) == [x \in S |-> 0]

Init ==
    /\ pc = [m \in Msg |-> "new"] /\ at = [m \in Msg |-> 1]
    /\ up = Connection
    /\ received = Zero(Source) /\ normalized = Zero(Source) /\ parseErrors = Zero(Source)
    /\ enabled = Route /\ steady = Route
    /\ matched = Zero(Route) /\ sent = Zero(Route) /\ sendErrors = Zero(Route)
    /\ senders = <<>>
    /\ holder = Zero(TcpDest) /\ waiter = [d \in TcpDest |-> <<>>]
    /\ writer = [d \in TcpDest |-> "none"] /\ live = Zero(TcpDest) /\ pending = Zero(TcpDest)
    /\ engine = "running" /\ closing = <<0, 0>>

-----------------------------------------------------------------------------
(* The listeners.  A connection reads on when its last message is done, and *)
(* also during the shutdown; datagrams are no longer received then.         *)
Arrives(m) ==
    /\ Alive /\ pc[m] = "new"
    /\ \A n \in From(SourceOf[m]) : n < m => pc[n] # "new"
    /\ IF SourceOf[m] \in Connection
       THEN SourceOf[m] \in up /\ \A n \in From(SourceOf[m]) : ~Active(n)
       ELSE engine = "running"

Receive(m) ==
    /\ Arrives(m)
    /\ pc' = [pc EXCEPT ![m] = "capturing"]
    /\ received' = [received EXCEPT ![SourceOf[m]] = @ + 1]
    /\ UNCHANGED <<at, up, normalized, parseErrors, enabled, steady, stats, senders, lock, socket, shutdown>>

\* What is cut off or no frame is not captured, and closes its connection.
FrameFails(m) ==
    /\ "frame" \in Fault /\ SourceOf[m] \in Connection
    /\ Arrives(m)
    /\ pc' = [pc EXCEPT ![m] = "dropped"]
    /\ parseErrors' = [parseErrors EXCEPT ![SourceOf[m]] = @ + 1]
    /\ up' = up \ {SourceOf[m]}
    /\ UNCHANGED <<at, received, normalized, enabled, steady, stats, senders, lock, socket, shutdown>>

(* The bytes are captured and parse, and the sink publishes the CTO on NATS *)
(* or logs that it could not: an await that nothing here depends on.        *)
Captured(m) ==
    /\ Alive /\ pc[m] = "capturing"
    /\ Verdict[m] = "good"
    /\ pc' = [pc EXCEPT ![m] = "routing"]
    /\ UNCHANGED <<at, listener, enabled, steady, stats, senders, lock, socket, shutdown>>

\* Mutant of NormalizeFails: no return.
NormalizeFails_GoOn(m) ==
    /\ Alive /\ pc[m] = "capturing"
    /\ Verdict[m] = "parse"
    /\ pc' = [pc EXCEPT ![m] = "routing"]
    /\ parseErrors' = [parseErrors EXCEPT ![SourceOf[m]] = @ + 1]
    /\ UNCHANGED <<at, up, received, normalized, enabled, steady, stats, senders, lock, socket, shutdown>>
NormalizeFails(m) ==
    /\ Alive /\ pc[m] = "capturing"
    /\ Verdict[m] = "parse"
    /\ pc' = [pc EXCEPT ![m] = "dropped"]
    /\ parseErrors' = [parseErrors EXCEPT ![SourceOf[m]] = @ + 1]
    /\ UNCHANGED <<at, up, received, normalized, enabled, steady, stats, senders, lock, socket, shutdown>>

(* Any other exception, of the normalizer or of capture, ends the task, and *)
(* with it the connection.                                                  *)
Raise(m) ==
    /\ Alive /\ pc[m] = "capturing"
    /\ Verdict[m] = "escape" \/ "capture" \in Fault
    /\ pc' = [pc EXCEPT ![m] = "raised"]
    /\ up' = up \ {SourceOf[m]}
    /\ UNCHANGED <<at, received, normalized, parseErrors, enabled, steady, stats, senders, lock, socket, shutdown>>

-----------------------------------------------------------------------------
(* handle_cto.                                                              *)
Wanted(m) == {r \in enabled : r >= at[m] /\ m \in Matching[r]}

(* No route is left, and the listener counts the message.                   *)
RoutesDone(m) ==
    /\ Alive /\ pc[m] = "routing" /\ Wanted(m) = {}
    /\ pc' = [pc EXCEPT ![m] = "done"]
    /\ at' = [at EXCEPT ![m] = LastRoute + 1]
    /\ normalized' = [normalized EXCEPT ![SourceOf[m]] = @ + 1]
    /\ UNCHANGED <<up, received, parseErrors, enabled, steady, stats, senders, lock, socket, shutdown>>

(* The next route: its sender is made when it is first wanted, and a TCP    *)
(* sender's lock is queued for.                                             *)
Dispatch(m) ==
    /\ Alive /\ pc[m] = "routing" /\ Wanted(m) # {}
    /\ LET r == Min(Wanted(m))
           d == DestOf[r]
       IN  /\ matched' = [matched EXCEPT ![r] = @ + 1]
           /\ senders' = IF \E i \in DOMAIN senders : senders[i] = d THEN senders
                         ELSE Append(senders, d)
           /\ at' = [at EXCEPT ![m] = r]
           /\ pc' = [pc EXCEPT ![m] = IF d \in TcpDest THEN "waiting" ELSE "sending"]
           /\ waiter' = IF d \in TcpDest THEN [waiter EXCEPT ![d] = Append(@, m)] ELSE waiter
    /\ UNCHANGED <<listener, enabled, steady, sent, sendErrors, holder, socket, shutdown>>

Unlock(d) == holder' = IF d \in TcpDest THEN [holder EXCEPT ![d] = 0] ELSE holder

ToNextRoute(m, ok) ==
    /\ pc' = [pc EXCEPT ![m] = "routing"]
    /\ at' = [at EXCEPT ![m] = @ + 1]
    /\ sent' = IF ok THEN [sent EXCEPT ![at[m]] = @ + 1] ELSE sent
    /\ sendErrors' = IF ok THEN sendErrors ELSE [sendErrors EXCEPT ![at[m]] = @ + 1]
    /\ UNCHANGED <<listener, enabled, steady, matched, senders, waiter, shutdown>>

\* Mutants of SendFails: the exception is not caught in the loop over the
\* routes; the lock is not given back; a failure counts as sent as well.
SendFails_Escapes(m) ==
    /\ pc' = [pc EXCEPT ![m] = "done"]
    /\ at' = [at EXCEPT ![m] = LastRoute + 1]
    /\ sendErrors' = [sendErrors EXCEPT ![at[m]] = @ + 1]
    /\ Unlock(DestOf[at[m]])
    /\ normalized' = [normalized EXCEPT ![SourceOf[m]] = @ + 1]
    /\ UNCHANGED <<up, received, parseErrors, enabled, steady, matched, sent, senders, waiter, shutdown>>
SendFails_HoldLock(m) == ToNextRoute(m, FALSE) /\ UNCHANGED holder
SendFails_AlsoSent(m) ==
    /\ pc' = [pc EXCEPT ![m] = "routing"]
    /\ at' = [at EXCEPT ![m] = @ + 1]
    /\ sent' = [sent EXCEPT ![at[m]] = @ + 1]
    /\ sendErrors' = [sendErrors EXCEPT ![at[m]] = @ + 1]
    /\ Unlock(DestOf[at[m]])
    /\ UNCHANGED <<listener, enabled, steady, matched, senders, waiter, shutdown>>
SendFails(m) == ToNextRoute(m, FALSE) /\ Unlock(DestOf[at[m]])
SendDone(m) == ToNextRoute(m, TRUE) /\ Unlock(DestOf[at[m]])

(* The translation raises before the sender is asked for, or sock_sendto.   *)
TranslateFails(m) ==
    /\ "send" \in Fault
    /\ Alive /\ pc[m] = "routing" /\ Wanted(m) # {}
    /\ LET r == Min(Wanted(m))
       IN  /\ matched' = [matched EXCEPT ![r] = @ + 1]
           /\ sendErrors' = [sendErrors EXCEPT ![r] = @ + 1]
           /\ at' = [at EXCEPT ![m] = r + 1]
    /\ UNCHANGED <<pc, listener, enabled, steady, sent, senders, lock, socket, shutdown>>

SendDatagram(m) ==
    /\ Alive /\ pc[m] = "sending"
    /\ UNCHANGED socket
    /\ \/ SendDone(m)
       \/ "send" \in Fault /\ SendFails(m)

-----------------------------------------------------------------------------
(* _TcpSender.send: under the lock, connect if need be, write, drain.       *)
DestAt(m) == DestOf[at[m]]
GoTo(m, step) ==
    /\ pc' = [pc EXCEPT ![m] = step]
    /\ UNCHANGED <<at, listener, enabled, steady, stats, senders, shutdown>>

\* Mutant of Acquire: no lock.
Acquire_NoLock(m) ==
    /\ Alive /\ pc[m] = "waiting"
    /\ GoTo(m, IF writer[DestAt(m)] = "open" THEN "writing" ELSE "connecting")
    /\ UNCHANGED <<lock, socket>>
Acquire(m) ==
    LET d == DestAt(m)
    IN  /\ Alive /\ pc[m] = "waiting"
        /\ holder[d] = 0 /\ Head(waiter[d]) = m
        /\ waiter' = [waiter EXCEPT ![d] = Tail(@)]
        /\ holder' = [holder EXCEPT ![d] = m]
        /\ GoTo(m, IF writer[d] = "open" THEN "writing" ELSE "connecting")
        /\ UNCHANGED socket

\* The connection that was lost is forgotten.
Connect(m) ==
    LET d == DestAt(m)
    IN  /\ Alive /\ pc[m] = "connecting"
        /\ writer' = [writer EXCEPT ![d] = "open"]
        /\ live' = [live EXCEPT ![d] = @ + 1]
        /\ pending' = [pending EXCEPT ![d] = 0]
        /\ GoTo(m, "writing")
        /\ UNCHANGED lock

ConnectFails(m) ==
    /\ "connect" \in Fault
    /\ Alive /\ pc[m] = "connecting"
    /\ SendFails(m)
    /\ UNCHANGED socket

Write(m) ==
    /\ Alive /\ pc[m] = "writing" /\ writer[DestAt(m)] = "open"
    /\ pending' = [pending EXCEPT ![DestAt(m)] = @ + 1]
    /\ GoTo(m, "draining")
    /\ UNCHANGED <<lock, writer, live>>

\* Mutant of Drain: write() without drain().
Drain_AtOnce(m) ==
    /\ Alive /\ pc[m] = "draining" /\ writer[DestAt(m)] = "open"
    /\ SendDone(m)
    /\ UNCHANGED socket
(* drain() returns unless more is buffered than the limit.                  *)
Drain(m) ==
    /\ Alive /\ pc[m] = "draining" /\ writer[DestAt(m)] = "open"
    /\ pending[DestAt(m)] <= HighWater
    /\ SendDone(m)
    /\ UNCHANGED socket

\* drain() raises ConnectionResetError.
WriteFails(m) ==
    /\ Alive /\ pc[m] \in {"writing", "draining"} /\ writer[DestAt(m)] = "closing"
    /\ SendFails(m)
    /\ UNCHANGED socket

(* The peer of destination d takes what was sent, or goes away.             *)
PeerReads(d) ==
    /\ Alive /\ writer[d] = "open" /\ pending[d] > 0
    /\ pending' = [pending EXCEPT ![d] = @ - 1]
    /\ UNCHANGED <<pc, at, listener, enabled, steady, stats, senders, lock, writer, live, shutdown>>

Break(d) ==
    /\ "break" \in Fault
    /\ Alive /\ writer[d] = "open"
    /\ writer' = [writer EXCEPT ![d] = "closing"]
    /\ live' = [live EXCEPT ![d] = @ - 1]
    /\ pending' = [pending EXCEPT ![d] = 0]
    /\ UNCHANGED <<pc, at, listener, enabled, steady, stats, senders, lock, shutdown>>

-----------------------------------------------------------------------------
(* set_enabled, from the HTTP API.                                          *)
Toggle(r) ==
    /\ "toggle" \in Fault /\ engine = "running"
    /\ enabled' = IF r \in enabled THEN enabled \ {r} ELSE enabled \cup {r}
    /\ steady' = steady \cap enabled'
    /\ UNCHANGED <<pc, at, listener, stats, senders, lock, socket, shutdown>>

(* The shutdown closes the listeners and then the senders, in the order of  *)
(* a dictionary to which a message may still add one: RuntimeError then.    *)
Shutdown ==
    /\ "shutdown" \in Fault /\ engine = "running"
    /\ engine' = "closing" /\ closing' = <<1, Len(senders)>>
    /\ UNCHANGED <<pc, at, listener, enabled, steady, stats, senders, lock, socket>>

CloseNext ==
    LET d == senders[closing[1]]
    IN  /\ engine = "closing"
        /\ Len(senders) = closing[2] /\ closing[1] <= closing[2]
        /\ IF d \in TcpDest
           THEN /\ engine' = "locking"
                /\ waiter' = [waiter EXCEPT ![d] = Append(@, Closer)]
                /\ UNCHANGED closing
           ELSE /\ closing' = <<closing[1] + 1, closing[2]>>
                /\ UNCHANGED <<engine, waiter>>
        /\ UNCHANGED <<pc, at, listener, enabled, steady, stats, senders, holder, socket>>

CloseEnds ==
    /\ engine = "closing"
    /\ Len(senders) # closing[2] \/ closing[1] > closing[2]
    /\ engine' = IF Len(senders) # closing[2] THEN "raised" ELSE "closed"
    /\ UNCHANGED <<pc, at, listener, enabled, steady, stats, senders, lock, socket, closing>>

\* _TcpSender.close: under the lock, close what is open once it is flushed.
CloserAcquires ==
    LET d == senders[closing[1]]
    IN  /\ engine = "locking"
        /\ holder[d] = 0 /\ Head(waiter[d]) = Closer
        /\ waiter' = [waiter EXCEPT ![d] = Tail(@)]
        /\ holder' = [holder EXCEPT ![d] = Closer]
        /\ engine' = "flushing"
        /\ UNCHANGED <<pc, at, listener, enabled, steady, stats, senders, socket, closing>>

\* Mutant of Flushed: a lost connection is closed once more.
Flushed_Again ==
    LET d == senders[closing[1]]
    IN  /\ engine = "flushing"
        /\ writer[d] = "open" => pending[d] = 0
        /\ writer' = [writer EXCEPT ![d] = "none"]
        /\ live' = IF writer[d] # "none" THEN [live EXCEPT ![d] = @ - 1] ELSE live
        /\ holder' = [holder EXCEPT ![d] = 0]
        /\ engine' = "closing" /\ closing' = <<closing[1] + 1, closing[2]>>
        /\ UNCHANGED <<pc, at, listener, enabled, steady, stats, senders, waiter, pending>>
Flushed ==
    LET d == senders[closing[1]]
    IN  /\ engine = "flushing"
        /\ writer[d] = "open" => pending[d] = 0
        /\ writer' = [writer EXCEPT ![d] = "none"]
        /\ live' = IF writer[d] = "open" THEN [live EXCEPT ![d] = @ - 1] ELSE live
        /\ holder' = [holder EXCEPT ![d] = 0]
        /\ engine' = "closing" /\ closing' = <<closing[1] + 1, closing[2]>>
        /\ UNCHANGED <<pc, at, listener, enabled, steady, stats, senders, waiter, pending>>

-----------------------------------------------------------------------------
\* A task, once its message has arrived.
Step(m) ==
    \/ Captured(m) \/ NormalizeFails(m) \/ Raise(m)
    \/ RoutesDone(m) \/ Dispatch(m) \/ TranslateFails(m) \/ SendDatagram(m)
    \/ Acquire(m) \/ Connect(m) \/ ConnectFails(m)
    \/ Write(m) \/ Drain(m) \/ WriteFails(m)

Close == CloseNext \/ CloseEnds \/ CloserAcquires \/ Flushed

Next ==
    \/ \E m \in Msg : Receive(m) \/ FrameFails(m) \/ Step(m)
    \/ \E d \in TcpDest : PeerReads(d) \/ Break(d)
    \/ \E r \in Route : Toggle(r)
    \/ Shutdown \/ Close

Spec == Init /\ [][Next]_vars

(* Every task that can go on does.  Peers read, but for "stall".            *)
Fairness ==
    /\ \A m \in Msg : WF_vars(Step(m))
    /\ "stall" \notin Fault => \A d \in TcpDest : WF_vars(PeerReads(d))
    /\ WF_vars(Close)

FairSpec == Spec /\ Fairness

-----------------------------------------------------------------------------
(* Every match of a route ends as one send or one error, or is on its way.  *)
RouteAccounted ==
    \A r \in Route : matched[r] = sent[r] + sendErrors[r] + Cardinality(AtRoute(r))

(* The listener's counters: a message received is normalized, a parse       *)
(* error, under way, or ended by an exception, the one end no counter       *)
(* shows; and a connection adds one framing error at most, its last.        *)
ListenerAccounted ==
    \A s \in Source :
        LET n == normalized[s] + parseErrors[s]
                 + Cardinality({m \in From(s) : Active(m) \/ pc[m] = "raised"})
        IN  received[s] <= n /\ n <= received[s] + (IF s \in Connection \ up THEN 1 ELSE 0)

(* A failing destination does not keep a CTO from the others: once it is    *)
(* routed, every route that it matches and that was never disabled had it.  *)
EveryRouteTried ==
    \A r \in steady :
        Cardinality({m \in Matching[r] : pc[m] = "done"}) <= sent[r] + sendErrors[r]

(* However many tasks send at once, a destination has one connection, and   *)
(* none stays open behind a sender that has lost sight of it.               *)
OneConnection ==
    \A d \in TcpDest : live[d] = (IF writer[d] = "open" THEN 1 ELSE 0)

(* A slow peer costs no more memory than the limit and the one message that *)
(* waits, whatever arrives for it.                                          *)
BufferBounded == \A d \in TcpDest : pending[d] <= HighWater + 1

(* Every message is through in the end, whatever fails, unless the process  *)
(* ends first: no task is left waiting for a sender's lock.                 *)
EveryMessageEnds == \A m \in Msg : Active(m) ~> (~Active(m) \/ ~Alive)

(* A shutdown ends, while client connections go on and senders are busy.    *)
ShutdownEnds == (engine = "closing") ~> ~Alive

=============================================================================
