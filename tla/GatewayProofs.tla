---------------------------- MODULE GatewayProofs ----------------------------
(* What holds of Gateway for every set of messages, sources, routes and     *)
(* destinations, and whatever fails.                                        *)
EXTENDS Gateway, DataFacts

USE GatewayAssumption

-----------------------------------------------------------------------------
(* A set of routes that is not empty has a first one. *)
LEMMA FirstRoute ==
    ASSUME NEW S \in SUBSET Route, S # {}
    PROVE  Min(S) \in S /\ \A r \in S : Min(S) <= r
  <1>1. S \in SUBSET Nat
    BY DEF Route
  <1>2. \E x \in S : \A y \in S : x <= y
    BY <1>1, SmallestElement
  <1>3. QED
    BY <1>2 DEF Min

(* The next route of a message is one of the routes it wants. *)
LEMMA NextRoute ==
    ASSUME TypeOK, NEW m \in Msg, Wanted(m) # {}
    PROVE  /\ Min(Wanted(m)) \in enabled /\ Min(Wanted(m)) \in Route
           /\ Min(Wanted(m)) >= at[m] /\ m \in Matching[Min(Wanted(m))]
           /\ \A r \in Wanted(m) : Min(Wanted(m)) <= r
  <1>1. Wanted(m) \in SUBSET Route
    BY DEF TypeOK, Wanted
  <1>2. QED
    BY <1>1, FirstRoute DEF Wanted, TypeOK

-----------------------------------------------------------------------------
(* The inductive invariant.                                                 *)

(* A message that is in a sender is at a route of that kind of sender, and  *)
(* one that is routed has been through them all.                            *)
Locking == {"connecting", "writing", "draining"}
PlaceInv ==
    \A m \in Msg :
        /\ pc[m] \in {"waiting"} \cup Locking => at[m] \in Route /\ DestAt(m) \in TcpDest
        /\ pc[m] = "sending" => at[m] \in Route /\ DestAt(m) \notin TcpDest
        /\ pc[m] = "routing" => at[m] \in 1 .. LastRoute + 1
        /\ pc[m] = "done" => at[m] = LastRoute + 1

(* Who waits for a lock is in its queue; who is past it holds the lock, and *)
(* the holder is past it.                                                   *)
LockInv ==
    /\ \A m \in Msg : pc[m] = "waiting" => InQueue(waiter[DestAt(m)], m)
    /\ \A m \in Msg : pc[m] \in Locking => holder[DestAt(m)] = m
    /\ \A m \in Msg : \A d \in TcpDest :
            holder[d] = m => pc[m] \in Locking /\ DestAt(m) = d

(* The shutdown is at a sender there is, and waits for its lock or has it.  *)
CloseInv ==
    /\ engine = "closing" => closing[1] >= 1
    /\ engine \in {"locking", "flushing"} =>
            closing[1] \in 1 .. Len(senders) /\ senders[closing[1]] \in TcpDest
    /\ engine = "locking" => InQueue(waiter[senders[closing[1]]], Closer)
    /\ engine = "flushing" => holder[senders[closing[1]]] = Closer

(* Who connects has found no open connection, and nobody opens one since:   *)
(* that is why counting the open ones never gives two, or less than none.   *)
ConnectInv ==
    /\ \A m \in Msg : pc[m] = "connecting" => writer[DestAt(m)] # "open"
    /\ OneConnection

IInv == TypeOK /\ PlaceInv /\ LockInv /\ CloseInv /\ ConnectInv

LEMMA InitInvariant == Init => IInv
  <1> SUFFICES ASSUME Init PROVE IInv
    OBVIOUS
  <1> USE DEF Init, Zero
  <1>1. 0 \notin Msg /\ 1 \in 1 .. LastRoute + 1
    BY DEF Msg
  <1>2. TypeOK
    BY <1>1 DEF TypeOK
  <1>3. PlaceInv /\ LockInv /\ CloseInv /\ ConnectInv
    BY <1>1 DEF PlaceInv, LockInv, CloseInv, Locking, ConnectInv, OneConnection
  <1>4. QED
    BY <1>2, <1>3 DEF IInv

(* What the invariant says only depends on where the tasks are, the locks   *)
(* and the shutdown.                                                        *)
LEMMA SameLocks ==
    ASSUME IInv, TypeOK', UNCHANGED <<senders, lock, shutdown>>,
           UNCHANGED <<writer, live>> \/ ConnectInv',
           \A m \in Msg : \/ pc'[m] = pc[m] /\ at'[m] = at[m]
                          \/ /\ pc[m] \notin {"waiting"} \cup Locking
                             /\ pc'[m] \notin AtSender
                             /\ pc'[m] = "done" => at'[m] = LastRoute + 1
    PROVE  IInv'
  <1>1. PlaceInv'
    BY DEF IInv, TypeOK, PlaceInv, Locking, AtSender, DestAt
  <1>2. LockInv'
    <2>1. ASSUME NEW m \in Msg, pc'[m] \in {"waiting"} \cup Locking
          PROVE  pc[m] = pc'[m] /\ at'[m] = at[m]
      BY <2>1 DEF AtSender, Locking
    <2>2. ASSUME NEW m \in Msg, pc[m] \in Locking
          PROVE  pc[m] = pc'[m] /\ at'[m] = at[m]
      BY <2>2 DEF AtSender, Locking
    <2>3. holder' = holder /\ waiter' = waiter
      BY DEF lock
    <2>4. \A m \in Msg : pc'[m] = "waiting" => InQueue(waiter'[DestAt(m)'], m)
      BY <2>1, <2>3 DEF IInv, LockInv, DestAt
    <2>5. \A m \in Msg : pc'[m] \in Locking => holder'[DestAt(m)'] = m
      BY <2>1, <2>3 DEF IInv, LockInv, DestAt
    <2>6. \A m \in Msg : \A d \in TcpDest :
            holder'[d] = m => pc'[m] \in Locking /\ DestAt(m)' = d
      BY <2>2, <2>3 DEF IInv, LockInv, DestAt
    <2>7. QED
      BY <2>4, <2>5, <2>6 DEF LockInv
  <1>3. CloseInv'
    BY DEF IInv, CloseInv, lock, shutdown
  <1>4. ConnectInv'
    <2>1. ASSUME NEW m \in Msg, pc'[m] = "connecting"
          PROVE  pc[m] = pc'[m] /\ at'[m] = at[m]
      BY <2>1 DEF AtSender
    <2>2. QED
      BY <2>1 DEF IInv, ConnectInv, OneConnection, DestAt
  <1>5. QED
    BY <1>1, <1>2, <1>3, <1>4 DEF IInv

-----------------------------------------------------------------------------
(* Types.  A route is followed by the next one or by the end of the list. *)
LEMMA ToNextRouteType ==
    ASSUME IInv, NEW m \in Msg, NEW ok \in BOOLEAN,
           pc[m] \in Locking \cup {"sending"},
           ToNextRoute(m, ok), Unlock(DestOf[at[m]]), UNCHANGED socket
    PROVE  TypeOK'
  <1>1. at[m] \in Route
    BY DEF IInv, PlaceInv
  <1>2. at[m] + 1 \in 1 .. LastRoute + 1
    BY <1>1 DEF Route
  <1>3. /\ pc \in [Msg -> {"new", "capturing", "routing"} \cup AtSender \cup Ended]
        /\ at \in [Msg -> 1 .. LastRoute + 1]
        /\ sent \in [Route -> Nat] /\ sendErrors \in [Route -> Nat]
        /\ holder \in [TcpDest -> Msg \cup {Closer, 0}]
    BY DEF IInv, TypeOK
  <1>4. at' \in [Msg -> 1 .. LastRoute + 1]
    BY <1>2, <1>3 DEF ToNextRoute
  <1>5. sent' \in [Route -> Nat] /\ sendErrors' \in [Route -> Nat]
    BY <1>1, <1>3 DEF ToNextRoute
  <1>6. holder' \in [TcpDest -> Msg \cup {Closer, 0}]
    BY <1>3 DEF Unlock
  <1>7. pc' \in [Msg -> {"new", "capturing", "routing"} \cup AtSender \cup Ended]
    BY <1>3 DEF ToNextRoute
  <1>8. QED
    BY <1>4, <1>5, <1>6, <1>7 DEF IInv, TypeOK, ToNextRoute, listener, socket, shutdown

(* A listener's step keeps the types. *)
LEMMA ListenerType ==
    ASSUME IInv, NEW m \in Msg,
           Receive(m) \/ FrameFails(m) \/ Captured(m) \/ NormalizeFails(m) \/ Raise(m)
    PROVE  TypeOK'
  <1>1. TypeOK
    BY DEF IInv
  <1>2. /\ UNCHANGED <<at, enabled, steady, stats, senders, lock, socket, shutdown>>
        /\ \E step \in {"capturing", "routing", "dropped", "raised"} : pc' = [pc EXCEPT ![m] = step]
        /\ up' \in {up, up \ {SourceOf[m]}}
        /\ received' \in {received, [received EXCEPT ![SourceOf[m]] = @ + 1]}
        /\ parseErrors' \in {parseErrors, [parseErrors EXCEPT ![SourceOf[m]] = @ + 1]}
        /\ normalized' = normalized
    BY DEF Receive, FrameFails, Captured, NormalizeFails, Raise, listener
  <1>3. pc' \in [Msg -> {"new", "capturing", "routing"} \cup AtSender \cup Ended]
    <2>1. pc \in [Msg -> {"new", "capturing", "routing"} \cup AtSender \cup Ended]
      BY <1>1 DEF TypeOK
    <2>2. QED
      BY <1>2, <2>1 DEF Ended
  <1>4. SourceOf[m] \in Source
    OBVIOUS
  <1>5. received' \in [Source -> Nat] /\ parseErrors' \in [Source -> Nat]
    <2>1. received \in [Source -> Nat] /\ parseErrors \in [Source -> Nat]
      BY <1>1 DEF TypeOK
    <2>2. QED
      BY <1>2, <1>4, <2>1
  <1>6. up' \subseteq Connection /\ normalized' \in [Source -> Nat]
    BY <1>1, <1>2 DEF TypeOK
  <1>7. QED
    BY <1>1, <1>2, <1>3, <1>5, <1>6 DEF TypeOK, stats, lock, socket, shutdown

(* A step of handle_cto that does not reach a sender keeps the types, *)
LEMMA RoutingType ==
    ASSUME IInv, NEW m \in Msg, RoutesDone(m) \/ TranslateFails(m) \/ Dispatch(m)
    PROVE  TypeOK'
  <1> DEFINE r == Min(Wanted(m))
             d == DestOf[r]
  <1>1. TypeOK
    BY DEF IInv
  <1>2. Wanted(m) # {} => r \in Route
    BY <1>1, NextRoute
  <1> HIDE DEF r
  <1>3. r \in Route => r \in 1 .. LastRoute + 1 /\ r + 1 \in 1 .. LastRoute + 1 /\ d \in Dest
    BY DEF Route
  <1>4. CASE RoutesDone(m)
    <2>1. /\ pc' = [pc EXCEPT ![m] = "done"] /\ at' = [at EXCEPT ![m] = LastRoute + 1]
          /\ normalized' = [normalized EXCEPT ![SourceOf[m]] = @ + 1]
      BY <1>4 DEF RoutesDone
    <2>2. LastRoute + 1 \in 1 .. LastRoute + 1 /\ SourceOf[m] \in Source
      OBVIOUS
    <2>3. pc' \in [Msg -> {"new", "capturing", "routing"} \cup AtSender \cup Ended]
      BY <1>1, <2>1 DEF TypeOK, Ended
    <2>4. at' \in [Msg -> 1 .. LastRoute + 1] /\ normalized' \in [Source -> Nat]
      BY <1>1, <2>1, <2>2 DEF TypeOK
    <2>5. QED
      BY <1>1, <1>4, <2>3, <2>4 DEF RoutesDone, TypeOK, stats, lock, socket, shutdown
  <1>5. CASE TranslateFails(m)
    <2>1. /\ matched' = [matched EXCEPT ![r] = @ + 1]
          /\ sendErrors' = [sendErrors EXCEPT ![r] = @ + 1]
          /\ at' = [at EXCEPT ![m] = r + 1] /\ Wanted(m) # {}
      BY <1>5 DEF TranslateFails, r
    <2>2. matched' \in [Route -> Nat] /\ sendErrors' \in [Route -> Nat]
          /\ at' \in [Msg -> 1 .. LastRoute + 1]
      <3>1. r \in Route /\ r + 1 \in 1 .. LastRoute + 1
        BY <1>2, <1>3, <2>1
      <3>2. /\ matched \in [Route -> Nat] /\ sendErrors \in [Route -> Nat]
            /\ at \in [Msg -> 1 .. LastRoute + 1]
        BY <1>1 DEF TypeOK
      <3>3. matched' \in [Route -> Nat] /\ sendErrors' \in [Route -> Nat]
        BY <2>1, <3>1, <3>2
      <3>4. at' \in [Msg -> 1 .. LastRoute + 1]
        BY <2>1, <3>1, <3>2
      <3>5. QED
        BY <3>3, <3>4
    <2>3. QED
      BY <1>1, <1>5, <2>2 DEF TranslateFails, TypeOK, listener, lock, socket, shutdown
  <1>6. CASE Dispatch(m)
    <2>1. /\ matched' = [matched EXCEPT ![r] = @ + 1]
          /\ at' = [at EXCEPT ![m] = r]
          /\ senders' \in {senders, Append(senders, d)}
          /\ pc' = [pc EXCEPT ![m] = IF d \in TcpDest THEN "waiting" ELSE "sending"]
          /\ waiter' = IF d \in TcpDest THEN [waiter EXCEPT ![d] = Append(@, m)] ELSE waiter
          /\ Wanted(m) # {}
      BY <1>6 DEF Dispatch, r
    <2> HIDE DEF d
    <2>2. waiter' \in [TcpDest -> Seq(Msg \cup {Closer})]
      <3>1. d \in TcpDest => Append(waiter[d], m) \in Seq(Msg \cup {Closer})
        BY <1>1, QueueAppend DEF TypeOK
      <3>2. QED
        BY <1>1, <2>1, <3>1 DEF TypeOK
    <2>3. senders' \in Seq(Dest)
      <3>1. senders \in Seq(Dest) /\ d \in Dest
        BY <1>1, <1>2, <1>3, <2>1 DEF TypeOK
      <3>2. Append(senders, d) \in Seq(Dest)
        BY <3>1, QueueAppend
      <3>3. QED
        BY <2>1, <3>1, <3>2
    <2>4. matched' \in [Route -> Nat] /\ at' \in [Msg -> 1 .. LastRoute + 1]
      <3>1. r \in Route /\ r \in 1 .. LastRoute + 1
        BY <1>2, <1>3, <2>1
      <3>2. matched' = [matched EXCEPT ![r] = @ + 1] /\ at' = [at EXCEPT ![m] = r]
        BY <2>1
      <3>3. QED
        BY <1>1, <3>1, <3>2 DEF TypeOK
    <2>5. pc' \in [Msg -> {"new", "capturing", "routing"} \cup AtSender \cup Ended]
      BY <1>1, <2>1 DEF AtSender, TypeOK
    <2>6. QED
      BY <1>1, <1>6, <2>2, <2>3, <2>4, <2>5 DEF Dispatch, TypeOK, listener, socket, shutdown
  <1>7. QED
    BY <1>4, <1>5, <1>6

(* and so does a step of a sender, *)
LEMMA SenderType ==
    ASSUME IInv, NEW m \in Msg,
           \/ SendDatagram(m) \/ Acquire(m) \/ Connect(m) \/ ConnectFails(m)
           \/ Write(m) \/ Drain(m) \/ WriteFails(m)
    PROVE  TypeOK'
  <1> USE DEF IInv, TypeOK, GoTo
  <1>1. CASE SendDatagram(m)
    BY <1>1, ToNextRouteType DEF SendDatagram, SendDone, SendFails
  <1>2. CASE Acquire(m)
    <2> DEFINE d == DestAt(m)
    <2>1. pc[m] = "waiting" /\ d \in TcpDest /\ InQueue(waiter[d], m)
      BY <1>2 DEF Acquire, PlaceInv, LockInv
    <2>2. waiter[d] \in Seq(Msg \cup {Closer})
      BY <2>1
    <2>3. Tail(waiter[d]) \in Seq(Msg \cup {Closer})
      BY <2>1, <2>2, QueueTail
    <2>4. QED
      BY <1>2, <2>1, <2>3 DEF Acquire, AtSender, listener, stats, socket, shutdown
  <1>3. CASE Connect(m)
    <2>1. DestAt(m) \in TcpDest
      BY <1>3 DEF Connect, PlaceInv, Locking
    <2>2. live' \in [TcpDest -> Nat] /\ pending' \in [TcpDest -> Nat]
      BY <1>3, <2>1 DEF Connect
    <2>3. writer' \in [TcpDest -> {"none", "open", "closing"}]
      BY <1>3, <2>1 DEF Connect
    <2>4. QED
      BY <1>3, <2>2, <2>3 DEF Connect, AtSender, listener, stats, lock, shutdown
  <1>4. CASE ConnectFails(m)
    BY <1>4, ToNextRouteType DEF ConnectFails, SendFails, Locking
  <1>5. CASE Write(m)
    <2>1. DestAt(m) \in TcpDest
      BY <1>5 DEF Write, PlaceInv, Locking
    <2>2. pending' \in [TcpDest -> Nat]
      BY <1>5, <2>1 DEF Write
    <2>3. QED
      BY <1>5, <2>2 DEF Write, AtSender, listener, stats, lock, shutdown
  <1>6. CASE Drain(m)
    BY <1>6, ToNextRouteType DEF Drain, SendDone, Locking
  <1>7. CASE WriteFails(m)
    BY <1>7, ToNextRouteType DEF WriteFails, SendFails, Locking
  <1>8. QED
    BY <1>1, <1>2, <1>3, <1>4, <1>5, <1>6, <1>7

(* and a peer's, the operator's or the shutdown's. *)
LEMMA OtherType ==
    ASSUME IInv,
           \/ \E d \in TcpDest : PeerReads(d) \/ Break(d)
           \/ \E r \in Route : Toggle(r)
           \/ Shutdown \/ Close
    PROVE  TypeOK'
  <1> USE DEF IInv, TypeOK
  <1>1. ASSUME NEW d \in TcpDest, PeerReads(d) PROVE TypeOK'
    <2>1. pending' \in [TcpDest -> Nat]
      BY <1>1 DEF PeerReads
    <2>2. QED
      BY <1>1, <2>1 DEF PeerReads, listener, stats, lock, shutdown
  <1>2. ASSUME NEW d \in TcpDest, Break(d) PROVE TypeOK'
    <2>1. live[d] = 1
      BY <1>2 DEF Break, ConnectInv, OneConnection
    <2>2. pending' \in [TcpDest -> Nat] /\ live' \in [TcpDest -> Nat]
      BY <1>2, <2>1 DEF Break
    <2>3. QED
      BY <1>2, <2>2 DEF Break, listener, stats, lock, shutdown
  <1>3. ASSUME NEW r \in Route, Toggle(r) PROVE TypeOK'
    BY <1>3 DEF Toggle, listener, stats, lock, socket, shutdown
  <1>4. CASE Shutdown
    BY <1>4 DEF Shutdown, listener, stats, lock, socket
  <1>5. CASE CloseNext
    <2> DEFINE d == senders[closing[1]]
    <2>1. d \in TcpDest => Append(waiter[d], Closer) \in Seq(Msg \cup {Closer})
      BY QueueAppend
    <2>2. waiter' \in [TcpDest -> Seq(Msg \cup {Closer})]
      BY <1>5, <2>1 DEF CloseNext
    <2>3. closing' \in Nat \X Nat
      BY <1>5 DEF CloseNext
    <2>4. engine' \in {"closing", "locking"}
      BY <1>5 DEF CloseNext
    <2>5. QED
      BY <1>5, <2>2, <2>3, <2>4 DEF CloseNext, listener, stats, socket
  <1>6. CASE CloseEnds
    BY <1>6 DEF CloseEnds, listener, stats, lock, socket
  <1>7. CASE CloserAcquires
    <2> DEFINE d == senders[closing[1]]
    <2>1. d \in TcpDest /\ InQueue(waiter[d], Closer)
      BY <1>7 DEF CloserAcquires, CloseInv
    <2>2. waiter[d] \in Seq(Msg \cup {Closer})
      BY <2>1
    <2>3. Tail(waiter[d]) \in Seq(Msg \cup {Closer})
      BY <2>1, <2>2, QueueTail
    <2>4. QED
      BY <1>7, <2>1, <2>3 DEF CloserAcquires, listener, stats, socket
  <1>8. CASE Flushed
    <2> DEFINE d == senders[closing[1]]
    <2>1. d \in TcpDest /\ (writer[d] = "open" => live[d] = 1)
      BY <1>8 DEF Flushed, CloseInv, ConnectInv, OneConnection
    <2>2. live' \in [TcpDest -> Nat] /\ writer' \in [TcpDest -> {"none", "open", "closing"}]
      BY <1>8, <2>1 DEF Flushed
    <2>3. closing' \in Nat \X Nat /\ holder' \in [TcpDest -> Msg \cup {Closer, 0}]
      BY <1>8, <2>1 DEF Flushed
    <2>4. QED
      BY <1>8, <2>2, <2>3 DEF Flushed, listener, stats
  <1>9. QED
    BY <1>1, <1>2, <1>3, <1>4, <1>5, <1>6, <1>7, <1>8 DEF Close

-----------------------------------------------------------------------------
(* Steps.  What happens outside the senders does not touch the locks. *)
LEMMA OutsideInvariant ==
    ASSUME IInv, NEW m \in Msg,
           \/ Receive(m) \/ FrameFails(m) \/ Captured(m) \/ NormalizeFails(m)
           \/ Raise(m) \/ RoutesDone(m) \/ TranslateFails(m) \/ SendDatagram(m)
    PROVE  IInv'
  <1> USE DEF listener, stats, lock, socket, shutdown
  <1>1. TypeOK /\ TypeOK'
    BY ListenerType, RoutingType, SenderType DEF IInv
  <1>2. /\ UNCHANGED <<senders, lock, shutdown>> /\ UNCHANGED <<writer, live>>
        /\ \A n \in Msg : \/ pc'[n] = pc[n] /\ at'[n] = at[n]
                          \/ /\ pc[n] \notin {"waiting"} \cup Locking
                             /\ pc'[n] \notin AtSender
                             /\ pc'[n] = "done" => at'[n] = LastRoute + 1
    <2> USE <1>1 DEF TypeOK, Locking, AtSender
    <2>1. CASE Receive(m)
      BY <2>1 DEF Receive, Arrives
    <2>2. CASE FrameFails(m)
      BY <2>2 DEF FrameFails, Arrives
    <2>3. CASE Captured(m)
      BY <2>3 DEF Captured
    <2>4. CASE NormalizeFails(m)
      BY <2>4 DEF NormalizeFails
    <2>5. CASE Raise(m)
      BY <2>5 DEF Raise
    <2>6. CASE RoutesDone(m)
      BY <2>6 DEF RoutesDone
    <2>7. CASE TranslateFails(m)
      BY <2>7 DEF TranslateFails
    <2>8. CASE SendDatagram(m)
      <3>1. DestOf[at[m]] \notin TcpDest
        BY <2>8 DEF SendDatagram, IInv, PlaceInv, DestAt
      <3>2. QED
        BY <2>8, <3>1 DEF SendDatagram, SendDone, SendFails, ToNextRoute, Unlock
    <2>9. QED
      BY <2>1, <2>2, <2>3, <2>4, <2>5, <2>6, <2>7, <2>8
  <1>3. QED
    BY <1>1, <1>2, SameLocks

LEMMA EnvironmentInvariant ==
    ASSUME IInv, \/ \E d \in TcpDest : PeerReads(d) \/ Break(d)
                 \/ \E r \in Route : Toggle(r)
    PROVE  IInv'
  <1> USE DEF listener, stats, lock, socket, shutdown
  <1>1. TypeOK /\ TypeOK'
    BY OtherType DEF IInv
  <1>2. /\ UNCHANGED <<senders, lock, shutdown>>
        /\ UNCHANGED <<pc, at>>
    BY DEF PeerReads, Break, Toggle
  <1>3. UNCHANGED <<writer, live>> \/ ConnectInv'
    <2>1. ASSUME NEW d \in TcpDest, Break(d) PROVE ConnectInv'
      <3>1. /\ pc' = pc /\ at' = at /\ writer' = [writer EXCEPT ![d] = "closing"]
            /\ live[d] = 1 /\ live' = [live EXCEPT ![d] = @ - 1]
        BY <2>1 DEF Break, IInv, ConnectInv, OneConnection
      <3>2. ASSUME NEW e \in TcpDest
            PROVE  live'[e] = IF writer'[e] = "open" THEN 1 ELSE 0
        <4>1. live[e] = IF writer[e] = "open" THEN 1 ELSE 0
          BY DEF IInv, ConnectInv, OneConnection
        <4>2. CASE e = d
          BY <1>1, <3>1, <4>2 DEF TypeOK
        <4>3. CASE e # d
          BY <1>1, <3>1, <4>1, <4>3 DEF TypeOK
        <4>4. QED
          BY <4>2, <4>3
      <3>3. \A e \in TcpDest : writer[e] # "open" => writer'[e] # "open"
        BY <1>1, <3>1 DEF TypeOK
      <3>4. \A m \in Msg : pc[m] = "connecting" => DestAt(m) \in TcpDest
        BY DEF IInv, PlaceInv, Locking
      <3>5. QED
        BY <3>1, <3>2, <3>3, <3>4 DEF IInv, ConnectInv, OneConnection, DestAt
    <2>2. QED
      BY <2>1 DEF PeerReads, Toggle
  <1>4. QED
    BY <1>1, <1>2, <1>3, SameLocks

(* A message joins the queue of its sender. *)
LEMMA DispatchInvariant ==
    ASSUME IInv, NEW m \in Msg, Dispatch(m) PROVE IInv'
  <1> DEFINE r == Min(Wanted(m))
             d == DestOf[r]
  <1>1. TypeOK /\ TypeOK'
    BY RoutingType DEF IInv
  <1>2. r \in Route
    BY <1>1, NextRoute DEF Dispatch
  <1> HIDE DEF r
  <1>3. /\ at' = [at EXCEPT ![m] = r] /\ pc[m] = "routing"
        /\ senders' \in {senders, Append(senders, d)}
        /\ pc' = [pc EXCEPT ![m] = IF d \in TcpDest THEN "waiting" ELSE "sending"]
        /\ waiter' = IF d \in TcpDest THEN [waiter EXCEPT ![d] = Append(@, m)] ELSE waiter
        /\ UNCHANGED <<holder, writer, live, engine, closing>>
    BY DEF Dispatch, r, socket, shutdown
  <1>4. /\ pc'[m] = IF d \in TcpDest THEN "waiting" ELSE "sending"
        /\ at'[m] = r /\ DestAt(m)' = d
        /\ \A n \in Msg \ {m} : pc'[n] = pc[n] /\ at'[n] = at[n] /\ DestAt(n)' = DestAt(n)
    BY <1>1, <1>3 DEF TypeOK, DestAt
  <1>5. PlaceInv'
    BY <1>2, <1>4, <1>1 DEF IInv, PlaceInv, Locking
  <1>6. ASSUME NEW e \in TcpDest
        PROVE  /\ \A y : InQueue(waiter[e], y) => InQueue(waiter'[e], y)
               /\ e = d => InQueue(waiter'[e], m)
    <2>1. waiter[e] \in Seq(Msg \cup {Closer})
      BY <1>1 DEF TypeOK
    <2>2. waiter'[e] = IF e = d THEN Append(waiter[e], m) ELSE waiter[e]
      BY <1>1, <1>3 DEF TypeOK
    <2>3. QED
      BY <2>1, <2>2, QueueAppend
  <1>7. LockInv'
    <2>1. \A n \in Msg : pc'[n] = "waiting" => InQueue(waiter'[DestAt(n)'], n)
      BY <1>4, <1>6 DEF IInv, LockInv, PlaceInv
    <2>2. \A n \in Msg : pc'[n] \in Locking => holder'[DestAt(n)'] = n
      BY <1>3, <1>4 DEF IInv, LockInv, Locking
    <2>3. \A n \in Msg : \A e \in TcpDest :
            holder'[e] = n => pc'[n] \in Locking /\ DestAt(n)' = e
      BY <1>3, <1>4 DEF IInv, LockInv, Locking
    <2>4. QED
      BY <2>1, <2>2, <2>3 DEF LockInv
  <1>8. CloseInv'
    <2>1. ASSUME NEW i \in 1 .. Len(senders)
          PROVE  i \in 1 .. Len(senders') /\ senders'[i] = senders[i]
      <3>1. senders \in Seq(Dest) /\ d \in Dest
        BY <1>1, <1>2 DEF TypeOK
      <3>2. QED
        BY <1>3, <3>1
    <2>2. QED
      BY <1>3, <1>6, <2>1 DEF IInv, CloseInv
  <1>9. ConnectInv'
    BY <1>3, <1>4 DEF IInv, ConnectInv, OneConnection
  <1>10. QED
    BY <1>1, <1>5, <1>7, <1>8, <1>9 DEF IInv

(* A message takes the lock of its sender. *)
LEMMA AcquireInvariant ==
    ASSUME IInv, NEW m \in Msg, Acquire(m) PROVE IInv'
  <1> DEFINE d == DestAt(m)
  <1>1. TypeOK /\ TypeOK'
    BY SenderType DEF IInv
  <1>2. d \in TcpDest /\ InQueue(waiter[d], m) /\ pc[m] = "waiting" /\ at[m] \in Route
    BY DEF Acquire, IInv, PlaceInv, LockInv
  <1>3. /\ pc' = [pc EXCEPT ![m] = IF writer[d] = "open" THEN "writing" ELSE "connecting"]
        /\ holder[d] = 0 /\ Head(waiter[d]) = m
        /\ waiter' = [waiter EXCEPT ![d] = Tail(@)]
        /\ holder' = [holder EXCEPT ![d] = m]
        /\ UNCHANGED <<at, senders, writer, live, engine, closing>>
    BY DEF Acquire, GoTo, socket, shutdown
  <1> HIDE DEF d
  <1>4. /\ pc'[m] \in Locking
        /\ pc'[m] = "connecting" => writer[d] # "open"
        /\ \A n \in Msg \ {m} : pc'[n] = pc[n]
        /\ \A n \in Msg : DestAt(n)' = DestAt(n) /\ at'[n] = at[n]
    BY <1>1, <1>3 DEF TypeOK, DestAt, Locking
  <1>5. DestAt(m) = d
    BY DEF d
  <1>6. PlaceInv'
    BY <1>2, <1>4, <1>5 DEF IInv, PlaceInv, Locking
  <1>7. ASSUME NEW e \in TcpDest, NEW y, InQueue(waiter[e], y), y # m
        PROVE  InQueue(waiter'[e], y)
    <2>1. waiter[e] \in Seq(Msg \cup {Closer})
      BY <1>1 DEF TypeOK
    <2>2. waiter'[e] = IF e = d THEN Tail(waiter[e]) ELSE waiter[e]
      BY <1>1, <1>3 DEF TypeOK
    <2>3. QED
      BY <1>3, <1>7, <2>1, <2>2, QueueTail
  <1>8. LockInv'
    <2>1. \A n \in Msg : pc'[n] = "waiting" => InQueue(waiter'[DestAt(n)'], n)
      BY <1>4, <1>7 DEF IInv, LockInv, PlaceInv, Locking
    <2>2. \A n \in Msg : pc[n] \in Locking => DestAt(n) # d
      BY <1>1, <1>2, <1>3, 0 \notin Msg DEF IInv, LockInv, PlaceInv, Msg
    <2>3. \A e \in TcpDest : holder'[e] = IF e = d THEN m ELSE holder[e]
      BY <1>1, <1>3 DEF TypeOK
    <2>4. \A n \in Msg : pc'[n] \in Locking => holder'[DestAt(n)'] = n
      BY <1>2, <1>4, <1>5, <2>2, <2>3 DEF IInv, LockInv, PlaceInv
    <2>5. \A n \in Msg : \A e \in TcpDest :
            holder'[e] = n => pc'[n] \in Locking /\ DestAt(n)' = e
      <3>1. pc[m] \notin Locking
        BY <1>2 DEF Locking
      <3>2. QED
        BY <1>2, <1>4, <1>5, <2>3, <3>1 DEF IInv, LockInv
    <2>6. QED
      BY <2>1, <2>4, <2>5 DEF LockInv
  <1>9. CloseInv'
    <2>1. engine = "flushing" => senders[closing[1]] # d
      BY <1>3 DEF IInv, CloseInv
    <2>2. Closer # m
      OBVIOUS
    <2>3. QED
      BY <1>1, <1>2, <1>3, <1>7, <2>1, <2>2 DEF IInv, CloseInv, TypeOK
  <1>10. ConnectInv'
    BY <1>3, <1>4, <1>5 DEF IInv, ConnectInv, OneConnection
  <1>11. QED
    BY <1>1, <1>6, <1>8, <1>9, <1>10 DEF IInv

(* Under the lock: a connection is opened, or a message is written. *)
LEMMA HoldInvariant ==
    ASSUME IInv, NEW m \in Msg, Connect(m) \/ Write(m) PROVE IInv'
  <1> DEFINE d == DestAt(m)
  <1>1. TypeOK /\ TypeOK'
    BY SenderType DEF IInv
  <1>2. pc[m] \in Locking /\ at[m] \in Route /\ d \in TcpDest /\ holder[d] = m
    BY DEF Connect, Write, IInv, PlaceInv, LockInv, Locking
  <1>3. PICK step \in {"writing", "draining"} :
            /\ pc' = [pc EXCEPT ![m] = step]
            /\ UNCHANGED <<at, senders, holder, waiter, engine, closing>>
    BY DEF Connect, Write, GoTo, lock, shutdown
  <1>4. /\ pc'[m] \in {"writing", "draining"} /\ \A n \in Msg \ {m} : pc'[n] = pc[n]
        /\ \A n \in Msg : DestAt(n)' = DestAt(n) /\ at'[n] = at[n]
    BY <1>1, <1>3 DEF TypeOK, DestAt
  <1>5. PlaceInv'
    BY <1>2, <1>4 DEF IInv, PlaceInv, Locking
  <1>6. LockInv'
    BY <1>2, <1>3, <1>4 DEF IInv, LockInv, Locking
  <1>7. CloseInv'
    BY <1>3 DEF IInv, CloseInv
  <1>8. ConnectInv'
    <2>1. CASE Connect(m)
      <3>1. writer[d] # "open" /\ live[d] = 0
        BY <1>2, <2>1 DEF Connect, IInv, ConnectInv, OneConnection
      <3>2. \A e \in TcpDest : /\ writer'[e] = IF e = d THEN "open" ELSE writer[e]
                               /\ live'[e] = IF e = d THEN 1 ELSE live[e]
        BY <1>1, <2>1, <3>1 DEF Connect, TypeOK
      <3>3. OneConnection'
        BY <3>2 DEF IInv, ConnectInv, OneConnection
      <3>4. \A n \in Msg : pc'[n] = "connecting" => DestAt(n) \in TcpDest /\ DestAt(n) # d
        BY <1>2, <1>4 DEF IInv, PlaceInv, LockInv, Locking
      <3>5. QED
        BY <1>4, <3>2, <3>3, <3>4 DEF IInv, ConnectInv
    <2>2. CASE Write(m)
      BY <1>4, <2>2 DEF Write, IInv, ConnectInv, OneConnection
    <2>3. QED
      BY <2>1, <2>2
  <1>9. QED
    BY <1>1, <1>5, <1>6, <1>7, <1>8 DEF IInv

(* A message leaves its sender, sent or not, and gives the lock back. *)
LEMMA ReleaseInvariant ==
    ASSUME IInv, NEW m \in Msg, ConnectFails(m) \/ Drain(m) \/ WriteFails(m)
    PROVE  IInv'
  <1> DEFINE d == DestAt(m)
  <1>1. TypeOK /\ TypeOK'
    BY SenderType DEF IInv
  <1>2. pc[m] \in Locking /\ d \in TcpDest /\ holder[d] = m
    BY DEF ConnectFails, Drain, WriteFails, IInv, PlaceInv, LockInv, Locking
  <1>3. /\ pc' = [pc EXCEPT ![m] = "routing"] /\ at' = [at EXCEPT ![m] = @ + 1]
        /\ holder' = [holder EXCEPT ![d] = 0]
        /\ UNCHANGED <<senders, waiter, writer, live, engine, closing>>
    BY <1>2 DEF ConnectFails, Drain, WriteFails, SendDone, SendFails, ToNextRoute,
                Unlock, DestAt, socket, shutdown
  <1>4. /\ pc'[m] = "routing"
        /\ \A n \in Msg \ {m} : pc'[n] = pc[n] /\ DestAt(n)' = DestAt(n) /\ at'[n] = at[n]
    BY <1>1, <1>3 DEF TypeOK, DestAt
  <1>5. PlaceInv'
    <2>1. at'[m] \in 1 .. LastRoute + 1
      BY <1>1 DEF TypeOK
    <2>2. \A n \in Msg \ {m} :
              /\ pc'[n] \in {"waiting"} \cup Locking => at'[n] \in Route /\ DestAt(n)' \in TcpDest
              /\ pc'[n] = "sending" => at'[n] \in Route /\ DestAt(n)' \notin TcpDest
              /\ pc'[n] = "routing" => at'[n] \in 1 .. LastRoute + 1
              /\ pc'[n] = "done" => at'[n] = LastRoute + 1
      BY <1>4 DEF IInv, PlaceInv
    <2>3. QED
      BY <1>4, <2>1, <2>2 DEF PlaceInv, Locking
  <1>6. \A e \in TcpDest : holder'[e] = IF e = d THEN 0 ELSE holder[e]
    BY <1>1, <1>3 DEF TypeOK
  <1>7. LockInv'
    <2>1. \A n \in Msg \ {m} : pc[n] \in Locking => DestAt(n) # d
      BY <1>2 DEF IInv, LockInv
    <2>2. \A n \in Msg : pc'[n] = "waiting" => InQueue(waiter'[DestAt(n)'], n)
      BY <1>3, <1>4 DEF IInv, LockInv
    <2>3. \A n \in Msg : pc'[n] \in Locking => holder'[DestAt(n)'] = n
      BY <1>4, <1>6, <2>1 DEF IInv, LockInv, PlaceInv, Locking
    <2>4. ASSUME NEW n \in Msg, NEW e \in TcpDest, holder'[e] = n
          PROVE  pc'[n] \in Locking /\ DestAt(n)' = e
      <3>1. n # 0
        BY 0 \notin Msg DEF Msg
      <3>2. e # d /\ holder[e] = n
        BY <1>6, <2>4, <3>1
      <3>3. pc[n] \in Locking /\ DestAt(n) = e
        BY <3>2 DEF IInv, LockInv
      <3>4. QED
        BY <1>4, <3>2, <3>3
    <2>5. QED
      BY <2>2, <2>3, <2>4 DEF LockInv
  <1>8. CloseInv'
    <2>1. engine = "flushing" => senders[closing[1]] # d
      BY <1>2 DEF IInv, CloseInv
    <2>2. QED
      BY <1>3, <1>6, <2>1 DEF IInv, CloseInv
  <1>9. ConnectInv'
    BY <1>3, <1>4 DEF IInv, ConnectInv, OneConnection
  <1>10. QED
    BY <1>1, <1>5, <1>7, <1>8, <1>9 DEF IInv

(* The shutdown: the closer queues for a lock as a message does, *)
LEMMA ShutdownInvariant ==
    ASSUME IInv, Shutdown \/ CloseNext \/ CloseEnds PROVE IInv'
  <1> USE DEF socket, lock
  <1>1. TypeOK /\ TypeOK'
    BY OtherType DEF IInv, Close
  <1>2. /\ UNCHANGED <<pc, at, senders, holder, writer, live>>
        /\ \A m \in Msg : DestAt(m)' = DestAt(m)
    BY DEF Shutdown, CloseNext, CloseEnds, DestAt
  <1>3. ASSUME NEW e \in TcpDest, NEW y, InQueue(waiter[e], y)
        PROVE  InQueue(waiter'[e], y)
    <2>1. CASE Shutdown \/ CloseEnds
      BY <1>3, <2>1 DEF Shutdown, CloseEnds
    <2>2. CASE CloseNext
      <3> DEFINE d == senders[closing[1]]
      <3>1. waiter[e] \in Seq(Msg \cup {Closer})
        BY <1>1 DEF TypeOK
      <3>2. waiter'[e] = waiter[e] \/ waiter'[e] = Append(waiter[e], Closer)
        <4>1. waiter' = waiter \/ waiter' = [waiter EXCEPT ![d] = Append(@, Closer)]
          BY <2>2 DEF CloseNext
        <4> HIDE DEF d
        <4>2. CASE e = d
          BY <1>1, <4>1, <4>2 DEF TypeOK
        <4>3. CASE e # d
          BY <1>1, <4>1, <4>3 DEF TypeOK
        <4>4. QED
          BY <4>2, <4>3
      <3>3. InQueue(Append(waiter[e], Closer), y)
        BY <1>3, <3>1, Closer \in Msg \cup {Closer}, QueueAppend
      <3>4. QED
        BY <1>3, <3>2, <3>3
    <2>3. QED
      BY <2>1, <2>2
  <1>4. PlaceInv'
    BY <1>2 DEF IInv, PlaceInv
  <1>5. LockInv'
    <2>1. \A m \in Msg : pc[m] = "waiting" => InQueue(waiter'[DestAt(m)], m)
      BY <1>3 DEF IInv, LockInv, PlaceInv
    <2>2. QED
      BY <1>2, <2>1 DEF IInv, LockInv
  <1>6. ConnectInv'
    BY <1>2 DEF IInv, ConnectInv, OneConnection
  <1>7. CloseInv'
    <2>1. CASE Shutdown
      BY <1>1, <2>1 DEF Shutdown, CloseInv
    <2>2. CASE CloseEnds
      BY <2>2 DEF CloseEnds, CloseInv
    <2>3. CASE CloseNext
      <3> DEFINE d == senders[closing[1]]
      <3>1. closing[1] \in 1 .. Len(senders) /\ closing \in Nat \X Nat
        BY <1>1, <2>3 DEF CloseNext, IInv, CloseInv, TypeOK
      <3>2. CASE d \in TcpDest
        <4>1. waiter[d] \in Seq(Msg \cup {Closer}) /\ waiter'[d] = Append(waiter[d], Closer)
          BY <1>1, <2>3, <3>2 DEF CloseNext, TypeOK
        <4>2. InQueue(waiter'[d], Closer)
          BY <4>1, QueueAppend
        <4>3. engine' = "locking" /\ UNCHANGED <<senders, closing>>
          BY <2>3, <3>2 DEF CloseNext
        <4>4. QED
          BY <3>1, <3>2, <4>2, <4>3 DEF CloseInv
      <3>3. CASE d \notin TcpDest
        <4>1. engine' = "closing" /\ closing' = <<closing[1] + 1, closing[2]>>
          BY <2>3, <3>3 DEF CloseNext
        <4>2. QED
          BY <3>1, <4>1 DEF CloseInv
      <3>4. QED
        BY <3>2, <3>3
    <2>4. QED
      BY <2>1, <2>2, <2>3
  <1>8. QED
    BY <1>1, <1>4, <1>5, <1>6, <1>7 DEF IInv

(* takes it when its turn has come, *)
LEMMA CloserAcquiresInvariant ==
    ASSUME IInv, CloserAcquires PROVE IInv'
  <1> DEFINE d == senders[closing[1]]
  <1>1. TypeOK /\ TypeOK'
    BY OtherType DEF IInv, Close
  <1>2. /\ d \in TcpDest /\ InQueue(waiter[d], Closer) /\ closing[1] \in 1 .. Len(senders)
        /\ holder[d] = 0 /\ Head(waiter[d]) = Closer
    BY DEF CloserAcquires, IInv, CloseInv
  <1>3. /\ waiter' = [waiter EXCEPT ![d] = Tail(@)]
        /\ holder' = [holder EXCEPT ![d] = Closer] /\ engine' = "flushing"
        /\ UNCHANGED <<pc, at, senders, writer, live, closing>>
        /\ \A m \in Msg : DestAt(m)' = DestAt(m)
    BY DEF CloserAcquires, socket, DestAt
  <1>4. ASSUME NEW e \in TcpDest, NEW y, InQueue(waiter[e], y), y # Closer
        PROVE  InQueue(waiter'[e], y)
    <2>1. waiter[e] \in Seq(Msg \cup {Closer})
      BY <1>1 DEF TypeOK
    <2>2. waiter'[e] = IF e = d THEN Tail(waiter[e]) ELSE waiter[e]
      BY <1>1, <1>3 DEF TypeOK
    <2>3. QED
      BY <1>2, <1>4, <2>1, <2>2, QueueTail
  <1>5. \A e \in TcpDest : holder'[e] = IF e = d THEN Closer ELSE holder[e]
    BY <1>1, <1>3 DEF TypeOK
  <1>6. PlaceInv'
    BY <1>3 DEF IInv, PlaceInv
  <1>7. LockInv'
    <2>1. \A m \in Msg : pc[m] \in Locking => DestAt(m) # d
      BY <1>2, 0 \notin Msg DEF IInv, LockInv, Msg
    <2>2. \A m \in Msg : pc'[m] = "waiting" => InQueue(waiter'[DestAt(m)'], m)
      BY <1>3, <1>4 DEF IInv, LockInv, PlaceInv
    <2>3. \A m \in Msg : pc'[m] \in Locking => holder'[DestAt(m)'] = m
      BY <1>3, <1>5, <2>1 DEF IInv, LockInv, PlaceInv
    <2>4. \A m \in Msg : \A e \in TcpDest :
            holder'[e] = m => pc'[m] \in Locking /\ DestAt(m)' = e
      BY <1>3, <1>5 DEF IInv, LockInv
    <2>5. QED
      BY <2>2, <2>3, <2>4 DEF LockInv
  <1>8. ConnectInv'
    BY <1>3 DEF IInv, ConnectInv, OneConnection
  <1>9. CloseInv'
    BY <1>2, <1>3, <1>5 DEF CloseInv
  <1>10. QED
    BY <1>1, <1>6, <1>7, <1>8, <1>9 DEF IInv

(* and gives it back once what was written is flushed. *)
LEMMA FlushedInvariant ==
    ASSUME IInv, Flushed PROVE IInv'
  <1> DEFINE d == senders[closing[1]]
  <1>1. TypeOK /\ TypeOK'
    BY OtherType DEF IInv, Close
  <1>2. d \in TcpDest /\ holder[d] = Closer /\ closing[1] \in 1 .. Len(senders)
    BY DEF Flushed, IInv, CloseInv
  <1>3. /\ holder' = [holder EXCEPT ![d] = 0] /\ engine' = "closing"
        /\ closing' = <<closing[1] + 1, closing[2]>>
        /\ UNCHANGED <<pc, at, senders, waiter>>
        /\ \A m \in Msg : DestAt(m)' = DestAt(m)
    BY DEF Flushed, DestAt
  <1>4. \A e \in TcpDest : holder'[e] = IF e = d THEN 0 ELSE holder[e]
    BY <1>1, <1>3 DEF TypeOK
  <1>5. PlaceInv'
    BY <1>3 DEF IInv, PlaceInv
  <1>6. \A m \in Msg : pc[m] \in Locking => DestAt(m) # d
    BY <1>2 DEF IInv, LockInv
  <1>7. LockInv'
    <2>1. \A m \in Msg : pc'[m] = "waiting" => InQueue(waiter'[DestAt(m)'], m)
      BY <1>3 DEF IInv, LockInv
    <2>2. \A m \in Msg : pc'[m] \in Locking => holder'[DestAt(m)'] = m
      BY <1>3, <1>4, <1>6 DEF IInv, LockInv, PlaceInv
    <2>3. \A m \in Msg : \A e \in TcpDest :
            holder'[e] = m => pc'[m] \in Locking /\ DestAt(m)' = e
      BY <1>3, <1>4, 0 \notin Msg DEF IInv, LockInv, Msg
    <2>4. QED
      BY <2>1, <2>2, <2>3 DEF LockInv
  <1>8. ConnectInv'
    <2>1. ASSUME NEW e \in TcpDest
          PROVE  /\ live'[e] = IF writer'[e] = "open" THEN 1 ELSE 0
                 /\ writer[e] # "open" => writer'[e] # "open"
      <3>1. live[e] = IF writer[e] = "open" THEN 1 ELSE 0
        BY DEF IInv, ConnectInv, OneConnection
      <3>2. CASE e = d
        BY <1>1, <3>1, <3>2 DEF Flushed, TypeOK
      <3>3. CASE e # d
        BY <1>1, <3>1, <3>3 DEF Flushed, TypeOK
      <3>4. QED
        BY <3>2, <3>3
    <2>2. \A m \in Msg : pc[m] = "connecting" => DestAt(m) \in TcpDest
      BY DEF IInv, PlaceInv, Locking
    <2>3. QED
      BY <1>3, <2>1, <2>2 DEF IInv, ConnectInv, OneConnection
  <1>9. CloseInv'
    BY <1>1, <1>2, <1>3 DEF CloseInv, TypeOK
  <1>10. QED
    BY <1>1, <1>5, <1>7, <1>8, <1>9 DEF IInv

LEMMA NextInvariant == IInv /\ [Next]_vars => IInv'
  <1> SUFFICES ASSUME IInv, [Next]_vars PROVE IInv'
    OBVIOUS
  <1>1. ASSUME NEW m \in Msg, Receive(m) \/ FrameFails(m) \/ Step(m) PROVE IInv'
    BY <1>1, OutsideInvariant, DispatchInvariant, AcquireInvariant, HoldInvariant,
       ReleaseInvariant DEF Step
  <1>2. ASSUME NEW d \in TcpDest, PeerReads(d) \/ Break(d) PROVE IInv'
    BY <1>2, EnvironmentInvariant
  <1>3. ASSUME NEW r \in Route, Toggle(r) PROVE IInv'
    BY <1>3, EnvironmentInvariant
  <1>4. CASE Shutdown \/ Close
    BY <1>4, ShutdownInvariant, CloserAcquiresInvariant, FlushedInvariant DEF Close
  <1>5. CASE UNCHANGED vars
    BY <1>5 DEF vars, listener, stats, lock, socket, shutdown, IInv, TypeOK, PlaceInv,
                LockInv, CloseInv, ConnectInv, OneConnection, DestAt
  <1>6. QED
    BY <1>1, <1>2, <1>3, <1>4, <1>5 DEF Next

(* The inductive invariant holds in every state the gateway can reach. *)
THEOREM Invariance == Spec => []IInv
  BY InitInvariant, NextInvariant, PTL DEF Spec

(* Every variable of the gateway keeps its type. *)
THEOREM Typing == Spec => []TypeOK
  BY Invariance, PTL DEF IInv

(* A destination never has two connections, nor one that its sender forgot. *)
THEOREM NeverTwoConnections == Spec => []OneConnection
  BY Invariance, PTL DEF IInv, ConnectInv

-----------------------------------------------------------------------------
(* The bound on what a connection buffers.  Only the message that waits for *)
(* drain() can have filled the buffer past the limit; a buffer of what is   *)
(* not open is empty.                                                       *)
BufferInv ==
    \A d \in TcpDest :
        /\ writer[d] # "open" => pending[d] = 0
        /\ \/ pending[d] <= HighWater
           \/ /\ pending[d] = HighWater + 1
              /\ \E m \in Msg : holder[d] = m /\ pc[m] = "draining"

(* Steps that leave locks and connections alone leave the buffers alone. *)
LEMMA SameBuffers ==
    ASSUME BufferInv, UNCHANGED <<writer, holder, pending>>,
           \A m \in Msg : pc[m] = "draining" => pc'[m] = "draining"
    PROVE  BufferInv'
  BY DEF BufferInv

LEMMA NextBuffer == IInv /\ BufferInv /\ [Next]_vars => BufferInv'
  <1> SUFFICES ASSUME IInv, BufferInv, [Next]_vars PROVE BufferInv'
    OBVIOUS
  <1> USE DEF stats, lock, socket, shutdown
  <1>1. TypeOK /\ HighWater \in Nat /\ 0 \notin Msg
    BY DEF IInv, Msg
  <1>2. ASSUME NEW m \in Msg,
               \/ Receive(m) \/ FrameFails(m) \/ Captured(m) \/ NormalizeFails(m)
               \/ Raise(m) \/ RoutesDone(m) \/ TranslateFails(m) \/ Dispatch(m)
        PROVE  BufferInv'
    <2>1. UNCHANGED <<writer, holder, pending>> /\ pc[m] # "draining"
      BY <1>2 DEF Receive, FrameFails, Arrives, Captured, NormalizeFails, Raise,
                  RoutesDone, TranslateFails, Dispatch
    <2>2. \A n \in Msg \ {m} : pc'[n] = pc[n]
      BY <1>1, <1>2 DEF Receive, FrameFails, Captured, NormalizeFails, Raise,
                  RoutesDone, TranslateFails, Dispatch, TypeOK
    <2>3. QED
      BY <2>1, <2>2, SameBuffers
  <1>3. ASSUME NEW m \in Msg, SendDatagram(m) PROVE BufferInv'
    <2>1. pc[m] = "sending" /\ DestOf[at[m]] \notin TcpDest
      BY <1>3 DEF SendDatagram, IInv, PlaceInv, DestAt
    <2>2. UNCHANGED <<writer, holder, pending>> /\ pc' = [pc EXCEPT ![m] = "routing"]
      BY <1>3, <2>1 DEF SendDatagram, SendDone, SendFails, ToNextRoute, Unlock
    <2>3. \A n \in Msg : pc[n] = "draining" => pc'[n] = "draining"
      BY <1>1, <2>1, <2>2 DEF TypeOK
    <2>4. QED
      BY <2>2, <2>3, SameBuffers
  <1>4. ASSUME NEW m \in Msg, Acquire(m) PROVE BufferInv'
    <2>1. /\ holder[DestAt(m)] = 0 /\ pc[m] = "waiting"
          /\ holder' = [holder EXCEPT ![DestAt(m)] = m]
          /\ UNCHANGED <<writer, pending>>
          /\ \A n \in Msg \ {m} : pc'[n] = pc[n]
      BY <1>1, <1>4 DEF Acquire, GoTo, TypeOK
    <2>2. ASSUME NEW d \in TcpDest, d # DestAt(m) PROVE holder'[d] = holder[d]
      BY <1>1, <2>1, <2>2 DEF TypeOK
    <2>3. pending[DestAt(m)] <= HighWater \/ DestAt(m) \notin TcpDest
      BY <1>1, <2>1 DEF BufferInv
    <2>4. QED
      BY <2>1, <2>2, <2>3 DEF BufferInv
  <1>5. ASSUME NEW m \in Msg, Connect(m) \/ Write(m) PROVE BufferInv'
    <2> DEFINE d == DestAt(m)
    <2>1. d \in TcpDest /\ holder[d] = m /\ pc[m] \in {"connecting", "writing"}
      BY <1>5 DEF Connect, Write, IInv, PlaceInv, LockInv, Locking
    <2>2. pending[d] <= HighWater /\ pending[d] \in Nat
      BY <1>1, <2>1 DEF BufferInv, TypeOK
    <2>3. holder' = holder /\ \A n \in Msg \ {m} : pc'[n] = pc[n]
      BY <1>1, <1>5 DEF Connect, Write, GoTo, TypeOK
    <2>4. /\ pending'[d] <= HighWater \/ (pending'[d] = HighWater + 1 /\ pc'[m] = "draining")
          /\ writer'[d] = "open"
      BY <1>1, <1>5, <2>1, <2>2 DEF Connect, Write, GoTo, TypeOK
    <2>5. ASSUME NEW e \in TcpDest \ {d}
          PROVE  writer'[e] = writer[e] /\ pending'[e] = pending[e]
      BY <1>1, <1>5, <2>5 DEF Connect, Write, TypeOK
    <2>6. \A e \in TcpDest \ {d} : holder[e] # m
      BY DEF IInv, LockInv
    <2> HIDE DEF d
    <2>7. QED
      BY <2>1, <2>3, <2>4, <2>5, <2>6 DEF BufferInv
  <1>6. ASSUME NEW m \in Msg, ConnectFails(m) \/ Drain(m) \/ WriteFails(m) PROVE BufferInv'
    <2> DEFINE d == DestAt(m)
    <2>1. d \in TcpDest /\ holder[d] = m
      BY <1>6 DEF ConnectFails, Drain, WriteFails, IInv, PlaceInv, LockInv, Locking
    <2>2. pending[d] <= HighWater
      BY <1>1, <1>6, <2>1 DEF ConnectFails, Drain, WriteFails, BufferInv
    <2>3. /\ holder' = [holder EXCEPT ![d] = 0] /\ UNCHANGED <<writer, pending>>
          /\ \A n \in Msg \ {m} : pc'[n] = pc[n]
      BY <1>1, <1>6, <2>1 DEF ConnectFails, Drain, WriteFails, SendDone, SendFails,
                              ToNextRoute, Unlock, DestAt, TypeOK
    <2>4. \A e \in TcpDest \ {d} : holder'[e] = holder[e] /\ holder[e] # m
      BY <1>1, <2>3 DEF IInv, LockInv, TypeOK
    <2> HIDE DEF d
    <2>5. QED
      BY <2>2, <2>3, <2>4 DEF BufferInv
  <1>7. ASSUME NEW d \in TcpDest, PeerReads(d) \/ Break(d) PROVE BufferInv'
    <2>1. UNCHANGED <<pc, holder>>
      BY <1>7 DEF PeerReads, Break
    <2>2. /\ pending'[d] <= HighWater
          /\ writer'[d] # "open" => pending'[d] = 0
      <3>1. CASE PeerReads(d)
        <4>1. pending[d] \in Nat /\ (pending[d] <= HighWater \/ pending[d] = HighWater + 1)
          BY <1>1 DEF BufferInv, TypeOK
        <4>2. pending'[d] = pending[d] - 1 /\ writer' = writer /\ writer[d] = "open"
          BY <1>1, <3>1 DEF PeerReads, TypeOK
        <4>3. QED
          BY <1>1, <4>1, <4>2
      <3>2. CASE Break(d)
        BY <1>1, <3>2 DEF Break, TypeOK
      <3>3. QED
        BY <1>7, <3>1, <3>2
    <2>3. \A e \in TcpDest \ {d} : writer'[e] = writer[e] /\ pending'[e] = pending[e]
      BY <1>1, <1>7 DEF PeerReads, Break, TypeOK
    <2>4. QED
      BY <2>1, <2>2, <2>3 DEF BufferInv
  <1>8. ASSUME NEW r \in Route, Toggle(r) PROVE BufferInv'
    BY <1>8, SameBuffers DEF Toggle
  <1>9. CASE Shutdown \/ CloseNext \/ CloseEnds
    BY <1>9, SameBuffers DEF Shutdown, CloseNext, CloseEnds
  <1>10. CASE CloserAcquires
    <2> DEFINE d == senders[closing[1]]
    <2>1. /\ holder[d] = 0 /\ holder' = [holder EXCEPT ![d] = Closer]
          /\ UNCHANGED <<pc, writer, pending>>
      BY <1>10 DEF CloserAcquires
    <2> HIDE DEF d
    <2>2. \A e \in TcpDest : e = d \/ holder'[e] = holder[e]
      BY <1>1, <2>1 DEF TypeOK
    <2>3. \A m \in Msg : holder[d] # m
      BY <1>1, <2>1
    <2>4. QED
      BY <2>1, <2>2, <2>3 DEF BufferInv
  <1>11. CASE Flushed
    <2> DEFINE d == senders[closing[1]]
    <2>1. /\ holder' = [holder EXCEPT ![d] = 0] /\ writer' = [writer EXCEPT ![d] = "none"]
          /\ writer[d] = "open" => pending[d] = 0
          /\ UNCHANGED <<pc, pending>>
      BY <1>11 DEF Flushed
    <2> HIDE DEF d
    <2>2. \A e \in TcpDest : e = d \/ (holder'[e] = holder[e] /\ writer'[e] = writer[e])
      BY <1>1, <2>1 DEF TypeOK
    <2>3. d \in TcpDest => pending[d] = 0
      BY <2>1 DEF BufferInv
    <2>4. QED
      BY <1>1, <2>1, <2>2, <2>3 DEF BufferInv
  <1>12. CASE UNCHANGED vars
    BY <1>12, SameBuffers DEF vars
  <1>13. QED
    BY <1>2, <1>3, <1>4, <1>5, <1>6, <1>7, <1>8, <1>9, <1>10, <1>11, <1>12
       DEF Next, Step, Close

(* A peer that does not read costs the limit and one message, no more. *)
THEOREM BoundedBuffers == Spec => []BufferBounded
  <1>1. Init => BufferInv
    BY DEF Init, Zero, BufferInv
  <1>2. IInv /\ BufferInv => BufferBounded
    <2> SUFFICES ASSUME IInv, BufferInv, NEW d \in TcpDest PROVE pending[d] <= HighWater + 1
      BY DEF BufferBounded
    <2>1. pending[d] \in Nat /\ HighWater \in Nat
      BY DEF IInv, TypeOK
    <2>2. pending[d] <= HighWater \/ pending[d] = HighWater + 1
      BY DEF BufferInv
    <2>3. QED
      BY <2>1, <2>2
  <1>3. QED
    BY <1>1, <1>2, Invariance, NextBuffer, PTL DEF Spec

-----------------------------------------------------------------------------
(* The counters.  A set of messages grows or shrinks by one at a time.      *)
LEMMA Messages ==
    ASSUME NEW S \in SUBSET Msg
    PROVE  /\ IsFiniteSet(S) /\ Cardinality(S) \in Nat
           /\ \A T \in SUBSET S : Cardinality(T) <= Cardinality(S)
           /\ \A m \in Msg : Cardinality(S \cup {m}) =
                    IF m \in S THEN Cardinality(S) ELSE Cardinality(S) + 1
           /\ \A m \in Msg : Cardinality(S \ {m}) =
                    IF m \in S THEN Cardinality(S) - 1 ELSE Cardinality(S)
  <1>1. IsFiniteSet(Msg)
    BY FS_Interval DEF Msg
  <1>2. IsFiniteSet(S)
    BY <1>1, FS_Subset
  <1>3. Cardinality(S) \in Nat
    BY <1>2, FS_CardinalityType
  <1>4. \A T \in SUBSET S : Cardinality(T) <= Cardinality(S)
    BY <1>2, FS_Subset
  <1>5. \A m \in Msg : Cardinality(S \cup {m}) =
                    IF m \in S THEN Cardinality(S) ELSE Cardinality(S) + 1
    BY <1>2, FS_AddElement
  <1>6. \A m \in Msg : Cardinality(S \ {m}) =
                    IF m \in S THEN Cardinality(S) - 1 ELSE Cardinality(S)
    BY <1>2, FS_RemoveElement
  <1>7. QED
    BY <1>2, <1>3, <1>4, <1>5, <1>6

(* What a step may do to the routing of the messages: a message is handed   *)
(* to a sender, or cannot be translated, or leaves its sender with a result,*)
(* or is through; every other step leaves each message at its route, inside *)
(* a sender or outside.                                                     *)
Inside(m) == pc[m] \in AtSender
Leaves(m) ==
    /\ Inside(m) /\ at[m] \in Route
    /\ \E ok \in BOOLEAN : ToNextRoute(m, ok)
Elsewhere ==
    /\ UNCHANGED <<at, matched, sent, sendErrors>> /\ steady' \subseteq steady
    /\ \A m \in Msg : Inside(m)' <=> Inside(m)

LEMMA RoutingStep ==
    ASSUME IInv, [Next]_vars
    PROVE  \/ \E m \in Msg : Dispatch(m) \/ TranslateFails(m) \/ Leaves(m) \/ RoutesDone(m)
           \/ Elsewhere
  <1> USE DEF listener, stats, lock, socket, shutdown
  <1>1. TypeOK
    BY DEF IInv
  <1>2. ASSUME NEW m \in Msg,
               Receive(m) \/ FrameFails(m) \/ Captured(m) \/ NormalizeFails(m) \/ Raise(m)
        PROVE  Elsewhere
    <2>1. /\ UNCHANGED <<at, matched, sent, sendErrors, steady>>
          /\ pc[m] \notin AtSender /\ \E step \in {"capturing", "dropped", "routing", "raised"} :
                 pc' = [pc EXCEPT ![m] = step]
      BY <1>2 DEF Receive, FrameFails, Arrives, Captured, NormalizeFails, Raise, AtSender
    <2>2. QED
      BY <1>1, <2>1 DEF Elsewhere, Inside, AtSender, TypeOK
  <1>3. ASSUME NEW m \in Msg, Acquire(m) \/ Connect(m) \/ Write(m)
        PROVE  Elsewhere
    <2>1. /\ UNCHANGED <<at, matched, sent, sendErrors, steady>>
          /\ pc[m] \in AtSender /\ \E step \in AtSender : pc' = [pc EXCEPT ![m] = step]
      BY <1>3 DEF Acquire, Connect, Write, GoTo, AtSender
    <2>2. QED
      BY <1>1, <2>1 DEF Elsewhere, Inside, TypeOK
  <1>4. ASSUME NEW m \in Msg,
               SendDatagram(m) \/ ConnectFails(m) \/ Drain(m) \/ WriteFails(m)
        PROVE  Leaves(m)
    <2>1. /\ pc[m] \in AtSender /\ at[m] \in Route
          /\ ToNextRoute(m, TRUE) \/ ToNextRoute(m, FALSE)
      BY <1>4 DEF SendDatagram, ConnectFails, Drain, WriteFails, SendDone, SendFails,
                  AtSender, IInv, PlaceInv, Locking
    <2>2. QED
      BY <2>1 DEF Leaves, Inside, ToNextRoute
  <1>5. ASSUME NEW d \in TcpDest, PeerReads(d) \/ Break(d) PROVE Elsewhere
    BY <1>5 DEF PeerReads, Break, Elsewhere, Inside
  <1>6. ASSUME NEW r \in Route, Toggle(r) PROVE Elsewhere
    BY <1>6 DEF Toggle, Elsewhere, Inside
  <1>7. CASE Shutdown \/ Close
    BY <1>7 DEF Shutdown, Close, CloseNext, CloseEnds, CloserAcquires, Flushed,
                Elsewhere, Inside
  <1>8. CASE UNCHANGED vars
    BY <1>8 DEF vars, Elsewhere, Inside
  <1>9. QED
    BY <1>2, <1>3, <1>4, <1>5, <1>6, <1>7, <1>8 DEF Next, Step

-----------------------------------------------------------------------------
(* Each match of a route is sent, failed, or with the sender. *)
LEMMA NextAccounted == IInv /\ RouteAccounted /\ [Next]_vars => RouteAccounted'
  <1> SUFFICES ASSUME IInv, RouteAccounted, [Next]_vars, NEW r \in Route
               PROVE  matched'[r] = sent'[r] + sendErrors'[r] + Cardinality(AtRoute(r)')
    BY DEF RouteAccounted
  <1> DEFINE n == Cardinality(AtRoute(r))
  <1>1. /\ TypeOK /\ AtRoute(r) \in SUBSET Msg
        /\ matched[r] \in Nat /\ sent[r] \in Nat /\ sendErrors[r] \in Nat
    BY DEF IInv, TypeOK, AtRoute
  <1>2. n \in Nat /\ matched[r] = sent[r] + sendErrors[r] + n
    BY <1>1, Messages DEF RouteAccounted
  <1> HIDE DEF n
  <1>3. ASSUME NEW m \in Msg, Dispatch(m)
        PROVE  matched'[r] = sent'[r] + sendErrors'[r] + Cardinality(AtRoute(r)')
    <2> DEFINE q == Min(Wanted(m))
    <2>1. q \in Route /\ pc[m] = "routing"
      BY <1>1, <1>3, NextRoute DEF Dispatch
    <2>2. /\ matched' = [matched EXCEPT ![q] = @ + 1] /\ UNCHANGED <<sent, sendErrors>>
          /\ at' = [at EXCEPT ![m] = q]
          /\ pc' = [pc EXCEPT ![m] = IF DestOf[q] \in TcpDest THEN "waiting" ELSE "sending"]
      BY <1>3 DEF Dispatch
    <2> HIDE DEF q
    <2>3. /\ pc'[m] \in AtSender /\ at'[m] = q /\ pc[m] \notin AtSender
          /\ \A k \in Msg \ {m} : pc'[k] = pc[k] /\ at'[k] = at[k]
      BY <1>1, <2>1, <2>2 DEF TypeOK, AtSender
    <2>4. CASE q = r
      <3>1. AtRoute(r)' = AtRoute(r) \cup {m} /\ m \notin AtRoute(r)
        BY <2>3, <2>4 DEF AtRoute
      <3>2. Cardinality(AtRoute(r)') = n + 1
        BY <1>1, <3>1, Messages DEF n
      <3>3. matched'[r] = matched[r] + 1
        BY <1>1, <2>2, <2>4 DEF TypeOK
      <3>4. QED
        BY <1>1, <1>2, <2>2, <3>2, <3>3
    <2>5. CASE q # r
      <3>1. AtRoute(r)' = AtRoute(r)
        BY <2>3, <2>5 DEF AtRoute
      <3>2. matched'[r] = matched[r]
        BY <1>1, <2>1, <2>2, <2>5 DEF TypeOK
      <3>3. QED
        BY <1>2, <2>2, <3>1, <3>2 DEF n
    <2>6. QED
      BY <2>4, <2>5
  <1>4. ASSUME NEW m \in Msg, TranslateFails(m)
        PROVE  matched'[r] = sent'[r] + sendErrors'[r] + Cardinality(AtRoute(r)')
    <2> DEFINE q == Min(Wanted(m))
    <2>1. q \in Route /\ pc[m] = "routing"
      BY <1>1, <1>4, NextRoute DEF TranslateFails
    <2>2. /\ matched' = [matched EXCEPT ![q] = @ + 1]
          /\ sendErrors' = [sendErrors EXCEPT ![q] = @ + 1]
          /\ at' = [at EXCEPT ![m] = q + 1] /\ UNCHANGED <<sent, pc>>
      BY <1>4 DEF TranslateFails
    <2> HIDE DEF q
    <2>3. AtRoute(r)' = AtRoute(r)
      BY <1>1, <2>1, <2>2 DEF TypeOK, AtRoute, AtSender
    <2>4. \/ matched'[r] = matched[r] + 1 /\ sendErrors'[r] = sendErrors[r] + 1
          \/ matched'[r] = matched[r] /\ sendErrors'[r] = sendErrors[r]
      BY <1>1, <2>1, <2>2 DEF TypeOK
    <2>5. QED
      BY <1>1, <1>2, <2>2, <2>3, <2>4 DEF n
  <1>5. ASSUME NEW m \in Msg, Leaves(m)
        PROVE  matched'[r] = sent'[r] + sendErrors'[r] + Cardinality(AtRoute(r)')
    <2>1. pc[m] \in AtSender /\ at[m] \in Route
      BY <1>5 DEF Leaves, Inside
    <2>2. /\ matched' = matched /\ at' = [at EXCEPT ![m] = @ + 1]
          /\ pc' = [pc EXCEPT ![m] = "routing"]
          /\ \/ sent' = [sent EXCEPT ![at[m]] = @ + 1] /\ sendErrors' = sendErrors
             \/ sendErrors' = [sendErrors EXCEPT ![at[m]] = @ + 1] /\ sent' = sent
      BY <1>5 DEF Leaves, ToNextRoute
    <2>3. pc'[m] \notin AtSender /\ \A k \in Msg \ {m} : pc'[k] = pc[k] /\ at'[k] = at[k]
      BY <1>1, <2>2 DEF TypeOK, AtSender
    <2>4. CASE at[m] = r
      <3>1. AtRoute(r)' = AtRoute(r) \ {m} /\ m \in AtRoute(r)
        BY <2>1, <2>3, <2>4 DEF AtRoute
      <3>2. Cardinality(AtRoute(r)') = n - 1
        BY <1>1, <3>1, Messages DEF n
      <3>3. \/ sent'[r] = sent[r] + 1 /\ sendErrors'[r] = sendErrors[r]
            \/ sent'[r] = sent[r] /\ sendErrors'[r] = sendErrors[r] + 1
        BY <1>1, <2>2, <2>4 DEF TypeOK
      <3>4. matched'[r] = matched[r]
        BY <2>2
      <3>5. QED
        <4>1. CASE sent'[r] = sent[r] + 1 /\ sendErrors'[r] = sendErrors[r]
          BY <1>1, <1>2, <3>2, <3>4, <4>1
        <4>2. CASE sent'[r] = sent[r] /\ sendErrors'[r] = sendErrors[r] + 1
          BY <1>1, <1>2, <3>2, <3>4, <4>2
        <4>3. QED
          BY <3>3, <4>1, <4>2
    <2>5. CASE at[m] # r
      <3>1. AtRoute(r)' = AtRoute(r)
        BY <2>3, <2>5 DEF AtRoute
      <3>2. sent'[r] = sent[r] /\ sendErrors'[r] = sendErrors[r]
        BY <1>1, <2>1, <2>2, <2>5 DEF TypeOK
      <3>3. QED
        BY <1>2, <2>2, <3>1, <3>2 DEF n
    <2>6. QED
      BY <2>4, <2>5
  <1>6. ASSUME NEW m \in Msg, RoutesDone(m)
        PROVE  matched'[r] = sent'[r] + sendErrors'[r] + Cardinality(AtRoute(r)')
    <2>1. /\ pc[m] = "routing" /\ pc' = [pc EXCEPT ![m] = "done"]
          /\ at' = [at EXCEPT ![m] = LastRoute + 1] /\ UNCHANGED <<matched, sent, sendErrors>>
      BY <1>6 DEF RoutesDone, stats
    <2>2. AtRoute(r)' = AtRoute(r)
      BY <1>1, <2>1 DEF TypeOK, AtRoute, AtSender
    <2>3. QED
      BY <1>2, <2>1, <2>2 DEF n
  <1>7. CASE Elsewhere
    <2>1. AtRoute(r)' = AtRoute(r)
      BY <1>7 DEF Elsewhere, Inside, AtRoute
    <2>2. QED
      BY <1>2, <1>7, <2>1 DEF Elsewhere, n
  <1>8. QED
    BY <1>3, <1>4, <1>5, <1>6, <1>7, RoutingStep

(* The statistics of a route add up, whatever fails, at every moment. *)
THEOREM RoutesAddUp == Spec => []RouteAccounted
  <1>1. Init => RouteAccounted
    <2> SUFFICES ASSUME Init, NEW r \in Route
                 PROVE  matched[r] = sent[r] + sendErrors[r] + Cardinality(AtRoute(r))
      BY DEF RouteAccounted
    <2>1. AtRoute(r) = {}
      BY DEF Init, AtRoute, AtSender
    <2>2. Cardinality(AtRoute(r)) = 0
      BY <2>1, FS_EmptySet
    <2>3. QED
      BY <2>2 DEF Init, Zero
  <1>2. QED
    BY <1>1, Invariance, NextAccounted, PTL DEF Spec

-----------------------------------------------------------------------------
(* The messages that are past a route that matches them have each been sent *)
(* to it or failed there, unless it was disabled for a while.               *)
Past(r) == {m \in Matching[r] : at[m] > r}
TriedInv == \A r \in steady : Cardinality(Past(r)) <= sent[r] + sendErrors[r]

LEMMA NextTried == IInv /\ TriedInv /\ [Next]_vars => TriedInv'
  <1> SUFFICES ASSUME IInv, TriedInv, [Next]_vars, NEW r \in steady'
               PROVE  Cardinality(Past(r)') <= sent'[r] + sendErrors'[r]
    BY DEF TriedInv
  <1>1. steady' \subseteq steady
    BY RoutingStep
       DEF Elsewhere, Dispatch, TranslateFails, Leaves, ToNextRoute, RoutesDone
  <1>2. /\ TypeOK /\ r \in Route /\ r \in steady /\ r \in enabled /\ r \in Nat
        /\ sent[r] \in Nat /\ sendErrors[r] \in Nat
    <2>1. TypeOK /\ r \in Route /\ r \in steady /\ r \in enabled
      BY <1>1 DEF IInv, TypeOK
    <2>2. r \in Nat
      BY <2>1 DEF Route
    <2>3. QED
      BY <2>1, <2>2 DEF TypeOK
  <1>3. Past(r) \in SUBSET Msg /\ Past(r)' \in SUBSET Msg
    BY <1>2 DEF Past
  <1> DEFINE n == Cardinality(Past(r))
  <1>4. n \in Nat /\ n <= sent[r] + sendErrors[r]
    BY <1>2, <1>3, Messages DEF TriedInv
  <1>5. ASSUME Past(r)' \subseteq Past(r)
        PROVE  Cardinality(Past(r)') \in Nat /\ Cardinality(Past(r)') <= n
    BY <1>3, <1>5, Messages
  <1>6. ASSUME NEW m \in Msg, Past(r)' \subseteq Past(r) \cup {m}
        PROVE  Cardinality(Past(r)') \in Nat /\ Cardinality(Past(r)') <= n + 1
    <2>1. Past(r) \cup {m} \in SUBSET Msg
      BY <1>3
    <2>2. Cardinality(Past(r)') <= Cardinality(Past(r) \cup {m}) /\ Cardinality(Past(r)') \in Nat
      BY <1>3, <1>6, <2>1, Messages
    <2>3. Cardinality(Past(r) \cup {m}) \in {n, n + 1}
      BY <1>3, Messages
    <2>4. QED
      BY <1>4, <2>2, <2>3
  <1> HIDE DEF n
  <1>7. ASSUME NEW m \in Msg, Dispatch(m) \/ TranslateFails(m)
        PROVE  Cardinality(Past(r)') <= sent'[r] + sendErrors'[r]
    <2> DEFINE q == Min(Wanted(m))
    <2>1. /\ q \in Route /\ q \in Nat /\ \A k \in Wanted(m) : q <= k
      BY <1>2, <1>7, NextRoute DEF Dispatch, TranslateFails, Route
    <2>2. /\ sent' = sent
          /\ \/ at' = [at EXCEPT ![m] = q] /\ sendErrors' = sendErrors
             \/ at' = [at EXCEPT ![m] = q + 1] /\ sendErrors' = [sendErrors EXCEPT ![q] = @ + 1]
      BY <1>7 DEF Dispatch, TranslateFails
    <2> HIDE DEF q
    <2>3. /\ at[m] \in Nat /\ at'[m] \in {q, q + 1} /\ \A k \in Msg \ {m} : at'[k] = at[k]
          /\ at'[m] = q + 1 => at' = [at EXCEPT ![m] = q + 1] /\ sendErrors' = [sendErrors EXCEPT ![q] = @ + 1]
          /\ at'[m] = q => sendErrors' = sendErrors
      <3>1. at \in [Msg -> 1 .. LastRoute + 1]
        BY <1>2 DEF TypeOK
      <3>2. at[m] \in Nat
        BY <3>1
      <3>3. q # q + 1
        BY <2>1
      <3>4. QED
        BY <2>2, <3>1, <3>2, <3>3
    <2>4. m \in Matching[r] /\ ~ (at[m] > r) => q <= r
      BY <1>2, <2>1, <2>3 DEF Wanted
    <2>5. CASE at'[m] = q + 1 /\ q = r
      <3>1. Past(r)' \subseteq Past(r) \cup {m}
        BY <1>2, <2>3 DEF Past
      <3>2. sendErrors'[r] = sendErrors[r] + 1
        BY <1>2, <2>3, <2>5 DEF TypeOK
      <3>3. QED
        BY <1>2, <1>4, <1>6, <2>2, <3>1, <3>2
    <2>6. CASE at'[m] = q \/ q # r
      <3>1. Past(r)' \subseteq Past(r)
        BY <1>2, <2>1, <2>3, <2>4, <2>6 DEF Past
      <3>2. sendErrors'[r] = sendErrors[r]
        BY <1>2, <2>1, <2>3, <2>6 DEF TypeOK
      <3>3. QED
        BY <1>2, <1>4, <1>5, <2>2, <3>1, <3>2
    <2>7. QED
      BY <2>3, <2>5, <2>6
  <1>8. ASSUME NEW m \in Msg, Leaves(m)
        PROVE  Cardinality(Past(r)') <= sent'[r] + sendErrors'[r]
    <2>1. at[m] \in Route /\ at[m] \in Nat
      BY <1>8 DEF Leaves, Route
    <2>2. /\ at' = [at EXCEPT ![m] = @ + 1]
          /\ \/ sent' = [sent EXCEPT ![at[m]] = @ + 1] /\ sendErrors' = sendErrors
             \/ sendErrors' = [sendErrors EXCEPT ![at[m]] = @ + 1] /\ sent' = sent
      BY <1>8 DEF Leaves, ToNextRoute
    <2>3. at'[m] = at[m] + 1 /\ \A k \in Msg \ {m} : at'[k] = at[k]
      BY <1>2, <2>2 DEF TypeOK
    <2>4. CASE at[m] = r
      <3>1. Past(r)' \subseteq Past(r) \cup {m}
        BY <1>2, <2>3 DEF Past
      <3>2. \/ sent'[r] = sent[r] + 1 /\ sendErrors'[r] = sendErrors[r]
            \/ sent'[r] = sent[r] /\ sendErrors'[r] = sendErrors[r] + 1
        BY <1>2, <2>2, <2>4 DEF TypeOK
      <3>3. QED
        BY <1>2, <1>4, <1>6, <3>1, <3>2
    <2>5. CASE at[m] # r
      <3>1. Past(r)' \subseteq Past(r)
        BY <1>2, <2>1, <2>3, <2>5 DEF Past
      <3>2. sent'[r] = sent[r] /\ sendErrors'[r] = sendErrors[r]
        BY <1>2, <2>1, <2>2, <2>5 DEF TypeOK
      <3>3. QED
        BY <1>2, <1>4, <1>5, <3>1, <3>2
    <2>6. QED
      BY <2>4, <2>5
  <1>9. ASSUME NEW m \in Msg, RoutesDone(m)
        PROVE  Cardinality(Past(r)') <= sent'[r] + sendErrors'[r]
    <2>1. /\ Wanted(m) = {} /\ at' = [at EXCEPT ![m] = LastRoute + 1]
          /\ UNCHANGED <<sent, sendErrors>>
      BY <1>9 DEF RoutesDone, stats
    <2>2. at[m] \in Nat /\ \A k \in Msg \ {m} : at'[k] = at[k]
      BY <1>2, <2>1 DEF TypeOK
    <2>3. m \in Matching[r] => at[m] > r
      BY <1>2, <2>1, <2>2 DEF Wanted
    <2>4. Past(r)' \subseteq Past(r)
      BY <1>2, <2>2, <2>3 DEF Past
    <2>5. QED
      BY <1>2, <1>4, <1>5, <2>1, <2>4
  <1>10. CASE Elsewhere
    <2>1. Past(r)' = Past(r) /\ UNCHANGED <<sent, sendErrors>>
      BY <1>10 DEF Elsewhere, Past
    <2>2. QED
      BY <1>4, <2>1 DEF n
  <1>11. QED
    BY <1>7, <1>8, <1>9, <1>10, RoutingStep

(* Once a CTO is routed, each of its routes had it, however many failed. *)
THEOREM AllRoutesTried == Spec => []EveryRouteTried
  <1>1. Init => TriedInv
    <2> SUFFICES ASSUME Init, NEW r \in steady PROVE Cardinality(Past(r)) <= sent[r] + sendErrors[r]
      BY DEF TriedInv
    <2>1. r \in Route /\ r >= 1 /\ r \in Nat
      BY DEF Init, Route
    <2>2. Past(r) = {}
      BY <2>1 DEF Init, Past
    <2>3. QED
      BY <2>1, <2>2, FS_EmptySet DEF Init, Zero
  <1>2. IInv /\ TriedInv => EveryRouteTried
    <2> SUFFICES ASSUME IInv, TriedInv, NEW r \in steady
                 PROVE  Cardinality({m \in Matching[r] : pc[m] = "done"}) <= sent[r] + sendErrors[r]
      BY DEF EveryRouteTried
    <2> DEFINE D == {m \in Matching[r] : pc[m] = "done"}
    <2>1. r \in Route /\ r \in Nat /\ r < LastRoute + 1 /\ sent[r] \in Nat /\ sendErrors[r] \in Nat
      BY DEF IInv, TypeOK, Route
    <2>2. Past(r) \in SUBSET Msg /\ D \in SUBSET Past(r)
      BY <2>1 DEF Past, IInv, PlaceInv
    <2>3. Cardinality(D) <= Cardinality(Past(r)) /\ Cardinality(Past(r)) \in Nat
      BY <2>2, Messages
    <2>4. D \in SUBSET Msg
      BY <2>2
    <2>5. Cardinality(D) \in Nat
      BY <2>4, Messages
    <2>6. QED
      BY <2>1, <2>3, <2>5 DEF TriedInv
  <1>3. QED
    BY <1>1, <1>2, Invariance, NextTried, PTL DEF Spec

-----------------------------------------------------------------------------
(* The listener's counters.  A message that was received and not yet        *)
(* counted is held by its task, or by nobody any more if the task raised.   *)
Held(s) == {m \in From(s) : Active(m) \/ pc[m] = "raised"}
HeldAt == {"capturing", "routing", "raised"} \cup AtSender

LEMMA HeldMessages ==
    TypeOK => \A s \in Source : Held(s) = {m \in Msg : SourceOf[m] = s /\ pc[m] \in HeldAt}
  BY DEF TypeOK, Held, HeldAt, From, Active, Ended, AtSender

(* What a step may do to those counters. *)
Counts(m, received_, normalized_, parseErrors_) ==
    /\ received' = [received EXCEPT ![SourceOf[m]] = @ + received_]
    /\ normalized' = [normalized EXCEPT ![SourceOf[m]] = @ + normalized_]
    /\ parseErrors' = [parseErrors EXCEPT ![SourceOf[m]] = @ + parseErrors_]
    /\ \A n \in Msg \ {m} : pc'[n] = pc[n]
Uncounted ==
    /\ UNCHANGED <<received, normalized, parseErrors>> /\ up' \subseteq up
    /\ \A m \in Msg : pc'[m] \in HeldAt <=> pc[m] \in HeldAt

LEMMA CountingStep ==
    ASSUME IInv, [Next]_vars
    PROVE  \/ \E m \in Msg :
                \/ /\ Counts(m, 1, 0, 0) /\ up' = up
                   /\ pc[m] \notin HeldAt /\ pc'[m] \in HeldAt
                   /\ SourceOf[m] \in Connection => SourceOf[m] \in up
                \/ /\ Counts(m, 0, 0, 1) /\ up' = up \ {SourceOf[m]}
                   /\ SourceOf[m] \in Connection /\ SourceOf[m] \in up
                   /\ pc[m] \notin HeldAt /\ pc'[m] \notin HeldAt
                \/ /\ Counts(m, 0, 0, 1) \/ Counts(m, 0, 1, 0)
                   /\ up' = up
                   /\ pc[m] \in HeldAt /\ pc'[m] \notin HeldAt
           \/ Uncounted
  <1> USE DEF listener, stats, lock, socket, shutdown
  <1>1. TypeOK
    BY DEF IInv
  <1>2. ASSUME NEW m \in Msg
        PROVE  /\ received = [received EXCEPT ![SourceOf[m]] = @ + 0]
               /\ normalized = [normalized EXCEPT ![SourceOf[m]] = @ + 0]
               /\ parseErrors = [parseErrors EXCEPT ![SourceOf[m]] = @ + 0]
    BY <1>1 DEF TypeOK
  <1>3. ASSUME NEW m \in Msg, Receive(m)
        PROVE  /\ Counts(m, 1, 0, 0) /\ up' = up
               /\ pc[m] \notin HeldAt /\ pc'[m] \in HeldAt
               /\ SourceOf[m] \in Connection => SourceOf[m] \in up
    BY <1>1, <1>2, <1>3 DEF Receive, Arrives, Counts, TypeOK, HeldAt, AtSender
  <1>4. ASSUME NEW m \in Msg, FrameFails(m)
        PROVE  /\ Counts(m, 0, 0, 1) /\ up' = up \ {SourceOf[m]}
               /\ SourceOf[m] \in Connection /\ SourceOf[m] \in up
               /\ pc[m] \notin HeldAt /\ pc'[m] \notin HeldAt
    BY <1>1, <1>2, <1>4 DEF FrameFails, Arrives, Counts, TypeOK, HeldAt, AtSender
  <1>5. ASSUME NEW m \in Msg, NormalizeFails(m)
        PROVE  /\ Counts(m, 0, 0, 1) /\ up' = up
               /\ pc[m] \in HeldAt /\ pc'[m] \notin HeldAt
    BY <1>1, <1>2, <1>5 DEF NormalizeFails, Counts, TypeOK, HeldAt, AtSender
  <1>6. ASSUME NEW m \in Msg, RoutesDone(m)
        PROVE  /\ Counts(m, 0, 1, 0) /\ up' = up
               /\ pc[m] \in HeldAt /\ pc'[m] \notin HeldAt
    BY <1>1, <1>2, <1>6 DEF RoutesDone, Counts, TypeOK, HeldAt, AtSender
  <1>7. ASSUME NEW m \in Msg,
               \/ Captured(m) \/ Raise(m) \/ Dispatch(m) \/ TranslateFails(m)
               \/ SendDatagram(m) \/ Acquire(m) \/ Connect(m) \/ ConnectFails(m)
               \/ Write(m) \/ Drain(m) \/ WriteFails(m)
        PROVE  Uncounted
    <2>1. UNCHANGED <<received, normalized, parseErrors>> /\ up' \subseteq up
      BY <1>7 DEF Captured, Raise, Dispatch, TranslateFails, SendDatagram, Acquire,
                  Connect, ConnectFails, Write, Drain, WriteFails, GoTo, SendDone,
                  SendFails, ToNextRoute
    <2>2. pc[m] \in HeldAt /\ \E step \in HeldAt : pc' = [pc EXCEPT ![m] = step]
      <3> USE DEF HeldAt, AtSender
      <3>1. CASE Captured(m) \/ Raise(m)
        BY <3>1 DEF Captured, Raise
      <3>2. CASE Dispatch(m)
        BY <3>2 DEF Dispatch
      <3>3. CASE TranslateFails(m)
        BY <1>1, <3>3 DEF TranslateFails, TypeOK
      <3>4. CASE Acquire(m) \/ Connect(m) \/ Write(m)
        BY <3>4 DEF Acquire, Connect, Write, GoTo
      <3>5. CASE SendDatagram(m) \/ ConnectFails(m) \/ Drain(m) \/ WriteFails(m)
        BY <3>5 DEF SendDatagram, ConnectFails, Drain, WriteFails, SendDone, SendFails,
                    ToNextRoute
      <3>6. QED
        BY <1>7, <3>1, <3>2, <3>3, <3>4, <3>5
    <2>3. QED
      BY <1>1, <2>1, <2>2 DEF Uncounted, TypeOK
  <1>8. ASSUME NEW d \in TcpDest, PeerReads(d) \/ Break(d) PROVE Uncounted
    BY <1>8 DEF PeerReads, Break, Uncounted
  <1>9. ASSUME NEW r \in Route, Toggle(r) PROVE Uncounted
    BY <1>9 DEF Toggle, Uncounted
  <1>10. CASE Shutdown \/ Close
    BY <1>10 DEF Shutdown, Close, CloseNext, CloseEnds, CloserAcquires, Flushed, Uncounted
  <1>11. CASE UNCHANGED vars
    BY <1>11 DEF vars, Uncounted
  <1>12. QED
    BY <1>3, <1>4, <1>5, <1>6, <1>7, <1>8, <1>9, <1>10, <1>11 DEF Next, Step

(* At one source, for a message that is counted or held as the step says. *)
LEMMA NextListener == IInv /\ ListenerAccounted /\ [Next]_vars => ListenerAccounted'
  <1> SUFFICES ASSUME IInv, ListenerAccounted, [Next]_vars PROVE ListenerAccounted'
    OBVIOUS
  <1>1. TypeOK /\ TypeOK'
    BY NextInvariant DEF IInv
  <1>2. ASSUME NEW s \in Source
        PROVE  /\ Held(s) = {m \in Msg : SourceOf[m] = s /\ pc[m] \in HeldAt}
               /\ Held(s)' = {m \in Msg : SourceOf[m] = s /\ pc'[m] \in HeldAt}
    <2>1. Held(s) = {m \in Msg : SourceOf[m] = s /\ pc[m] \in HeldAt}
      BY <1>1, HeldMessages
    <2>2. Held(s)' = {m \in Msg : SourceOf[m] = s /\ pc'[m] \in HeldAt}
      BY <1>1 DEF TypeOK, Held, HeldAt, From, Active, Ended, AtSender
    <2>3. QED
      BY <2>1, <2>2
  <1>3. SUFFICES ASSUME NEW s \in Source
                 PROVE  LET n == normalized'[s] + parseErrors'[s] + Cardinality(Held(s)')
                        IN  /\ received'[s] <= n
                            /\ n <= received'[s] + (IF s \in Connection \ up' THEN 1 ELSE 0)
    BY DEF ListenerAccounted, Held
  <1> DEFINE h == Cardinality(Held(s))
             closed == IF s \in Connection \ up THEN 1 ELSE 0
             closed_ == IF s \in Connection \ up' THEN 1 ELSE 0
  <1>4. /\ Held(s) \in SUBSET Msg /\ h \in Nat
        /\ received[s] \in Nat /\ normalized[s] \in Nat /\ parseErrors[s] \in Nat
    BY <1>1, <1>2, Messages DEF TypeOK
  <1>5. /\ received[s] <= normalized[s] + parseErrors[s] + h
        /\ normalized[s] + parseErrors[s] + h <= received[s] + closed
    BY DEF ListenerAccounted, Held
  <1>6. closed \in {0, 1} /\ closed_ \in {0, 1} /\ (up' \subseteq up => closed <= closed_)
    OBVIOUS
  <1>7. CASE Uncounted
    <2>1. Held(s)' = Held(s)
      BY <1>2, <1>7 DEF Uncounted
    <2> HIDE DEF h, closed, closed_
    <2>2. /\ received[s] <= normalized[s] + parseErrors[s] + h
          /\ normalized[s] + parseErrors[s] + h <= received[s] + closed_
      BY <1>4, <1>5, <1>6, <1>7 DEF Uncounted
    <2>3. QED
      BY <1>7, <2>1, <2>2 DEF Uncounted, h, closed_
  <1>8. ASSUME NEW m \in Msg, NEW a \in {0, 1}, NEW b \in {0, 1}, NEW c \in {0, 1},
               Counts(m, a, b, c), up' \subseteq up,
               \/ /\ a = 1 /\ b = 0 /\ c = 0
                  /\ pc[m] \notin HeldAt /\ pc'[m] \in HeldAt
               \/ /\ a = 0 /\ b = 0 /\ c = 1
                  /\ SourceOf[m] \in Connection /\ SourceOf[m] \in up /\ SourceOf[m] \notin up'
                  /\ pc[m] \notin HeldAt /\ pc'[m] \notin HeldAt
               \/ /\ a = 0 /\ b + c = 1
                  /\ pc[m] \in HeldAt /\ pc'[m] \notin HeldAt
        PROVE  LET n == normalized'[s] + parseErrors'[s] + Cardinality(Held(s)')
               IN  /\ received'[s] <= n
                   /\ n <= received'[s] + (IF s \in Connection \ up' THEN 1 ELSE 0)
    <2>1. CASE s # SourceOf[m]
      <3>1. Held(s)' = Held(s)
        <4>1. \A n \in Msg \ {m} : pc'[n] = pc[n]
          BY <1>8 DEF Counts
        <4>2. \A n \in Msg : SourceOf[n] = s => pc'[n] = pc[n]
          BY <2>1, <4>1
        <4>3. QED
          BY <1>2, <4>2
      <3>2. /\ received'[s] = received[s] /\ normalized'[s] = normalized[s]
            /\ parseErrors'[s] = parseErrors[s]
        BY <1>1, <1>8, <2>1 DEF Counts, TypeOK
      <3> HIDE DEF h, closed, closed_
      <3>3. /\ received[s] <= normalized[s] + parseErrors[s] + h
            /\ normalized[s] + parseErrors[s] + h <= received[s] + closed_
        BY <1>4, <1>5, <1>6, <1>8
      <3>4. QED
        BY <3>1, <3>2, <3>3 DEF h, closed_
    <2>2. CASE s = SourceOf[m]
      <3>1. /\ received'[s] = received[s] + a /\ normalized'[s] = normalized[s] + b
            /\ parseErrors'[s] = parseErrors[s] + c
        BY <1>1, <1>8, <2>2 DEF Counts, TypeOK
      <3>2. CASE pc[m] \notin HeldAt /\ pc'[m] \in HeldAt
        <4>1. Held(s)' = Held(s) \cup {m} /\ m \notin Held(s)
          BY <1>2, <1>8, <2>2, <3>2 DEF Counts
        <4>2. Cardinality(Held(s)') = h + 1
          BY <1>4, <4>1, Messages
        <4>3. a = 1 /\ b = 0 /\ c = 0
          BY <1>8, <3>2
        <4> HIDE DEF h, closed, closed_
        <4>4. /\ received[s] + 1 <= normalized[s] + 0 + (parseErrors[s] + 0) + (h + 1)
              /\ normalized[s] + 0 + (parseErrors[s] + 0) + (h + 1) <= received[s] + 1 + closed_
          BY <1>4, <1>5, <1>6, <1>8
        <4>5. QED
          BY <3>1, <4>2, <4>3, <4>4 DEF closed_
      <3>3. CASE pc[m] \notin HeldAt /\ pc'[m] \notin HeldAt
        <4>1. Held(s)' = Held(s)
          <5>1. \A n \in Msg \ {m} : pc'[n] = pc[n]
            BY <1>8 DEF Counts
          <5>2. \A n \in Msg : pc'[n] \in HeldAt <=> pc[n] \in HeldAt
            BY <3>3, <5>1
          <5>3. QED
            BY <1>2, <5>2
        <4>2. a = 0 /\ b = 0 /\ c = 1 /\ closed = 0 /\ closed_ = 1
          BY <1>8, <2>2, <3>3
        <4> HIDE DEF h, closed, closed_
        <4>3. /\ received[s] + 0 <= normalized[s] + 0 + (parseErrors[s] + 1) + h
              /\ normalized[s] + 0 + (parseErrors[s] + 1) + h <= received[s] + 0 + closed_
          BY <1>4, <1>5, <4>2
        <4>4. QED
          BY <3>1, <4>1, <4>2, <4>3 DEF closed_, h
      <3>4. CASE pc[m] \in HeldAt /\ pc'[m] \notin HeldAt
        <4>1. Held(s)' = Held(s) \ {m} /\ m \in Held(s)
          BY <1>2, <1>8, <2>2, <3>4 DEF Counts
        <4>2. Cardinality(Held(s)') = h - 1
          BY <1>4, <4>1, Messages
        <4>3. a = 0 /\ ((b = 0 /\ c = 1) \/ (b = 1 /\ c = 0))
          BY <1>8, <3>4
        <4> HIDE DEF h, closed, closed_
        <4>4. /\ received[s] + 0 <= normalized[s] + b + (parseErrors[s] + c) + (h - 1)
              /\ normalized[s] + b + (parseErrors[s] + c) + (h - 1) <= received[s] + 0 + closed_
          BY <1>4, <1>5, <1>6, <1>8, <4>3
        <4>5. QED
          BY <3>1, <4>2, <4>3, <4>4 DEF closed_
      <3>5. QED
        BY <1>8, <3>2, <3>3, <3>4
    <2>3. QED
      BY <2>1, <2>2
  <1>9. QED
    BY <1>7, <1>8, CountingStep

(* A message the listener received is counted, under way, or raised. *)
THEOREM ListenersAddUp == Spec => []ListenerAccounted
  <1>1. Init => ListenerAccounted
    <2> SUFFICES ASSUME Init, NEW s \in Source
                 PROVE  LET n == normalized[s] + parseErrors[s] + Cardinality(Held(s))
                        IN  received[s] <= n /\ n <= received[s] + (IF s \in Connection \ up THEN 1 ELSE 0)
      BY DEF ListenerAccounted, Held
    <2>1. Held(s) = {}
      BY DEF Init, Held, From, Active
    <2>2. Cardinality(Held(s)) = 0
      BY <2>1, FS_EmptySet
    <2>3. QED
      BY <2>2 DEF Init, Zero
  <1>2. QED
    BY <1>1, Invariance, NextListener, PTL DEF Spec
=============================================================================
