---------------------------- MODULE OpstoreProofs ----------------------------
(* What TLAPS proves of the operational store (Opstore), for any number of  *)
(* ingests, of any size, of any keys.                                       *)
EXTENDS Opstore, SequenceTheorems, DataFacts

(***************************************************************************)
(* The inductive invariant.                                                *)
(***************************************************************************)

\* The windows: one for each key with a buffer that is not empty, and no other.
\* What the loop or _flush_all still has to flush are the oldest of them.
WindowInv ==
    /\ Distinct(window)
    /\ \A k \in Key : buffer[k] # <<>> <=> InQueue(window, k)
    /\ Len(round) <= Len(window)
    /\ \A a \in 1 .. Len(round) : round[a] = window[a]

\* A buffer holds the CTOs of its key, and so does a batch, which is one
\* buffer: the first CTO of a batch speaks for all of them.
KeyInv ==
    /\ \A k \in Key : \A a \in 1 .. Len(buffer[k]) : KeyOfMsg(buffer[k][a]) = k
    /\ \A w \in Caller : \A a \in 1 .. Len(job[w].batch) :
           KeyOfMsg(job[w].batch[a]) = KeyOfMsg(job[w].batch[1])

\* A batch on its way is not empty, and what it is to retire are stored rows
\* of its own file and path.
JobInv ==
    \A w \in Caller :
        /\ job[w].batch = <<>> <=> job[w].step = "none"
        /\ job[w].step # "updated" => job[w].retire = {}
        /\ \A m \in job[w].retire :
               /\ m \in table
               /\ KeyOfMsg(m) \in FileKey
               /\ KeyOfMsg(m) = BatchKey(w)

\* _flush_all is not at work before the stop nor after the flush; of a
\* process that is gone nothing is left.
PhaseInv ==
    /\ phase # "flushing" => job["stop"].step = "none"
    /\ phase = "down" =>
           /\ job["loop"].step = "none"
           /\ inbox = <<>> /\ window = <<>> /\ round = <<>>
           /\ \A k \in Key : buffer[k] = <<>>

\* RetiredByStored, and no valid_to without its row.
RetiredInv ==
    \A m \in Msg : validTo[m] # 0 =>
        /\ m \in table
        /\ KeyOfMsg(m) \in FileKey
        /\ KeyOf[validTo[m]] = KeyOfMsg(m)
        /\ \E m2 \in table : m2[1] = validTo[m]

IInv == TypeOK /\ WindowInv /\ KeyInv /\ JobInv /\ PhaseInv /\ RetiredInv

\* Each CTO is published once: it waits in the inbox or in a buffer, at one
\* place, and its number is not above that of the last one published.
OnceInv ==
    /\ \A a \in 1 .. Len(inbox) : inbox[a][2] <= sent[inbox[a][1]]
    /\ Distinct(inbox)
    /\ \A k \in Key : \A a \in 1 .. Len(buffer[k]) :
           /\ buffer[k][a][2] <= sent[buffer[k][a][1]]
           /\ ~ InQueue(inbox, buffer[k][a])

\* What was buffered at the stop does not come in again; while it is flushed,
\* its key is still to be flushed, and then it is no longer buffered.
PledgeInv ==
    /\ \A m \in pledged : m[2] <= sent[m[1]] /\ ~ InQueue(inbox, m)
    /\ phase = "flushing" =>
           \A k \in Key : \A a \in 1 .. Len(buffer[k]) :
               buffer[k][a] \in pledged => InQueue(round, k)
    /\ phase \in {"draining", "stopped"} =>
           \A k \in Key : \A a \in 1 .. Len(buffer[k]) : buffer[k][a] \notin pledged

\* Until a stop, the order in which the CTOs of a key are published is that of
\* table, batch, buffer and inbox, and that in the inbox; an ingest is published
\* before the next of its key is begun.
Waiting == ToSet(inbox)
Writing == ToSet(job["loop"].batch)

PublishOrder ==
    /\ \A i \in Ingest : sent[i] <= SizeOf[i]
    /\ \A i, j \in Ingest :
           i < j /\ KeyOf[i] = KeyOf[j] /\ sent[j] > 0 => sent[i] = SizeOf[i]

OrderInv ==
    /\ phase \in {"running", "down"}
    /\ PublishOrder
    /\ \A m \in Waiting \cup Buffered \cup Writing \cup table : m[2] <= sent[m[1]]
    /\ \A a, b \in 1 .. Len(inbox) : a < b => ~ Before(inbox[b], inbox[a])
    /\ \A m1 \in Waiting : \A m2 \in Buffered \cup Writing \cup table : ~ Before(m1, m2)
    /\ \A m1 \in Buffered : \A m2 \in Writing \cup table : ~ Before(m1, m2)
    /\ \A m1 \in Writing : \A m2 \in table : ~ Before(m1, m2)
    /\ \A m \in Msg : validTo[m] # 0 => validTo[m] >= m[1]

(***************************************************************************)
(* Facts about the operators of the model.                                 *)
(***************************************************************************)

\* A message is its ingest and its number, and has the key of the ingest.
LEMMA Messages ==
    /\ \A m \in Msg : /\ m[1] \in Ingest /\ m[2] \in Nat /\ m[2] <= SizeOf[m[1]]
                      /\ KeyOfMsg(m) \in Key
    /\ \A i \in Ingest, n \in Nat : 0 < n /\ n <= SizeOf[i] => <<i, n>> \in Msg
  <1>1. ASSUME NEW m \in Msg
        PROVE  /\ m[1] \in Ingest /\ m[2] \in Nat /\ m[2] <= SizeOf[m[1]]
               /\ KeyOfMsg(m) \in Key
    <2>1. PICK i \in Ingest : m \in {i} \X (1 .. SizeOf[i])
      BY DEF Msg
    <2>2. SizeOf[i] \in Nat /\ KeyOf[i] \in Key
      BY OpstoreAssumption
    <2>3. m[1] = i /\ m[2] \in 1 .. SizeOf[i]
      BY <2>1
    <2>4. QED
      BY <2>2, <2>3 DEF KeyOfMsg
  <1>2. ASSUME NEW i \in Ingest, NEW n \in Nat, 0 < n, n <= SizeOf[i]
        PROVE  <<i, n>> \in Msg
    <2>1. SizeOf[i] \in Nat
      BY OpstoreAssumption
    <2>2. n \in 1 .. SizeOf[i]
      BY <1>2, <2>1
    <2>3. QED
      BY <2>2 DEF Msg
  <1>3. QED
    BY <1>1, <1>2

\* Of the two callers each is the other's other.
LEMMA Callers ==
    \A w \in Caller : /\ Other(w) \in Caller /\ Other(w) # w
                      /\ \A v \in Caller : v = w \/ v = Other(w)
  BY DEF Caller, Other

\* The key at the head of the windows is removed from them by its pop.
LEMMA RemoveHead ==
    ASSUME NEW S, NEW q \in Seq(S), q # <<>>
    PROVE  RemoveFirst(q, q[1]) = Tail(q)
  <1>1. Len(q) \in Nat /\ Len(q) >= 1
    OBVIOUS
  <1>2. SelectInSeq(q, LAMBDA v : v = q[1]) = 1
    <2> DEFINE I == {i \in 1 .. Len(q) : q[i] = q[1]}
    <2>1. 1 \in I /\ \A i \in I : i \in Nat /\ 1 <= i
      BY <1>1
    <2>2. \A i \in I : (\A j \in I : i <= j) => i = 1
      BY <2>1
    <2> HIDE DEF I
    <2>3. Min(I) = 1
      BY <2>1, <2>2 DEF Min
    <2>4. QED
      BY <2>1, <2>3 DEF SelectInSeq, I
  <1>3. RemoveFirst(q, q[1]) = RemoveAt(q, 1)
    BY <1>1, <1>2 DEF RemoveFirst
  <1>4. SubSeq(q, 1, 0) = <<>> /\ SubSeq(q, 2, Len(q)) = Tail(q)
    BY SubSeqEmpty, TailIsSubSeq
  <1>5. Tail(q) \in Seq(S)
    BY HeadTailProperties
  <1>6. <<>> \o Tail(q) = Tail(q)
    BY <1>5
  <1>7. QED
    BY <1>3, <1>4, <1>6 DEF RemoveAt

\* What a job is.
Jobs == [step : {"none", "started", "updated"}, batch : Seq(Msg),
         retire : SUBSET Msg, blocked : BOOLEAN]

\* What _flush_one does to the windows, the buffers and the jobs: the key at
\* hand is that of the oldest window.
LEMMA FlushOldest ==
    ASSUME IInv, NEW w \in Caller, FlushOne(w)
    PROVE  /\ phase \in {"running", "flushing"}
           /\ w = IF phase = "running" THEN "loop" ELSE "stop"
           /\ round # <<>> /\ window # <<>>
           /\ Head(round) \in Key /\ Head(round) = Head(window)
           /\ buffer[Head(round)] # <<>>
           /\ round' = Tail(round) /\ window' = Tail(window)
           /\ ripe' \in 0 .. Len(window) - 1
           /\ buffer' = [buffer EXCEPT ![Head(round)] = <<>>]
           /\ job[w] = NoJob /\ job' \in [Caller -> Jobs]
           /\ job'[w].step = "started" /\ job'[w].batch = buffer[Head(round)]
           /\ job'[w].retire = {}
           /\ \A v \in Caller : v # w => job'[v] = job[v]
           /\ UNCHANGED <<sent, phase, inbox, counters, database, pledged>>
  <1> USE DEF IInv
  <1>1. /\ window \in Seq(Key) /\ round \in Seq(Key) /\ round # <<>>
        /\ Len(round) <= Len(window) /\ \A a \in 1 .. Len(round) : round[a] = window[a]
        /\ ripe \in 0 .. Len(window)
    BY DEF TypeOK, WindowInv, FlushOne
  <1>2. /\ Len(window) \in Nat /\ Len(window) > 0 /\ window # <<>>
        /\ Head(round) = window[1] /\ Head(window) = window[1] /\ window[1] \in Key
    BY <1>1
  <1>3. RemoveFirst(window, Head(round)) = Tail(window)
    BY <1>1, <1>2, RemoveHead
  <1>4. buffer[Head(round)] # <<>>
    BY <1>2 DEF WindowInv, InQueue
  <1>5. StillRipe \in 0 .. Len(window) - 1
    <2>1. /\ ripe \in Int /\ Len(Ripe) = IF 1 <= ripe THEN ripe ELSE 0
          /\ \A a \in 1 .. ripe : Ripe[a] = window[a]
      <3>1. ripe \in Int /\ \A a \in 1 .. ripe : window[a] \in Key
        BY <1>1
      <3>2. /\ Len(Ripe) = IF 1 <= ripe THEN ripe - 1 + 1 ELSE 0
            /\ \A a \in 1 .. ripe - 1 + 1 : Ripe[a] = window[1 + a - 1]
        BY <3>1, SubSeqProperties DEF Ripe
      <3>3. QED
        BY <3>1, <3>2
    <2>2. CASE ripe = 0
      <3>1. ~ Contains(Ripe, Head(round))
        BY <2>1, <2>2 DEF Contains
      <3>2. QED
        BY <1>2, <2>2, <3>1 DEF StillRipe
    <2>3. CASE ripe > 0
      <3>1. 1 \in 1 .. Len(Ripe) /\ Ripe[1] = Head(round)
        BY <1>1, <1>2, <2>1, <2>3
      <3>2. Contains(Ripe, Head(round))
        BY <3>1 DEF Contains
      <3>3. QED
        BY <1>1, <1>2, <2>3, <3>2 DEF StillRipe
    <2>4. QED
      BY <1>1, <2>2, <2>3
  <1> DEFINE new == [NoJob EXCEPT !.step = "started", !.batch = buffer[Head(round)]]
  <1>6. new \in Jobs /\ new.step = "started" /\ new.batch = buffer[Head(round)] /\ new.retire = {}
    <2>1. buffer[Head(round)] \in Seq(Msg)
      BY <1>2 DEF TypeOK
    <2>2. QED
      BY <2>1 DEF NoJob, Jobs
  <1>7. Flush(w, buffer[Head(round)], <<>>, StillRipe)
    BY DEF FlushOne
  <1>8. /\ ripe' = StillRipe
        /\ window' = RemoveFirst(window, Head(round))
        /\ job' = [job EXCEPT ![w] = new]
        /\ phase \in {"running", "flushing"}
        /\ w = IF phase = "running" THEN "loop" ELSE "stop"
        /\ job[w] = NoJob
        /\ round' = Tail(round)
        /\ buffer' = [buffer EXCEPT ![Head(round)] = <<>>]
        /\ UNCHANGED <<sent, phase, inbox, counters, database, pledged>>
    BY <1>7 DEF Flush
  <1>9. /\ ripe' \in 0 .. Len(window) - 1
        /\ window' = Tail(window)
        /\ Head(round) \in Key /\ Head(round) = Head(window)
    BY <1>2, <1>3, <1>5, <1>8
  <1>10. /\ job' \in [Caller -> Jobs] /\ job'[w] = new
         /\ \A v \in Caller : v # w => job'[v] = job[v]
    <2>1. job \in [Caller -> Jobs]
      BY DEF TypeOK, Jobs
    <2> HIDE DEF new
    <2>2. QED
      BY <1>6, <1>8, <2>1
  <1>11. QED
    BY <1>1, <1>2, <1>4, <1>6, <1>8, <1>9, <1>10

\* What the end of a batch does to the two jobs.
LEMMA SettledJobs ==
    ASSUME TypeOK, NEW w \in Caller, NEW ok \in BOOLEAN, Settle(w, ok)
    PROVE  /\ job' \in [Caller -> Jobs]
           /\ job'[w] = NoJob
           /\ \A v \in Caller : v # w =>
                  /\ job'[v].step = job[v].step /\ job'[v].batch = job[v].batch
                  /\ job'[v].retire = job[v].retire
  <1>1. job \in [Caller -> Jobs]
    BY DEF TypeOK, Jobs
  <1>2. NoJob \in Jobs
    BY DEF NoJob, Jobs
  <1>3. \A j \in Jobs : /\ [j EXCEPT !.blocked = FALSE] \in Jobs
                        /\ [j EXCEPT !.blocked = FALSE].step = j.step
                        /\ [j EXCEPT !.blocked = FALSE].batch = j.batch
                        /\ [j EXCEPT !.blocked = FALSE].retire = j.retire
    BY DEF Jobs
  <1>4. /\ job' = [job EXCEPT ![w] = NoJob, ![Other(w)].blocked = FALSE]
        /\ Other(w) \in Caller /\ Other(w) # w
    BY Callers DEF Settle
  <1>5. job'[w] = NoJob
    BY <1>1, <1>4
  <1>6. \A v \in Caller : v # w => job'[v] = [job[v] EXCEPT !.blocked = FALSE]
    BY <1>1, <1>4, Callers
  <1>7. job' \in [Caller -> Jobs]
    BY <1>1, <1>2, <1>3, <1>4
  <1>8. QED
    BY <1>1, <1>3, <1>5, <1>6, <1>7

\* A batch on its way has a first message.
LEMMA FirstOfBatch ==
    ASSUME IInv, NEW w \in Caller, job[w].step # "none"
    PROVE  /\ job[w].batch \in Seq(Msg) /\ 1 \in 1 .. Len(job[w].batch)
           /\ job[w].batch[1] \in Msg /\ job[w].batch[1][1] \in Ingest
           /\ BatchKey(w) = KeyOf[job[w].batch[1][1]]
  <1>1. job[w] \in Jobs
    BY DEF IInv, TypeOK, Jobs
  <1>2. job[w].batch \in Seq(Msg) /\ job[w].batch # <<>>
    BY <1>1 DEF Jobs, IInv, JobInv
  <1>3. 1 \in 1 .. Len(job[w].batch) /\ job[w].batch[1] \in Msg
    BY <1>2
  <1>4. QED
    BY <1>2, <1>3, Messages DEF BatchKey, KeyOfMsg

(***************************************************************************)
(* Every step keeps the inductive invariant.                               *)
(***************************************************************************)

LEMMA InitInvariant == Init => IInv
  <1> SUFFICES ASSUME Init PROVE IInv
    OBVIOUS
  <1>1. TypeOK
    <2>1. NoJob \in Jobs
      BY DEF NoJob, Jobs
    <2>2. job \in [Caller -> Jobs]
      BY <2>1 DEF Init
    <2>3. /\ sent \in [Ingest -> Nat] /\ inbox \in Seq(Msg)
          /\ buffer \in [Key -> Seq(Msg)] /\ window \in Seq(Key) /\ round \in Seq(Key)
          /\ ripe \in 0 .. Len(window)
          /\ validTo \in [Msg -> Ingest \cup {0}]
      BY DEF Init
    <2>4. QED
      BY <2>2, <2>3 DEF Init, TypeOK, Jobs
  <1>2. WindowInv
    BY DEF Init, WindowInv, Distinct, InQueue
  <1>3. KeyInv /\ JobInv /\ PhaseInv
    BY DEF Init, KeyInv, JobInv, PhaseInv, NoJob, Caller
  <1>4. RetiredInv
    BY DEF Init, RetiredInv
  <1>5. QED
    BY <1>1, <1>2, <1>3, <1>4 DEF IInv

LEMMA PublishInvariant == ASSUME IInv, NEW i \in Ingest, Publish(i) PROVE IInv'
  <1> USE DEF IInv
  <1> DEFINE new == <<i, sent[i] + 1>>
  <1>1. SizeOf[i] \in Nat /\ sent[i] \in Nat /\ sent \in [Ingest -> Nat]
    BY OpstoreAssumption DEF TypeOK
  <1>2. sent' \in [Ingest -> Nat] /\ sent'[i] = sent[i] + 1
    BY <1>1 DEF Publish
  <1>3. inbox' \in Seq(Msg) /\ (phase = "down" => inbox' = inbox)
    <2>1. new \in Msg
      BY <1>1, Messages DEF Publish
    <2>2. (inbox' = Append(inbox, new) /\ Subscribed) \/ inbox' = inbox
      BY <1>2 DEF Publish
    <2>3. inbox \in Seq(Msg) /\ (Subscribed => phase # "down")
      BY DEF TypeOK, Subscribed
    <2> HIDE DEF new
    <2>4. QED
      BY <2>1, <2>2, <2>3
  <1>4. /\ UNCHANGED <<phase, round, pledged, job, received, written, failed>>
        /\ UNCHANGED <<buffer, window, ripe, table, validTo>>
    BY DEF Publish, counters, buffers, database
  <1>5. TypeOK'
    BY <1>2, <1>3, <1>4 DEF TypeOK
  <1>6. WindowInv' /\ KeyInv' /\ JobInv' /\ RetiredInv'
    BY <1>4 DEF WindowInv, KeyInv, JobInv, RetiredInv, BatchKey
  <1>7. PhaseInv'
    BY <1>3, <1>4 DEF PhaseInv
  <1>8. QED
    BY <1>5, <1>6, <1>7

LEMMA OnMessageInvariant == ASSUME IInv, OnMessage PROVE IInv'
  <1> USE DEF IInv
  <1> DEFINE m == Head(inbox)
             k == KeyOfMsg(m)
  <1>1. /\ inbox \in Seq(Msg) /\ inbox # <<>> /\ m \in Msg /\ k \in Key
        /\ inbox' = Tail(inbox) /\ inbox' \in Seq(Msg)
    BY Messages DEF OnMessage, TypeOK
  <1>2. /\ phase \in {"running", "flushing", "draining"}
        /\ received' = received + 1
        /\ UNCHANGED <<sent, phase, written, ripe, round, job, table, validTo, pledged>>
    BY DEF OnMessage, database
  <1>3. CASE m \in Malformed
    <2>1. failed' = failed + 1 /\ UNCHANGED <<buffer, window>>
      BY <1>3 DEF OnMessage
    <2>2. TypeOK'
      <3>1. received' \in Nat /\ failed' \in Nat
        BY <1>2, <2>1 DEF TypeOK
      <3>2. QED
        BY <1>1, <1>2, <2>1, <3>1 DEF TypeOK
    <2>3. QED
      BY <1>2, <2>1, <2>2 DEF WindowInv, KeyInv, JobInv, PhaseInv, RetiredInv, BatchKey
  <1>4. CASE m \notin Malformed
    <2>1. /\ failed' = failed
          /\ buffer' = [buffer EXCEPT ![k] = Append(@, m)]
          /\ window' = IF buffer[k] = <<>> THEN Append(window, k) ELSE window
      BY <1>4 DEF OnMessage
    <2> HIDE DEF m
    <2>2. /\ buffer \in [Key -> Seq(Msg)] /\ window \in Seq(Key) /\ round \in Seq(Key)
          /\ KeyOfMsg(m) = k
      BY DEF TypeOK
    <2> HIDE DEF k
    <2>3. /\ buffer'[k] = Append(buffer[k], m)
          /\ \A j \in Key : j # k => buffer'[j] = buffer[j]
          /\ buffer' \in [Key -> Seq(Msg)]
      BY <1>1, <2>1, <2>2
    <2>4. /\ window' \in Seq(Key) /\ Len(window') \in Nat /\ Len(window) \in Nat
          /\ Len(window') >= Len(window)
          /\ \A a \in 1 .. Len(window) : window'[a] = window[a]
          /\ Distinct(window')
          /\ \A j : InQueue(window', j) <=> InQueue(window, j) \/ j = k
      <3>1. CASE buffer[k] = <<>>
        <4>1. ~ InQueue(window, k) /\ window' = Append(window, k)
          BY <1>1, <2>1, <3>1 DEF WindowInv
        <4>2. QED
          BY <1>1, <2>2, <4>1, QueueJoin DEF WindowInv
      <3>2. CASE buffer[k] # <<>>
        <4>1. InQueue(window, k) /\ window' = window
          BY <1>1, <2>1, <3>2 DEF WindowInv
        <4>2. QED
          BY <2>2, <4>1 DEF WindowInv
      <3>3. QED
        BY <3>1, <3>2
    <2>5. TypeOK'
      <3>1. ripe' \in 0 .. Len(window')
        BY <1>2, <2>4 DEF TypeOK
      <3>2. <<received, written, failed>>' \in Nat \X Nat \X Nat
        BY <1>2, <2>1 DEF TypeOK
      <3>3. QED
        BY <1>1, <1>2, <2>3, <2>4, <3>1, <3>2 DEF TypeOK
    <2>6. WindowInv'
      <3>1. Append(buffer[k], m) # <<>>
        <4>1. buffer[k] \in Seq(Msg) /\ m \in Msg
          BY <1>1, <2>2
        <4>2. QED
          BY <4>1, AppendProperties
      <3>2. \A j \in Key : buffer'[j] # <<>> <=> InQueue(window', j)
        BY <2>3, <2>4, <3>1 DEF WindowInv
      <3>3. /\ Len(round) \in Nat /\ Len(round) <= Len(window')
            /\ \A a \in 1 .. Len(round) : round[a] = window'[a]
        BY <2>2, <2>4 DEF WindowInv
      <3>4. QED
        BY <1>2, <2>4, <3>2, <3>3 DEF WindowInv
    <2>7. KeyInv'
      <3>1. \A a \in 1 .. Len(buffer'[k]) : KeyOfMsg(buffer'[k][a]) = k
        <4>1. /\ Len(buffer'[k]) = Len(buffer[k]) + 1 /\ Len(buffer[k]) \in Nat
              /\ buffer'[k][Len(buffer[k]) + 1] = m
              /\ \A a \in 1 .. Len(buffer[k]) : buffer'[k][a] = buffer[k][a]
          BY <1>1, <2>2, <2>3
        <4>2. \A a \in 1 .. Len(buffer[k]) : KeyOfMsg(buffer[k][a]) = k
          BY <1>1 DEF KeyInv
        <4>3. QED
          BY <2>2, <4>1, <4>2
      <3>2. QED
        BY <1>2, <2>3, <3>1 DEF KeyInv
    <2>8. JobInv' /\ RetiredInv'
      BY <1>2 DEF JobInv, RetiredInv, BatchKey
    <2>9. PhaseInv'
      BY <1>2 DEF PhaseInv
    <2>10. QED
      BY <2>5, <2>6, <2>7, <2>8, <2>9
  <1>5. QED
    BY <1>3, <1>4

LEMMA RipenInvariant == ASSUME IInv, Ripen PROVE IInv'
  <1> USE DEF IInv
  <1>1. /\ ripe' \in 0 .. Len(window)
        /\ UNCHANGED <<sent, phase, inbox, received, written, failed>>
        /\ UNCHANGED <<buffer, window, round, job, table, validTo, pledged>>
    <2>1. ripe \in 0 .. Len(window) /\ Len(window) \in Nat
      BY DEF TypeOK
    <2>2. QED
      BY <2>1 DEF Ripen, counters, database
  <1>2. TypeOK'
    BY <1>1 DEF TypeOK
  <1>3. WindowInv' /\ KeyInv' /\ JobInv' /\ PhaseInv' /\ RetiredInv'
    BY <1>1 DEF WindowInv, KeyInv, JobInv, PhaseInv, RetiredInv, BatchKey
  <1>4. QED
    BY <1>2, <1>3

LEMMA WakeInvariant == ASSUME IInv, Wake PROVE IInv'
  <1> USE DEF IInv
  <1>1. /\ phase = "running" /\ round' = SubSeq(window, 1, ripe)
        /\ UNCHANGED <<sent, phase, inbox, received, written, failed>>
        /\ UNCHANGED <<buffer, window, ripe, job, table, validTo, pledged>>
    BY DEF Wake, Ripe, counters, buffers, database
  <1>2. /\ round' \in Seq(Key) /\ Len(round') <= Len(window)
        /\ \A a \in 1 .. Len(round') : round'[a] = window[a]
    <2>1. window \in Seq(Key) /\ Len(window) \in Nat /\ ripe \in 0 .. Len(window) /\ ripe \in Int
      BY DEF TypeOK
    <2>2. \A a \in 1 .. ripe : window[a] \in Key
      BY <2>1
    <2>3. /\ round' \in Seq(Key)
          /\ Len(round') = IF 1 <= ripe THEN ripe - 1 + 1 ELSE 0
          /\ \A a \in 1 .. ripe - 1 + 1 : round'[a] = window[1 + a - 1]
      BY <1>1, <2>1, <2>2, SubSeqProperties
    <2>4. QED
      BY <2>1, <2>3
  <1>3. TypeOK'
    BY <1>1, <1>2 DEF TypeOK
  <1>4. WindowInv'
    BY <1>1, <1>2 DEF WindowInv
  <1>5. KeyInv' /\ JobInv' /\ PhaseInv' /\ RetiredInv'
    BY <1>1 DEF KeyInv, JobInv, PhaseInv, RetiredInv, BatchKey
  <1>6. QED
    BY <1>3, <1>4, <1>5

LEMMA FlushOneInvariant == ASSUME IInv, NEW w \in Caller, FlushOne(w) PROVE IInv'
  <1> USE DEF IInv
  <1> DEFINE k == Head(round)
  <1>1. /\ phase \in {"running", "flushing"}
        /\ w = IF phase = "running" THEN "loop" ELSE "stop"
        /\ round # <<>> /\ window # <<>> /\ k \in Key /\ k = Head(window)
        /\ buffer[k] # <<>>
        /\ round' = Tail(round) /\ window' = Tail(window)
        /\ ripe' \in 0 .. Len(window) - 1
        /\ buffer' = [buffer EXCEPT ![k] = <<>>]
        /\ job' \in [Caller -> Jobs]
        /\ job'[w].step = "started" /\ job'[w].batch = buffer[k]
        /\ job'[w].retire = {}
        /\ \A v \in Caller : v # w => job'[v] = job[v]
        /\ UNCHANGED <<sent, phase, inbox, counters, table, validTo, pledged>>
    BY FlushOldest DEF database
  <1>2. /\ window \in Seq(Key) /\ round \in Seq(Key) /\ buffer \in [Key -> Seq(Msg)]
        /\ Len(window) \in Nat /\ Len(round) \in Nat /\ Len(window) > 0 /\ Len(round) > 0
    <2>1. window \in Seq(Key) /\ round \in Seq(Key) /\ buffer \in [Key -> Seq(Msg)]
      BY DEF TypeOK
    <2>2. QED
      BY <1>1, <2>1
  <1>3. /\ window' \in Seq(Key) /\ Len(window') = Len(window) - 1
        /\ \A a \in 1 .. Len(window) - 1 : window'[a] = window[a + 1]
        /\ round' \in Seq(Key) /\ Len(round') = Len(round) - 1
        /\ \A a \in 1 .. Len(round) - 1 : round'[a] = round[a + 1]
    <2>1. /\ Tail(window) \in Seq(Key) /\ Len(Tail(window)) = Len(window) - 1
          /\ \A a \in 1 .. Len(window) - 1 : Tail(window)[a] = window[a + 1]
      BY <1>1, <1>2, HeadTailProperties
    <2>2. /\ Tail(round) \in Seq(Key) /\ Len(Tail(round)) = Len(round) - 1
          /\ \A a \in 1 .. Len(round) - 1 : Tail(round)[a] = round[a + 1]
      BY <1>1, <1>2, HeadTailProperties
    <2>3. QED
      BY <1>1, <2>1, <2>2
  <1>4. /\ buffer' \in [Key -> Seq(Msg)] /\ buffer'[k] = <<>>
        /\ \A j \in Key : j # k => buffer'[j] = buffer[j]
    BY <1>1, <1>2
  <1> HIDE DEF k
  <1>5. TypeOK'
    <2>1. ripe' \in 0 .. Len(window')
      BY <1>1, <1>3
    <2>2. <<received, written, failed>>' \in Nat \X Nat \X Nat
      BY <1>1 DEF TypeOK, counters
    <2>3. QED
      BY <1>1, <1>3, <1>4, <2>1, <2>2 DEF TypeOK, Jobs
  <1>6. WindowInv'
    <2>1. Distinct(window') /\ \A j : InQueue(window', j) <=> InQueue(window, j) /\ j # k
      BY <1>1, <1>2, QueueLeave DEF WindowInv
    <2>2. \A j \in Key : buffer'[j] # <<>> <=> InQueue(window', j)
      BY <1>4, <2>1 DEF WindowInv
    <2>3. Len(round') <= Len(window')
      BY <1>2, <1>3 DEF WindowInv
    <2>4. ASSUME NEW a \in 1 .. Len(round') PROVE round'[a] = window'[a]
      <3>1. /\ Len(round) <= Len(window)
            /\ \A b \in 1 .. Len(round) : round[b] = window[b]
        BY DEF WindowInv
      <3>2. a + 1 \in 1 .. Len(round) /\ a \in 1 .. Len(round) - 1 /\ a \in 1 .. Len(window) - 1
        <4>1. a \in Nat /\ 1 <= a /\ a <= Len(round) - 1
          BY <1>2, <1>3
        <4>2. QED
          BY <1>2, <3>1, <4>1
      <3>3. QED
        BY <1>3, <3>1, <3>2
    <2>5. QED
      BY <2>1, <2>2, <2>3, <2>4 DEF WindowInv
  <1>7. KeyInv'
    <2>1. \A j \in Key : \A a \in 1 .. Len(buffer'[j]) : KeyOfMsg(buffer'[j][a]) = j
      BY <1>4 DEF KeyInv
    <2>2. ASSUME NEW v \in Caller, NEW a \in 1 .. Len(job'[v].batch)
          PROVE  KeyOfMsg(job'[v].batch[a]) = KeyOfMsg(job'[v].batch[1])
      <3>1. CASE v = w
        <4>1. a \in 1 .. Len(buffer[k]) /\ buffer[k] \in Seq(Msg)
          BY <1>1, <1>2, <2>2, <3>1
        <4>2. 1 \in 1 .. Len(buffer[k])
          BY <1>1, <4>1
        <4>3. KeyOfMsg(buffer[k][a]) = k /\ KeyOfMsg(buffer[k][1]) = k
          BY <1>1, <4>1, <4>2 DEF KeyInv
        <4>4. QED
          BY <1>1, <3>1, <4>3
      <3>2. CASE v # w
        BY <1>1, <2>2, <3>2 DEF KeyInv
      <3>3. QED
        BY <3>1, <3>2
    <2>3. QED
      BY <2>1, <2>2 DEF KeyInv
  <1>8. JobInv'
    <2>1. ASSUME NEW v \in Caller
          PROVE  /\ job'[v].batch = <<>> <=> job'[v].step = "none"
                 /\ job'[v].step # "updated" => job'[v].retire = {}
                 /\ \A m \in job'[v].retire :
                        /\ m \in table /\ KeyOfMsg(m) \in FileKey
                        /\ KeyOfMsg(m) = KeyOfMsg(job'[v].batch[1])
      <3>1. CASE v = w
        BY <1>1, <3>1
      <3>2. CASE v # w
        BY <1>1, <3>2 DEF JobInv, BatchKey
      <3>3. QED
        BY <3>1, <3>2
    <2>2. QED
      BY <1>1, <2>1 DEF JobInv, BatchKey
  <1>9. PhaseInv'
    <2>1. phase # "flushing" => w = "loop" /\ "stop" \in Caller
      BY <1>1 DEF Caller
    <2>2. QED
      BY <1>1, <2>1 DEF PhaseInv
  <1>10. RetiredInv'
    BY <1>1 DEF RetiredInv
  <1>11. QED
    BY <1>5, <1>6, <1>7, <1>8, <1>9, <1>10

LEMMA SupersedeInvariant == ASSUME IInv, NEW w \in Caller, Supersede(w) PROVE IInv'
  <1> USE DEF IInv
  <1> DEFINE blocked == Prior(w) \cap job[Other(w)].retire # {}
             new == [job[w] EXCEPT !.step = "updated", !.retire = Prior(w), !.blocked = blocked]
  <1>1. job \in [Caller -> Jobs] /\ job[w] \in Jobs /\ job[w].step = "started"
    BY DEF TypeOK, Jobs, Supersede
  <1>2. /\ Prior(w) \subseteq table /\ Prior(w) \in SUBSET Msg
        /\ \A m \in Prior(w) : KeyOfMsg(m) \in FileKey /\ KeyOfMsg(m) = BatchKey(w)
    BY DEF Prior, Current, TypeOK
  <1>3. blocked \in BOOLEAN
    OBVIOUS
  <1> HIDE DEF blocked
  <1>4. new \in Jobs /\ new.step = "updated" /\ new.batch = job[w].batch /\ new.retire = Prior(w)
    BY <1>1, <1>2, <1>3 DEF Jobs
  <1>5. /\ job' = [job EXCEPT ![w] = new]
        /\ UNCHANGED <<sent, phase, inbox, received, written, failed, buffer, window, ripe>>
        /\ UNCHANGED <<round, table, validTo, pledged>>
    BY DEF Supersede, counters, buffers, database, blocked
  <1> HIDE DEF new
  <1>6. /\ job' \in [Caller -> Jobs]
        /\ job'[w].step = "updated" /\ job'[w].batch = job[w].batch /\ job'[w].retire = Prior(w)
        /\ \A v \in Caller : v # w => job'[v] = job[v]
    BY <1>1, <1>4, <1>5
  <1>7. TypeOK'
    BY <1>5, <1>6 DEF TypeOK, Jobs
  <1>8. WindowInv' /\ RetiredInv'
    BY <1>5 DEF WindowInv, RetiredInv
  <1>9. KeyInv'
    <2>1. \A v \in Caller : job'[v].batch = job[v].batch
      BY <1>6
    <2>2. QED
      BY <1>5, <2>1 DEF KeyInv
  <1>10. JobInv'
    <2>1. ASSUME NEW v \in Caller
          PROVE  /\ job'[v].batch = <<>> <=> job'[v].step = "none"
                 /\ job'[v].step # "updated" => job'[v].retire = {}
                 /\ \A m \in job'[v].retire :
                        /\ m \in table /\ KeyOfMsg(m) \in FileKey
                        /\ KeyOfMsg(m) = KeyOfMsg(job'[v].batch[1])
      <3>1. CASE v = w
        <4>1. job[w].batch # <<>>
          BY <1>1 DEF JobInv
        <4>2. QED
          BY <1>2, <1>6, <3>1, <4>1 DEF BatchKey
      <3>2. CASE v # w
        BY <1>6, <3>2 DEF JobInv, BatchKey
      <3>3. QED
        BY <3>1, <3>2
    <2>2. QED
      BY <1>5, <2>1 DEF JobInv, BatchKey
  <1>11. PhaseInv'
    <2>1. (phase # "flushing" => w # "stop") /\ (phase = "down" => w # "loop")
      BY <1>1 DEF PhaseInv
    <2>2. QED
      BY <1>5, <1>6, <2>1 DEF PhaseInv, Caller
  <1>12. QED
    BY <1>7, <1>8, <1>9, <1>10, <1>11

\* What a commit does to the table.
LEMMA AppliedRows ==
    ASSUME IInv, NEW w \in Caller, job[w].step # "none", Apply(w)
    PROVE  /\ table \subseteq table' /\ table' \in SUBSET Msg
           /\ \A m \in table' : m \in table \/ \E a \in 1 .. Len(job[w].batch) : m = job[w].batch[a]
           /\ job[w].batch[1] \in table'
           /\ validTo' \in [Msg -> Ingest \cup {0}]
           /\ \A m \in Msg : \/ validTo'[m] = validTo[m]
                             \/ /\ validTo[m] = 0 /\ m \in job[w].retire
                                /\ validTo'[m] = job[w].batch[1][1]
  <1>1. /\ job[w].batch \in Seq(Msg) /\ 1 \in 1 .. Len(job[w].batch)
        /\ job[w].batch[1][1] \in Ingest
    BY FirstOfBatch
  <1>2. table' = table \cup {job[w].batch[a] : a \in 1 .. Len(job[w].batch)}
    BY <1>1 DEF Apply, ToSet
  <1>3. validTo' = [m \in Msg |-> IF m \in job[w].retire \cap Current
                                  THEN job[w].batch[1][1] ELSE validTo[m]]
    BY DEF Apply, Retire
  <1>4. table \in SUBSET Msg /\ validTo \in [Msg -> Ingest \cup {0}]
    BY DEF IInv, TypeOK
  <1>5. \A m \in Msg : \/ validTo'[m] = validTo[m]
                       \/ /\ validTo[m] = 0 /\ m \in job[w].retire
                          /\ validTo'[m] = job[w].batch[1][1]
    BY <1>3 DEF Current
  <1>6. validTo' \in [Msg -> Ingest \cup {0}]
    BY <1>1, <1>3, <1>4
  <1>7. \A a \in 1 .. Len(job[w].batch) : job[w].batch[a] \in Msg
    BY <1>1
  <1>8. QED
    BY <1>1, <1>2, <1>4, <1>5, <1>6, <1>7

\* A batch ends, with its rows in the table or without.
Ends(w, ok) ==
    /\ job[w].step # "none"
    /\ Settle(w, ok)
    /\ UNCHANGED database \/ Apply(w)

LEMMA CommitOrFailEnds ==
    ASSUME NEW w \in Caller, Commit(w) \/ Fail(w)
    PROVE  Ends(w, TRUE) \/ Ends(w, FALSE)
  BY DEF Commit, Fail, Ends

LEMMA EndsInvariant ==
    ASSUME IInv, NEW w \in Caller, NEW ok \in BOOLEAN, Ends(w, ok)
    PROVE  IInv'
  <1> USE DEF IInv
  <1>1. /\ job' \in [Caller -> Jobs] /\ job'[w] = NoJob
        /\ \A v \in Caller : v # w => /\ job'[v].step = job[v].step /\ job'[v].batch = job[v].batch
                                      /\ job'[v].retire = job[v].retire
    BY SettledJobs DEF Ends
  <1>2. UNCHANGED <<sent, phase, inbox, received, buffer, window, ripe, round, pledged>>
    BY DEF Ends, Settle, buffers
  <1>3. <<received, written, failed>>' \in Nat \X Nat \X Nat
    <2>1. job[w].batch \in Seq(Msg)
      BY FirstOfBatch DEF Ends
    <2>2. \E n \in Nat : /\ written' = IF ok THEN written + n ELSE written
                         /\ failed' = IF ok THEN failed ELSE failed + n
      <3> DEFINE n == IF w = "loop" /\ phase # "running" THEN 0 ELSE Len(job[w].batch)
      <3>1. n \in Nat
        BY <2>1
      <3>2. /\ written' = IF ok THEN written + n ELSE written
            /\ failed' = IF ok THEN failed ELSE failed + n
        BY DEF Ends, Settle
      <3>3. QED
        BY <3>1, <3>2
    <2>3. received \in Nat /\ written \in Nat /\ failed \in Nat
      BY DEF TypeOK
    <2>4. QED
      BY <1>2, <2>2, <2>3
  <1>4. /\ table \subseteq table' /\ table' \in SUBSET Msg
        /\ validTo' \in [Msg -> Ingest \cup {0}]
        /\ \A m \in Msg : \/ validTo'[m] = validTo[m]
                          \/ /\ m \in job[w].retire /\ validTo'[m] = job[w].batch[1][1]
                             /\ job[w].batch[1] \in table'
    <2>1. CASE UNCHANGED database
      BY <2>1 DEF database, TypeOK
    <2>2. CASE Apply(w)
      BY <2>2, AppliedRows DEF Ends
    <2>3. QED
      BY <2>1, <2>2 DEF Ends
  <1>5. TypeOK'
    BY <1>1, <1>2, <1>3, <1>4 DEF TypeOK, Jobs
  <1>6. WindowInv'
    BY <1>2 DEF WindowInv
  <1>7. KeyInv'
    <2>1. ASSUME NEW v \in Caller, NEW a \in 1 .. Len(job'[v].batch)
          PROVE  KeyOfMsg(job'[v].batch[a]) = KeyOfMsg(job'[v].batch[1])
      <3>1. CASE v = w
        BY <1>1, <2>1, <3>1 DEF NoJob
      <3>2. CASE v # w
        BY <1>1, <2>1, <3>2 DEF KeyInv
      <3>3. QED
        BY <3>1, <3>2
    <2>2. QED
      BY <1>2, <2>1 DEF KeyInv
  <1>8. JobInv'
    <2>1. ASSUME NEW v \in Caller
          PROVE  /\ job'[v].batch = <<>> <=> job'[v].step = "none"
                 /\ job'[v].step # "updated" => job'[v].retire = {}
                 /\ \A m \in job'[v].retire :
                        /\ m \in table' /\ KeyOfMsg(m) \in FileKey
                        /\ KeyOfMsg(m) = KeyOfMsg(job'[v].batch[1])
      <3>1. CASE v = w
        BY <1>1, <3>1 DEF NoJob
      <3>2. CASE v # w
        BY <1>1, <1>4, <3>2 DEF JobInv, BatchKey
      <3>3. QED
        BY <3>1, <3>2
    <2>2. QED
      BY <2>1 DEF JobInv, BatchKey
  <1>9. PhaseInv'
    <2>1. \A v \in Caller : job[v].step = "none" => job'[v].step = "none"
      BY <1>1 DEF NoJob
    <2>2. QED
      BY <1>2, <2>1 DEF PhaseInv, Caller
  <1>10. RetiredInv'
    <2> SUFFICES ASSUME NEW m \in Msg, validTo'[m] # 0
                 PROVE  /\ m \in table' /\ KeyOfMsg(m) \in FileKey
                        /\ KeyOf[validTo'[m]] = KeyOfMsg(m)
                        /\ \E m2 \in table' : m2[1] = validTo'[m]
      BY DEF RetiredInv
    <2>1. CASE validTo'[m] = validTo[m]
      BY <1>4, <2>1 DEF RetiredInv
    <2>2. CASE /\ m \in job[w].retire /\ validTo'[m] = job[w].batch[1][1]
               /\ job[w].batch[1] \in table'
      <3>1. m \in table /\ KeyOfMsg(m) \in FileKey /\ KeyOfMsg(m) = BatchKey(w)
        BY <2>2 DEF JobInv
      <3>2. BatchKey(w) = KeyOf[job[w].batch[1][1]]
        BY DEF BatchKey, KeyOfMsg
      <3>3. QED
        BY <1>4, <2>2, <3>1, <3>2
    <2>3. QED
      BY <1>4, <2>1, <2>2
  <1>11. QED
    BY <1>5, <1>6, <1>7, <1>8, <1>9, <1>10

LEMMA StopInvariant == ASSUME IInv, Stop PROVE IInv'
  <1> USE DEF IInv
  <1>1. /\ phase = "running" /\ phase' = "flushing" /\ round' = window
        /\ pledged' = Buffered
        /\ UNCHANGED <<sent, inbox, received, written, failed>>
        /\ UNCHANGED <<buffer, window, ripe, table, validTo>>
    BY DEF Stop, Stopping, counters, buffers, database
  <1>2. pledged' \in SUBSET Msg
    <2>1. ASSUME NEW k \in Key PROVE ToSet(buffer[k]) \subseteq Msg
      <3>1. buffer[k] \in Seq(Msg)
        BY DEF TypeOK
      <3>2. QED
        BY <3>1 DEF ToSet
    <2>2. QED
      BY <1>1, <2>1 DEF Buffered
  <1>3. /\ job' \in [Caller -> Jobs]
        /\ \A v \in Caller : job'[v] = job[v] \/ job'[v] = NoJob
    <2>1. job \in [Caller -> Jobs] /\ NoJob \in Jobs
      BY DEF TypeOK, Jobs, NoJob
    <2>2. job' = job \/ job' = [job EXCEPT !["loop"] = NoJob]
      BY DEF Stop, Stopping
    <2>3. QED
      BY <2>1, <2>2
  <1>4. TypeOK'
    <2>1. window \in Seq(Key)
      BY DEF TypeOK
    <2>2. QED
      BY <1>1, <1>2, <1>3, <2>1 DEF TypeOK, Jobs
  <1>5. WindowInv'
    <2>1. Len(window) \in Nat
      BY DEF TypeOK
    <2>2. QED
      BY <1>1, <2>1 DEF WindowInv
  <1>6. KeyInv'
    <2>1. ASSUME NEW v \in Caller, NEW a \in 1 .. Len(job'[v].batch)
          PROVE  KeyOfMsg(job'[v].batch[a]) = KeyOfMsg(job'[v].batch[1])
      BY <1>3, <2>1 DEF KeyInv, NoJob
    <2>2. QED
      BY <1>1, <2>1 DEF KeyInv
  <1>7. JobInv'
    <2>1. ASSUME NEW v \in Caller
          PROVE  /\ job'[v].batch = <<>> <=> job'[v].step = "none"
                 /\ job'[v].step # "updated" => job'[v].retire = {}
                 /\ \A m \in job'[v].retire :
                        /\ m \in table /\ KeyOfMsg(m) \in FileKey
                        /\ KeyOfMsg(m) = KeyOfMsg(job'[v].batch[1])
      <3>1. CASE job'[v] = job[v]
        BY <3>1 DEF JobInv, BatchKey
      <3>2. CASE job'[v] = NoJob
        BY <3>2 DEF NoJob
      <3>3. QED
        BY <1>3, <3>1, <3>2
    <2>2. QED
      BY <1>1, <2>1 DEF JobInv, BatchKey
  <1>8. PhaseInv'
    BY <1>1 DEF PhaseInv
  <1>9. RetiredInv'
    BY <1>1 DEF RetiredInv
  <1>10. QED
    BY <1>4, <1>5, <1>6, <1>7, <1>8, <1>9

\* Draining and having drained change the phase only.
LEMMA DrainInvariant == ASSUME IInv, Drain \/ Stopped PROVE IInv'
  <1> USE DEF IInv
  <1>1. /\ phase' \in {"draining", "stopped"} /\ job["stop"].step = "none"
        /\ UNCHANGED <<sent, inbox, received, written, failed, buffer, window, ripe>>
        /\ UNCHANGED <<round, job, table, validTo, pledged>>
    <2>1. CASE Drain
      BY <2>1 DEF Drain, counters, buffers, database, NoJob
    <2>2. CASE Stopped
      BY <2>2 DEF Stopped, counters, buffers, database, PhaseInv
    <2>3. QED
      BY <2>1, <2>2
  <1>2. TypeOK'
    BY <1>1 DEF TypeOK
  <1>3. WindowInv' /\ KeyInv' /\ JobInv' /\ RetiredInv'
    BY <1>1 DEF WindowInv, KeyInv, JobInv, RetiredInv, BatchKey
  <1>4. PhaseInv'
    BY <1>1 DEF PhaseInv
  <1>5. QED
    BY <1>2, <1>3, <1>4

LEMMA GoneInvariant == ASSUME IInv, Gone PROVE IInv'
  <1> USE DEF IInv
  <1>1. /\ phase' = "down" /\ inbox' = <<>> /\ window' = <<>> /\ ripe' = 0 /\ round' = <<>>
        /\ buffer' = [k \in Key |-> <<>>] /\ job' = [w \in Caller |-> NoJob]
        /\ UNCHANGED <<sent, received, written, failed, table, validTo, pledged>>
    BY DEF Gone, counters, database
  <1>2. TypeOK'
    <2>1. NoJob \in Jobs
      BY DEF NoJob, Jobs
    <2>2. /\ inbox' \in Seq(Msg) /\ window' \in Seq(Key) /\ round' \in Seq(Key)
          /\ buffer' \in [Key -> Seq(Msg)] /\ job' \in [Caller -> Jobs]
          /\ ripe' \in 0 .. Len(window')
      BY <1>1, <2>1
    <2>3. QED
      BY <1>1, <2>2 DEF TypeOK, Jobs
  <1>3. WindowInv'
    BY <1>1 DEF WindowInv, Distinct, InQueue
  <1>4. KeyInv' /\ JobInv' /\ PhaseInv'
    BY <1>1 DEF KeyInv, JobInv, PhaseInv, NoJob, Caller
  <1>5. RetiredInv'
    BY <1>1 DEF RetiredInv
  <1>6. QED
    BY <1>2, <1>3, <1>4, <1>5

LEMMA StartInvariant == ASSUME IInv, Start PROVE IInv'
  <1> USE DEF IInv
  <1>1. /\ phase = "down" /\ phase' = "running"
        /\ received' = 0 /\ written' = 0 /\ failed' = 0 /\ pledged' = {}
        /\ UNCHANGED <<sent, inbox, buffer, window, ripe, round, job, table, validTo>>
    BY DEF Start, buffers, database
  <1>2. TypeOK'
    BY <1>1 DEF TypeOK
  <1>3. WindowInv' /\ KeyInv' /\ JobInv' /\ RetiredInv' /\ PhaseInv'
    BY <1>1 DEF WindowInv, KeyInv, JobInv, RetiredInv, PhaseInv, BatchKey
  <1>4. QED
    BY <1>2, <1>3

LEMMA NextInvariant == ASSUME IInv, [Next]_vars PROVE IInv'
  <1>1. ASSUME NEW i \in Ingest, Publish(i) PROVE IInv'
    BY <1>1, PublishInvariant
  <1>2. ASSUME NEW w \in Caller, FlushOne(w) PROVE IInv'
    BY <1>2, FlushOneInvariant
  <1>3. ASSUME NEW w \in Caller, Supersede(w) PROVE IInv'
    BY <1>3, SupersedeInvariant
  <1>4. ASSUME NEW w \in Caller, Commit(w) \/ Fail(w) PROVE IInv'
    <2>1. \E ok \in BOOLEAN : Ends(w, ok)
      BY <1>4, CommitOrFailEnds
    <2>2. QED
      BY <2>1, EndsInvariant
  <1>5. CASE OnMessage
    BY <1>5, OnMessageInvariant
  <1>6. CASE Ripen \/ Wake
    BY <1>6, RipenInvariant, WakeInvariant
  <1>7. CASE Stop \/ Drain \/ Stopped
    BY <1>7, StopInvariant, DrainInvariant
  <1>8. CASE Exit \/ Crash
    BY <1>8, GoneInvariant DEF Exit, Crash
  <1>9. CASE Start
    BY <1>9, StartInvariant
  <1>10. CASE UNCHANGED vars
    <2>1. /\ UNCHANGED <<sent, phase, inbox, received, written, failed, buffer, window, ripe>>
          /\ UNCHANGED <<round, job, table, validTo, pledged>>
      BY <1>10 DEF vars, counters, buffers, database
    <2>2. QED
      BY <2>1 DEF IInv, TypeOK, WindowInv, KeyInv, JobInv, PhaseInv, RetiredInv, BatchKey
  <1>11. QED
    BY <1>1, <1>2, <1>3, <1>4, <1>5, <1>6, <1>7, <1>8, <1>9, <1>10 DEF Next

\* The inductive invariant holds throughout.
THEOREM Invariance == Spec => []IInv
  BY InitInvariant, NextInvariant, PTL DEF Spec

\* The counters, buffers and batches have their types.
THEOREM Typing == Spec => []TypeOK
  BY Invariance, PTL DEF IInv

\* supersede_prior and insert_ctos in one transaction: a retired row, of
\* whatever ingest and however the batches fail, has beside it a row of the
\* ingest that retired it, of the same file by the same path.
THEOREM RetiredWithItsSuccessor == Spec => []RetiredByStored
  <1>1. IInv => RetiredByStored
    BY DEF IInv, TypeOK, RetiredInv, RetiredByStored
  <1>2. QED
    BY <1>1, Invariance, PTL

\* No step deletes a row or writes the valid_to of a row that is retired.
LEMMA NextHistory ==
    ASSUME IInv, [Next]_vars
    PROVE  /\ table \subseteq table'
           /\ \A m \in Msg : validTo[m] # 0 => validTo'[m] = validTo[m]
  <1>1. CASE UNCHANGED database
    BY <1>1 DEF database
  <1>2. ASSUME NEW w \in Caller, Commit(w) \/ Fail(w), ~ UNCHANGED database
        PROVE  /\ table \subseteq table'
               /\ \A m \in Msg : validTo[m] # 0 => validTo'[m] = validTo[m]
    <2>1. job[w].step # "none" /\ Apply(w)
      BY <1>2 DEF Commit, Fail
    <2>2. QED
      BY <2>1, AppliedRows
  <1>3. ASSUME ~ UNCHANGED database
        PROVE  \E w \in Caller : Commit(w) \/ Fail(w)
    <2>1. \A i \in Ingest : Publish(i) => UNCHANGED database
      BY DEF Publish
    <2>2. \A w \in Caller : FlushOne(w) \/ Supersede(w) => UNCHANGED database
      BY DEF FlushOne, Flush, Supersede
    <2>3. OnMessage \/ Ripen \/ Wake => UNCHANGED database
      BY DEF OnMessage, Ripen, Wake
    <2>4. Stop \/ Drain \/ Stopped => UNCHANGED database
      BY DEF Stop, Stopping, Drain, Stopped
    <2>5. Exit \/ Crash \/ Start => UNCHANGED database
      BY DEF Exit, Crash, Gone, Start
    <2>6. UNCHANGED vars => UNCHANGED database
      BY DEF vars
    <2>7. QED
      BY <1>3, <2>1, <2>2, <2>3, <2>4, <2>5, <2>6 DEF Next
  <1>4. QED
    BY <1>1, <1>2, <1>3

\* The UPDATE of supersede_prior sets valid_to where it IS NULL, and nothing
\* deletes: the history of the table only grows, two transactions racing for
\* the same rows included.
THEOREM HistoryGrows == Spec => HistoryKept
  <1>1. IInv /\ [Next]_vars =>
            [/\ table \subseteq table'
             /\ \A m \in Msg : validTo[m] # 0 => validTo'[m] = validTo[m]]_vars
    BY NextHistory
  <1>2. QED
    BY <1>1, Invariance, PTL DEF Spec, HistoryKept

(***************************************************************************)
(* The counters add up.                                                    *)
(***************************************************************************)

\* The messages in the buffers.
Lengths == [k \in Key |-> Len(buffer[k])]

LEMMA LengthsType == ASSUME TypeOK PROVE Lengths \in [Key -> Nat]
  <1>1. \A k \in Key : buffer[k] \in Seq(Msg)
    BY DEF TypeOK
  <1>2. \A k \in Key : Len(buffer[k]) \in Nat
    BY <1>1
  <1>3. QED
    BY <1>2 DEF Lengths

LEMMA NextAccounted ==
    ASSUME IInv, IInv', Accounted, Next
    PROVE  Accounted'
  <1> DEFINE Sum == SumFunction(Lengths)
             Loop == Len(job["loop"].batch)
  <1>1. /\ IsFiniteSet(Key) /\ Lengths \in [Key -> Nat] /\ Sum \in Nat
        /\ Lengths' \in [Key -> Nat] /\ Sum' \in Nat
    <2>1. IsFiniteSet(Key) /\ Lengths \in [Key -> Nat]
      BY OpstoreAssumption, LengthsType DEF IInv
    <2>2. Lengths' \in [Key -> Nat]
      <3>1. \A k \in Key : buffer'[k] \in Seq(Msg)
        BY DEF IInv, TypeOK
      <3>2. \A k \in Key : Len(buffer'[k]) \in Nat
        BY <3>1
      <3>3. QED
        BY <3>2 DEF Lengths
    <2>3. QED
      BY <2>1, <2>2, SumIsNat
  <1>2. /\ job["loop"].batch \in Seq(Msg) /\ Loop \in Nat
        /\ received \in Nat /\ written \in Nat /\ failed \in Nat
    <2>1. "loop" \in Caller
      BY DEF Caller
    <2>2. job["loop"].batch \in Seq(Msg)
      BY <2>1 DEF IInv, TypeOK
    <2>3. Loop \in Nat
      BY <2>2
    <2>4. received \in Nat /\ written \in Nat /\ failed \in Nat
      BY DEF IInv, TypeOK
    <2>5. QED
      BY <2>2, <2>3, <2>4
  <1>3. Accounted <=> (phase = "running" => received = written + failed + Loop + Sum)
    BY DEF Accounted, Lengths
  <1>4. Accounted' <=> (phase' = "running" => received' = written' + failed' + Loop' + Sum')
    BY DEF Accounted, Lengths
  <1> SUFFICES ASSUME phase' = "running"
               PROVE  received' = written' + failed' + Loop' + Sum'
    BY <1>4
  <1>5. CASE /\ UNCHANGED <<phase, received, written, failed, buffer>>
             /\ job'["loop"].batch = job["loop"].batch
    BY <1>3, <1>5 DEF Accounted, Lengths
  <1>6. CASE OnMessage
    <2> DEFINE m == Head(inbox)
               k == KeyOfMsg(m)
    <2>1. /\ m \in Msg /\ k \in Key
          /\ received' = received + 1
          /\ UNCHANGED <<phase, written, job>>
      <3>1. inbox \in Seq(Msg) /\ inbox # <<>>
        BY <1>6 DEF IInv, OnMessage, TypeOK
      <3>2. m \in Msg
        BY <3>1
      <3>3. QED
        BY <1>6, <3>2, Messages DEF OnMessage
    <2>2. received = written + failed + Loop + Sum
      BY <1>3, <2>1
    <2>3. CASE m \in Malformed
      <3>1. failed' = failed + 1 /\ buffer' = buffer
        BY <1>6, <2>3 DEF OnMessage
      <3>2. Sum' = Sum /\ Loop' = Loop
        BY <2>1, <3>1 DEF Lengths
      <3> HIDE DEF Sum, Loop
      <3>3. QED
        BY <1>1, <1>2, <2>1, <2>2, <3>1, <3>2
    <2>4. CASE m \notin Malformed
      <3>1. failed' = failed /\ buffer' = [buffer EXCEPT ![k] = Append(@, m)]
        BY <1>6, <2>4 DEF OnMessage
      <3>2. buffer[k] \in Seq(Msg) /\ buffer \in [Key -> Seq(Msg)]
        BY <2>1 DEF IInv, TypeOK
      <3> HIDE DEF m, k
      <3>3. /\ Len(buffer'[k]) = Len(buffer[k]) + 1
            /\ \A j \in Key : j # k => buffer'[j] = buffer[j]
        BY <2>1, <3>1, <3>2
      <3>4. Lengths'[k] = Lengths[k] + 1 /\ \A j \in Key : j # k => Lengths[j] = Lengths'[j]
        BY <2>1, <3>3 DEF Lengths
      <3>5. Sum + Lengths'[k] = Sum' + Lengths[k]
        BY <1>1, <2>1, <3>4, SumChange
      <3>6. Loop' = Loop /\ Lengths[k] \in Nat
        BY <1>1, <2>1
      <3> HIDE DEF Sum, Loop
      <3>7. Sum' = Sum + 1
        BY <1>1, <3>4, <3>5, <3>6
      <3>8. QED
        BY <1>1, <1>2, <2>1, <2>2, <3>1, <3>6, <3>7
    <2>5. QED
      BY <2>3, <2>4
  <1>7. ASSUME NEW w \in Caller, FlushOne(w)
        PROVE  received' = written' + failed' + Loop' + Sum'
    <2> DEFINE k == Head(round)
    <2>1. /\ phase = "running" /\ w = "loop" /\ k \in Key
          /\ UNCHANGED <<received, written, failed>>
          /\ buffer' = [buffer EXCEPT ![k] = <<>>]
          /\ job["loop"] = NoJob /\ job'["loop"].batch = buffer[k]
      BY <1>7, FlushOldest DEF counters
    <2>2. buffer \in [Key -> Seq(Msg)]
      BY DEF IInv, TypeOK
    <2> HIDE DEF k
    <2>3. /\ Len(buffer'[k]) = 0
          /\ \A j \in Key : j # k => buffer'[j] = buffer[j]
      BY <2>1, <2>2
    <2>4. /\ Lengths'[k] = 0 /\ Lengths[k] = Len(buffer[k]) /\ Lengths[k] \in Nat
          /\ \A j \in Key : j # k => Lengths[j] = Lengths'[j]
      BY <1>1, <2>1, <2>3 DEF Lengths
    <2>5. Sum + Lengths'[k] = Sum' + Lengths[k]
      <3>1. k \in Key /\ \A j \in Key : j # k => Lengths[j] = Lengths'[j]
        BY <2>1, <2>4
      <3>2. QED
        BY <1>1, <3>1, SumChange
    <2>6. Loop = 0 /\ Loop' = Lengths[k]
      BY <2>1, <2>4 DEF NoJob
    <2>7. received = written + failed + Loop + Sum
      BY <1>3, <2>1
    <2>8. Sum = Sum' + Loop'
      BY <1>1, <2>4, <2>5, <2>6
    <2> HIDE DEF Sum, Loop
    <2>9. QED
      BY <1>1, <1>2, <2>1, <2>6, <2>7, <2>8
  <1>8. ASSUME NEW w \in Caller, NEW ok \in BOOLEAN, Ends(w, ok)
        PROVE  received' = written' + failed' + Loop' + Sum'
    <2>1. phase = "running" /\ UNCHANGED <<received, buffer>>
      BY <1>8 DEF Ends, Settle, buffers
    <2>2. w = "loop"
      BY <1>8, <2>1 DEF Ends, IInv, PhaseInv, Caller
    <2>3. job'["loop"] = NoJob
      BY <1>8, <2>2, SettledJobs DEF Ends, IInv
    <2>4. \/ written' = written + Loop /\ failed' = failed
          \/ written' = written /\ failed' = failed + Loop
      BY <1>8, <2>1, <2>2 DEF Ends, Settle
    <2>5. Loop' = 0 /\ Sum' = Sum
      BY <2>1, <2>3 DEF NoJob, Lengths
    <2>6. received = written + failed + Loop + Sum
      BY <1>3, <2>1
    <2> HIDE DEF Sum, Loop
    <2>7. QED
      BY <1>1, <1>2, <2>1, <2>4, <2>5, <2>6
  <1>9. CASE Start
    <2>1. /\ phase = "down" /\ received' = 0 /\ written' = 0 /\ failed' = 0
          /\ UNCHANGED <<buffer, job>>
      BY <1>9 DEF Start, buffers
    <2>2. "loop" \in Caller /\ job["loop"].step = "none" /\ \A k \in Key : buffer[k] = <<>>
      BY <2>1 DEF IInv, PhaseInv, Caller
    <2>3. job["loop"].batch = <<>>
      BY <2>2 DEF IInv, JobInv
    <2>4. Lengths' = Lengths /\ \A k \in Key : Lengths[k] = 0
      BY <2>1, <2>2 DEF Lengths
    <2>5. Sum = 0
      BY <1>1, <2>4, SumOfZeros
    <2>6. Sum' = 0 /\ Loop' = 0
      BY <2>1, <2>3, <2>4, <2>5
    <2> HIDE DEF Sum, Loop
    <2>7. QED
      BY <2>1, <2>6
  <1>10. ASSUME NEW w \in Caller, Supersede(w)
         PROVE  received' = written' + failed' + Loop' + Sum'
    <2>1. /\ UNCHANGED <<phase, received, written, failed, buffer>>
          /\ job'["loop"].batch = job["loop"].batch
      <3> DEFINE blocked == Prior(w) \cap job[Other(w)].retire # {}
                 new == [job[w] EXCEPT !.step = "updated", !.retire = Prior(w), !.blocked = blocked]
      <3>1. job \in [Caller -> Jobs] /\ "loop" \in Caller
        BY DEF IInv, TypeOK, Jobs, Caller
      <3>2. new.batch = job[w].batch
        BY <3>1 DEF Jobs
      <3>3. job' = [job EXCEPT ![w] = new]
        BY <1>10 DEF Supersede
      <3> HIDE DEF new
      <3>4. QED
        BY <1>10, <3>1, <3>2, <3>3 DEF Supersede, counters, buffers
    <2>2. QED
      BY <1>5, <2>1
  <1>11. ASSUME NEW i \in Ingest, Publish(i)
         PROVE  received' = written' + failed' + Loop' + Sum'
    BY <1>5, <1>11 DEF Publish, counters, buffers
  <1>12. CASE Ripen \/ Wake
    BY <1>5, <1>12 DEF Ripen, Wake, counters, buffers
  <1>13. ~ (Stop \/ Drain \/ Stopped \/ Exit \/ Crash)
    BY DEF Stop, Stopping, Drain, Stopped, Exit, Crash, Gone
  <1>14. QED
    BY <1>6, <1>7, <1>8, <1>9, <1>10, <1>11, <1>12, <1>13, CommitOrFailEnds DEF Next

\* Until the stop, received is written and failed and what is under way: no
\* message the callback took is counted twice or forgotten.
THEOREM CountersAddUp == Spec => []Accounted
  <1>1. Init => Accounted
    <2> SUFFICES ASSUME Init PROVE Accounted
      OBVIOUS
    <2>1. IsFiniteSet(Key) /\ Lengths \in [Key -> Nat]
      BY OpstoreAssumption, InitInvariant, LengthsType DEF IInv
    <2>2. \A k \in Key : Lengths[k] = 0
      BY DEF Init, Lengths
    <2>3. SumFunction(Lengths) = 0
      BY <2>1, <2>2, SumOfZeros
    <2>4. job["loop"].batch = <<>> /\ received = 0 /\ written = 0 /\ failed = 0
      BY DEF Init, NoJob, Caller
    <2>5. QED
      BY <2>3, <2>4 DEF Accounted, Lengths
  <1>2. IInv /\ IInv' /\ Accounted /\ [Next]_vars => Accounted'
    <2>1. CASE Next
      BY <2>1, NextAccounted
    <2>2. CASE UNCHANGED vars
      BY <2>2 DEF Accounted, vars, counters, buffers
    <2>3. QED
      BY <2>1, <2>2
  <1>3. QED
    BY <1>1, <1>2, Invariance, PTL DEF Spec

(***************************************************************************)
(* The stop flushes what is buffered.                                      *)
(***************************************************************************)

\* What a publication does to the inbox.
LEMMA Published ==
    ASSUME TypeOK, NEW i \in Ingest, Publish(i)
    PROVE  LET new == <<i, sent[i] + 1>>
           IN  /\ new \in Msg /\ new[1] = i /\ new[2] = sent[i] + 1
               /\ sent[i] \in Nat /\ sent' \in [Ingest -> Nat] /\ sent'[i] = sent[i] + 1
               /\ \A j \in Ingest : j # i => sent'[j] = sent[j]
               /\ \A m \in Msg : m[2] <= sent[m[1]] => m[2] <= sent'[m[1]] /\ m # new
               /\ inbox \in Seq(Msg)
               /\ inbox' = Append(inbox, new) \/ inbox' = inbox
               /\ UNCHANGED <<phase, counters, buffers, round, job, database, pledged>>
  <1> DEFINE new == <<i, sent[i] + 1>>
  <1>1. SizeOf[i] \in Nat /\ sent[i] \in Nat /\ sent \in [Ingest -> Nat] /\ inbox \in Seq(Msg)
    BY OpstoreAssumption DEF TypeOK
  <1>2. /\ sent' = [sent EXCEPT ![i] = @ + 1] /\ sent[i] < SizeOf[i]
        /\ inbox' = Append(inbox, <<i, sent'[i]>>) \/ inbox' = inbox
        /\ UNCHANGED <<phase, counters, buffers, round, job, database, pledged>>
    BY DEF Publish
  <1>3. sent' \in [Ingest -> Nat] /\ sent'[i] = sent[i] + 1
        /\ \A j \in Ingest : j # i => sent'[j] = sent[j]
    BY <1>1, <1>2
  <1>4. new \in Msg
    BY <1>1, <1>2, Messages
  <1>5. ASSUME NEW m \in Msg, m[2] <= sent[m[1]]
        PROVE  m[2] <= sent'[m[1]] /\ m # new
    <2>1. m[1] \in Ingest /\ m[2] \in Nat /\ sent[m[1]] \in Nat
      BY <1>1, Messages
    <2>2. CASE m[1] = i
      BY <1>1, <1>3, <1>5, <2>1, <2>2
    <2>3. CASE m[1] # i
      BY <1>3, <1>5, <2>1, <2>3
    <2>4. QED
      BY <2>2, <2>3
  <1>6. QED
    BY <1>1, <1>2, <1>3, <1>4, <1>5

\* What the callback does to the inbox and the buffers.
LEMMA Taken ==
    ASSUME IInv, OnMessage
    PROVE  LET m == Head(inbox)
               k == KeyOfMsg(m)
           IN  /\ inbox \in Seq(Msg) /\ inbox # <<>> /\ m \in Msg /\ k \in Key
               /\ inbox' = Tail(inbox)
               /\ \/ buffer' = buffer
                  \/ /\ Len(buffer[k]) \in Nat /\ Len(buffer'[k]) = Len(buffer[k]) + 1
                     /\ buffer'[k][Len(buffer[k]) + 1] = m
                     /\ \A a \in 1 .. Len(buffer[k]) : buffer'[k][a] = buffer[k][a]
                     /\ \A j \in Key : j # k => buffer'[j] = buffer[j]
               /\ phase # "stopped" /\ phase # "down"
               /\ UNCHANGED <<sent, phase, round, job, database, pledged>>
  <1> DEFINE m == Head(inbox)
             k == KeyOfMsg(m)
  <1>1. /\ inbox \in Seq(Msg) /\ inbox # <<>> /\ m \in Msg /\ k \in Key
        /\ inbox' = Tail(inbox)
        /\ phase \in {"running", "flushing", "draining"}
        /\ UNCHANGED <<sent, phase, round, job, database, pledged>>
    BY Messages DEF IInv, OnMessage, TypeOK
  <1>2. buffer' = buffer \/ buffer' = [buffer EXCEPT ![k] = Append(@, m)]
    BY DEF OnMessage
  <1>3. buffer \in [Key -> Seq(Msg)]
    BY DEF IInv, TypeOK
  <1> HIDE DEF m, k
  <1>4. CASE buffer' = [buffer EXCEPT ![k] = Append(@, m)]
    <2>1. buffer[k] \in Seq(Msg) /\ buffer'[k] = Append(buffer[k], m)
      BY <1>1, <1>3, <1>4
    <2>2. /\ Len(buffer[k]) \in Nat /\ Len(buffer'[k]) = Len(buffer[k]) + 1
          /\ buffer'[k][Len(buffer[k]) + 1] = m
          /\ \A a \in 1 .. Len(buffer[k]) : buffer'[k][a] = buffer[k][a]
      BY <1>1, <2>1
    <2>3. \A j \in Key : j # k => buffer'[j] = buffer[j]
      BY <1>3, <1>4
    <2>4. QED
      BY <1>1, <2>2, <2>3 DEF m, k
  <1>5. QED
    BY <1>1, <1>2, <1>4 DEF m, k

LEMMA NextOnce == ASSUME IInv, OnceInv, [Next]_vars PROVE OnceInv'
  <1>1. /\ buffer \in [Key -> Seq(Msg)] /\ inbox \in Seq(Msg) /\ sent \in [Ingest -> Nat]
    BY DEF IInv, TypeOK
  <1>2. ASSUME UNCHANGED <<sent, inbox, buffer>> PROVE OnceInv'
    BY <1>2 DEF OnceInv
  <1>3. ASSUME NEW i \in Ingest, Publish(i) PROVE OnceInv'
    <2> DEFINE new == <<i, sent[i] + 1>>
    <2>1. /\ new \in Msg /\ new[1] = i /\ new[2] = sent[i] + 1
          /\ sent[i] \in Nat /\ sent' \in [Ingest -> Nat] /\ sent'[i] = sent[i] + 1
          /\ \A j \in Ingest : j # i => sent'[j] = sent[j]
          /\ inbox' = Append(inbox, new) \/ inbox' = inbox
          /\ UNCHANGED buffer
      BY <1>3, Published DEF IInv, buffers
    <2> HIDE DEF new
    <2>2. \A m \in Msg : m[2] <= sent[m[1]] => m[2] <= sent'[m[1]] /\ m # new
      BY <1>3, Published DEF IInv, new
    <2>3. \A a \in 1 .. Len(inbox) : inbox[a] \in Msg /\ inbox[a][2] <= sent[inbox[a][1]]
      BY <1>1 DEF OnceInv
    <2>4. ~ InQueue(inbox, new)
      BY <2>2, <2>3 DEF InQueue
    <2>5. /\ Distinct(inbox') /\ \A y : InQueue(inbox', y) => InQueue(inbox, y) \/ y = new
      <3>1. Distinct(inbox)
        BY DEF OnceInv
      <3>2. /\ Distinct(Append(inbox, new))
            /\ \A y : InQueue(Append(inbox, new), y) => InQueue(inbox, y) \/ y = new
        BY <1>1, <2>1, <2>4, <3>1, QueueJoin
      <3>3. CASE inbox' = Append(inbox, new)
        BY <3>2, <3>3
      <3>4. CASE inbox' = inbox
        BY <3>1, <3>4
      <3>5. QED
        BY <2>1, <3>3, <3>4
    <2>6. \A a \in 1 .. Len(inbox') : inbox'[a][2] <= sent'[inbox'[a][1]]
      <3>1. new[2] <= sent'[new[1]]
        BY <2>1
      <3>2. CASE inbox' = Append(inbox, new)
        <4>1. /\ Len(inbox') = Len(inbox) + 1 /\ Len(inbox) \in Nat
              /\ inbox'[Len(inbox) + 1] = new
              /\ \A a \in 1 .. Len(inbox) : inbox'[a] = inbox[a]
          BY <1>1, <2>1, <3>2
        <4>2. QED
          BY <2>2, <2>3, <3>1, <4>1
      <3>3. CASE inbox' = inbox
        BY <2>2, <2>3, <3>3
      <3>4. QED
        BY <2>1, <3>2, <3>3
    <2>7. ASSUME NEW k \in Key, NEW a \in 1 .. Len(buffer'[k])
          PROVE  buffer'[k][a][2] <= sent'[buffer'[k][a][1]] /\ ~ InQueue(inbox', buffer'[k][a])
      <3>1. buffer'[k] = buffer[k] /\ a \in 1 .. Len(buffer[k]) /\ buffer[k] \in Seq(Msg)
        BY <1>1, <2>1, <2>7
      <3>2. /\ buffer[k][a] \in Msg /\ buffer[k][a][2] <= sent[buffer[k][a][1]]
            /\ ~ InQueue(inbox, buffer[k][a])
        BY <3>1 DEF OnceInv
      <3>3. QED
        BY <2>2, <2>5, <3>1, <3>2
    <2>8. QED
      BY <2>5, <2>6, <2>7 DEF OnceInv
  <1>4. CASE OnMessage
    <2> DEFINE m == Head(inbox)
               q == KeyOfMsg(m)
    <2>1. /\ inbox # <<>> /\ m \in Msg /\ q \in Key /\ inbox' = Tail(inbox) /\ sent' = sent
          /\ \/ buffer' = buffer
             \/ /\ Len(buffer[q]) \in Nat /\ Len(buffer'[q]) = Len(buffer[q]) + 1
                /\ buffer'[q][Len(buffer[q]) + 1] = m
                /\ \A a \in 1 .. Len(buffer[q]) : buffer'[q][a] = buffer[q][a]
                /\ \A j \in Key : j # q => buffer'[j] = buffer[j]
      BY <1>4, Taken
    <2>2. m = inbox[1] /\ 1 \in 1 .. Len(inbox) /\ m[2] <= sent[m[1]]
      BY <1>1, <2>1 DEF OnceInv
    <2>3. /\ Distinct(inbox') /\ ~ InQueue(inbox', m)
          /\ \A y : InQueue(inbox', y) => InQueue(inbox, y)
      BY <1>1, <2>1, QueueLeave DEF OnceInv
    <2> HIDE DEF m, q
    <2>4. \A a \in 1 .. Len(inbox') : inbox'[a][2] <= sent'[inbox'[a][1]]
      <3>1. /\ Len(inbox') = Len(inbox) - 1 /\ Len(inbox) \in Nat
            /\ \A a \in 1 .. Len(inbox) - 1 : inbox'[a] = inbox[a + 1]
        BY <1>1, <2>1
      <3>2. ASSUME NEW a \in 1 .. Len(inbox') PROVE inbox'[a][2] <= sent'[inbox'[a][1]]
        <4>1. a + 1 \in 1 .. Len(inbox) /\ inbox'[a] = inbox[a + 1]
          BY <3>1, <3>2
        <4>2. QED
          BY <2>1, <4>1 DEF OnceInv
      <3>3. QED
        BY <3>2
    <2>5. ASSUME NEW k \in Key, NEW a \in 1 .. Len(buffer'[k])
          PROVE  buffer'[k][a][2] <= sent'[buffer'[k][a][1]] /\ ~ InQueue(inbox', buffer'[k][a])
      <3>1. \/ a \in 1 .. Len(buffer[k]) /\ buffer'[k][a] = buffer[k][a]
            \/ buffer'[k][a] = m
        BY <2>1, <2>5
      <3>2. CASE a \in 1 .. Len(buffer[k]) /\ buffer'[k][a] = buffer[k][a]
        BY <2>1, <2>3, <3>2 DEF OnceInv
      <3>3. CASE buffer'[k][a] = m
        BY <2>1, <2>2, <2>3, <3>3
      <3>4. QED
        BY <3>1, <3>2, <3>3
    <2>6. QED
      BY <2>3, <2>4, <2>5 DEF OnceInv
  <1>5. ASSUME NEW w \in Caller, FlushOne(w) PROVE OnceInv'
    <2> DEFINE k == Head(round)
    <2>1. k \in Key /\ buffer' = [buffer EXCEPT ![k] = <<>>] /\ UNCHANGED <<sent, inbox>>
      BY <1>5, FlushOldest
    <2> HIDE DEF k
    <2>2. \A j \in Key : buffer'[j] = buffer[j] \/ Len(buffer'[j]) = 0
      BY <1>1, <2>1
    <2>3. QED
      BY <2>1, <2>2 DEF OnceInv
  <1>6. CASE Exit \/ Crash
    BY <1>6 DEF Exit, Crash, Gone, OnceInv, Distinct, InQueue
  <1>7. ASSUME NEW w \in Caller, Supersede(w) \/ Commit(w) \/ Fail(w) PROVE OnceInv'
    BY <1>2, <1>7 DEF Supersede, Commit, Fail, Settle, buffers
  <1>8. CASE Ripen \/ Wake \/ Stop \/ Drain \/ Stopped \/ Start
    BY <1>2, <1>8 DEF Ripen, Wake, Stop, Stopping, Drain, Stopped, Start, buffers
  <1>9. CASE UNCHANGED vars
    BY <1>2, <1>9 DEF vars, buffers
  <1>10. QED
    BY <1>3, <1>4, <1>5, <1>6, <1>7, <1>8, <1>9 DEF Next

LEMMA NextPledge == ASSUME IInv, OnceInv, PledgeInv, [Next]_vars PROVE PledgeInv'
  <1>1. /\ buffer \in [Key -> Seq(Msg)] /\ inbox \in Seq(Msg) /\ sent \in [Ingest -> Nat]
        /\ pledged \in SUBSET Msg /\ round \in Seq(Key)
    BY DEF IInv, TypeOK
  <1>2. ASSUME UNCHANGED <<sent, inbox, buffer, phase, round, pledged>> PROVE PledgeInv'
    BY <1>2 DEF PledgeInv
  <1>3. ASSUME NEW i \in Ingest, Publish(i) PROVE PledgeInv'
    <2> DEFINE new == <<i, sent[i] + 1>>
    <2>1. /\ new \in Msg /\ new[1] = i /\ new[2] = sent[i] + 1
          /\ sent[i] \in Nat /\ sent' \in [Ingest -> Nat] /\ sent'[i] = sent[i] + 1
          /\ \A j \in Ingest : j # i => sent'[j] = sent[j]
          /\ inbox' = Append(inbox, new) \/ inbox' = inbox
          /\ UNCHANGED <<phase, buffer, round, pledged>>
      BY <1>3, Published DEF IInv, buffers
    <2> HIDE DEF new
    <2>2. \A m \in Msg : m[2] <= sent[m[1]] => m[2] <= sent'[m[1]] /\ m # new
      BY <1>3, Published DEF IInv, new
    <2>3. \A y : InQueue(inbox', y) => InQueue(inbox, y) \/ y = new
      <3>1. \A y : InQueue(Append(inbox, new), y) => InQueue(inbox, y) \/ y = new
        BY <1>1, <2>1, QueueJoin
      <3>2. CASE inbox' = Append(inbox, new)
        BY <3>1, <3>2
      <3>3. CASE inbox' = inbox
        BY <3>3
      <3>4. QED
        BY <2>1, <3>2, <3>3
    <2>4. \A m \in pledged : m[2] <= sent'[m[1]] /\ ~ InQueue(inbox', m)
      BY <1>1, <2>2, <2>3 DEF PledgeInv
    <2>5. QED
      BY <2>1, <2>4 DEF PledgeInv
  <1>4. CASE OnMessage
    <2> DEFINE m == Head(inbox)
               q == KeyOfMsg(m)
    <2>1. /\ inbox # <<>> /\ m \in Msg /\ q \in Key /\ inbox' = Tail(inbox)
          /\ \/ buffer' = buffer
             \/ /\ Len(buffer[q]) \in Nat /\ Len(buffer'[q]) = Len(buffer[q]) + 1
                /\ buffer'[q][Len(buffer[q]) + 1] = m
                /\ \A a \in 1 .. Len(buffer[q]) : buffer'[q][a] = buffer[q][a]
                /\ \A j \in Key : j # q => buffer'[j] = buffer[j]
          /\ UNCHANGED <<sent, phase, round, pledged>>
      BY <1>4, Taken
    <2>2. m = inbox[1] /\ 1 \in 1 .. Len(inbox) /\ InQueue(inbox, m)
      BY <1>1, <2>1 DEF InQueue
    <2>3. \A y : InQueue(inbox', y) => InQueue(inbox, y)
      BY <1>1, <2>1, QueueLeave
    <2> HIDE DEF m, q
    <2>4. m \notin pledged /\ \A y \in pledged : y[2] <= sent'[y[1]] /\ ~ InQueue(inbox', y)
      BY <2>1, <2>2, <2>3 DEF PledgeInv
    <2>5. ASSUME NEW k \in Key, NEW a \in 1 .. Len(buffer'[k])
          PROVE  \/ a \in 1 .. Len(buffer[k]) /\ buffer'[k][a] = buffer[k][a]
                 \/ buffer'[k][a] = m
      BY <2>1, <2>5
    <2>6. QED
      BY <2>1, <2>4, <2>5 DEF PledgeInv
  <1>5. ASSUME NEW w \in Caller, FlushOne(w) PROVE PledgeInv'
    <2> DEFINE k == Head(round)
    <2>1. /\ phase # "draining" /\ phase # "stopped" /\ round # <<>>
          /\ k \in Key /\ buffer' = [buffer EXCEPT ![k] = <<>>]
          /\ round' = Tail(round)
          /\ UNCHANGED <<sent, phase, inbox, pledged>>
      BY <1>5, FlushOldest
    <2>2. \A y : InQueue(round, y) /\ y # k => InQueue(round', y)
      BY <1>1, <2>1, QueueLeave
    <2> HIDE DEF k
    <2>3. /\ Len(buffer'[k]) = 0
          /\ \A j \in Key : j # k => buffer'[j] = buffer[j]
      BY <1>1, <2>1
    <2>4. ASSUME phase = "flushing", NEW j \in Key, NEW a \in 1 .. Len(buffer'[j]),
                 buffer'[j][a] \in pledged
          PROVE  InQueue(round', j)
      <3>1. j # k
        BY <2>3, <2>4
      <3>2. a \in 1 .. Len(buffer[j]) /\ buffer[j][a] \in pledged
        BY <2>3, <2>4, <3>1
      <3>3. QED
        BY <2>2, <2>4, <3>1, <3>2 DEF PledgeInv
    <2>5. QED
      BY <2>1, <2>4 DEF PledgeInv
  <1>6. CASE Exit \/ Crash
    BY <1>6 DEF Exit, Crash, Gone, InQueue, PledgeInv
  <1>7. ASSUME NEW w \in Caller, Supersede(w) \/ Commit(w) \/ Fail(w) PROVE PledgeInv'
    BY <1>2, <1>7 DEF Supersede, Commit, Fail, Settle, buffers
  <1>8. CASE Ripen
    BY <1>2, <1>8 DEF Ripen
  <1>9. CASE Wake
    BY <1>9 DEF Wake, buffers, PledgeInv
  <1>10. CASE Stop
    <2>1. /\ phase' = "flushing" /\ round' = window /\ pledged' = Buffered
          /\ UNCHANGED <<sent, inbox, buffer>>
      BY <1>10 DEF Stop, Stopping, buffers
    <2>2. ASSUME NEW m \in Buffered PROVE m[2] <= sent[m[1]] /\ ~ InQueue(inbox, m)
      <3>1. PICK k \in Key : m \in ToSet(buffer[k])
        BY <2>2 DEF Buffered
      <3>2. buffer[k] \in Seq(Msg)
        BY <1>1
      <3>3. PICK a \in 1 .. Len(buffer[k]) : m = buffer[k][a]
        BY <3>1, <3>2 DEF ToSet
      <3>4. QED
        BY <3>3 DEF OnceInv
    <2>3. ASSUME NEW k \in Key, NEW a \in 1 .. Len(buffer[k]) PROVE InQueue(window, k)
      <3>1. buffer[k] # <<>>
        BY <2>3
      <3>2. QED
        BY <3>1 DEF IInv, WindowInv
    <2>4. QED
      BY <2>1, <2>2, <2>3 DEF PledgeInv
  <1>11. CASE Drain
    <2>1. /\ phase = "flushing" /\ phase' = "draining" /\ round = <<>>
          /\ UNCHANGED <<sent, inbox, buffer, pledged>>
      BY <1>11 DEF Drain, buffers
    <2>2. \A k : ~ InQueue(round, k)
      BY <2>1 DEF InQueue
    <2>3. QED
      BY <2>1, <2>2 DEF PledgeInv
  <1>12. CASE Stopped
    BY <1>12 DEF Stopped, buffers, PledgeInv
  <1>13. CASE Start
    BY <1>13 DEF Start, buffers, PledgeInv
  <1>14. CASE UNCHANGED vars
    BY <1>2, <1>14 DEF vars, buffers
  <1>15. QED
    BY <1>3, <1>4, <1>5, <1>6, <1>7, <1>8, <1>9, <1>10, <1>11, <1>12, <1>13, <1>14 DEF Next

\* _flush_all takes its keys when the flush loop is cancelled: what is in a
\* buffer then has left it before the subscription is drained, with messages
\* arriving all the while, and never comes back.
THEOREM StopFlushes == Spec => []StopFlushesBuffer
  <1>1. Init => OnceInv /\ PledgeInv
    BY DEF Init, OnceInv, PledgeInv, Distinct, InQueue
  <1>2. IInv /\ OnceInv /\ PledgeInv /\ [Next]_vars => OnceInv' /\ PledgeInv'
    BY NextOnce, NextPledge
  <1>3. IInv /\ PledgeInv => StopFlushesBuffer
    <2> SUFFICES ASSUME IInv, PledgeInv, phase \in {"draining", "stopped"},
                        NEW m \in pledged, m \in Buffered
                 PROVE  FALSE
      BY DEF StopFlushesBuffer
    <2>1. PICK k \in Key : m \in ToSet(buffer[k])
      BY DEF Buffered
    <2>2. buffer[k] \in Seq(Msg)
      BY DEF IInv, TypeOK
    <2>3. PICK a \in 1 .. Len(buffer[k]) : m = buffer[k][a]
      BY <2>1, <2>2 DEF ToSet
    <2>4. QED
      BY <2>3 DEF PledgeInv
  <1>4. QED
    BY <1>1, <1>2, <1>3, Invariance, PTL DEF Spec

(***************************************************************************)
(* Without a stop, the order of publication is kept.                       *)
(***************************************************************************)

\* The sets of messages on their way, as sets of messages.
LEMMA OnTheWay ==
    ASSUME TypeOK
    PROVE  /\ Waiting = {inbox[a] : a \in 1 .. Len(inbox)} /\ Waiting \in SUBSET Msg
           /\ Buffered \in SUBSET Msg
           /\ \A m : m \in Buffered <=>
                  \E k \in Key : \E a \in 1 .. Len(buffer[k]) : m = buffer[k][a]
           /\ Writing \in SUBSET Msg
           /\ Writing = {job["loop"].batch[a] : a \in 1 .. Len(job["loop"].batch)}
           /\ table \in SUBSET Msg
  <1>1. inbox \in Seq(Msg) /\ \A k \in Key : buffer[k] \in Seq(Msg)
    BY DEF TypeOK
  <1>2. job["loop"].batch \in Seq(Msg)
    BY DEF TypeOK, Caller
  <1>3. Waiting = {inbox[a] : a \in 1 .. Len(inbox)} /\ Waiting \in SUBSET Msg
    BY <1>1 DEF Waiting, ToSet
  <1>4. /\ Writing = {job["loop"].batch[a] : a \in 1 .. Len(job["loop"].batch)}
        /\ Writing \in SUBSET Msg
    BY <1>2 DEF Writing, ToSet
  <1>5. \A k \in Key : ToSet(buffer[k]) = {buffer[k][a] : a \in 1 .. Len(buffer[k])}
                       /\ ToSet(buffer[k]) \in SUBSET Msg
    BY <1>1 DEF ToSet
  <1>6. QED
    BY <1>3, <1>4, <1>5 DEF Buffered, TypeOK

\* A new message is before none that was published.
LEMMA NewIsLast ==
    ASSUME TypeOK, PublishOrder, NEW i \in Ingest, Publish(i),
           NEW m \in Msg, m[2] <= sent[m[1]]
    PROVE  ~ Before(<<i, sent[i] + 1>>, m)
  <1> SUFFICES ASSUME KeyOf[i] = KeyOf[m[1]],
                      i < m[1] \/ (i = m[1] /\ sent[i] + 1 < m[2])
               PROVE  FALSE
    BY DEF Before, KeyOfMsg
  <1>1. /\ m[1] \in Ingest /\ m[2] \in Nat /\ m[2] >= 1
        /\ sent[m[1]] \in Nat /\ sent[i] \in Nat /\ SizeOf[i] \in Nat
    <2>1. m[2] >= 1
      <3>1. PICK j \in Ingest : m \in {j} \X (1 .. SizeOf[j])
        BY DEF Msg
      <3>2. SizeOf[j] \in Nat /\ m[2] \in 1 .. SizeOf[j]
        BY <3>1, OpstoreAssumption
      <3>3. QED
        BY <3>2
    <2>2. QED
      BY <2>1, Messages, OpstoreAssumption DEF TypeOK
  <1>2. CASE i < m[1]
    <2>1. sent[m[1]] > 0
      BY <1>1
    <2>2. sent[i] = SizeOf[i]
      BY <1>1, <1>2, <2>1 DEF PublishOrder
    <2>3. QED
      BY <1>1, <2>2 DEF Publish
  <1>3. CASE i = m[1] /\ sent[i] + 1 < m[2]
    BY <1>1, <1>3
  <1>4. QED
    BY <1>2, <1>3

LEMMA PublishOrdered ==
    ASSUME IInv, OrderInv, NEW i \in Ingest, Publish(i)
    PROVE  OrderInv'
  <1> DEFINE new == <<i, sent[i] + 1>>
  <1>1. /\ new \in Msg /\ new[1] = i /\ new[2] = sent[i] + 1
        /\ sent[i] \in Nat /\ sent' \in [Ingest -> Nat] /\ sent'[i] = sent[i] + 1
        /\ \A j \in Ingest : j # i => sent'[j] = sent[j]
        /\ \A m \in Msg : m[2] <= sent[m[1]] => m[2] <= sent'[m[1]]
        /\ inbox \in Seq(Msg)
        /\ inbox' = Append(inbox, new) \/ inbox' = inbox
        /\ UNCHANGED <<phase, buffer, job, table, validTo>>
    BY Published DEF IInv, buffers, database
  <1>2. \A m \in Msg : m[2] <= sent[m[1]] => ~ Before(new, m)
    BY NewIsLast DEF IInv, OrderInv
  <1>3. new[2] <= sent'[new[1]]
    BY <1>1
  <1> HIDE DEF new
  <1>4. PublishOrder'
    <2>1. /\ sent \in [Ingest -> Nat] /\ SizeOf \in [Ingest -> Nat] /\ sent[i] < SizeOf[i]
          /\ \A j \in 1 .. i - 1 : KeyOf[j] = KeyOf[i] => sent[j] = SizeOf[j]
      BY OpstoreAssumption DEF IInv, TypeOK, Publish
    <2>2. \A j \in Ingest : sent'[j] <= SizeOf[j]
      <3>1. \A j \in Ingest : sent[j] <= SizeOf[j]
        BY DEF OrderInv, PublishOrder
      <3>2. sent'[i] <= SizeOf[i]
        BY <1>1, <2>1
      <3>3. QED
        BY <1>1, <3>1, <3>2
    <2>3. ASSUME NEW h \in Ingest, NEW j \in Ingest, h < j, KeyOf[h] = KeyOf[j], sent'[j] > 0
          PROVE  sent'[h] = SizeOf[h]
      <3>1. h \in Nat /\ j \in Nat /\ i \in Nat /\ h >= 1
        BY OpstoreAssumption DEF Ingest
      <3>2. CASE j = i
        <4>1. h \in 1 .. i - 1 /\ h # i
          BY <2>3, <3>1, <3>2
        <4>2. QED
          BY <1>1, <2>1, <2>3, <3>2, <4>1
      <3>3. CASE j # i
        <4>1. sent[h] = SizeOf[h]
          BY <1>1, <2>3, <3>3 DEF OrderInv, PublishOrder
        <4>2. h # i
          BY <2>1, <4>1
        <4>3. QED
          BY <1>1, <4>1, <4>2
      <3>4. QED
        BY <3>2, <3>3
    <2>4. QED
      BY <2>2, <2>3 DEF PublishOrder
  <1>5. Waiting' \subseteq Waiting \cup {new}
    <2>1. CASE inbox' = Append(inbox, new)
      <3>1. /\ Append(inbox, new) \in Seq(Msg)
            /\ Len(Append(inbox, new)) = Len(inbox) + 1 /\ Len(inbox) \in Nat
            /\ Append(inbox, new)[Len(inbox) + 1] = new
            /\ \A a \in 1 .. Len(inbox) : Append(inbox, new)[a] = inbox[a]
        BY <1>1
      <3>2. QED
        BY <1>1, <2>1, <3>1 DEF Waiting, ToSet
    <2>2. CASE inbox' = inbox
      BY <2>2 DEF Waiting
    <2>3. QED
      BY <1>1, <2>1, <2>2
  <1>6. Buffered' = Buffered /\ Writing' = Writing
    BY <1>1 DEF Buffered, Writing
  <1>7. \A m \in Waiting \cup Buffered \cup Writing \cup table :
            m \in Msg /\ m[2] <= sent[m[1]] /\ m[2] <= sent'[m[1]] /\ ~ Before(new, m)
    <2>1. \A m \in Waiting \cup Buffered \cup Writing \cup table : m \in Msg /\ m[2] <= sent[m[1]]
      BY OnTheWay DEF IInv, OrderInv
    <2>2. QED
      BY <1>1, <1>2, <2>1
  <1>8. ASSUME NEW a \in 1 .. Len(inbox'), NEW b \in 1 .. Len(inbox'), a < b
        PROVE  ~ Before(inbox'[b], inbox'[a])
    <2>1. \A c \in 1 .. Len(inbox) : ~ Before(new, inbox[c])
      BY <1>7, OnTheWay DEF IInv
    <2>2. CASE inbox' = Append(inbox, new)
      <3>1. /\ Len(inbox') = Len(inbox) + 1 /\ Len(inbox) \in Nat
            /\ inbox'[Len(inbox) + 1] = new
            /\ \A c \in 1 .. Len(inbox) : inbox'[c] = inbox[c]
        BY <1>1, <2>2
      <3>2. a \in 1 .. Len(inbox)
        BY <1>8, <3>1
      <3>3. CASE b \in 1 .. Len(inbox)
        BY <1>8, <3>1, <3>2, <3>3 DEF OrderInv
      <3>4. CASE b = Len(inbox) + 1
        BY <2>1, <3>1, <3>2, <3>4
      <3>5. QED
        BY <3>1, <3>3, <3>4
    <2>3. CASE inbox' = inbox
      BY <1>8, <2>3 DEF OrderInv
    <2>4. QED
      BY <1>1, <2>2, <2>3
  <1>9. \A m \in (Waiting \cup Buffered \cup Writing \cup table)' : m[2] <= sent'[m[1]]
    BY <1>1, <1>3, <1>5, <1>6, <1>7
  <1>10. /\ \A m1 \in Waiting' : \A m2 \in (Buffered \cup Writing \cup table)' : ~ Before(m1, m2)
         /\ \A m1 \in Buffered' : \A m2 \in (Writing \cup table)' : ~ Before(m1, m2)
         /\ \A m1 \in Writing' : \A m2 \in table' : ~ Before(m1, m2)
    BY <1>1, <1>5, <1>6, <1>7 DEF OrderInv
  <1>11. QED
    BY <1>1, <1>4, <1>8, <1>9, <1>10 DEF OrderInv, Before, KeyOfMsg

LEMMA OnMessageOrdered == ASSUME IInv, OrderInv, OnMessage PROVE OrderInv'
  <1> DEFINE m == Head(inbox)
             q == KeyOfMsg(m)
  <1>1. /\ inbox \in Seq(Msg) /\ inbox # <<>> /\ m \in Msg /\ q \in Key
        /\ inbox' = Tail(inbox)
        /\ \/ buffer' = buffer
           \/ /\ Len(buffer[q]) \in Nat /\ Len(buffer'[q]) = Len(buffer[q]) + 1
              /\ buffer'[q][Len(buffer[q]) + 1] = m
              /\ \A a \in 1 .. Len(buffer[q]) : buffer'[q][a] = buffer[q][a]
              /\ \A j \in Key : j # q => buffer'[j] = buffer[j]
        /\ UNCHANGED <<sent, phase, job, table, validTo>>
    BY Taken DEF database
  <1>2. /\ Len(inbox) \in Nat /\ Len(inbox) >= 1 /\ m = inbox[1]
        /\ inbox' \in Seq(Msg) /\ Len(inbox') = Len(inbox) - 1
        /\ \A a \in 1 .. Len(inbox) - 1 : inbox'[a] = inbox[a + 1]
    BY <1>1
  <1> HIDE DEF m, q
  <1>3. Waiting = {inbox[a] : a \in 1 .. Len(inbox)}
    BY OnTheWay DEF IInv
  <1>4. /\ Waiting' \subseteq Waiting /\ m \in Waiting
        /\ \A m1 \in Waiting' : ~ Before(m1, m)
    <2>1. m \in Waiting
      BY <1>2, <1>3
    <2>2. ASSUME NEW m1 \in Waiting' PROVE m1 \in Waiting /\ ~ Before(m1, m)
      <3>1. PICK a \in 1 .. Len(inbox') : m1 = inbox'[a]
        BY <1>2, <2>2 DEF Waiting, ToSet
      <3>2. a + 1 \in 1 .. Len(inbox) /\ 1 \in 1 .. Len(inbox) /\ 1 < a + 1 /\ m1 = inbox[a + 1]
        BY <1>2, <3>1
      <3>3. ~ Before(inbox[a + 1], inbox[1])
        BY <3>2 DEF OrderInv
      <3>4. QED
        BY <1>2, <1>3, <3>2, <3>3
    <2>3. QED
      BY <2>1, <2>2
  <1>5. Buffered' \subseteq Buffered \cup {m}
    <2>1. ASSUME NEW y \in Buffered' PROVE y \in Buffered \/ y = m
      <3>1. PICK k \in Key : y \in ToSet(buffer'[k])
        BY DEF Buffered
      <3>2. PICK a \in 1 .. Len(buffer'[k]) : y = buffer'[k][a]
        <4>1. buffer'[k] \in Seq(Msg)
          BY OnMessageInvariant DEF IInv, TypeOK
        <4>2. QED
          BY <3>1, <4>1 DEF ToSet
      <3>3. \/ a \in 1 .. Len(buffer[k]) /\ y = buffer[k][a]
            \/ y = m
        <4>1. CASE buffer'[k] = buffer[k]
          BY <3>2, <4>1
        <4>2. CASE buffer'[k] # buffer[k]
          <5>1. /\ k = q /\ Len(buffer[k]) \in Nat /\ Len(buffer'[k]) = Len(buffer[k]) + 1
                /\ buffer'[k][Len(buffer[k]) + 1] = m
                /\ \A b \in 1 .. Len(buffer[k]) : buffer'[k][b] = buffer[k][b]
            BY <1>1, <4>2
          <5>2. a \in 1 .. Len(buffer[k]) \/ a = Len(buffer[k]) + 1
            BY <3>2, <5>1
          <5>3. QED
            BY <3>2, <5>1, <5>2
        <4>3. QED
          BY <4>1, <4>2
      <3>4. QED
        BY <3>3, OnTheWay DEF IInv
    <2>2. QED
      BY <2>1
  <1>6. Writing' = Writing
    BY <1>1 DEF Writing
  <1>7. ASSUME NEW a \in 1 .. Len(inbox'), NEW b \in 1 .. Len(inbox'), a < b
        PROVE  ~ Before(inbox'[b], inbox'[a])
    <2>1. /\ a + 1 \in 1 .. Len(inbox) /\ b + 1 \in 1 .. Len(inbox) /\ a + 1 < b + 1
          /\ inbox'[a] = inbox[a + 1] /\ inbox'[b] = inbox[b + 1]
      BY <1>2, <1>7
    <2>2. QED
      BY <2>1 DEF OrderInv
  <1>8. PublishOrder'
    BY <1>1 DEF OrderInv, PublishOrder
  <1>9. \A x \in (Waiting \cup Buffered \cup Writing \cup table)' : x[2] <= sent'[x[1]]
    BY <1>1, <1>4, <1>5, <1>6 DEF OrderInv
  <1>10. /\ \A m1 \in Waiting' : \A m2 \in (Buffered \cup Writing \cup table)' : ~ Before(m1, m2)
         /\ \A m1 \in Buffered' : \A m2 \in (Writing \cup table)' : ~ Before(m1, m2)
         /\ \A m1 \in Writing' : \A m2 \in table' : ~ Before(m1, m2)
    BY <1>1, <1>4, <1>5, <1>6 DEF OrderInv
  <1>11. QED
    BY <1>1, <1>7, <1>8, <1>9, <1>10 DEF OrderInv, Before, KeyOfMsg

LEMMA FlushOrdered ==
    ASSUME IInv, OrderInv, NEW w \in Caller, FlushOne(w)
    PROVE  OrderInv'
  <1> DEFINE k == Head(round)
  <1>1. /\ phase = "running" /\ w = "loop" /\ k \in Key
        /\ buffer' = [buffer EXCEPT ![k] = <<>>]
        /\ job'["loop"].batch = buffer[k]
        /\ UNCHANGED <<sent, phase, inbox, table, validTo>>
    BY FlushOldest DEF OrderInv, database
  <1>2. buffer \in [Key -> Seq(Msg)] /\ buffer[k] \in Seq(Msg)
    BY <1>1 DEF IInv, TypeOK
  <1> HIDE DEF k
  <1>3. Waiting' = Waiting
    BY <1>1 DEF Waiting
  <1>4. Writing' = {buffer[k][a] : a \in 1 .. Len(buffer[k])}
    BY <1>1, <1>2 DEF Writing, ToSet
  <1>5. Writing' \subseteq Buffered /\ \A m \in Writing' : KeyOfMsg(m) = k
    BY <1>1, <1>4, OnTheWay DEF IInv, KeyInv
  <1>6. Buffered' \subseteq Buffered /\ \A m \in Buffered' : KeyOfMsg(m) # k
    <2>1. ASSUME NEW m \in Buffered' PROVE m \in Buffered /\ KeyOfMsg(m) # k
      <3>1. PICK j \in Key : m \in ToSet(buffer'[j])
        BY DEF Buffered
      <3>2. j # k /\ buffer'[j] = buffer[j]
        <4>1. buffer'[k] = <<>>
          BY <1>1, <1>2
        <4>2. ToSet(<<>>) = {}
          BY DEF ToSet
        <4>3. j # k
          BY <3>1, <4>1, <4>2
        <4>4. QED
          BY <1>1, <1>2, <4>3
      <3>3. PICK a \in 1 .. Len(buffer[j]) : m = buffer[j][a]
        BY <1>2, <3>1, <3>2 DEF ToSet
      <3>4. QED
        BY <3>2, <3>3, OnTheWay DEF IInv, KeyInv
    <2>2. QED
      BY <2>1
  <1>7. PublishOrder'
    BY <1>1 DEF OrderInv, PublishOrder
  <1>8. \A x \in (Waiting \cup Buffered \cup Writing \cup table)' : x[2] <= sent'[x[1]]
    BY <1>1, <1>3, <1>5, <1>6 DEF OrderInv
  <1>9. \A m1 \in Buffered' : \A m2 \in Writing' : ~ Before(m1, m2)
    BY <1>5, <1>6 DEF Before
  <1>10. /\ \A m1 \in Waiting' : \A m2 \in (Buffered \cup Writing \cup table)' : ~ Before(m1, m2)
         /\ \A m1 \in Buffered' : \A m2 \in (Writing \cup table)' : ~ Before(m1, m2)
         /\ \A m1 \in Writing' : \A m2 \in table' : ~ Before(m1, m2)
    BY <1>1, <1>3, <1>5, <1>6, <1>9 DEF OrderInv
  <1>11. QED
    BY <1>1, <1>7, <1>8, <1>10 DEF OrderInv, Before, KeyOfMsg

LEMMA EndsOrdered ==
    ASSUME IInv, OrderInv, NEW w \in Caller, NEW ok \in BOOLEAN, Ends(w, ok)
    PROVE  OrderInv'
  <1>1. w = "loop"
    BY DEF Ends, IInv, PhaseInv, OrderInv, Caller
  <1>2. job'["loop"] = NoJob
    BY <1>1, SettledJobs DEF Ends, IInv
  <1>3. UNCHANGED <<sent, phase, inbox, buffer>>
    BY DEF Ends, Settle, buffers
  <1>4. Waiting' = Waiting /\ Buffered' = Buffered /\ Writing' = {}
    BY <1>2, <1>3 DEF Waiting, Buffered, Writing, NoJob, ToSet
  <1>5. table' \subseteq table \cup Writing
    <2>1. CASE Apply(w)
      <3>1. \A m \in table' : m \in table \/ \E a \in 1 .. Len(job[w].batch) : m = job[w].batch[a]
        BY <2>1, AppliedRows DEF Ends
      <3>2. QED
        BY <1>1, <3>1, OnTheWay DEF IInv
    <2>2. CASE UNCHANGED database
      BY <2>2 DEF database
    <2>3. QED
      BY <2>1, <2>2 DEF Ends
  <1>6. ASSUME NEW m \in Msg, validTo'[m] # 0 PROVE validTo'[m] >= m[1]
    <2>1. CASE validTo'[m] = validTo[m]
      BY <1>6, <2>1 DEF OrderInv
    <2>2. CASE validTo'[m] # validTo[m]
      <3> DEFINE first == job[w].batch[1]
      <3>1. m \in job[w].retire /\ validTo'[m] = first[1]
        BY <2>2, AppliedRows DEF Ends, database
      <3>2. first \in Writing /\ first \in Msg /\ first[1] \in Ingest
        BY <1>1, FirstOfBatch, OnTheWay DEF Ends, IInv
      <3>3. m \in table /\ KeyOfMsg(m) = KeyOfMsg(first)
        BY <3>1 DEF IInv, JobInv, BatchKey
      <3>4. ~ Before(first, m)
        BY <3>2, <3>3 DEF OrderInv
      <3>5. ~ (first[1] < m[1])
        BY <3>3, <3>4 DEF Before
      <3>6. first[1] \in Nat /\ m[1] \in Nat
        BY <3>2, Messages, OpstoreAssumption DEF Ingest
      <3>7. QED
        BY <3>1, <3>5, <3>6
    <2>3. QED
      BY <2>1, <2>2
  <1>7. PublishOrder'
    BY <1>3 DEF OrderInv, PublishOrder
  <1>8. \A x \in (Waiting \cup Buffered \cup Writing \cup table)' : x[2] <= sent'[x[1]]
    BY <1>3, <1>4, <1>5 DEF OrderInv
  <1>9. /\ \A m1 \in Waiting' : \A m2 \in (Buffered \cup Writing \cup table)' : ~ Before(m1, m2)
        /\ \A m1 \in Buffered' : \A m2 \in (Writing \cup table)' : ~ Before(m1, m2)
        /\ \A m1 \in Writing' : \A m2 \in table' : ~ Before(m1, m2)
    BY <1>4, <1>5 DEF OrderInv
  <1>10. QED
    BY <1>3, <1>6, <1>7, <1>8, <1>9 DEF OrderInv, Before, KeyOfMsg

LEMMA NextOrdered ==
    ASSUME "stop" \notin Fault, IInv, OrderInv, [Next]_vars
    PROVE  OrderInv'
  <1>1. ASSUME /\ UNCHANGED <<sent, inbox, buffer, table, validTo>>
               /\ phase' \in {"running", "down"}
               /\ job'["loop"].batch = job["loop"].batch
        PROVE  OrderInv'
    <2>1. Waiting' = Waiting /\ Buffered' = Buffered /\ Writing' = Writing
      BY <1>1 DEF Waiting, Buffered, Writing
    <2>2. QED
      BY <1>1, <2>1 DEF OrderInv, PublishOrder, Before, KeyOfMsg
  <1>2. ASSUME NEW w \in Caller, Commit(w) \/ Fail(w) PROVE OrderInv'
    <2>1. \E ok \in BOOLEAN : Ends(w, ok)
      BY <1>2, CommitOrFailEnds
    <2>2. QED
      BY <2>1, EndsOrdered
  <1>3. ASSUME NEW w \in Caller, Supersede(w) PROVE OrderInv'
    <2> DEFINE blocked == Prior(w) \cap job[Other(w)].retire # {}
               new == [job[w] EXCEPT !.step = "updated", !.retire = Prior(w), !.blocked = blocked]
    <2>1. job \in [Caller -> Jobs] /\ "loop" \in Caller
      BY DEF IInv, TypeOK, Jobs, Caller
    <2>2. new.batch = job[w].batch
      BY <2>1 DEF Jobs
    <2>3. job' = [job EXCEPT ![w] = new]
      BY <1>3 DEF Supersede
    <2> HIDE DEF new
    <2>4. job'["loop"].batch = job["loop"].batch
      BY <2>1, <2>2, <2>3
    <2>5. UNCHANGED <<sent, inbox, buffer, table, validTo, phase>>
      BY <1>3 DEF Supersede, buffers, database
    <2>6. QED
      BY <1>1, <2>4, <2>5 DEF OrderInv
  <1>4. CASE Exit \/ Crash
    <2>1. /\ inbox' = <<>> /\ buffer' = [k \in Key |-> <<>>] /\ job' = [w \in Caller |-> NoJob]
          /\ phase' = "down" /\ UNCHANGED <<sent, table, validTo>>
      BY <1>4 DEF Exit, Crash, Gone, database
    <2>2. ToSet(<<>>) = {}
      BY DEF ToSet
    <2>3. Waiting' = {} /\ Writing' = {} /\ Buffered' = {}
      BY <2>1, <2>2 DEF Waiting, Writing, Buffered, NoJob, Caller
    <2>4. QED
      BY <2>1, <2>3 DEF OrderInv, PublishOrder, Before, KeyOfMsg
  <1>5. CASE Ripen \/ Wake \/ Start
    BY <1>1, <1>5 DEF Ripen, Wake, Start, buffers, database, OrderInv
  <1>6. ~ (Stop \/ Drain \/ Stopped)
    BY DEF Stop, Stopping, Drain, Stopped, OrderInv
  <1>7. CASE UNCHANGED vars
    BY <1>1, <1>7 DEF vars, buffers, database, OrderInv
  <1>8. QED
    BY <1>2, <1>3, <1>4, <1>5, <1>6, <1>7, PublishOrdered, OnMessageOrdered, FlushOrdered DEF Next

LEMMA InitOrdered == Init => OrderInv
  <1> SUFFICES ASSUME Init PROVE OrderInv
    OBVIOUS
  <1>1. ToSet(<<>>) = {}
    BY DEF ToSet
  <1>2. Waiting = {} /\ Writing = {} /\ Buffered = {} /\ table = {}
    BY <1>1 DEF Init, Waiting, Writing, Buffered, NoJob, Caller
  <1>3. PublishOrder
    BY OpstoreAssumption DEF Init, PublishOrder
  <1>4. QED
    BY <1>2, <1>3 DEF Init, OrderInv

\* A service that is not asked to stop, but may crash, restart, lose messages
\* and fail to write, stores the CTOs of a file or stream in the order of their
\* publication: nothing older is under way to a table that has the newer.
THEOREM KeptInOrder == ASSUME "stop" \notin Fault PROVE Spec => []NoOvertaking
  <1>1. IInv /\ OrderInv => NoOvertaking
    <2> SUFFICES ASSUME IInv, OrderInv, NEW m2 \in table,
                        NEW m1 \in ToSet(inbox) \cup Buffered \cup InFlight
                 PROVE  ~ Before(m1, m2)
      BY DEF NoOvertaking
    <2>1. job["stop"].batch = <<>>
      BY DEF OrderInv, IInv, PhaseInv, JobInv, Caller
    <2>2. InFlight \subseteq Writing
      <3>1. ToSet(<<>>) = {}
        BY DEF ToSet
      <3>2. \A w \in Caller : ToSet(job[w].batch) \subseteq Writing
        BY <2>1, <3>1 DEF Caller, Writing
      <3>3. QED
        BY <3>2 DEF InFlight
    <2>3. QED
      BY <2>2 DEF OrderInv, Waiting
  <1>2. QED
    BY <1>1, InitOrdered, NextOrdered, Invariance, PTL DEF Spec

\* Nor does it retire a row in favour of an older ingest, or of one of another
\* file or path.
THEOREM RetiredByNewer == ASSUME "stop" \notin Fault PROVE Spec => []NotRetiredByOlder
  <1>1. IInv /\ OrderInv => NotRetiredByOlder
    BY DEF IInv, TypeOK, RetiredInv, OrderInv, NotRetiredByOlder
  <1>2. QED
    BY <1>1, InitOrdered, NextOrdered, Invariance, PTL DEF Spec

=============================================================================
