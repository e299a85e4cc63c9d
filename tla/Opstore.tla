------------------------------- MODULE Opstore -------------------------------
(***************************************************************************)
(* The operational store: services/opstore/main.py buffers the CTOs it     *)
(* receives from NATS, per file or stream, for a window of 200 ms, and     *)
(* services/opstore/writer.py writes each batch in one transaction that    *)
(* first retires the current rows of the same file and path.               *)
(*                                                                         *)
(* One event loop runs the NATS callback, the flush loop and, at the end,  *)
(* run() itself; a batch is written by a thread that outlives the task     *)
(* that awaits it.  NATS and PostgreSQL are modelled from how this code    *)
(* uses them: a core subscription that holds what was delivered while it   *)
(* was up, and READ COMMITTED transactions.                                *)
(***************************************************************************)
EXTENDS Naturals, Sequences, FiniteSets, SequencesExt, FiniteSetsExt

CONSTANTS
    LastIngest, \* the gateway's ingests, in the order of their received_at
    Key,        \* "kmz:<filename>:<source>" and "stream:<source_system>"
    FileKey,    \* those of the first kind: the ones that are superseded
    KeyOf,      \* the key of each ingest's CTOs
    SizeOf,     \* how many CTOs each ingest publishes
    Malformed,  \* the messages CTO.model_validate rejects
    Fault       \* what may happen, a set of the members of FaultKind

Ingest == 1 .. LastIngest
FaultKind == {"drop", "db", "crash", "stop"}

ASSUME OpstoreAssumption ==
    /\ LastIngest \in Nat
    /\ IsFiniteSet(Key) /\ FileKey \subseteq Key
    /\ KeyOf \in [Ingest -> Key]
    /\ SizeOf \in [Ingest -> Nat]
    /\ Fault \subseteq FaultKind

\* A CTO, by its ingest and its place in it; each has a uid of its own.
Msg == UNION {{i} \X (1 .. SizeOf[i]) : i \in Ingest}

VARIABLES
    sent,       \* how many CTOs each ingest has published
    phase,      \* how far run() is
    inbox,      \* delivered to the subscription, callback not yet run
    received, written, failed,  \* the counters that run() logs at the end
    buffer,     \* self._buffer
    window,     \* the keys of self._buffer_started_at, in insertion order
    ripe,       \* how many of those opened 200 ms ago or more: the first ones
    round,      \* the keys the flush loop or _flush_all has still to flush
    job,        \* the batch each of the two awaits, and how far its thread is
    table,      \* the rows of cto
    validTo,    \* their valid_to: the ingest that retired the row, 0 for NULL
    pledged     \* what was buffered when the stop was requested

counters == <<received, written, failed>>
buffers == <<buffer, window, ripe>>
database == <<table, validTo>>
vars == <<sent, phase, inbox, counters, buffers, round, job, database, pledged>>

\* _flush_one is called by the flush loop and by _flush_all.
Caller == {"loop", "stop"}
NoJob == [step |-> "none", batch |-> <<>>, retire |-> {}, blocked |-> FALSE]

KeyOfMsg(m) == KeyOf[m[1]]
Buffered == UNION {ToSet(buffer[k]) : k \in Key}
InFlight == UNION {ToSet(job[w].batch) : w \in Caller}
Subscribed == phase \in {"running", "flushing"}

TypeOK ==
    /\ sent \in [Ingest -> Nat]
    /\ phase \in {"running", "flushing", "draining", "stopped", "down"}
    /\ inbox \in Seq(Msg)
    /\ <<received, written, failed>> \in Nat \X Nat \X Nat
    /\ buffer \in [Key -> Seq(Msg)]
    /\ window \in Seq(Key)
    /\ ripe \in 0 .. Len(window)
    /\ round \in Seq(Key)
    /\ job \in [Caller -> [step : {"none", "started", "updated"}, batch : Seq(Msg),
                           retire : SUBSET Msg, blocked : BOOLEAN]]
    /\ table \subseteq Msg
    /\ validTo \in [Msg -> Ingest \cup {0}]
    /\ pledged \subseteq Msg

Init ==
    /\ sent = [i \in Ingest |-> 0]
    /\ phase = "running"
    /\ inbox = <<>>
    /\ received = 0 /\ written = 0 /\ failed = 0
    /\ buffer = [k \in Key |-> <<>>]
    /\ window = <<>>
    /\ ripe = 0
    /\ round = <<>>
    /\ job = [w \in Caller |-> NoJob]
    /\ table = {}
    /\ validTo = [m \in Msg |-> 0]
    /\ pledged = {}

-----------------------------------------------------------------------------
(* The gateway publishes the CTOs of an ingest one after the other, and     *)
(* does not start on a file or stream before it is done with its last       *)
(* ingest.  A publication may be lost ("drop"), and is when nobody listens. *)
Publish(i) ==
    /\ sent[i] < SizeOf[i]
    /\ \A j \in 1 .. i - 1 : KeyOf[j] = KeyOf[i] => sent[j] = SizeOf[j]
    /\ sent' = [sent EXCEPT ![i] = @ + 1]
    /\ \/ Subscribed /\ inbox' = Append(inbox, <<i, sent'[i]>>)
       \/ ("drop" \in Fault \/ ~Subscribed) /\ UNCHANGED inbox
    /\ UNCHANGED <<phase, counters, buffers, round, job, database, pledged>>

(* _on_message: no await, so nothing comes between its reads and writes.    *)
OnMessage ==
    /\ phase \in {"running", "flushing", "draining"}
    /\ inbox # <<>>
    /\ LET m == Head(inbox)
           k == KeyOfMsg(m)
       IN  /\ inbox' = Tail(inbox)
           /\ received' = received + 1
           /\ IF m \in Malformed
              THEN /\ failed' = failed + 1
                   /\ UNCHANGED <<buffer, window>>
              ELSE /\ buffer' = [buffer EXCEPT ![k] = Append(@, m)]
                   /\ window' = IF buffer[k] = <<>> THEN Append(window, k) ELSE window
                   /\ UNCHANGED failed
    /\ UNCHANGED <<sent, phase, written, ripe, round, job, database, pledged>>

\* Time passes: 200 ms since one more window opened, the oldest of the others.
Ripen ==
    /\ ripe < Len(window)
    /\ ripe' = ripe + 1
    /\ UNCHANGED <<sent, phase, inbox, counters, buffer, window, round, job, database, pledged>>

Ripe == SubSeq(window, 1, ripe)

(* The flush loop wakes and fixes the keys of this round.                   *)
Wake ==
    /\ phase = "running"
    /\ round = <<>> /\ job["loop"] = NoJob
    /\ ripe > 0
    /\ round' = Ripe
    /\ UNCHANGED <<sent, phase, inbox, counters, buffers, job, database, pledged>>

(* _flush_one takes the buffer and its window before it awaits the thread.  *)
Flush(w, batch, rest, stillRipe) ==
    /\ phase \in {"running", "flushing"}
    /\ w = IF phase = "running" THEN "loop" ELSE "stop"
    /\ job[w] = NoJob
    /\ round' = Tail(round)
    /\ job' = [job EXCEPT ![w] = [NoJob EXCEPT !.step = "started", !.batch = batch]]
    /\ buffer' = [buffer EXCEPT ![Head(round)] = rest]
    /\ window' = IF rest = <<>> THEN RemoveFirst(window, Head(round)) ELSE window
    /\ ripe' = stillRipe
    /\ UNCHANGED <<sent, phase, inbox, counters, database, pledged>>

StillRipe == IF Contains(Ripe, Head(round)) THEN ripe - 1 ELSE ripe

\* Mutants of FlushOne: a bounded batch filled from the wrong end; the buffer
\* read and not popped; the start of the window left behind.
FlushOne_NewestFirst(w) ==
    /\ round # <<>>
    /\ LET b == buffer[Head(round)]
       IN  Flush(w, <<Last(b)>>, Front(b), StillRipe)
FlushOne_KeepBuffer(w) ==
    /\ round # <<>>
    /\ Flush(w, buffer[Head(round)], buffer[Head(round)], StillRipe)
FlushOne_KeepAge(w) ==
    /\ round # <<>>
    /\ Flush(w, buffer[Head(round)], <<>>, ripe)

FlushOne(w) ==
    /\ round # <<>>
    /\ Flush(w, buffer[Head(round)], <<>>, StillRipe)

-----------------------------------------------------------------------------
(* _write_batch, in its thread: a transaction of the UPDATE of              *)
(* supersede_prior and the INSERTs of insert_ctos.  The UPDATE sees the     *)
(* rows committed before it; it waits for a transaction that has already    *)
(* updated one of them, and then skips the rows that one retired.           *)
BatchKey(w) == KeyOfMsg(job[w].batch[1])
Other(w) == CHOOSE v \in Caller : v # w
Current == {m \in table : validTo[m] = 0}

\* Mutant of Prior: the rows of the same filename, whatever their path.
Prior_AnyPath(w) ==
    IF BatchKey(w) \in FileKey THEN {m \in Current : KeyOfMsg(m) \in FileKey} ELSE {}
Prior(w) ==
    IF BatchKey(w) \in FileKey THEN {m \in Current : KeyOfMsg(m) = BatchKey(w)} ELSE {}

Supersede(w) ==
    /\ job[w].step = "started"
    /\ job' = [job EXCEPT
                 ![w].step = "updated",
                 ![w].retire = Prior(w),
                 ![w].blocked = Prior(w) \cap job[Other(w)].retire # {}]
    /\ UNCHANGED <<sent, phase, inbox, counters, buffers, round, database, pledged>>

\* The thread is done: whoever still awaits it counts the batch.  The flush
\* loop, once cancelled, awaits nothing.
Settle(w, ok) ==
    /\ job' = [job EXCEPT ![w] = NoJob, ![Other(w)].blocked = FALSE]
    /\ LET n == IF w = "loop" /\ phase # "running" THEN 0 ELSE Len(job[w].batch)
       IN  /\ written' = IF ok THEN written + n ELSE written
           /\ failed' = IF ok THEN failed ELSE failed + n
    /\ UNCHANGED <<sent, phase, inbox, received, buffers, round, pledged>>

\* The INSERTs and the COMMIT; received_at is that of the batch's first CTO.
Retire(w) ==
    validTo' = [m \in Msg |-> IF m \in job[w].retire \cap Current
                              THEN job[w].batch[1][1] ELSE validTo[m]]

\* Mutant of Apply: superseded rows are deleted.
Apply_Delete(w) ==
    /\ table' = (table \ job[w].retire) \cup ToSet(job[w].batch)
    /\ Retire(w)
Apply(w) ==
    /\ table' = table \cup ToSet(job[w].batch)
    /\ Retire(w)

Commit(w) ==
    /\ job[w].step = "updated"
    /\ ~job[w].blocked
    /\ Apply(w)
    /\ Settle(w, TRUE)

(* psycopg raises: the transaction is rolled back, or was committed and the *)
(* connection lost before the answer.                                       *)
\* Mutants of Fail: the UPDATE in a transaction of its own; no "except
\* Exception", so that the task that awaits the batch dies.
Fail_Partial(w) ==
    /\ "db" \in Fault
    /\ job[w].step = "updated" /\ ~job[w].blocked
    /\ Retire(w) /\ UNCHANGED table
    /\ Settle(w, FALSE)
Fail_Escapes(w) ==
    /\ "db" \in Fault
    /\ job[w].step \in {"started", "updated"}
    /\ job' = [job EXCEPT ![w] = [NoJob EXCEPT !.step = "dead"]]
    /\ UNCHANGED <<sent, phase, inbox, counters, buffers, round, database, pledged>>
Fail(w) ==
    /\ "db" \in Fault
    /\ job[w].step # "none"
    /\ \/ UNCHANGED database
       \/ job[w].step = "updated" /\ ~job[w].blocked /\ Apply(w)
    /\ Settle(w, FALSE)

-----------------------------------------------------------------------------
(* SIGTERM: run() cancels the flush loop and _flush_all takes the keys that *)
(* are buffered at that moment.  The batch the loop awaited is written by   *)
(* its thread alone, or never, if no thread has picked it up yet.           *)
Stopping(keys) ==
    /\ "stop" \in Fault
    /\ phase = "running"
    /\ phase' = "flushing"
    /\ round' = keys
    /\ pledged' = Buffered
    /\ \/ UNCHANGED job
       \/ job["loop"].step = "started" /\ job' = [job EXCEPT !["loop"] = NoJob]
    /\ UNCHANGED <<sent, inbox, counters, buffers, database>>

\* Mutant of Stop: only the windows that are due are flushed.
Stop_RipeOnly == Stopping(Ripe)
Stop == Stopping(window)

\* sub.drain(): no more deliveries, and the callback runs for what is there.
Drain ==
    /\ phase = "flushing"
    /\ round = <<>> /\ job["stop"] = NoJob
    /\ phase' = "draining"
    /\ UNCHANGED <<sent, inbox, counters, buffers, round, job, database, pledged>>

Stopped ==
    /\ phase = "draining"
    /\ inbox = <<>>
    /\ phase' = "stopped"
    /\ UNCHANGED <<sent, inbox, counters, buffers, round, job, database, pledged>>

-----------------------------------------------------------------------------
(* The process is gone: at its end, once the last thread is joined, or by a *)
(* crash, which rolls back what was not committed.                          *)
Gone ==
    /\ phase' = "down"
    /\ inbox' = <<>>
    /\ buffer' = [k \in Key |-> <<>>]
    /\ window' = <<>> /\ ripe' = 0 /\ round' = <<>>
    /\ job' = [w \in Caller |-> NoJob]
    /\ UNCHANGED <<sent, counters, database, pledged>>

Exit == phase = "stopped" /\ job["loop"] = NoJob /\ Gone
Crash == "crash" \in Fault /\ phase # "down" /\ Gone

Start ==
    /\ phase = "down"
    /\ phase' = "running"
    /\ received' = 0 /\ written' = 0 /\ failed' = 0
    /\ pledged' = {}
    /\ UNCHANGED <<sent, inbox, buffers, round, job, database>>

-----------------------------------------------------------------------------
Next ==
    \/ \E i \in Ingest : Publish(i)
    \/ OnMessage
    \/ Ripen \/ Wake
    \/ \E w \in Caller : FlushOne(w) \/ Supersede(w) \/ Commit(w) \/ Fail(w)
    \/ Stop \/ Drain \/ Stopped \/ Exit
    \/ Crash \/ Start

Spec == Init /\ [][Next]_vars

(* The event loop runs what is ready, time passes, and PostgreSQL answers a *)
(* transaction one way or the other.  Nobody has to publish, stop or crash. *)
Fairness ==
    /\ WF_vars(OnMessage)
    /\ WF_vars(Ripen) /\ WF_vars(Wake)
    /\ \A w \in Caller : WF_vars(FlushOne(w)) /\ WF_vars(Supersede(w))
                         /\ WF_vars(Commit(w) \/ Fail(w))
    /\ WF_vars(Drain) /\ WF_vars(Stopped) /\ WF_vars(Exit) /\ WF_vars(Start)

FairSpec == Spec /\ Fairness

-----------------------------------------------------------------------------
(* Until it is told to stop.                                                *)

(* Every message the callback took is counted once: as written, as failed,  *)
(* in a buffer, or in the batch the flush loop awaits.                      *)
Accounted ==
    phase = "running" =>
        received = written + failed + Len(job["loop"].batch)
                   + SumFunction([k \in Key |-> Len(buffer[k])])

Before(m1, m2) ==
    /\ KeyOfMsg(m1) = KeyOfMsg(m2)
    /\ m1[1] < m2[1] \/ (m1[1] = m2[1] /\ m1[2] < m2[2])

(* The CTOs of one file or stream reach the table in the order in which     *)
(* they were published: none is stored while an earlier one is still to be  *)
(* written.  Supersession leans on it, since the batch that commits last is *)
(* taken for the newest.                                                    *)
NoOvertaking ==
    \A m2 \in table : \A m1 \in ToSet(inbox) \cup Buffered \cup InFlight :
        ~Before(m1, m2)

(* A row is retired only by an ingest of its own file and path that is not  *)
(* older than the row's.                                                    *)
NotRetiredByOlder ==
    \A m \in table : validTo[m] # 0 =>
        KeyOf[validTo[m]] = KeyOfMsg(m) /\ validTo[m] >= m[1]

(* No message is stuck: what is delivered is written, or counted as failed, *)
(* or lost with the process.                                                *)
EveryMessageSettles ==
    \A m \in Msg : (m \in ToSet(inbox)) ~>
                       (m \notin ToSet(inbox) \cup Buffered \cup InFlight)

(* With a stop as well.                                                     *)

(* The old overlay is never gone before the new one is there: a row is      *)
(* retired only together with the first rows of the ingest that retires it, *)
(* and only by an ingest of the same file that came the same path.          *)
RetiredByStored ==
    \A m \in table : validTo[m] # 0 =>
        /\ KeyOfMsg(m) \in FileKey
        /\ KeyOf[validTo[m]] = KeyOfMsg(m)
        /\ \E m2 \in table : m2[1] = validTo[m]

(* History is kept: no row is deleted, and the valid_to of a retired row    *)
(* is never overwritten, not by two transactions racing for it either.      *)
HistoryKept ==
    [][ /\ table \subseteq table'
        /\ \A m \in Msg : validTo[m] # 0 => validTo'[m] = validTo[m] ]_vars

(* What is buffered when the stop is requested is handed to the database    *)
(* before the subscription is drained.                                      *)
StopFlushesBuffer ==
    phase \in {"draining", "stopped"} => pledged \cap Buffered = {}

(* A requested stop is carried out, with the database failing and messages  *)
(* still coming in.                                                         *)
StopEnds == (phase = "flushing") ~> (phase = "down")

-----------------------------------------------------------------------------
(* What the documents say and the code does not do.                         *)

(* ADR-0010: a re-ingest retires the CTOs "from the prior ingest".          *)
RetiredByPriorOnly == \A m \in table : validTo[m] # m[1]

(* ADR-0006: messages are delivered at least once, restarts included.       *)
StopWritesAll == phase = "stopped" => Buffered = {}

=============================================================================
