---------------------------- MODULE CaptureChain ----------------------------
(***************************************************************************)
(* CaptureWriter of services/gateway/capture.py: every call to capture()   *)
(* stores the raw bytes in MinIO, then appends one entry to the hash       *)
(* chain of the day, kept as a manifest object that each call rewrites as  *)
(* a whole from the lines the writer holds in memory.                      *)
(*                                                                         *)
(* One action is the code between two awaits.  An await of a MinIO call    *)
(* hands the call to a thread; the calls are actions of their own, with    *)
(* the outcomes a network client can see: done, failed before it took      *)
(* effect, and failed after it did (the response was lost).                *)
(*                                                                         *)
(* SHA-256 is ideal: the hash of an entry is the list of everything it     *)
(* hashes, so two hashes are equal exactly when their inputs are.          *)
(***************************************************************************)
EXTENDS Naturals, Sequences, SequencesExt

CONSTANTS
    Call,       \* the calls of capture() made during a behaviour
    Payload,    \* the raw bytes, with the protocol they arrived on
    MaxTime,    \* the last instant of a behaviour
    Day,        \* the UTC dates
    NoDay,      \* None, the day of a writer that has loaded no chain
    NoCall,     \* the holder of a free lock
    DayOf,      \* the date of each instant
    Fault       \* what may go wrong, a set of the members of FaultKind

FaultKind == {"read", "object", "manifest", "crash", "clock"}
Time == 0 .. MaxTime

ASSUME CaptureAssumption ==
    /\ MaxTime \in Nat
    /\ DayOf \in [Time -> Day]
    /\ NoDay \notin Day
    /\ NoCall \notin Call
    /\ Fault \subseteq FaultKind

VARIABLES
    now,        \* the wall clock
    object,     \* MinIO: the keys of the raw objects, <<day, payload>>
    manifest,   \* MinIO: the lines of each day's manifest.jsonl
    chainDay,   \* self._chain_day
    chainTip,   \* self._chain_tip
    line,       \* self._chain_manifest_lines
    holder,     \* the call that holds self._lock
    waiter,     \* the calls queued on self._lock, first come first
    pc,         \* where each call is
    arg,        \* the payload and captured_at of each call
    entry       \* the ChainEntry each call has made

store == <<object, manifest>>
memory == <<chainDay, chainTip, line>>
lock == <<holder, waiter>>
vars == <<now, store, memory, lock, pc, arg, entry>>

-----------------------------------------------------------------------------
(* The chain: libs/cto_schema/src/cto_schema/hashchain.py.                  *)

Arg == [payload : Payload, at : Time]
Hash == Seq(Arg)
Genesis == <<>>
EntryHash(prev, x) == Append(prev, x)

ChainEntry == [of : Arg, prev : Hash, hash : Hash]
MakeEntry(prev, x) == [of |-> x, prev |-> prev, hash |-> EntryHash(prev, x)]

TipOf(s) == IF s = <<>> THEN Genesis ELSE s[Len(s)].hash

VerifyChain(s) ==
    \A i \in DOMAIN s :
        /\ s[i].prev = IF i = 1 THEN Genesis ELSE s[i - 1].hash
        /\ s[i].hash = EntryHash(s[i].prev, s[i].of)

DateOf(c) == DayOf[arg[c].at]
\* Mutant of ObjectKey: the two parts of the key swapped.
ObjectKey_Swapped(x) == <<x.payload, DayOf[x.at]>>
ObjectKey(x) == <<DayOf[x.at], x.payload>>

-----------------------------------------------------------------------------
InCriticalSection == {"rolling", "putObject", "putManifest", "stored"}
Ended == {"returned", "raised", "lost"}
PC == {"idle", "waiting"} \cup InCriticalSection \cup Ended

TypeOK ==
    /\ now \in Time
    /\ object \subseteq Day \X Payload
    /\ manifest \in [Day -> Seq(ChainEntry)]
    /\ chainDay \in Day \cup {NoDay}
    /\ chainTip \in Hash
    /\ line \in Seq(ChainEntry)
    /\ holder \in Call \cup {NoCall}
    /\ waiter \in Seq(Call)
    /\ pc \in [Call -> PC]
    /\ arg \in [Call -> Arg]
    /\ entry \in [Call -> ChainEntry]

Init ==
    /\ now = 0
    /\ object = {}
    /\ manifest = [d \in Day |-> <<>>]
    /\ chainDay = NoDay
    /\ chainTip = Genesis
    /\ line = <<>>
    /\ holder = NoCall
    /\ waiter = <<>>
    /\ pc = [c \in Call |-> "idle"]
    /\ \E p \in Payload :
        LET x == [payload |-> p, at |-> 0]
        IN  /\ arg = [c \in Call |-> x]
            /\ entry = [c \in Call |-> MakeEntry(Genesis, x)]

-----------------------------------------------------------------------------
(* The clock the callers read.  It may be set back ("clock").               *)
Tick ==
    /\ \E t \in Time :
        /\ t = now + 1 \/ ("clock" \in Fault /\ t + 1 = now)
        /\ now' = t
    /\ UNCHANGED <<store, memory, lock, pc, arg, entry>>

(* A listener or an ingestor takes received_at and calls capture() in one  *)
(* go: no await separates the timestamp from the lock's queue.             *)
Enqueue(c, queue) ==
    /\ pc[c] = "idle"
    /\ \E p \in Payload : arg' = [arg EXCEPT ![c] = [payload |-> p, at |-> now]]
    /\ waiter' = queue
    /\ pc' = [pc EXCEPT ![c] = "waiting"]
    /\ UNCHANGED <<now, store, memory, holder, entry>>

\* Mutant of Submit: a lock that serves the last caller first.
Submit_Lifo(c) == Enqueue(c, <<c>> \o waiter)

Submit(c) == Enqueue(c, Append(waiter, c))

(* The lock goes to the first waiter.  On the day the writer has loaded    *)
(* the entry is made at once; otherwise the day's manifest is read first.  *)
Enter(c) ==
    /\ waiter # <<>>
    /\ c = Head(waiter)
    /\ holder' = c
    /\ waiter' = Tail(waiter)
    /\ IF DateOf(c) = chainDay
       THEN /\ entry' = [entry EXCEPT ![c] = MakeEntry(chainTip, arg[c])]
            /\ pc' = [pc EXCEPT ![c] = "putObject"]
       ELSE /\ pc' = [pc EXCEPT ![c] = "rolling"]
            /\ UNCHANGED entry
    /\ UNCHANGED <<now, store, memory, arg>>

\* Mutant of Acquire: capture() without "async with self._lock".
Acquire_NoLock(c) == Enter(c)

Acquire(c) ==
    /\ holder = NoCall
    /\ Enter(c)

(* _roll_chain_if_needed: the lines and the tip come from MinIO; a missing *)
(* manifest and an empty one both start the chain at GENESIS.              *)
LoadChain(c, stored, tip) ==
    /\ pc[c] = "rolling"
    /\ chainDay' = DateOf(c)
    /\ line' = stored
    /\ chainTip' = tip
    /\ entry' = [entry EXCEPT ![c] = MakeEntry(tip, arg[c])]
    /\ pc' = [pc EXCEPT ![c] = "putObject"]
    /\ UNCHANGED <<now, store, lock, arg>>

\* Mutants of RollChain: the stored lines are not read back; the tip of the
\* day before is not reset when the new day has no manifest yet.
RollChain_Afresh(c) == LoadChain(c, <<>>, Genesis)

RollChain_KeepTip(c) ==
    LET stored == manifest[DateOf(c)]
    IN  LoadChain(c, stored, IF stored = <<>> THEN chainTip ELSE TipOf(stored))

RollChain(c) == LoadChain(c, manifest[DateOf(c)], TipOf(manifest[DateOf(c)]))

(* _write_object of the raw bytes, and the append to the lines in memory   *)
(* that follows its return.                                                *)
WriteObject(c) ==
    /\ pc[c] = "putObject"
    /\ object' = object \cup {ObjectKey(arg[c])}
    /\ line' = Append(line, entry[c])
    /\ pc' = [pc EXCEPT ![c] = "putManifest"]
    /\ UNCHANGED <<now, manifest, chainDay, chainTip, lock, arg, entry>>

(* The put of the manifest takes effect: the object is replaced whole.     *)
WriteManifest(c) ==
    /\ pc[c] = "putManifest"
    /\ manifest' = [manifest EXCEPT ![DateOf(c)] = line]
    /\ pc' = [pc EXCEPT ![c] = "stored"]
    /\ UNCHANGED <<now, object, memory, lock, arg, entry>>

(* The put returns: the tip advances, the lock is free, the caller has its *)
(* RawPointer and goes on to normalize.                                    *)
Return(c) ==
    /\ pc[c] = "stored"
    /\ chainTip' = entry[c].hash
    /\ holder' = NoCall
    /\ pc' = [pc EXCEPT ![c] = "returned"]
    /\ UNCHANGED <<now, store, chainDay, line, waiter, arg, entry>>

-----------------------------------------------------------------------------
\* Mutants of Raise: acquire and release without try/finally; a rollback of
\* the lines that forgets the failed put may have taken effect.
Raise_HoldLock(c) ==
    /\ pc' = [pc EXCEPT ![c] = "raised"]
    /\ UNCHANGED <<now, manifest, memory, lock, arg, entry>>

Raise_PopLine(c) ==
    /\ holder' = NoCall
    /\ pc' = [pc EXCEPT ![c] = "raised"]
    /\ line' = IF pc[c] \in {"putManifest", "stored"} THEN Front(line) ELSE line
    /\ UNCHANGED <<now, manifest, chainDay, chainTip, waiter, arg, entry>>

(* An exception leaves the "async with": the lock is free and nothing in   *)
(* memory is put back.                                                     *)
Raise(c) ==
    /\ holder' = NoCall
    /\ pc' = [pc EXCEPT ![c] = "raised"]
    /\ UNCHANGED <<now, manifest, memory, waiter, arg, entry>>

ReadFails(c) ==
    /\ "read" \in Fault
    /\ pc[c] = "rolling"
    /\ Raise(c)
    /\ UNCHANGED object

\* Mutants of ObjectFails: the failure is logged and the call goes on; the
\* line was appended before the put, and stays.
ObjectFails_GoOn(c) ==
    /\ "object" \in Fault
    /\ pc[c] = "putObject"
    /\ line' = Append(line, entry[c])
    /\ pc' = [pc EXCEPT ![c] = "putManifest"]
    /\ UNCHANGED <<now, store, chainDay, chainTip, lock, arg, entry>>

ObjectFails_KeepLine(c) ==
    /\ "object" \in Fault
    /\ pc[c] = "putObject"
    /\ line' = Append(line, entry[c])
    /\ holder' = NoCall
    /\ pc' = [pc EXCEPT ![c] = "raised"]
    /\ UNCHANGED <<now, store, chainDay, chainTip, waiter, arg, entry>>

ObjectFails(c) ==
    /\ "object" \in Fault
    /\ pc[c] = "putObject"
    /\ object' \in {object, object \cup {ObjectKey(arg[c])}}
    /\ Raise(c)

ManifestFails(c) ==
    /\ "manifest" \in Fault
    /\ pc[c] \in {"putManifest", "stored"}
    /\ Raise(c)
    /\ UNCHANGED object

(* The process dies and starts again: memory is gone and every call under  *)
(* way is lost.  What MinIO took before stays.                             *)
Crash ==
    /\ "crash" \in Fault
    /\ chainDay' = NoDay
    /\ chainTip' = Genesis
    /\ line' = <<>>
    /\ holder' = NoCall
    /\ waiter' = <<>>
    /\ pc' = [c \in Call |-> IF pc[c] \in {"waiting"} \cup InCriticalSection
                             THEN "lost" ELSE pc[c]]
    /\ UNCHANGED <<now, store, arg, entry>>

-----------------------------------------------------------------------------
Progress(c) ==
    \/ Acquire(c)
    \/ RollChain(c)
    \/ WriteObject(c)
    \/ WriteManifest(c)
    \/ Return(c)

Failure(c) == ReadFails(c) \/ ObjectFails(c) \/ ManifestFails(c)

Next ==
    \/ Tick
    \/ Crash
    \/ \E c \in Call : Submit(c) \/ Progress(c) \/ Failure(c)

Spec == Init /\ [][Next]_vars

(* A MinIO call ends, one way or another, by the client's own timeouts, and *)
(* the event loop runs every task that is ready; nobody has to submit.      *)
FairSpec == Spec /\ \A c \in Call : WF_vars(Progress(c))
-----------------------------------------------------------------------------
(* What the evidence archive owes its readers.                              *)

(* tools/verify_chain accepts every stored manifest: with "manifest" out of *)
(* Fault no crash, failed read, failed object put, day change or clock step *)
(* leaves two entries claiming the same predecessor.                        *)
ChainVerifies == \A d \in Day : VerifyChain(manifest[d])

(* Whatever fails, a stored chain is at worst a tree: each entry hashes its *)
(* own content onto GENESIS or onto an entry stored before it, so a failed  *)
(* put can fork a day's chain and never leave an entry hanging in the air.  *)
Rooted(s) ==
    \A i \in DOMAIN s :
        /\ s[i].hash = EntryHash(s[i].prev, s[i].of)
        /\ s[i].prev = Genesis \/ \E j \in 1 .. i - 1 : s[i].prev = s[j].hash
EntriesRooted == \A d \in Day : Rooted(manifest[d])

(* A manifest lists only bytes that can be fetched, on their own day: the   *)
(* object is stored before its line, and no failure swaps the two.          *)
LinesBacked ==
    \A d \in Day : \A i \in DOMAIN manifest[d] :
        /\ ObjectKey(manifest[d][i].of) \in object
        /\ DayOf[manifest[d][i].of.at] = d

(* A call that returned a pointer has its own entry in its day's manifest,  *)
(* for good: no later rewrite, by this process or the next, drops it.       *)
ReturnedRecorded ==
    \A c \in Call : pc[c] = "returned" =>
        \E i \in DOMAIN manifest[DateOf(c)] : manifest[DateOf(c)][i] = entry[c]

(* Rewriting the whole object only ever appends to it: what a reader saw of *)
(* a day stays, in its place ("The chain manifest is append-only").         *)
AppendOnly == [][\A d \in Day : IsPrefix(manifest[d], manifest'[d])]_manifest

(* While nobody sets the clock back, each manifest is in captured_at order: *)
(* the lock's queue keeps the order in which the callers took the time.     *)
CaptureOrder ==
    \A d \in Day : \A i, j \in DOMAIN manifest[d] :
        i < j => manifest[d][i].of.at <= manifest[d][j].of.at

(* Every call of capture() ends: no failure leaves the lock held for ever.  *)
EveryCallEnds == \A c \in Call : (pc[c] = "waiting") ~> (pc[c] \in Ended)

-----------------------------------------------------------------------------
(* The manifests, read as logs of what was captured and when, and the calls,*)
(* read by what their callers may know of them.                             *)
StatusOf(step) ==
    CASE step = "idle" -> "new"
      [] step = "stored" -> "recorded"
      [] step = "returned" -> "confirmed"
      [] step \in {"raised", "lost"} -> "rejected"
      [] OTHER -> "offered"

Archive == INSTANCE EvidenceLog WITH
    Item <- Arg,
    LogOf <- [x \in Arg |-> DayOf[x.at]],
    log <- [d \in Day |-> [i \in DOMAIN manifest[d] |-> manifest[d][i].of]],
    item <- arg,
    status <- [c \in Call |-> StatusOf(pc[c])]

(* CaptureWriter keeps the promise of EvidenceLog, restarts included, as    *)
(* long as no put of a manifest fails: an entry whose call raised may else  *)
(* reach the store later, with the lines of the next call.                  *)
IsEvidenceLog == Archive!Spec

=============================================================================
