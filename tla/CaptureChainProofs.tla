------------------------ MODULE CaptureChainProofs ------------------------
(* What holds of CaptureChain for every set of calls, payloads, dates and   *)
(* faults.                                                                  *)
EXTENDS CaptureChain, SequenceTheorems, TLAPS

USE CaptureAssumption

-----------------------------------------------------------------------------
(* make_entry makes an entry. *)
LEMMA EntryType ==
    ASSUME NEW prev \in Hash, NEW x \in Arg
    PROVE  MakeEntry(prev, x) \in ChainEntry
  BY DEF MakeEntry, EntryHash, ChainEntry, Hash

(* The tip of a chain is a hash. *)
LEMMA TipType ==
    ASSUME NEW s \in Seq(ChainEntry)
    PROVE  TipOf(s) \in Hash
  <1>1. CASE s = <<>>
    BY <1>1 DEF TipOf, Genesis, Hash
  <1>2. CASE s # <<>>
    <2>1. s[Len(s)] \in ChainEntry
      BY <1>2
    <2>2. QED
      BY <1>2, <2>1 DEF TipOf, ChainEntry
  <1>3. QED
    BY <1>1, <1>2

(* The date of a call is one of the days. *)
LEMMA DateType ==
    ASSUME TypeOK, NEW c \in Call
    PROVE  DateOf(c) \in Day
  BY DEF TypeOK, DateOf, Arg, Time

(* A writer that has just been made is well typed. *)
LEMMA InitType == Init => TypeOK
  <1> SUFFICES ASSUME Init PROVE TypeOK
    OBVIOUS
  <1>1. 0 \in Time
    BY DEF Time
  <1>2. PICK p \in Payload :
          LET x == [payload |-> p, at |-> 0]
          IN  /\ arg = [c \in Call |-> x]
              /\ entry = [c \in Call |-> MakeEntry(Genesis, x)]
    BY DEF Init
  <1>3. [payload |-> p, at |-> 0] \in Arg
    BY <1>1 DEF Arg
  <1>4. Genesis \in Hash
    BY DEF Genesis, Hash
  <1>5. MakeEntry(Genesis, [payload |-> p, at |-> 0]) \in ChainEntry
    BY <1>3, <1>4, EntryType
  <1>6. arg \in [Call -> Arg] /\ entry \in [Call -> ChainEntry]
    BY <1>2, <1>3, <1>5
  <1>7. QED
    BY <1>1, <1>4, <1>6 DEF Init, TypeOK, PC

(* No step of a capture, of the clock or of a crash breaks the types. *)
LEMMA NextType == TypeOK /\ [Next]_vars => TypeOK'
  <1> SUFFICES ASSUME TypeOK, [Next]_vars PROVE TypeOK'
    OBVIOUS
  <1> USE DEF TypeOK, store, memory, lock
  <1>1. CASE Tick
    BY <1>1 DEF Tick
  <1>2. CASE Crash
    BY <1>2 DEF Crash, Genesis, Hash, PC, Ended
  <1>3. ASSUME NEW c \in Call, Submit(c) PROVE TypeOK'
    <2>1. PICK p \in Payload : arg' = [arg EXCEPT ![c] = [payload |-> p, at |-> now]]
      BY <1>3 DEF Submit, Enqueue
    <2>2. arg' \in [Call -> Arg]
      BY <2>1 DEF Arg
    <2>3. pc' \in [Call -> PC]
      BY <1>3 DEF Submit, Enqueue, PC
    <2>4. QED
      BY <1>3, <2>2, <2>3 DEF Submit, Enqueue
  <1>4. ASSUME NEW c \in Call, Acquire(c) PROVE TypeOK'
    <2>1. waiter' \in Seq(Call) /\ holder' \in Call \cup {NoCall}
      BY <1>4 DEF Acquire, Enter
    <2>2. MakeEntry(chainTip, arg[c]) \in ChainEntry
      BY EntryType
    <2>3. entry' \in [Call -> ChainEntry] /\ pc' \in [Call -> PC]
      BY <1>4, <2>2 DEF Acquire, Enter, PC, InCriticalSection
    <2>4. QED
      BY <1>4, <2>1, <2>3 DEF Acquire, Enter
  <1>5. ASSUME NEW c \in Call, RollChain(c) PROVE TypeOK'
    <2>1. DateOf(c) \in Day
      BY DateType
    <2>2. manifest[DateOf(c)] \in Seq(ChainEntry)
      BY <2>1
    <2>3. TipOf(manifest[DateOf(c)]) \in Hash
      BY <2>2, TipType
    <2>4. MakeEntry(TipOf(manifest[DateOf(c)]), arg[c]) \in ChainEntry
      BY <2>3, EntryType
    <2>5. entry' \in [Call -> ChainEntry] /\ pc' \in [Call -> PC]
      BY <1>5, <2>4 DEF RollChain, LoadChain, PC, InCriticalSection
    <2>6. QED
      BY <1>5, <2>1, <2>2, <2>3, <2>5 DEF RollChain, LoadChain
  <1>6. ASSUME NEW c \in Call, WriteObject(c) PROVE TypeOK'
    <2>1. ObjectKey(arg[c]) \in Day \X Payload
      BY DateType DEF ObjectKey, Arg, Time
    <2>2. line' \in Seq(ChainEntry) /\ pc' \in [Call -> PC]
      BY <1>6 DEF WriteObject, PC, InCriticalSection
    <2>3. QED
      BY <1>6, <2>1, <2>2 DEF WriteObject
  <1>7. ASSUME NEW c \in Call, WriteManifest(c) PROVE TypeOK'
    BY <1>7, DateType DEF WriteManifest, PC, InCriticalSection
  <1>8. ASSUME NEW c \in Call, Return(c) PROVE TypeOK'
    BY <1>8 DEF Return, PC, Ended, ChainEntry
  <1>9. ASSUME NEW c \in Call, Failure(c) PROVE TypeOK'
    <2>1. Raise(c) /\ object' \in {object, object \cup {ObjectKey(arg[c])}}
      BY <1>9 DEF Failure, ReadFails, ObjectFails, ManifestFails
    <2>2. ObjectKey(arg[c]) \in Day \X Payload
      BY DEF ObjectKey, Arg, Time
    <2>3. QED
      BY <2>1, <2>2 DEF Raise, PC, Ended
  <1>10. CASE UNCHANGED vars
    BY <1>10 DEF vars
  <1>11. QED
    BY <1>1, <1>2, <1>3, <1>4, <1>5, <1>6, <1>7, <1>8, <1>9, <1>10 DEF Next, Progress

(* Every variable keeps its type. *)
THEOREM Typing == Spec => []TypeOK
  BY InitType, NextType, PTL DEF Spec

-----------------------------------------------------------------------------
(* The inductive invariant.  It says what the call that holds the lock may  *)
(* rely on: it is alone between Acquire and Return, its entry was made from *)
(* the tip in memory, and the lines in memory extend the stored manifest,   *)
(* by a line whose put failed or is still to come.                          *)

LockInv == \A c \in Call : pc[c] \in InCriticalSection <=> holder = c

QueueInv ==
    \A i \in DOMAIN waiter :
        /\ pc[waiter[i]] = "waiting"
        /\ \A j \in DOMAIN waiter : waiter[i] = waiter[j] => i = j

HolderInv ==
    \A c \in Call :
        /\ pc[c] \in {"putObject", "putManifest", "stored"} =>
               chainDay = DateOf(c)
        /\ pc[c] = "putObject" => entry[c] = MakeEntry(chainTip, arg[c])
        /\ pc[c] \in {"putManifest", "stored"} =>
               line # <<>> /\ line[Len(line)] = entry[c]
        /\ pc[c] = "stored" => manifest[chainDay] = line

LineInv ==
    /\ chainDay = NoDay => line = <<>> /\ chainTip = Genesis
    /\ chainDay \in Day => IsPrefix(manifest[chainDay], line)
    /\ Rooted(line)
    /\ chainTip = Genesis \/ \E i \in DOMAIN line : chainTip = line[i].hash
    /\ \A i \in DOMAIN line :
           /\ ObjectKey(line[i].of) \in object
           /\ DayOf[line[i].of.at] = chainDay

IInv ==
    /\ TypeOK
    /\ LockInv
    /\ QueueInv
    /\ HolderInv
    /\ LineInv
    /\ EntriesRooted
    /\ LinesBacked
    /\ ReturnedRecorded

-----------------------------------------------------------------------------
(* A prefix, element by element. *)
LEMMA PrefixElements ==
    ASSUME NEW S, NEW s \in Seq(S), NEW t \in Seq(S)
    PROVE  IsPrefix(s, t) <=>
               Len(s) <= Len(t) /\ \A i \in 1 .. Len(s) : s[i] = t[i]
  <1>1. ASSUME Len(s) <= Len(t)
        PROVE  /\ SubSeq(t, 1, Len(s)) \in Seq(S)
               /\ Len(SubSeq(t, 1, Len(s))) = Len(s)
               /\ \A i \in 1 .. Len(s) : SubSeq(t, 1, Len(s))[i] = t[i]
    BY <1>1
  <1>2. SubSeq(s, 1, Len(s)) = s
    BY SubSeqFull
  <1>3. ASSUME Len(s) <= Len(t), \A i \in 1 .. Len(s) : s[i] = t[i]
        PROVE  SubSeq(t, 1, Len(s)) = s
    BY <1>1, <1>3, SeqEqual
  <1>4. QED
    BY <1>1, <1>2, <1>3 DEF IsPrefix

(* A manifest extends itself. *)
LEMMA PrefixReflexive ==
    ASSUME NEW S, NEW s \in Seq(S) PROVE IsPrefix(s, s)
  BY PrefixElements

(* A manifest with one more line extends the manifest. *)
LEMMA PrefixAppend ==
    ASSUME NEW S, NEW s \in Seq(S), NEW t \in Seq(S), NEW e \in S, IsPrefix(s, t)
    PROVE  IsPrefix(s, Append(t, e))
  <1>1. /\ Append(t, e) \in Seq(S)
        /\ Len(Append(t, e)) = Len(t) + 1
        /\ \A i \in 1 .. Len(t) : Append(t, e)[i] = t[i]
    OBVIOUS
  <1>2. Len(s) <= Len(t) /\ \A i \in 1 .. Len(s) : s[i] = t[i]
    BY PrefixElements
  <1>3. Len(s) <= Len(Append(t, e)) /\ \A i \in 1 .. Len(s) : s[i] = Append(t, e)[i]
    BY <1>1, <1>2
  <1>4. QED
    BY <1>1, <1>3, PrefixElements

(* The tip of a chain is the start of the day or the hash of one of its     *)
(* entries, and an entry made from such a tip keeps the chain rooted.       *)
LEMMA TipIsRooted ==
    ASSUME NEW s \in Seq(ChainEntry)
    PROVE  TipOf(s) = Genesis \/ \E i \in DOMAIN s : TipOf(s) = s[i].hash
  BY DEF TipOf

(* A line made from a rooted tip leaves the manifest rooted. *)
LEMMA RootedAppend ==
    ASSUME NEW s \in Seq(ChainEntry), Rooted(s), NEW tip \in Hash, NEW x \in Arg,
           tip = Genesis \/ \E i \in DOMAIN s : tip = s[i].hash
    PROVE  Rooted(Append(s, MakeEntry(tip, x)))
  <1> DEFINE e == MakeEntry(tip, x)
             t == Append(s, e)
  <1>1. e.prev = tip /\ e.hash = EntryHash(e.prev, e.of)
    BY DEF MakeEntry
  <1>2. /\ Len(t) = Len(s) + 1
        /\ t[Len(t)] = e
        /\ \A i \in 1 .. Len(s) : t[i] = s[i]
    OBVIOUS
  <1>3. ASSUME NEW i \in DOMAIN t
        PROVE  /\ t[i].hash = EntryHash(t[i].prev, t[i].of)
               /\ t[i].prev = Genesis \/ \E j \in 1 .. i - 1 : t[i].prev = t[j].hash
    <2>1. CASE i \in 1 .. Len(s)
      BY <1>2, <2>1 DEF Rooted
    <2>2. CASE i = Len(t)
      BY <1>1, <1>2, <2>2
    <2>3. QED
      BY <1>2, <2>1, <2>2
  <1>4. QED
    BY <1>3 DEF Rooted

-----------------------------------------------------------------------------
(* The invariant is inductive: one lemma for each action. *)

(* A writer with nothing stored satisfies the invariant. *)
LEMMA InitInvariant == Init => IInv
  <1> SUFFICES ASSUME Init PROVE IInv
    OBVIOUS
  <1>1. TypeOK
    BY InitType
  <1>2. LockInv /\ QueueInv
    BY DEF Init, LockInv, QueueInv, InCriticalSection
  <1>3. HolderInv
    BY DEF Init, HolderInv
  <1>4. LineInv
    BY DEF Init, LineInv, Rooted
  <1>5. EntriesRooted /\ LinesBacked /\ ReturnedRecorded
    BY DEF Init, EntriesRooted, LinesBacked, ReturnedRecorded, Rooted
  <1>6. QED
    BY <1>1, <1>2, <1>3, <1>4, <1>5 DEF IInv

(* What is stored, in MinIO and in memory, does not change: so neither does *)
(* what is known of it.                                                     *)
LEMMA SameStore ==
    ASSUME IInv, UNCHANGED <<object, manifest, memory>>
    PROVE  LineInv' /\ EntriesRooted' /\ LinesBacked'
  <1> USE DEF IInv, memory
  <1>1. LineInv'
    BY DEF LineInv, ObjectKey
  <1>2. EntriesRooted' /\ LinesBacked'
    BY DEF EntriesRooted, LinesBacked, ObjectKey
  <1>3. QED
    BY <1>1, <1>2

(* The clock, set forward or back, does not touch the store. *)
LEMMA TickInvariant ==
    ASSUME IInv, Tick PROVE IInv'
  <1> USE DEF Tick, IInv, store, memory, lock
  <1>1. TypeOK'
    BY NextType DEF Next
  <1>2. LineInv' /\ EntriesRooted' /\ LinesBacked'
    BY SameStore
  <1>3. LockInv' /\ QueueInv' /\ HolderInv' /\ ReturnedRecorded'
    BY DEF LockInv, QueueInv, HolderInv, ReturnedRecorded, DateOf
  <1>4. QED
    BY <1>1, <1>2, <1>3

(* A call joins the queue of the lock with its time already taken. *)
LEMMA SubmitInvariant ==
    ASSUME IInv, NEW c \in Call, Submit(c) PROVE IInv'
  <1> USE DEF Submit, Enqueue, IInv, store, memory
  <1>1. TypeOK'
    BY NextType DEF Next
  <1>2. LineInv' /\ EntriesRooted' /\ LinesBacked'
    BY SameStore
  <1>3. pc[c] = "idle" /\ pc' = [pc EXCEPT ![c] = "waiting"] /\ holder' = holder
    OBVIOUS
  <1>4. LockInv'
    BY <1>3 DEF LockInv, TypeOK, InCriticalSection
  <1>5. QueueInv'
    <2>1. /\ Len(waiter') = Len(waiter) + 1
          /\ waiter'[Len(waiter')] = c
          /\ \A i \in 1 .. Len(waiter) : waiter'[i] = waiter[i]
      BY DEF TypeOK
    <2>2. \A i \in 1 .. Len(waiter) : waiter[i] # c /\ pc'[waiter[i]] = "waiting"
      BY <1>3 DEF QueueInv, TypeOK
    <2>3. DOMAIN waiter' = 1 .. Len(waiter) + 1 /\ pc'[c] = "waiting"
      BY <1>1, <1>3, <2>1 DEF TypeOK
    <2>4. QED
      BY <2>1, <2>2, <2>3 DEF QueueInv, TypeOK
  <1>6. \A b \in Call : b # c => arg'[b] = arg[b] /\ pc'[b] = pc[b]
    BY DEF TypeOK
  <1>7. pc'[c] = "waiting"
    BY <1>3 DEF TypeOK
  <1>8. HolderInv' /\ ReturnedRecorded'
    BY <1>6, <1>7 DEF HolderInv, ReturnedRecorded, DateOf
  <1>9. QED
    BY <1>1, <1>2, <1>4, <1>5, <1>8

(* The first call of the queue takes the lock, and nobody else has it. *)
LEMMA AcquireInvariant ==
    ASSUME IInv, NEW c \in Call, Acquire(c) PROVE IInv'
  <1> USE DEF Acquire, Enter, IInv, store, memory
  <1>1. TypeOK'
    BY NextType DEF Next, Progress
  <1>2. LineInv' /\ EntriesRooted' /\ LinesBacked'
    BY SameStore
  <1>3. /\ \A b \in Call : b # c => pc'[b] = pc[b] /\ entry'[b] = entry[b]
        /\ pc'[c] \in {"rolling", "putObject"}
        /\ holder = NoCall /\ holder' = c
    BY DEF TypeOK
  <1>4. LockInv'
    BY <1>3 DEF LockInv, InCriticalSection
  <1>5. QueueInv'
    <2>1. /\ Len(waiter) > 0 /\ waiter[1] = c
          /\ Len(waiter') = Len(waiter) - 1
          /\ \A i \in 1 .. Len(waiter') : waiter'[i] = waiter[i + 1]
      BY DEF TypeOK
    <2>2. \A i \in 1 .. Len(waiter) :
              /\ waiter[i] \in Call
              /\ pc[waiter[i]] = "waiting"
              /\ \A j \in 1 .. Len(waiter) : waiter[i] = waiter[j] => i = j
      BY DEF QueueInv, TypeOK
    <2>3. \A i \in 1 .. Len(waiter') : i + 1 \in 1 .. Len(waiter) /\ i + 1 # 1
      BY <2>1
    <2>4. \A i \in 1 .. Len(waiter') :
              /\ pc'[waiter'[i]] = "waiting"
              /\ \A j \in 1 .. Len(waiter') : waiter'[i] = waiter'[j] => i = j
      <3>1. TAKE i \in 1 .. Len(waiter')
      <3>2. waiter'[i] # c /\ waiter'[i] \in Call /\ pc[waiter'[i]] = "waiting"
        BY <2>1, <2>2, <2>3
      <3>3. ASSUME NEW j \in 1 .. Len(waiter'), waiter'[i] = waiter'[j] PROVE i = j
        BY <2>1, <2>2, <2>3, <3>3
      <3>4. QED
        BY <1>3, <3>2, <3>3
    <2>5. DOMAIN waiter' = 1 .. Len(waiter')
      BY <1>1 DEF TypeOK
    <2>6. QED
      BY <2>4, <2>5 DEF QueueInv
  <1>6. HolderInv'
    <2>1. \A b \in Call : pc[b] \notin InCriticalSection
      BY <1>3 DEF LockInv
    <2>2. ASSUME pc'[c] = "putObject"
          PROVE  chainDay = DateOf(c) /\ entry'[c] = MakeEntry(chainTip, arg[c])
      BY <2>2 DEF TypeOK
    <2>3. QED
      BY <1>3, <2>1, <2>2 DEF HolderInv, InCriticalSection, DateOf
  <1>7. ReturnedRecorded'
    BY <1>3 DEF ReturnedRecorded, DateOf
  <1>8. QED
    BY <1>1, <1>2, <1>4, <1>5, <1>6, <1>7

(* A step of the call that holds the lock leaves the queue and every other  *)
(* call as they were, outside the critical section.                         *)
LEMMA OnlyHolderMoves ==
    ASSUME IInv, NEW c \in Call, NEW step \in PC, pc[c] \in InCriticalSection,
           pc' = [pc EXCEPT ![c] = step], waiter' = waiter
    PROVE  /\ QueueInv'
           /\ holder = c
           /\ pc'[c] = step
           /\ \A b \in Call : b # c => pc[b] \notin InCriticalSection /\ pc'[b] = pc[b]
  BY DEF IInv, QueueInv, LockInv, TypeOK, InCriticalSection

(* A chain that is loaded is the one that is stored. *)
LEMMA RollChainInvariant ==
    ASSUME IInv, NEW c \in Call, RollChain(c) PROVE IInv'
  <1> USE DEF RollChain, LoadChain, store, lock
  <1> DEFINE d == DateOf(c)
             tip == TipOf(manifest[d])
  <1>1. TypeOK'
    BY NextType DEF IInv, Next, Progress
  <1>2. TypeOK /\ d \in Day /\ manifest[d] \in Seq(ChainEntry)
    BY DateType DEF IInv, TypeOK
  <1>3. /\ QueueInv' /\ holder = c /\ pc'[c] = "putObject"
        /\ \A b \in Call : b # c => pc[b] \notin InCriticalSection /\ pc'[b] = pc[b]
    BY OnlyHolderMoves DEF PC, InCriticalSection
  <1>4. /\ chainDay' = d /\ line' = manifest[d] /\ chainTip' = tip
        /\ entry'[c] = MakeEntry(tip, arg[c])
        /\ \A b \in Call : b # c => entry'[b] = entry[b]
        /\ UNCHANGED <<object, manifest, holder, arg>>
    BY <1>2 DEF TypeOK
  <1>5. LockInv'
    BY <1>3, <1>4 DEF LockInv, InCriticalSection
  <1>6. HolderInv'
    BY <1>3, <1>4 DEF HolderInv, InCriticalSection, DateOf
  <1>7. LineInv'
    <2>1. chainDay' # NoDay /\ IsPrefix(manifest'[chainDay'], line')
      BY <1>2, <1>4, PrefixReflexive
    <2>2. Rooted(line')
      BY <1>2, <1>4 DEF IInv, EntriesRooted
    <2>3. chainTip' = Genesis \/ \E i \in DOMAIN line' : chainTip' = line'[i].hash
      BY <1>2, <1>4, TipIsRooted
    <2>4. \A i \in DOMAIN line' :
              ObjectKey(line'[i].of) \in object' /\ DayOf[line'[i].of.at] = chainDay'
      BY <1>2, <1>4 DEF IInv, LinesBacked
    <2>5. QED
      BY <2>1, <2>2, <2>3, <2>4 DEF LineInv, Rooted, ObjectKey
  <1>8. EntriesRooted' /\ LinesBacked'
    BY <1>4 DEF IInv, EntriesRooted, LinesBacked, ObjectKey
  <1>9. ReturnedRecorded'
    BY <1>3, <1>4 DEF IInv, ReturnedRecorded, DateOf
  <1>10. QED
    BY <1>1, <1>3, <1>5, <1>6, <1>7, <1>8, <1>9 DEF IInv

(* The object is there before the line that speaks of it. *)
LEMMA WriteObjectInvariant ==
    ASSUME IInv, NEW c \in Call, WriteObject(c) PROVE IInv'
  <1> USE DEF WriteObject, lock
  <1>1. TypeOK'
    BY NextType DEF IInv, Next, Progress
  <1>2. TypeOK /\ pc[c] = "putObject"
    BY DEF IInv
  <1>3. /\ QueueInv' /\ holder = c /\ pc'[c] = "putManifest"
        /\ \A b \in Call : b # c => pc[b] \notin InCriticalSection /\ pc'[b] = pc[b]
    BY <1>2, OnlyHolderMoves DEF PC, InCriticalSection
  <1>4. /\ chainDay = DateOf(c) /\ chainDay \in Day
        /\ entry[c] = MakeEntry(chainTip, arg[c])
    BY <1>2, DateType DEF IInv, HolderInv
  <1>5. /\ Len(line') = Len(line) + 1
        /\ line'[Len(line')] = entry[c]
        /\ \A i \in 1 .. Len(line) : line'[i] = line[i]
        /\ DOMAIN line' = 1 .. Len(line) + 1
        /\ DOMAIN line = 1 .. Len(line)
    BY <1>2 DEF TypeOK
  <1>6. LockInv'
    BY <1>2, <1>3 DEF LockInv, InCriticalSection
  <1>7. HolderInv'
    <2>1. line' # <<>>
      BY <1>5
    <2>2. QED
      BY <1>2, <1>3, <1>4, <1>5, <2>1 DEF HolderInv, InCriticalSection, DateOf
  <1>8. LineInv'
    <2>1. chainDay' # NoDay /\ IsPrefix(manifest'[chainDay'], line')
      <3>1. manifest[chainDay] \in Seq(ChainEntry) /\ line \in Seq(ChainEntry)
            /\ entry[c] \in ChainEntry
        BY <1>2, <1>4 DEF TypeOK
      <3>2. IsPrefix(manifest[chainDay], line)
        BY <1>4 DEF IInv, LineInv
      <3>3. QED
        BY <1>4, <3>1, <3>2, PrefixAppend
    <2>2. Rooted(line')
      BY <1>2, <1>4, RootedAppend DEF IInv, LineInv, TypeOK
    <2>3. chainTip' = Genesis \/ \E i \in DOMAIN line' : chainTip' = line'[i].hash
      BY <1>5 DEF IInv, LineInv
    <2>4. ASSUME NEW i \in DOMAIN line'
          PROVE  ObjectKey(line'[i].of) \in object' /\ DayOf[line'[i].of.at] = chainDay'
      <3>1. CASE i \in DOMAIN line
        BY <1>5, <3>1 DEF IInv, LineInv
      <3>2. CASE i = Len(line')
        <4>1. line'[i].of = arg[c]
          BY <1>4, <1>5, <3>2 DEF MakeEntry
        <4>2. QED
          BY <1>4, <4>1 DEF DateOf
      <3>3. QED
        BY <1>5, <3>1, <3>2
    <2>5. QED
      BY <2>1, <2>2, <2>3, <2>4 DEF LineInv, Rooted, ObjectKey
  <1>9. EntriesRooted' /\ ReturnedRecorded'
    BY <1>3 DEF IInv, EntriesRooted, ReturnedRecorded, DateOf
  <1>10. LinesBacked'
    BY <1>3 DEF IInv, LinesBacked, ObjectKey
  <1>11. QED
    BY <1>1, <1>3, <1>6, <1>7, <1>8, <1>9, <1>10 DEF IInv

(* The manifest is replaced by one that extends it. *)
LEMMA WriteManifestInvariant ==
    ASSUME IInv, NEW c \in Call, WriteManifest(c) PROVE IInv'
  <1> USE DEF WriteManifest, memory, lock
  <1>1. TypeOK'
    BY NextType DEF IInv, Next, Progress
  <1>2. TypeOK /\ pc[c] = "putManifest"
    BY DEF IInv
  <1>3. /\ QueueInv' /\ holder = c /\ pc'[c] = "stored"
        /\ \A b \in Call : b # c => pc[b] \notin InCriticalSection /\ pc'[b] = pc[b]
    BY <1>2, OnlyHolderMoves DEF PC, InCriticalSection
  <1>4. /\ chainDay = DateOf(c) /\ chainDay \in Day
        /\ line # <<>> /\ line[Len(line)] = entry[c]
    BY <1>2, DateType DEF IInv, HolderInv
  <1>5. /\ manifest'[chainDay] = line
        /\ \A d \in Day : d # chainDay => manifest'[d] = manifest[d]
    BY <1>2, <1>4 DEF TypeOK
  <1>6. LockInv' /\ HolderInv'
    BY <1>2, <1>3, <1>4, <1>5 DEF IInv, LockInv, HolderInv, InCriticalSection, DateOf
  <1>7. LineInv'
    <2>1. IsPrefix(manifest'[chainDay'], line')
      BY <1>2, <1>5, PrefixReflexive DEF TypeOK
    <2>2. chainDay' # NoDay
      BY <1>4
    <2>3. QED
      BY <2>1, <2>2 DEF IInv, LineInv, Rooted, ObjectKey
  <1>8. EntriesRooted' /\ LinesBacked'
    <2>1. Rooted(line)
      BY DEF IInv, LineInv
    <2>2. EntriesRooted'
      BY <1>5, <2>1 DEF IInv, EntriesRooted
    <2>3. \A i \in DOMAIN line :
              ObjectKey(line[i].of) \in object /\ DayOf[line[i].of.at] = chainDay
      BY DEF IInv, LineInv
    <2>4. LinesBacked'
      BY <1>5, <2>3 DEF IInv, LinesBacked, ObjectKey
    <2>5. QED
      BY <2>2, <2>4
  <1>9. ReturnedRecorded'
    <2> SUFFICES ASSUME NEW b \in Call, pc'[b] = "returned"
                 PROVE  \E i \in DOMAIN manifest'[DateOf(b)] :
                            manifest'[DateOf(b)][i] = entry[b]
      BY DEF ReturnedRecorded, DateOf
    <2>1. PICK i \in DOMAIN manifest[DateOf(b)] : manifest[DateOf(b)][i] = entry[b]
      BY <1>3 DEF IInv, ReturnedRecorded
    <2>2. CASE DateOf(b) = chainDay
      <3>1. manifest[chainDay] \in Seq(ChainEntry) /\ line \in Seq(ChainEntry)
        BY <1>2, <1>4 DEF TypeOK
      <3>2. IsPrefix(manifest[chainDay], line)
        BY <1>4 DEF IInv, LineInv
      <3>3. i \in DOMAIN line /\ line[i] = manifest[chainDay][i]
        BY <2>1, <2>2, <3>1, <3>2, PrefixElements
      <3>4. QED
        BY <1>5, <2>1, <2>2, <3>3
    <2>3. CASE DateOf(b) # chainDay
      BY <1>2, <1>5, <2>1, <2>3, DateType
    <2>4. QED
      BY <2>2, <2>3
  <1>10. QED
    BY <1>1, <1>3, <1>6, <1>7, <1>8, <1>9 DEF IInv

(* A call that returns has its entry stored. *)
LEMMA ReturnInvariant ==
    ASSUME IInv, NEW c \in Call, Return(c) PROVE IInv'
  <1> USE DEF Return, store
  <1>1. TypeOK'
    BY NextType DEF IInv, Next, Progress
  <1>2. TypeOK /\ pc[c] = "stored"
    BY DEF IInv
  <1>3. /\ QueueInv' /\ holder = c /\ pc'[c] = "returned"
        /\ \A b \in Call : b # c => pc[b] \notin InCriticalSection /\ pc'[b] = pc[b]
    BY <1>2, OnlyHolderMoves DEF PC, InCriticalSection, Ended
  <1>4. /\ chainDay = DateOf(c) /\ chainDay \in Day /\ manifest[chainDay] = line
        /\ line # <<>> /\ line[Len(line)] = entry[c]
        /\ Len(line) \in DOMAIN line
    BY <1>2, DateType DEF IInv, HolderInv, TypeOK
  <1>5. LockInv' /\ HolderInv'
    BY <1>2, <1>3 DEF IInv, LockInv, HolderInv, InCriticalSection, Ended, DateOf
  <1>6. LineInv'
    <2>1. \E i \in DOMAIN line' : chainTip' = line'[i].hash
      BY <1>4
    <2>2. QED
      BY <1>4, <2>1 DEF IInv, LineInv, Rooted, ObjectKey
  <1>7. EntriesRooted' /\ LinesBacked'
    BY DEF IInv, EntriesRooted, LinesBacked, ObjectKey
  <1>8. ReturnedRecorded'
    BY <1>3, <1>4 DEF IInv, ReturnedRecorded, DateOf
  <1>9. QED
    BY <1>1, <1>3, <1>5, <1>6, <1>7, <1>8 DEF IInv

(* A call that raises gives the lock back and stores nothing. *)
LEMMA FailureInvariant ==
    ASSUME IInv, NEW c \in Call, Failure(c) PROVE IInv'
  <1>1. TypeOK'
    BY NextType DEF IInv, Next
  <1>2. /\ TypeOK /\ pc[c] \in InCriticalSection
        /\ Raise(c) /\ object \subseteq object'
    BY DEF IInv, Failure, ReadFails, ObjectFails, ManifestFails, InCriticalSection
  <1> USE DEF Raise, memory
  <1>3. /\ QueueInv' /\ holder = c /\ pc'[c] = "raised"
        /\ \A b \in Call : b # c => pc[b] \notin InCriticalSection /\ pc'[b] = pc[b]
    BY <1>2, OnlyHolderMoves DEF PC, InCriticalSection, Ended
  <1>4. LockInv' /\ HolderInv'
    BY <1>2, <1>3 DEF IInv, LockInv, HolderInv, InCriticalSection, Ended, DateOf
  <1>5. LineInv'
    BY <1>2 DEF IInv, LineInv, Rooted, ObjectKey
  <1>6. EntriesRooted' /\ LinesBacked'
    BY <1>2 DEF IInv, EntriesRooted, LinesBacked, ObjectKey
  <1>7. ReturnedRecorded'
    BY <1>2, <1>3 DEF IInv, ReturnedRecorded, DateOf
  <1>8. QED
    BY <1>1, <1>3, <1>4, <1>5, <1>6, <1>7 DEF IInv

(* A crash empties the memory and leaves the store. *)
LEMMA CrashInvariant ==
    ASSUME IInv, Crash PROVE IInv'
  <1> USE DEF Crash, store
  <1>1. TypeOK'
    BY NextType DEF IInv, Next
  <1>2. \A c \in Call : /\ pc'[c] \notin {"waiting"} \cup InCriticalSection
                        /\ pc'[c] = "returned" => pc[c] = "returned"
    BY DEF IInv, TypeOK, InCriticalSection
  <1>3. LockInv' /\ QueueInv' /\ HolderInv'
    BY <1>2 DEF IInv, TypeOK, LockInv, QueueInv, HolderInv, InCriticalSection
  <1>4. LineInv'
    BY DEF LineInv, Rooted
  <1>5. EntriesRooted' /\ LinesBacked' /\ ReturnedRecorded'
    BY <1>2 DEF IInv, EntriesRooted, LinesBacked, ReturnedRecorded, ObjectKey, DateOf
  <1>6. QED
    BY <1>1, <1>3, <1>4, <1>5 DEF IInv

(* Every step preserves the invariant. *)
LEMMA NextInvariant == IInv /\ [Next]_vars => IInv'
  <1> SUFFICES ASSUME IInv, [Next]_vars PROVE IInv'
    OBVIOUS
  <1>1. CASE Tick
    BY <1>1, TickInvariant
  <1>2. CASE Crash
    BY <1>2, CrashInvariant
  <1>3. ASSUME NEW c \in Call, Submit(c) \/ Progress(c) \/ Failure(c) PROVE IInv'
    BY <1>3, SubmitInvariant, AcquireInvariant, RollChainInvariant, WriteObjectInvariant,
       WriteManifestInvariant, ReturnInvariant, FailureInvariant DEF Progress
  <1>4. CASE UNCHANGED vars
    <2> USE <1>4 DEF vars, store, memory, lock, IInv
    <2>1. TypeOK'
      BY NextType
    <2>2. LineInv' /\ EntriesRooted' /\ LinesBacked'
      BY SameStore
    <2>3. LockInv' /\ QueueInv' /\ HolderInv' /\ ReturnedRecorded'
      BY DEF LockInv, QueueInv, HolderInv, ReturnedRecorded, DateOf
    <2>4. QED
      BY <2>1, <2>2, <2>3
  <1>5. QED
    BY <1>1, <1>2, <1>3, <1>4 DEF Next

(* The inductive invariant that the theorems below follow from: one call at
   a time is past the lock, and the lines it holds are the stored ones. *)
THEOREM Invariance == Spec => []IInv
  BY InitInvariant, NextInvariant, PTL DEF Spec

(* Whatever fails, and however often the process restarts, a stored entry   *)
(* hashes onto GENESIS or onto an entry stored before it.                   *)
THEOREM Rootedness == Spec => []EntriesRooted
  BY Invariance, PTL DEF IInv

(* Whatever fails, a stored entry's bytes are stored too. *)
THEOREM Backing == Spec => []LinesBacked
  BY Invariance, PTL DEF IInv

(* A capture that returned stays in its day's manifest for ever. *)
THEOREM NothingReturnedIsLost == Spec => []ReturnedRecorded
  BY Invariance, PTL DEF IInv

(* A manifest object, rewritten whole by each capture, only ever grows. *)
THEOREM ManifestGrows == Spec => AppendOnly
  <1>1. ASSUME IInv, [Next]_vars
        PROVE  [\A d \in Day : IsPrefix(manifest[d], manifest'[d])]_manifest
    <2>1. ASSUME NEW c \in Call, WriteManifest(c), NEW d \in Day
          PROVE  IsPrefix(manifest[d], manifest'[d])
      <3>1. TypeOK /\ chainDay = DateOf(c) /\ chainDay \in Day
        BY <1>1, <2>1, DateType DEF IInv, HolderInv, WriteManifest
      <3>2. CASE d = chainDay
        BY <1>1, <2>1, <3>1, <3>2 DEF IInv, LineInv, WriteManifest, TypeOK
      <3>3. CASE d # chainDay
        <4>1. manifest'[d] = manifest[d] /\ manifest[d] \in Seq(ChainEntry)
          BY <2>1, <3>1, <3>3 DEF WriteManifest, TypeOK
        <4>2. QED
          BY <4>1, PrefixReflexive
      <3>4. QED
        BY <3>2, <3>3
    <2>2. ASSUME NEW c \in Call, Submit(c) \/ Acquire(c) \/ RollChain(c) \/ WriteObject(c)
                                 \/ Return(c) \/ Failure(c)
          PROVE  manifest' = manifest
      BY <2>2 DEF Submit, Enqueue, Acquire, Enter, RollChain, LoadChain, WriteObject, Return,
                  Failure, ReadFails, ObjectFails, ManifestFails, Raise, store
    <2>3. Tick \/ Crash \/ UNCHANGED vars => manifest' = manifest
      BY DEF Tick, Crash, vars, store
    <2>4. QED
      BY <1>1, <2>1, <2>2, <2>3 DEF Next, Progress
  <1>2. QED
    BY <1>1, Invariance, PTL DEF Spec, AppendOnly

-----------------------------------------------------------------------------
(* The verdict of verify_chain.  It needs more: between two puts the lines  *)
(* in memory are the stored ones and the tip is theirs, which a failed put  *)
(* of the manifest breaks.                                                  *)

TipInv ==
    /\ \A c \in Call : pc[c] = "putManifest" =>
           /\ line = Append(manifest[chainDay], entry[c])
           /\ entry[c] = MakeEntry(TipOf(manifest[chainDay]), arg[c])
    /\ (chainDay \in Day /\ \A c \in Call : pc[c] # "putManifest") =>
           line = manifest[chainDay]
    /\ (chainDay \in Day /\ \A c \in Call : pc[c] \notin {"putManifest", "stored"}) =>
           chainTip = TipOf(line)

VInv == IInv /\ TipInv /\ ChainVerifies

(* A line made from the tip of a chain that verifies leaves it so. *)
LEMMA VerifyAppend ==
    ASSUME NEW s \in Seq(ChainEntry), VerifyChain(s), NEW x \in Arg
    PROVE  VerifyChain(Append(s, MakeEntry(TipOf(s), x)))
  <1> DEFINE e == MakeEntry(TipOf(s), x)
             t == Append(s, e)
  <1>1. e.prev = TipOf(s) /\ e.hash = EntryHash(e.prev, e.of)
    BY DEF MakeEntry
  <1>2. /\ DOMAIN t = 1 .. Len(s) + 1
        /\ t[Len(s) + 1] = e
        /\ \A i \in 1 .. Len(s) : t[i] = s[i]
    OBVIOUS
  <1>3. ASSUME NEW i \in DOMAIN t
        PROVE  /\ t[i].prev = IF i = 1 THEN Genesis ELSE t[i - 1].hash
               /\ t[i].hash = EntryHash(t[i].prev, t[i].of)
    <2>1. CASE i \in 1 .. Len(s)
      BY <1>2, <2>1 DEF VerifyChain
    <2>2. CASE i = Len(s) + 1
      BY <1>1, <1>2, <2>2 DEF TipOf
    <2>3. QED
      BY <1>2, <2>1, <2>2
  <1>4. QED
    BY <1>3 DEF VerifyChain

(* Nothing stored verifies. *)
LEMMA InitVerifies == Init => VInv
  BY InitInvariant DEF VInv, TipInv, ChainVerifies, VerifyChain, Init, TipOf

(* Without a failed put of a manifest, every step keeps the tip in memory
   the tip of the lines in memory, and so the stored chains verify. *)
LEMMA NextVerifies ==
    ASSUME "manifest" \notin Fault
    PROVE  VInv /\ [Next]_vars => VInv'
  <1> SUFFICES ASSUME VInv, [Next]_vars PROVE VInv'
    OBVIOUS
  <1>1. IInv /\ IInv'
    BY NextInvariant DEF VInv
  <1> USE DEF VInv, store, memory, lock
  <1>2. TypeOK /\ TypeOK'
    BY <1>1 DEF IInv
  <1>3. CASE Tick \/ UNCHANGED vars
    BY <1>1, <1>3 DEF Tick, vars, TipInv, ChainVerifies
  <1>4. CASE Crash
    BY <1>1, <1>4 DEF Crash, TipInv, ChainVerifies, InCriticalSection
  <1>5. ASSUME NEW c \in Call, Submit(c) PROVE VInv'
    <2>1. \A b \in Call : /\ pc[b] \in {"putManifest", "stored"} <=> pc'[b] \in {"putManifest", "stored"}
                          /\ pc[b] = "putManifest" <=> pc'[b] = "putManifest"
                          /\ pc[b] = "putManifest" => arg'[b] = arg[b]
      BY <1>2, <1>5 DEF Submit, Enqueue, TypeOK
    <2>2. QED
      BY <1>1, <1>5, <2>1 DEF Submit, Enqueue, TipInv, ChainVerifies
  <1>6. ASSUME NEW c \in Call, Acquire(c) PROVE VInv'
    <2>1. \A b \in Call : /\ pc[b] \notin {"putManifest", "stored"}
                          /\ pc'[b] \notin {"putManifest", "stored"}
      BY <1>1, <1>2, <1>6 DEF Acquire, Enter, IInv, LockInv, InCriticalSection, TypeOK
    <2>2. QED
      BY <1>1, <1>6, <2>1 DEF Acquire, Enter, TipInv, ChainVerifies
  <1>7. ASSUME NEW c \in Call, Progress(c) \/ Failure(c), pc[c] \in InCriticalSection
        PROVE  \A b \in Call : b # c => pc[b] \notin InCriticalSection /\ pc'[b] = pc[b]
    <2>1. PICK step : pc' = [pc EXCEPT ![c] = step]
      BY <1>7 DEF Progress, Failure, Acquire, Enter, RollChain, LoadChain, WriteObject,
                  WriteManifest, Return, ReadFails, ObjectFails, ManifestFails, Raise
    <2>2. QED
      BY <1>1, <1>2, <1>7, <2>1 DEF IInv, LockInv, TypeOK
  <1>8. ASSUME NEW c \in Call, RollChain(c) PROVE VInv'
    <2>1. \A b \in Call : b # c => pc[b] \notin InCriticalSection /\ pc'[b] = pc[b]
      BY <1>7, <1>8 DEF Progress, RollChain, LoadChain, InCriticalSection
    <2>2. pc'[c] = "putObject"
      BY <1>2, <1>8 DEF RollChain, LoadChain, TypeOK
    <2>3. \A b \in Call : pc'[b] \notin {"putManifest", "stored"}
      BY <2>1, <2>2 DEF InCriticalSection
    <2>4. QED
      BY <1>1, <1>8, <2>3 DEF RollChain, LoadChain, TipInv, ChainVerifies
  <1>9. ASSUME NEW c \in Call, WriteObject(c) PROVE VInv'
    <2>1. \A b \in Call : b # c => pc[b] \notin InCriticalSection /\ pc'[b] = pc[b]
      BY <1>7, <1>9 DEF Progress, WriteObject, InCriticalSection
    <2>2. pc[c] = "putObject" /\ pc'[c] = "putManifest"
      BY <1>2, <1>9 DEF WriteObject, TypeOK
    <2>3. \A b \in Call : pc[b] \notin {"putManifest", "stored"}
      BY <2>1, <2>2 DEF InCriticalSection
    <2>4. chainDay \in Day /\ entry[c] = MakeEntry(chainTip, arg[c])
      BY <1>1, <1>2, <2>2, DateType DEF IInv, HolderInv
    <2>5. line = manifest[chainDay] /\ chainTip = TipOf(line)
      BY <2>3, <2>4 DEF TipInv
    <2>6. \A b \in Call : pc'[b] = "putManifest" => b = c
      BY <2>1 DEF InCriticalSection
    <2>7. TipInv'
      BY <1>9, <2>2, <2>4, <2>5, <2>6 DEF WriteObject, TipInv
    <2>8. ChainVerifies'
      BY <1>9 DEF WriteObject, ChainVerifies
    <2>9. QED
      BY <1>1, <2>7, <2>8
  <1>10. ASSUME NEW c \in Call, WriteManifest(c) PROVE VInv'
    <2>1. \A b \in Call : b # c => pc[b] \notin InCriticalSection /\ pc'[b] = pc[b]
      BY <1>7, <1>10 DEF Progress, WriteManifest, InCriticalSection
    <2>2. pc[c] = "putManifest" /\ pc'[c] = "stored"
      BY <1>2, <1>10 DEF WriteManifest, TypeOK
    <2>3. chainDay = DateOf(c) /\ chainDay \in Day
      BY <1>1, <1>2, <2>2, DateType DEF IInv, HolderInv
    <2>4. /\ manifest'[chainDay] = line
          /\ \A d \in Day : d # chainDay => manifest'[d] = manifest[d]
          /\ UNCHANGED <<chainDay, line, chainTip>>
      BY <1>2, <1>10, <2>3 DEF WriteManifest, TypeOK
    <2>5. TipInv'
      BY <2>1, <2>2, <2>4 DEF TipInv, InCriticalSection
    <2>6. VerifyChain(line)
      <3>1. manifest[chainDay] \in Seq(ChainEntry) /\ arg[c] \in Arg
        BY <1>2, <2>3 DEF TypeOK
      <3>2. line = Append(manifest[chainDay], MakeEntry(TipOf(manifest[chainDay]), arg[c]))
        BY <2>2 DEF TipInv
      <3>3. QED
        BY <2>3, <3>1, <3>2, VerifyAppend DEF ChainVerifies
    <2>7. ChainVerifies'
      BY <2>4, <2>6 DEF ChainVerifies
    <2>8. QED
      BY <1>1, <2>5, <2>7
  <1>11. ASSUME NEW c \in Call, Return(c) PROVE VInv'
    <2>1. \A b \in Call : b # c => pc[b] \notin InCriticalSection /\ pc'[b] = pc[b]
      BY <1>7, <1>11 DEF Progress, Return, InCriticalSection
    <2>2. pc[c] = "stored" /\ pc'[c] = "returned"
      BY <1>2, <1>11 DEF Return, TypeOK
    <2>3. line # <<>> /\ line[Len(line)] = entry[c]
      BY <1>1, <2>2 DEF IInv, HolderInv
    <2>4. TipInv'
      BY <1>11, <2>1, <2>2, <2>3 DEF Return, TipInv, TipOf, InCriticalSection
    <2>5. ChainVerifies'
      BY <1>11 DEF Return, ChainVerifies
    <2>6. QED
      BY <1>1, <2>4, <2>5
  <1>12. ASSUME NEW c \in Call, Failure(c) PROVE VInv'
    <2>1. pc[c] \in {"rolling", "putObject"} /\ Raise(c)
      BY <1>12 DEF Failure, ReadFails, ObjectFails, ManifestFails
    <2>2. \A b \in Call : b # c => pc[b] \notin InCriticalSection /\ pc'[b] = pc[b]
      BY <1>7, <1>12, <2>1 DEF InCriticalSection
    <2>3. pc'[c] = "raised"
      BY <1>2, <2>1 DEF Raise, TypeOK
    <2>4. QED
      BY <1>1, <2>1, <2>2, <2>3 DEF Raise, TipInv, ChainVerifies, InCriticalSection
  <1>13. QED
    BY <1>3, <1>4, <1>5, <1>6, <1>8, <1>9, <1>10, <1>11, <1>12 DEF Next, Progress

(* As long as no put of a manifest fails, verify_chain accepts every stored *)
(* manifest: through crashes at any point, failed reads and object puts,    *)
(* midnights, and a clock that is set back to a day already closed.         *)
THEOREM ChainsVerify ==
    ASSUME "manifest" \notin Fault
    PROVE  Spec => []ChainVerifies
  <1>1. Spec => []VInv
    BY InitVerifies, NextVerifies, PTL DEF Spec
  <1>2. QED
    BY <1>1, PTL DEF VInv

-----------------------------------------------------------------------------
(* The order of the captures.  The inductive invariant: what is recorded is *)
(* older than now, than every call in the queue and than the one that holds *)
(* the lock; and they are in the order in which they took the time.         *)

\* Some line, in memory or stored, was captured at that time.
Recorded(t) ==
    \/ \E i \in DOMAIN line : line[i].of.at = t
    \/ \E d \in Day : \E i \in DOMAIN manifest[d] : manifest[d][i].of.at = t

InOrder(s) == \A i, j \in DOMAIN s : i < j => s[i].of.at <= s[j].of.at

OrderInv ==
    /\ InOrder(line)
    /\ CaptureOrder
    /\ \A t \in Time : Recorded(t) => t <= now
    /\ \A c \in Call : arg[c].at <= now
    /\ \A i \in DOMAIN waiter :
           /\ \A t \in Time : Recorded(t) => t <= arg[waiter[i]].at
           /\ \A j \in DOMAIN waiter : i < j => arg[waiter[i]].at <= arg[waiter[j]].at
    /\ \A c \in Call : pc[c] \in InCriticalSection =>
           /\ \A t \in Time : Recorded(t) => t <= arg[c].at
           /\ \A i \in DOMAIN waiter : arg[c].at <= arg[waiter[i]].at

(* The clock is a number, and so is the time of each capture.               *)
LEMMA Times ==
    ASSUME TypeOK
    PROVE  /\ now \in Time /\ Time \subseteq Nat
           /\ \A c \in Call : arg[c].at \in Time /\ entry[c].of.at \in Time
           /\ \A i \in DOMAIN line : line[i].of.at \in Time
           /\ \A d \in Day : \A i \in DOMAIN manifest[d] : manifest[d][i].of.at \in Time
  <1>1. Time \subseteq Nat
    BY DEF Time
  <1>2. \A e \in ChainEntry : e.of.at \in Time
    BY DEF ChainEntry, Arg
  <1>3. \A c \in Call : arg[c].at \in Time /\ entry[c].of.at \in Time
    BY <1>2 DEF TypeOK, Arg
  <1>4. \A s \in Seq(ChainEntry) : \A i \in DOMAIN s : s[i] \in ChainEntry
    OBVIOUS
  <1>5. QED
    BY <1>1, <1>2, <1>3, <1>4 DEF TypeOK

(* A line that is no older than the others keeps their order at the end.    *)
LEMMA OrderAppend ==
    ASSUME NEW s \in Seq(ChainEntry), NEW e \in ChainEntry, InOrder(s),
           \A i \in DOMAIN s : s[i].of.at <= e.of.at
    PROVE  InOrder(Append(s, e))
  <1> DEFINE u == Append(s, e)
  <1>1. /\ DOMAIN u = 1 .. Len(s) + 1 /\ DOMAIN s = 1 .. Len(s) /\ u[Len(s) + 1] = e
        /\ \A i \in 1 .. Len(s) : u[i] = s[i]
    OBVIOUS
  <1> HIDE DEF u
  <1>2. SUFFICES ASSUME NEW i \in DOMAIN u, NEW j \in DOMAIN u, i < j
                 PROVE  u[i].of.at <= u[j].of.at
    BY DEF InOrder, u
  <1>3. CASE j \in 1 .. Len(s)
    BY <1>1, <1>2, <1>3 DEF InOrder
  <1>4. CASE j = Len(s) + 1
    BY <1>1, <1>2, <1>4
  <1>5. QED
    BY <1>1, <1>2, <1>3, <1>4

LEMMA InitOrder == Init => OrderInv
  <1> SUFFICES ASSUME Init PROVE OrderInv
    OBVIOUS
  <1>1. /\ line = <<>> /\ waiter = <<>> /\ now = 0
        /\ manifest = [d \in Day |-> <<>>] /\ \A c \in Call : pc[c] = "idle" /\ arg[c].at = 0
    BY DEF Init
  <1>2. InOrder(line) /\ CaptureOrder /\ \A t \in Time : ~ Recorded(t)
    BY <1>1 DEF InOrder, CaptureOrder, Recorded
  <1>3. DOMAIN waiter = {} /\ \A c \in Call : pc[c] \notin InCriticalSection
    BY <1>1 DEF InCriticalSection
  <1>4. QED
    BY <1>1, <1>2, <1>3 DEF OrderInv

(* Nothing new is recorded, no call is timed, and the lock and its queue    *)
(* stay or lose a call.                                                     *)
LEMMA OrderKept ==
    ASSUME IInv, OrderInv, now' \in Nat, now <= now', arg' = arg,
           \A t \in Time : Recorded(t)' => Recorded(t),
           InOrder(line)', CaptureOrder',
           waiter' = waiter \/ waiter' = <<>>,
           \A c \in Call : pc'[c] \in InCriticalSection => pc[c] \in InCriticalSection
    PROVE  OrderInv'
  <1>1. /\ \A c \in Call : arg[c].at \in Nat
        /\ now \in Nat /\ Time \subseteq Nat
    BY Times DEF IInv
  <1>2. \A t \in Time : Recorded(t)' => t <= now'
    BY <1>1 DEF OrderInv
  <1>3. \A c \in Call : arg'[c].at <= now'
    BY <1>1 DEF OrderInv
  <1>4. DOMAIN waiter' = {} \/ waiter' = waiter
    OBVIOUS
  <1>5. \A i \in DOMAIN waiter' :
            /\ \A t \in Time : Recorded(t)' => t <= arg'[waiter'[i]].at
            /\ \A j \in DOMAIN waiter' : i < j => arg'[waiter'[i]].at <= arg'[waiter'[j]].at
    BY <1>4 DEF OrderInv
  <1>6. \A c \in Call : pc'[c] \in InCriticalSection =>
            /\ \A t \in Time : Recorded(t)' => t <= arg'[c].at
            /\ \A i \in DOMAIN waiter' : arg'[c].at <= arg'[waiter'[i]].at
    BY <1>4 DEF OrderInv
  <1>7. QED
    BY <1>2, <1>3, <1>5, <1>6 DEF OrderInv

(* A caller takes the time and the end of the queue in one go.              *)
LEMMA SubmitOrder ==
    ASSUME IInv, OrderInv, NEW c \in Call, Submit(c) PROVE OrderInv'
  <1>1. /\ pc[c] = "idle" /\ waiter' = Append(waiter, c) /\ pc' = [pc EXCEPT ![c] = "waiting"]
        /\ \E p \in Payload : arg' = [arg EXCEPT ![c] = [payload |-> p, at |-> now]]
        /\ UNCHANGED <<now, manifest, line, holder>>
    BY DEF Submit, Enqueue, store, memory
  <1>2. /\ \A b \in Call : arg[b].at \in Nat
        /\ now \in Nat /\ Time \subseteq Nat
    BY Times DEF IInv
  <1>3. arg'[c].at = now /\ \A b \in Call : b # c => arg'[b].at = arg[b].at
    BY <1>1 DEF IInv, TypeOK
  <1>4. /\ DOMAIN waiter' = 1 .. Len(waiter) + 1 /\ DOMAIN waiter = 1 .. Len(waiter)
        /\ waiter'[Len(waiter) + 1] = c
        /\ \A i \in 1 .. Len(waiter) :
               waiter'[i] = waiter[i] /\ waiter[i] \in Call /\ waiter[i] # c
    BY <1>1 DEF IInv, TypeOK, QueueInv
  <1>5. \A b \in Call : pc'[b] \in InCriticalSection => b # c /\ pc[b] \in InCriticalSection
    BY <1>1 DEF IInv, TypeOK, InCriticalSection
  <1>6. \A t \in Time : Recorded(t)' <=> Recorded(t)
    BY <1>1 DEF Recorded
  <1>7. InOrder(line)' /\ CaptureOrder'
    BY <1>1 DEF OrderInv, InOrder, CaptureOrder
  <1>8. (\A t \in Time : Recorded(t) => t <= now)'
    BY <1>1, <1>6 DEF OrderInv
  <1>9. \A b \in Call : arg'[b].at <= now'
    BY <1>1, <1>2, <1>3 DEF OrderInv
  <1>10. ASSUME NEW i \in DOMAIN waiter'
         PROVE  /\ \A t \in Time : Recorded(t)' => t <= arg'[waiter'[i]].at
                /\ \A j \in DOMAIN waiter' : i < j => arg'[waiter'[i]].at <= arg'[waiter'[j]].at
    <2>1. CASE i = Len(waiter) + 1
      <3>1. \A j \in DOMAIN waiter' : ~ i < j
        BY <1>4, <2>1
      <3>2. QED
        BY <1>3, <1>4, <1>6, <2>1, <3>1 DEF OrderInv
    <2>2. CASE i \in DOMAIN waiter
      <3>1. waiter'[i] = waiter[i] /\ waiter[i] \in Call /\ arg'[waiter'[i]].at = arg[waiter[i]].at
        BY <1>3, <1>4, <2>2
      <3>2. \A t \in Time : Recorded(t)' => t <= arg'[waiter'[i]].at
        BY <1>6, <2>2, <3>1 DEF OrderInv
      <3>3. ASSUME NEW j \in DOMAIN waiter', i < j
            PROVE  arg'[waiter'[i]].at <= arg'[waiter'[j]].at
        <4>1. CASE j = Len(waiter) + 1
          BY <1>3, <1>4, <3>1, <4>1 DEF OrderInv
        <4>2. CASE j \in DOMAIN waiter
          BY <1>3, <1>4, <2>2, <3>1, <3>3, <4>2 DEF OrderInv
        <4>3. QED
          BY <1>4, <4>1, <4>2
      <3>4. QED
        BY <3>2, <3>3
    <2>3. QED
      BY <1>4, <2>1, <2>2
  <1>11. ASSUME NEW b \in Call, pc'[b] \in InCriticalSection
         PROVE  /\ \A t \in Time : Recorded(t)' => t <= arg'[b].at
                /\ \A i \in DOMAIN waiter' : arg'[b].at <= arg'[waiter'[i]].at
    <2>1. b # c /\ pc[b] \in InCriticalSection /\ arg'[b].at = arg[b].at
      BY <1>3, <1>5, <1>11
    <2>2. ASSUME NEW i \in DOMAIN waiter' PROVE arg'[b].at <= arg'[waiter'[i]].at
      <3>1. CASE i = Len(waiter) + 1
        BY <1>3, <1>4, <2>1, <3>1 DEF OrderInv
      <3>2. CASE i \in DOMAIN waiter
        BY <1>3, <1>4, <2>1, <3>2 DEF OrderInv
      <3>3. QED
        BY <1>4, <3>1, <3>2
    <2>3. QED
      BY <1>6, <2>1, <2>2 DEF OrderInv
  <1>12. QED
    BY <1>7, <1>8, <1>9, <1>10, <1>11 DEF OrderInv

(* The lock goes to the first of the queue.                                 *)
LEMMA AcquireOrder ==
    ASSUME IInv, OrderInv, NEW c \in Call, Acquire(c) PROVE OrderInv'
  <1>1. /\ holder = NoCall /\ waiter # <<>> /\ c = Head(waiter) /\ waiter' = Tail(waiter)
        /\ UNCHANGED <<now, manifest, line, arg>>
        /\ \A b \in Call : b # c => pc'[b] = pc[b]
    BY DEF Acquire, Enter, store, memory, IInv, TypeOK
  <1>2. /\ DOMAIN waiter = 1 .. Len(waiter) /\ Len(waiter) > 0 /\ waiter[1] = c
        /\ DOMAIN waiter' = 1 .. Len(waiter) - 1
        /\ \A i \in DOMAIN waiter' : waiter'[i] = waiter[i + 1]
    BY <1>1 DEF IInv, TypeOK
  <1>3. \A i \in DOMAIN waiter' : i + 1 \in DOMAIN waiter /\ 1 < i + 1
    BY <1>2
  <1>4. \A b \in Call : pc'[b] \in InCriticalSection => b = c
    BY <1>1 DEF IInv, LockInv
  <1>5. \A t \in Time : Recorded(t)' <=> Recorded(t)
    BY <1>1 DEF Recorded
  <1>6. InOrder(line)' /\ CaptureOrder'
    BY <1>1 DEF OrderInv, InOrder, CaptureOrder
  <1>7. /\ \A t \in Time : Recorded(t)' => t <= now'
        /\ \A b \in Call : arg'[b].at <= now'
    BY <1>1, <1>5 DEF OrderInv
  <1>8. ASSUME NEW i \in DOMAIN waiter'
        PROVE  /\ \A t \in Time : Recorded(t)' => t <= arg'[waiter'[i]].at
               /\ \A j \in DOMAIN waiter' : i < j => arg'[waiter'[i]].at <= arg'[waiter'[j]].at
    <2>1. i + 1 \in DOMAIN waiter /\ waiter'[i] = waiter[i + 1]
      BY <1>2, <1>3
    <2>2. \A t \in Time : Recorded(t)' => t <= arg'[waiter'[i]].at
      BY <1>1, <1>5, <2>1 DEF OrderInv
    <2>3. ASSUME NEW j \in DOMAIN waiter', i < j
          PROVE  arg'[waiter'[i]].at <= arg'[waiter'[j]].at
      <3>1. j + 1 \in DOMAIN waiter /\ waiter'[j] = waiter[j + 1] /\ i + 1 < j + 1
        BY <1>2, <1>3, <2>3
      <3>2. QED
        BY <1>1, <2>1, <3>1 DEF OrderInv
    <2>4. QED
      BY <2>2, <2>3
  <1>9. /\ \A t \in Time : Recorded(t)' => t <= arg'[c].at
        /\ \A i \in DOMAIN waiter' : arg'[c].at <= arg'[waiter'[i]].at
    <2>1. 1 \in DOMAIN waiter
      BY <1>2
    <2>2. \A t \in Time : Recorded(t)' => t <= arg'[c].at
      BY <1>1, <1>2, <1>5, <2>1 DEF OrderInv
    <2>3. ASSUME NEW i \in DOMAIN waiter' PROVE arg'[c].at <= arg'[waiter'[i]].at
      BY <1>1, <1>2, <1>3, <2>1 DEF OrderInv
    <2>4. QED
      BY <2>2, <2>3
  <1>10. QED
    BY <1>4, <1>6, <1>7, <1>8, <1>9 DEF OrderInv

(* The line that is appended is that of the call that holds the lock.       *)
LEMMA WriteObjectOrder ==
    ASSUME IInv, OrderInv, NEW c \in Call, WriteObject(c) PROVE OrderInv'
  <1>1. /\ pc[c] = "putObject" /\ line' = Append(line, entry[c]) /\ waiter' = waiter
        /\ pc' = [pc EXCEPT ![c] = "putManifest"]
        /\ UNCHANGED <<now, manifest, arg>>
    BY DEF WriteObject, lock
  <1>2. /\ \A b \in Call : arg[b].at \in Nat
        /\ now \in Nat /\ Time \subseteq Nat
        /\ \A i \in DOMAIN line : line[i].of.at \in Time
    BY Times DEF IInv
  <1>3. pc[c] \in InCriticalSection /\ entry[c].of = arg[c]
    <2>1. entry[c] = MakeEntry(chainTip, arg[c])
      BY <1>1 DEF IInv, HolderInv
    <2>2. entry[c].of = arg[c]
      BY <2>1 DEF MakeEntry
    <2>3. QED
      BY <1>1, <2>2 DEF InCriticalSection
  <1>4. \A b \in Call : pc'[b] \in InCriticalSection => b = c
    BY <1>1, <1>3 DEF IInv, LockInv, TypeOK
  <1>5. line \in Seq(ChainEntry) /\ entry[c] \in ChainEntry
    BY DEF IInv, TypeOK
  <1>6. \A i \in DOMAIN line : line[i].of.at <= arg[c].at
    BY <1>2, <1>3 DEF OrderInv, Recorded
  <1>7. InOrder(line)' /\ CaptureOrder'
    <2>1. InOrder(Append(line, entry[c]))
      BY <1>3, <1>5, <1>6, OrderAppend DEF OrderInv
    <2>2. QED
      BY <1>1, <2>1 DEF OrderInv, InOrder, CaptureOrder
  <1>8. \A t \in Time : Recorded(t)' => Recorded(t) \/ t = arg[c].at
    <2>1. \A i \in DOMAIN line' : (i \in DOMAIN line /\ line'[i] = line[i]) \/ line'[i] = entry[c]
      BY <1>1, <1>5
    <2>2. QED
      BY <1>1, <1>3, <2>1 DEF Recorded
  <1>9. /\ \A t \in Time : Recorded(t)' => t <= now'
        /\ \A b \in Call : arg'[b].at <= now'
    BY <1>1, <1>8 DEF OrderInv
  <1>10. \A i \in DOMAIN waiter' :
            /\ \A t \in Time : Recorded(t)' => t <= arg'[waiter'[i]].at
            /\ \A j \in DOMAIN waiter' : i < j => arg'[waiter'[i]].at <= arg'[waiter'[j]].at
    BY <1>1, <1>3, <1>8 DEF OrderInv
  <1>11. /\ \A t \in Time : Recorded(t)' => t <= arg'[c].at
         /\ \A i \in DOMAIN waiter' : arg'[c].at <= arg'[waiter'[i]].at
    BY <1>1, <1>2, <1>3, <1>8 DEF OrderInv
  <1>12. QED
    BY <1>4, <1>7, <1>9, <1>10, <1>11 DEF OrderInv

LEMMA NextOrder ==
    ASSUME "clock" \notin Fault, IInv, OrderInv, [Next]_vars PROVE OrderInv'
  <1>1. now \in Nat /\ TypeOK /\ InOrder(line) /\ CaptureOrder
    BY Times DEF IInv, OrderInv
  <1> USE DEF store, memory, lock
  <1>2. CASE Tick
    <2>1. now' = now + 1 /\ UNCHANGED <<manifest, line, waiter, pc, arg>>
      BY <1>2 DEF Tick
    <2>2. now' \in Nat /\ now <= now' /\ InOrder(line)' /\ CaptureOrder'
      BY <1>1, <2>1 DEF InOrder, CaptureOrder
    <2>3. \A t \in Time : Recorded(t)' => Recorded(t)
      BY <2>1 DEF Recorded
    <2>4. QED
      BY <2>1, <2>2, <2>3, OrderKept
  <1>3. CASE Crash
    <2>1. /\ UNCHANGED <<now, manifest, arg>> /\ line' = <<>> /\ waiter' = <<>>
          /\ \A c \in Call : pc'[c] \notin InCriticalSection
      BY <1>1, <1>3 DEF Crash, TypeOK, InCriticalSection
    <2>2. InOrder(line)' /\ CaptureOrder'
      BY <1>1, <2>1 DEF InOrder, CaptureOrder
    <2>3. \A t \in Time : Recorded(t)' => Recorded(t)
      BY <2>1 DEF Recorded
    <2>4. QED
      BY <1>1, <2>1, <2>2, <2>3, OrderKept
  <1>4. ASSUME NEW c \in Call, Failure(c) PROVE OrderInv'
    <2>1. /\ Raise(c) /\ pc[c] \in InCriticalSection
      BY <1>4 DEF Failure, ReadFails, ObjectFails, ManifestFails, InCriticalSection
    <2>2. /\ UNCHANGED <<now, manifest, line, waiter, arg>>
          /\ \A b \in Call : pc'[b] \in InCriticalSection => pc[b] \in InCriticalSection
      BY <1>1, <2>1 DEF Raise, TypeOK
    <2>3. InOrder(line)' /\ CaptureOrder'
      BY <1>1, <2>2 DEF InOrder, CaptureOrder
    <2>4. \A t \in Time : Recorded(t)' => Recorded(t)
      BY <2>2 DEF Recorded
    <2>5. QED
      BY <1>1, <2>2, <2>3, <2>4, OrderKept
  <1>5. ASSUME NEW c \in Call, RollChain(c) PROVE OrderInv'
    <2>1. /\ UNCHANGED <<now, manifest, waiter, arg>> /\ line' = manifest[DateOf(c)]
          /\ pc[c] \in InCriticalSection /\ DateOf(c) \in Day
          /\ \A b \in Call : pc'[b] \in InCriticalSection => pc[b] \in InCriticalSection
      BY <1>1, <1>5, DateType DEF RollChain, LoadChain, TypeOK, InCriticalSection
    <2>2. InOrder(line)' /\ CaptureOrder'
      BY <1>1, <2>1 DEF InOrder, CaptureOrder
    <2>3. \A t \in Time : Recorded(t)' => Recorded(t)
      BY <2>1 DEF Recorded
    <2>4. QED
      BY <1>1, <2>1, <2>2, <2>3, OrderKept
  <1>6. ASSUME NEW c \in Call, WriteManifest(c) PROVE OrderInv'
    <2> DEFINE d == DateOf(c)
    <2>1. /\ UNCHANGED <<now, line, waiter, arg>> /\ pc[c] \in InCriticalSection /\ d \in Day
          /\ manifest'[d] = line /\ \A e \in Day : e # d => manifest'[e] = manifest[e]
          /\ \A b \in Call : pc'[b] \in InCriticalSection => pc[b] \in InCriticalSection
      BY <1>1, <1>6, DateType DEF WriteManifest, TypeOK, InCriticalSection
    <2> HIDE DEF d
    <2>2. InOrder(line)' /\ CaptureOrder'
      BY <1>1, <2>1 DEF InOrder, CaptureOrder
    <2>3. \A t \in Time : Recorded(t)' => Recorded(t)
      BY <2>1 DEF Recorded
    <2>4. QED
      BY <1>1, <2>1, <2>2, <2>3, OrderKept
  <1>7. ASSUME NEW c \in Call, Return(c) PROVE OrderInv'
    <2>1. /\ UNCHANGED <<now, manifest, line, waiter, arg>>
          /\ \A b \in Call : pc'[b] \in InCriticalSection => pc[b] \in InCriticalSection
      BY <1>1, <1>7 DEF Return, TypeOK, InCriticalSection
    <2>2. InOrder(line)' /\ CaptureOrder'
      BY <1>1, <2>1 DEF InOrder, CaptureOrder
    <2>3. \A t \in Time : Recorded(t)' => Recorded(t)
      BY <2>1 DEF Recorded
    <2>4. QED
      BY <1>1, <2>1, <2>2, <2>3, OrderKept
  <1>8. CASE UNCHANGED vars
    <2>1. UNCHANGED <<now, manifest, line, waiter, arg, pc>>
      BY <1>8 DEF vars
    <2>2. InOrder(line)' /\ CaptureOrder'
      BY <1>1, <2>1 DEF InOrder, CaptureOrder
    <2>3. \A t \in Time : Recorded(t)' => Recorded(t)
      BY <2>1 DEF Recorded
    <2>4. QED
      BY <1>1, <2>1, <2>2, <2>3, OrderKept
  <1>9. QED
    BY <1>2, <1>3, <1>4, <1>5, <1>6, <1>7, <1>8, SubmitOrder, AcquireOrder, WriteObjectOrder
    DEF Next, Progress

(* While nobody sets the clock back, the lines of each manifest are in the  *)
(* order of captured_at: over concurrent calls, failures of every kind,     *)
(* restarts and days that change.                                           *)
THEOREM CapturesInOrder ==
    ASSUME "clock" \notin Fault
    PROVE  Spec => []CaptureOrder
  <1>1. Spec => []OrderInv
    BY InitOrder, NextOrder, Invariance, PTL DEF Spec
  <1>2. OrderInv => CaptureOrder
    BY DEF OrderInv
  <1>3. QED
    BY <1>1, <1>2, PTL

-----------------------------------------------------------------------------
(* CaptureWriter implements EvidenceLog: only the put of a manifest is a    *)
(* step of the log, it records one item, and the call that does it is       *)
(* still waiting for its answer.                                            *)

Items(s) == [i \in DOMAIN s |-> s[i].of]

(* What a chain records is a sequence of captures. *)
LEMMA ItemsType ==
    ASSUME NEW s \in Seq(ChainEntry)
    PROVE  /\ Items(s) \in Seq(Arg)
           /\ Len(Items(s)) = Len(s)
           /\ \A i \in 1 .. Len(s) : Items(s)[i] = s[i].of
  <1>1. DOMAIN s = 1 .. Len(s) /\ Len(s) \in Nat
    OBVIOUS
  <1>2. \A i \in 1 .. Len(s) : s[i] \in ChainEntry
    OBVIOUS
  <1>3. \A i \in 1 .. Len(s) : s[i].of \in Arg
    BY <1>2 DEF ChainEntry
  <1>4. Items(s) = [i \in 1 .. Len(s) |-> s[i].of]
    BY <1>1 DEF Items
  <1>5. QED
    BY <1>1, <1>3, <1>4

(* A line more in the chain is a capture more in the record. *)
LEMMA ItemsAppend ==
    ASSUME NEW s \in Seq(ChainEntry), NEW e \in ChainEntry
    PROVE  Items(Append(s, e)) = Append(Items(s), e.of)
  <1> DEFINE t == Append(s, e)
             u == Append(Items(s), e.of)
  <1>1. /\ Items(s) \in Seq(Arg) /\ Len(Items(s)) = Len(s) /\ e.of \in Arg
        /\ \A i \in 1 .. Len(s) : Items(s)[i] = s[i].of
    BY ItemsType DEF ChainEntry
  <1>2. /\ t \in Seq(ChainEntry) /\ Len(t) = Len(s) + 1 /\ t[Len(s) + 1] = e
        /\ \A i \in 1 .. Len(s) : t[i] = s[i]
    OBVIOUS
  <1>3. /\ u \in Seq(Arg) /\ Len(u) = Len(s) + 1 /\ u[Len(s) + 1] = e.of
        /\ \A i \in 1 .. Len(s) : u[i] = Items(s)[i]
    BY <1>1
  <1>4. /\ Items(t) \in Seq(Arg) /\ Len(Items(t)) = Len(s) + 1
        /\ \A i \in 1 .. Len(s) + 1 : Items(t)[i] = t[i].of
    BY <1>2, ItemsType
  <1> HIDE DEF t, u
  <1>5. ASSUME NEW i \in 1 .. Len(s) + 1 PROVE Items(t)[i] = u[i]
    <2>1. CASE i \in 1 .. Len(s)
      BY <1>1, <1>2, <1>3, <1>4, <2>1
    <2>2. CASE i = Len(s) + 1
      BY <1>2, <1>3, <1>4, <2>2
    <2>3. QED
      BY <2>1, <2>2
  <1>6. Items(t) = u
    BY <1>3, <1>4, <1>5, SeqEqual
  <1>7. QED
    BY <1>6 DEF t, u

(* Without a failed put of a manifest, the writer behaves as the abstract   *)
(* evidence log: nothing is recorded twice, taken back, or returned before  *)
(* it is recorded.                                                          *)
THEOREM Implements ==
    ASSUME "manifest" \notin Fault
    PROVE  Spec => IsEvidenceLog
  <1> DEFINE log == [d \in Day |-> [i \in DOMAIN manifest[d] |-> manifest[d][i].of]]
             status == [c \in Call |-> StatusOf(pc[c])]
  <1>1. Init => Archive!Init
    <2> SUFFICES ASSUME Init PROVE Archive!Init
      OBVIOUS
    <2>1. TypeOK
      BY InitType
    <2>2. log = [d \in Day |-> <<>>]
      <3>1. \A d \in Day : [i \in DOMAIN manifest[d] |-> manifest[d][i].of] = <<>>
        BY DEF Init
      <3>2. QED
        BY <3>1
    <2>3. status = [c \in Call |-> "new"]
      BY DEF Init, StatusOf
    <2>4. QED
      BY <2>1, <2>2, <2>3 DEF Archive!Init, TypeOK
  <1>2. VInv /\ [Next]_vars => [Archive!Next]_(Archive!vars)
    <2> SUFFICES ASSUME VInv, [Next]_vars PROVE [Archive!Next]_(Archive!vars)
      OBVIOUS
    <2>1. IInv /\ TypeOK /\ TypeOK'
      BY NextType DEF VInv, IInv
    <2> USE DEF store, memory, lock
    <2>2. ASSUME NEW c \in Call, Submit(c) PROVE Archive!Offer(c)
      <3>1. PICK p \in Payload : arg' = [arg EXCEPT ![c] = [payload |-> p, at |-> now]]
        BY <2>2 DEF Submit, Enqueue
      <3>2. [payload |-> p, at |-> now] \in Arg
        BY <2>1 DEF TypeOK, Arg
      <3>3. status[c] = "new" /\ status' = [status EXCEPT ![c] = "offered"]
        BY <2>1, <2>2 DEF Submit, Enqueue, TypeOK, StatusOf
      <3>4. log' = log
        BY <2>2 DEF Submit, Enqueue
      <3>5. QED
        BY <3>1, <3>2, <3>3, <3>4 DEF Archive!Offer
    <2>3. ASSUME NEW c \in Call, WriteManifest(c) PROVE Archive!Record(c)
      <3>1. /\ chainDay = DateOf(c) /\ chainDay \in Day /\ arg[c] \in Arg
            /\ manifest[chainDay] \in Seq(ChainEntry) /\ entry[c] \in ChainEntry
        BY <2>1, <2>3, DateType DEF IInv, HolderInv, WriteManifest, TypeOK
      <3>2. line = Append(manifest[chainDay], entry[c]) /\ entry[c].of = arg[c]
        <4>1. pc[c] = "putManifest"
          BY <2>3 DEF WriteManifest
        <4>2. /\ line = Append(manifest[chainDay], entry[c])
              /\ entry[c] = MakeEntry(TipOf(manifest[chainDay]), arg[c])
          BY <4>1 DEF VInv, TipInv
        <4>3. QED
          BY <4>2 DEF MakeEntry
      <3>3. Items(line) = Append(Items(manifest[chainDay]), arg[c])
        BY <3>1, <3>2, ItemsAppend
      <3>4. [x \in Arg |-> DayOf[x.at]][arg[c]] = chainDay
        BY <3>1 DEF DateOf
      <3>5. log' = [log EXCEPT ![chainDay] = Append(@, arg[c])]
        BY <2>1, <2>3, <3>1, <3>3 DEF WriteManifest, TypeOK, Items
      <3>6. status[c] = "offered" /\ status' = [status EXCEPT ![c] = "recorded"]
        BY <2>1, <2>3 DEF WriteManifest, TypeOK, StatusOf
      <3>7. arg' = arg
        BY <2>3 DEF WriteManifest
      <3>8. QED
        BY <3>4, <3>5, <3>6, <3>7 DEF Archive!Record
    <2>4. ASSUME NEW c \in Call, Return(c) PROVE Archive!Confirm(c)
      <3>1. status[c] = "recorded" /\ status' = [status EXCEPT ![c] = "confirmed"]
        BY <2>1, <2>4 DEF Return, TypeOK, StatusOf
      <3>2. log' = log /\ arg' = arg
        BY <2>4 DEF Return
      <3>3. QED
        BY <3>1, <3>2 DEF Archive!Confirm
    <2>5. ASSUME NEW c \in Call, Failure(c) PROVE Archive!Reject({c})
      <3>1. /\ pc[c] \in {"rolling", "putObject"} /\ Raise(c)
        BY <2>5 DEF Failure, ReadFails, ObjectFails, ManifestFails
      <3>2. /\ status[c] = "offered"
            /\ status' = [b \in Call |-> IF b \in {c} THEN "rejected" ELSE status[b]]
        BY <2>1, <3>1 DEF Raise, TypeOK, StatusOf
      <3>3. log' = log /\ arg' = arg
        BY <3>1 DEF Raise
      <3>4. QED
        BY <3>2, <3>3 DEF Archive!Reject
    <2>6. ASSUME Crash PROVE \E C \in SUBSET Call : Archive!Reject(C)
      <3> DEFINE C == {c \in Call : pc[c] \in {"waiting"} \cup InCriticalSection}
      <3>1. \A c \in C : status[c] \in {"offered", "recorded"}
        BY DEF StatusOf, InCriticalSection
      <3>2. status' = [c \in Call |-> IF c \in C THEN "rejected" ELSE status[c]]
        BY <2>1, <2>6 DEF Crash, TypeOK, StatusOf
      <3>3. log' = log /\ arg' = arg
        BY <2>6 DEF Crash
      <3>4. Archive!Reject(C)
        BY <3>1, <3>2, <3>3 DEF Archive!Reject
      <3>5. QED
        BY <3>4
    <2>7. ASSUME NEW c \in Call, Acquire(c) \/ RollChain(c) \/ WriteObject(c)
          PROVE  UNCHANGED Archive!vars
      <3>1. manifest' = manifest /\ arg' = arg
        BY <2>7 DEF Acquire, Enter, RollChain, LoadChain, WriteObject
      <3>2. pc[c] \in {"waiting", "rolling", "putObject"}
        <4>1. Acquire(c) => pc[c] = "waiting"
          BY <2>1 DEF Acquire, Enter, IInv, QueueInv, TypeOK
        <4>2. QED
          BY <2>7, <4>1 DEF RollChain, LoadChain, WriteObject
      <3>3. PICK step \in {"rolling", "putObject", "putManifest"} : pc' = [pc EXCEPT ![c] = step]
        BY <2>7 DEF Acquire, Enter, RollChain, LoadChain, WriteObject
      <3>4. status' = status
        BY <2>1, <3>2, <3>3 DEF TypeOK, StatusOf
      <3>5. QED
        BY <3>1, <3>4 DEF Archive!vars
    <2>8. ASSUME Tick \/ UNCHANGED vars PROVE UNCHANGED Archive!vars
      BY <2>8 DEF Tick, vars, Archive!vars
    <2>9. QED
      BY <2>2, <2>3, <2>4, <2>5, <2>6, <2>7, <2>8 DEF Next, Progress, Archive!Next
  <1>3. Spec => []VInv
    BY InitVerifies, NextVerifies, PTL DEF Spec
  <1>4. QED
    BY <1>1, <1>2, <1>3, PTL DEF Spec, IsEvidenceLog, Archive!Spec
=============================================================================
