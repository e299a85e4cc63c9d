----------------------------- MODULE InboxProofs -----------------------------
(* What TLAPS proves of the folder watcher and the file ingestors (Inbox),  *)
(* for any number of files, names and troubles.                             *)
EXTENDS Inbox, DataFacts

(***************************************************************************)
(* The inductive invariant.                                                *)
(***************************************************************************)

Ingesting == step \in {"capturing", "publishing"}

\* What the watcher's task holds at each of its steps: while it ingests, a
\* file of the name at hand, which may be replaced but not moved meanwhile;
\* while it publishes, the whole of a good file, captured.
StepInv ==
    /\ step = "settling" => todo # <<>> /\ size1 # Empty
    /\ Ingesting =>
           /\ todo # <<>>
           /\ held \in File \X {Part, Whole}
           /\ NameOf[held[1]] = Head(todo)
           /\ place[held[1]] \in {"inbox", "replaced"}
    /\ ~ Ingesting => held = Nothing
    /\ step = "publishing" =>
           /\ held \in captured /\ held[2] = Whole
           /\ nth \in Nat \ {0}

\* A file that was ingested was captured whole, and was once in the inbox.
IngestInv ==
    \A f \in File :
        /\ ingests[f] > 0 => <<f, Whole>> \in captured
        /\ place[f] = "unborn" => ingests[f] = 0

\* While the task ingests a file, whatever else has its name took its place.
UsurpInv ==
    Ingesting =>
        /\ held[1] \notin usurpers
        /\ \A f \in At(Head(todo)) : f = held[1] \/ f \in usurpers

IInv == TypeOK /\ StepInv /\ IngestInv /\ UsurpInv

\* What the ingests of a file weigh against the troubles: each, while the file
\* may be ingested again or is just being so; all but one, when it is gone.
Weight ==
    [f \in File |-> IF place[f] = "inbox" \/ (Ingesting /\ held[1] = f) \/ ingests[f] = 0
                    THEN ingests[f] ELSE ingests[f] - 1]
WeightInv == SumFunction(Weight) <= trouble

(***************************************************************************)
(* Facts about the operators of the model.                                 *)
(***************************************************************************)

LEMMA Numbers ==
    /\ File \subseteq Nat /\ Name \subseteq Nat /\ IsFiniteSet(File)
    /\ \A f \in File : NameOf[f] \in Name /\ Fate[f] \in FateKind /\ CountOf[f] \in Nat
  <1>1. LastFile \in Nat /\ LastName \in Nat
    BY InboxAssumption
  <1>2. IsFiniteSet(File)
    BY <1>1, FS_Interval DEF File
  <1>3. QED
    BY <1>1, <1>2, InboxAssumption DEF File, Name

\* The recursion that lists the names that are there is well defined: were it
\* not up to some number, take the least one, and extend the list before it.
LEMMA PresentExists ==
    \E f : f = [n \in 0 .. LastName |->
                   IF n = 0 THEN <<>>
                   ELSE IF At(n) = {} THEN f[n - 1]
                   ELSE Append(f[n - 1], n)]
  <1> DEFINE Body(f, n) == IF n = 0 THEN <<>>
                           ELSE IF At(n) = {} THEN f[n - 1]
                           ELSE Append(f[n - 1], n)
             Lists(k, f) == f = [n \in 0 .. k |-> Body(f, n)]
             Bad == {k \in Nat : ~ \E f : Lists(k, f)}
  <1>1. ASSUME NEW k \in Bad, \A j \in Bad : k <= j PROVE FALSE
    <2>1. k \in Nat
      OBVIOUS
    <2>2. CASE k = 0
      <3>1. Lists(0, [n \in 0 .. 0 |-> <<>>])
        OBVIOUS
      <3>2. QED
        BY <2>2, <3>1
    <2>3. CASE k # 0
      <3>1. k - 1 \in Nat /\ k - 1 \notin Bad
        <4> HIDE DEF Bad
        <4> QED
          BY <1>1, <2>1, <2>3
      <3>2. PICK f : Lists(k - 1, f)
        BY <3>1
      <3> DEFINE g == [n \in 0 .. k |-> Body(f, n)]
      <3>3. ASSUME NEW n \in 0 .. k PROVE Body(f, n) = Body(g, n)
        <4>1. CASE n = 0
          BY <4>1
        <4>2. CASE n # 0
          <5>1. n - 1 \in 0 .. k - 1 /\ n - 1 \in 0 .. k
            BY <2>1, <3>3, <4>2
          <5>2. g[n - 1] = Body(f, n - 1)
            BY <5>1
          <5>3. f[n - 1] = Body(f, n - 1)
            BY <3>2, <5>1
          <5>4. QED
            BY <4>2, <5>2, <5>3
        <4>3. QED
          BY <4>1, <4>2
      <3>4. Lists(k, g)
        BY <3>3
      <3>5. QED
        BY <3>4
    <2>4. QED
      BY <2>2, <2>3
  <1>2. Bad = {}
    <2>1. Bad \in SUBSET Nat
      OBVIOUS
    <2> HIDE DEF Bad
    <2>2. QED
      BY <1>1, <2>1, SmallestElement
  <1>3. LastName \in Nat
    BY InboxAssumption
  <1>4. QED
    BY <1>2, <1>3

LEMMA PresentType == Present \in Seq(Name)
  <1> DEFINE Lists(f) == f = [n \in 0 .. LastName |->
                                 IF n = 0 THEN <<>>
                                 ELSE IF At(n) = {} THEN f[n - 1]
                                 ELSE Append(f[n - 1], n)]
             Bad == {n \in 0 .. LastName : PresentUpTo[n] \notin Seq(Name)}
  <1>1. Lists(PresentUpTo)
    <2>1. \E f : Lists(f)
      BY PresentExists
    <2>2. PresentUpTo = CHOOSE f : Lists(f)
      BY DEF PresentUpTo
    <2> HIDE DEF Lists
    <2>3. QED
      BY <2>1, <2>2
  <1>2. LastName \in Nat
    BY InboxAssumption
  <1>3. ASSUME NEW n \in Bad, \A m \in Bad : n <= m PROVE FALSE
    <2>1. n \in 0 .. LastName /\ PresentUpTo[n] \notin Seq(Name)
      OBVIOUS
    <2>2. CASE n = 0
      BY <1>1, <2>1, <2>2
    <2>3. CASE n # 0
      <3>1. n - 1 \in 0 .. LastName /\ n \in Name
        BY <1>2, <2>1, <2>3 DEF Name
      <3>2. n - 1 \notin Bad
        <4> HIDE DEF Bad
        <4> QED
          BY <1>2, <1>3, <2>1
      <3>3. PresentUpTo[n - 1] \in Seq(Name)
        BY <3>1, <3>2
      <3>4. Append(PresentUpTo[n - 1], n) \in Seq(Name)
        BY <3>1, <3>3
      <3>5. PresentUpTo[n] \in {PresentUpTo[n - 1], Append(PresentUpTo[n - 1], n)}
        BY <1>1, <2>1, <2>3
      <3>6. QED
        BY <2>1, <3>3, <3>4, <3>5
    <2>4. QED
      BY <2>2, <2>3
  <1>4. Bad = {}
    <2>1. Bad \in SUBSET Nat
      BY <1>2
    <2> HIDE DEF Bad
    <2>2. QED
      BY <1>3, <2>1, SmallestElement
  <1>5. LastName \in 0 .. LastName
    BY <1>2
  <1>6. QED
    BY <1>4, <1>5 DEF Present

\* What a file is found to be, once its bytes are read.
LEMMA Fates ==
    ASSUME NEW data \in File \X Size
    PROVE  /\ FateOf(data) \in FateKind
           /\ FateOf(data) # "parse" => data[2] = Whole
  BY Numbers DEF FateOf, FateKind

\* What a move does: what has the name is moved, or the move fails.
Places == {"unborn", "inbox", "replaced", "processed", "failed"}

LEMMA Moved ==
    ASSUME IInv, NEW there \in {"processed", "failed"}, MoveTo(there), todo # <<>>
    PROVE  /\ step' = "scan" /\ todo' \in Seq(Name)
           /\ size1' = Empty /\ held' = Nothing /\ nth' = 0
           /\ UNCHANGED <<size, locked, stopping>>
           /\ place' \in [File -> Places]
           /\ \A f \in File : \/ place'[f] = place[f]
                              \/ place[f] = "inbox" /\ NameOf[f] = Head(todo) /\ place'[f] = there
           /\ (\A n \in Name : \A f, g \in At(n) : f = g)'
           /\ trouble' \in 0 .. MaxTrouble
           /\ \/ trouble' = trouble /\ \A f \in At(Head(todo)) : place'[f] = there
              \/ trouble' = trouble + 1 /\ place' = place
  <1>1. /\ place \in [File -> Places] /\ todo \in Seq(Name) /\ trouble \in 0 .. MaxTrouble
        /\ MaxTrouble \in Nat
    BY InboxAssumption DEF IInv, TypeOK, Places
  <1>2. Tail(todo) \in Seq(Name)
    BY <1>1
  <1>3. \/ /\ place' = [f \in File |-> IF f \in At(Head(todo)) THEN there ELSE place[f]]
           /\ trouble' = trouble
        \/ trouble < MaxTrouble /\ trouble' = trouble + 1 /\ place' = place
    BY DEF MoveTo
  <1>4. place' \in [File -> Places]
    BY <1>1, <1>3 DEF Places
  <1>5. \A f \in File : \/ place'[f] = place[f]
                        \/ place[f] = "inbox" /\ NameOf[f] = Head(todo) /\ place'[f] = there
    BY <1>1, <1>3 DEF At
  <1>6. (\A n \in Name : \A f, g \in At(n) : f = g)'
    <2>1. \A f \in File : place'[f] = "inbox" => place[f] = "inbox"
      BY <1>5
    <2>2. QED
      BY <2>1 DEF IInv, TypeOK, At
  <1>7. trouble' \in 0 .. MaxTrouble
    BY <1>1, <1>3
  <1>8. \/ trouble' = trouble /\ \A f \in At(Head(todo)) : place'[f] = there
        \/ trouble' = trouble + 1 /\ place' = place
    BY <1>3 DEF At
  <1>9. QED
    BY <1>2, <1>4, <1>5, <1>6, <1>7, <1>8 DEF MoveTo

(***************************************************************************)
(* Every step keeps the inductive invariant.                               *)
(***************************************************************************)

LEMMA InitInvariant == Init => IInv
  <1> SUFFICES ASSUME Init PROVE IInv
    OBVIOUS
  <1>1. TypeOK
    <2>1. /\ place \in [File -> {"unborn", "inbox", "replaced", "processed", "failed"}]
          /\ size \in [File -> Size] /\ ingests \in [File -> Nat]
      BY DEF Init, Size
    <2>2. \A n \in Name : \A f, g \in At(n) : f = g
      BY DEF Init, At
    <2>3. todo \in Seq(Name) /\ trouble \in 0 .. MaxTrouble
      BY InboxAssumption DEF Init
    <2>4. size1 \in Size /\ held \in (File \X Size) \cup {Nothing} /\ nth \in Nat
      BY DEF Init, Size
    <2>5. captured \subseteq File \X {Part, Whole}
      BY DEF Init
    <2>6. published \subseteq UNION {{f} \X (1 .. CountOf[f]) : f \in File}
      BY DEF Init
    <2>7. /\ stopping \in BOOLEAN /\ step = "idle"
          /\ locked \subseteq File /\ usurpers \subseteq File
      BY DEF Init
    <2>8. QED
      BY <2>1, <2>2, <2>3, <2>4, <2>5, <2>6, <2>7 DEF TypeOK
  <1>2. StepInv
    BY DEF Init, StepInv, Ingesting
  <1>3. IngestInv /\ UsurpInv
    BY DEF Init, IngestInv, UsurpInv, Ingesting
  <1>4. QED
    BY <1>1, <1>2, <1>3 DEF IInv

LEMMA DropInvariant == ASSUME IInv, NEW f \in File, Drop(f) PROVE IInv'
  <1> USE DEF IInv
  <1>1. /\ place[f] = "unborn"
        /\ place' = [g \in File |-> IF g = f THEN "inbox"
                                    ELSE IF g \in At(NameOf[f]) THEN "replaced" ELSE place[g]]
        /\ size' \in [File -> Size]
        /\ usurpers' = IF held # Nothing /\ NameOf[held[1]] = NameOf[f]
                       THEN usurpers \cup {f} ELSE usurpers
        /\ UNCHANGED <<locked, step, todo, size1, held, nth, stopping, captured, published, ingests,
                      trouble>>
    <2>1. size \in [File -> Size]
      BY DEF TypeOK
    <2>2. size' \in [File -> Size]
      BY <2>1 DEF Drop, Size
    <2>3. QED
      BY <2>2 DEF Drop, watcher, outside
  <1>2. /\ place' \in [File -> Places]
        /\ \A g \in File : g # f => \/ place'[g] = place[g] /\ g \notin At(NameOf[f])
                                    \/ place[g] = "inbox" /\ place'[g] = "replaced"
        /\ place'[f] = "inbox"
    BY <1>1 DEF TypeOK, Places, At
  <1>3. (\A n \in Name : \A g, h \in At(n) : g = h)'
    <2> SUFFICES ASSUME NEW g \in File, NEW h \in File, place'[g] = "inbox", place'[h] = "inbox",
                        NameOf[g] = NameOf[h]
                 PROVE  g = h
      BY DEF At
    <2>1. CASE g # f /\ h # f
      <3>1. place[g] = "inbox" /\ place[h] = "inbox"
        BY <1>2, <2>1
      <3>2. NameOf[g] \in Name
        BY Numbers
      <3>3. QED
        BY <3>1, <3>2 DEF TypeOK, At
    <2>2. CASE g = f /\ h # f
      BY <1>2, <2>2 DEF At
    <2>3. CASE h = f /\ g # f
      BY <1>2, <2>3 DEF At
    <2>4. QED
      BY <2>1, <2>2, <2>3
  <1>4. TypeOK'
    BY <1>1, <1>2, <1>3 DEF TypeOK, Places
  <1>5. StepInv'
    <2>1. ASSUME Ingesting PROVE held[1] \in File /\ place'[held[1]] \in {"inbox", "replaced"}
      <3>1. held[1] \in File /\ place[held[1]] \in {"inbox", "replaced"}
        BY <2>1 DEF StepInv
      <3>2. QED
        BY <1>2, <3>1
    <2>2. QED
      BY <1>1, <2>1 DEF StepInv, Ingesting
  <1>6. IngestInv'
    BY <1>1, <1>2 DEF IngestInv
  <1>7. UsurpInv'
    <2> SUFFICES ASSUME Ingesting'
                 PROVE  /\ held[1] \notin usurpers'
                        /\ \A g \in At(Head(todo))' : g = held[1] \/ g \in usurpers'
      BY <1>1 DEF UsurpInv
    <2>1. Ingesting
      BY <1>1 DEF Ingesting
    <2>2. /\ held \in File \X {Part, Whole} /\ NameOf[held[1]] = Head(todo)
          /\ place[held[1]] \in {"inbox", "replaced"}
      BY <2>1 DEF StepInv
    <2>3. held # Nothing /\ held[1] # f
      <3>1. held[2] # Nothing[2]
        BY <2>2 DEF Nothing, Empty, Part, Whole
      <3>2. QED
        BY <1>1, <2>2, <3>1
    <2>4. held[1] \notin usurpers'
      BY <1>1, <2>1, <2>3 DEF UsurpInv
    <2>5. ASSUME NEW g \in File, place'[g] = "inbox", NameOf[g] = Head(todo), g # held[1]
          PROVE  g \in usurpers'
      <3>1. CASE g = f
        BY <1>1, <2>2, <2>3, <2>5, <3>1
      <3>2. CASE g # f
        <4>1. g \in At(Head(todo))
          BY <1>2, <2>5, <3>2 DEF At
        <4>2. QED
          BY <1>1, <2>1, <2>5, <4>1 DEF UsurpInv
      <3>3. QED
        BY <3>1, <3>2
    <2>6. QED
      BY <1>1, <2>4, <2>5 DEF At
  <1>8. QED
    BY <1>4, <1>5, <1>6, <1>7

LEMMA GrowInvariant == ASSUME IInv, NEW f \in File, Grow(f) PROVE IInv'
  <1> USE DEF IInv
  <1>1. size' \in [File -> Size]
    BY DEF Grow, TypeOK, Size, Empty, Part, Whole
  <1>2. UNCHANGED <<place, locked, usurpers, step, todo, size1, held, nth, stopping, captured,
                    published, ingests, trouble>>
    BY DEF Grow, watcher, outside
  <1>3. TypeOK'
    BY <1>1, <1>2 DEF TypeOK, At
  <1>4. StepInv' /\ IngestInv' /\ UsurpInv'
    BY <1>2 DEF StepInv, Ingesting, IngestInv, UsurpInv, At
  <1>5. QED
    BY <1>3, <1>4

LEMMA LockInvariant == ASSUME IInv, NEW f \in File, Lock(f) \/ Unlock(f) PROVE IInv'
  <1> USE DEF IInv
  <1>1. /\ locked' \in {locked \cup {f}, locked \ {f}}
        /\ UNCHANGED <<place, size, usurpers, step, todo, size1, held, nth, stopping, captured,
                      published, ingests, trouble>>
    BY DEF Lock, Unlock, watcher, outside
  <1>2. locked' \subseteq File
    BY <1>1 DEF TypeOK
  <1>3. TypeOK'
    BY <1>1, <1>2 DEF TypeOK, At
  <1>4. StepInv' /\ IngestInv' /\ UsurpInv'
    BY <1>1 DEF StepInv, Ingesting, IngestInv, UsurpInv, At
  <1>5. QED
    BY <1>3, <1>4

\* The watcher's task does not ingest, and does not change the files.
LEMMA IdleInvariant ==
    ASSUME IInv, ~ Ingesting, UNCHANGED <<files, captured, published, ingests>>,
           step' \in {"idle", "scan", "settling", "stopped", "down"},
           step' = "settling" => todo' # <<>> /\ size1' # Empty,
           todo' \in Seq(Name), size1' \in Size, held' = Nothing, nth' \in Nat,
           stopping' \in BOOLEAN, trouble' \in 0 .. MaxTrouble
    PROVE  IInv'
  <1> USE DEF IInv
  <1>1. TypeOK'
    BY DEF TypeOK, At, Nothing, files
  <1>2. StepInv' /\ UsurpInv'
    BY DEF StepInv, Ingesting, UsurpInv
  <1>3. IngestInv'
    BY DEF IngestInv, files
  <1>4. QED
    BY <1>1, <1>2, <1>3

\* Neither the file at hand nor its name changes while the task ingests it, and
\* nothing is moved.
LEMMA MoveInvariant ==
    ASSUME IInv, NEW there \in {"processed", "failed"}, MoveTo(there), todo # <<>>,
           captured \subseteq captured', captured' \subseteq File \X {Part, Whole},
           published' = published, ingests' \in [File -> Nat], usurpers' \subseteq usurpers,
           \A f \in File : \/ ingests'[f] = ingests[f]
                           \/ <<f, Whole>> \in captured /\ place[f] # "unborn"
    PROVE  IInv'
  <1> USE DEF IInv
  <1>1. /\ step' = "scan" /\ todo' \in Seq(Name)
        /\ size1' = Empty /\ held' = Nothing /\ nth' = 0
        /\ UNCHANGED <<size, locked, stopping>>
        /\ place' \in [File -> Places]
        /\ \A f \in File : \/ place'[f] = place[f]
                           \/ place[f] = "inbox" /\ NameOf[f] = Head(todo) /\ place'[f] = there
        /\ (\A n \in Name : \A f, g \in At(n) : f = g)'
        /\ trouble' \in 0 .. MaxTrouble
    BY Moved
  <1>2. TypeOK'
    BY <1>1 DEF TypeOK, Places, Size
  <1>3. StepInv' /\ UsurpInv'
    BY <1>1 DEF StepInv, Ingesting, UsurpInv
  <1>4. IngestInv'
    <2>1. ASSUME NEW f \in File, ingests'[f] > 0 PROVE <<f, Whole>> \in captured'
      BY <2>1 DEF IngestInv
    <2>2. ASSUME NEW f \in File, place'[f] = "unborn" PROVE ingests'[f] = 0
      BY <1>1, <2>2 DEF IngestInv
    <2>3. QED
      BY <2>1, <2>2 DEF IngestInv
  <1>5. QED
    BY <1>2, <1>3, <1>4

LEMMA SettleInvariant == ASSUME IInv, Settle PROVE IInv'
  <1> USE DEF IInv
  <1> DEFINE n == Head(todo)
             f == FileAt(n)
             data == <<f, size[f]>>
  <1>1. /\ step = "settling" /\ todo # <<>> /\ size1 # Empty /\ ~ Ingesting /\ held = Nothing
        /\ todo \in Seq(Name) /\ Tail(todo) \in Seq(Name) /\ nth \in Nat
        /\ stopping \in BOOLEAN /\ trouble \in 0 .. MaxTrouble /\ size \in [File -> Size]
    BY DEF Settle, StepInv, Ingesting, TypeOK
  <1>2. CASE At(n) = {} \/ size[f] # size1
    <2>1. Skip /\ UNCHANGED stopping
      BY <1>2 DEF Settle
    <2>2. QED
      BY <1>1, <2>1, IdleInvariant DEF Skip, outside, Size
  <1>3. CASE ~ (At(n) = {} \/ size[f] # size1)
    <2>1. Read(data) /\ f \in At(n)
      BY <1>3 DEF Settle, FileAt
    <2>2. f \in File /\ place[f] = "inbox" /\ NameOf[f] = n /\ size[f] = size1
      BY <1>3, <2>1 DEF At
    <2>3. data \in File \X {Part, Whole} /\ data[1] = f
      BY <1>1, <2>2 DEF Size
    <2> HIDE DEF data, f
    <2>4. CASE f \in locked
      <3>1. Skip /\ UNCHANGED stopping
        BY <2>1, <2>3, <2>4 DEF Read
      <3>2. QED
        BY <1>1, <3>1, IdleInvariant DEF Skip, outside, Size
    <2>5. CASE f \notin locked /\ FateOf(data) = "sniff"
      <3>1. MoveTo("failed") /\ UNCHANGED <<captured, published, ingests>>
        BY <2>1, <2>3, <2>5 DEF Read, outside
      <3>2. usurpers' \subseteq usurpers
        BY <2>1, <2>3, <2>5 DEF Read
      <3>3. captured \subseteq File \X {Part, Whole} /\ ingests \in [File -> Nat]
        BY DEF TypeOK
      <3>4. QED
        BY <1>1, <3>1, <3>2, <3>3, MoveInvariant
    <2>6. CASE f \notin locked /\ FateOf(data) # "sniff"
      <3>1. /\ step' = "capturing" /\ size1' = Empty /\ held' = data
            /\ usurpers' = usurpers \ {f}
            /\ UNCHANGED <<place, size, locked, todo, nth, stopping, captured, published, ingests,
                          trouble>>
        BY <2>1, <2>3, <2>6 DEF Read, outside
      <3>2. TypeOK'
        BY <2>3, <3>1 DEF TypeOK, At, Size
      <3>3. StepInv'
        BY <1>1, <2>2, <2>3, <3>1 DEF StepInv, Ingesting
      <3>4. UsurpInv'
        <4>1. \A g \in At(n) : g = f
          BY <2>1, <2>2, Numbers DEF TypeOK
        <4>2. At(n)' = At(n)
          BY <3>1 DEF At
        <4>3. QED
          BY <2>3, <3>1, <4>1, <4>2 DEF UsurpInv
      <3>5. QED
        BY <3>1, <3>2, <3>3, <3>4 DEF IngestInv
    <2>7. QED
      BY <2>4, <2>5, <2>6, <2>3
  <1>4. QED
    BY <1>2, <1>3

LEMMA ScanInvariant == ASSUME IInv, Scan \/ ScanDone \/ LoopEnds \/ Start PROVE IInv'
  <1>1. /\ ~ Ingesting /\ step # "settling" /\ step' \in {"idle", "scan", "stopped"}
        /\ UNCHANGED <<files, size1, held, nth, stopping, captured, published, ingests, trouble>>
    BY DEF Scan, ScanDone, LoopEnds, Start, Ingesting, outside
  <1>2. todo' \in {todo, Present}
    BY DEF Scan, ScanDone, LoopEnds, Start
  <1>3. todo' \in Seq(Name)
    BY <1>2, PresentType DEF IInv, TypeOK
  <1>4. /\ held = Nothing /\ size1 \in Size /\ nth \in Nat
        /\ stopping \in BOOLEAN /\ trouble \in 0 .. MaxTrouble
    BY <1>1 DEF IInv, TypeOK, StepInv
  <1>5. QED
    BY <1>1, <1>3, <1>4, IdleInvariant

LEMMA LookInvariant == ASSUME IInv, Look PROVE IInv'
  <1> USE DEF IInv
  <1> DEFINE n == Head(todo)
             f == FileAt(n)
  <1>1. /\ step = "scan" /\ todo # <<>> /\ ~ Ingesting /\ held = Nothing
        /\ todo \in Seq(Name) /\ Tail(todo) \in Seq(Name) /\ nth \in Nat
        /\ stopping' = stopping
        /\ stopping \in BOOLEAN /\ trouble \in 0 .. MaxTrouble /\ size \in [File -> Size]
    BY DEF Look, StepInv, Ingesting, TypeOK
  <1>2. CASE At(n) = {} \/ size[f] = Empty
    <2>1. Skip
      BY <1>2 DEF Look
    <2>2. QED
      BY <1>1, <2>1, IdleInvariant DEF Skip, outside, Size
  <1>3. CASE ~ (At(n) = {} \/ size[f] = Empty)
    <2>1. /\ step' = "settling" /\ size1' = size[f] /\ f \in At(n)
          /\ UNCHANGED <<files, todo, held, nth, captured, published, ingests, trouble>>
      BY <1>3 DEF Look, outside, FileAt
    <2>2. size1' \in Size /\ size1' # Empty
      BY <1>1, <1>3, <2>1 DEF At
    <2>3. QED
      BY <1>1, <2>1, <2>2, IdleInvariant
  <1>4. QED
    BY <1>2, <1>3

LEMMA CapturedInvariant == ASSUME IInv, Captured PROVE IInv'
  <1> USE DEF IInv
  <1>1. /\ step = "capturing" /\ FateOf(held) = "good" /\ step' = "publishing" /\ nth' = 1
        /\ captured' = captured \cup {held}
        /\ UNCHANGED <<files, todo, size1, held, stopping, published, ingests, trouble>>
    BY DEF Captured
  <1>2. /\ todo # <<>> /\ held \in File \X {Part, Whole} /\ NameOf[held[1]] = Head(todo)
        /\ place[held[1]] \in {"inbox", "replaced"}
    BY <1>1 DEF StepInv, Ingesting
  <1>3. held[2] = Whole
    <2>1. held \in File \X Size
      BY <1>2 DEF Size
    <2>2. QED
      BY <1>1, <2>1, Fates
  <1>4. TypeOK'
    BY <1>1, <1>2 DEF TypeOK, At, files
  <1>5. StepInv'
    BY <1>1, <1>2, <1>3 DEF StepInv, Ingesting, files
  <1>6. IngestInv' /\ UsurpInv'
    BY <1>1 DEF IngestInv, UsurpInv, Ingesting, At, files
  <1>7. QED
    BY <1>4, <1>5, <1>6

LEMMA FailsInvariant == ASSUME IInv, ParseFails \/ CaptureFails PROVE IInv'
  <1>1. /\ step = "capturing" /\ MoveTo("failed")
        /\ captured' \in {captured, captured \cup {held}}
        /\ UNCHANGED <<usurpers, published, ingests>>
    BY DEF ParseFails, CaptureFails, outside
  <1>2. /\ todo # <<>> /\ held \in File \X {Part, Whole}
        /\ captured \subseteq File \X {Part, Whole} /\ ingests \in [File -> Nat]
    BY <1>1 DEF IInv, StepInv, Ingesting, TypeOK
  <1>3. captured \subseteq captured' /\ captured' \subseteq File \X {Part, Whole}
    BY <1>1, <1>2
  <1>4. QED
    BY <1>1, <1>2, <1>3, MoveInvariant

LEMMA EscapesInvariant == ASSUME IInv, ParseEscapes PROVE IInv'
  <1> USE DEF IInv
  <1>1. /\ step = "capturing" /\ step' = "idle" /\ todo' = <<>> /\ held' = Nothing
        /\ captured' = captured \cup {held}
        /\ UNCHANGED <<files, size1, nth, stopping, published, ingests, trouble>>
    BY DEF ParseEscapes
  <1>2. held \in File \X {Part, Whole}
    BY <1>1 DEF StepInv, Ingesting
  <1>3. todo' \in Seq(Name)
    BY <1>1
  <1>4. TypeOK'
    BY <1>1, <1>2, <1>3 DEF TypeOK, At, files
  <1>5. StepInv' /\ IngestInv' /\ UsurpInv'
    BY <1>1 DEF StepInv, Ingesting, IngestInv, UsurpInv, files
  <1>6. QED
    BY <1>4, <1>5

LEMMA PublishInvariant == ASSUME IInv, Publish PROVE IInv'
  <1> USE DEF IInv
  <1>1. /\ step = "publishing" /\ nth <= CountOf[held[1]] /\ nth' = nth + 1
        /\ published' \in {published, published \cup {<<held[1], nth>>}}
        /\ UNCHANGED <<files, step, todo, size1, held, stopping, captured, ingests, trouble>>
    BY DEF Publish
  <1>2. held \in File \X {Part, Whole} /\ nth \in Nat \ {0}
    BY <1>1 DEF StepInv, Ingesting
  <1>3. published' \subseteq UNION {{f} \X (1 .. CountOf[f]) : f \in File}
    <2>1. published \subseteq UNION {{f} \X (1 .. CountOf[f]) : f \in File}
      BY DEF TypeOK
    <2>2. held[1] \in File /\ nth \in 1 .. CountOf[held[1]]
      BY <1>1, <1>2, Numbers
    <2>3. <<held[1], nth>> \in UNION {{f} \X (1 .. CountOf[f]) : f \in File}
      BY <2>2
    <2>4. QED
      BY <1>1, <2>1, <2>3
  <1>4. TypeOK'
    BY <1>1, <1>2, <1>3 DEF TypeOK, At, files
  <1>5. StepInv' /\ IngestInv' /\ UsurpInv'
    BY <1>1, <1>2 DEF StepInv, Ingesting, IngestInv, UsurpInv, At, files
  <1>6. QED
    BY <1>4, <1>5

LEMMA IngestedInvariant == ASSUME IInv, Ingested PROVE IInv'
  <1>1. /\ step = "publishing" /\ MoveTo("processed")
        /\ ingests' = [ingests EXCEPT ![held[1]] = @ + 1]
        /\ UNCHANGED <<usurpers, captured, published>>
    BY DEF Ingested
  <1>2. /\ todo # <<>> /\ held \in File \X {Part, Whole} /\ held \in captured /\ held[2] = Whole
        /\ place[held[1]] # "unborn"
        /\ captured \subseteq File \X {Part, Whole} /\ ingests \in [File -> Nat]
    BY <1>1 DEF IInv, StepInv, Ingesting, TypeOK
  <1>3. ingests' \in [File -> Nat]
    BY <1>1, <1>2
  <1>4. ASSUME NEW f \in File, ingests'[f] # ingests[f]
        PROVE  <<f, Whole>> \in captured /\ place[f] # "unborn"
    BY <1>1, <1>2, <1>4
  <1>5. QED
    BY <1>1, <1>2, <1>3, <1>4, MoveInvariant

LEMMA StopInvariant == ASSUME IInv, Stop PROVE IInv'
  <1>1. stopping' = TRUE /\ UNCHANGED <<files, watcher, outside, trouble>>
    BY DEF Stop
  <1>2. QED
    BY <1>1 DEF IInv, TypeOK, At, StepInv, Ingesting, IngestInv, UsurpInv, files, watcher, outside

LEMMA CrashInvariant == ASSUME IInv, Crash PROVE IInv'
  <1> USE DEF IInv
  <1>1. /\ step' = "down" /\ todo' = <<>> /\ size1' = Empty /\ held' = Nothing /\ nth' = 0
        /\ stopping' = FALSE /\ trouble < MaxTrouble /\ trouble' = trouble + 1
        /\ UNCHANGED <<files, captured, published, ingests>>
    BY DEF Crash, outside
  <1>2. todo' \in Seq(Name) /\ trouble' \in 0 .. MaxTrouble
    BY <1>1, InboxAssumption DEF TypeOK
  <1>3. TypeOK'
    BY <1>1, <1>2 DEF TypeOK, At, Size, files
  <1>4. StepInv' /\ IngestInv' /\ UsurpInv'
    BY <1>1 DEF StepInv, Ingesting, IngestInv, UsurpInv, files
  <1>5. QED
    BY <1>3, <1>4

LEMMA NextInvariant == ASSUME IInv, [Next]_vars PROVE IInv'
  <1>1. CASE UNCHANGED vars
    BY <1>1 DEF vars, files, watcher, outside, IInv, TypeOK, At, StepInv, Ingesting, IngestInv,
       UsurpInv
  <1>2. CASE \E f \in File : Drop(f) \/ Grow(f) \/ Lock(f) \/ Unlock(f)
    BY <1>2, DropInvariant, GrowInvariant, LockInvariant
  <1>3. CASE Work
    BY <1>3, ScanInvariant, LookInvariant, SettleInvariant, CapturedInvariant, FailsInvariant,
       EscapesInvariant, PublishInvariant, IngestedInvariant DEF Work
  <1>4. CASE Stop \/ Crash
    BY <1>4, StopInvariant, CrashInvariant
  <1>5. QED
    BY <1>1, <1>2, <1>3, <1>4 DEF Next

\* The inductive invariant holds in every state the watcher can reach.
THEOREM Invariance == Spec => []IInv
  BY InitInvariant, NextInvariant, PTL DEF Spec

\* Every variable keeps its type; of two files in the inbox, each has a name
\* of its own, and no CTO is published that its file does not have.
THEOREM Typing == Spec => []TypeOK
  <1>1. IInv => TypeOK
    BY DEF IInv
  <1>2. QED
    BY <1>1, Invariance, PTL

(***************************************************************************)
(* What the steps do to the files: one is dropped, one is moved without    *)
(* having been gone through, one is moved after that, or all stay where    *)
(* they are.                                                               *)
(***************************************************************************)

\* A usurper is one until it is read, which takes place in the inbox.
ReadOnly == usurpers' \subseteq usurpers /\ \A f \in usurpers \ usurpers' : place[f] = "inbox"

Rejects ==
    /\ MoveTo("failed") /\ todo # <<>>
    /\ captured \subseteq captured'
    /\ ReadOnly
    /\ UNCHANGED <<published, ingests>>

Stays ==
    /\ UNCHANGED <<place, ingests>>
    /\ ReadOnly
    /\ captured \subseteq captured'
    /\ published' = published \/ Publish
    /\ trouble' \in {trouble, trouble + 1}
    /\ Ingesting' => \/ Ingesting /\ held' = held
                     \/ held'[1] \in File /\ place[held'[1]] = "inbox"

LEMMA SettleKinds == ASSUME IInv, Settle PROVE Rejects \/ Stays
  <1> DEFINE n == Head(todo)
             f == FileAt(n)
             data == <<f, size[f]>>
  <1>1. step = "settling" /\ todo # <<>>
    BY DEF Settle, IInv, StepInv
  <1>2. CASE At(n) = {} \/ size[f] # size1
    <2>1. Skip
      BY <1>2 DEF Settle
    <2>2. QED
      BY <2>1 DEF Skip, files, outside, Stays, ReadOnly, Ingesting
  <1>3. CASE ~ (At(n) = {} \/ size[f] # size1)
    <2>1. Read(data) /\ f \in At(n)
      BY <1>3 DEF Settle, FileAt
    <2>2. f \in File /\ place[f] = "inbox" /\ data[1] = f
      BY <2>1 DEF At
    <2> HIDE DEF data, f
    <2>3. CASE f \in locked
      BY <2>1, <2>2, <2>3 DEF Read, Skip, files, outside, Stays, ReadOnly, Ingesting
    <2>4. CASE f \notin locked
      <3>1. usurpers' = usurpers \ {f}
        BY <2>1, <2>2, <2>4 DEF Read
      <3>2. ReadOnly
        BY <2>2, <3>1 DEF ReadOnly
      <3>3. CASE FateOf(data) = "sniff"
        BY <1>1, <2>1, <2>2, <2>4, <3>2, <3>3 DEF Read, outside, Rejects
      <3>4. CASE FateOf(data) # "sniff"
        BY <2>1, <2>2, <2>4, <3>2, <3>4 DEF Read, outside, Stays
      <3>5. QED
        BY <3>3, <3>4
    <2>5. QED
      BY <2>3, <2>4
  <1>4. QED
    BY <1>2, <1>3

LEMMA LookStays == ASSUME Look PROVE Stays
  <1>1. step' \in {"scan", "settling"} /\ UNCHANGED <<files, outside, trouble>>
    BY DEF Look, Skip
  <1>2. QED
    BY <1>1 DEF files, outside, Stays, ReadOnly, Ingesting

LEMMA Kinds ==
    ASSUME IInv, [Next]_vars
    PROVE  (\E f \in File : Drop(f)) \/ Rejects \/ Ingested \/ Stays
  <1>1. CASE UNCHANGED vars
    BY <1>1 DEF vars, files, watcher, outside, Stays, ReadOnly, Ingesting
  <1>2. CASE \E f \in File : Grow(f) \/ Lock(f) \/ Unlock(f)
    BY <1>2 DEF Grow, Lock, Unlock, watcher, outside, Stays, ReadOnly, Ingesting
  <1>3. CASE Scan \/ ScanDone \/ LoopEnds \/ Start
    BY <1>3 DEF Scan, ScanDone, LoopEnds, Start, files, outside, Stays, ReadOnly, Ingesting
  <1>4. CASE Captured
    BY <1>4 DEF Captured, files, Stays, ReadOnly, Ingesting
  <1>5. CASE ParseFails \/ CaptureFails
    <2>1. todo # <<>>
      BY <1>5 DEF ParseFails, CaptureFails, IInv, StepInv, Ingesting
    <2>2. QED
      BY <1>5, <2>1 DEF ParseFails, CaptureFails, outside, Rejects, ReadOnly
  <1>6. CASE ParseEscapes
    BY <1>6 DEF ParseEscapes, files, Stays, ReadOnly, Ingesting
  <1>7. CASE Publish
    BY <1>7 DEF Publish, files, Stays, ReadOnly, Ingesting
  <1>8. CASE Stop
    BY <1>8 DEF Stop, files, watcher, outside, Stays, ReadOnly, Ingesting
  <1>9. CASE Crash
    BY <1>9 DEF Crash, files, outside, Stays, ReadOnly, Ingesting
  <1>10. QED
    BY <1>1, <1>2, <1>3, <1>4, <1>5, <1>6, <1>7, <1>8, <1>9, SettleKinds, LookStays
    DEF Next, Work

(***************************************************************************)
(* Raw capture first.                                                      *)
(***************************************************************************)

LEMMA CapturedFirstKept == ASSUME IInv, CapturedFirst, [Next]_vars PROVE CapturedFirst'
  <1>1. captured \subseteq captured' /\ (published' = published \/ Publish)
    BY Kinds DEF Drop, Rejects, Ingested, Stays, outside
  <1>2. CASE published' = published
    BY <1>1, <1>2 DEF CapturedFirst
  <1>3. CASE Publish
    <2>1. published' \subseteq published \cup {<<held[1], nth>>}
      BY <1>3 DEF Publish
    <2>2. held \in captured /\ held = <<held[1], Whole>>
      BY <1>3 DEF Publish, IInv, StepInv, Ingesting
    <2>3. QED
      BY <1>1, <2>1, <2>2 DEF CapturedFirst
  <1>4. QED
    BY <1>1, <1>2, <1>3

\* The whole file that a published CTO came from was captured before, whatever
\* fails, crashes, is replaced or written on meanwhile.
THEOREM CapturesFirst == Spec => []CapturedFirst
  <1>1. Init => CapturedFirst
    BY DEF Init, CapturedFirst
  <1>2. QED
    BY <1>1, CapturedFirstKept, Invariance, PTL DEF Spec

(***************************************************************************)
(* What is in .processed was ingested.                                     *)
(***************************************************************************)

\* What is promised of a file that is filed as processed.
Accounted(f) ==
    IF f \notin usurpers THEN GoneThrough(f)
    ELSE \E g \in File : place[g] = "replaced" /\ NameOf[g] = NameOf[f] /\ GoneThrough(g)

\* The promise is kept by a step that forgets nothing.
LEMMA StillAccounted ==
    ASSUME NEW f \in File, Accounted(f), f \in usurpers' <=> f \in usurpers,
           \A g \in File : place[g] = "replaced" => place'[g] = "replaced",
           \A g \in File : GoneThrough(g) => GoneThrough(g)'
    PROVE  Accounted(f)'
  <1>1. CASE f \notin usurpers
    BY <1>1 DEF Accounted
  <1>2. CASE f \in usurpers
    <2>1. PICK g \in File : place[g] = "replaced" /\ NameOf[g] = NameOf[f] /\ GoneThrough(g)
      BY <1>2 DEF Accounted
    <2>2. place'[g] = "replaced" /\ GoneThrough(g)'
      BY <2>1
    <2>3. QED
      BY <1>2, <2>1, <2>2 DEF Accounted
  <1>3. QED
    BY <1>1, <1>2

LEMMA ProcessedKept ==
    ASSUME IInv, ProcessedWasIngested, [Next]_vars PROVE ProcessedWasIngested'
  <1> USE DEF IInv
  <1>1. \A f \in File : place[f] = "processed" => Accounted(f)
    BY DEF ProcessedWasIngested, Accounted
  <1>2. SUFFICES ASSUME NEW f \in File, place'[f] = "processed" PROVE Accounted(f)'
    BY DEF ProcessedWasIngested, Accounted
  <1>3. CASE \E h \in File : Drop(h)
    <2>1. PICK h \in File : Drop(h)
      BY <1>3
    <2>2. /\ place[h] = "unborn" /\ UNCHANGED <<captured, ingests>>
          /\ place' = [g \in File |-> IF g = h THEN "inbox"
                                      ELSE IF g \in At(NameOf[h]) THEN "replaced" ELSE place[g]]
          /\ usurpers' \in {usurpers, usurpers \cup {h}}
      BY <2>1 DEF Drop, outside
    <2>3. /\ place[f] = "processed" /\ f # h
          /\ \A g \in File : place[g] = "replaced" => place'[g] = "replaced"
      BY <1>2, <2>2
    <2>4. Accounted(f) /\ (f \in usurpers' <=> f \in usurpers)
      BY <1>1, <2>2, <2>3
    <2>5. \A g \in File : GoneThrough(g) => GoneThrough(g)'
      BY <2>2 DEF GoneThrough
    <2>6. QED
      BY <2>3, <2>4, <2>5, StillAccounted
  <1>4. CASE Rejects \/ Stays
    <2>1. \A g \in File : \/ place'[g] = place[g]
                          \/ place[g] = "inbox" /\ place'[g] = "failed"
      <3>1. CASE Rejects
        BY <3>1, Moved DEF Rejects
      <3>2. CASE Stays
        BY <3>2 DEF Stays
      <3>3. QED
        BY <1>4, <3>1, <3>2
    <2>2. captured \subseteq captured' /\ ingests' = ingests /\ ReadOnly
      BY <1>4 DEF Rejects, Stays
    <2>3. /\ place[f] = "processed"
          /\ \A g \in File : place[g] = "replaced" => place'[g] = "replaced"
      BY <1>2, <2>1
    <2>4. Accounted(f) /\ (f \in usurpers' <=> f \in usurpers)
      BY <1>1, <2>2, <2>3 DEF ReadOnly
    <2>5. \A g \in File : GoneThrough(g) => GoneThrough(g)'
      BY <2>2 DEF GoneThrough
    <2>6. QED
      BY <2>3, <2>4, <2>5, StillAccounted
  <1>5. CASE Ingested
    <2>1. /\ step = "publishing" /\ MoveTo("processed")
          /\ ingests' = [ingests EXCEPT ![held[1]] = @ + 1]
          /\ captured' = captured /\ usurpers' = usurpers /\ ingests \in [File -> Nat]
      BY <1>5 DEF Ingested, TypeOK
    <2>2. PICK h \in File : h = held[1]
      BY <2>1 DEF StepInv, Ingesting
    <2>3. /\ todo # <<>> /\ <<h, Whole>> \in captured
          /\ NameOf[h] = Head(todo) /\ place[h] \in {"inbox", "replaced"} /\ h \notin usurpers
          /\ \A g \in At(Head(todo)) : g = h \/ g \in usurpers
      BY <2>1, <2>2 DEF StepInv, UsurpInv, Ingesting
    <2>4. \A g \in File :
              \/ place'[g] = place[g]
              \/ place[g] = "inbox" /\ NameOf[g] = Head(todo) /\ place'[g] = "processed"
      BY <2>1, <2>3, Moved
    <2>5. /\ GoneThrough(h)'
          /\ \A g \in File : GoneThrough(g) => GoneThrough(g)'
      BY <2>1, <2>2, <2>3 DEF GoneThrough
    <2>6. \A g \in File : place[g] = "replaced" => place'[g] = "replaced"
      BY <2>4
    <2>7. CASE place[f] = "processed"
      <3>1. Accounted(f)
        BY <1>1, <2>7
      <3>2. QED
        BY <2>1, <2>5, <2>6, <3>1, StillAccounted
    <2>8. CASE f \in At(Head(todo)) /\ f = h
      BY <2>1, <2>3, <2>5, <2>8 DEF Accounted
    <2>9. CASE f \in At(Head(todo)) /\ f # h
      <3>1. f \in usurpers'
        BY <2>1, <2>3, <2>9
      <3>2. place[h] # "inbox"
        <4>1. place[h] = "inbox" => h \in At(Head(todo)) /\ Head(todo) \in Name
          BY <2>3, Numbers DEF At
        <4>2. QED
          BY <2>9, <4>1 DEF TypeOK
      <3>3. place'[h] = "replaced"
        BY <2>3, <2>6, <3>2
      <3>4. NameOf[h] = NameOf[f]
        BY <2>3, <2>9 DEF At
      <3>5. QED
        BY <2>5, <3>1, <3>3, <3>4 DEF Accounted
    <2>10. QED
      BY <1>2, <2>4, <2>7, <2>8, <2>9 DEF At
  <1>6. QED
    BY <1>3, <1>4, <1>5, Kinds

\* A file in .processed was read and captured whole, and its CTOs were all gone
\* through; or it was put in the place of a file of its name of which that is
\* true, while that one was being ingested.
THEOREM ProcessedIngested == Spec => []ProcessedWasIngested
  <1>1. Init => ProcessedWasIngested
    BY DEF Init, ProcessedWasIngested
  <1>2. QED
    BY <1>1, ProcessedKept, Invariance, PTL DEF Spec

(***************************************************************************)
(* A file is ingested again only for a crash or a failed move.             *)
(***************************************************************************)

LEMMA WeightType == ASSUME IInv PROVE Weight \in [File -> Nat]
  <1>1. ingests \in [File -> Nat]
    BY DEF IInv, TypeOK
  <1>2. QED
    BY <1>1 DEF Weight

\* No file becomes heavier, or one becomes heavier by one with the troubles.
LEMMA WeightKept == ASSUME IInv, WeightInv, [Next]_vars PROVE WeightInv'
  <1>1. IInv'
    BY NextInvariant
  <1>2. /\ Weight \in [File -> Nat] /\ Weight' \in [File -> Nat] /\ IsFiniteSet(File)
        /\ trouble \in Nat /\ trouble' \in Nat
        /\ ingests \in [File -> Nat] /\ ingests' \in [File -> Nat]
    <2>1. Weight \in [File -> Nat] /\ IsFiniteSet(File)
      BY WeightType, Numbers
    <2>2. ingests' \in [File -> Nat]
      BY <1>1 DEF IInv, TypeOK
    <2>3. Weight' \in [File -> Nat]
      BY <2>2 DEF Weight
    <2>4. trouble \in Nat /\ trouble' \in Nat
      BY <1>1, InboxAssumption DEF IInv, TypeOK
    <2>5. QED
      BY <2>1, <2>2, <2>3, <2>4 DEF IInv, TypeOK
  <1>3. SumFunction(Weight) \in Nat /\ SumFunction(Weight)' \in Nat
    BY <1>2, SumIsNat
  <1>4. ASSUME \A f \in File : Weight'[f] <= Weight[f], trouble <= trouble'
        PROVE  WeightInv'
    <2>1. SumFunction(Weight)' <= SumFunction(Weight)
      BY <1>2, <1>4, SumMonotone
    <2>2. QED
      BY <1>2, <1>3, <1>4, <2>1 DEF WeightInv
  <1>5. CASE \E f \in File : Drop(f)
    <2>1. PICK f \in File : Drop(f)
      BY <1>5
    <2>2. /\ place[f] = "unborn" /\ UNCHANGED <<step, held, ingests, trouble>>
          /\ \A g \in File : g # f /\ place'[g] = "inbox" => place[g] = "inbox"
      BY <2>1 DEF Drop, watcher, outside
    <2>3. ingests[f] = 0
      BY <2>2 DEF IInv, IngestInv
    <2>4. \A g \in File : Weight'[g] <= Weight[g]
      BY <1>2, <2>2, <2>3 DEF Weight, Ingesting
    <2>5. QED
      BY <1>2, <1>4, <2>2, <2>4
  <1>6. CASE Rejects
    <2>1. /\ step' = "scan" /\ ingests' = ingests
          /\ \A f \in File : place'[f] = "inbox" => place[f] = "inbox"
          /\ trouble' \in {trouble, trouble + 1}
      BY <1>6, Moved DEF Rejects
    <2>2. \A f \in File : Weight'[f] <= Weight[f]
      BY <1>2, <2>1 DEF Weight, Ingesting
    <2>3. QED
      BY <1>2, <1>4, <2>1, <2>2
  <1>7. CASE Ingested
    <2> DEFINE h == held[1]
    <2>1. /\ Ingesting /\ MoveTo("processed") /\ ingests' = [ingests EXCEPT ![h] = @ + 1]
          /\ h \in File /\ todo # <<>> /\ NameOf[h] = Head(todo)
          /\ place[h] \in {"inbox", "replaced"}
      BY <1>7 DEF Ingested, IInv, StepInv, Ingesting
    <2>2. /\ step' = "scan"
          /\ \A f \in File : place'[f] = "inbox" => place[f] = "inbox"
          /\ \/ trouble' = trouble /\ \A f \in At(Head(todo)) : place'[f] = "processed"
             \/ trouble' = trouble + 1
      BY <2>1, Moved
    <2>3. /\ ingests'[h] = ingests[h] + 1
          /\ \A f \in File : f # h => ingests'[f] = ingests[f]
      BY <1>2, <2>1
    <2>4. \A f \in File : f # h => Weight'[f] <= Weight[f]
      BY <1>2, <2>1, <2>2, <2>3 DEF Weight, Ingesting
    <2>5. Weight[h] = ingests[h] /\ Weight'[h] \in {ingests[h], ingests[h] + 1}
      BY <1>2, <2>1, <2>2, <2>3 DEF Weight, Ingesting
    <2>6. CASE trouble' = trouble + 1
      <3> DEFINE w == [f \in File |-> IF f = h THEN Weight[f] + 1 ELSE Weight[f]]
      <3>1. w \in [File -> Nat] /\ w[h] = Weight[h] + 1 /\ \A f \in File : f # h => w[f] = Weight[f]
        BY <1>2, <2>1
      <3>2. \A f \in File : Weight'[f] <= w[f]
        BY <1>2, <2>1, <2>4, <2>5, <3>1
      <3> HIDE DEF w
      <3>3. SumFunction(Weight)' <= SumFunction(w) /\ SumFunction(w) \in Nat
        BY <1>2, <3>1, <3>2, SumMonotone, SumIsNat
      <3>4. SumFunction(Weight) + w[h] = SumFunction(w) + Weight[h]
        <4>1. h \in File
          BY <2>1
        <4> HIDE DEF h
        <4>2. QED
          BY <1>2, <3>1, <4>1, SumChange
      <3>5. SumFunction(w) = SumFunction(Weight) + 1
        <4>1. Weight[h] \in Nat
          BY <1>2, <2>1
        <4>2. QED
          BY <1>3, <3>1, <3>3, <3>4, <4>1
      <3>6. QED
        BY <1>2, <1>3, <2>6, <3>3, <3>5 DEF WeightInv
    <2>7. CASE trouble' = trouble /\ \A f \in At(Head(todo)) : place'[f] = "processed"
      <3>1. place'[h] # "inbox"
        BY <2>1, <2>2, <2>7 DEF At
      <3>2. Weight'[h] = ingests[h]
        BY <1>2, <2>1, <2>2, <2>3, <3>1 DEF Weight, Ingesting
      <3>3. QED
        BY <1>2, <1>4, <2>4, <2>5, <2>7, <3>2
    <2>8. QED
      BY <2>2, <2>6, <2>7
  <1>8. CASE Stays
    <2>1. /\ place' = place /\ ingests' = ingests
          /\ Ingesting' => \/ Ingesting /\ held' = held
                           \/ held'[1] \in File /\ place[held'[1]] = "inbox"
          /\ trouble' \in {trouble, trouble + 1}
      BY <1>8 DEF Stays
    <2>2. ASSUME NEW f \in File PROVE Weight'[f] <= Weight[f]
      <3>1. Weight[f] \in {ingests[f], ingests[f] - 1} /\ ingests[f] \in Nat
        BY <1>2 DEF Weight
      <3>2. CASE place[f] = "inbox" \/ ingests[f] = 0
        BY <1>2, <2>1, <3>2 DEF Weight
      <3>3. CASE place[f] # "inbox" /\ ingests[f] # 0 /\ Ingesting' /\ held'[1] = f
        BY <1>2, <2>1, <3>3 DEF Weight
      <3>4. CASE place[f] # "inbox" /\ ingests[f] # 0 /\ ~ (Ingesting' /\ held'[1] = f)
        <4>1. Weight'[f] = ingests[f] - 1
          BY <1>2, <2>1, <3>4 DEF Weight
        <4>2. QED
          BY <3>1, <4>1
      <3>5. QED
        BY <3>2, <3>3, <3>4
    <2>3. QED
      BY <1>2, <1>4, <2>1, <2>2
  <1>9. QED
    BY <1>5, <1>6, <1>7, <1>8, Kinds

\* A file is gone through again only for a crash or a move that failed, once
\* for each of them, in all.
THEOREM IngestsCounted == Spec => []IngestedOnce
  <1> DEFINE Surplus == [f \in File |-> IF ingests[f] > 0 THEN ingests[f] - 1 ELSE 0]
  <1>1. Init => WeightInv
    <2> SUFFICES ASSUME Init PROVE WeightInv
      OBVIOUS
    <2>1. Weight \in [File -> Nat] /\ \A f \in File : Weight[f] = 0
      BY DEF Init, Weight
    <2>2. SumFunction(Weight) = 0
      BY <2>1, Numbers, SumOfZeros
    <2>3. QED
      BY <2>2 DEF Init, WeightInv
  <1>2. IInv /\ WeightInv => IngestedOnce
    <2> SUFFICES ASSUME IInv, WeightInv PROVE IngestedOnce
      OBVIOUS
    <2>1. ingests \in [File -> Nat] /\ trouble \in Nat /\ IsFiniteSet(File)
      BY Numbers, InboxAssumption DEF IInv, TypeOK
    <2>2. Surplus \in [File -> Nat] /\ Weight \in [File -> Nat]
      BY <2>1, WeightType
    <2>3. \A f \in File : Surplus[f] <= Weight[f]
      BY <2>1 DEF Weight
    <2>4. SumFunction(Surplus) <= SumFunction(Weight)
      <3> HIDE DEF Surplus
      <3> QED
        BY <2>1, <2>2, <2>3, SumMonotone
    <2>5. SumFunction(Surplus) \in Nat /\ SumFunction(Weight) \in Nat
      <3> HIDE DEF Surplus
      <3> QED
        BY <2>1, <2>2, SumIsNat
    <2>6. SumFunction(Surplus) <= trouble
      <3> HIDE DEF Surplus
      <3> QED
        BY <2>1, <2>4, <2>5 DEF WeightInv
    <2>7. QED
      BY <2>6 DEF IngestedOnce
  <1>3. QED
    BY <1>1, <1>2, WeightKept, Invariance, PTL DEF Spec

=============================================================================
