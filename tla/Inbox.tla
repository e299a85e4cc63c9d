-------------------------------- MODULE Inbox --------------------------------
(***************************************************************************)
(* The folder watcher and the two file ingestors: the watcher of           *)
(* services/gateway/folder_watcher.py scans a directory, hands each file   *)
(* whose size is stable to KmzIngestor or OvlIngestor (kmz_ingest.py,      *)
(* ovl_ingest.py: the same control, other formats) and moves it away.      *)
(*                                                                         *)
(* The users are other processes: they copy files in, slowly, and may put  *)
(* a new file where one of the same name is being ingested, or one that    *)
(* the gateway may not read.  A file keeps its identity when it is moved,  *)
(* and its writer goes on writing to it.                                   *)
(***************************************************************************)
EXTENDS Naturals, Sequences, FiniteSets, Functions

CONSTANTS
    LastFile,   \* the files the users drop
    LastName,   \* the names they go by, numbered as sorted() orders them
    NameOf,
    Fate,       \* what ingest makes of each file: a member of FateKind
    CountOf,    \* the CTOs in each file
    MaxTrouble, \* bound on the crashes and the failed moves of a behaviour
    MaxLocked,  \* bound on the files that cannot be read at the same time
    Fault       \* what may happen, a set of the members of FaultKind

File == 1 .. LastFile
Name == 1 .. LastName

\* Not the signature; KmzParseError, OvlParseError; any other exception; fine.
FateKind == {"sniff", "parse", "escape", "good"}
FaultKind == {"slow", "replace", "read", "capture", "publish", "move", "crash", "stop"}

ASSUME InboxAssumption ==
    /\ LastFile \in Nat /\ LastName \in Nat /\ MaxTrouble \in Nat /\ MaxLocked \in Nat
    /\ NameOf \in [File -> Name]
    /\ Fate \in [File -> FateKind]
    /\ CountOf \in [File -> Nat]
    /\ Fault \subseteq FaultKind

VARIABLES
    place,      \* where each file is
    size,       \* how much of it is written
    locked,     \* the files that cannot be read for now: read_bytes raises OSError
    usurpers,   \* those put in the place of one whose bytes ingest held, not read since
    step,       \* where the watcher's task is
    todo,       \* the names of this scan, the one at hand first
    size1,      \* the size it had at the first look
    held,       \* the file whose bytes ingest holds, and how much of it
    nth,        \* the CTO that is published
    stopping,   \* self._stop
    captured,   \* what was captured: <<file, size>>
    published,  \* the CTOs on NATS: <<file, n>>
    ingests,    \* how often each file's CTOs were all gone through
    trouble     \* the crashes and failed moves so far

files == <<place, size, locked, usurpers>>
watcher == <<step, todo, size1, held, nth>>
outside == <<captured, published, ingests>>
vars == <<files, watcher, stopping, outside, trouble>>

Empty == 0
Part == 1
Whole == 2
Size == {Empty, Part, Whole}
Nothing == <<0, Empty>>

At(n) == {f \in File : place[f] = "inbox" /\ NameOf[f] = n}
FileAt(n) == CHOOSE f \in At(n) : TRUE

\* The names that are there, in the order of sorted().
PresentUpTo[n \in 0 .. LastName] ==
    IF n = 0 THEN <<>>
    ELSE IF At(n) = {} THEN PresentUpTo[n - 1]
    ELSE Append(PresentUpTo[n - 1], n)
Present == PresentUpTo[LastName]

\* Half a zip archive or half an XML document does not parse.
FateOf(data) == IF data[2] = Whole THEN Fate[data[1]] ELSE "parse"

TypeOK ==
    /\ place \in [File -> {"unborn", "inbox", "replaced", "processed", "failed"}]
    /\ \A n \in Name : \A f, g \in At(n) : f = g
    /\ size \in [File -> Size]
    /\ locked \subseteq File /\ usurpers \subseteq File
    /\ step \in {"idle", "scan", "settling", "capturing", "publishing", "stopped", "down"}
    /\ todo \in Seq(Name)
    /\ size1 \in Size
    /\ held \in (File \X Size) \cup {Nothing}
    /\ nth \in Nat
    /\ stopping \in BOOLEAN
    /\ captured \subseteq File \X {Part, Whole}
    /\ published \subseteq UNION {{f} \X (1 .. CountOf[f]) : f \in File}
    /\ ingests \in [File -> Nat]
    /\ trouble \in 0 .. MaxTrouble

Init ==
    /\ place = [f \in File |-> "unborn"]
    /\ size = [f \in File |-> Empty]
    /\ locked = {} /\ usurpers = {}
    /\ step = "idle" /\ todo = <<>> /\ size1 = Empty /\ held = Nothing /\ nth = 0
    /\ stopping = FALSE
    /\ captured = {} /\ published = {}
    /\ ingests = [f \in File |-> 0]
    /\ trouble = 0

-----------------------------------------------------------------------------
(* The users.  A copy truncates what has its name, and then grows.          *)
Drop(f) ==
    /\ place[f] = "unborn"
    /\ At(NameOf[f]) # {} => "replace" \in Fault
    /\ place' = [g \in File |-> IF g = f THEN "inbox"
                                ELSE IF g \in At(NameOf[f]) THEN "replaced" ELSE place[g]]
    /\ size' = [size EXCEPT ![f] = IF "slow" \in Fault THEN Empty ELSE Whole]
    /\ usurpers' = IF held # Nothing /\ NameOf[held[1]] = NameOf[f]
                   THEN usurpers \cup {f} ELSE usurpers
    /\ UNCHANGED <<locked, watcher, stopping, outside, trouble>>

Grow(f) ==
    /\ place[f] \in {"inbox", "processed", "failed"}
    /\ size[f] < Whole
    /\ size' = [size EXCEPT ![f] = @ + 1]
    /\ UNCHANGED <<place, locked, usurpers, watcher, stopping, outside, trouble>>

\* Its mode, or a lock of the file server; and this is put right.
Lock(f) ==
    /\ "read" \in Fault
    /\ place[f] = "inbox" /\ f \notin locked /\ Cardinality(locked) < MaxLocked
    /\ locked' = locked \cup {f}
    /\ UNCHANGED <<place, size, usurpers, watcher, stopping, outside, trouble>>

Unlock(f) ==
    /\ f \in locked
    /\ locked' = locked \ {f}
    /\ UNCHANGED <<place, size, usurpers, watcher, stopping, outside, trouble>>

-----------------------------------------------------------------------------
(* _loop and _scan_once.                                                    *)

\* Mutant of Scan: "while True".
Scan_Forever ==
    /\ step = "idle"
    /\ step' = "scan"
    /\ todo' = Present
    /\ UNCHANGED <<files, size1, held, nth, stopping, outside, trouble>>
Scan ==
    /\ step = "idle" /\ ~stopping
    /\ step' = "scan"
    /\ todo' = Present
    /\ UNCHANGED <<files, size1, held, nth, stopping, outside, trouble>>

ScanDone ==
    /\ step = "scan" /\ todo = <<>>
    /\ step' = "idle"
    /\ UNCHANGED <<files, todo, size1, held, nth, stopping, outside, trouble>>

Skip ==
    /\ step' = "scan" /\ todo' = Tail(todo) /\ size1' = Empty
    /\ UNCHANGED <<files, held, nth, outside, trouble>>

\* The first look, before the sleep of half a second.
Look ==
    /\ step = "scan" /\ todo # <<>>
    /\ UNCHANGED stopping
    /\ LET n == Head(todo)
       IN  IF At(n) = {} \/ size[FileAt(n)] = Empty
           THEN Skip
           ELSE /\ step' = "settling"
                /\ size1' = size[FileAt(n)]
                /\ UNCHANGED <<files, todo, held, nth, outside, trouble>>

LoopEnds ==
    /\ step = "idle" /\ stopping
    /\ step' = "stopped"
    /\ UNCHANGED <<files, todo, size1, held, nth, stopping, outside, trouble>>

(* _process, once ingest has returned: whatever now has the name is moved,   *)
(* or the move raises OSError, which is logged, and the file stays.         *)
MoveTo(there) ==
    /\ step' = "scan" /\ todo' = Tail(todo)
    /\ size1' = Empty /\ held' = Nothing /\ nth' = 0
    /\ \/ /\ place' = [f \in File |-> IF f \in At(Head(todo)) THEN there ELSE place[f]]
          /\ UNCHANGED trouble
       \/ /\ "move" \in Fault /\ trouble < MaxTrouble
          /\ trouble' = trouble + 1
          /\ UNCHANGED place
    /\ UNCHANGED <<size, locked, stopping>>

-----------------------------------------------------------------------------
\* Mutant of Read: the OSError of read_bytes is not caught, and ends the scan.
Read_Raises(data) ==
    IF data[1] \in locked
    THEN /\ step' = "idle" /\ todo' = <<>> /\ size1' = Empty
         /\ UNCHANGED <<files, held, nth, stopping, outside, trouble>>
    ELSE /\ usurpers' = usurpers \ {data[1]}
         /\ IF FateOf(data) = "sniff"
            THEN MoveTo("failed") /\ UNCHANGED outside
            ELSE /\ step' = "capturing"
                 /\ size1' = Empty /\ held' = data
                 /\ UNCHANGED <<place, size, locked, todo, nth, stopping, outside, trouble>>
(* _process and ingest, up to the await of capture.  An OSError of           *)
(* read_bytes is logged, and the file stays.                                *)
Read(data) ==
    \/ data[1] \in locked /\ Skip /\ UNCHANGED stopping
    \/ /\ data[1] \notin locked
       /\ usurpers' = usurpers \ {data[1]}
       /\ IF FateOf(data) = "sniff"
          THEN MoveTo("failed") /\ UNCHANGED outside
          ELSE /\ step' = "capturing"
               /\ size1' = Empty /\ held' = data
               /\ UNCHANGED <<place, size, locked, todo, nth, stopping, outside, trouble>>

(* The second look, half a second later.                                    *)
Settle ==
    /\ step = "settling"
    /\ LET n == Head(todo)
       IN  IF At(n) = {} \/ size[FileAt(n)] # size1
           THEN Skip /\ UNCHANGED stopping
           ELSE Read(<<FileAt(n), size[FileAt(n)]>>)

\* Mutant of Captured: the result is used, the bytes are not stored.
Captured_Unkept ==
    /\ step = "capturing" /\ FateOf(held) = "good"
    /\ step' = "publishing" /\ nth' = 1
    /\ UNCHANGED <<files, todo, size1, held, stopping, outside, trouble>>

(* capture() has returned and the bytes parse.                              *)
Captured ==
    /\ step = "capturing" /\ FateOf(held) = "good"
    /\ captured' = captured \cup {held}
    /\ step' = "publishing" /\ nth' = 1
    /\ UNCHANGED <<files, todo, size1, held, stopping, published, ingests, trouble>>

(* The parser's own exception is a failed ingest ...                        *)
ParseFails ==
    /\ step = "capturing" /\ FateOf(held) = "parse"
    /\ captured' = captured \cup {held}
    /\ MoveTo("failed")
    /\ UNCHANGED <<usurpers, published, ingests>>

(* ... and any other goes up to _loop, which ends the scan.                 *)
ParseEscapes ==
    /\ step = "capturing" /\ FateOf(held) = "escape"
    /\ captured' = captured \cup {held}
    /\ step' = "idle" /\ todo' = <<>> /\ held' = Nothing
    /\ UNCHANGED <<files, size1, nth, stopping, published, ingests, trouble>>

CaptureFails ==
    /\ "capture" \in Fault
    /\ step = "capturing"
    /\ MoveTo("failed")
    /\ UNCHANGED <<usurpers, outside>>

\* Mutant of Publish: one more than there are.
Publish_OneMore ==
    /\ step = "publishing" /\ nth <= CountOf[held[1]] + 1
    /\ nth' = nth + 1
    /\ published' = published \cup {<<held[1], nth>>}
    /\ UNCHANGED <<files, step, todo, size1, held, stopping, captured, ingests, trouble>>
(* A publication that fails is logged, and the next one is tried.           *)
Publish ==
    /\ step = "publishing" /\ nth <= CountOf[held[1]]
    /\ nth' = nth + 1
    /\ \/ published' = published \cup {<<held[1], nth>>}
       \/ "publish" \in Fault /\ UNCHANGED published
    /\ UNCHANGED <<files, step, todo, size1, held, stopping, captured, ingests, trouble>>

\* Mutants of Ingested: a failed publication ends the ingest without a move;
\* the move comes before the last CTO.
Ingested_KeepFile ==
    /\ step = "publishing" /\ nth > CountOf[held[1]]
    /\ ingests' = [ingests EXCEPT ![held[1]] = @ + 1]
    /\ IF \A n \in 1 .. CountOf[held[1]] : <<held[1], n>> \in published
       THEN MoveTo("processed")
       ELSE /\ step' = "scan" /\ todo' = Tail(todo) /\ held' = Nothing /\ nth' = 0
            /\ UNCHANGED <<place, size, locked, size1, stopping, trouble>>
    /\ UNCHANGED <<usurpers, captured, published>>
Ingested_Early ==
    /\ step = "publishing"
    /\ ingests' = [ingests EXCEPT ![held[1]] = IF nth > CountOf[held[1]] THEN @ + 1 ELSE @]
    /\ MoveTo("processed")
    /\ UNCHANGED <<usurpers, captured, published>>
Ingested ==
    /\ step = "publishing" /\ nth > CountOf[held[1]]
    /\ ingests' = [ingests EXCEPT ![held[1]] = @ + 1]
    /\ MoveTo("processed")
    /\ UNCHANGED <<usurpers, captured, published>>

-----------------------------------------------------------------------------
Stop ==
    /\ "stop" \in Fault
    /\ ~stopping /\ step # "down"
    /\ stopping' = TRUE
    /\ UNCHANGED <<files, watcher, outside, trouble>>

Crash ==
    /\ "crash" \in Fault /\ trouble < MaxTrouble
    /\ step \notin {"stopped", "down"}
    /\ trouble' = trouble + 1
    /\ step' = "down" /\ todo' = <<>> /\ size1' = Empty /\ held' = Nothing /\ nth' = 0
    /\ stopping' = FALSE
    /\ UNCHANGED <<files, outside>>

Start ==
    /\ step = "down"
    /\ step' = "idle"
    /\ UNCHANGED <<files, todo, size1, held, nth, stopping, outside, trouble>>

-----------------------------------------------------------------------------
Work ==
    \/ Scan \/ Look \/ ScanDone \/ Settle \/ LoopEnds \/ Start
    \/ Captured \/ ParseFails \/ ParseEscapes \/ CaptureFails
    \/ Publish \/ Ingested

Next ==
    \/ \E f \in File : Drop(f) \/ Grow(f) \/ Lock(f) \/ Unlock(f)
    \/ Work
    \/ Stop \/ Crash

Spec == Init /\ [][Next]_vars

(* The watcher's task runs on: time passes, MinIO and NATS answer.          *)
FairSpec == Spec /\ WF_vars(Work)

-----------------------------------------------------------------------------
(* A file that was moved to .processed had all its bytes read, captured and *)
(* each of its CTOs published or tried, crashes, failed moves, slow writers *)
(* and earlier files of its name or not.  One that was put in the place of  *)
(* a file whose bytes were just being ingested may go there unread, but     *)
(* only for a file of its name that was gone through and is no more there.  *)
GoneThrough(f) == ingests[f] > 0 /\ <<f, Whole>> \in captured
ProcessedWasIngested ==
    \A f \in File : place[f] = "processed" =>
        IF f \notin usurpers THEN GoneThrough(f)
        ELSE \E g \in File : /\ place[g] = "replaced" /\ NameOf[g] = NameOf[f]
                             /\ GoneThrough(g)

(* Raw capture first: the whole file a published CTO came from is in the    *)
(* evidence store, also when the file was replaced while it was ingested.   *)
CapturedFirst == \A p \in published : <<p[1], Whole>> \in captured

(* A file is gone through again only because of a crash or a failed move,   *)
(* once for each of them.                                                   *)
IngestedOnce ==
    SumFunction([f \in File |-> IF ingests[f] > 0 THEN ingests[f] - 1 ELSE 0]) <= trouble

(* A whole file leaves the inbox if it can be read from some time on,       *)
(* however long others cannot: unless a file whose ingest raises is there   *)
(* before it, or the watcher is stopped.                                    *)
Poisoned(f) ==
    \E g \in File : place[g] = "inbox" /\ Fate[g] = "escape" /\ NameOf[g] <= NameOf[f]
EveryFileLeaves ==
    \A f \in File :
        (place[f] = "inbox" /\ size[f] = Whole)
            ~> (place[f] # "inbox" \/ f \in locked \/ Poisoned(f) \/ stopping)

(* stop(), which awaits the task, returns, with files still to be ingested, *)
(* unless the process crashes first.                                        *)
StopEnds == stopping ~> (step \in {"stopped", "down"})

-----------------------------------------------------------------------------
(* What the documents say and the code does not do.                         *)

(* ADR-0008: after ingest a file is moved to .processed or to .failed.      *)
EveryIngestMoves ==
    \A f \in File : (step = "capturing" /\ held = <<f, Whole>>) ~> (place[f] # "inbox")

=============================================================================
