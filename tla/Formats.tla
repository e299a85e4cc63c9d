-------------------------------- MODULE Formats --------------------------------
(***************************************************************************)
(* What the formats are to guarantee, for every message, file and CTO.  A  *)
(* behaviour is one client's TCP connection (CotStreams), or one KMZ file, *)
(* OVL file or CTO: given says which, and the formulas at the end are      *)
(* about what KmzParse, OvlParse and CotConvert make of it.                *)
(***************************************************************************)
EXTENDS CotStreams, CotConvert, KmzParse, OvlParse

CONSTANTS
    KmzInput,   \* KMZ files, each with the KMZ_DEFAULT_AFFILIATION it meets
    OvlInput,   \* OVL files
    XmlInput,   \* CoT XML messages
    PbInput     \* CoT protobuf messages

ASSUME FormatsAssumption ==
    /\ KmzInput \subseteq [file : KmzFileData, env : STRING]
    /\ OvlInput \subseteq OvlFileData
    /\ \A e \in XmlInput : IsDetail(e.detail)
    /\ \A ev \in PbInput :
           /\ IsDetail(ev.xmlDetail) /\ DOMAIN ev.typed \subseteq Submessages
           /\ ev.callsign # "" /\ NoFloat \cap {ev.hae, ev.le, ev.ce, ev.course, ev.speed} = {}

\* Of strings, which are sequences of characters, those facts that matter here.
ASSUME CodesAreSequences ==
    /\ \A entry \in FunctionCodes :
           Len(entry) \in Nat /\ Len(entry) >= 2 /\ SubSeq(entry, 1, Len(entry)) = entry
    /\ \A file \in OvlInput : \A object \in ToSet(file.objects) :
           /\ Len(object.code) \in Nat
           /\ \A n \in 1 .. Len(object.code) : Len(SubSeq(object.code, 1, n)) = n

VARIABLE given      \* [kind, value]

\* The CTO of a point graphic in a KMZ or OVL file: the id or name and the
\* description it may have there.
Graphic(affiliation, uid, description) ==
    [type |-> <<>>, affil |-> affiliation, dim |-> None, uid |-> uid, time |-> "12:00",
     from |-> None, to |-> None, how |-> None, extras |-> NoAttrs, alt |-> <<>>, ce |-> None,
     course |-> None, speed |-> None, callsign |-> None, remarks |-> description,
     detail |-> NoAttrs]

\* What is forwarded: all that is read from messages and files.
CtoInput ==
    {XmlToCto(e) : e \in XmlInput} \cup {PbToCto(ev) : ev \in PbInput}
    \cup {Graphic(a, u, d) : a \in Affiliation, u \in {None, "A-1"}, d \in {None, "held"}}

NoWire == [proto |-> "pb", msgs |-> <<>>, junk |-> <<>>]

-----------------------------------------------------------------------------
Init ==
    \/ given = [kind |-> "stream", value |-> "none"] /\ StreamInit
    \/ /\ wire = NoWire /\ sent = 0 /\ buf = <<>> /\ delivered = <<>> /\ phase = "ended"
       /\ \/ \E c \in CtoInput : given = [kind |-> "cto", value |-> c]
          \/ \E s \in KmzInput : given = [kind |-> "kmz", value |-> s]
          \/ \E f \in OvlInput : given = [kind |-> "ovl", value |-> f]
Next == StreamNext /\ UNCHANGED given
Spec == Init /\ [][Next]_<<streamVars, given>>

(* Every CTO that goes out as CoT XML and comes in again at other gateways  *)
(* of this kind keeps what XmlKeeps says, at the first of them and at the   *)
(* next, and does not change any more behind that.                          *)
XmlForwardKeeps == given.kind = "cto" =>
    LET once == XmlHop(given.value)
        twice == XmlHop(once)
    IN  XmlKeeps(given.value) /\ XmlKeeps(once) /\ XmlHop(twice) = twice

(* The same for CoT protobuf and PbKeeps: behind the first gateway nothing  *)
(* changes any more.                                                        *)
PbForwardKeeps == given.kind = "cto" =>
    LET once == PbHop(given.value) IN PbKeeps(given.value) /\ PbHop(once) = once

(* No placemark of a KMZ file comes out with a better affiliation than the  *)
(* file gives it.                                                           *)
KmzIdentityHonest == given.kind = "kmz" =>
    LET file == given.value.file
        ctos == KmzToCtos(file, given.value.env)
    IN  \A i \in DOMAIN ctos : HonestAbout(file.placemarks[ctos[i].index + 1], ctos[i])

(* Both parsers: all of a file or nothing of it, in its order; an exception *)
(* other than the parser's own is raised only for the causes named with     *)
(* each parser, and the KMZ parser's own only for those it looks for.       *)
FileOutcome ==
    /\ given.kind = "kmz" => KmzOutcomeRight(given.value.file, given.value.env)
    /\ given.kind = "ovl" => OvlOutcomeRight(given.value)

(* The vertices drawn in an OVL file are the vertices stored.               *)
OvlDrawnKept == given.kind = "ovl" =>
    LET ctos == OvlToCtos(given.value)
    IN  \A i \in DOMAIN ctos : DrawnKept(given.value.objects[i], ctos[i])

=============================================================================
