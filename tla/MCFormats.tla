------------------------------ MODULE MCFormats ------------------------------
(***************************************************************************)
(* The instance on which the formats are checked: what a client sends, and *)
(* samples of KMZ and OVL files and of CoT messages.  A sample differs     *)
(* from an ordinary one in one or two parts of it.                         *)
(***************************************************************************)
EXTENDS Formats

UpTo(n, S) == UNION {[1 .. k -> S] : k \in 0 .. n}

-----------------------------------------------------------------------------
(* Streams: payloads of length 0 to 4, so that a length takes up to the     *)
(* three groups that are allowed, with bytes that look like a magic or go   *)
(* on; rubbish, broken and unfinished frames; events with white space and   *)
(* declarations between them, a close tag written </event >, and text that  *)
(* is not CoT.                                                              *)
MCWire ==
    {[proto |-> "pb", msgs |-> m, junk |-> j] :
        m \in UpTo(2, {<<>>, <<3>>, <<3, 0>>, <<1, 2, 3, 0>>}),
        j \in {<<>>, <<0>>, <<3, 2, 2, 2>>, <<3, 0, 1>>, <<3, 2, 1, 3, 0>>}}
    \cup
    {[proto |-> "xml", msgs |-> m, junk |-> j] :
        m \in UpTo(2, {<<"ev1", "</event", ">">>, <<"sp", "ev2", "</event", ">">>,
                       <<"decl", "ev1", "</event", ">">>, <<"sp", "decl", "ev2", "</event", ">">>}),
        j \in {<<>>, <<"sp">>, <<"ev1", "</event", "sp", ">">>, <<"other", "</event", ">">>}}

-----------------------------------------------------------------------------
\* KMZ files of one placemark, with the configured default, and of two.
Shape == [point |-> <<>>, line |-> <<>>, outer |-> <<>>, inner |-> <<>>]
Shapes ==
    {[Shape EXCEPT !.point = pts] : pts \in {<<"a">>, <<"a", "b">>, <<"bad">>}}
    \cup {[Shape EXCEPT !.line = pts] : pts \in {<<"a">>, <<"a", "b">>, <<"a", "bad">>}}
    \cup {[Shape EXCEPT !.outer = out, !.inner = in] :
            out \in {<<>>, <<"a", "b">>, <<"a", "b", "c">>, <<"a", "b", "a">>, <<"a", "b", "c", "a">>},
            in \in {<<>>, <<<<"d", "e", "f">>>>, <<<<"d", "e">>, <<"d", "e", "d">>>>, <<<<"bad">>>>}}
    \cup {[Shape EXCEPT !.point = <<"a">>, !.line = <<"bad">>],
          [Shape EXCEPT !.line = <<"a">>, !.outer = <<"a", "b", "c">>]}
Label == [suspected |-> FALSE, stem |-> "PL", tail |-> "", words |-> {}]
Labels ==
    {[Label EXCEPT !.stem = s, !.tail = t] :
        s \in {"PL", "BNDRY", "BOUNDARY", "target designator", "route", "hill"}, t \in {"", "word", "mark"}}
    \cup {[Label EXCEPT !.stem = "", !.words = w] : w \in {{}, {"bridge"}, {"objective", "checkpoint"}}}
Placemark(s, m, l, h, e) ==
    [point |-> s.point, line |-> s.line, outer |-> s.outer, inner |-> s.inner,
     multi |-> m, label |-> l, hints |-> h, sidc |-> e]
Line == [Shape EXCEPT !.line = <<"a", "b">>]
Explicit == {<<>>} \cup {<<[identity |-> i, code |-> "GLB", whole |-> w]>> : i \in {"H", "F", "J"}, w \in BOOLEAN}
Placemarks ==
    {Placemark(s, <<>>, Label, {}, <<>>) : s \in Shapes}
    \cup {Placemark(Shape, <<s, Line>>, Label, {}, <<>>) : s \in Shapes}
    \cup {Placemark([Shape EXCEPT !.line = <<"a">>], <<s>>, Label, {}, <<>>) : s \in Shapes}
    \cup {Placemark(Line, <<>>, l, {}, <<>>) : l \in Labels}
    \cup {Placemark(Line, <<>>, [Label EXCEPT !.suspected = u], h, e) :
            u \in BOOLEAN, h \in SUBSET {"hostile", "friendly"}, e \in Explicit}
Kml(ps) == [archive |-> "kml", placemarks |-> ps]
FewPlacemarks == {Placemark(s, <<>>, Label, {}, <<>>) : s \in
    {Shape, Line, [Shape EXCEPT !.point = <<"bad">>], [Shape EXCEPT !.outer = <<"a", "b", "a">>]}}
KmzFiles ==
    {[file |-> Kml(<<p>>), env |-> v] : p \in Placemarks, v \in {"friend", "neutral", "nonsense"}}
    \cup {[file |-> Kml(<<p, Placemark(Line, <<>>, Label, {}, <<>>), q>>), env |-> "unknown"] :
            p \in FewPlacemarks, q \in FewPlacemarks}
    \cup {[file |-> [Kml(<<>>) EXCEPT !.archive = a], env |-> "unknown"] :
            a \in Expected \cup Unexpected}

-----------------------------------------------------------------------------
\* OVL files of one object, and of two.
OvlObject == [identity |-> "F", code |-> "GAA", positions |-> <<"a", "b", "c">>, labelPosition |-> ""]
OvlObjects ==
    {[OvlObject EXCEPT !.code = c, !.positions = ps] :
        c \in {"", "G", "GAA", "GAAX", "GLB", "OLAGMX", "OLX", "PYX", "BCL", "NBX"},
        ps \in UpTo(3, {"a", "b"}) \cup {<<"a", "b", "c">>, <<"a", "b", "c", "d">>, <<"a", "b", "c", "a">>, <<"a", "", "b", "bad">>}}
    \cup {[OvlObject EXCEPT !.identity = i, !.labelPosition = l] : i \in {"", "J", "j", "x"}, l \in {"a", "bad"}}
OvlFiles ==
    {[root |-> "MODEL", objects |-> <<o>>] : o \in OvlObjects}
    \cup {[root |-> r, objects |-> <<OvlObject, [OvlObject EXCEPT !.positions = ps]>>] :
            r \in {"MODEL", "other", "malformed"}, ps \in {<<>>, <<"a", "", "c">>, <<"a", "b", "a">>}}

-----------------------------------------------------------------------------
\* CoT messages, XML and protobuf.
Tag(tag, attrs) == Element(tag, attrs, None, None)
Contact == Tag("contact", ("callsign" :> "HAMMER-6") @@ ("endpoint" :> "*:-1:stcp"))
Track(course, speed) == Tag("track", ("course" :> course) @@ ("speed" :> speed))
Remarks(text) == Element("remarks", NoAttrs, text, None)
Group(n) == Tag("__group", ("name" :> "Blue") @@ ("_id" :> n))
Details == {
    <<>>, <<Contact, Contact>>, <<Remarks(None), Remarks("text")>>, <<Track("", "")>>,
    <<Track("bad", "5")>>, <<Track("0", "5.004"), Group("1"), Contact, Group("2")>>,
    <<Element("link", "uid" :> "x", None, "children"), Remarks("text")>>,
    <<Tag("contact", "callsign" :> "")>>}

XmlEvent ==
    [type |-> <<"a", "f", "G", "U">>, uid |-> "ANDROID", time |-> "12:00", start |-> "12:00",
     stale |-> "12:05", how |-> "m-g", extras |-> NoAttrs, hae |-> "42", ce |-> "5.004",
     le |-> "5.004", detail |-> <<Contact, Track("180", "5.004"), Remarks("text")>>]
XmlEvents ==
    {[XmlEvent EXCEPT !.type = t, !.detail = d] : d \in Details,
        t \in {<<>>, <<"b", "m">>, <<"a">>, <<"a", "j", "A">>, <<"a", "z", "S", "X">>}}
    \cup {[XmlEvent EXCEPT !.hae = h, !.le = l, !.ce = c] : h \in {None, "0", "bad", NoData, "5.004"},
            l \in {None, "", "0", "5", NoData}, c \in {None, "bad", "0.004", NoData}}
    \cup {[XmlEvent EXCEPT !.how = h] : h \in {None, ""}}
    \cup {[XmlEvent EXCEPT !.how = None, !.extras = "access" :> "x", !.time = "12:00.0005"]}

PbEvent ==
    [type |-> <<"a", "h", "A">>, uid |-> "ANDROID", time |-> "12:00", start |-> "12:00",
     stale |-> "12:05", how |-> "", hae |-> "0", ce |-> "0", le |-> "5", course |-> "0",
     speed |-> "5", callsign |-> None, malformed |-> FALSE, xmlDetail |-> <<>>, typed |-> NoAttrs]
PbEvents ==
    {[PbEvent EXCEPT !.malformed = m, !.xmlDetail = x, !.typed = t] : m \in BOOLEAN, x \in Details,
        t \in {NoAttrs, "__group" :> ("name" :> "Red"), "status" :> ("battery" :> "80"),
               ("status" :> ("battery" :> "")) @@ ("takv" :> ("os" :> "30"))}}
    \cup {[PbEvent EXCEPT !.hae = h, !.le = l, !.ce = c] :
            h \in {"0", "5.004"}, l \in {"0", NoData, "5"}, c \in {"0", "5", NoData}}
    \cup {[PbEvent EXCEPT !.how = "m-g"]}

=============================================================================
