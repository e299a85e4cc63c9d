------------------------------ MODULE CotConvert ------------------------------
(***************************************************************************)
(* CoT messages and CTOs: normalizers/cot_xml.py and normalizers/cot_pb.py *)
(* in both directions, for messages that have what is required of them     *)
(* (Gateway has those that do not).                                        *)
(*                                                                         *)
(* A CTO is a record of what the conversions read and write, its position  *)
(* left out.  A CoT type is the sequence of its parts, <<>> when there is  *)
(* none.  Numbers and times are names of a few values: 5.004 does not      *)
(* survive two decimals, 9999999 means that the sender does not know,      *)
(* 12:00.0005 is no whole millisecond.  The children of an element of      *)
(* <detail> are one value: the code treats them as it treats the element.  *)
(***************************************************************************)
EXTENDS Naturals, Sequences, SequencesExt, FiniteSetsExt, Functions, Selection

None == "none"
Default(v, other) == IF v = None THEN other ELSE v
NoFloat == {None, "", "bad"}    \* float() raises ValueError
NotSet == ""                    \* a string of a protobuf message
NoData == "9999999"
Decimals(v) == IF v = "5.004" THEN "5" ELSE IF v = "0.004" THEN "0" ELSE v
Millis(t) == IF t = "12:00.0005" THEN "12:00" ELSE t
Less(v) == IF v = NoData THEN None ELSE v

\* The keys of the first table in their order; parse_cot_type ignores case.
AffiliationKeys == <<"f", "h", "n", "u", "p", "s", "a", "j", "k">>
AffiliationMap == [k \in {"f", "h", "n", "u", "p", "s", "a", "j", "k"} |->
    CASE k \in {"f", "j"} -> "friend" [] k \in {"h", "k"} -> "hostile" [] k = "n" -> "neutral"
      [] k = "u" -> "unknown" [] k = "p" -> "pending" [] k = "s" -> "suspect"
      [] k = "a" -> "assumed_friend"]
DimensionMap == [k \in {"G", "A", "S", "U", "P", "F"} |->
    CASE k = "G" -> "land" [] k = "A" -> "air" [] k = "S" -> "sea_surface"
      [] k = "U" -> "sea_subsurface" [] k = "P" -> "space" [] k = "F" -> "sof"]

Lookup(table, key) == IF key \in DOMAIN table THEN table[key] ELSE None
Part(type, n) == IF Len(type) >= n /\ type[1] = "a" THEN type[n] ELSE None
AffiliationOf(type) == Lookup(AffiliationMap, Part(type, 2))
DimensionOf(type) == Lookup(DimensionMap, Part(type, 3))

Synthesized(affil, dim) ==
    LET n == SelectInSeq(AffiliationKeys, LAMBDA k : AffiliationMap[k] = affil)
        keys == {k \in DOMAIN DimensionMap : DimensionMap[k] = dim}
    IN  <<"a", IF n = 0 THEN "u" ELSE AffiliationKeys[n],
          IF keys = {} THEN "G" ELSE CHOOSE k \in keys : TRUE>>

-----------------------------------------------------------------------------
(* <detail> is a sequence of elements; a CTO keeps a dict from each tag to  *)
(* the nodes that have it, so that the elements of a tag come together.     *)
(* The text of an element is what strip() leaves of it, None when that is   *)
(* nothing: the dict and the emitters know no other, and remarks of white   *)
(* space only are written no more than those that are missing.              *)
Element(tag, attrs, text, children) ==
    [tag |-> tag, attrs |-> attrs, text |-> text, children |-> children]
NoAttrs == <<>>

IsDetail(elements) ==
    /\ elements \in Seq(ToSet(elements))
    /\ \A e \in ToSet(elements) :
           e = Element(e.tag, e.attrs, e.text, e.children) /\ e.text # NotSet

OfTag(elements, tag) == Selected(elements, {i \in DOMAIN elements : elements[i].tag = tag})
DetailToAttributes(elements) ==
    [tag \in {e.tag : e \in ToSet(elements)} |-> OfTag(elements, tag)]

Find(elements, tag) ==
    LET n == SelectInSeq(elements, LAMBDA e : e.tag = tag)
    IN  IF n = 0 THEN Element(tag, NoAttrs, None, None) ELSE elements[n]

\* The emitters leave out attributes whose names begin with "_".
Private == {"_id"}
Writable(e) == [e EXCEPT !.attrs = Restrict(@, DOMAIN @ \ Private)]

EmitDetail(detail, already) ==
    FlattenSeq(SetToSeq({[i \in DOMAIN detail[tag] |-> Writable(detail[tag][i])] :
                          tag \in DOMAIN detail \ already}))

-----------------------------------------------------------------------------
(* XML.  A hae without le, or with the one that means unknown, is taken; a  *)
(* le that is no number loses both.                                         *)
XmlAltitude(e) ==
    IF e.hae \in NoFloat \/ e.le \in NoFloat \ {None} THEN <<>> ELSE <<e.hae, Less(e.le)>>

XmlToCto(e) ==
    LET track == Find(e.detail, "track").attrs
        number(a) == IF Lookup(track, a) = "" THEN None ELSE Lookup(track, a)
        bad == "bad" \in {Lookup(track, "course"), Lookup(track, "speed")}
    IN  [type |-> e.type, affil |-> AffiliationOf(e.type), dim |-> DimensionOf(e.type),
         uid |-> e.uid, time |-> e.time, from |-> e.start, to |-> e.stale,
         how |-> e.how, extras |-> e.extras,
         alt |-> XmlAltitude(e),
         ce |-> IF e.ce \in NoFloat THEN None ELSE Less(e.ce),
         course |-> IF bad THEN None ELSE number("course"),
         speed |-> IF bad THEN None ELSE number("speed"),
         callsign |-> Lookup(Find(e.detail, "contact").attrs, "callsign"),
         remarks |-> Find(e.detail, "remarks").text,
         detail |-> DetailToAttributes(e.detail)]

\* The elements of <detail> that are written from fields of the CTO.
FieldElements(c) ==
    LET track == {a \in {"course", "speed"} : c[a] # None}
    IN  (IF c.callsign \in {None, ""} THEN <<>>
         ELSE <<Element("contact", [a \in {"callsign"} |-> c.callsign], None, None)>>)
        \o (IF track = {} THEN <<>>
            ELSE <<Element("track", [a \in track |-> Decimals(c[a])], None, None)>>)
        \o (IF c.remarks = None THEN <<>> ELSE <<Element("remarks", NoAttrs, c.remarks, None)>>)

\* Mutant of XmlDetail: what the fields give is written from the dict again.
XmlDetail_Twice(c) == FieldElements(c) \o EmitDetail(c.detail, {})
XmlDetail(c) ==
    FieldElements(c) \o EmitDetail(c.detail, {e.tag : e \in ToSet(FieldElements(c))})

CtoToXml(c) ==
    [type |-> IF c.type = <<>> THEN Synthesized(c.affil, c.dim) ELSE c.type,
     uid |-> Default(c.uid, "uid of the CTO"), time |-> c.time,
     start |-> Default(c.from, c.time), stale |-> Default(c.to, c.time),
     how |-> c.how, extras |-> c.extras,
     hae |-> IF c.alt = <<>> THEN NoData ELSE Decimals(c.alt[1]),
     le |-> IF c.alt = <<>> THEN NoData ELSE Default(Decimals(c.alt[2]), NoData),
     ce |-> Default(Decimals(c.ce), NoData),
     detail |-> XmlDetail(c)]

-----------------------------------------------------------------------------
(* Protobuf.  A number that is not set is 0, a string "", but a callsign    *)
(* None.  ev.typed has those of the submessages group, status, takv and     *)
(* precisionLocation that are there.                                        *)
NonZero(v) == IF v = "0" THEN None ELSE v
IfSet(v) == IF v = NotSet THEN None ELSE v

\* Mutant of PbAltitude: only hae tells whether there is an altitude.
PbAltitude_Hae(ev) == IF ev.hae = "0" THEN <<>> ELSE <<ev.hae, Less(NonZero(ev.le))>>
PbAltitude(ev) ==
    IF ev.hae = "0" /\ ev.le = "0" THEN <<>> ELSE <<ev.hae, Less(NonZero(ev.le))>>

Submessages == {"__group", "status", "takv", "precisionlocation"}

PbToCto(ev) ==
    LET read == DetailToAttributes(IF ev.malformed THEN <<>> ELSE ev.xmlDetail)
        typed == {tag \in DOMAIN ev.typed : tag # "status" \/ ev.typed[tag]["battery"] # ""}
    IN  [type |-> ev.type, affil |-> AffiliationOf(ev.type), dim |-> DimensionOf(ev.type),
         uid |-> ev.uid, time |-> ev.time, from |-> ev.start, to |-> ev.stale,
         how |-> IfSet(ev.how), extras |-> NoAttrs,
         alt |-> PbAltitude(ev), ce |-> Less(NonZero(ev.ce)),
         course |-> NonZero(ev.course), speed |-> NonZero(ev.speed),
         callsign |-> ev.callsign, remarks |-> None,
         detail |-> [tag \in DOMAIN read \cup typed |->
             IF tag \in DOMAIN read THEN read[tag] ELSE <<Element(tag, ev.typed[tag], None, None)>>]]

CtoToPb(c) ==
    [type |-> IF c.type = <<>> THEN <<"a", "u", "G">> ELSE c.type,
     uid |-> Default(c.uid, "uid of the CTO"), time |-> Millis(c.time),
     start |-> Millis(Default(c.from, c.time)), stale |-> Millis(Default(c.to, c.time)),
     how |-> Default(c.how, NotSet),
     hae |-> IF c.alt = <<>> THEN "0" ELSE c.alt[1],
     le |-> IF c.alt = <<>> THEN "0" ELSE Default(c.alt[2], "0"),
     ce |-> Default(c.ce, "0"),
     course |-> Default(c.course, "0"), speed |-> Default(c.speed, "0"),
     callsign |-> IF c.callsign = "" THEN None ELSE c.callsign,
     typed |-> NoAttrs, malformed |-> FALSE,
     xmlDetail |-> EmitDetail(c.detail, {"contact", "track"})]

XmlHop(c) == XmlToCto(CtoToXml(c))
PbHop(c) == PbToCto(CtoToPb(c))

-----------------------------------------------------------------------------
(* A gateway that reads what this one forwards as CoT XML has the same      *)
(* track: identity, times, callsign, remarks and speed where the CTO has    *)
(* them, what is on <event> and all of the other elements of <detail> but   *)
(* attributes with "_"; numbers to two decimals.  A type made up from       *)
(* affiliation and dimension names both.                                    *)
(* A missing altitude becomes 9999999.  Nothing more is lost, and nothing   *)
(* piles up, at the gateways behind it.                                     *)
Same(c, h, fields) == \A f \in fields : h[f] = c[f]
DetailKept(c, h, except) ==
    \A tag \in DOMAIN c.detail \ except :
        /\ tag \in DOMAIN h.detail
        /\ h.detail[tag] = [i \in DOMAIN c.detail[tag] |-> Writable(c.detail[tag][i])]

XmlKeeps(c) ==
    LET h == XmlHop(c)
    IN  /\ Same(c, h, {"time", "how", "extras"})
        /\ Same(c, h, {f \in {"callsign", "remarks"} : c[f] # None})
        /\ c.type # <<>> => Same(c, h, {"type", "affil", "dim"})
        /\ c.type = <<>> =>
               /\ h.affil = Default(c.affil, "unknown") /\ h.dim = Default(c.dim, "land")
        /\ h.from = Default(c.from, c.time) /\ h.to = Default(c.to, c.time)
        /\ \A f \in {"course", "speed", "ce"} : h[f] = Decimals(c[f]) \/ c[f] = None
        /\ h.alt = IF c.alt = <<>> THEN <<NoData, None>> ELSE <<Decimals(c.alt[1]), Decimals(c.alt[2])>>
        /\ DetailKept(c, h, {"contact", "track", "remarks"})

(* The same for CoT protobuf: numbers keep their decimals, times lose what  *)
(* is below a millisecond, and a zero comes back as unknown, an altitude of *)
(* zero only if its accuracy is not known either.  An empty how, what else  *)
(* is on <event> and remarks that are not in <detail> do not go through,    *)
(* and a made up type is of unknown identity.                               *)
PbKeeps(c) ==
    LET h == PbHop(c)
    IN  /\ h.how = IfSet(c.how)
        /\ c.callsign # "" => h.callsign = c.callsign
        /\ IF c.type # <<>> THEN Same(c, h, {"type", "affil", "dim"})
           ELSE h.affil = "unknown" /\ h.dim = "land"
        /\ h.time = Millis(c.time)
        /\ h.from = Millis(Default(c.from, c.time)) /\ h.to = Millis(Default(c.to, c.time))
        /\ \A f \in {"course", "speed", "ce"} : h[f] = NonZero(c[f])
        /\ h.alt = <<>> <=> \/ c.alt = <<>>
                            \/ c.alt[1] = "0" /\ c.alt[2] \in {None, "0"}
        /\ h.alt # <<>> => h.alt = <<c.alt[1], NonZero(c.alt[2])>>
        /\ DetailKept(c, h, {"contact", "track"})

=============================================================================
