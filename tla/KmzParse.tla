------------------------------- MODULE KmzParse -------------------------------
(***************************************************************************)
(* A KMZ file to CTOs: kmz_to_ctos of services/gateway/kmz_parser.py, with *)
(* the recognizer of labels in kmz_recognize.py and kmz_prefix_table.py.   *)
(*                                                                         *)
(* A file is what its bytes are ("kml" when the primary KML can be taken   *)
(* out of the archive and parsed, or what is in the way of that) and its   *)
(* placemarks in document order.  A placemark is a record of what the code *)
(* looks for in it:                                                        *)
(*   point, line, outer : the coordinates of that element, <<>> if missing *)
(*   inner     : the coordinates of each inner ring of its polygon         *)
(*   multi     : the recognised children of its MultiGeometry, as records  *)
(*               with these four fields                                    *)
(*   label     : "Suspected" in front, the doctrinal word the rest begins  *)
(*               with, what that word goes on with ("", "word" for further *)
(*               letters, "mark" for punctuation), the words found in it   *)
(*   hints     : "hostile" and "friendly" words of its description         *)
(*   sidc      : <<>>, or a SIDC from its ExtendedData                     *)
(* A coordinate is a name or "bad", which is no pair of numbers.  A SIDC   *)
(* is its identity character, its function code without dashes, and        *)
(* whether it has the 15 characters of one.                                *)
(***************************************************************************)
EXTENDS Selection, SequencesExt, FiniteSetsExt, TLC

Coordinates == Seq(STRING)
ShapeData ==
    [point : Coordinates, line : Coordinates, outer : Coordinates, inner : Seq(Coordinates)]
PlacemarkData ==
    [point : Coordinates, line : Coordinates, outer : Coordinates, inner : Seq(Coordinates),
     multi : Seq(ShapeData), hints : SUBSET {"hostile", "friendly"},
     label : [suspected : BOOLEAN, stem : STRING, tail : {"", "word", "mark"}, words : SUBSET STRING],
     sidc : Seq([identity : STRING, code : STRING, whole : BOOLEAN])]

\* The errors the parser looks for: zipfile.BadZipFile as the archive is opened,
\* no member that ends in .kml, ET.ParseError.
Expected == {"no zip", "no kml", "bad xml"}
\* And those it does not: NotImplementedError or UnicodeDecodeError as the archive
\* is opened; whatever zf.read raises for a member that is corrupt, encrypted or
\* compressed in another way (BadZipFile, zlib.error, EOFError, RuntimeError,
\* NotImplementedError); LookupError or ValueError of ET.fromstring for a
\* declared encoding that expat cannot use.
Unexpected == {"zip not supported", "member not readable", "encoding not supported"}
KmzFileData == [archive : {"kml"} \cup Expected \cup Unexpected, placemarks : Seq(PlacemarkData)]

NoGeometry == [type |-> "none", coordinates |-> <<>>]
Drawn(type, coordinates) == [type |-> type, coordinates |-> coordinates]
KmzParseError == "parse"    \* raised by the parser
OtherError == "escape"      \* of zipfile or ElementTree, or of the validation of a Geometry

\* KMZ files close their rings or leave that to the reader.
Closed(pts) == IF pts[1] # Last(pts) THEN Append(pts, pts[1]) ELSE pts

DrawnRings(p) == <<p.outer>> \o p.inner

\* Mutant of KmzRings: a ring of two points is taken.
KmzRings_Two(p) ==
    LET drawn == DrawnRings(p)
        usable == Selected(drawn, {i \in DOMAIN drawn : Len(drawn[i]) >= 2})
    IN  [i \in DOMAIN usable |-> Closed(usable[i])]
KmzRings(p) ==
    LET drawn == DrawnRings(p)
        usable == Selected(drawn, {i \in DOMAIN drawn : Len(drawn[i]) >= 3})
    IN  [i \in DOMAIN usable |-> Closed(usable[i])]

\* The coordinates that are parsed, in this order: the first geometry wins.
DirectGeometry(p) ==
    LET bad(pts) == "bad" \in ToSet(pts)
        rings == KmzRings(p)
    IN  IF p.point # <<>>
        THEN IF bad(p.point) THEN Drawn(KmzParseError, <<>>) ELSE Drawn("Point", <<p.point[1]>>)
        ELSE IF bad(p.line) THEN Drawn(KmzParseError, <<>>)
        ELSE IF Len(p.line) >= 2 THEN Drawn("LineString", p.line)
        ELSE IF \E pts \in ToSet(DrawnRings(p)) : bad(pts) THEN Drawn(KmzParseError, <<>>)
        ELSE IF \E ring \in ToSet(rings) : Len(ring) < 4 THEN Drawn(OtherError, <<>>)
        ELSE IF rings # <<>> THEN Drawn("Polygon", rings)
        ELSE NoGeometry

\* Of a MultiGeometry the first child counts, also when it has no geometry.
PlacemarkGeometry(p) ==
    LET own == DirectGeometry(p)
    IN  IF own = NoGeometry /\ p.multi # <<>> THEN DirectGeometry(p.multi[1]) ELSE own

-----------------------------------------------------------------------------
Affiliation == {"friend", "hostile", "neutral", "unknown", "suspect", "assumed_friend", "pending"}
AffilChar == [a \in Affiliation |->
    CASE a = "friend" -> "F" [] a = "hostile" -> "H" [] a = "neutral" -> "N"
      [] a = "unknown" -> "U" [] a = "suspect" -> "S" [] a = "assumed_friend" -> "A"
      [] a = "pending" -> "P"]

\* The function codes of the doctrinal prefixes.
PrefixTable ==
    ("PL" :> "GLP") @@ ("LDLC" :> "GLF") @@ ("LD" :> "GLL") @@ ("LOA" :> "OLAA")
    @@ ("FEBA" :> "OLF") @@ ("FLOT" :> "OLT") @@ ("AO" :> "GAG") @@ ("EA" :> "OAE")
    @@ ("AA" :> "GAA") @@ ("BP" :> "DAB") @@ ("HA" :> "OAH") @@ ("SBF" :> "OAS")
    @@ ("ATK" :> "OAK") @@ ("SP" :> "OPP") @@ ("RP" :> "OPR") @@ ("MSR" :> "OLLS")
    @@ ("ASR" :> "OLLA") @@ ("CCP" :> "OPCC") @@ ("CP" :> "OPC") @@ ("OBJ" :> "OAO")
    @@ ("TAI" :> "GPRI") @@ ("NAI" :> "GPRN") @@ ("TRP" :> "DPT") @@ ("FSCL" :> "LF")
    @@ ("CFL" :> "LC") @@ ("RFL" :> "LR") @@ ("NFL" :> "LN") @@ ("NFA" :> "AN")
    @@ ("RFA" :> "AR") @@ ("ROZ" :> "ARZ") @@ ("PZ" :> "PPZ") @@ ("LZ" :> "PPL")
    @@ ("DZ" :> "PPD")
WordTable == <<<<"checkpoint", "OPCK">>, <<"control point", "OPC">>, <<"bridge", "EBB">>,
               <<"objective", "OAO">>>>
GeometryFallback == ("Point" :> "GPP") @@ ("LineString" :> "GLG") @@ ("Polygon" :> "GAG")

\* ^BNDRY|BOUNDARY\b : the word boundary belongs to the second word only.
FunctionCode(label, type) ==
    LET word == SelectInSeq(WordTable, LAMBDA w : w[1] \in label.words)
    IN  IF label.stem \in DOMAIN PrefixTable /\ label.tail = "" THEN PrefixTable[label.stem]
        ELSE IF label.stem = "BNDRY" \/ (label.stem = "BOUNDARY" /\ label.tail # "word") THEN "GLB"
        ELSE IF label.stem = "target designator" /\ label.tail # "word" THEN "DPT"
        ELSE IF word # 0 THEN WordTable[word][2]
        ELSE IF label.stem \in {"route", "axis"} /\ label.tail # "word" THEN "OLR"
        ELSE GeometryFallback[type]

\* Mutant of BaseAffiliation: friendly words count before hostile ones.
BaseAffiliation_FriendlyFirst(hints, default) ==
    IF "friendly" \in hints THEN "friend"
    ELSE IF "hostile" \in hints THEN "hostile" ELSE default
BaseAffiliation(hints, default) ==
    IF "hostile" \in hints THEN "hostile"
    ELSE IF "friendly" \in hints THEN "friend" ELSE default

\* KMZ_DEFAULT_AFFILIATION, if it is one.
DefaultAffiliation(env) == IF env \in Affiliation THEN env ELSE "unknown"

RecognizedAffiliation(p, env) ==
    LET base == BaseAffiliation(p.hints, DefaultAffiliation(env))
    IN  IF ~p.label.suspected THEN base
        ELSE IF base = "friend" THEN "assumed_friend" ELSE "suspect"

\* The affiliation an explicit SIDC names, as a set of at most one.
ExplicitAffiliation(p) ==
    {a \in Affiliation : p.sidc # <<>> /\ p.sidc[1].whole /\ AffilChar[a] = p.sidc[1].identity}

PlacemarkToCto(p, index, env) ==
    LET geometry == PlacemarkGeometry(p)
        recognized == RecognizedAffiliation(p, env)
        explicit == ExplicitAffiliation(p)
    IN  [index |-> index, type |-> geometry.type, coordinates |-> geometry.coordinates,
         sidc |-> IF p.sidc # <<>> THEN p.sidc[1]
                  ELSE [identity |-> AffilChar[recognized],
                        code |-> FunctionCode(p.label, geometry.type), whole |-> TRUE],
         affiliation |-> IF explicit = {} THEN recognized ELSE CHOOSE a \in explicit : TRUE,
         lossy |-> (IF p.sidc = <<>> THEN {"sidc_2525c"} ELSE {})
                   \cup (IF explicit = {} THEN {"affiliation"} ELSE {})]

\* An exception of any placemark is the outcome of the file.
KmzFailure(file) ==
    LET n == SelectInSeq(file.placemarks,
                         LAMBDA p : PlacemarkGeometry(p).type \in {KmzParseError, OtherError})
    IN  IF file.archive \in Unexpected THEN OtherError
        ELSE IF file.archive \in Expected THEN KmzParseError
        ELSE IF n = 0 THEN "none" ELSE PlacemarkGeometry(file.placemarks[n]).type

KmzToCtos(file, env) ==
    LET drawable == {i \in DOMAIN file.placemarks :
                        PlacemarkGeometry(file.placemarks[i]) # NoGeometry}
        usable == Selected([i \in DOMAIN file.placemarks |-> i], drawable)
    IN  IF KmzFailure(file) # "none" THEN <<>>
        ELSE [k \in DOMAIN usable |-> PlacemarkToCto(file.placemarks[usable[k]], usable[k] - 1, env)]

-----------------------------------------------------------------------------
(* Who a graphic belongs to is never made better than the file says, unless *)
(* its own SIDC says so: words of an enemy make it hostile, or suspect if   *)
(* it is only suspected, and something suspected is at best an assumed      *)
(* friend; and where the symbol drawn and the affiliation that is filtered  *)
(* on disagree, the CTO says that the affiliation was inferred.             *)
HonestAbout(p, cto) ==
    /\ ExplicitAffiliation(p) = {} =>
           /\ "hostile" \in p.hints => cto.affiliation \in {"hostile", "suspect"}
           /\ p.label.suspected => cto.affiliation \in {"assumed_friend", "suspect"}
           /\ "affiliation" \in cto.lossy
    /\ cto.sidc.identity = AffilChar[cto.affiliation] \/ "affiliation" \in cto.lossy
    /\ "sidc_2525c" \in cto.lossy => cto.sidc.identity = AffilChar[cto.affiliation]

(* A file yields its drawable placemarks in their order, each with a        *)
(* geometry PostGIS takes, or nothing at all.  A KmzParseError is raised    *)
(* only for the errors the parser looks for and for coordinates that are no *)
(* numbers; another exception only for the errors of zipfile and            *)
(* ElementTree that it does not look for, and for a ring that its planner   *)
(* closed over three points.                                                *)
BadCoordinates(s) ==
    \E pts \in {s.point, s.line} \cup ToSet(DrawnRings(s)) : "bad" \in ToSet(pts)
ThreePointRing(pts) == Len(pts) = 3 /\ pts[1] = pts[3]
ProperGeometry(g) ==
    CASE g.type = "Point" -> Len(g.coordinates) = 1
      [] g.type = "LineString" -> Len(g.coordinates) >= 2
      [] g.type = "Polygon" ->
            \A i \in DOMAIN g.coordinates :
                LET ring == g.coordinates[i] IN Len(ring) >= 4 /\ ring[1] = Last(ring)

KmzOutcomeRight(file, env) ==
    LET ctos == KmzToCtos(file, env)
        shapes == UNION {{p} \cup ToSet(p.multi) : p \in ToSet(file.placemarks)}
    IN  /\ KmzFailure(file) = KmzParseError =>
               file.archive \in Expected \/ \E s \in shapes : BadCoordinates(s)
        /\ KmzFailure(file) = OtherError =>
               \/ file.archive \in Unexpected
               \/ \E s \in shapes : \E pts \in ToSet(DrawnRings(s)) : ThreePointRing(pts)
        /\ KmzFailure(file) # "none" => ctos = <<>>
        /\ \A i \in DOMAIN ctos : ProperGeometry(ctos[i])
        /\ \A i, j \in DOMAIN ctos : i < j => ctos[i].index < ctos[j].index

=============================================================================
