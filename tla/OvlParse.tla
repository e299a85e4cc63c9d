------------------------------- MODULE OvlParse -------------------------------
(***************************************************************************)
(* A GCCS-J OVL file to CTOs: ovl_to_ctos of services/gateway/ovl/, with   *)
(* the model of the file and the rules about SIDCs beside it.              *)
(*                                                                         *)
(* A file is its root element ("MODEL", another one, or "malformed") and   *)
(* its milbobjects in order: the identity character and the function part  *)
(* (without dashes) of the MIL_ID, the LABEL_POSITION and the POSITIONs.   *)
(* A position is a name, "" for an element without text, or "bad".  Names, *)
(* modifiers and styles are copied and left out.                           *)
(***************************************************************************)
EXTENDS Selection, SequencesExt, FiniteSetsExt

OvlObjectData ==
    [identity : STRING, code : STRING, positions : Seq(STRING), labelPosition : STRING]
OvlFileData == [root : STRING, objects : Seq(OvlObjectData)]

\* classify_affiliation: the identity characters of each of its four values,
\* in capitals or not.
OvlFriend == {"A", "F", "G", "W", "D"}
OvlHostile == {"S", "H", "M", "J", "K"}
OvlNeutral == {"N", "L"}
Capital == [a |-> "A", f |-> "F", g |-> "G", w |-> "W", d |-> "D", s |-> "S", h |-> "H",
            m |-> "M", j |-> "J", k |-> "K", n |-> "N", l |-> "L"]
ClassifyAffiliation(identity) ==
    LET char == IF identity \in DOMAIN Capital THEN Capital[identity] ELSE identity
    IN  IF char \in OvlFriend THEN "friend"
        ELSE IF char \in OvlHostile THEN "hostile"
        ELSE IF char \in OvlNeutral THEN "neutral" ELSE "unknown"

\* _FUNCTION_GEOMETRY: the function codes of each geometry class.
AreaCodes == {"GAA", "GAG", "OAF", "OAK", "OAR", "SLA", "NB", "NC", "OEB", "OFD",
              "OGB", "OGF", "BCB", "BDE"}
LinearCodes == {"GLB", "GLC", "GLP", "OLT", "OLC", "OLL", "OLI", "OLKGM", "OLAA", "OLAR",
                "OLAV", "OLAGS", "OLAGM", "OET", "OEF", "BCL"}
PointCodes == {"PY", "OFS", "OMT", "NDP", "NEB", "NEC", "GPRI"}

FunctionCodes == AreaCodes \cup LinearCodes \cup PointCodes

\* The longest prefix that has an entry decides; "none" when no prefix has.
ClassifyGeometry(code) ==
    LET known == {n \in 2 .. Len(code) : SubSeq(code, 1, n) \in FunctionCodes}
        key == SubSeq(code, 1, Max(known))
    IN  IF known = {} THEN "none"
        ELSE IF key \in AreaCodes THEN "area"
        ELSE IF key \in LinearCodes THEN "linear" ELSE "point"

InferGeometry(positions, code) ==
    IF Len(positions) <= 1 THEN "Point"
    ELSE IF Len(positions) > 2 /\ (ClassifyGeometry(code) = "area" \/ positions[1] = Last(positions))
    THEN "Polygon" ELSE "LineString"
GeometryClassOf(type) ==
    CASE type = "Point" -> "point" [] type = "LineString" -> "linear" [] type = "Polygon" -> "area"

Vertices(object) ==
    Selected(object.positions, {i \in DOMAIN object.positions : object.positions[i] # ""})

\* Mutant of OvlRing: the last vertex becomes the closing one.
OvlRing_Snap(positions) ==
    IF positions[1] = Last(positions) THEN positions
    ELSE ReplaceAt(positions, Len(positions), positions[1])
OvlRing(positions) ==
    IF positions[1] = Last(positions) THEN positions ELSE Append(positions, positions[1])

\* Geometry(**d["geometry"]) raises for a point of none and a ring of three.
ObjectIsValid(object) ==
    LET vertices == Vertices(object)
    IN  /\ vertices # <<>>
        /\ InferGeometry(vertices, object.code) = "Polygon" => Len(OvlRing(vertices)) >= 4

ObjectToCto(object, index) ==
    LET vertices == Vertices(object)
        type == InferGeometry(vertices, object.code)
        class == ClassifyGeometry(object.code)
    IN  [index |-> index, type |-> type,
         coordinates |-> IF type = "Polygon" THEN <<OvlRing(vertices)>> ELSE vertices,
         class |-> class, conflict |-> class \notin {"none", GeometryClassOf(type)},
         affiliation |-> ClassifyAffiliation(object.identity)]

OvlFailure(file) ==
    LET objects == ToSet(file.objects)
    IN  IF file.root # "MODEL"
           \/ \E o \in objects : "bad" \in ToSet(o.positions) \cup {o.labelPosition} THEN "parse"
        ELSE IF \E o \in objects : ~ObjectIsValid(o) THEN "escape"
        ELSE "none"

OvlToCtos(file) ==
    IF OvlFailure(file) # "none" THEN <<>>
    ELSE [i \in DOMAIN file.objects |-> ObjectToCto(file.objects[i], i - 1)]

-----------------------------------------------------------------------------
(* What was drawn is what is stored: the vertices in their order, and only  *)
(* a ring gets one more, its first.  A symbol is stored as another shape    *)
(* than its code means only with the conflict flagged, and the code means   *)
(* what the longest entry it begins with means.                             *)
EntryFor(code) ==
    {key \in FunctionCodes :
        /\ IsPrefix(key, code)
        /\ \A other \in FunctionCodes : IsPrefix(other, code) => Len(other) <= Len(key)}

DrawnKept(object, cto) ==
    LET drawn == Vertices(object)
        stored == IF cto.type = "Polygon" THEN cto.coordinates[1] ELSE cto.coordinates
    IN  /\ \/ stored = drawn
           \/ /\ cto.type = "Polygon"
              /\ stored = Append(drawn, drawn[1])
        /\ cto.conflict <=> \E key \in EntryFor(object.code) :
               \/ key \in AreaCodes /\ cto.type # "Polygon"
               \/ key \in LinearCodes /\ cto.type # "LineString"
               \/ key \in PointCodes /\ cto.type # "Point"

(* A file yields every object in order, or nothing at all; the exception    *)
(* that is not an OvlParseError is raised for an object without vertices    *)
(* and for three vertices of which the last is the first, and for nothing   *)
(* else.  Every ring that is stored is one that PostGIS takes.              *)
OvlOutcomeRight(file) ==
    LET ctos == OvlToCtos(file)
    IN  /\ OvlFailure(file) = "escape" =>
               \E o \in ToSet(file.objects) :
                   LET v == Vertices(o) IN v = <<>> \/ (Len(v) = 3 /\ v[1] = v[3])
        /\ OvlFailure(file) = "none" => Len(ctos) = Len(file.objects)
        /\ \A i \in DOMAIN ctos : ctos[i].index = i - 1
        /\ \A i \in DOMAIN ctos : ctos[i].type = "Polygon" =>
               LET ring == ctos[i].coordinates[1] IN Len(ring) >= 4 /\ ring[1] = Last(ring)

=============================================================================
