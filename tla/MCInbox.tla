------------------------------- MODULE MCInbox -------------------------------
(* Instances of Inbox for TLC: what the ingest of a file comes to, and how  *)
(* many CTOs it has, is what the parser (KmzParse) makes of the file.       *)
EXTENDS Inbox, TLC

Kmz == INSTANCE KmzParse

KmzFate(file) ==
    LET failure == Kmz!KmzFailure(file) IN IF failure = "none" THEN "good" ELSE failure
KmzCount(file) == Len(Kmz!KmzToCtos(file, "unknown"))

Placemark(point, outer) ==
    [point |-> point, line |-> <<>>, outer |-> outer, inner |-> <<>>, multi |-> <<>>,
     label |-> [suspected |-> FALSE, stem |-> "PL", tail |-> "", words |-> {}],
     hints |-> {}, sidc |-> <<>>]
Kml(placemarks) == [archive |-> "kml", placemarks |-> placemarks]
Point == Placemark(<<"a">>, <<>>)
Ring(pts) == Placemark(<<>>, pts)

\* A file without the signature, and under the name behind it a good file and
\* one with a ring that its planner closed over three points.
MCNameOf == <<1, 2, 2>>
MCFate == <<"sniff", "good", "escape">>
MCCountOf == <<0, 2, 0>>
MCKmz == (2 :> Kml(<<Point, Ring(<<"a", "b", "c">>)>>))
    @@ (3 :> Kml(<<Point, Ring(<<"a", "b", "a">>)>>))

\* Such a ring in the file that comes first, and a good file behind it.
MCNameOfPoison == <<1, 2>>
MCFatePoison == <<"escape", "good">>
MCCountOfPoison == <<0, 1>>
MCKmzPoison == (1 :> Kml(<<Ring(<<"a", "b", "a">>)>>)) @@ (2 :> Kml(<<Point>>))

ASSUME FatesAreParsed ==
    /\ \A f \in DOMAIN MCKmz :
           MCFate[f] = KmzFate(MCKmz[f]) /\ MCCountOf[f] = KmzCount(MCKmz[f])
    /\ \A f \in DOMAIN MCKmzPoison :
           MCFatePoison[f] = KmzFate(MCKmzPoison[f]) /\ MCCountOfPoison[f] = KmzCount(MCKmzPoison[f])
=============================================================================
