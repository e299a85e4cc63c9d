----------------------------- MODULE FormatProofs -----------------------------
(* What holds of KmzParse and OvlParse for every file and of CotConvert for *)
(* every message; with StreamProofs, all that Formats states.               *)
EXTENDS Formats, StreamProofs, FunctionTheorems

-----------------------------------------------------------------------------
(* A selection has elements of the list, from places that are let through,  *)
(* in the order of these places.                                            *)

\* What the loop has appended when it has seen n elements, for all n.
Loops(f, s, I, N) ==
    f = [n \in 0 .. N |-> IF n = 0 THEN <<>>
                          ELSE IF n \in I THEN Append(f[n - 1], s[n]) ELSE f[n - 1]]

\* The loop is well defined: were it not for some number of rounds, take the
\* least one, and go one round further than the loop before it.
LEMMA LoopExists ==
    ASSUME NEW s, NEW I, NEW N \in Nat
    PROVE  \E f : Loops(f, s, I, N)
  <1> DEFINE Body(f, n) == IF n = 0 THEN <<>>
                           ELSE IF n \in I THEN Append(f[n - 1], s[n]) ELSE f[n - 1]
             Runs(k, f) == f = [n \in 0 .. k |-> Body(f, n)]
             Bad == {k \in Nat : ~ \E f : Runs(k, f)}
  <1>1. ASSUME NEW k \in Bad, \A j \in Bad : k <= j PROVE FALSE
    <2>1. k \in Nat
      OBVIOUS
    <2>2. CASE k = 0
      <3>1. Runs(0, [n \in 0 .. 0 |-> <<>>])
        OBVIOUS
      <3>2. QED
        BY <2>2, <3>1
    <2>3. CASE k # 0
      <3>1. k - 1 \in Nat /\ k - 1 \notin Bad
        <4> HIDE DEF Bad
        <4> QED
          BY <1>1, <2>1, <2>3
      <3>2. PICK f : Runs(k - 1, f)
        BY <3>1
      <3> DEFINE g == [n \in 0 .. k |-> Body(f, n)]
      <3>3. ASSUME NEW n \in 0 .. k PROVE Body(f, n) = Body(g, n)
        <4>1. CASE n = 0
          BY <4>1
        <4>2. CASE n # 0
          <5>1. n - 1 \in 0 .. k - 1 /\ n - 1 \in 0 .. k
            BY <2>1, <3>3, <4>2
          <5>2. g[n - 1] = Body(f, n - 1)
            BY <5>1
          <5>3. f[n - 1] = Body(f, n - 1)
            BY <3>2, <5>1
          <5>4. QED
            BY <4>2, <5>2, <5>3
        <4>3. QED
          BY <4>1, <4>2
      <3>4. Runs(k, g)
        BY <3>3
      <3>5. QED
        BY <3>4
    <2>4. QED
      BY <2>2, <2>3
  <1>2. Bad = {}
    <2>1. Bad \in SUBSET Nat
      OBVIOUS
    <2> HIDE DEF Bad
    <2>2. QED
      BY <1>1, <2>1, SmallestElement
  <1>3. \E f : Runs(N, f)
    BY <1>2
  <1>4. QED
    BY <1>3 DEF Loops

\* The list q has elements of s from the places h, which are in I, in order.
Takes(q, s, I, h) ==
    /\ h \in [1 .. Len(q) -> I \cap (1 .. Len(s))]
    /\ \A k \in 1 .. Len(q) : q[k] = s[h[k]]
    /\ \A j, k \in 1 .. Len(q) : j < k => h[j] < h[k]

LEMMA SelectedTakes ==
    ASSUME NEW T, NEW s \in Seq(T), NEW I
    PROVE  Selected(s, I) \in Seq(T) /\ \E h : Takes(Selected(s, I), s, I, h)
  <1> DEFINE N == Len(s)
             upTo == CHOOSE f : Loops(f, s, I, N)
             Right(n, h) == /\ upTo[n] \in Seq(T)
                            /\ Takes(upTo[n], s, I \cap (1 .. n), h)
             Bad == {n \in 0 .. N : ~ \E h : Right(n, h)}
  <1>1. N \in Nat
    OBVIOUS
  <1>2. Loops(upTo, s, I, N)
    BY <1>1, LoopExists
  <1>3. Selected(s, I) = upTo[N]
    BY SMTT(20) DEF Selected, Loops
  <1>4. \A n \in 0 .. N : upTo[n] = IF n = 0 THEN <<>>
                                    ELSE IF n \in I THEN Append(upTo[n - 1], s[n]) ELSE upTo[n - 1]
    BY <1>2 DEF Loops
  <1> HIDE DEF upTo
  <1>5. ASSUME NEW n \in Bad, \A m \in Bad : n <= m PROVE FALSE
    <2>1. n \in 0 .. N /\ ~ \E h : Right(n, h)
      OBVIOUS
    <2>2. CASE n = 0
      <3>1. upTo[0] = <<>>
        BY <1>1, <1>4
      <3>2. Right(0, [k \in 1 .. 0 |-> 0])
        BY <3>1 DEF Takes
      <3>3. QED
        BY <2>1, <2>2, <3>2
    <2>3. CASE n # 0
      <3>1. n - 1 \in 0 .. N /\ n \in 1 .. N
        BY <1>1, <2>1, <2>3
      <3>2. n - 1 \notin Bad
        <4> HIDE DEF Bad
        <4> QED
          BY <1>1, <1>5, <2>1
      <3>3. PICK h : Right(n - 1, h)
        BY <3>1, <3>2
      <3> DEFINE q == upTo[n - 1]
      <3>4. /\ q \in Seq(T) /\ Len(q) \in Nat
            /\ h \in [1 .. Len(q) -> I \cap (1 .. n - 1) \cap (1 .. N)]
            /\ \A k \in 1 .. Len(q) : q[k] = s[h[k]]
            /\ \A j, k \in 1 .. Len(q) : j < k => h[j] < h[k]
        BY <3>3 DEF Takes
      <3>5. CASE n \notin I
        <4>1. upTo[n] = q
          BY <1>4, <2>1, <2>3, <3>5
        <4>2. h \in [1 .. Len(q) -> I \cap (1 .. n) \cap (1 .. N)]
          <5>1. \A i \in 1 .. n - 1 : i \in 1 .. n
            BY <2>1
          <5>2. QED
            BY <3>4, <5>1
        <4>3. Right(n, h)
          BY <3>4, <4>1, <4>2 DEF Takes
        <4>4. QED
          BY <2>1, <4>3
      <3>6. CASE n \in I
        <4> DEFINE u == Append(q, s[n])
                   g == [k \in 1 .. Len(u) |-> IF k = Len(u) THEN n ELSE h[k]]
        <4>1. upTo[n] = u
          BY <1>4, <2>1, <2>3, <3>6
        <4>2. /\ u \in Seq(T) /\ Len(u) = Len(q) + 1 /\ u[Len(q) + 1] = s[n]
              /\ \A k \in 1 .. Len(q) : u[k] = q[k]
          <5>1. s[n] \in T
            BY <3>1
          <5>2. q \in Seq(T)
            BY <3>4
          <5> HIDE DEF q
          <5>3. QED
            BY <5>1, <5>2
        <4> HIDE DEF u, q
        <4>3. \A k \in 1 .. Len(u) : k \in 1 .. Len(q) \/ k = Len(u)
          BY <3>4, <4>2
        <4>4. \A k \in 1 .. Len(q) : /\ k \in 1 .. Len(u) /\ k # Len(u)
                                     /\ g[k] = h[k] /\ h[k] \in I \cap (1 .. n - 1) \cap (1 .. N)
          <5>1. \A k \in 1 .. Len(q) : k \in 1 .. Len(u) /\ k # Len(u)
            BY <3>4, <4>2
          <5>2. \A k \in 1 .. Len(q) : g[k] = h[k]
            BY <5>1
          <5>3. \A k \in 1 .. Len(q) : h[k] \in I \cap (1 .. n - 1) \cap (1 .. N)
            BY <3>4
          <5>4. QED
            BY <5>1, <5>2, <5>3
        <4>5. Len(u) \in 1 .. Len(u) /\ g[Len(u)] = n
          BY <3>4, <4>2
        <4> HIDE DEF g
        <4>6. \A i \in 1 .. n - 1 : i \in 1 .. n /\ i < n
          BY <2>1
        <4>7. \A k \in 1 .. Len(u) : g[k] \in I \cap (1 .. n) \cap (1 .. N)
          BY <3>1, <3>6, <4>3, <4>4, <4>5, <4>6
        <4>8. g \in [1 .. Len(u) -> I \cap (1 .. n) \cap (1 .. N)]
          BY <4>7 DEF g
        <4>9. \A k \in 1 .. Len(u) : u[k] = s[g[k]]
          BY <3>4, <4>2, <4>3, <4>4, <4>5
        <4>10. ASSUME NEW j \in 1 .. Len(u), NEW k \in 1 .. Len(u), j < k
               PROVE  g[j] < g[k]
          <5>1. j \in 1 .. Len(q)
            BY <3>4, <4>2, <4>10
          <5>2. CASE k \in 1 .. Len(q)
            BY <3>4, <4>4, <4>10, <5>1, <5>2
          <5>3. CASE k = Len(u)
            BY <4>4, <4>5, <4>6, <5>1, <5>3
          <5>4. QED
            BY <4>3, <5>2, <5>3
        <4>11. Right(n, g)
          BY <4>1, <4>2, <4>8, <4>9, <4>10 DEF Takes
        <4>12. QED
          BY <2>1, <4>11
      <3>7. QED
        BY <3>5, <3>6
    <2>4. QED
      BY <2>2, <2>3
  <1>6. Bad = {}
    <2>1. Bad \in SUBSET Nat
      BY <1>1
    <2> HIDE DEF Bad
    <2>2. QED
      BY <1>5, <2>1, SmallestElement
  <1>7. PICK h : Right(N, h)
    <2>1. N \in 0 .. N
      BY <1>1
    <2> HIDE DEF N, Right
    <2>2. QED
      BY <1>6, <2>1
  <1>8. I \cap (1 .. N) \cap (1 .. N) = I \cap (1 .. N)
    OBVIOUS
  <1>9. Takes(Selected(s, I), s, I, h)
    BY <1>3, <1>7, <1>8 DEF Takes
  <1>10. QED
    BY <1>3, <1>7, <1>9

-----------------------------------------------------------------------------
(* What a placemark's geometry is: none, an exception, or a proper one.     *)

\* The rings that are taken are rings drawn, of three points or more, closed.
LEMMA RingsAreClosed ==
    ASSUME NEW p, DrawnRings(p) \in Seq(Coordinates), NEW i \in DOMAIN KmzRings(p)
    PROVE  /\ Len(KmzRings(p)[i]) \in Nat
           /\ KmzRings(p)[i][1] = Last(KmzRings(p)[i])
           /\ Len(KmzRings(p)[i]) < 4 =>
                  \E pts \in ToSet(DrawnRings(p)) : ThreePointRing(pts)
  <1> DEFINE drawn == DrawnRings(p)
             I == {k \in DOMAIN drawn : Len(drawn[k]) >= 3}
             usable == Selected(drawn, I)
  <1>1. drawn \in Seq(Coordinates)
    OBVIOUS
  <1>2. PICK h : Takes(usable, drawn, I, h)
    <2> HIDE DEF I, drawn
    <2> QED
      BY <1>1, SelectedTakes
  <1>3. usable \in Seq(Coordinates)
    <2> HIDE DEF I, drawn
    <2> QED
      BY <1>1, SelectedTakes
  <1>4. KmzRings(p) = [k \in DOMAIN usable |-> Closed(usable[k])]
    BY DEF KmzRings
  <1>5. i \in 1 .. Len(usable) /\ i \in DOMAIN usable
    BY <1>3, <1>4
  <1> DEFINE pts == usable[i]
  <1>6. /\ h[i] \in DOMAIN drawn /\ Len(drawn[h[i]]) >= 3 /\ pts = drawn[h[i]]
    <2> HIDE DEF drawn, usable
    <2> QED
      BY <1>2, <1>5 DEF Takes
  <1>7. pts \in Seq(STRING) /\ Len(pts) \in Nat /\ Len(pts) >= 3 /\ pts \in ToSet(drawn)
    <2>1. pts \in Coordinates
      <3> HIDE DEF usable
      <3> QED
        BY <1>3, <1>5
    <2> HIDE DEF drawn, usable
    <2>2. QED
      BY <2>1, <1>6 DEF ToSet, Coordinates
  <1>8. KmzRings(p)[i] = Closed(pts)
    <2> HIDE DEF usable
    <2> QED
      BY <1>4, <1>5
  <1> HIDE DEF usable, drawn, pts
  <1>9. CASE pts[1] # Last(pts)
    <2>1. Closed(pts) = Append(pts, pts[1])
      BY <1>9 DEF Closed
    <2>2. /\ Len(Append(pts, pts[1])) = Len(pts) + 1 /\ Append(pts, pts[1])[1] = pts[1]
          /\ Append(pts, pts[1])[Len(pts) + 1] = pts[1]
      BY <1>7
    <2>3. QED
      BY <1>7, <1>8, <2>1, <2>2 DEF Last
  <1>10. CASE pts[1] = Last(pts)
    <2>1. Closed(pts) = pts
      BY <1>10 DEF Closed
    <2>2. Len(pts) < 4 => ThreePointRing(pts)
      <3>1. \A n \in Nat : n >= 3 /\ n < 4 => n = 3
        OBVIOUS
      <3>2. QED
        BY <1>7, <3>1, <1>10 DEF ThreePointRing, Last
    <2>3. QED
      BY <1>7, <1>8, <1>10, <2>1, <2>2 DEF drawn
  <1>11. QED
    BY <1>9, <1>10

\* A geometry, as far as the properties tell them apart.
GeometryRight(g, p) ==
    \/ g = NoGeometry
    \/ g.type = KmzParseError /\ BadCoordinates(p)
    \/ /\ g.type = OtherError
       /\ \E pts \in ToSet(DrawnRings(p)) : ThreePointRing(pts)
    \/ g.type \in {"Point", "LineString", "Polygon"} /\ ProperGeometry(g)

LEMMA DirectRight ==
    ASSUME NEW p, DrawnRings(p) \in Seq(Coordinates)
    PROVE  GeometryRight(DirectGeometry(p), p)
  <1> DEFINE rings == KmzRings(p)
             g == DirectGeometry(p)
  <1>1. CASE g = Drawn(KmzParseError, <<>>) /\ BadCoordinates(p)
    BY <1>1 DEF GeometryRight, Drawn
  <1>2. CASE g = Drawn("Point", <<p.point[1]>>)
    BY <1>2 DEF GeometryRight, Drawn, ProperGeometry
  <1>3. CASE g = Drawn("LineString", p.line) /\ Len(p.line) >= 2
    BY <1>3 DEF GeometryRight, Drawn, ProperGeometry
  <1>4. CASE g = Drawn(OtherError, <<>>) /\ \E ring \in ToSet(rings) : Len(ring) < 4
    <2>1. \E pts \in ToSet(DrawnRings(p)) : ThreePointRing(pts)
      BY <1>4, RingsAreClosed DEF ToSet
    <2>2. QED
      BY <1>4, <2>1 DEF GeometryRight, Drawn
  <1>5. CASE g = Drawn("Polygon", rings) /\ ~ \E ring \in ToSet(rings) : Len(ring) < 4
    <2>1. ASSUME NEW i \in DOMAIN rings
          PROVE  Len(rings[i]) >= 4 /\ rings[i][1] = Last(rings[i])
      <3>1. ~ (Len(rings[i]) < 4)
        BY <1>5 DEF ToSet
      <3>2. QED
        BY <3>1, RingsAreClosed
    <2> HIDE DEF rings
    <2>2. g.type = "Polygon" /\ g.coordinates = rings
      BY <1>5 DEF Drawn
    <2>3. ProperGeometry(g)
      BY <2>1, <2>2 DEF ProperGeometry
    <2>4. QED
      BY <2>2, <2>3 DEF GeometryRight
  <1>6. CASE g = NoGeometry
    BY <1>6 DEF GeometryRight
  <1>7. QED
    BY <1>1, <1>2, <1>3, <1>4, <1>5, <1>6 DEF DirectGeometry, BadCoordinates

\* Of a placemark in a file; the ring is its own or one of the child's.
LEMMA PlacemarkRight ==
    ASSUME NEW p \in PlacemarkData
    PROVE  \E s \in {p} \cup ToSet(p.multi) : GeometryRight(PlacemarkGeometry(p), s)
  <1>1. \A s \in {p} \cup ToSet(p.multi) : DrawnRings(s) \in Seq(Coordinates)
    <2>1. DrawnRings(p) \in Seq(Coordinates)
      <3>1. p.outer \in Coordinates /\ p.inner \in Seq(Coordinates)
        BY DEF PlacemarkData
      <3>2. QED
        BY <3>1 DEF DrawnRings
    <2>2. p.multi \in Seq(ShapeData)
      BY DEF PlacemarkData
    <2>3. ASSUME NEW s \in ToSet(p.multi) PROVE DrawnRings(s) \in Seq(Coordinates)
      <3>1. s \in ShapeData
        BY <2>2 DEF ToSet
      <3>2. QED
        BY <3>1 DEF DrawnRings, ShapeData
    <2>4. QED
      BY <2>1, <2>3
  <1>2. CASE PlacemarkGeometry(p) = DirectGeometry(p)
    BY <1>1, <1>2, DirectRight
  <1>3. CASE p.multi # <<>> /\ PlacemarkGeometry(p) = DirectGeometry(p.multi[1])
    <2>1. p.multi \in Seq(ShapeData)
      BY DEF PlacemarkData
    <2>2. p.multi[1] \in ToSet(p.multi)
      BY <1>3, <2>1 DEF ToSet
    <2>3. QED
      BY <1>1, <1>3, <2>2, DirectRight
  <1>4. QED
    BY <1>2, <1>3 DEF PlacemarkGeometry

-----------------------------------------------------------------------------
(* What a KMZ file comes to.                                                *)

\* The exception of a file is that of one of its placemarks, or of its archive.
LEMMA FailureCases ==
    ASSUME NEW file \in KmzFileData
    PROVE  \/ file.archive \in Unexpected /\ KmzFailure(file) = OtherError
           \/ file.archive \in Expected /\ KmzFailure(file) = KmzParseError
           \/ \E i \in DOMAIN file.placemarks :
                  /\ KmzFailure(file) \in {KmzParseError, OtherError}
                  /\ PlacemarkGeometry(file.placemarks[i]).type = KmzFailure(file)
           \/ /\ KmzFailure(file) = "none"
              /\ \A i \in DOMAIN file.placemarks :
                     PlacemarkGeometry(file.placemarks[i]).type \notin {KmzParseError, OtherError}
  <1> DEFINE errors == {KmzParseError, OtherError}
             I == {i \in 1 .. Len(file.placemarks) :
                      PlacemarkGeometry(file.placemarks[i]).type \in errors}
  <1>1. file.placemarks \in Seq(PlacemarkData)
    BY DEF KmzFileData
  <1>2. DOMAIN file.placemarks = 1 .. Len(file.placemarks) /\ Len(file.placemarks) \in Nat
    BY <1>1
  <1>3. KmzFailure(file) =
            IF file.archive \in Unexpected THEN OtherError
            ELSE IF file.archive \in Expected THEN KmzParseError
            ELSE IF I = {} THEN "none" ELSE PlacemarkGeometry(file.placemarks[Min(I)]).type
    <2>1. I # {} => Min(I) \in I
      <3>1. I \in SUBSET Nat
        BY <1>2
      <3> HIDE DEF I
      <3>2. QED
        BY <3>1, SmallestElement DEF Min
    <2>2. Min(I) \in I => Min(I) # 0
      BY <1>2
    <2>3. QED
      BY <2>1, <2>2 DEF KmzFailure, SelectInSeq
  <1>4. CASE file.archive \notin Expected \cup Unexpected /\ I # {}
    <2>1. PICK i \in I : KmzFailure(file) = PlacemarkGeometry(file.placemarks[i]).type
      <3>1. Min(I) \in I
        <4>1. I \in SUBSET Nat
          BY <1>2
        <4> HIDE DEF I
        <4>2. QED
          BY <1>4, <4>1, SmallestElement DEF Min
      <3> HIDE DEF I
      <3>2. QED
        BY <1>3, <1>4, <3>1
    <2>2. QED
      BY <1>2, <2>1
  <1>5. CASE file.archive \notin Expected \cup Unexpected /\ I = {}
    BY <1>2, <1>3, <1>5
  <1>6. CASE file.archive \in Expected \cup Unexpected
    <2>1. Expected \cap Unexpected = {}
      BY DEF Expected, Unexpected
    <2>2. QED
      BY <1>3, <1>6, <2>1
  <1>7. QED
    BY <1>4, <1>5, <1>6

\* Every CTO is that of a placemark with a geometry, in the order of the file.
LEMMA CtosOfPlacemarks ==
    ASSUME NEW file \in KmzFileData, NEW env, KmzFailure(file) = "none"
    PROVE  LET ctos == KmzToCtos(file, env)
               places == DOMAIN file.placemarks
           IN  /\ DOMAIN ctos = 1 .. Len(ctos)
               /\ \A i \in DOMAIN ctos :
                      /\ ctos[i].index + 1 \in places /\ ctos[i].index \in Nat
                      /\ PlacemarkGeometry(file.placemarks[ctos[i].index + 1]) # NoGeometry
                      /\ ctos[i] = PlacemarkToCto(file.placemarks[ctos[i].index + 1],
                                                  ctos[i].index, env)
               /\ \A i, j \in DOMAIN ctos : i < j => ctos[i].index < ctos[j].index
  <1> DEFINE places == [i \in DOMAIN file.placemarks |-> i]
             I == {i \in DOMAIN file.placemarks : PlacemarkGeometry(file.placemarks[i]) # NoGeometry}
             usable == Selected(places, I)
             ctos == KmzToCtos(file, env)
  <1>1. /\ DOMAIN file.placemarks = 1 .. Len(file.placemarks) /\ Len(file.placemarks) \in Nat
        /\ places \in Seq(Nat) /\ Len(places) = Len(file.placemarks)
        /\ \A i \in 1 .. Len(places) : places[i] = i
    <2>1. file.placemarks \in Seq(PlacemarkData)
      BY DEF KmzFileData
    <2>2. DOMAIN file.placemarks = 1 .. Len(file.placemarks) /\ Len(file.placemarks) \in Nat
      BY <2>1
    <2>3. places = [i \in 1 .. Len(file.placemarks) |-> i]
      BY <2>2
    <2>4. QED
      BY <2>2, <2>3
  <1>2. usable \in Seq(Nat) /\ \E h : Takes(usable, places, I, h)
    <2> HIDE DEF places, I
    <2> QED
      BY <1>1, SelectedTakes
  <1>3. PICK h : Takes(usable, places, I, h)
    BY <1>2
  <1>4. /\ \A k \in 1 .. Len(usable) : usable[k] = h[k] /\ usable[k] \in I
        /\ \A j, k \in 1 .. Len(usable) : j < k => usable[j] < usable[k]
    <2> HIDE DEF places, I, usable
    <2> QED
      BY <1>1, <1>3 DEF Takes
  <1>5. ctos = [k \in DOMAIN usable |-> PlacemarkToCto(file.placemarks[usable[k]], usable[k] - 1, env)]
    BY DEF KmzToCtos
  <1> HIDE DEF usable, places, ctos
  <1>6. Len(usable) \in Nat /\ DOMAIN usable = 1 .. Len(usable)
    BY <1>2
  <1>7. DOMAIN ctos = 1 .. Len(usable) /\ Len(ctos) = Len(usable)
    BY <1>5, <1>6
  <1>8. ASSUME NEW i \in 1 .. Len(usable)
        PROVE  /\ usable[i] \in DOMAIN file.placemarks /\ usable[i] \in Nat \ {0}
               /\ PlacemarkGeometry(file.placemarks[usable[i]]) # NoGeometry
               /\ ctos[i].index = usable[i] - 1
               /\ ctos[i] = PlacemarkToCto(file.placemarks[usable[i]], usable[i] - 1, env)
    <2>1. usable[i] \in I
      BY <1>4
    <2>2. ctos[i] = PlacemarkToCto(file.placemarks[usable[i]], usable[i] - 1, env)
      BY <1>5, <1>6
    <2>3. \A p, n : PlacemarkToCto(p, n, env).index = n
      BY DEF PlacemarkToCto
    <2>4. QED
      BY <1>1, <2>1, <2>2, <2>3
  <1> HIDE DEF I
  <1>9. ASSUME NEW i \in DOMAIN ctos
        PROVE  /\ ctos[i].index + 1 = usable[i] /\ ctos[i].index \in Nat
    <2>1. ctos[i].index = usable[i] - 1 /\ usable[i] \in Nat \ {0}
      BY <1>7, <1>8
    <2>2. QED
      BY <2>1
  <1>10. \A i \in DOMAIN ctos : ctos[i].index + 1 \in DOMAIN file.placemarks
    BY <1>7, <1>8, <1>9
  <1>11. \A i, j \in DOMAIN ctos : i < j => ctos[i].index < ctos[j].index
    <2>1. \A i \in DOMAIN ctos : ctos[i].index = usable[i] - 1 /\ usable[i] \in Nat
      BY <1>7, <1>8
    <2>2. QED
      BY <1>4, <1>7, <2>1
  <1>12. \A i \in DOMAIN ctos :
            /\ PlacemarkGeometry(file.placemarks[ctos[i].index + 1]) # NoGeometry
            /\ ctos[i] = PlacemarkToCto(file.placemarks[ctos[i].index + 1], ctos[i].index, env)
    BY <1>7, <1>8, <1>9
  <1>13. QED
    BY <1>7, <1>9, <1>10, <1>11, <1>12 DEF ctos

LEMMA KmzOutcome ==
    ASSUME NEW file \in KmzFileData, NEW env
    PROVE  KmzOutcomeRight(file, env)
  <1> DEFINE ctos == KmzToCtos(file, env)
             shapes == UNION {{p} \cup ToSet(p.multi) : p \in ToSet(file.placemarks)}
  <1>1. ASSUME NEW i \in DOMAIN file.placemarks
        PROVE  /\ file.placemarks[i] \in PlacemarkData
               /\ \E s \in shapes : GeometryRight(PlacemarkGeometry(file.placemarks[i]), s)
    <2>1. file.placemarks[i] \in PlacemarkData /\ file.placemarks[i] \in ToSet(file.placemarks)
      BY DEF KmzFileData, ToSet
    <2>2. QED
      BY <2>1, PlacemarkRight
  <1> HIDE DEF shapes
  <1>2. /\ KmzFailure(file) = KmzParseError =>
               file.archive \in Expected \/ \E s \in shapes : BadCoordinates(s)
        /\ KmzFailure(file) = OtherError =>
               \/ file.archive \in Unexpected
               \/ \E s \in shapes : \E pts \in ToSet(DrawnRings(s)) : ThreePointRing(pts)
    <2>1. ASSUME NEW i \in DOMAIN file.placemarks,
                 PlacemarkGeometry(file.placemarks[i]).type = KmzParseError
          PROVE  \E s \in shapes : BadCoordinates(s)
      BY <1>1, <2>1 DEF GeometryRight, NoGeometry, OtherError, KmzParseError
    <2>2. ASSUME NEW i \in DOMAIN file.placemarks,
                 PlacemarkGeometry(file.placemarks[i]).type = OtherError
          PROVE  \E s \in shapes : \E pts \in ToSet(DrawnRings(s)) : ThreePointRing(pts)
      BY <1>1, <2>2 DEF GeometryRight, NoGeometry, OtherError, KmzParseError
    <2>3. KmzParseError # OtherError /\ KmzParseError # "none" /\ OtherError # "none"
      BY DEF OtherError, KmzParseError
    <2>4. QED
      BY <2>1, <2>2, <2>3, FailureCases
  <1>3. KmzFailure(file) # "none" => ctos = <<>>
    BY DEF KmzToCtos
  <1>4. CASE KmzFailure(file) # "none"
    <2>1. ctos = <<>>
      BY <1>3, <1>4
    <2>2. \A i \in DOMAIN ctos : FALSE
      BY <2>1
    <2> HIDE DEF ctos
    <2>3. QED
      BY <1>2, <2>1, <2>2 DEF KmzOutcomeRight, shapes, ctos
  <1>5. CASE KmzFailure(file) = "none"
    <2>1. /\ \A i \in DOMAIN ctos :
                 /\ ctos[i].index + 1 \in DOMAIN file.placemarks
                 /\ PlacemarkGeometry(file.placemarks[ctos[i].index + 1]) # NoGeometry
                 /\ ctos[i] = PlacemarkToCto(file.placemarks[ctos[i].index + 1],
                                             ctos[i].index, env)
          /\ \A i, j \in DOMAIN ctos : i < j => ctos[i].index < ctos[j].index
      BY <1>5, CtosOfPlacemarks
    <2> HIDE DEF ctos
    <2>2. ASSUME NEW i \in DOMAIN ctos PROVE ProperGeometry(ctos[i])
      <3> DEFINE n == ctos[i].index + 1
                 g == PlacemarkGeometry(file.placemarks[n])
      <3>1. g # NoGeometry /\ g.type \notin {KmzParseError, OtherError}
        BY <1>5, <2>1, FailureCases DEF OtherError, KmzParseError
      <3>2. g.type \in {"Point", "LineString", "Polygon"} /\ ProperGeometry(g)
        <4>1. \E s : GeometryRight(g, s)
          BY <1>1, <2>1
        <4> HIDE DEF g
        <4>2. QED
          BY <3>1, <4>1 DEF GeometryRight
      <3>3. ctos[i].type = g.type /\ ctos[i].coordinates = g.coordinates
        BY <2>1 DEF PlacemarkToCto
      <3> HIDE DEF g
      <3>4. QED
        BY <3>2, <3>3 DEF ProperGeometry
    <2>3. QED
      BY <1>2, <1>5, <2>1, <2>2 DEF KmzOutcomeRight, shapes, ctos
  <1>6. QED
    BY <1>4, <1>5

\* Whatever the placemark, its CTO is honest about who it belongs to.
LEMMA PlacemarkHonest ==
    ASSUME NEW p, NEW index, NEW env
    PROVE  HonestAbout(p, PlacemarkToCto(p, index, env))
  <1> DEFINE cto == PlacemarkToCto(p, index, env)
             recognized == RecognizedAffiliation(p, env)
             explicit == ExplicitAffiliation(p)
  <1>1. /\ "hostile" \in p.hints => recognized \in {"hostile", "suspect"}
        /\ p.label.suspected => recognized \in {"assumed_friend", "suspect"}
    BY DEF RecognizedAffiliation, BaseAffiliation
  <1>2. /\ cto.affiliation = IF explicit = {} THEN recognized ELSE CHOOSE a \in explicit : TRUE
        /\ p.sidc # <<>> => cto.sidc = p.sidc[1]
        /\ p.sidc = <<>> => cto.sidc.identity = AffilChar[recognized]
        /\ "affiliation" \in cto.lossy <=> explicit = {}
        /\ "sidc_2525c" \in cto.lossy <=> p.sidc = <<>>
    BY DEF PlacemarkToCto
  <1>3. explicit # {} =>
            /\ (CHOOSE a \in explicit : TRUE) \in explicit
            /\ p.sidc # <<>>
            /\ \A a \in explicit : AffilChar[a] = p.sidc[1].identity
    BY DEF ExplicitAffiliation
  <1> HIDE DEF cto, recognized
  <1>4. ExplicitAffiliation(p) = {} =>
            /\ "hostile" \in p.hints => cto.affiliation \in {"hostile", "suspect"}
            /\ p.label.suspected => cto.affiliation \in {"assumed_friend", "suspect"}
            /\ "affiliation" \in cto.lossy
    BY <1>1, <1>2
  <1> HIDE DEF explicit
  <1>5. cto.sidc.identity = AffilChar[cto.affiliation] \/ "affiliation" \in cto.lossy
    BY <1>2, <1>3
  <1>6. "sidc_2525c" \in cto.lossy => cto.sidc.identity = AffilChar[cto.affiliation]
    BY <1>2, <1>3
  <1>7. QED
    BY <1>4, <1>5, <1>6 DEF HonestAbout, cto

LEMMA KmzHonest ==
    ASSUME NEW file \in KmzFileData, NEW env, NEW i \in DOMAIN KmzToCtos(file, env)
    PROVE  LET ctos == KmzToCtos(file, env)
           IN  HonestAbout(file.placemarks[ctos[i].index + 1], ctos[i])
  <1> DEFINE ctos == KmzToCtos(file, env)
  <1>1. KmzFailure(file) = "none"
    BY DEF KmzToCtos
  <1>2. ctos[i] = PlacemarkToCto(file.placemarks[ctos[i].index + 1], ctos[i].index, env)
    BY <1>1, CtosOfPlacemarks
  <1> HIDE DEF ctos
  <1>3. HonestAbout(file.placemarks[ctos[i].index + 1], ctos[i])
    BY <1>2, PlacemarkHonest
  <1>4. QED
    BY <1>3 DEF ctos

-----------------------------------------------------------------------------
(* What an OVL file comes to.                                               *)

LEMMA VerticesAreNames ==
    ASSUME NEW o \in OvlObjectData
    PROVE  Vertices(o) \in Seq(STRING) /\ Len(Vertices(o)) \in Nat
  <1>1. o.positions \in Seq(STRING)
    BY DEF OvlObjectData
  <1>2. Vertices(o) \in Seq(STRING)
    BY <1>1, SelectedTakes DEF Vertices
  <1>3. QED
    BY <1>2

\* A ring is the vertices, with the first one again if it is not the last.
LEMMA RingCases ==
    ASSUME NEW v \in Seq(STRING), v # <<>>
    PROVE  /\ Len(OvlRing(v)) \in Nat /\ OvlRing(v)[1] = Last(OvlRing(v))
           /\ OvlRing(v) \in {v, Append(v, v[1])}
           /\ Len(v) > 2 /\ Len(OvlRing(v)) < 4 => Len(v) = 3 /\ v[1] = v[3]
  <1>1. Len(v) \in Nat /\ Len(v) >= 1
    <2>1. Len(v) # 0
      OBVIOUS
    <2>2. QED
      BY <2>1
  <1>2. CASE v[1] = Last(v)
    <2>1. OvlRing(v) = v
      BY <1>2 DEF OvlRing
    <2>2. \A n \in Nat : n > 2 /\ n < 4 => n = 3
      OBVIOUS
    <2>3. Len(v) > 2 /\ Len(v) < 4 => Len(v) = 3 /\ v[1] = v[3]
      BY <1>1, <1>2, <2>2 DEF Last
    <2>4. QED
      BY <1>1, <1>2, <2>1, <2>3
  <1>3. CASE v[1] # Last(v)
    <2>1. OvlRing(v) = Append(v, v[1])
      BY <1>3 DEF OvlRing
    <2>2. /\ Len(Append(v, v[1])) = Len(v) + 1 /\ Append(v, v[1])[Len(v) + 1] = v[1]
          /\ Append(v, v[1])[1] = v[1]
      BY <1>1
    <2>3. \A n \in Nat : n > 2 => ~ (n + 1 < 4)
      OBVIOUS
    <2>4. QED
      BY <1>1, <2>1, <2>2, <2>3 DEF Last
  <1>4. QED
    BY <1>2, <1>3

LEMMA OvlOutcome ==
    ASSUME NEW file \in OvlFileData
    PROVE  OvlOutcomeRight(file)
  <1> DEFINE ctos == OvlToCtos(file)
             n == Len(file.objects)
  <1>1. /\ n \in Nat /\ DOMAIN file.objects = 1 .. n
        /\ \A o \in ToSet(file.objects) : o \in OvlObjectData
        /\ \A i \in 1 .. n : file.objects[i] \in ToSet(file.objects)
    <2>1. file.objects \in Seq(OvlObjectData)
      BY DEF OvlFileData
    <2>2. QED
      BY <2>1 DEF ToSet
  <1>2. ASSUME OvlFailure(file) = "escape"
        PROVE  \E o \in ToSet(file.objects) :
                  LET v == Vertices(o) IN v = <<>> \/ (Len(v) = 3 /\ v[1] = v[3])
    <2>1. PICK o \in ToSet(file.objects) : ~ ObjectIsValid(o)
      BY <1>2 DEF OvlFailure
    <2>2. Vertices(o) \in Seq(STRING) /\ Len(Vertices(o)) \in Nat
      BY <1>1, VerticesAreNames
    <2> DEFINE v == Vertices(o)
    <2>3. CASE v # <<>>
      <3>1. Len(v) > 2 /\ ~ (Len(OvlRing(v)) >= 4)
        BY <2>1, <2>3 DEF ObjectIsValid, InferGeometry
      <3> HIDE DEF v
      <3>2. Len(OvlRing(v)) < 4
        BY <2>2, <2>3, <3>1, RingCases DEF v
      <3>3. Len(v) = 3 /\ v[1] = v[3]
        BY <2>2, <2>3, <3>1, <3>2, RingCases DEF v
      <3>4. QED
        BY <3>3 DEF v
    <2>4. QED
      BY <2>3
  <1>3. CASE OvlFailure(file) # "none"
    <2>1. ctos = <<>>
      BY <1>3 DEF OvlToCtos
    <2>2. QED
      BY <1>2, <1>3, <2>1 DEF OvlOutcomeRight
  <1>4. CASE OvlFailure(file) = "none"
    <2>1. ctos = [i \in 1 .. n |-> ObjectToCto(file.objects[i], i - 1)]
      BY <1>1, <1>4 DEF OvlToCtos
    <2>2. Len(ctos) = n /\ DOMAIN ctos = 1 .. n
      <3> HIDE DEF n, ctos
      <3> QED
        BY <1>1, <2>1
    <2>3. \A o \in ToSet(file.objects) : ObjectIsValid(o)
      BY <1>4 DEF OvlFailure
    <2> HIDE DEF ctos
    <2>4. ASSUME NEW i \in 1 .. n
          PROVE  /\ ctos[i].index = i - 1
                 /\ ctos[i].type = "Polygon" =>
                        LET ring == ctos[i].coordinates[1]
                        IN  Len(ring) >= 4 /\ ring[1] = Last(ring)
      <3> DEFINE o == file.objects[i]
                 v == Vertices(o)
      <3>1. ctos[i] = ObjectToCto(o, i - 1)
        BY <2>1
      <3>2. o \in OvlObjectData /\ ObjectIsValid(o)
        BY <1>1, <2>3
      <3> HIDE DEF o
      <3>3. ctos[i].index = i - 1 /\ ctos[i].type = InferGeometry(v, o.code)
        BY <3>1 DEF ObjectToCto
      <3>4. ctos[i].type = "Polygon" => ctos[i].coordinates = <<OvlRing(v)>>
        BY <3>1 DEF ObjectToCto
      <3>5. v # <<>> /\ (ctos[i].type = "Polygon" => Len(OvlRing(v)) >= 4)
        BY <3>2, <3>3 DEF ObjectIsValid
      <3>6. OvlRing(v)[1] = Last(OvlRing(v))
        BY <3>2, <3>5, VerticesAreNames, RingCases
      <3>7. QED
        BY <3>3, <3>4, <3>5, <3>6
    <2>5. QED
      BY <1>2, <1>4, <2>2, <2>4 DEF OvlOutcomeRight, ctos
  <1>5. QED
    BY <1>3, <1>4

\* A string that is a sequence of characters.
IsCode(code) ==
    /\ Len(code) \in Nat
    /\ \A n \in 1 .. Len(code) : Len(SubSeq(code, 1, n)) = n

ClassOf(key) ==
    IF key \in AreaCodes THEN "area" ELSE IF key \in LinearCodes THEN "linear" ELSE "point"

\* The entry that decides is the one found at the longest prefix.
LEMMA EntryDecides ==
    ASSUME NEW code, IsCode(code)
    PROVE  \/ EntryFor(code) = {} /\ ClassifyGeometry(code) = "none"
           \/ \E key \in FunctionCodes :
                  EntryFor(code) = {key} /\ ClassifyGeometry(code) = ClassOf(key)
  <1> DEFINE known == {n \in 2 .. Len(code) : SubSeq(code, 1, n) \in FunctionCodes}
  <1>1. Len(code) \in Nat
    BY DEF IsCode
  <1>2. \A k \in FunctionCodes :
            Len(k) \in Nat /\ Len(k) >= 2 /\ SubSeq(k, 1, Len(k)) = k
    BY CodesAreSequences
  <1>3. ASSUME NEW k \in FunctionCodes, IsPrefix(k, code)
        PROVE  Len(k) \in known /\ k = SubSeq(code, 1, Len(k))
    <2>1. Len(k) <= Len(code) /\ SubSeq(k, 1, Len(k)) = SubSeq(code, 1, Len(k))
      BY <1>3 DEF IsPrefix
    <2>2. Len(k) \in 2 .. Len(code)
      BY <1>1, <1>2, <2>1
    <2>3. k = SubSeq(code, 1, Len(k))
      BY <1>2, <2>1
    <2>4. QED
      BY <2>2, <2>3
  <1>4. ASSUME NEW n \in known
        PROVE  LET k == SubSeq(code, 1, n)
               IN  k \in FunctionCodes /\ Len(k) = n /\ IsPrefix(k, code)
    <2>1. n \in 1 .. Len(code) /\ n <= Len(code)
      BY <1>1
    <2>2. Len(SubSeq(code, 1, n)) = n
      BY <2>1 DEF IsCode
    <2>3. SubSeq(code, 1, n) \in FunctionCodes
      OBVIOUS
    <2>4. SubSeq(SubSeq(code, 1, n), 1, n) = SubSeq(code, 1, n)
      BY <1>2, <2>2, <2>3
    <2>5. QED
      BY <2>1, <2>2, <2>3, <2>4 DEF IsPrefix
  <1>5. CASE known = {}
    <2>1. EntryFor(code) = {}
      BY <1>3, <1>5 DEF EntryFor
    <2>2. ClassifyGeometry(code) = "none"
      BY <1>5 DEF ClassifyGeometry
    <2>3. QED
      BY <2>1, <2>2
  <1>6. CASE known # {}
    <2> DEFINE m == Max(known)
               key == SubSeq(code, 1, m)
    <2>1. known \in SUBSET (0 .. Len(code))
      BY <1>1
    <2>2. \A n \in known : n \in Nat
      BY <1>1
    <2> HIDE DEF known
    <2>3. m \in known /\ \A n \in known : n <= m
      BY <1>1, <1>6, <2>1, GreatestElement
    <2> HIDE DEF m
    <2>4. key \in FunctionCodes /\ Len(key) = m /\ IsPrefix(key, code)
      BY <1>4, <2>3
    <2>5. ASSUME NEW k \in FunctionCodes, IsPrefix(k, code)
          PROVE  Len(k) <= m /\ k = SubSeq(code, 1, Len(k)) /\ Len(k) \in Nat
      BY <1>3, <2>2, <2>3, <2>5
    <2>6. key \in EntryFor(code)
      BY <2>4, <2>5 DEF EntryFor
    <2>7. ASSUME NEW k \in EntryFor(code) PROVE k = key
      <3>1. k \in FunctionCodes /\ IsPrefix(k, code) /\ m <= Len(k)
        BY <2>4 DEF EntryFor
      <3>2. Len(k) = m
        BY <2>2, <2>3, <2>5, <3>1
      <3>3. QED
        BY <2>5, <3>1, <3>2
    <2>8. EntryFor(code) = {key}
      BY <2>6, <2>7
    <2>9. ClassifyGeometry(code) = ClassOf(key)
      BY <1>6 DEF ClassifyGeometry, ClassOf, m, known
    <2>10. QED
      BY <2>4, <2>8, <2>9
  <1>7. QED
    BY <1>5, <1>6

\* No entry stands for two shapes.
LEMMA ClassesDisjoint ==
    /\ AreaCodes \cap LinearCodes = {}
    /\ AreaCodes \cap PointCodes = {}
    /\ LinearCodes \cap PointCodes = {}
  BY DEF AreaCodes, LinearCodes, PointCodes

LEMMA DrawnIsKept ==
    ASSUME NEW o \in OvlObjectData, NEW index, IsCode(o.code), ObjectIsValid(o)
    PROVE  DrawnKept(o, ObjectToCto(o, index))
  <1> DEFINE cto == ObjectToCto(o, index)
             v == Vertices(o)
             class == ClassifyGeometry(o.code)
             stored == IF cto.type = "Polygon" THEN cto.coordinates[1] ELSE cto.coordinates
  <1>1. /\ cto.type = InferGeometry(v, o.code)
        /\ cto.coordinates = IF cto.type = "Polygon" THEN <<OvlRing(v)>> ELSE v
        /\ cto.conflict <=> class \notin {"none", GeometryClassOf(cto.type)}
    BY DEF ObjectToCto
  <1>2. v \in Seq(STRING) /\ v # <<>>
    BY VerticesAreNames DEF ObjectIsValid
  <1>3. cto.type \in {"Point", "LineString", "Polygon"}
    BY <1>1 DEF InferGeometry
  <1> HIDE DEF cto, v
  <1>4. \/ stored = v
        \/ cto.type = "Polygon" /\ stored = Append(v, v[1])
    BY <1>1, <1>2, RingCases
  <1>5. cto.conflict <=> \E key \in EntryFor(o.code) :
            \/ key \in AreaCodes /\ cto.type # "Polygon"
            \/ key \in LinearCodes /\ cto.type # "LineString"
            \/ key \in PointCodes /\ cto.type # "Point"
    <2>1. CASE EntryFor(o.code) = {} /\ class = "none"
      BY <1>1, <2>1
    <2>2. ASSUME NEW key \in FunctionCodes, EntryFor(o.code) = {key}, class = ClassOf(key)
          PROVE  cto.conflict <=>
                    \/ key \in AreaCodes /\ cto.type # "Polygon"
                    \/ key \in LinearCodes /\ cto.type # "LineString"
                    \/ key \in PointCodes /\ cto.type # "Point"
      <3>1. cto.conflict <=> ClassOf(key) # GeometryClassOf(cto.type)
        BY <1>1, <2>2 DEF ClassOf
      <3>2. ClassOf(key) # GeometryClassOf(cto.type) <=>
                \/ key \in AreaCodes /\ cto.type # "Polygon"
                \/ key \in LinearCodes /\ cto.type # "LineString"
                \/ key \in PointCodes /\ cto.type # "Point"
        BY <1>3, ClassesDisjoint DEF ClassOf, GeometryClassOf, FunctionCodes
      <3>3. QED
        BY <3>1, <3>2
    <2>3. QED
      BY <2>1, <2>2, EntryDecides
  <1>6. QED
    BY <1>4, <1>5 DEF DrawnKept, cto, v

-----------------------------------------------------------------------------
(* A selection of neighbours is that part of the list.                      *)

LEMMA SelectedLoop ==
    ASSUME NEW s, NEW I, Len(s) \in Nat
    PROVE  \E f : /\ Selected(s, I) = f[Len(s)] /\ f[0] = <<>>
                  /\ \A n \in 1 .. Len(s) :
                         f[n] = IF n \in I THEN Append(f[n - 1], s[n]) ELSE f[n - 1]
  <1> DEFINE N == Len(s)
             upTo == CHOOSE f : Loops(f, s, I, N)
  <1>1. Loops(upTo, s, I, N)
    BY LoopExists
  <1>2. Selected(s, I) = upTo[N]
    BY SMTT(20) DEF Selected, Loops
  <1>3. \A n \in 0 .. N : upTo[n] = IF n = 0 THEN <<>>
                                    ELSE IF n \in I THEN Append(upTo[n - 1], s[n]) ELSE upTo[n - 1]
    BY <1>1 DEF Loops
  <1> HIDE DEF upTo
  <1>4. upTo[0] = <<>>
    BY <1>3
  <1>5. \A n \in 1 .. N : n \in 0 .. N /\ n # 0
    OBVIOUS
  <1>6. \A n \in 1 .. N : upTo[n] = IF n \in I THEN Append(upTo[n - 1], s[n]) ELSE upTo[n - 1]
    BY <1>3, <1>5
  <1>7. QED
    BY <1>2, <1>4, <1>6, ZenonT(20)

\* The m places of s behind the k-th, and the list of what is there.
Places(I, s, k, m) ==
    /\ k \in Nat /\ m \in Nat /\ k + m <= Len(s)
    /\ \A i \in 1 .. Len(s) : i \in I <=> k < i /\ i <= k + m
IsPart(q, s, k, m) == Len(q) = m /\ \A j \in 1 .. m : q[j] = s[k + j]

LEMMA SelectedPart ==
    ASSUME NEW T, NEW s \in Seq(T), NEW I, NEW k, NEW m, Places(I, s, k, m)
    PROVE  Selected(s, I) \in Seq(T) /\ IsPart(Selected(s, I), s, k, m)
  <1> DEFINE N == Len(s)
             U(n) == IF n <= k THEN 0 ELSE IF n <= k + m THEN n - k ELSE m
  <1>1. N \in Nat /\ \A n \in 1 .. N : s[n] \in T
    BY LenProperties, ElementOfSeq
  <1>2. /\ k \in Nat /\ m \in Nat /\ k + m <= N
        /\ \A i \in 1 .. N : i \in I <=> k < i /\ i <= k + m
    BY DEF Places
  <1>3. PICK f : /\ Selected(s, I) = f[N] /\ f[0] = <<>>
                 /\ \A n \in 1 .. N : f[n] = IF n \in I THEN Append(f[n - 1], s[n]) ELSE f[n - 1]
    <2>1. Len(s) \in Nat
      BY <1>1
    <2>2. QED
      BY ONLY <2>1, SelectedLoop
  <1> DEFINE Right(n) == /\ f[n] \in Seq(T) /\ Len(f[n]) = U(n)
                         /\ \A j \in 1 .. U(n) : f[n][j] = s[k + j]
             Bad == {n \in 0 .. N : ~Right(n)}
  <1>4. ASSUME NEW n \in Bad, \A j \in Bad : n <= j PROVE FALSE
    <2>1. n \in 0 .. N /\ ~Right(n)
      OBVIOUS
    <2>2. CASE n = 0
      <3>1. U(0) = 0
        BY <1>2
      <3>2. Right(0)
        BY <1>3, <3>1
      <3>3. QED
        BY <2>1, <2>2, <3>2
    <2>3. CASE n # 0
      <3>1. n \in 1 .. N /\ n - 1 \in 0 .. N /\ n \in Nat
        BY <1>1, <2>1, <2>3
      <3>2. Right(n - 1)
        <4>1. n - 1 \notin Bad
          <5> HIDE DEF Bad
          <5>1. QED
            BY <1>4, <3>1
        <4>2. QED
          BY <3>1, <4>1
      <3>3. CASE n \notin I
        <4>1. f[n] = f[n - 1]
          BY <1>3, <3>1, <3>3
        <4>2. U(n) = U(n - 1)
          BY <1>2, <3>1, <3>3
        <4>3. Right(n)
          <5> HIDE DEF U
          <5>1. QED
            BY <3>2, <4>1, <4>2
        <4>4. QED
          BY <2>1, <4>3
      <3>4. CASE n \in I
        <4> DEFINE q == f[n - 1]
        <4>1. f[n] = Append(q, s[n]) /\ s[n] \in T
          BY <1>1, <1>3, <3>1, <3>4
        <4>2. U(n) = U(n - 1) + 1 /\ k + U(n) = n /\ U(n) \in Nat
          BY <1>2, <3>1, <3>4
        <4>3. q \in Seq(T) /\ Len(q) = U(n - 1) /\ \A j \in 1 .. U(n - 1) : q[j] = s[k + j]
          BY <3>2
        <4> HIDE DEF q, U
        <4>4. /\ f[n] \in Seq(T) /\ Len(f[n]) = U(n)
              /\ f[n][U(n)] = s[n] /\ \A j \in 1 .. U(n - 1) : f[n][j] = q[j]
          BY <4>1, <4>2, <4>3, AppendProperties
        <4>5. U(n - 1) \in Nat
          BY <4>3, LenProperties
        <4>6. \A j \in 1 .. U(n) : j \in 1 .. U(n - 1) \/ j = U(n)
          BY <4>2, <4>5
        <4>7. \A j \in 1 .. U(n) : f[n][j] = s[k + j]
          BY <4>2, <4>3, <4>4, <4>6
        <4>8. QED
          BY <2>1, <4>4, <4>7
      <3>5. QED
        BY <3>3, <3>4
    <2>4. QED
      BY <2>2, <2>3
  <1>5. Bad = {}
    <2>1. Bad \in SUBSET Nat
      OBVIOUS
    <2> HIDE DEF Bad
    <2>2. QED
      BY <1>4, <2>1, SmallestElement
  <1>6. Right(N)
    <2>1. N \in 0 .. N
      BY <1>1
    <2> HIDE DEF Right
    <2>2. QED
      BY <1>5, <2>1
  <1>7. U(N) = m
    BY <1>1, <1>2
  <1> HIDE DEF U
  <1>8. QED
    BY <1>3, <1>6, <1>7 DEF IsPart

\* It begins with the first element that is let through.
LEMMA SelectedFirst ==
    ASSUME NEW T, NEW s \in Seq(T), NEW I, NEW k \in I, k \in 1 .. Len(s),
           \A i \in 1 .. Len(s) : i \in I => k <= i
    PROVE  Len(Selected(s, I)) >= 1 /\ Selected(s, I)[1] = s[k]
  <1> DEFINE N == Len(s)
  <1>1. N \in Nat /\ \A n \in 1 .. N : s[n] \in T
    BY LenProperties, ElementOfSeq
  <1>2. PICK f : /\ Selected(s, I) = f[N] /\ f[0] = <<>>
                 /\ \A n \in 1 .. N : f[n] = IF n \in I THEN Append(f[n - 1], s[n]) ELSE f[n - 1]
    BY <1>1, SelectedLoop
  <1> DEFINE Right(n) == /\ f[n] \in Seq(T)
                         /\ n < k => f[n] = <<>>
                         /\ n >= k => Len(f[n]) >= 1 /\ f[n][1] = s[k]
             Bad == {n \in 0 .. N : ~Right(n)}
  <1>3. ASSUME NEW n \in Bad, \A j \in Bad : n <= j PROVE FALSE
    <2>1. n \in 0 .. N /\ ~Right(n)
      OBVIOUS
    <2>2. CASE n = 0
      <3>1. 0 < k /\ ~(0 >= k)
        OBVIOUS
      <3>2. Right(0)
        BY <1>2, <3>1
      <3>3. QED
        BY <2>1, <2>2, <3>2
    <2>3. CASE n # 0
      <3>1. n \in 1 .. N /\ n - 1 \in 0 .. N /\ n \in Nat
        BY <1>1, <2>1, <2>3
      <3>2. Right(n - 1)
        <4>1. n - 1 \notin Bad
          <5> HIDE DEF Bad
          <5>1. QED
            BY <1>3, <3>1
        <4>2. QED
          BY <3>1, <4>1
      <3>3. CASE n \notin I
        <4>1. f[n] = f[n - 1]
          BY <1>2, <3>1, <3>3
        <4>2. n # k /\ (n < k => n - 1 < k) /\ (n >= k => n - 1 >= k)
          BY <3>1, <3>3
        <4>3. Right(n)
          BY <3>2, <4>1, <4>2
        <4>4. QED
          BY <2>1, <4>3
      <3>4. CASE n \in I
        <4> DEFINE q == f[n - 1]
        <4>1. f[n] = Append(q, s[n]) /\ s[n] \in T
          BY <1>1, <1>2, <3>1, <3>4
        <4>2. k <= n /\ ~(n < k) /\ n >= k /\ (n = k => n - 1 < k) /\ (n # k => n - 1 >= k)
          BY <3>1, <3>4
        <4>3. q \in Seq(T)
          BY <3>2
        <4>4. /\ n = k => q = <<>>
              /\ n # k => Len(q) >= 1 /\ q[1] = s[k]
          BY <3>2, <4>2
        <4> HIDE DEF q
        <4>5. /\ f[n] \in Seq(T) /\ Len(f[n]) = Len(q) + 1 /\ f[n][Len(q) + 1] = s[n]
              /\ \A j \in 1 .. Len(q) : f[n][j] = q[j]
          BY <4>1, <4>3, AppendProperties
        <4>6. Len(q) \in Nat
          BY <4>3, LenProperties
        <4>7. CASE n = k
          <5>1. Len(q) = 0
            BY <4>4, <4>7, EmptySeq
          <5>2. QED
            BY <2>1, <4>2, <4>5, <4>7, <5>1
        <4>8. CASE n # k
          <5>1. 1 \in 1 .. Len(q)
            BY <4>4, <4>6, <4>8
          <5>2. Len(f[n]) >= 1 /\ f[n][1] = s[k]
            BY <4>4, <4>5, <4>6, <4>8, <5>1
          <5>3. QED
            BY <2>1, <4>2, <4>5, <5>2
        <4>9. QED
          BY <4>7, <4>8
      <3>5. QED
        BY <3>3, <3>4
    <2>4. QED
      BY <2>2, <2>3
  <1>4. Bad = {}
    <2>1. Bad \in SUBSET Nat
      OBVIOUS
    <2> HIDE DEF Bad
    <2>2. QED
      BY <1>3, <2>1, SmallestElement
  <1>5. Right(N)
    <2>1. N \in 0 .. N
      BY <1>1
    <2> HIDE DEF Right
    <2>2. QED
      BY <1>4, <2>1
  <1>6. QED
    BY <1>1, <1>2, <1>5

-----------------------------------------------------------------------------
(* Lists put together, and sets as lists.                                   *)

\* Each list is at its place in the result, and there is nothing else there.
LEMMA FlattenPlaces ==
    ASSUME NEW T, NEW ss \in Seq(Seq(T))
    PROVE  /\ FlattenSeq(ss) \in Seq(T)
           /\ \E P : /\ \A m \in 1 .. Len(ss) :
                            /\ P[m] \in Nat /\ P[m] + Len(ss[m]) <= Len(FlattenSeq(ss))
                            /\ \A j \in 1 .. Len(ss[m]) : FlattenSeq(ss)[P[m] + j] = ss[m][j]
                     /\ \A i \in 1 .. Len(FlattenSeq(ss)) : \E m \in 1 .. Len(ss) :
                            P[m] < i /\ i <= P[m] + Len(ss[m])
  <1> DEFINE N == Len(ss)
  <1>1. N \in Nat /\ ss = [i \in 1 .. N |-> ss[i]] /\ \A n \in 1 .. N : ss[n] \in Seq(T)
    BY LenProperties, ElementOfSeq
  <1>2. PICK F : /\ F[0] = <<>> /\ \A n \in 0 .. N : F[n] \in Seq(T)
                 /\ \A n \in 1 .. N : F[n] = F[n - 1] \o ss[n]
                 /\ \A n \in 0 .. N : F[n] = FlattenSeq([i \in 1 .. n |-> ss[i]])
    BY FlattenTable
  <1>3. N \in 0 .. N
    BY <1>1
  <1>4. FlattenSeq(ss) = F[N]
    BY <1>1, <1>2, <1>3
  <1> DEFINE P == [m \in 1 .. N |-> Len(F[m - 1])]
             Right(n) == /\ \A m \in 1 .. n :
                                /\ P[m] \in Nat /\ P[m] + Len(ss[m]) <= Len(F[n])
                                /\ \A j \in 1 .. Len(ss[m]) : F[n][P[m] + j] = ss[m][j]
                         /\ \A i \in 1 .. Len(F[n]) : \E m \in 1 .. n :
                                P[m] < i /\ i <= P[m] + Len(ss[m])
             Bad == {n \in 0 .. N : ~Right(n)}
  <1>5. ASSUME NEW n \in Bad, \A j \in Bad : n <= j PROVE FALSE
    <2>1. n \in 0 .. N /\ ~Right(n)
      OBVIOUS
    <2>2. CASE n = 0
      <3>1. Len(F[0]) = 0
        BY <1>2
      <3>2. Right(0)
        <4> HIDE DEF P
        <4>1. QED
          BY <3>1
      <3>3. QED
        BY <2>1, <2>2, <3>2
    <2>3. CASE n # 0
      <3>1. n \in 1 .. N /\ n - 1 \in 0 .. N /\ n \in Nat
        BY <1>1, <2>1, <2>3
      <3>2. Right(n - 1)
        <4>1. n - 1 \notin Bad
          <5> HIDE DEF Bad
          <5>1. QED
            BY <1>5, <3>1
        <4> HIDE DEF Right
        <4>2. QED
          BY <3>1, <4>1
      <3> DEFINE q == F[n - 1]
                 b == ss[n]
      <3>3. q \in Seq(T) /\ b \in Seq(T) /\ F[n] = q \o b
        BY <1>1, <1>2, <3>1
      <3>4. P[n] = Len(q)
        BY <3>1
      <3>5. /\ \A m \in 1 .. n - 1 :
                   /\ P[m] \in Nat /\ P[m] + Len(ss[m]) <= Len(q)
                   /\ \A j \in 1 .. Len(ss[m]) : q[P[m] + j] = ss[m][j]
            /\ \A i \in 1 .. Len(q) : \E m \in 1 .. n - 1 :
                   P[m] < i /\ i <= P[m] + Len(ss[m])
        BY <3>2
      <3> HIDE DEF P, q, Right, Bad
      <3>6. /\ Len(q) \in Nat /\ Len(b) \in Nat /\ Len(F[n]) = Len(q) + Len(b)
            /\ \A i \in 1 .. Len(q) + Len(b) :
                   F[n][i] = IF i <= Len(q) THEN q[i] ELSE b[i - Len(q)]
        <4> HIDE DEF b
        <4>1. QED
          BY <3>3, ConcatProperties, LenProperties
      <3>7. ASSUME NEW m \in 1 .. n
            PROVE  /\ P[m] \in Nat /\ P[m] + Len(ss[m]) <= Len(F[n])
                   /\ \A j \in 1 .. Len(ss[m]) : F[n][P[m] + j] = ss[m][j]
        <4>1. CASE m = n
          <5>1. P[m] \in Nat /\ P[m] + Len(ss[m]) <= Len(F[n])
            BY <3>4, <3>6, <4>1
          <5>2. ASSUME NEW j \in 1 .. Len(ss[m]) PROVE F[n][P[m] + j] = ss[m][j]
            <6>1. /\ Len(q) + j \in 1 .. Len(q) + Len(b) /\ ~(Len(q) + j <= Len(q))
                  /\ (Len(q) + j) - Len(q) = j
              BY <3>6, <4>1
            <6>2. F[n][Len(q) + j] = b[(Len(q) + j) - Len(q)]
              BY <3>6, <6>1
            <6>3. QED
              BY <3>4, <4>1, <6>1, <6>2
          <5>3. QED
            BY <5>1, <5>2
        <4>2. CASE m # n
          <5>1. m \in 1 .. n - 1
            BY <3>1, <4>2
          <5>2. Len(ss[m]) \in Nat
            <6>1. ss[m] \in Seq(T)
              BY <1>1, <3>1, <5>1
            <6>2. QED
              BY <6>1, LenProperties
          <5>3. P[m] \in Nat /\ P[m] + Len(ss[m]) <= Len(F[n])
            <6>1. P[m] \in Nat /\ P[m] + Len(ss[m]) <= Len(q)
              BY <3>5, <5>1
            <6>2. \A x, y, z, u \in Nat : x + y <= z => x + y <= z + u
              OBVIOUS
            <6>3. Len(q) \in Nat /\ Len(b) \in Nat /\ Len(F[n]) = Len(q) + Len(b)
              BY <3>6
            <6> HIDE DEF b
            <6>4. QED
              BY <5>2, <6>1, <6>2, <6>3
          <5>4. ASSUME NEW j \in 1 .. Len(ss[m]) PROVE F[n][P[m] + j] = ss[m][j]
            <6>1. P[m] + Len(ss[m]) <= Len(q) /\ q[P[m] + j] = ss[m][j]
              BY <3>5, <5>1
            <6>2. P[m] + j \in 1 .. Len(q) + Len(b) /\ P[m] + j <= Len(q)
              <7>1. \A x, y, z, u \in Nat : \A i \in 1 .. y :
                        x + y <= z => x + i \in 1 .. z + u /\ x + i <= z
                OBVIOUS
              <7>2. P[m] \in Nat /\ Len(ss[m]) \in Nat /\ Len(q) \in Nat /\ Len(b) \in Nat
                BY <3>6, <5>2, <5>3
              <7> HIDE DEF b
              <7>3. QED
                BY <6>1, <7>1, <7>2
            <6>3. QED
              BY <3>6, <6>1, <6>2
          <5>5. QED
            BY <5>3, <5>4
        <4>3. QED
          BY <4>1, <4>2
      <3>8. ASSUME NEW i \in 1 .. Len(F[n])
            PROVE  \E m \in 1 .. n : P[m] < i /\ i <= P[m] + Len(ss[m])
        <4>1. CASE i <= Len(q)
          <5>1. i \in 1 .. Len(q)
            BY <3>6, <4>1
          <5>2. PICK m \in 1 .. n - 1 : P[m] < i /\ i <= P[m] + Len(ss[m])
            BY <3>5, <5>1
          <5>3. m \in 1 .. n
            BY <3>1, <5>2
          <5>4. QED
            BY <5>2, <5>3
        <4>2. CASE ~(i <= Len(q))
          <5>1. Len(q) < i /\ i <= Len(q) + Len(b)
            BY <3>6, <4>2
          <5>2. n \in 1 .. n
            BY <3>1
          <5>3. QED
            BY <3>4, <5>1, <5>2
        <4>3. QED
          BY <4>1, <4>2
      <3>9. Right(n)
        BY <3>7, <3>8 DEF Right
      <3>10. QED
        BY <2>1, <3>9
    <2>4. QED
      BY <2>2, <2>3
  <1> HIDE DEF P
  <1>6. Bad = {}
    <2>1. Bad \in SUBSET Nat
      OBVIOUS
    <2> HIDE DEF Bad
    <2>2. QED
      BY <1>5, <2>1, SmallestElement
  <1>7. Right(N)
    <2> HIDE DEF Right
    <2>1. QED
      BY <1>3, <1>6
  <1>8. F[N] \in Seq(T)
    BY <1>2, <1>3
  <1>9. QED
    BY <1>4, <1>7, <1>8

\* A finite set as a list: each of its elements once.
LEMMA SetToSeqIs ==
    ASSUME NEW S, IsFiniteSet(S)
    PROVE  /\ SetToSeq(S) \in Seq(S) /\ Len(SetToSeq(S)) \in Nat
           /\ \A i, j \in 1 .. Len(SetToSeq(S)) : SetToSeq(S)[i] = SetToSeq(S)[j] => i = j
           /\ \A x \in S : \E i \in 1 .. Len(SetToSeq(S)) : SetToSeq(S)[i] = x
  <1> DEFINE n == Cardinality(S)
             s == SetToSeq(S)
  <1>1. n \in Nat
    BY FS_CardinalityType
  <1>2. \E f \in [1 .. n -> S] : IsInjective(f)
    <2>1. PICK f : f \in Bijection(1 .. n, S)
      BY FS_CardinalityType, Fun_ExistsBij
    <2>2. f \in [1 .. n -> S] /\ \A a, b \in 1 .. n : f[a] = f[b] => a = b
      BY <2>1, Fun_BijectionProperties
    <2>3. QED
      BY <2>2 DEF IsInjective
  <1>3. s \in [1 .. n -> S] /\ \A a, b \in 1 .. n : s[a] = s[b] => a = b
    <2>1. s \in [1 .. n -> S] /\ IsInjective(s)
      BY <1>2 DEF SetToSeq
    <2>2. QED
      BY <2>1 DEF IsInjective
  <1> HIDE DEF s, n
  <1>4. s \in Surjection(1 .. n, S)
    <2>1. s \in Injection(1 .. n, S)
      BY <1>3, Fun_IsInj
    <2>2. Cardinality(1 .. n) = Cardinality(S)
      <3>1. Cardinality(1 .. n) = n
        BY <1>1, FS_Interval
      <3>2. QED
        BY <3>1 DEF n
    <2>3. QED
      BY <2>1, <2>2, FS_Injection
  <1>5. \A x \in S : \E i \in 1 .. n : s[i] = x
    BY <1>4 DEF Surjection
  <1>6. s \in Seq(S) /\ Len(s) = n
    BY <1>1, <1>3
  <1>7. QED
    BY <1>1, <1>3, <1>5, <1>6 DEF s

-----------------------------------------------------------------------------
(* The dict a CTO keeps <detail> in, what is written of it and what is read *)
(* of that again.                                                           *)

IsElement(x, tag) == x = Element(tag, x.attrs, x.text, x.children)
DetailOk(d) ==
    /\ IsFiniteSet(DOMAIN d) /\ d = [tag \in DOMAIN d |-> d[tag]]
    /\ \A tag \in DOMAIN d :
           /\ d[tag] \in Seq(ToSet(d[tag])) /\ Len(d[tag]) >= 1
           /\ \A i \in 1 .. Len(d[tag]) : IsElement(d[tag][i], tag)

Block(d, tag) == [i \in DOMAIN d[tag] |-> Writable(d[tag][i])]
First(d, tag) == IF tag \in DOMAIN d THEN d[tag][1] ELSE Element(tag, NoAttrs, None, None)

\* Writing an element leaves attributes out, and does so once and for all.
LEMMA WritableIs ==
    ASSUME NEW tag, NEW x, IsElement(x, tag)
    PROVE  /\ IsElement(Writable(x), tag) /\ Writable(x).tag = tag /\ x.tag = tag
           /\ Writable(x).text = x.text
           /\ \A a : a # "_id" => Lookup(Writable(x).attrs, a) = Lookup(x.attrs, a)
           /\ Writable(Writable(x)) = Writable(x)
  <1> DEFINE kept(f) == [a \in DOMAIN f \ Private |-> f[a]]
  <1>1. \A y : IsElement(y, tag) => Writable(y) = Element(tag, kept(y.attrs), y.text, y.children)
    BY DEF IsElement, Element, Writable, Restrict
  <1>2. \A a, t, c : IsElement(Element(tag, a, t, c), tag)
    BY DEF IsElement, Element
  <1>3. kept(kept(x.attrs)) = kept(x.attrs)
    OBVIOUS
  <1>4. \A a : a # "_id" => Lookup(kept(x.attrs), a) = Lookup(x.attrs, a)
    BY DEF Lookup, Private
  <1>5. \A a, t, c : /\ Element(tag, a, t, c).tag = tag /\ Element(tag, a, t, c).text = t
                     /\ Element(tag, a, t, c).attrs = a /\ Element(tag, a, t, c).children = c
    BY DEF Element
  <1> HIDE DEF kept
  <1>6. x.tag = tag
    BY <1>5 DEF IsElement
  <1>7. QED
    BY <1>1, <1>2, <1>3, <1>4, <1>5, <1>6

LEMMA BlockIs ==
    ASSUME NEW d, DetailOk(d), NEW tag \in DOMAIN d
    PROVE  /\ Block(d, tag) \in Seq(ToSet(Block(d, tag))) /\ Len(Block(d, tag)) = Len(d[tag])
           /\ Len(d[tag]) \in Nat /\ Len(d[tag]) >= 1
           /\ \A i \in 1 .. Len(d[tag]) :
                  Block(d, tag)[i] = Writable(d[tag][i]) /\ Block(d, tag)[i].tag = tag
  <1> DEFINE n == Len(d[tag])
             b == Block(d, tag)
  <1>1. /\ d[tag] \in Seq(ToSet(d[tag])) /\ n >= 1
        /\ \A i \in 1 .. n : IsElement(d[tag][i], tag)
    BY DEF DetailOk
  <1>2. n \in Nat /\ DOMAIN d[tag] = 1 .. n
    BY <1>1, LenProperties
  <1>3. b = [i \in 1 .. n |-> Writable(d[tag][i])]
    BY <1>2 DEF Block
  <1> HIDE DEF b, n
  <1>4. ToSet(b) = {b[i] : i \in 1 .. n}
    BY <1>3 DEF ToSet
  <1>5. b \in Seq(ToSet(b)) /\ Len(b) = n
    BY <1>2, <1>3, <1>4
  <1>6. \A i \in 1 .. n : b[i] = Writable(d[tag][i]) /\ b[i].tag = tag
    BY <1>1, <1>3, WritableIs
  <1>7. QED
    BY <1>1, <1>2, <1>5, <1>6 DEF b, n

\* What is written: the nodes of each tag at a place, and nothing else.
LEMMA EmitIs ==
    ASSUME NEW d, DetailOk(d), NEW already
    PROVE  /\ \E T : EmitDetail(d, already) \in Seq(T)
           /\ \E P : /\ \A tag \in DOMAIN d \ already :
                            /\ P[tag] \in Nat
                            /\ P[tag] + Len(d[tag]) <= Len(EmitDetail(d, already))
                            /\ \A j \in 1 .. Len(d[tag]) :
                                   EmitDetail(d, already)[P[tag] + j] = Block(d, tag)[j]
                     /\ \A i \in 1 .. Len(EmitDetail(d, already)) :
                            \E tag \in DOMAIN d \ already :
                                P[tag] < i /\ i <= P[tag] + Len(d[tag])
  <1> DEFINE Tags == DOMAIN d \ already
             S == {Block(d, tag) : tag \in Tags}
             ss == SetToSeq(S)
             T == UNION {ToSet(b) : b \in S}
             E == EmitDetail(d, already)
  <1>1. E = FlattenSeq(ss)
    BY DEF EmitDetail, Block
  <1>2. IsFiniteSet(S)
    <2> DEFINE f == [tag \in Tags |-> Block(d, tag)]
    <2>1. IsFiniteSet(Tags)
      BY FS_Subset DEF DetailOk
    <2>2. f \in Surjection(Tags, S)
      BY DEF Surjection
    <2> HIDE DEF f, S, Tags
    <2>3. QED
      BY <2>1, <2>2, FS_Surjection
  <1>3. \A tag \in Tags : /\ Block(d, tag) \in Seq(ToSet(Block(d, tag)))
                          /\ Len(Block(d, tag)) = Len(d[tag])
                          /\ Len(d[tag]) \in Nat /\ Len(d[tag]) >= 1
                          /\ Block(d, tag)[1].tag = tag
    BY BlockIs
  <1>4. S \subseteq Seq(T)
    <2>1. ASSUME NEW tag \in Tags PROVE Block(d, tag) \in Seq(T)
      <3>1. ToSet(Block(d, tag)) \subseteq T
        OBVIOUS
      <3> HIDE DEF T
      <3>2. QED
        BY <1>3, <3>1, SeqMonotonic
    <2> HIDE DEF T
    <2>2. QED
      BY <2>1
  <1>5. /\ ss \in Seq(S) /\ Len(ss) \in Nat
        /\ \A i, j \in 1 .. Len(ss) : ss[i] = ss[j] => i = j
        /\ \A x \in S : \E i \in 1 .. Len(ss) : ss[i] = x
    BY <1>2, SetToSeqIs
  <1> DEFINE at == [tag \in Tags |-> CHOOSE m \in 1 .. Len(ss) : ss[m] = Block(d, tag)]
  <1>6. \A tag \in Tags : at[tag] \in 1 .. Len(ss) /\ ss[at[tag]] = Block(d, tag)
    <2>1. ASSUME NEW tag \in Tags
          PROVE  at[tag] \in 1 .. Len(ss) /\ ss[at[tag]] = Block(d, tag)
      <3>1. \E m \in 1 .. Len(ss) : ss[m] = Block(d, tag)
        BY <1>5
      <3> HIDE DEF ss
      <3>2. QED
        BY <3>1
    <2>2. QED
      BY <2>1
  <1>7. \A m \in 1 .. Len(ss) : \E tag \in Tags : ss[m] = Block(d, tag) /\ at[tag] = m
    <2>1. ASSUME NEW m \in 1 .. Len(ss)
          PROVE  \E tag \in Tags : ss[m] = Block(d, tag) /\ at[tag] = m
      <3>1. ss[m] \in S
        <4> HIDE DEF ss, S
        <4>1. QED
          BY <1>5, ElementOfSeq
      <3>2. PICK tag \in Tags : ss[m] = Block(d, tag)
        BY <3>1
      <3> HIDE DEF ss, S, at
      <3>3. at[tag] = m
        BY <1>5, <1>6, <3>2
      <3>4. QED
        BY <3>2, <3>3
    <2>2. QED
      BY <2>1
  <1>8. ss \in Seq(Seq(T))
    <2> HIDE DEF ss, S, T
    <2>1. QED
      BY <1>4, <1>5, SeqMonotonic
  <1> HIDE DEF T, S, ss, at
  <1>9. E \in Seq(T)
    BY <1>1, <1>8, FlattenPlaces
  <1>10. PICK Q : /\ \A m \in 1 .. Len(ss) :
                         /\ Q[m] \in Nat /\ Q[m] + Len(ss[m]) <= Len(E)
                         /\ \A j \in 1 .. Len(ss[m]) : E[Q[m] + j] = ss[m][j]
                  /\ \A i \in 1 .. Len(E) : \E m \in 1 .. Len(ss) :
                         Q[m] < i /\ i <= Q[m] + Len(ss[m])
    <2> DEFINE G == FlattenSeq(ss)
    <2>1. \E Q : /\ \A m \in 1 .. Len(ss) :
                        /\ Q[m] \in Nat /\ Q[m] + Len(ss[m]) <= Len(G)
                        /\ \A j \in 1 .. Len(ss[m]) : G[Q[m] + j] = ss[m][j]
                 /\ \A i \in 1 .. Len(G) : \E m \in 1 .. Len(ss) :
                        Q[m] < i /\ i <= Q[m] + Len(ss[m])
      BY <1>8, FlattenPlaces
    <2>2. G = E
      BY <1>1
    <2> HIDE DEF G, E
    <2>3. QED
      BY <2>1, <2>2
  <1> HIDE DEF E
  <1> DEFINE P == [tag \in Tags |-> Q[at[tag]]]
  <1>11. ASSUME NEW tag \in Tags
         PROVE  /\ P[tag] \in Nat /\ P[tag] + Len(d[tag]) <= Len(E)
                /\ \A j \in 1 .. Len(d[tag]) : E[P[tag] + j] = Block(d, tag)[j]
    <2>1. P[tag] = Q[at[tag]] /\ at[tag] \in 1 .. Len(ss) /\ ss[at[tag]] = Block(d, tag)
      BY <1>6
    <2>2. Len(ss[at[tag]]) = Len(d[tag])
      BY <1>3, <2>1
    <2> HIDE DEF P
    <2>3. QED
      BY <1>10, <2>1, <2>2
  <1>12. ASSUME NEW i \in 1 .. Len(E)
         PROVE  \E tag \in Tags : P[tag] < i /\ i <= P[tag] + Len(d[tag])
    <2>1. PICK m \in 1 .. Len(ss) : Q[m] < i /\ i <= Q[m] + Len(ss[m])
      BY <1>10
    <2>2. PICK tag \in Tags : ss[m] = Block(d, tag) /\ at[tag] = m
      BY <1>7
    <2>3. Len(ss[m]) = Len(d[tag]) /\ P[tag] = Q[m]
      BY <1>3, <2>2
    <2> HIDE DEF P
    <2>4. QED
      BY <2>1, <2>3
  <1>13. QED
    <2> HIDE DEF P
    <2>1. QED
      BY <1>9, <1>11, <1>12 DEF E

LEMMA OfTagIs ==
    ASSUME NEW T, NEW s \in Seq(T), NEW tag, NEW k, NEW m,
           Places({i \in 1 .. Len(s) : s[i].tag = tag}, s, k, m)
    PROVE  OfTag(s, tag) \in Seq(T) /\ IsPart(OfTag(s, tag), s, k, m)
  <1> DEFINE I == {i \in 1 .. Len(s) : s[i].tag = tag}
  <1>1. DOMAIN s = 1 .. Len(s)
    BY LenProperties
  <1>2. OfTag(s, tag) = Selected(s, I)
    BY <1>1 DEF OfTag
  <1> HIDE DEF I
  <1>3. Selected(s, I) \in Seq(T) /\ IsPart(Selected(s, I), s, k, m)
    BY SelectedPart DEF I
  <1>4. QED
    BY <1>2, <1>3

\* Elements A of their own, and behind them the dict d but for some tags, read
\* again: a dict with each element of A, and with what is written of d.
OwnElements(A, already) ==
    /\ \A i \in 1 .. Len(A) : A[i].tag \in already
    /\ \A i, j \in 1 .. Len(A) : A[i].tag = A[j].tag => i = j
ReadsAs(E, A, d, already) ==
    LET R == DetailToAttributes(E)
    IN  /\ \E T : E \in Seq(T)
        /\ DOMAIN R = {A[i].tag : i \in 1 .. Len(A)} \cup (DOMAIN d \ already)
        /\ \A i \in 1 .. Len(A) : R[A[i].tag] = <<A[i]>>
        /\ \A tag \in DOMAIN d \ already : R[tag] = Block(d, tag)

LEMMA DetailRead ==
    ASSUME NEW d, DetailOk(d), NEW already, NEW TA, NEW A \in Seq(TA), OwnElements(A, already)
    PROVE  ReadsAs(A \o EmitDetail(d, already), A, d, already)
  <1> DEFINE Rest == DOMAIN d \ already
             B == EmitDetail(d, already)
             E == A \o B
             n == Len(A)
             tags == {A[i].tag : i \in 1 .. n}
             R == DetailToAttributes(E)
  <1>1. /\ \A i \in 1 .. n : A[i].tag \in already
        /\ \A i, j \in 1 .. n : A[i].tag = A[j].tag => i = j
    BY DEF OwnElements
  <1>2. PICK TB : B \in Seq(TB)
    BY EmitIs
  <1>3. PICK P : /\ \A tag \in Rest :
                        /\ P[tag] \in Nat /\ P[tag] + Len(d[tag]) <= Len(B)
                        /\ \A j \in 1 .. Len(d[tag]) : B[P[tag] + j] = Block(d, tag)[j]
                 /\ \A i \in 1 .. Len(B) :
                        \E tag \in Rest : P[tag] < i /\ i <= P[tag] + Len(d[tag])
    BY EmitIs
  <1>4. \A tag \in Rest : /\ Block(d, tag) \in Seq(ToSet(Block(d, tag)))
                          /\ Len(Block(d, tag)) = Len(d[tag])
                          /\ Len(d[tag]) \in Nat /\ Len(d[tag]) >= 1
                          /\ \A j \in 1 .. Len(d[tag]) : Block(d, tag)[j].tag = tag
    BY BlockIs
  <1> HIDE DEF B
  <1> DEFINE T == TA \cup TB
  <1>5. A \in Seq(T) /\ B \in Seq(T)
    <2>1. TA \subseteq T /\ TB \subseteq T
      OBVIOUS
    <2> HIDE DEF T
    <2>2. QED
      BY <1>2, <2>1, SeqMonotonic
  <1> HIDE DEF T
  <1>6. /\ E \in Seq(T) /\ n \in Nat /\ Len(B) \in Nat /\ Len(E) = n + Len(B)
        /\ \A i \in 1 .. n : E[i] = A[i]
        /\ \A i \in 1 .. Len(B) : E[n + i] = B[i]
    BY <1>5, Joined
  <1> HIDE DEF E, n
  <1>7. ASSUME NEW i \in 1 .. Len(B)
        PROVE  \E tag \in Rest : /\ P[tag] < i /\ i <= P[tag] + Len(d[tag]) /\ B[i].tag = tag
    <2>1. PICK tag \in Rest : P[tag] < i /\ i <= P[tag] + Len(d[tag])
      BY <1>3
    <2>2. PICK j \in 1 .. Len(d[tag]) : i = P[tag] + j
      <3>1. P[tag] \in Nat /\ Len(d[tag]) \in Nat
        BY <1>3, <1>4
      <3>2. \A p, l \in Nat : \A x \in Nat : p < x /\ x <= p + l => \E j \in 1 .. l : x = p + j
        <4>1. ASSUME NEW p \in Nat, NEW l \in Nat, NEW x \in Nat, p < x, x <= p + l
              PROVE  \E j \in 1 .. l : x = p + j
          <5>1. x - p \in 1 .. l /\ x = p + (x - p)
            BY <4>1
          <5>2. QED
            BY <5>1
        <4>2. QED
          BY <4>1
      <3>3. i \in Nat
        BY <1>6
      <3>4. QED
        BY <2>1, <3>1, <3>2, <3>3
    <2>3. B[P[tag] + j] = Block(d, tag)[j]
      BY <1>3
    <2>4. Block(d, tag)[j].tag = tag
      BY <1>4
    <2>5. QED
      BY <2>1, <2>2, <2>3, <2>4
  <1>8. ASSUME NEW i \in 1 .. Len(E)
        PROVE  i \in 1 .. n \/ \E k \in 1 .. Len(B) : i = n + k
    <2>1. i \in 1 .. n \/ (i - n \in 1 .. Len(B) /\ i = n + (i - n))
      BY <1>6
    <2>2. QED
      BY <2>1
  <1>9. /\ \A i \in 1 .. n : i \in 1 .. Len(E)
        /\ \A k \in 1 .. Len(B) : n + k \in 1 .. Len(E)
    BY <1>6
  <1>10. \A i \in 1 .. n : E[i].tag \in already
    BY <1>1, <1>6
  <1>11. \A k \in 1 .. Len(B) : E[n + k].tag \in Rest
    BY <1>6, <1>7
  <1>12. DOMAIN R = tags \cup Rest /\ \A tag \in DOMAIN R : R[tag] = OfTag(E, tag)
    <2> DEFINE D == {e.tag : e \in ToSet(E)}
    <2>1. D = {E[i].tag : i \in 1 .. Len(E)}
      <3>1. DOMAIN E = 1 .. Len(E)
        BY <1>6, LenProperties
      <3>2. QED
        BY <3>1 DEF ToSet
    <2>2. ASSUME NEW i \in 1 .. Len(E) PROVE E[i].tag \in tags \cup Rest
      <3>1. CASE i \in 1 .. n
        BY <1>6, <3>1
      <3>2. CASE \E k \in 1 .. Len(B) : i = n + k
        BY <1>11, <3>2
      <3>3. QED
        BY <1>8, <3>1, <3>2
    <2>3. ASSUME NEW tag \in tags PROVE tag \in D
      <3>1. PICK i \in 1 .. n : tag = A[i].tag
        OBVIOUS
      <3>2. i \in 1 .. Len(E) /\ E[i].tag = tag
        BY <1>6, <1>9, <3>1
      <3> HIDE DEF D
      <3>3. QED
        BY <2>1, <3>2
    <2>4. ASSUME NEW tag \in Rest PROVE tag \in D
      <3>1. P[tag] + 1 \in 1 .. Len(B) /\ 1 \in 1 .. Len(d[tag])
        <4>1. /\ P[tag] \in Nat /\ Len(d[tag]) \in Nat /\ Len(d[tag]) >= 1
              /\ P[tag] + Len(d[tag]) <= Len(B)
          BY <1>3, <1>4
        <4>2. QED
          BY <1>6, <4>1
      <3>2. B[P[tag] + 1] = Block(d, tag)[1] /\ Block(d, tag)[1].tag = tag
        BY <1>3, <1>4, <3>1
      <3>3. E[n + (P[tag] + 1)].tag = tag /\ n + (P[tag] + 1) \in 1 .. Len(E)
        BY <1>6, <1>9, <3>1, <3>2
      <3>4. QED
        BY <2>1, <3>3
    <2>5. D = tags \cup Rest
      <3> HIDE DEF tags, D, Rest
      <3>1. D \subseteq tags \cup Rest
        BY <2>1, <2>2
      <3>2. QED
        BY <2>3, <2>4, <3>1
    <2>6. R = [tag \in D |-> OfTag(E, tag)]
      BY DEF DetailToAttributes
    <2> HIDE DEF D, R, tags, Rest
    <2>7. QED
      BY <2>5, <2>6
  <1>13. ASSUME NEW i \in 1 .. n PROVE OfTag(E, A[i].tag) = <<A[i]>>
    <2> DEFINE tag == A[i].tag
               q == OfTag(E, tag)
    <2>1. ASSUME NEW x \in 1 .. Len(E)
          PROVE  E[x].tag = tag <=> i - 1 < x /\ x <= (i - 1) + 1
      <3>1. CASE x \in 1 .. n
        <4>1. E[x].tag = tag <=> x = i
          BY <1>1, <1>6, <3>1
        <4>2. i - 1 < x /\ x <= (i - 1) + 1 <=> x = i
          BY <1>6, <3>1
        <4>3. QED
          BY <4>1, <4>2
      <3>2. CASE \E k \in 1 .. Len(B) : x = n + k
        <4>1. E[x].tag # tag
          BY <1>6, <1>10, <1>11, <3>2
        <4>2. ~(x <= (i - 1) + 1)
          BY <1>6, <3>2
        <4>3. QED
          BY <4>1, <4>2
      <3>3. QED
        BY <1>8, <3>1, <3>2
    <2>2. i - 1 \in Nat /\ 1 \in Nat /\ (i - 1) + 1 <= Len(E) /\ (i - 1) + 1 = i
      BY <1>6
    <2> HIDE DEF tag
    <2>3. PICK k \in Nat : k = i - 1
      BY <2>2
    <2>4. k + 1 <= Len(E) /\ \A x \in 1 .. Len(E) : E[x].tag = tag <=> k < x /\ x <= k + 1
      BY <2>1, <2>2, <2>3
    <2>5. Places({x \in 1 .. Len(E) : E[x].tag = tag}, E, k, 1)
      BY <2>4 DEF Places
    <2>6. q \in Seq(T) /\ IsPart(q, E, k, 1)
      BY <1>6, <2>5, OfTagIs
    <2>7. q \in Seq(T) /\ Len(q) = 1 /\ \A j \in 1 .. 1 : q[j] = E[k + j]
      BY <2>6 DEF IsPart
    <2> HIDE DEF q
    <2>8. q[1] = A[i]
      BY <1>6, <2>2, <2>7, <2>3
    <2>9. q = <<q[1]>>
      BY <2>7
    <2>10. QED
      BY <2>8, <2>9 DEF q, tag
  <1>14. ASSUME NEW tag \in Rest PROVE OfTag(E, tag) = Block(d, tag)
    <2> DEFINE k == n + P[tag]
               m == Len(d[tag])
               q == OfTag(E, tag)
               b == Block(d, tag)
    <2>1. /\ P[tag] \in Nat /\ m \in Nat /\ P[tag] + m <= Len(B) /\ k \in Nat /\ k + m <= Len(E)
      BY <1>3, <1>4, <1>6
    <2>2. ASSUME NEW x \in 1 .. Len(E)
          PROVE  E[x].tag = tag <=> k < x /\ x <= k + m
      <3>1. CASE x \in 1 .. n
        <4>1. E[x].tag # tag
          BY <1>10, <3>1
        <4>2. ~(k < x)
          BY <1>6, <2>1, <3>1
        <4>3. QED
          BY <4>1, <4>2
      <3>2. CASE \E y \in 1 .. Len(B) : x = n + y
        <4>1. PICK y \in 1 .. Len(B) : x = n + y
          BY <3>2
        <4>2. PICK u \in Rest : P[u] < y /\ y <= P[u] + Len(d[u]) /\ B[y].tag = u
          BY <1>7
        <4>3. E[x].tag = u
          BY <1>6, <4>1, <4>2
        <4>4. CASE u = tag
          <5>1. k < x /\ x <= k + m
            BY <1>6, <2>1, <4>1, <4>2, <4>4
          <5>2. QED
            BY <4>3, <4>4, <5>1
        <4>5. CASE u # tag
          <5>1. SUFFICES ASSUME k < x, x <= k + m PROVE FALSE
            BY <4>3, <4>5
          <5>2. y - P[tag] \in 1 .. m /\ y = P[tag] + (y - P[tag])
            <6>1. \A z, p, l, w \in Nat :
                      /\ z + p < z + w /\ z + w <= (z + p) + l
                      => w - p \in 1 .. l /\ w = p + (w - p)
              OBVIOUS
            <6>2. n \in Nat /\ P[tag] \in Nat /\ m \in Nat /\ y \in Nat
              BY <1>6, <2>1
            <6>3. n + P[tag] < n + y /\ n + y <= (n + P[tag]) + m
              BY <4>1, <5>1
            <6> HIDE DEF k, m
            <6>4. QED
              BY <6>1, <6>2, <6>3
          <5>3. PICK j \in 1 .. m : y = P[tag] + j
            BY <5>2
          <5>4. B[P[tag] + j] = Block(d, tag)[j] /\ Block(d, tag)[j].tag = tag
            BY <1>3, <1>4
          <5>5. QED
            BY <4>2, <4>5, <5>3, <5>4
        <4>6. QED
          BY <4>4, <4>5
      <3>3. QED
        BY <1>8, <3>1, <3>2
    <2>3. ASSUME NEW j \in 1 .. m PROVE E[k + j] = b[j]
      <3>1. P[tag] + j \in 1 .. Len(B) /\ k + j = n + (P[tag] + j)
        <4>1. k = n + P[tag]
          OBVIOUS
        <4> HIDE DEF k, m
        <4>2. \A p, l, x, y \in Nat : \A z \in 1 .. l :
                  p + l <= x => p + z \in 1 .. x /\ (y + p) + z = y + (p + z)
          OBVIOUS
        <4>3. n \in Nat /\ P[tag] \in Nat /\ m \in Nat /\ Len(B) \in Nat /\ P[tag] + m <= Len(B)
          BY <1>6, <2>1
        <4> HIDE DEF Rest
        <4>4. P[tag] + j \in 1 .. Len(B) /\ (n + P[tag]) + j = n + (P[tag] + j)
          BY <4>2, <4>3
        <4>5. QED
          BY <4>1, <4>4
      <3>2. B[P[tag] + j] = b[j]
        BY <1>3
      <3>3. QED
        BY <1>6, <3>1, <3>2
    <2>4. b \in Seq(ToSet(b)) /\ Len(b) = m
      BY <1>4
    <2> HIDE DEF k, m, b
    <2>5. Places({x \in 1 .. Len(E) : E[x].tag = tag}, E, k, m)
      BY <2>1, <2>2 DEF Places
    <2>6. q \in Seq(T) /\ IsPart(q, E, k, m)
      BY <1>6, <2>5, OfTagIs
    <2>7. q \in Seq(T) /\ Len(q) = m /\ \A j \in 1 .. m : q[j] = E[k + j]
      BY <2>6 DEF IsPart
    <2> HIDE DEF q
    <2>8. q = b
      <3>1. q = [j \in 1 .. m |-> q[j]] /\ b = [j \in 1 .. m |-> b[j]]
        BY <2>4, <2>7, LenProperties
      <3>2. QED
        BY <2>3, <2>7, <3>1
    <2>9. QED
      BY <2>8 DEF q, b
  <1>15. /\ \E S : E \in Seq(S)
         /\ DOMAIN R = tags \cup Rest
         /\ \A i \in 1 .. n : R[A[i].tag] = <<A[i]>>
         /\ \A tag \in Rest : R[tag] = Block(d, tag)
    <2>1. \A i \in 1 .. n : A[i].tag \in tags
      OBVIOUS
    <2> HIDE DEF tags, Rest, R
    <2>2. QED
      BY <1>6, <1>12, <1>13, <1>14, <2>1
  <1>16. QED
    BY <1>15 DEF ReadsAs, R, E, B, n, tags

\* What the code looks up among the elements is the first node of the tag.
LEMMA FindIs ==
    ASSUME NEW T, NEW s \in Seq(T), NEW tag
    PROVE  /\ Find(s, tag) = First(DetailToAttributes(s), tag)
           /\ tag \in DOMAIN DetailToAttributes(s) => Len(DetailToAttributes(s)[tag]) >= 1
  <1> DEFINE I == {i \in 1 .. Len(s) : s[i].tag = tag}
             R == DetailToAttributes(s)
             n == SelectInSeq(s, LAMBDA e : e.tag = tag)
  <1>1. Len(s) \in Nat /\ DOMAIN s = 1 .. Len(s)
    BY LenProperties
  <1>2. n = IF I # {} THEN Min(I) ELSE 0
    BY DEF SelectInSeq
  <1>3. Find(s, tag) = IF n = 0 THEN Element(tag, NoAttrs, None, None) ELSE s[n]
    BY DEF Find
  <1>4. tag \in DOMAIN R <=> I # {}
    BY <1>1 DEF DetailToAttributes, ToSet
  <1>5. tag \in DOMAIN R => R[tag] = Selected(s, I)
    BY <1>1 DEF DetailToAttributes, OfTag
  <1> HIDE DEF n, R
  <1>6. CASE I = {}
    BY <1>2, <1>3, <1>4, <1>6 DEF First, R
  <1>7. CASE I # {}
    <2>1. I \in SUBSET Nat
      OBVIOUS
    <2> HIDE DEF I
    <2>2. Min(I) \in I /\ \A y \in I : Min(I) <= y
      BY <1>7, <2>1, LeastIsIn
    <2>3. Min(I) \in 1 .. Len(s) /\ \A i \in 1 .. Len(s) : i \in I => Min(I) <= i
      BY <2>2 DEF I
    <2>4. Len(Selected(s, I)) >= 1 /\ Selected(s, I)[1] = s[Min(I)]
      BY <2>2, <2>3, SelectedFirst
    <2>5. n = Min(I) /\ n # 0
      BY <1>2, <1>7, <2>3
    <2>6. tag \in DOMAIN R /\ R[tag] = Selected(s, I)
      BY <1>4, <1>5, <1>7 DEF I
    <2>7. Find(s, tag) = R[tag][1] /\ Len(R[tag]) >= 1
      BY <1>3, <2>4, <2>5, <2>6
    <2>8. QED
      BY <2>6, <2>7 DEF First, R
  <1>8. QED
    BY <1>6, <1>7

\* The dict that is read of a <detail> is one.
LEMMA DetailIsOk ==
    ASSUME NEW s, IsDetail(s)
    PROVE  DetailOk(DetailToAttributes(s)) /\ \E T : s \in Seq(T)
  <1> DEFINE T == ToSet(s)
             N == Len(s)
             R == DetailToAttributes(s)
             D == {e.tag : e \in T}
  <1>1. s \in Seq(T) /\ \A e \in T : e = Element(e.tag, e.attrs, e.text, e.children)
    BY DEF IsDetail
  <1>2. N \in Nat /\ DOMAIN s = 1 .. N /\ \A i \in 1 .. N : s[i] \in T
    BY <1>1, LenProperties, ElementOfSeq
  <1>3. R = [tag \in D |-> OfTag(s, tag)]
    BY DEF DetailToAttributes
  <1>4. IsFiniteSet(D)
    <2> DEFINE f == [i \in 1 .. N |-> s[i].tag]
    <2>1. f \in Surjection(1 .. N, D)
      BY <1>2 DEF ToSet, Surjection
    <2>2. IsFiniteSet(1 .. N)
      BY <1>2, FS_Interval
    <2> HIDE DEF f, D, N
    <2>3. QED
      BY <2>1, <2>2, FS_Surjection
  <1>5. ASSUME NEW tag \in D
        PROVE  /\ R[tag] \in Seq(ToSet(R[tag])) /\ Len(R[tag]) >= 1
               /\ \A i \in 1 .. Len(R[tag]) : IsElement(R[tag][i], tag)
    <2> DEFINE I == {i \in DOMAIN s : s[i].tag = tag}
               q == R[tag]
    <2>1. q = Selected(s, I)
      BY <1>3 DEF OfTag
    <2>2. Len(q) >= 1
      BY <1>1, <1>3, FindIs
    <2> HIDE DEF I, q
    <2>3. q \in Seq(T) /\ \E h : Takes(q, s, I, h)
      BY <1>1, <2>1, SelectedTakes
    <2>4. PICK h : Takes(q, s, I, h)
      BY <2>3
    <2>5. Len(q) \in Nat /\ DOMAIN q = 1 .. Len(q) /\ q = [i \in 1 .. Len(q) |-> q[i]]
      BY <2>3, LenProperties
    <2>6. q \in Seq(ToSet(q))
      <3>1. ToSet(q) = {q[i] : i \in 1 .. Len(q)}
        BY <2>5 DEF ToSet
      <3>2. \A i \in 1 .. Len(q) : q[i] \in ToSet(q)
        BY <3>1
      <3>3. QED
        BY <2>5, <3>2
    <2>7. ASSUME NEW i \in 1 .. Len(q) PROVE IsElement(q[i], tag)
      <3>1. q[i] = s[h[i]] /\ h[i] \in I /\ h[i] \in 1 .. N
        BY <2>4 DEF Takes
      <3>2. s[h[i]].tag = tag /\ s[h[i]] \in T
        BY <1>2, <3>1 DEF I
      <3> HIDE DEF T
      <3>3. QED
        BY <1>1, <3>1, <3>2 DEF IsElement
    <2>8. QED
      BY <2>2, <2>6, <2>7 DEF q
  <1>6. DOMAIN R = D /\ R = [tag \in DOMAIN R |-> R[tag]]
    BY <1>3
  <1> HIDE DEF R, D
  <1>7. DetailOk(R)
    BY <1>4, <1>5, <1>6 DEF DetailOk
  <1>8. QED
    BY <1>1, <1>7 DEF R

-----------------------------------------------------------------------------
(* The CTOs that are forwarded: what is read of a message goes together, as *)
(* far as writing it again depends on that.                                 *)

NoText == {"", "bad"}
NoNumber == {"", "bad", NoData}
CtoOk(c) ==
    /\ DetailOk(c.detail)
    /\ c.type # <<>> => c.affil = AffiliationOf(c.type) /\ c.dim = DimensionOf(c.type)
    /\ c.type = <<>> => c.affil \in Affiliation \cup {None} /\ c.dim = None
    /\ c.callsign = "" => Lookup(First(c.detail, "contact").attrs, "callsign") = ""
    /\ c.course \notin NoText /\ c.speed \notin NoText
    /\ c.ce \notin NoNumber
    /\ \/ c.alt = <<>>
       \/ \E hae, le : /\ c.alt = <<hae, le>>
                       /\ hae \notin NoFloat /\ le \notin NoNumber

\* What is read of a <track> that has been found.
TrackRead(attrs, a) ==
    IF "bad" \in {Lookup(attrs, "course"), Lookup(attrs, "speed")} \/ Lookup(attrs, a) = "" THEN None
    ELSE Lookup(attrs, a)

\* The fields of a CTO that comes from XML are those in its <detail>.
FromXml(c) ==
    /\ c.callsign = Lookup(First(c.detail, "contact").attrs, "callsign")
    /\ c.remarks = First(c.detail, "remarks").text
    /\ \A a \in {"course", "speed"} : c[a] = TrackRead(First(c.detail, "track").attrs, a)

LEMMA NamesDiffer ==
    /\ None # "" /\ None # "bad" /\ None # NoData /\ None # "0" /\ "0" \notin NoFloat
    /\ NoData # "" /\ NoData # "bad" /\ NoData \notin NoFloat
    /\ \A v : /\ Decimals(Decimals(v)) = Decimals(v)
              /\ \A w \in {None, "", "bad", NoData} : Decimals(v) = w <=> v = w
              /\ Less(v) # NoData /\ (v # NoData => Less(v) = v)
              /\ (Less(v) = v \/ Less(v) = None)
    /\ \A v : Millis(Millis(v)) = Millis(v)
  BY DEF None, NoData, NoFloat, Decimals, Less, Millis

LEMMA DecimalsAre ==
    /\ Decimals(None) = None /\ Decimals(NoData) = NoData
    /\ \A v : Decimals(Decimals(v)) = Decimals(v) /\ (Decimals(v) = None <=> v = None)
  BY NamesDiffer

\* An altitude that was written and read does not change any more.
AltWritten(alt) ==
    IF alt = <<>> THEN <<NoData, None>> ELSE <<Decimals(alt[1]), Decimals(alt[2])>>

LEMMA AltOnce == ASSUME NEW alt PROVE AltWritten(AltWritten(alt)) = AltWritten(alt)
  <1>1. ASSUME NEW u, NEW v PROVE AltWritten(<<u, v>>) = <<Decimals(u), Decimals(v)>>
    <2>1. <<u, v>> # <<>> /\ <<u, v>>[1] = u /\ <<u, v>>[2] = v
      OBVIOUS
    <2>2. QED
      BY <2>1 DEF AltWritten
  <1>2. CASE alt = <<>>
    <2>1. AltWritten(alt) = <<NoData, None>>
      BY <1>2 DEF AltWritten
    <2>2. AltWritten(<<NoData, None>>) = <<NoData, None>>
      BY <1>1, DecimalsAre
    <2>3. QED
      BY <2>1, <2>2
  <1>3. CASE alt # <<>>
    <2>1. PICK u, v : u = alt[1] /\ v = alt[2]
      OBVIOUS
    <2>2. AltWritten(alt) = <<Decimals(u), Decimals(v)>>
      BY <1>3, <2>1 DEF AltWritten
    <2>3. AltWritten(<<Decimals(u), Decimals(v)>>) = <<Decimals(u), Decimals(v)>>
      <3>1. Decimals(Decimals(u)) = Decimals(u) /\ Decimals(Decimals(v)) = Decimals(v)
        BY DecimalsAre
      <3>2. QED
        BY <1>1, <3>1
    <2>4. QED
      BY <2>2, <2>3
  <1>4. QED
    BY <1>2, <1>3

LEMMA TypesAre ==
    /\ AffiliationOf(<<>>) = None /\ DimensionOf(<<>>) = None
    /\ \A a \in Affiliation \cup {None} :
           /\ Synthesized(a, None) # <<>>
           /\ AffiliationOf(Synthesized(a, None)) = Default(a, "unknown")
           /\ DimensionOf(Synthesized(a, None)) = "land"
  <1>1. None \notin DOMAIN AffiliationMap /\ None \notin DOMAIN DimensionMap
    BY DEF None, AffiliationMap, DimensionMap
  <1>2. Part(<<>>, 2) = None /\ Part(<<>>, 3) = None
    BY DEF Part
  <1>3. AffiliationOf(<<>>) = None /\ DimensionOf(<<>>) = None
    BY <1>1, <1>2 DEF AffiliationOf, DimensionOf, Lookup
  <1>4. ASSUME NEW a \in Affiliation \cup {None}
        PROVE  \E k \in DOMAIN AffiliationMap :
                   /\ Synthesized(a, None) = <<"a", k, "G">>
                   /\ AffiliationMap[k] = Default(a, "unknown")
    <2> DEFINE I == {i \in 1 .. Len(AffiliationKeys) : AffiliationMap[AffiliationKeys[i]] = a}
               n == SelectInSeq(AffiliationKeys, LAMBDA k : AffiliationMap[k] = a)
               key == IF n = 0 THEN "u" ELSE AffiliationKeys[n]
    <2>1. n = IF I # {} THEN Min(I) ELSE 0
      BY DEF SelectInSeq
    <2>2. {k \in DOMAIN DimensionMap : DimensionMap[k] = None} = {}
      BY DEF DimensionMap, None
    <2>3. Synthesized(a, None) = <<"a", key, "G">>
      BY <2>2 DEF Synthesized
    <2>4. /\ Len(AffiliationKeys) = 9
          /\ \A i \in 1 .. 9 : AffiliationKeys[i] \in DOMAIN AffiliationMap
      BY DEF AffiliationKeys, AffiliationMap
    <2>5. "u" \in DOMAIN AffiliationMap /\ AffiliationMap["u"] = "unknown"
      BY DEF AffiliationMap
    <2>6. CASE I = {}
      <3>1. a \notin Affiliation
        <4>1. \A x \in Affiliation : \E i \in 1 .. 9 : AffiliationMap[AffiliationKeys[i]] = x
          <5>1. /\ AffiliationMap[AffiliationKeys[1]] = "friend"
                /\ AffiliationMap[AffiliationKeys[2]] = "hostile"
                /\ AffiliationMap[AffiliationKeys[3]] = "neutral"
                /\ AffiliationMap[AffiliationKeys[4]] = "unknown"
                /\ AffiliationMap[AffiliationKeys[5]] = "pending"
                /\ AffiliationMap[AffiliationKeys[6]] = "suspect"
                /\ AffiliationMap[AffiliationKeys[7]] = "assumed_friend"
            BY DEF AffiliationKeys, AffiliationMap
          <5>2. QED
            BY <5>1 DEF Affiliation
        <4>2. QED
          BY <2>4, <2>6, <4>1
      <3>2. key = "u" /\ Default(a, "unknown") = "unknown"
        BY <2>1, <2>6, <3>1 DEF Default
      <3>3. QED
        BY <2>3, <2>5, <3>2
    <2>7. CASE I # {}
      <3>1. I \in SUBSET Nat
        OBVIOUS
      <3>2. Min(I) \in I
        <4> HIDE DEF I
        <4>1. QED
          BY <2>7, <3>1, LeastIsIn
      <3>3. Min(I) \in 1 .. 9 /\ AffiliationMap[AffiliationKeys[Min(I)]] = a
        BY <2>4, <3>2
      <3>4. key = AffiliationKeys[Min(I)]
        BY <2>1, <2>7, <3>3
      <3>5. a # None
        <4>1. \A k \in DOMAIN AffiliationMap : AffiliationMap[k] # None
          BY DEF AffiliationMap, None
        <4> HIDE DEF I
        <4>2. QED
          BY <2>4, <3>3, <4>1
      <3>6. QED
        BY <2>3, <2>4, <3>3, <3>4, <3>5 DEF Default
    <2>8. QED
      BY <2>6, <2>7
  <1>5. \A k : Part(<<"a", k, "G">>, 2) = k /\ Part(<<"a", k, "G">>, 3) = "G"
    BY DEF Part
  <1>6. "G" \in DOMAIN DimensionMap /\ DimensionMap["G"] = "land"
    BY DEF DimensionMap
  <1>7. ASSUME NEW a \in Affiliation \cup {None}
        PROVE  /\ Synthesized(a, None) # <<>>
               /\ AffiliationOf(Synthesized(a, None)) = Default(a, "unknown")
               /\ DimensionOf(Synthesized(a, None)) = "land"
    <2>1. PICK k \in DOMAIN AffiliationMap :
                   /\ Synthesized(a, None) = <<"a", k, "G">>
                   /\ AffiliationMap[k] = Default(a, "unknown")
      BY <1>4
    <2>2. QED
      BY <1>5, <1>6, <2>1 DEF AffiliationOf, DimensionOf, Lookup
  <1>8. QED
    BY <1>3, <1>7

-----------------------------------------------------------------------------
(* What is written from fields of the CTO.                                  *)

FieldTags(c) ==
    {tag \in {"contact", "track", "remarks"} :
        /\ tag = "contact" => c.callsign \notin {None, ""}
        /\ tag = "track" => c.course # None \/ c.speed # None
        /\ tag = "remarks" => c.remarks # None}
FieldOf(c, tag) ==
    IF tag = "contact" THEN Element(tag, [a \in {"callsign"} |-> c.callsign], None, None)
    ELSE IF tag = "track"
    THEN Element(tag, [a \in {x \in {"course", "speed"} : c[x] # None} |-> Decimals(c[a])], None, None)
    ELSE Element(tag, NoAttrs, c.remarks, None)

\* A list of elements of different tags, and what it is made of.
MadeOf(s, X) ==
    /\ s \in Seq(X) /\ \A x \in X : \E i \in 1 .. Len(s) : s[i] = x
    /\ \A i, j \in 1 .. Len(s) : s[i].tag = s[j].tag => i = j

LEMMA MadeOfOneMore ==
    ASSUME NEW s, NEW X, MadeOf(s, X), NEW x, \A y \in X : y.tag # x.tag
    PROVE  MadeOf(s \o <<x>>, X \cup {x})
  <1> DEFINE Y == X \cup {x}
             u == s \o <<x>>
             n == Len(s)
  <1>1. /\ s \in Seq(X) /\ \A y \in X : \E i \in 1 .. n : s[i] = y
        /\ \A i, j \in 1 .. n : s[i].tag = s[j].tag => i = j
    BY DEF MadeOf
  <1>2. s \in Seq(Y) /\ <<x>> \in Seq(Y) /\ Len(<<x>>) = 1 /\ <<x>>[1] = x
    <2>1. X \subseteq Y /\ x \in Y
      OBVIOUS
    <2> HIDE DEF Y
    <2>2. s \in Seq(Y)
      BY <1>1, <2>1, SeqMonotonic
    <2>3. QED
      BY <2>1, <2>2
  <1> HIDE DEF Y
  <1>3. /\ u \in Seq(Y) /\ n \in Nat /\ Len(u) = n + Len(<<x>>)
        /\ \A i \in 1 .. n : u[i] = s[i]
        /\ \A i \in 1 .. Len(<<x>>) : u[n + i] = <<x>>[i]
    BY <1>2, Joined
  <1> HIDE DEF u
  <1>4. Len(u) = n + 1 /\ u[n + 1] = x /\ \A i \in 1 .. n : s[i] \in X
    BY <1>1, <1>2, <1>3, ElementOfSeq
  <1> HIDE DEF n
  <1>5. \A i \in 1 .. Len(u) : i \in 1 .. n \/ i = n + 1
    BY <1>3, <1>4
  <1>6. \A i \in 1 .. n : i \in 1 .. Len(u) /\ i # n + 1
    BY <1>3, <1>4
  <1>7. n + 1 \in 1 .. Len(u)
    BY <1>3, <1>4
  <1>8. \A y \in Y : \E i \in 1 .. Len(u) : u[i] = y
    BY <1>1, <1>3, <1>4, <1>6, <1>7 DEF Y
  <1>9. ASSUME NEW i \in 1 .. Len(u), NEW j \in 1 .. Len(u), u[i].tag = u[j].tag PROVE i = j
    <2>1. CASE i \in 1 .. n /\ j \in 1 .. n
      BY <1>1, <1>3, <1>9, <2>1
    <2>2. CASE i \in 1 .. n /\ j = n + 1
      BY <1>3, <1>4, <1>9, <2>2
    <2>3. CASE i = n + 1 /\ j \in 1 .. n
      BY <1>3, <1>4, <1>9, <2>3
    <2>4. QED
      BY <1>5, <2>1, <2>2, <2>3
  <1>10. QED
    BY <1>3, <1>8, <1>9 DEF MadeOf, u, Y

LEMMA MadeOfIf ==
    ASSUME NEW s, NEW X, MadeOf(s, X), NEW x, \A y \in X : y.tag # x.tag, NEW p \in BOOLEAN
    PROVE  MadeOf(s \o (IF p THEN <<x>> ELSE <<>>), IF p THEN X \cup {x} ELSE X)
  <1>1. CASE p
    BY <1>1, MadeOfOneMore
  <1>2. CASE ~p
    <2>1. s \in Seq(X)
      BY DEF MadeOf
    <2>2. s \o <<>> = s
      BY <2>1, ConcatEmptySeq
    <2>3. QED
      BY <1>2, <2>2
  <1>3. QED
    BY <1>1, <1>2

LEMMA FieldElementsAre ==
    ASSUME NEW c
    PROVE  MadeOf(FieldElements(c), {FieldOf(c, tag) : tag \in FieldTags(c)})
  <1> DEFINE p1 == c.callsign \notin {None, ""}
             p2 == c.course # None \/ c.speed # None
             p3 == c.remarks # None
             x1 == FieldOf(c, "contact")
             x2 == FieldOf(c, "track")
             x3 == FieldOf(c, "remarks")
             s1 == IF p1 THEN <<x1>> ELSE <<>>
             s2 == s1 \o (IF p2 THEN <<x2>> ELSE <<>>)
             s3 == s2 \o (IF p3 THEN <<x3>> ELSE <<>>)
             X1 == IF p1 THEN {x1} ELSE {}
             X2 == IF p2 THEN X1 \cup {x2} ELSE X1
             X3 == IF p3 THEN X2 \cup {x3} ELSE X2
  <1>1. x1.tag = "contact" /\ x2.tag = "track" /\ x3.tag = "remarks"
    BY DEF FieldOf, Element
  <1>2. FieldElements(c) = s3
    <2> DEFINE track == {a \in {"course", "speed"} : c[a] # None}
    <2>1. track = {} <=> ~p2
      OBVIOUS
    <2>2. x2 = Element("track", [a \in track |-> Decimals(c[a])], None, None)
      BY DEF FieldOf
    <2>3. x1 = Element("contact", [a \in {"callsign"} |-> c.callsign], None, None)
      BY DEF FieldOf
    <2>4. x3 = Element("remarks", NoAttrs, c.remarks, None)
      BY DEF FieldOf
    <2> HIDE DEF x1, x2, x3
    <2>5. FieldElements(c) =
              (IF c.callsign \in {None, ""} THEN <<>> ELSE <<x1>>)
              \o (IF track = {} THEN <<>> ELSE <<x2>>)
              \o (IF c.remarks = None THEN <<>> ELSE <<x3>>)
      BY <2>2, <2>3, <2>4 DEF FieldElements
    <2> HIDE DEF track
    <2>6. /\ (IF c.callsign \in {None, ""} THEN <<>> ELSE <<x1>>) = s1
          /\ (IF track = {} THEN <<>> ELSE <<x2>>) = (IF p2 THEN <<x2>> ELSE <<>>)
          /\ (IF c.remarks = None THEN <<>> ELSE <<x3>>) = (IF p3 THEN <<x3>> ELSE <<>>)
      BY <2>1
    <2>7. QED
      BY <2>5, <2>6
  <1>3. X3 = {FieldOf(c, tag) : tag \in FieldTags(c)}
    <2>1. FieldTags(c) = (IF p1 THEN {"contact"} ELSE {}) \cup (IF p2 THEN {"track"} ELSE {})
                         \cup (IF p3 THEN {"remarks"} ELSE {})
      BY DEF FieldTags
    <2> HIDE DEF p1, p2, p3
    <2>2. {FieldOf(c, tag) : tag \in FieldTags(c)} =
              (IF p1 THEN {x1} ELSE {}) \cup (IF p2 THEN {x2} ELSE {}) \cup (IF p3 THEN {x3} ELSE {})
      BY <2>1
    <2> HIDE DEF x1, x2, x3
    <2>3. QED
      BY <2>2
  <1> HIDE DEF x1, x2, x3
  <1>4. p1 \in BOOLEAN /\ p2 \in BOOLEAN /\ p3 \in BOOLEAN
    OBVIOUS
  <1> HIDE DEF p1, p2, p3
  <1>5. MadeOf(s1, X1)
    <2>1. CASE p1
      <3>1. s1 = <<x1>> /\ X1 = {x1}
        BY <2>1
      <3>2. MadeOf(<<x1>>, {x1})
        BY DEF MadeOf
      <3>3. QED
        BY <3>1, <3>2
    <2>2. CASE ~p1
      <3>1. s1 = <<>> /\ X1 = {}
        BY <2>2
      <3>2. MadeOf(<<>>, {})
        BY DEF MadeOf
      <3>3. QED
        BY <3>1, <3>2
    <2>3. QED
      BY <2>1, <2>2
  <1>6. /\ \A y \in X1 : y.tag # x2.tag
        /\ \A y \in X2 : y.tag # x3.tag
    BY <1>1
  <1> HIDE DEF s1, X1
  <1>7. MadeOf(s2, X2)
    BY <1>4, <1>5, <1>6, MadeOfIf
  <1> HIDE DEF s2, X2
  <1>8. MadeOf(s3, X3)
    BY <1>4, <1>6, <1>7, MadeOfIf
  <1>9. QED
    BY <1>2, <1>3, <1>8

-----------------------------------------------------------------------------
(* CoT XML.                                                                 *)

\* What is read goes together.
LEMMA XmlToCtoIs ==
    ASSUME NEW e, NEW T, e.detail \in Seq(T), DetailOk(DetailToAttributes(e.detail))
    PROVE  CtoOk(XmlToCto(e)) /\ FromXml(XmlToCto(e)) /\ XmlToCto(e).type = e.type
  <1> DEFINE c == XmlToCto(e)
             d == DetailToAttributes(e.detail)
             track == Find(e.detail, "track").attrs
  <1>1. /\ c.type = e.type /\ c.affil = AffiliationOf(e.type) /\ c.dim = DimensionOf(e.type)
        /\ c.alt = XmlAltitude(e)
        /\ c.ce = IF e.ce \in NoFloat THEN None ELSE Less(e.ce)
        /\ c.callsign = Lookup(Find(e.detail, "contact").attrs, "callsign")
        /\ c.remarks = Find(e.detail, "remarks").text
        /\ c.detail = d
    BY DEF XmlToCto
  <1>2. \A tag : Find(e.detail, tag) = First(d, tag)
    BY FindIs
  <1>3. /\ c.course = TrackRead(track, "course") /\ c["course"] = TrackRead(track, "course")
        /\ c.speed = TrackRead(track, "speed") /\ c["speed"] = TrackRead(track, "speed")
    BY DEF XmlToCto, TrackRead
  <1> HIDE DEF c, track
  <1>4. track = First(d, "track").attrs
    BY <1>2 DEF track
  <1>5. FromXml(c)
    BY <1>1, <1>2, <1>3, <1>4 DEF FromXml
  <1>6. c.course \notin NoText /\ c.speed \notin NoText
    BY <1>3, NamesDiffer DEF TrackRead, NoText
  <1>7. c.ce \notin NoNumber
    BY <1>1, NamesDiffer DEF NoFloat, NoNumber
  <1>8. \/ c.alt = <<>>
        \/ \E hae, le : /\ c.alt = <<hae, le>>
                        /\ hae \notin NoFloat /\ le \notin NoNumber
    <2>1. CASE e.hae \in NoFloat \/ e.le \in NoFloat \ {None}
      BY <1>1, <2>1 DEF XmlAltitude
    <2>2. CASE ~(e.hae \in NoFloat \/ e.le \in NoFloat \ {None})
      <3>1. c.alt = <<e.hae, Less(e.le)>>
        BY <1>1, <2>2 DEF XmlAltitude
      <3>2. Less(e.le) \notin NoNumber
        BY <2>2, NamesDiffer DEF NoFloat, NoNumber
      <3>3. QED
        BY <2>2, <3>1, <3>2
    <2>3. QED
      BY <2>1, <2>2
  <1>9. c.type = <<>> => c.affil = None /\ c.dim = None
    BY <1>1, TypesAre
  <1>10. c.callsign = "" => Lookup(First(c.detail, "contact").attrs, "callsign") = ""
    BY <1>5 DEF FromXml
  <1>11. CtoOk(c)
    BY <1>1, <1>6, <1>7, <1>8, <1>9, <1>10 DEF CtoOk
  <1>12. QED
    BY <1>1, <1>5, <1>11 DEF c

\* What a CTO becomes that is written and read.
LEMMA XmlHopDetail ==
    ASSUME NEW c, DetailOk(c.detail)
    PROVE  LET h == XmlHop(c)
           IN  /\ \E T : XmlDetail(c) \in Seq(T)
               /\ h.detail = DetailToAttributes(XmlDetail(c)) /\ DetailOk(h.detail)
               /\ DOMAIN h.detail = FieldTags(c) \cup DOMAIN c.detail
               /\ \A tag \in FieldTags(c) : h.detail[tag] = <<FieldOf(c, tag)>>
               /\ \A tag \in DOMAIN c.detail \ FieldTags(c) : h.detail[tag] = Block(c.detail, tag)
  <1> DEFINE X == {FieldOf(c, tag) : tag \in FieldTags(c)}
             A == FieldElements(c)
             F == FieldTags(c)
             d == c.detail
             E == A \o EmitDetail(d, F)
             R == DetailToAttributes(E)
  <1>1. \A tag \in F : FieldOf(c, tag).tag = tag /\ IsElement(FieldOf(c, tag), tag)
    BY DEF FieldTags, FieldOf, Element, IsElement
  <1>2. /\ A \in Seq(X) /\ \A x \in X : \E i \in 1 .. Len(A) : A[i] = x
        /\ \A i, j \in 1 .. Len(A) : A[i].tag = A[j].tag => i = j
    BY FieldElementsAre DEF MadeOf
  <1> HIDE DEF A
  <1>3. \A i \in 1 .. Len(A) : \E tag \in F : A[i] = FieldOf(c, tag) /\ A[i].tag = tag
    <2>1. ASSUME NEW i \in 1 .. Len(A) PROVE \E tag \in F : A[i] = FieldOf(c, tag) /\ A[i].tag = tag
      <3>1. A[i] \in X
        <4> HIDE DEF X
        <4>1. QED
          BY <1>2, ElementOfSeq
      <3>2. PICK tag \in F : A[i] = FieldOf(c, tag)
        BY <3>1
      <3>3. QED
        BY <1>1, <3>2
    <2>2. QED
      BY <2>1
  <1>4. \A tag \in F : \E i \in 1 .. Len(A) : A[i] = FieldOf(c, tag) /\ A[i].tag = tag
    BY <1>1, <1>2
  <1>5. {e.tag : e \in ToSet(A)} = F
    <2>1. DOMAIN A = 1 .. Len(A)
      BY <1>2, LenProperties
    <2>2. ToSet(A) = {A[i] : i \in 1 .. Len(A)}
      BY <2>1 DEF ToSet
    <2> HIDE DEF F
    <2>3. QED
      BY <1>3, <1>4, <2>2
  <1>6. {A[i].tag : i \in 1 .. Len(A)} = F
    <2> HIDE DEF F
    <2>1. QED
      BY <1>3, <1>4
  <1>7. XmlDetail(c) = E
    BY <1>5 DEF XmlDetail, A
  <1>8. XmlHop(c).detail = R
    <2>1. \A e : XmlToCto(e).detail = DetailToAttributes(e.detail)
      BY DEF XmlToCto
    <2>2. CtoToXml(c).detail = XmlDetail(c)
      BY DEF CtoToXml
    <2>3. XmlHop(c).detail = DetailToAttributes(XmlDetail(c))
      BY <2>1, <2>2 DEF XmlHop
    <2> HIDE DEF E
    <2>4. QED
      BY <1>7, <2>3
  <1>9. \A i \in 1 .. Len(A) : A[i].tag \in F
    BY <1>3
  <1> HIDE DEF X, F, d
  <1>10. DetailOk(d)
    BY DEF d
  <1>11. /\ \E T : E \in Seq(T)
         /\ DOMAIN R = {A[i].tag : i \in 1 .. Len(A)} \cup (DOMAIN d \ F)
         /\ \A i \in 1 .. Len(A) : R[A[i].tag] = <<A[i]>>
         /\ \A tag \in DOMAIN d \ F : R[tag] = Block(d, tag)
    <2>1. A \in Seq(X) /\ OwnElements(A, F)
      BY <1>2, <1>9 DEF OwnElements
    <2>2. ReadsAs(A \o EmitDetail(d, F), A, d, F)
      <3> HIDE DEF E, R
      <3>1. QED
        BY <1>10, <2>1, DetailRead
    <2>3. QED
      BY <2>2 DEF ReadsAs
  <1>12. DOMAIN R = F \cup DOMAIN d
    BY <1>6, <1>11
  <1>13. \A tag \in F : R[tag] = <<FieldOf(c, tag)>>
    BY <1>4, <1>11
  <1>14. DetailOk(R)
    <2>1. R = [tag \in DOMAIN R |-> R[tag]]
      BY DEF DetailToAttributes
    <2>2. IsFiniteSet(DOMAIN R)
      <3>1. IsFiniteSet({"contact", "track", "remarks"})
        <4>1. IsFiniteSet({"contact"}) /\ IsFiniteSet({"track"}) /\ IsFiniteSet({"remarks"})
          BY FS_Singleton
        <4>2. IsFiniteSet({"contact"} \cup {"track"})
          BY <4>1, FS_Union
        <4>3. IsFiniteSet(({"contact"} \cup {"track"}) \cup {"remarks"})
          BY <4>1, <4>2, FS_Union
        <4>4. ({"contact"} \cup {"track"}) \cup {"remarks"} = {"contact", "track", "remarks"}
          OBVIOUS
        <4>5. QED
          BY <4>3, <4>4
      <3>2. IsFiniteSet(F)
        BY <3>1, FS_Subset DEF F, FieldTags
      <3>3. IsFiniteSet(DOMAIN d)
        BY <1>10 DEF DetailOk
      <3>4. QED
        BY <1>12, <3>2, <3>3, FS_Union
    <2> HIDE DEF R
    <2>3. ASSUME NEW tag \in DOMAIN R
          PROVE  /\ R[tag] \in Seq(ToSet(R[tag])) /\ Len(R[tag]) >= 1
                 /\ \A i \in 1 .. Len(R[tag]) : IsElement(R[tag][i], tag)
      <3>1. CASE tag \in F
        <4>1. R[tag] = <<FieldOf(c, tag)>> /\ IsElement(FieldOf(c, tag), tag)
          BY <1>1, <1>13, <3>1 DEF F
        <4> DEFINE x == FieldOf(c, tag)
        <4>2. \A q : q = <<x>> => q \in Seq(ToSet(q)) /\ Len(q) = 1 /\ q[1] = x
          <5> HIDE DEF x
          <5>1. ToSet(<<x>>) = {x}
            BY DEF ToSet
          <5>2. QED
            BY <5>1
        <4>3. QED
          BY <4>1, <4>2
      <3>2. CASE tag \in DOMAIN d \ F
        <4>1. /\ R[tag] \in Seq(ToSet(R[tag])) /\ Len(R[tag]) = Len(d[tag]) /\ Len(d[tag]) >= 1
              /\ \A i \in 1 .. Len(d[tag]) : R[tag][i] = Writable(d[tag][i])
          BY <1>10, <1>11, <3>2, BlockIs
        <4>2. \A i \in 1 .. Len(d[tag]) : IsElement(d[tag][i], tag)
          BY <1>10, <3>2 DEF DetailOk
        <4>3. QED
          BY <4>1, <4>2, WritableIs
      <3>3. QED
        BY <1>12, <3>1, <3>2
    <2>4. QED
      BY <2>1, <2>2, <2>3 DEF DetailOk
  <1> HIDE DEF R, E
  <1>15. /\ \E T : XmlDetail(c) \in Seq(T)
         /\ XmlHop(c).detail = DetailToAttributes(XmlDetail(c)) /\ DetailOk(XmlHop(c).detail)
         /\ DOMAIN XmlHop(c).detail = F \cup DOMAIN d
         /\ \A tag \in F : XmlHop(c).detail[tag] = <<FieldOf(c, tag)>>
         /\ \A tag \in DOMAIN d \ F : XmlHop(c).detail[tag] = Block(d, tag)
    BY <1>7, <1>8, <1>11, <1>12, <1>13, <1>14 DEF R
  <1>16. QED
    BY <1>15 DEF F, d

\* All fields of a CTO.
IsCto(c) ==
    c = [type |-> c.type, affil |-> c.affil, dim |-> c.dim, uid |-> c.uid, time |-> c.time,
         from |-> c.from, to |-> c.to, how |-> c.how, extras |-> c.extras, alt |-> c.alt,
         ce |-> c.ce, course |-> c.course, speed |-> c.speed, callsign |-> c.callsign,
         remarks |-> c.remarks, detail |-> c.detail]

XmlRead(e, c) ==
    /\ c.type = e.type /\ c.affil = AffiliationOf(e.type) /\ c.dim = DimensionOf(e.type)
    /\ c.uid = e.uid /\ c.time = e.time /\ c.from = e.start /\ c.to = e.stale
    /\ c.how = e.how /\ c.extras = e.extras /\ c.alt = XmlAltitude(e)
    /\ c.ce = IF e.ce \in NoFloat THEN None ELSE Less(e.ce)
    /\ IsCto(c)

LEMMA XmlReadIs == ASSUME NEW e PROVE XmlRead(e, XmlToCto(e))
  BY DEF XmlToCto, XmlRead, IsCto

LEMMA XmlHopFields ==
    ASSUME NEW c, CtoOk(c), NEW h, h = XmlHop(c)
    PROVE  /\ IsCto(h) /\ CtoOk(h) /\ FromXml(h)
           /\ h.type = IF c.type = <<>> THEN Synthesized(c.affil, c.dim) ELSE c.type
           /\ h.affil = AffiliationOf(h.type) /\ h.dim = DimensionOf(h.type)
           /\ h.uid = Default(c.uid, "uid of the CTO") /\ h.time = c.time
           /\ h.from = Default(c.from, c.time) /\ h.to = Default(c.to, c.time)
           /\ h.how = c.how /\ h.extras = c.extras /\ h.ce = Decimals(c.ce)
           /\ h.alt = AltWritten(c.alt)
  <1>1. PICK e : e = CtoToXml(c)
    OBVIOUS
  <1>2. h = XmlToCto(e)
    BY <1>1 DEF XmlHop
  <1>3. XmlRead(e, h)
    BY <1>2, XmlReadIs
  <1>4. /\ e.type = IF c.type = <<>> THEN Synthesized(c.affil, c.dim) ELSE c.type
        /\ e.uid = Default(c.uid, "uid of the CTO") /\ e.time = c.time
        /\ e.start = Default(c.from, c.time) /\ e.stale = Default(c.to, c.time)
        /\ e.how = c.how /\ e.extras = c.extras
        /\ e.hae = IF c.alt = <<>> THEN NoData ELSE Decimals(c.alt[1])
        /\ e.le = IF c.alt = <<>> THEN NoData ELSE Default(Decimals(c.alt[2]), NoData)
        /\ e.ce = Default(Decimals(c.ce), NoData)
        /\ e.detail = XmlDetail(c)
    BY <1>1 DEF CtoToXml
  <1>5. h.ce = Decimals(c.ce)
    <2>1. c.ce \notin {"", "bad", NoData}
      BY DEF CtoOk, NoNumber
    <2>2. /\ e.ce = Default(Decimals(c.ce), NoData)
          /\ h.ce = IF e.ce \in NoFloat THEN None ELSE Less(e.ce)
      BY <1>3, <1>4 DEF XmlRead
    <2>3. QED
      BY <2>1, <2>2, NamesDiffer DEF NoFloat, Default
  <1>6. h.alt = AltWritten(c.alt)
    <2>1. h.alt = XmlAltitude(e)
      BY <1>3 DEF XmlRead
    <2>2. CASE c.alt = <<>>
      <3>1. e.hae = NoData /\ e.le = NoData
        BY <1>4, <2>2
      <3>2. Less(NoData) = None
        BY DEF Less
      <3>3. QED
        BY <2>1, <2>2, <3>1, <3>2, NamesDiffer DEF XmlAltitude, AltWritten
    <2>3. CASE c.alt # <<>>
      <3>1. c.alt[1] \notin NoFloat /\ c.alt[2] \notin NoNumber
        <4>1. PICK hae, le : c.alt = <<hae, le>> /\ hae \notin NoFloat /\ le \notin NoNumber
          BY <2>3 DEF CtoOk
        <4>2. QED
          BY <4>1
      <3>2. e.hae = Decimals(c.alt[1]) /\ e.le = Default(Decimals(c.alt[2]), NoData)
        BY <1>4, <2>3
      <3>3. e.hae \notin NoFloat
        BY <3>1, <3>2, NamesDiffer DEF NoFloat
      <3>4. e.le \notin NoFloat /\ Less(e.le) = Decimals(c.alt[2])
        <4>1. PICK v : v = Decimals(c.alt[2])
          OBVIOUS
        <4>2. v \notin {"", "bad", NoData}
          BY <3>1, <4>1, NamesDiffer DEF NoNumber
        <4>3. e.le = IF v = None THEN NoData ELSE v
          BY <3>2, <4>1 DEF Default
        <4>4. CASE v = None
          BY <4>1, <4>3, <4>4, NamesDiffer DEF Less
        <4>5. CASE v # None
          BY <4>1, <4>2, <4>3, <4>5 DEF Less, NoFloat
        <4>6. QED
          BY <4>4, <4>5
      <3>5. QED
        BY <2>1, <2>3, <3>2, <3>3, <3>4 DEF XmlAltitude, AltWritten
    <2>4. QED
      BY <2>2, <2>3
  <1>7. CtoOk(h) /\ FromXml(h)
    <2>1. /\ \E T : XmlDetail(c) \in Seq(T)
          /\ h.detail = DetailToAttributes(XmlDetail(c)) /\ DetailOk(h.detail)
      BY XmlHopDetail DEF CtoOk
    <2>2. DetailOk(DetailToAttributes(e.detail)) /\ \E T : e.detail \in Seq(T)
      BY <1>4, <2>1
    <2>3. QED
      BY <1>2, <2>2, XmlToCtoIs
  <1>8. QED
    BY <1>3, <1>4, <1>5, <1>6, <1>7 DEF XmlRead

\* What is found in the <detail> that was written, and what the fields become.
LEMMA XmlHopFirst ==
    ASSUME NEW c, DetailOk(c.detail), NEW h, h = XmlHop(c), NEW tag
    PROVE  /\ tag \in FieldTags(c) => First(h.detail, tag) = FieldOf(c, tag)
           /\ tag \notin FieldTags(c) =>
                  /\ First(h.detail, tag).text = First(c.detail, tag).text
                  /\ \A a : a # "_id" => Lookup(First(h.detail, tag).attrs, a)
                                         = Lookup(First(c.detail, tag).attrs, a)
  <1>1. /\ DOMAIN h.detail = FieldTags(c) \cup DOMAIN c.detail
        /\ \A t \in FieldTags(c) : h.detail[t] = <<FieldOf(c, t)>>
        /\ \A t \in DOMAIN c.detail \ FieldTags(c) : h.detail[t] = Block(c.detail, t)
    BY XmlHopDetail
  <1>2. CASE tag \in FieldTags(c)
    BY <1>1, <1>2 DEF First
  <1>3. CASE tag \notin FieldTags(c) /\ tag \in DOMAIN c.detail
    <2> DEFINE x == c.detail[tag][1]
    <2>1. Block(c.detail, tag)[1] = Writable(x) /\ IsElement(x, tag)
      <3>1. /\ Len(c.detail[tag]) \in Nat /\ Len(c.detail[tag]) >= 1
            /\ \A i \in 1 .. Len(c.detail[tag]) : Block(c.detail, tag)[i] = Writable(c.detail[tag][i])
        BY <1>3, BlockIs
      <3>2. \A i \in 1 .. Len(c.detail[tag]) : IsElement(c.detail[tag][i], tag)
        BY <1>3 DEF DetailOk
      <3>3. 1 \in 1 .. Len(c.detail[tag])
        BY <3>1
      <3>4. QED
        BY <3>1, <3>2, <3>3
    <2>2. First(h.detail, tag) = Writable(x) /\ First(c.detail, tag) = x
      BY <1>1, <1>3, <2>1 DEF First
    <2> HIDE DEF x
    <2>3. QED
      BY <1>3, <2>1, <2>2, WritableIs
  <1>4. CASE tag \notin FieldTags(c) /\ tag \notin DOMAIN c.detail
    <2>1. First(h.detail, tag) = First(c.detail, tag)
      BY <1>1, <1>4 DEF First
    <2>2. QED
      BY <1>4, <2>1
  <1>5. QED
    BY <1>2, <1>3, <1>4

LEMMA XmlHopTrack ==
    ASSUME NEW c, CtoOk(c), NEW h, h = XmlHop(c)
    PROVE  /\ h.callsign = IF c.callsign \notin {None, ""} THEN c.callsign
                           ELSE Lookup(First(c.detail, "contact").attrs, "callsign")
           /\ h.remarks = IF c.remarks # None THEN c.remarks ELSE First(c.detail, "remarks").text
           /\ \A a \in {"course", "speed"} :
                  h[a] = IF c.course # None \/ c.speed # None THEN Decimals(c[a])
                         ELSE TrackRead(First(c.detail, "track").attrs, a)
  <1>1. DetailOk(c.detail)
    BY DEF CtoOk
  <1>2. FromXml(h)
    BY XmlHopFields
  <1>3. /\ "contact" \in FieldTags(c) <=> c.callsign \notin {None, ""}
        /\ "track" \in FieldTags(c) <=> c.course # None \/ c.speed # None
        /\ "remarks" \in FieldTags(c) <=> c.remarks # None
    BY DEF FieldTags
  <1>4. \A tag, a, t, ch : /\ Element(tag, a, t, ch).attrs = a
                           /\ Element(tag, a, t, ch).text = t
    BY DEF Element
  <1>5. "callsign" # "_id" /\ "course" # "_id" /\ "speed" # "_id"
    OBVIOUS
  <1>6. h.callsign = IF c.callsign \notin {None, ""} THEN c.callsign
                     ELSE Lookup(First(c.detail, "contact").attrs, "callsign")
    <2>1. h.callsign = Lookup(First(h.detail, "contact").attrs, "callsign")
      BY <1>2 DEF FromXml
    <2>2. CASE "contact" \in FieldTags(c)
      <3>1. First(h.detail, "contact") = FieldOf(c, "contact")
        BY <1>1, <2>2, XmlHopFirst
      <3>2. FieldOf(c, "contact").attrs = [a \in {"callsign"} |-> c.callsign]
        BY <1>4 DEF FieldOf
      <3>3. Lookup([a \in {"callsign"} |-> c.callsign], "callsign") = c.callsign
        BY DEF Lookup
      <3>4. h.callsign = c.callsign
        BY <2>1, <3>1, <3>2, <3>3
      <3>5. QED
        BY <1>3, <2>2, <3>4
    <2>3. CASE "contact" \notin FieldTags(c)
      <3>1. Lookup(First(h.detail, "contact").attrs, "callsign")
            = Lookup(First(c.detail, "contact").attrs, "callsign")
        BY <1>1, <1>5, <2>3, XmlHopFirst
      <3>2. QED
        BY <1>3, <2>1, <2>3, <3>1
    <2>4. QED
      BY <2>2, <2>3
  <1>7. h.remarks = IF c.remarks # None THEN c.remarks ELSE First(c.detail, "remarks").text
    <2>1. h.remarks = First(h.detail, "remarks").text
      BY <1>2 DEF FromXml
    <2>2. FieldOf(c, "remarks").text = c.remarks
      BY <1>4 DEF FieldOf
    <2>3. QED
      BY <1>1, <1>3, <2>1, <2>2, XmlHopFirst
  <1>8. ASSUME NEW a \in {"course", "speed"}
        PROVE  h[a] = IF c.course # None \/ c.speed # None THEN Decimals(c[a])
                      ELSE TrackRead(First(c.detail, "track").attrs, a)
    <2>1. h[a] = TrackRead(First(h.detail, "track").attrs, a)
      BY <1>2 DEF FromXml
    <2>2. CASE "track" \in FieldTags(c)
      <3> DEFINE attrs == [x \in {y \in {"course", "speed"} : c[y] # None} |-> Decimals(c[x])]
      <3>1. First(h.detail, "track").attrs = attrs
        <4>1. First(h.detail, "track") = FieldOf(c, "track")
          BY <1>1, <2>2, XmlHopFirst
        <4>2. FieldOf(c, "track") = Element("track", attrs, None, None)
          BY DEF FieldOf
        <4> HIDE DEF attrs
        <4>3. QED
          BY <1>4, <4>1, <4>2
      <3>2. \A x \in {"course", "speed"} : Lookup(attrs, x) = Decimals(c[x])
        <4>1. Decimals(None) = None
          BY NamesDiffer
        <4>2. QED
          BY <4>1 DEF Lookup
      <3> HIDE DEF attrs
      <3>3. \A x \in {"course", "speed"} : Decimals(c[x]) # "bad" /\ Decimals(c[x]) # ""
        BY NamesDiffer DEF CtoOk, NoText
      <3>4. TrackRead(attrs, a) = Decimals(c[a])
        BY <3>2, <3>3 DEF TrackRead
      <3>5. QED
        BY <1>3, <2>1, <2>2, <3>1, <3>4
    <2>3. CASE "track" \notin FieldTags(c)
      <3>1. \A x \in {"course", "speed"} : Lookup(First(h.detail, "track").attrs, x)
                                           = Lookup(First(c.detail, "track").attrs, x)
        BY <1>1, <1>5, <2>3, XmlHopFirst
      <3>2. TrackRead(First(h.detail, "track").attrs, a) = TrackRead(First(c.detail, "track").attrs, a)
        BY <3>1 DEF TrackRead
      <3>3. QED
        BY <1>3, <2>1, <2>3, <3>2
    <2>4. QED
      BY <2>2, <2>3
  <1>9. QED
    BY <1>6, <1>7, <1>8

\* Nothing but what XmlKeeps names is lost on the way to the next gateway.
LEMMA XmlKeepsAll == ASSUME NEW c, CtoOk(c) PROVE XmlKeeps(c)
  <1>1. PICK h : h = XmlHop(c)
    OBVIOUS
  <1>2. /\ h.type = IF c.type = <<>> THEN Synthesized(c.affil, c.dim) ELSE c.type
        /\ h.affil = AffiliationOf(h.type) /\ h.dim = DimensionOf(h.type)
        /\ h.time = c.time /\ h.from = Default(c.from, c.time) /\ h.to = Default(c.to, c.time)
        /\ h.how = c.how /\ h.extras = c.extras /\ h.ce = Decimals(c.ce)
        /\ h.alt = AltWritten(c.alt)
    BY <1>1, XmlHopFields
  <1>3. /\ h.callsign = IF c.callsign \notin {None, ""} THEN c.callsign
                        ELSE Lookup(First(c.detail, "contact").attrs, "callsign")
        /\ h.remarks = IF c.remarks # None THEN c.remarks ELSE First(c.detail, "remarks").text
        /\ \A a \in {"course", "speed"} :
               h[a] = IF c.course # None \/ c.speed # None THEN Decimals(c[a])
                      ELSE TrackRead(First(c.detail, "track").attrs, a)
    BY <1>1, XmlHopTrack
  <1>4. Same(c, h, {"time", "how", "extras"})
    BY <1>2 DEF Same
  <1>5. Same(c, h, {f \in {"callsign", "remarks"} : c[f] # None})
    <2>1. c.callsign # None => h.callsign = c.callsign
      <3>1. c.callsign = "" => Lookup(First(c.detail, "contact").attrs, "callsign") = ""
        BY DEF CtoOk
      <3>2. QED
        BY <1>3, <3>1
    <2>2. c.remarks # None => h.remarks = c.remarks
      BY <1>3
    <2>3. QED
      BY <2>1, <2>2 DEF Same
  <1>6. c.type # <<>> => Same(c, h, {"type", "affil", "dim"})
    <2>1. c.type # <<>> => /\ h.type = c.type /\ h.affil = c.affil /\ h.dim = c.dim
      BY <1>2 DEF CtoOk
    <2>2. QED
      BY <2>1 DEF Same
  <1>7. c.type = <<>> => h.affil = Default(c.affil, "unknown") /\ h.dim = Default(c.dim, "land")
    <2>1. SUFFICES ASSUME c.type = <<>>
                   PROVE  h.affil = Default(c.affil, "unknown") /\ h.dim = Default(c.dim, "land")
      OBVIOUS
    <2>2. c.affil \in Affiliation \cup {None} /\ c.dim = None
      BY <2>1 DEF CtoOk
    <2>3. h.type = Synthesized(c.affil, None)
      BY <1>2, <2>1, <2>2
    <2>4. QED
      BY <1>2, <2>2, <2>3, TypesAre DEF Default
  <1>8. \A f \in {"course", "speed", "ce"} : h[f] = Decimals(c[f]) \/ c[f] = None
    <2>1. h.ce = Decimals(c.ce)
      BY <1>2
    <2>2. \A a \in {"course", "speed"} : c[a] # None => h[a] = Decimals(c[a])
      <3>1. \A a \in {"course", "speed"} : c[a] # None => c.course # None \/ c.speed # None
        OBVIOUS
      <3>2. QED
        BY <1>3, <3>1
    <2>3. QED
      BY <2>1, <2>2
  <1>9. DetailKept(c, h, {"contact", "track", "remarks"})
    <2>1. /\ DOMAIN h.detail = FieldTags(c) \cup DOMAIN c.detail
          /\ \A tag \in DOMAIN c.detail \ FieldTags(c) : h.detail[tag] = Block(c.detail, tag)
      <3>1. DetailOk(c.detail)
        BY DEF CtoOk
      <3>2. QED
        BY <1>1, <3>1, XmlHopDetail
    <2>2. FieldTags(c) \subseteq {"contact", "track", "remarks"}
      BY DEF FieldTags
    <2>3. QED
      BY <2>1, <2>2 DEF DetailKept, Block
  <1>10. QED
    BY <1>1, <1>2, <1>4, <1>5, <1>6, <1>7, <1>8, <1>9 DEF XmlKeeps, AltWritten

\* Two CTOs are the same if their fields are.
LEMMA SameCto ==
    ASSUME NEW a, NEW b, IsCto(a), IsCto(b),
           a.type = b.type, a.affil = b.affil, a.dim = b.dim, a.uid = b.uid, a.time = b.time,
           a.from = b.from, a.to = b.to, a.how = b.how, a.extras = b.extras, a.alt = b.alt,
           a.ce = b.ce, a.course = b.course, a.speed = b.speed, a.callsign = b.callsign,
           a.remarks = b.remarks, a.detail = b.detail
    PROVE  a = b
  BY DEF IsCto

\* Writing a block again does not change it, so that a dict of blocks and of
\* the same fields stays as it is.
LEMMA BlockOnce ==
    ASSUME NEW d, DetailOk(d), NEW tag \in DOMAIN d, NEW g, tag \in DOMAIN g,
           g[tag] = Block(d, tag)
    PROVE  Block(g, tag) = g[tag]
  <1> DEFINE n == Len(d[tag])
  <1>1. d[tag] \in Seq(ToSet(d[tag])) /\ \A i \in 1 .. n : IsElement(d[tag][i], tag)
    BY DEF DetailOk
  <1>2. DOMAIN d[tag] = 1 .. n
    BY <1>1, LenProperties
  <1>3. g[tag] = [i \in 1 .. n |-> Writable(d[tag][i])]
    BY <1>2 DEF Block
  <1>4. Block(g, tag) = [i \in 1 .. n |-> Writable(g[tag][i])]
    BY <1>3 DEF Block
  <1> HIDE DEF n
  <1>5. \A i \in 1 .. n : Writable(g[tag][i]) = Writable(d[tag][i])
    <2>1. ASSUME NEW i \in 1 .. n PROVE Writable(g[tag][i]) = Writable(d[tag][i])
      <3>1. PICK x : x = d[tag][i]
        OBVIOUS
      <3>2. IsElement(x, tag)
        BY <1>1, <3>1 DEF n
      <3>3. Writable(Writable(x)) = Writable(x)
        BY <3>2, WritableIs
      <3>4. g[tag][i] = Writable(x)
        BY <1>3, <3>1
      <3>5. QED
        BY <3>1, <3>3, <3>4
    <2>2. QED
      BY <2>1
  <1>6. QED
    BY <1>3, <1>4, <1>5

\* What came from XML with a type comes out of the next gateway as it went in.
LEMMA XmlSettles ==
    ASSUME NEW c, CtoOk(c), FromXml(c), c.type # <<>>
    PROVE  XmlHop(XmlHop(c)) = XmlHop(c)
  <1>1. PICK h : h = XmlHop(c)
    OBVIOUS
  <1>2. PICK g : g = XmlHop(h)
    OBVIOUS
  <1>3. /\ IsCto(h) /\ CtoOk(h) /\ FromXml(h) /\ h.type = c.type
        /\ h.affil = AffiliationOf(h.type) /\ h.dim = DimensionOf(h.type)
        /\ h.uid = Default(c.uid, "uid of the CTO") /\ h.time = c.time
        /\ h.from = Default(c.from, c.time) /\ h.to = Default(c.to, c.time)
        /\ h.ce = Decimals(c.ce)
        /\ h.alt = AltWritten(c.alt)
    BY <1>1, XmlHopFields
  <1>4. h.type # <<>>
    BY <1>3
  <1>5. /\ IsCto(g) /\ g.type = h.type
        /\ g.affil = AffiliationOf(g.type) /\ g.dim = DimensionOf(g.type)
        /\ g.uid = Default(h.uid, "uid of the CTO") /\ g.time = h.time
        /\ g.from = Default(h.from, h.time) /\ g.to = Default(h.to, h.time)
        /\ g.how = h.how /\ g.extras = h.extras /\ g.ce = Decimals(h.ce)
        /\ g.alt = AltWritten(h.alt)
    BY <1>2, <1>3, <1>4, XmlHopFields
  <1>6. /\ h.callsign = c.callsign /\ h.remarks = c.remarks
        /\ \A a \in {"course", "speed"} : h[a] = Decimals(c[a])
    <2>1. /\ h.callsign = IF c.callsign \notin {None, ""} THEN c.callsign
                          ELSE Lookup(First(c.detail, "contact").attrs, "callsign")
          /\ h.remarks = IF c.remarks # None THEN c.remarks ELSE First(c.detail, "remarks").text
          /\ \A a \in {"course", "speed"} :
                 h[a] = IF c.course # None \/ c.speed # None THEN Decimals(c[a])
                        ELSE TrackRead(First(c.detail, "track").attrs, a)
      BY <1>1, XmlHopTrack
    <2>2. /\ c.callsign = Lookup(First(c.detail, "contact").attrs, "callsign")
          /\ c.remarks = First(c.detail, "remarks").text
          /\ \A a \in {"course", "speed"} : c[a] = TrackRead(First(c.detail, "track").attrs, a)
      BY DEF FromXml
    <2>3. Decimals(None) = None
      BY DecimalsAre
    <2>4. \A a \in {"course", "speed"} :
              (c.course = None /\ c.speed = None) => Decimals(c[a]) = c[a]
      BY <2>3
    <2>5. \A a \in {"course", "speed"} : h[a] = Decimals(c[a])
      BY <2>1, <2>2, <2>4
    <2>6. h.callsign = c.callsign
      BY <2>1, <2>2
    <2>7. h.remarks = c.remarks
      BY <2>1, <2>2
    <2>8. QED
      BY <2>5, <2>6, <2>7
  <1>7. h.course = Decimals(c.course) /\ h.speed = Decimals(c.speed)
    BY <1>6
  <1>8. \A a \in {"course", "speed"} :
            /\ h[a] # None <=> c[a] # None
            /\ Decimals(h[a]) = Decimals(c[a])
    BY <1>6, DecimalsAre
  <1>9. FieldTags(h) = FieldTags(c)
    <2>1. (h.course # None \/ h.speed # None) <=> (c.course # None \/ c.speed # None)
      BY <1>8
    <2>2. h.callsign = c.callsign /\ h.remarks = c.remarks
      BY <1>6
    <2>3. QED
      BY <2>1, <2>2 DEF FieldTags
  <1>10. \A tag : FieldOf(h, tag) = FieldOf(c, tag)
    <2>1. [a \in {x \in {"course", "speed"} : h[x] # None} |-> Decimals(h[a])]
          = [a \in {x \in {"course", "speed"} : c[x] # None} |-> Decimals(c[a])]
      BY <1>8
    <2>2. h.callsign = c.callsign /\ h.remarks = c.remarks
      BY <1>6
    <2>3. QED
      BY <2>1, <2>2 DEF FieldOf
  <1>11. /\ g.callsign = h.callsign /\ g.remarks = h.remarks
         /\ g.course = h.course /\ g.speed = h.speed
    <2>1. /\ g.callsign = IF h.callsign \notin {None, ""} THEN h.callsign
                          ELSE Lookup(First(h.detail, "contact").attrs, "callsign")
          /\ g.remarks = IF h.remarks # None THEN h.remarks ELSE First(h.detail, "remarks").text
          /\ \A a \in {"course", "speed"} :
                 g[a] = IF h.course # None \/ h.speed # None THEN Decimals(h[a])
                        ELSE TrackRead(First(h.detail, "track").attrs, a)
      BY <1>2, <1>3, XmlHopTrack
    <2>2. /\ h.callsign = Lookup(First(h.detail, "contact").attrs, "callsign")
          /\ h.remarks = First(h.detail, "remarks").text
          /\ \A a \in {"course", "speed"} : h[a] = TrackRead(First(h.detail, "track").attrs, a)
      BY <1>3 DEF FromXml
    <2>3. \A a \in {"course", "speed"} : Decimals(h[a]) = h[a]
      BY <1>6, DecimalsAre
    <2>4. \A a \in {"course", "speed"} : g[a] = h[a]
      BY <2>1, <2>2, <2>3
    <2>5. g.callsign = h.callsign
      BY <2>1, <2>2
    <2>6. g.remarks = h.remarks
      BY <2>1, <2>2
    <2>7. QED
      BY <2>4, <2>5, <2>6
  <1>12. g.detail = h.detail
    <2>1. /\ DOMAIN h.detail = FieldTags(c) \cup DOMAIN c.detail
          /\ \A tag \in FieldTags(c) : h.detail[tag] = <<FieldOf(c, tag)>>
          /\ \A tag \in DOMAIN c.detail \ FieldTags(c) : h.detail[tag] = Block(c.detail, tag)
          /\ DetailOk(c.detail) /\ DetailOk(h.detail)
      BY <1>1, XmlHopDetail DEF CtoOk
    <2>2. /\ DOMAIN g.detail = FieldTags(h) \cup DOMAIN h.detail
          /\ \A tag \in FieldTags(h) : g.detail[tag] = <<FieldOf(h, tag)>>
          /\ \A tag \in DOMAIN h.detail \ FieldTags(h) : g.detail[tag] = Block(h.detail, tag)
          /\ DetailOk(g.detail)
      BY <1>2, <2>1, XmlHopDetail
    <2>3. DOMAIN g.detail = DOMAIN h.detail
      BY <1>9, <2>1, <2>2
    <2>4. ASSUME NEW tag \in DOMAIN h.detail PROVE g.detail[tag] = h.detail[tag]
      <3>1. CASE tag \in FieldTags(c)
        BY <1>9, <1>10, <2>1, <2>2, <3>1
      <3>2. CASE tag \notin FieldTags(c)
        <4>1. tag \in DOMAIN c.detail /\ h.detail[tag] = Block(c.detail, tag)
          BY <2>1, <3>2
        <4>2. Block(h.detail, tag) = h.detail[tag]
          BY <2>1, <4>1, BlockOnce
        <4>3. QED
          BY <1>9, <2>2, <3>2, <4>2
      <3>3. QED
        BY <3>1, <3>2
    <2>5. /\ g.detail = [tag \in DOMAIN g.detail |-> g.detail[tag]]
          /\ h.detail = [tag \in DOMAIN h.detail |-> h.detail[tag]]
      BY <2>1, <2>2 DEF DetailOk
    <2>6. QED
      BY <2>3, <2>4, <2>5
  <1>13. g.type = h.type /\ g.affil = h.affil /\ g.dim = h.dim
    BY <1>3, <1>5
  <1>14. g.uid = h.uid /\ g.time = h.time /\ g.from = h.from /\ g.to = h.to
    <2>1. "uid of the CTO" # None
      BY DEF None
    <2>2. QED
      BY <1>3, <1>5, <2>1 DEF Default
  <1>15. g.ce = h.ce
    BY <1>3, <1>5, DecimalsAre
  <1>16. g.alt = h.alt
    BY <1>3, <1>5, AltOnce
  <1>17. g = h
    BY <1>3, <1>5, <1>11, <1>12, <1>13, <1>14, <1>15, <1>16, SameCto
  <1>18. QED
    BY <1>1, <1>2, <1>17

-----------------------------------------------------------------------------
(* CoT protobuf.                                                            *)

LEMMA NonZeroIs ==
    /\ NonZero(None) = None
    /\ \A v : /\ NonZero(NonZero(v)) = NonZero(v)
              /\ NonZero(Default(v, "0")) = NonZero(v)
              /\ Default(v, "0") = "0" <=> v \in {None, "0"}
              /\ NonZero(v) \in {None, "0"} <=> v \in {None, "0"}
              /\ v # NoData => Less(NonZero(v)) = NonZero(v)
              /\ v \notin NoFloat => NonZero(v) \notin NoText
              /\ v \notin NoFloat => Less(NonZero(v)) \notin NoNumber
  BY DEF NonZero, Default, Less, NoText, NoNumber, NoFloat, None, NoData

\* A dict that has other nodes of a tag, or one node of a tag of its own.
LEMMA OneIsOk ==
    ASSUME NEW tag, NEW attrs
    PROVE  LET q == <<Element(tag, attrs, None, None)>>
           IN  /\ q \in Seq(ToSet(q)) /\ Len(q) >= 1
               /\ \A i \in 1 .. Len(q) : IsElement(q[i], tag)
  <1> DEFINE x == Element(tag, attrs, None, None)
  <1>1. IsElement(x, tag)
    BY DEF IsElement, Element
  <1> HIDE DEF x
  <1>2. ToSet(<<x>>) = {x}
    BY DEF ToSet
  <1>3. <<x>> \in Seq(ToSet(<<x>>)) /\ Len(<<x>>) = 1 /\ <<x>>[1] = x
    BY <1>2
  <1>4. QED
    BY <1>1, <1>3 DEF x

LEMMA BlocksOk ==
    ASSUME NEW d, DetailOk(d), NEW g, g = [tag \in DOMAIN g |-> g[tag]],
           DOMAIN g \subseteq DOMAIN d, \A tag \in DOMAIN g : g[tag] = Block(d, tag)
    PROVE  DetailOk(g)
  <1>1. IsFiniteSet(DOMAIN g)
    BY FS_Subset DEF DetailOk
  <1>2. ASSUME NEW tag \in DOMAIN g
        PROVE  /\ g[tag] \in Seq(ToSet(g[tag])) /\ Len(g[tag]) >= 1
               /\ \A i \in 1 .. Len(g[tag]) : IsElement(g[tag][i], tag)
    <2> DEFINE n == Len(d[tag])
    <2>1. /\ g[tag] \in Seq(ToSet(g[tag])) /\ Len(g[tag]) = n /\ n >= 1
          /\ \A i \in 1 .. n : g[tag][i] = Writable(d[tag][i])
      BY BlockIs
    <2>2. \A i \in 1 .. n : IsElement(d[tag][i], tag)
      BY DEF DetailOk
    <2> HIDE DEF n
    <2>3. QED
      BY <2>1, <2>2, WritableIs
  <1>3. QED
    BY <1>1, <1>2 DEF DetailOk

PbRead(ev) == DetailToAttributes(IF ev.malformed THEN <<>> ELSE ev.xmlDetail)
PbFields(ev, c) ==
    /\ c.type = ev.type /\ c.affil = AffiliationOf(ev.type) /\ c.dim = DimensionOf(ev.type)
    /\ c.uid = ev.uid /\ c.time = ev.time /\ c.from = ev.start /\ c.to = ev.stale
    /\ c.how = IfSet(ev.how) /\ c.extras = NoAttrs /\ c.alt = PbAltitude(ev)
    /\ c.ce = Less(NonZero(ev.ce))
    /\ c.course = NonZero(ev.course) /\ c.speed = NonZero(ev.speed)
    /\ c.callsign = ev.callsign /\ c.remarks = None
    /\ IsCto(c)

LEMMA PbFieldsAre == ASSUME NEW ev PROVE PbFields(ev, PbToCto(ev))
  BY DEF PbToCto, PbFields, IsCto

LEMMA PbDetailIs ==
    ASSUME NEW ev
    PROVE  LET typed == {tag \in DOMAIN ev.typed : tag # "status" \/ ev.typed[tag]["battery"] # ""}
           IN  PbToCto(ev).detail =
                   [tag \in DOMAIN PbRead(ev) \cup typed |->
                       IF tag \in DOMAIN PbRead(ev) THEN PbRead(ev)[tag]
                       ELSE <<Element(tag, ev.typed[tag], None, None)>>]
  BY DEF PbToCto, PbRead

\* What is read of a message goes together.
PbMessage(ev) ==
    /\ DetailOk(PbRead(ev)) /\ DOMAIN ev.typed \subseteq Submessages
    /\ ev.callsign # "" /\ NoFloat \cap {ev.hae, ev.le, ev.ce, ev.course, ev.speed} = {}

LEMMA PbToCtoIs ==
    ASSUME NEW ev, PbMessage(ev) PROVE CtoOk(PbToCto(ev))
  <1>1. PICK c : c = PbToCto(ev)
    OBVIOUS
  <1>2. PbFields(ev, c)
    BY <1>1, PbFieldsAre
  <1>3. DetailOk(c.detail)
    <2> DEFINE read == PbRead(ev)
               typed == {tag \in DOMAIN ev.typed : tag # "status" \/ ev.typed[tag]["battery"] # ""}
               d == c.detail
    <2>1. d = [tag \in DOMAIN read \cup typed |->
                  IF tag \in DOMAIN read THEN read[tag]
                  ELSE <<Element(tag, ev.typed[tag], None, None)>>]
      BY <1>1, PbDetailIs
    <2>2. typed \subseteq Submessages
      BY DEF PbMessage
    <2>3. IsFiniteSet(typed)
      <3>1. /\ IsFiniteSet({"__group"}) /\ IsFiniteSet({"status"}) /\ IsFiniteSet({"takv"})
            /\ IsFiniteSet({"precisionlocation"})
        BY FS_Singleton
      <3>2. /\ IsFiniteSet({"__group"} \cup {"status"})
            /\ IsFiniteSet({"takv"} \cup {"precisionlocation"})
        BY <3>1, FS_Union
      <3>3. IsFiniteSet(({"__group"} \cup {"status"}) \cup ({"takv"} \cup {"precisionlocation"}))
        BY <3>2, FS_Union
      <3>4. Submessages = ({"__group"} \cup {"status"}) \cup ({"takv"} \cup {"precisionlocation"})
        BY DEF Submessages
      <3> HIDE DEF typed
      <3>5. QED
        BY <2>2, <3>3, <3>4, FS_Subset
    <2>4. DetailOk(read)
      BY DEF PbMessage
    <2> HIDE DEF typed, read, d
    <2>5. DOMAIN d = DOMAIN read \cup typed /\ d = [tag \in DOMAIN d |-> d[tag]]
      BY <2>1
    <2>6. IsFiniteSet(DOMAIN d)
      <3>1. IsFiniteSet(DOMAIN read)
        BY <2>4 DEF DetailOk
      <3>2. QED
        BY <2>3, <2>5, <3>1, FS_Union
    <2>7. ASSUME NEW tag \in DOMAIN d
          PROVE  /\ d[tag] \in Seq(ToSet(d[tag])) /\ Len(d[tag]) >= 1
                 /\ \A i \in 1 .. Len(d[tag]) : IsElement(d[tag][i], tag)
      <3>1. CASE tag \in DOMAIN read
        <4>1. d[tag] = read[tag]
          BY <2>1, <3>1
        <4>2. QED
          BY <2>4, <3>1, <4>1 DEF DetailOk
      <3>2. CASE tag \notin DOMAIN read
        <4>1. d[tag] = <<Element(tag, ev.typed[tag], None, None)>>
          BY <2>1, <2>5, <3>2
        <4>2. PICK attrs : attrs = ev.typed[tag]
          OBVIOUS
        <4>3. QED
          BY <4>1, <4>2, OneIsOk
      <3>3. QED
        BY <3>1, <3>2
    <2>8. DetailOk(d)
      BY <2>5, <2>6, <2>7 DEF DetailOk
    <2>9. QED
      BY <2>8 DEF d
  <1>4. /\ ev.hae \notin NoFloat /\ ev.le \notin NoFloat /\ ev.ce \notin NoFloat
        /\ ev.course \notin NoFloat /\ ev.speed \notin NoFloat
    BY DEF PbMessage
  <1>5. c.ce \notin NoNumber
    BY <1>2, <1>4, NonZeroIs DEF PbFields
  <1>6. c.course \notin NoText /\ c.speed \notin NoText
    BY <1>2, <1>4, NonZeroIs DEF PbFields
  <1>7. \/ c.alt = <<>>
        \/ \E hae, le : c.alt = <<hae, le>> /\ hae \notin NoFloat /\ le \notin NoNumber
    <2>1. CASE ev.hae = "0" /\ ev.le = "0"
      BY <1>2, <2>1 DEF PbFields, PbAltitude
    <2>2. CASE ~(ev.hae = "0" /\ ev.le = "0")
      <3>1. c.alt = <<ev.hae, Less(NonZero(ev.le))>>
        BY <1>2, <2>2 DEF PbFields, PbAltitude
      <3>2. Less(NonZero(ev.le)) \notin NoNumber
        BY <1>4, NonZeroIs
      <3>3. QED
        BY <1>4, <3>1, <3>2
    <2>3. QED
      BY <2>1, <2>2
  <1>8. c.type = <<>> => c.affil = None /\ c.dim = None
    BY <1>2, TypesAre DEF PbFields
  <1>9. /\ c.type # <<>> => c.affil = AffiliationOf(c.type) /\ c.dim = DimensionOf(c.type)
        /\ c.callsign # ""
    BY <1>2 DEF PbFields, PbMessage
  <1>10. CtoOk(c)
    BY <1>3, <1>5, <1>6, <1>7, <1>8, <1>9 DEF CtoOk
  <1>11. QED
    BY <1>1, <1>10

\* What an altitude becomes that is written and read.
PbAltWritten(alt) ==
    IF alt = <<>> \/ (alt[1] = "0" /\ alt[2] \in {None, "0"}) THEN <<>>
    ELSE <<alt[1], NonZero(alt[2])>>

LEMMA PbAltOnce == ASSUME NEW alt PROVE PbAltWritten(PbAltWritten(alt)) = PbAltWritten(alt)
  <1>1. CASE alt = <<>> \/ (alt[1] = "0" /\ alt[2] \in {None, "0"})
    BY <1>1 DEF PbAltWritten
  <1>2. CASE ~(alt = <<>> \/ (alt[1] = "0" /\ alt[2] \in {None, "0"}))
    <2>1. PICK u, v : u = alt[1] /\ v = alt[2]
      OBVIOUS
    <2>2. ~(u = "0" /\ v \in {None, "0"}) /\ PbAltWritten(alt) = <<u, NonZero(v)>>
      BY <1>2, <2>1 DEF PbAltWritten
    <2>3. PICK w : w = NonZero(v)
      OBVIOUS
    <2>4. NonZero(w) = w /\ ~(u = "0" /\ w \in {None, "0"})
      BY <2>2, <2>3, NonZeroIs
    <2>5. <<u, w>> # <<>> /\ <<u, w>>[1] = u /\ <<u, w>>[2] = w
      OBVIOUS
    <2>6. PbAltWritten(<<u, w>>) = <<u, w>>
      BY <2>4, <2>5 DEF PbAltWritten
    <2>7. QED
      BY <2>2, <2>3, <2>6
  <1>3. QED
    BY <1>1, <1>2

PbWritten(c, ev) ==
    /\ ev.type = IF c.type = <<>> THEN <<"a", "u", "G">> ELSE c.type
    /\ ev.uid = Default(c.uid, "uid of the CTO") /\ ev.time = Millis(c.time)
    /\ ev.start = Millis(Default(c.from, c.time)) /\ ev.stale = Millis(Default(c.to, c.time))
    /\ ev.how = Default(c.how, NotSet)
    /\ ev.hae = IF c.alt = <<>> THEN "0" ELSE c.alt[1]
    /\ ev.le = IF c.alt = <<>> THEN "0" ELSE Default(c.alt[2], "0")
    /\ ev.ce = Default(c.ce, "0")
    /\ ev.course = Default(c.course, "0") /\ ev.speed = Default(c.speed, "0")
    /\ ev.typed = NoAttrs /\ ev.malformed = FALSE
    /\ ev.xmlDetail = EmitDetail(c.detail, {"contact", "track"})

LEMMA PbWrittenIs ==
    ASSUME NEW c
    PROVE  /\ PbWritten(c, CtoToPb(c))
           /\ CtoToPb(c).callsign = IF c.callsign = "" THEN None ELSE c.callsign
  BY DEF CtoToPb, PbWritten

\* The elements of <detail> that go through.
LEMMA PbHopDetail ==
    ASSUME NEW c, DetailOk(c.detail), NEW h, h = PbHop(c)
    PROVE  /\ DetailOk(h.detail) /\ DOMAIN h.detail = DOMAIN c.detail \ {"contact", "track"}
           /\ \A tag \in DOMAIN h.detail : h.detail[tag] = Block(c.detail, tag)
  <1> DEFINE E == EmitDetail(c.detail, {"contact", "track"})
             R == DetailToAttributes(E)
  <1>1. PICK ev : ev = CtoToPb(c)
    OBVIOUS
  <1>2. h = PbToCto(ev)
    BY <1>1 DEF PbHop
  <1>3. ev.typed = NoAttrs /\ ev.malformed = FALSE /\ ev.xmlDetail = E
    BY <1>1, PbWrittenIs DEF PbWritten
  <1>4. <<>> \o E = E
    <2>1. \E T : E \in Seq(T)
      BY EmitIs
    <2> HIDE DEF E
    <2>2. QED
      BY <2>1, ConcatEmptySeq
  <1>5. ReadsAs(E, <<>>, c.detail, {"contact", "track"})
    <2>1. <<>> \in Seq({}) /\ OwnElements(<<>>, {"contact", "track"})
      BY DEF OwnElements
    <2>2. ReadsAs(<<>> \o EmitDetail(c.detail, {"contact", "track"}), <<>>, c.detail,
                  {"contact", "track"})
      BY <2>1, DetailRead
    <2>3. QED
      BY <1>4, <2>2
  <1>6. /\ DOMAIN R = DOMAIN c.detail \ {"contact", "track"}
        /\ \A tag \in DOMAIN R : R[tag] = Block(c.detail, tag)
    <2> HIDE DEF E
    <2>1. {<<>>[i].tag : i \in 1 .. Len(<<>>)} = {}
      OBVIOUS
    <2>2. QED
      BY <1>5, <2>1 DEF ReadsAs
  <1>7. R = [tag \in DOMAIN R |-> R[tag]]
    BY DEF DetailToAttributes
  <1>8. h.detail = R
    <2> DEFINE typed == {tag \in DOMAIN ev.typed : tag # "status" \/ ev.typed[tag]["battery"] # ""}
    <2>1. h.detail = [tag \in DOMAIN PbRead(ev) \cup typed |->
                         IF tag \in DOMAIN PbRead(ev) THEN PbRead(ev)[tag]
                         ELSE <<Element(tag, ev.typed[tag], None, None)>>]
      BY <1>2, PbDetailIs
    <2>2. DOMAIN ev.typed = {}
      BY <1>3 DEF NoAttrs
    <2>3. typed = {}
      <3>1. typed \subseteq DOMAIN ev.typed
        OBVIOUS
      <3> HIDE DEF typed
      <3>2. QED
        BY <2>2, <3>1
    <2>4. PbRead(ev) = R
      BY <1>3 DEF PbRead
    <2> HIDE DEF typed, R
    <2>5. h.detail = [tag \in DOMAIN R |-> R[tag]]
      BY <2>1, <2>3, <2>4
    <2>6. QED
      BY <1>7, <2>5
  <1> HIDE DEF R
  <1>9. DetailOk(R)
    BY <1>6, <1>7, BlocksOk
  <1>10. QED
    BY <1>6, <1>8, <1>9

LEMMA HowIs ==
    \A v : IfSet(Default(v, NotSet)) = IfSet(v) /\ IfSet(IfSet(v)) = IfSet(v)
  <1>1. None # NotSet
    BY DEF None, NotSet
  <1>2. QED
    BY <1>1 DEF IfSet, Default

LEMMA PbHopFields ==
    ASSUME NEW c, CtoOk(c), NEW h, h = PbHop(c)
    PROVE  /\ IsCto(h) /\ CtoOk(h)
           /\ h.type = IF c.type = <<>> THEN <<"a", "u", "G">> ELSE c.type
           /\ h.affil = AffiliationOf(h.type) /\ h.dim = DimensionOf(h.type)
           /\ h.uid = Default(c.uid, "uid of the CTO") /\ h.time = Millis(c.time)
           /\ h.from = Millis(Default(c.from, c.time)) /\ h.to = Millis(Default(c.to, c.time))
           /\ h.how = IfSet(c.how) /\ h.extras = NoAttrs /\ h.ce = NonZero(c.ce)
           /\ h.alt = PbAltWritten(c.alt)
           /\ h.course = NonZero(c.course) /\ h.speed = NonZero(c.speed) /\ h.remarks = None
           /\ h.callsign = IF c.callsign = "" THEN None ELSE c.callsign
  <1>1. PICK ev : ev = CtoToPb(c)
    OBVIOUS
  <1>2. h = PbToCto(ev)
    BY <1>1 DEF PbHop
  <1>3. PbFields(ev, h)
    BY <1>2, PbFieldsAre
  <1>4. PbWritten(c, ev) /\ ev.callsign = IF c.callsign = "" THEN None ELSE c.callsign
    BY <1>1, PbWrittenIs
  <1>5. PbWritten(c, ev)
    BY <1>4
  <1>6. c.course \notin NoText /\ c.speed \notin NoText /\ c.ce \notin NoNumber
    BY DEF CtoOk
  <1>7. h.course = NonZero(c.course) /\ h.speed = NonZero(c.speed)
    <2>1. /\ h.course = NonZero(Default(c.course, "0"))
          /\ h.speed = NonZero(Default(c.speed, "0"))
      BY <1>3, <1>5 DEF PbFields, PbWritten
    <2>2. QED
      BY <2>1, NonZeroIs
  <1>8. h.ce = NonZero(c.ce)
    <2>1. c.ce # NoData
      BY <1>6 DEF NoNumber
    <2>2. h.ce = Less(NonZero(Default(c.ce, "0")))
      BY <1>3, <1>5 DEF PbFields, PbWritten
    <2>3. QED
      BY <2>1, <2>2, NonZeroIs
  <1>9. /\ h.alt = PbAltWritten(c.alt)
        /\ \/ h.alt = <<>>
           \/ \E hae, le : h.alt = <<hae, le>> /\ hae \notin NoFloat /\ le \notin NoNumber
    <2>1. h.alt = IF ev.hae = "0" /\ ev.le = "0" THEN <<>> ELSE <<ev.hae, Less(NonZero(ev.le))>>
      BY <1>3 DEF PbFields, PbAltitude
    <2>2. CASE c.alt = <<>>
      <3>1. ev.hae = "0" /\ ev.le = "0"
        BY <1>5, <2>2 DEF PbWritten
      <3>2. h.alt = <<>> /\ PbAltWritten(c.alt) = <<>>
        BY <2>1, <2>2, <3>1 DEF PbAltWritten
      <3>3. QED
        BY <3>2
    <2>3. CASE c.alt # <<>>
      <3>1. PICK u, v : c.alt = <<u, v>> /\ u \notin NoFloat /\ v \notin NoNumber
        BY <2>3 DEF CtoOk
      <3>2. ev.hae = u /\ ev.le = Default(v, "0")
        <4>1. ev.hae = c.alt[1] /\ ev.le = Default(c.alt[2], "0")
          BY <1>5, <2>3 DEF PbWritten
        <4>2. c.alt[1] = u /\ c.alt[2] = v
          BY <3>1
        <4>3. QED
          BY <4>1, <4>2
      <3>3. v # NoData
        BY <3>1 DEF NoNumber
      <3>4. Less(NonZero(Default(v, "0"))) = NonZero(v) /\ (Default(v, "0") = "0" <=> v \in {None, "0"})
        BY <3>3, NonZeroIs
      <3>5. NonZero(v) \notin NoNumber
        BY <3>1 DEF NonZero, NoNumber, None, NoData
      <3>6. PbAltWritten(<<u, v>>) =
                IF u = "0" /\ v \in {None, "0"} THEN <<>> ELSE <<u, NonZero(v)>>
        <4>1. <<u, v>> # <<>> /\ <<u, v>>[1] = u /\ <<u, v>>[2] = v
          OBVIOUS
        <4>2. QED
          BY <4>1 DEF PbAltWritten
      <3>7. h.alt = IF u = "0" /\ v \in {None, "0"} THEN <<>> ELSE <<u, NonZero(v)>>
        BY <2>1, <3>2, <3>4
      <3>8. QED
        BY <3>1, <3>5, <3>6, <3>7
    <2>4. QED
      BY <2>2, <2>3
  <1>10. h.course \notin NoText /\ h.speed \notin NoText /\ h.ce \notin NoNumber
    BY <1>6, <1>7, <1>8 DEF NonZero, NoText, NoNumber, None, NoData
  <1>11. h.type = IF c.type = <<>> THEN <<"a", "u", "G">> ELSE c.type
    BY <1>3, <1>5 DEF PbFields, PbWritten
  <1>12. h.type # <<>> /\ h.affil = AffiliationOf(h.type) /\ h.dim = DimensionOf(h.type)
    BY <1>3, <1>11 DEF PbFields
  <1>13. DetailOk(h.detail)
    <2>1. DetailOk(c.detail)
      BY DEF CtoOk
    <2>2. QED
      BY <2>1, PbHopDetail
  <1>14. h.callsign = IF c.callsign = "" THEN None ELSE c.callsign
    BY <1>3, <1>4 DEF PbFields
  <1>15. h.callsign # ""
    BY <1>14 DEF None
  <1>16. CtoOk(h)
    BY <1>9, <1>10, <1>12, <1>13, <1>15 DEF CtoOk
  <1>17. /\ IsCto(h)
         /\ h.uid = Default(c.uid, "uid of the CTO") /\ h.time = Millis(c.time)
         /\ h.from = Millis(Default(c.from, c.time)) /\ h.to = Millis(Default(c.to, c.time))
         /\ h.how = IfSet(c.how) /\ h.extras = NoAttrs /\ h.remarks = None
    <2>1. IfSet(Default(c.how, NotSet)) = IfSet(c.how)
      BY HowIs
    <2>2. QED
      BY <1>3, <1>5, <2>1 DEF PbFields, PbWritten
  <1>18. QED
    BY <1>7, <1>8, <1>9, <1>11, <1>12, <1>14, <1>16, <1>17

\* Nothing but what PbKeeps names is lost on the way to the next gateway.
LEMMA PbKeepsAll == ASSUME NEW c, CtoOk(c) PROVE PbKeeps(c)
  <1>1. PICK h : h = PbHop(c)
    OBVIOUS
  <1>2. /\ h.type = IF c.type = <<>> THEN <<"a", "u", "G">> ELSE c.type
        /\ h.affil = AffiliationOf(h.type) /\ h.dim = DimensionOf(h.type)
        /\ h.time = Millis(c.time)
        /\ h.from = Millis(Default(c.from, c.time)) /\ h.to = Millis(Default(c.to, c.time))
        /\ h.how = IfSet(c.how) /\ h.ce = NonZero(c.ce)
        /\ h.alt = PbAltWritten(c.alt)
        /\ h.course = NonZero(c.course) /\ h.speed = NonZero(c.speed)
        /\ h.callsign = IF c.callsign = "" THEN None ELSE c.callsign
    BY <1>1, PbHopFields
  <1>3. h.how = IfSet(c.how)
    BY <1>2
  <1>4. c.callsign # "" => h.callsign = c.callsign
    BY <1>2
  <1>5. IF c.type # <<>> THEN Same(c, h, {"type", "affil", "dim"})
        ELSE h.affil = "unknown" /\ h.dim = "land"
    <2>1. CASE c.type # <<>>
      <3>1. h.type = c.type /\ h.affil = c.affil /\ h.dim = c.dim
        BY <1>2, <2>1 DEF CtoOk
      <3>2. QED
        BY <2>1, <3>1 DEF Same
    <2>2. CASE c.type = <<>>
      <3>1. h.type = <<"a", "u", "G">>
        BY <1>2, <2>2
      <3>2. Part(<<"a", "u", "G">>, 2) = "u" /\ Part(<<"a", "u", "G">>, 3) = "G"
        BY DEF Part
      <3>3. /\ "u" \in DOMAIN AffiliationMap /\ AffiliationMap["u"] = "unknown"
            /\ "G" \in DOMAIN DimensionMap /\ DimensionMap["G"] = "land"
        BY DEF AffiliationMap, DimensionMap
      <3>4. h.affil = "unknown" /\ h.dim = "land"
        BY <1>2, <3>1, <3>2, <3>3 DEF AffiliationOf, DimensionOf, Lookup
      <3>5. QED
        BY <2>2, <3>4
    <2>3. QED
      BY <2>1, <2>2
  <1>6. \A f \in {"course", "speed", "ce"} : h[f] = NonZero(c[f])
    <2>1. h.ce = NonZero(c.ce) /\ h.course = NonZero(c.course) /\ h.speed = NonZero(c.speed)
      BY <1>2
    <2>2. QED
      BY <2>1
  <1>7. /\ h.alt = <<>> <=> \/ c.alt = <<>>
                            \/ c.alt[1] = "0" /\ c.alt[2] \in {None, "0"}
        /\ h.alt # <<>> => h.alt = <<c.alt[1], NonZero(c.alt[2])>>
    <2>1. PICK u, v : u = c.alt[1] /\ v = c.alt[2]
      OBVIOUS
    <2>2. h.alt = IF c.alt = <<>> \/ (u = "0" /\ v \in {None, "0"}) THEN <<>>
                  ELSE <<u, NonZero(v)>>
      BY <1>2, <2>1 DEF PbAltWritten
    <2>3. <<u, NonZero(v)>> # <<>>
      OBVIOUS
    <2>4. /\ h.alt = <<>> <=> c.alt = <<>> \/ (u = "0" /\ v \in {None, "0"})
          /\ h.alt # <<>> => h.alt = <<u, NonZero(v)>>
      BY <2>2, <2>3
    <2>5. QED
      BY <2>1, <2>4
  <1>8. DetailKept(c, h, {"contact", "track"})
    <2>1. DetailOk(c.detail)
      BY DEF CtoOk
    <2>2. /\ DOMAIN h.detail = DOMAIN c.detail \ {"contact", "track"}
          /\ \A tag \in DOMAIN h.detail : h.detail[tag] = Block(c.detail, tag)
      BY <1>1, <2>1, PbHopDetail
    <2>3. QED
      BY <2>2 DEF DetailKept, Block
  <1>9. QED
    BY <1>1, <1>2, <1>3, <1>4, <1>5, <1>6, <1>7, <1>8 DEF PbKeeps

\* What has gone through one gateway comes out of the next as it went in.
LEMMA PbSettles == ASSUME NEW c, CtoOk(c) PROVE PbHop(PbHop(c)) = PbHop(c)
  <1>1. PICK h : h = PbHop(c)
    OBVIOUS
  <1>2. PICK g : g = PbHop(h)
    OBVIOUS
  <1>3. /\ IsCto(h) /\ CtoOk(h)
        /\ h.type = IF c.type = <<>> THEN <<"a", "u", "G">> ELSE c.type
        /\ h.affil = AffiliationOf(h.type) /\ h.dim = DimensionOf(h.type)
        /\ h.uid = Default(c.uid, "uid of the CTO") /\ h.time = Millis(c.time)
        /\ h.from = Millis(Default(c.from, c.time)) /\ h.to = Millis(Default(c.to, c.time))
        /\ h.how = IfSet(c.how) /\ h.extras = NoAttrs /\ h.ce = NonZero(c.ce)
        /\ h.alt = PbAltWritten(c.alt)
        /\ h.course = NonZero(c.course) /\ h.speed = NonZero(c.speed) /\ h.remarks = None
        /\ h.callsign = IF c.callsign = "" THEN None ELSE c.callsign
    BY <1>1, PbHopFields
  <1>4. /\ IsCto(g)
        /\ g.type = IF h.type = <<>> THEN <<"a", "u", "G">> ELSE h.type
        /\ g.affil = AffiliationOf(g.type) /\ g.dim = DimensionOf(g.type)
        /\ g.uid = Default(h.uid, "uid of the CTO") /\ g.time = Millis(h.time)
        /\ g.from = Millis(Default(h.from, h.time)) /\ g.to = Millis(Default(h.to, h.time))
        /\ g.how = IfSet(h.how) /\ g.extras = NoAttrs /\ g.ce = NonZero(h.ce)
        /\ g.alt = PbAltWritten(h.alt)
        /\ g.course = NonZero(h.course) /\ g.speed = NonZero(h.speed) /\ g.remarks = None
        /\ g.callsign = IF h.callsign = "" THEN None ELSE h.callsign
    <2>1. CtoOk(h)
      BY <1>3
    <2>2. QED
      BY <1>2, <2>1, PbHopFields
  <1>5. h.type # <<>>
    <2>1. h.type = IF c.type = <<>> THEN <<"a", "u", "G">> ELSE c.type
      BY <1>3
    <2>2. <<"a", "u", "G">> # <<>>
      OBVIOUS
    <2>3. QED
      BY <2>1, <2>2
  <1>6. g.type = h.type /\ g.affil = h.affil /\ g.dim = h.dim
    BY <1>3, <1>4, <1>5
  <1>7. g.uid = h.uid
    <2>1. "uid of the CTO" # None
      BY DEF None
    <2>2. h.uid = Default(c.uid, "uid of the CTO") /\ g.uid = Default(h.uid, "uid of the CTO")
      BY <1>3, <1>4
    <2>3. QED
      BY <2>1, <2>2 DEF Default
  <1>8. g.time = h.time /\ g.from = h.from /\ g.to = h.to
    <2>1. \A v : Millis(Millis(v)) = Millis(v)
      BY DEF Millis
    <2>2. \A v : Millis(v) = None => v = None
      BY DEF Millis, None
    <2>3. ASSUME NEW v, NEW w, w = Millis(Default(v, c.time))
          PROVE  Millis(Default(w, Millis(c.time))) = w
      <3>1. CASE w = None
        <4>1. Default(v, c.time) = None
          BY <2>2, <2>3, <3>1
        <4>2. c.time = None
          BY <4>1 DEF Default
        <4>3. QED
          BY <2>1, <3>1, <4>2 DEF Default, Millis, None
      <3>2. CASE w # None
        BY <2>1, <2>3, <3>2 DEF Default
      <3>3. QED
        BY <3>1, <3>2
    <2>4. /\ h.time = Millis(c.time)
          /\ h.from = Millis(Default(c.from, c.time)) /\ h.to = Millis(Default(c.to, c.time))
          /\ g.time = Millis(h.time)
          /\ g.from = Millis(Default(h.from, h.time)) /\ g.to = Millis(Default(h.to, h.time))
      BY <1>3, <1>4
    <2>5. QED
      BY <2>1, <2>3, <2>4
  <1>9. g.ce = h.ce /\ g.course = h.course /\ g.speed = h.speed
    <2>1. \A v : NonZero(NonZero(v)) = NonZero(v)
      BY NonZeroIs
    <2>2. /\ h.ce = NonZero(c.ce) /\ h.course = NonZero(c.course) /\ h.speed = NonZero(c.speed)
          /\ g.ce = NonZero(h.ce) /\ g.course = NonZero(h.course) /\ g.speed = NonZero(h.speed)
      BY <1>3, <1>4
    <2>3. QED
      BY <2>1, <2>2
  <1>10. g.alt = h.alt
    <2>1. h.alt = PbAltWritten(c.alt) /\ g.alt = PbAltWritten(h.alt)
      BY <1>3, <1>4
    <2>2. QED
      BY <2>1, PbAltOnce
  <1>11. g.callsign = h.callsign
    <2>1. h.callsign # ""
      BY <1>3 DEF None
    <2>2. QED
      BY <1>4, <2>1
  <1>12. g.detail = h.detail
    <2>1. DetailOk(c.detail)
      BY DEF CtoOk
    <2>2. /\ DetailOk(h.detail) /\ DOMAIN h.detail = DOMAIN c.detail \ {"contact", "track"}
          /\ \A tag \in DOMAIN h.detail : h.detail[tag] = Block(c.detail, tag)
      BY <1>1, <2>1, PbHopDetail
    <2>3. /\ DetailOk(g.detail) /\ DOMAIN g.detail = DOMAIN h.detail \ {"contact", "track"}
          /\ \A tag \in DOMAIN g.detail : g.detail[tag] = Block(h.detail, tag)
      BY <1>2, <2>2, PbHopDetail
    <2>4. DOMAIN g.detail = DOMAIN h.detail
      BY <2>2, <2>3
    <2>5. \A tag \in DOMAIN h.detail : Block(h.detail, tag) = h.detail[tag]
      BY <2>1, <2>2, BlockOnce
    <2>6. /\ g.detail = [tag \in DOMAIN g.detail |-> g.detail[tag]]
          /\ h.detail = [tag \in DOMAIN h.detail |-> h.detail[tag]]
      BY <2>2, <2>3 DEF DetailOk
    <2>7. \A tag \in DOMAIN h.detail : g.detail[tag] = h.detail[tag]
      BY <2>3, <2>4, <2>5
    <2>8. QED
      BY <2>4, <2>6, <2>7
  <1>13. /\ IsCto(h) /\ IsCto(g) /\ g.how = h.how /\ g.extras = h.extras
         /\ g.remarks = h.remarks
    BY <1>3, <1>4, HowIs
  <1>14. g = h
    BY <1>6, <1>7, <1>8, <1>9, <1>10, <1>11, <1>12, <1>13, SameCto
  <1>15. QED
    BY <1>1, <1>2, <1>14

-----------------------------------------------------------------------------
(* All CTOs that are forwarded.                                             *)

LEMMA GraphicIsOk ==
    ASSUME NEW a \in Affiliation, NEW uid, NEW text
    PROVE  CtoOk(Graphic(a, uid, text))
  <1>1. PICK c : c = Graphic(a, uid, text)
    OBVIOUS
  <1>2. /\ c.type = <<>> /\ c.affil = a /\ c.dim = None /\ c.alt = <<>> /\ c.ce = None
        /\ c.course = None /\ c.speed = None /\ c.callsign = None /\ c.detail = <<>>
    BY <1>1 DEF Graphic, NoAttrs
  <1>3. DetailOk(<<>>)
    <2>1. DOMAIN <<>> = {} /\ <<>> = [tag \in {} |-> <<>>[tag]]
      OBVIOUS
    <2>2. IsFiniteSet({})
      BY FS_EmptySet
    <2>3. QED
      BY <2>1, <2>2 DEF DetailOk
  <1>4. None \notin NoText /\ None \notin NoNumber /\ None # ""
    BY DEF None, NoText, NoNumber, NoData
  <1>5. CtoOk(c)
    BY <1>2, <1>3, <1>4 DEF CtoOk
  <1>6. QED
    BY <1>1, <1>5

LEMMA ForwardedAreOk == ASSUME NEW c \in CtoInput PROVE CtoOk(c)
  <1>1. CASE \E e \in XmlInput : c = XmlToCto(e)
    <2>1. PICK e \in XmlInput : c = XmlToCto(e)
      BY <1>1
    <2>2. IsDetail(e.detail)
      BY FormatsAssumption
    <2>3. DetailOk(DetailToAttributes(e.detail)) /\ \E T : e.detail \in Seq(T)
      BY <2>2, DetailIsOk
    <2>4. QED
      BY <2>1, <2>3, XmlToCtoIs
  <1>2. CASE \E ev \in PbInput : c = PbToCto(ev)
    <2>1. PICK ev \in PbInput : c = PbToCto(ev)
      BY <1>2
    <2>2. /\ IsDetail(ev.xmlDetail) /\ DOMAIN ev.typed \subseteq Submessages
          /\ ev.callsign # "" /\ NoFloat \cap {ev.hae, ev.le, ev.ce, ev.course, ev.speed} = {}
      BY FormatsAssumption
    <2>3. IsDetail(<<>>)
      BY DEF IsDetail, ToSet
    <2>4. DetailOk(PbRead(ev))
      <3>1. CASE ev.malformed
        BY <2>3, <3>1, DetailIsOk DEF PbRead
      <3>2. CASE ~ev.malformed
        BY <2>2, <3>2, DetailIsOk DEF PbRead
      <3>3. QED
        BY <3>1, <3>2
    <2>5. PbMessage(ev)
      BY <2>2, <2>4 DEF PbMessage
    <2>6. QED
      BY <2>1, <2>5, PbToCtoIs
  <1>3. CASE \E a \in Affiliation, uid \in {None, "A-1"}, text \in {None, "held"} :
                c = Graphic(a, uid, text)
    BY <1>3, GraphicIsOk
  <1>4. QED
    BY <1>1, <1>2, <1>3 DEF CtoInput

-----------------------------------------------------------------------------
(* A behaviour is about what it was given from the start on.                *)
Given ==
    \/ given.kind = "stream"
    \/ given.kind = "cto" /\ given.value \in CtoInput
    \/ given.kind = "kmz" /\ given.value \in KmzInput
    \/ given.kind = "ovl" /\ given.value \in OvlInput

LEMMA GivenStays == Spec => []Given
  <1>1. Init => Given
    <2>1. \A c \in CtoInput : given = [kind |-> "cto", value |-> c] => Given
      BY DEF Given
    <2>2. \A s \in KmzInput : given = [kind |-> "kmz", value |-> s] => Given
      BY DEF Given
    <2>3. \A file \in OvlInput : given = [kind |-> "ovl", value |-> file] => Given
      BY DEF Given
    <2>4. given = [kind |-> "stream", value |-> "none"] => Given
      BY DEF Given
    <2>5. QED
      BY <2>1, <2>2, <2>3, <2>4 DEF Init
  <1>2. Given /\ [Next]_<<streamVars, given>> => Given'
    <2>1. [Next]_<<streamVars, given>> => given' = given
      BY DEF Next
    <2>2. QED
      BY <2>1 DEF Given
  <1>3. QED
    BY <1>1, <1>2, PTL DEF Spec

(* Whoever a graphic of a KMZ file belongs to, the CTO does not make it     *)
(* better (kmz_recognize.py, _placemark_to_cto): for every file and every   *)
(* default affiliation.                                                     *)
THEOREM KmzIdentityIsHonest == Spec => []KmzIdentityHonest
  <1>1. Given => KmzIdentityHonest
    <2>1. SUFFICES ASSUME given.kind = "kmz", given.value \in KmzInput
                   PROVE  KmzIdentityHonest
      BY DEF KmzIdentityHonest, Given
    <2>2. given.value.file \in KmzFileData
      BY <2>1, FormatsAssumption
    <2>3. QED
      BY <2>2, KmzHonest DEF KmzIdentityHonest
  <1>2. QED
    BY <1>1, GivenStays, PTL

(* A KMZ or OVL file yields all of its graphics in their order, or nothing, *)
(* with geometries that PostGIS takes.  Of KMZ files each exception is told *)
(* from its causes: the rings, archives, members and encodings that escape  *)
(* as another one than KmzParseError, and what is that error; of OVL files  *)
(* what escapes (kmz_to_ctos, ovl_to_ctos).  For every file.                *)
THEOREM FileOutcomeIsRight == Spec => []FileOutcome
  <1>1. Given => FileOutcome
    <2>1. CASE given.kind = "kmz" /\ given.value \in KmzInput
      <3>1. given.value.file \in KmzFileData
        BY <2>1, FormatsAssumption
      <3>2. QED
        BY <2>1, <3>1, KmzOutcome DEF FileOutcome
    <2>2. CASE given.kind = "ovl" /\ given.value \in OvlInput
      <3>1. given.value \in OvlFileData
        BY <2>2, FormatsAssumption
      <3>2. QED
        BY <2>2, <3>1, OvlOutcome DEF FileOutcome
    <2>3. CASE given.kind = "stream" \/ (given.kind = "cto" /\ given.value \in CtoInput)
      BY <2>3 DEF FileOutcome
    <2>4. QED
      BY <2>1, <2>2, <2>3 DEF Given
  <1>2. QED
    BY <1>1, GivenStays, PTL

(* The vertices drawn in an OVL file are the vertices stored, and a symbol  *)
(* of another shape than its code means is flagged (geometry_inference.py,  *)
(* transform.py): for every file.                                           *)
THEOREM OvlDrawnIsKept == Spec => []OvlDrawnKept
  <1>1. ASSUME NEW file \in OvlInput, NEW i \in DOMAIN OvlToCtos(file)
        PROVE  DrawnKept(file.objects[i], OvlToCtos(file)[i])
    <2> DEFINE o == file.objects[i]
    <2>1. file.objects \in Seq(OvlObjectData)
      BY FormatsAssumption DEF OvlFileData
    <2>2. /\ OvlFailure(file) = "none" /\ i \in DOMAIN file.objects
          /\ OvlToCtos(file)[i] = ObjectToCto(o, i - 1)
      BY DEF OvlToCtos
    <2>3. o \in OvlObjectData /\ o \in ToSet(file.objects)
      BY <2>1, <2>2 DEF ToSet
    <2>4. ObjectIsValid(o)
      BY <2>2, <2>3 DEF OvlFailure
    <2>5. IsCode(o.code)
      BY <2>3, CodesAreSequences DEF IsCode
    <2> HIDE DEF o
    <2>6. DrawnKept(o, OvlToCtos(file)[i])
      BY <2>2, <2>3, <2>4, <2>5, DrawnIsKept
    <2>7. QED
      BY <2>6 DEF o
  <1>2. Given => OvlDrawnKept
    BY <1>1 DEF OvlDrawnKept, Given
  <1>3. QED
    BY <1>2, GivenStays, PTL

(* A gateway that forwards as CoT XML passes on every track it has: the     *)
(* next one reads what XmlKeeps says, the one behind that reads it again,   *)
(* and from there on nothing changes (cot_xml.py in both directions): for   *)
(* every CTO that is read of a CoT message with any elements in <detail>,   *)
(* and for the point graphics of KMZ and OVL files.                         *)
THEOREM XmlForwardingKeeps == Spec => []XmlForwardKeeps
  <1>1. ASSUME NEW c \in CtoInput
        PROVE  LET once == XmlHop(c)
                   twice == XmlHop(once)
               IN  XmlKeeps(c) /\ XmlKeeps(once) /\ XmlHop(twice) = twice
    <2>1. CtoOk(c)
      BY ForwardedAreOk
    <2>2. PICK once : once = XmlHop(c)
      OBVIOUS
    <2>3. /\ CtoOk(once) /\ FromXml(once)
          /\ once.type = IF c.type = <<>> THEN Synthesized(c.affil, c.dim) ELSE c.type
      BY <2>1, <2>2, XmlHopFields
    <2>4. once.type # <<>>
      <3>1. CASE c.type = <<>>
        <4>1. c.affil \in Affiliation \cup {None} /\ c.dim = None
          BY <2>1, <3>1 DEF CtoOk
        <4>2. QED
          BY <2>3, <3>1, <4>1, TypesAre
      <3>2. CASE c.type # <<>>
        BY <2>3, <3>2
      <3>3. QED
        BY <3>1, <3>2
    <2>5. XmlKeeps(c) /\ XmlKeeps(once)
      BY <2>1, <2>3, XmlKeepsAll
    <2>6. XmlHop(XmlHop(once)) = XmlHop(once)
      BY <2>3, <2>4, XmlSettles
    <2>7. QED
      BY <2>2, <2>5, <2>6
  <1>2. Given => XmlForwardKeeps
    <2>1. SUFFICES ASSUME given.kind = "cto", given.value \in CtoInput PROVE XmlForwardKeeps
      BY DEF XmlForwardKeeps, Given
    <2>2. QED
      BY <1>1, <2>1 DEF XmlForwardKeeps
  <1>3. QED
    BY <1>2, GivenStays, PTL

(* The same for CoT protobuf: the next gateway reads what PbKeeps says, and *)
(* behind it nothing changes any more (cot_pb.py in both directions).       *)
THEOREM PbForwardingKeeps == Spec => []PbForwardKeeps
  <1>1. ASSUME NEW c \in CtoInput
        PROVE  PbKeeps(c) /\ PbHop(PbHop(c)) = PbHop(c)
    BY ForwardedAreOk, PbKeepsAll, PbSettles
  <1>2. Given => PbForwardKeeps
    <2>1. SUFFICES ASSUME given.kind = "cto", given.value \in CtoInput PROVE PbForwardKeeps
      BY DEF PbForwardKeeps, Given
    <2>2. QED
      BY <1>1, <2>1 DEF PbForwardKeeps
  <1>3. QED
    BY <1>2, GivenStays, PTL

-----------------------------------------------------------------------------
\* A behaviour that is not about a connection has one with nothing on it.
LEMMA NothingSent == NoWire \in PbWire
  <1>1. \A n \in 0 .. Len(<<>>) : TryDecode(SubSeq(<<>>, 1, n)).got # "message"
    <2>1. \A n \in 0 .. Len(<<>>) : SubSeq(<<>>, 1, n) = <<>>
      OBVIOUS
    <2>2. TryDecode(<<>>) = Incomplete
      BY DEF TryDecode
    <2>3. Incomplete.got # "message"
      BY DEF Incomplete
    <2>4. ASSUME NEW n \in 0 .. Len(<<>>)
          PROVE  TryDecode(SubSeq(<<>>, 1, n)) = Incomplete
      BY <2>1, <2>2
    <2>5. QED
      BY <2>3, <2>4
  <1>2. QED
    BY <1>1 DEF NoWire, PbWire

(* What is delivered from a TCP connection is what the client sent, however *)
(* TCP cuts it: each message once, whole and in its order, none missing     *)
(* when the connection ends, which the gateway does not close on messages   *)
(* only (try_decode_frame of cot_pb.py, _read_one_xml_event and the loops   *)
(* of listeners.py).  For every number and length of messages, whatever     *)
(* follows them, and every way of cutting.                                  *)
THEOREM MessagesAreExact == Spec => []MessagesExact
  <1>1. Init => StreamInv
    <2>1. ASSUME Init, given.kind = "stream", StreamInit PROVE StreamInv
      <3>1. WireOk
        BY <2>1, WireAssumption DEF StreamInit, WireOk
      <3>2. QED
        BY <2>1, <3>1, StreamStarts DEF StreamInit
    <2>2. ASSUME wire = NoWire, sent = 0, buf = <<>>, delivered = <<>>, phase = "ended"
          PROVE  StreamInv
      <3>1. WireOk /\ wire.msgs = <<>>
        BY <2>2, NothingSent DEF WireOk, NoWire
      <3>2. QED
        BY <2>2, <3>1, StreamStarts
    <2>3. QED
      BY <2>1, <2>2 DEF Init
  <1>2. StreamInv /\ [Next]_<<streamVars, given>> => StreamInv'
    <2>1. [Next]_<<streamVars, given>> => [StreamNext]_streamVars
      BY DEF Next
    <2>2. QED
      BY <2>1, StreamStep
  <1>3. StreamInv => MessagesExact
    BY StreamIsExact
  <1>4. QED
    BY <1>1, <1>2, <1>3, PTL DEF Spec

=============================================================================
