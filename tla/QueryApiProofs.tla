--------------------------- MODULE QueryApiProofs ---------------------------
(* What TLAPS proves of the pages a client lists (QueryApi) while the       *)
(* operational store writes and retires rows, for any messages, event times *)
(* and page size.                                                           *)
EXTENDS QueryApi, OpstoreProofs

(***************************************************************************)
(* The inductive invariant.                                                *)
(***************************************************************************)

\* A row that was current from the first page on is listed, or its turn is
\* still to come, behind the last row that was listed.
ComesYet(m) == more /\ listed # <<>> /\ Behind(m, Last(listed))
ListInv ==
    /\ listed \in Seq(Msg) /\ more \in BOOLEAN
    /\ first \subseteq table
    /\ PagesDescend
    /\ \A m \in first \cap Listable : m \in ToSet(listed) \/ ComesYet(m)

(***************************************************************************)
(* The order of the rows, and the pages that are cut from them.            *)
(***************************************************************************)

\* The order is strict, and of two rows one comes first.
LEMMA LaterOrders ==
    /\ \A m, n, o \in Msg : Later(m, n) /\ Later(n, o) => Later(m, o)
    /\ \A m, n \in Msg : m = n \/ Later(m, n) \/ Later(n, m)
    /\ \A m \in Msg : ~ Later(m, m)
  <1>1. \A m \in Msg : EventTime[m] \in Nat /\ UidRank[m] \in Nat
    BY QueryAssumption
  <1>2. \A m, n \in Msg : UidRank[m] = UidRank[n] => m = n
    BY QueryAssumption
  <1>3. QED
    BY <1>1, <1>2 DEF Later

LEMMA MessagesFinite == IsFiniteSet(Msg)
  <1> DEFINE part == [i \in Ingest |-> {i} \X (1 .. SizeOf[i])]
             parts == {{i} \X (1 .. SizeOf[i]) : i \in Ingest}
  <1>1. IsFiniteSet(Ingest)
    BY OpstoreAssumption, FS_Interval DEF Ingest
  <1>2. part \in Surjection(Ingest, parts)
    BY DEF Surjection
  <1>3. IsFiniteSet(parts)
    <2> HIDE DEF part, parts
    <2> QED
      BY <1>1, <1>2, FS_Surjection
  <1>4. ASSUME NEW i \in Ingest PROVE IsFiniteSet({i} \X (1 .. SizeOf[i]))
    <2>1. SizeOf[i] \in Nat
      BY OpstoreAssumption
    <2>2. IsFiniteSet(1 .. SizeOf[i])
      BY <2>1, FS_Interval
    <2>3. IsFiniteSet({i})
      BY FS_Singleton
    <2>4. QED
      BY <2>2, <2>3, FS_Product
  <1>5. \A T \in parts : IsFiniteSet(T)
    BY <1>4
  <1>6. IsFiniteSet(UNION parts)
    <2> HIDE DEF parts
    <2> QED
      BY <1>3, <1>5, FS_UNION
  <1>7. QED
    BY <1>6 DEF Msg

\* A sequence of a set has each of its elements.
LEMMA SequencesOfSet ==
    ASSUME NEW S, IsFiniteSet(S), NEW rows \in SetToSeqs(S)
    PROVE  /\ rows \in Seq(S)
           /\ \A x \in S : \E i \in 1 .. Len(rows) : rows[i] = x
  <1> DEFINE n == Cardinality(S)
             D == 1 .. n
  <1>1. n \in Nat
    BY FS_CardinalityType
  <1>2. rows \in [D -> S] /\ \A i, j \in D : i # j => rows[i] # rows[j]
    BY DEF SetToSeqs
  <1>3. IsFiniteSet(D) /\ Cardinality(D) = n
    BY <1>1, FS_Interval
  <1>4. rows \in Injection(D, S)
    BY <1>2 DEF Injection, IsInjective
  <1>5. rows \in Surjection(D, S)
    <2> HIDE DEF n, D
    <2> QED
      BY <1>3, <1>4, FS_Injection DEF n
  <1>6. \A x \in S : \E i \in D : rows[i] = x
    BY <1>5 DEF Surjection
  <1>7. rows \in Seq(S) /\ Len(rows) = n
    BY <1>1, <1>2
  <1>8. QED
    BY <1>6, <1>7

\* The first elements of a sequence.
LEMMA FirstElements ==
    ASSUME NEW S, NEW s \in Seq(S), NEW n \in 0 .. Len(s)
    PROVE  /\ SubSeq(s, 1, n) \in Seq(S)
           /\ Len(SubSeq(s, 1, n)) = n /\ DOMAIN SubSeq(s, 1, n) = 1 .. n
           /\ \A i \in 1 .. n : SubSeq(s, 1, n)[i] = s[i]
  OBVIOUS

\* The first rows of a sorted list are a page: sorted, and what is not on it
\* comes behind its last row.
LEMMA PageCuts ==
    ASSUME NEW S, NEW rows \in Seq(S), \A x \in S : \E i \in 1 .. Len(rows) : rows[i] = x,
           Descending(rows)
    PROVE  /\ Items(rows) \in Seq(S)
           /\ Descending(Items(rows))
           /\ \A m \in S : \/ \E i \in 1 .. Len(Items(rows)) : Items(rows)[i] = m
                           \/ /\ Len(rows) > Limit
                              /\ Items(rows) # <<>>
                              /\ Behind(m, Last(Items(rows)))
  <1> DEFINE items == Items(rows)
  <1>1. /\ Len(rows) \in Nat
        /\ \A x \in S : \E i \in 1 .. Len(rows) : rows[i] = x
    OBVIOUS
  <1>2. PICK n \in 0 .. Len(rows) :
            /\ n = Min({Limit, Len(rows)})
            /\ n < Len(rows) => n = Limit /\ Len(rows) > Limit
    <2>1. Limit \in Nat \ {0}
      BY QueryAssumption
    <2>2. \A k \in Nat, l \in Nat : Min({k, l}) = IF l > k THEN k ELSE l
      BY DEF Min
    <2>3. Min({Limit, Len(rows)}) = IF Len(rows) > Limit THEN Limit ELSE Len(rows)
      BY <1>1, <2>1, <2>2
    <2>4. QED
      BY <1>1, <2>1, <2>3
  <1>3. n \in Nat /\ n <= Len(rows)
    BY <1>1, <1>2
  <1>4. /\ items \in Seq(S) /\ Len(items) = n /\ DOMAIN items = 1 .. n
        /\ \A i \in 1 .. n : items[i] = rows[i]
    <2>1. items = SubSeq(rows, 1, n)
      BY <1>2 DEF Items
    <2>2. QED
      <3> DEFINE cut == SubSeq(rows, 1, n)
      <3>1. n \in 0 .. Len(rows)
        BY <1>1, <1>2
      <3>2. /\ cut \in Seq(S) /\ Len(cut) = n /\ DOMAIN cut = 1 .. n
            /\ \A i \in 1 .. n : cut[i] = rows[i]
        BY <3>1, FirstElements
      <3>3. items = cut
        BY <2>1
      <3> HIDE DEF cut
      <3>4. QED
        BY <3>2, <3>3
  <1>5. DOMAIN rows = 1 .. Len(rows)
    BY <1>1
  <1> HIDE DEF items
  <1>6. Descending(items)
    <2>1. \A i \in DOMAIN items : i \in DOMAIN rows /\ items[i] = rows[i]
      BY <1>1, <1>3, <1>4, <1>5
    <2>2. QED
      BY <2>1 DEF Descending
  <1>7. ASSUME NEW m \in S
        PROVE  \/ \E i \in 1 .. Len(items) : items[i] = m
               \/ Len(rows) > Limit /\ items # <<>> /\ Behind(m, Last(items))
    <2>1. PICK i \in 1 .. Len(rows) : rows[i] = m
      BY <1>1
    <2>2. CASE i <= n
      <3>1. i \in 1 .. n
        BY <1>1, <1>3, <2>2
      <3>2. i \in 1 .. Len(items) /\ items[i] = m
        BY <1>4, <2>1, <3>1
      <3>3. QED
        BY <3>2
    <2>3. CASE ~ i <= n
      <3>1. Len(rows) > Limit /\ n = Limit /\ n # 0 /\ n \in DOMAIN rows /\ n < i
        <4>1. n < i /\ i <= Len(rows) /\ n < Len(rows) /\ i \in Nat
          BY <1>1, <1>3, <2>3
        <4>2. n = Limit /\ Len(rows) > Limit
          BY <1>2, <4>1
        <4>3. n # 0
          BY <4>2, QueryAssumption
        <4>4. QED
          BY <1>3, <1>5, <4>1, <4>2, <4>3
      <3>2. Later(rows[n], rows[i])
        BY <1>5, <2>1, <3>1 DEF Descending
      <3>3. Last(items) = rows[n] /\ items # <<>>
        <4>1. n \in 1 .. n
          BY <1>3, <3>1
        <4>2. items[Len(items)] = rows[n] /\ items # <<>>
          BY <1>4, <3>1, <4>1
        <4>3. QED
          BY <4>2 DEF Last
      <3>4. QED
        BY <2>1, <3>1, <3>2, <3>3 DEF Behind
    <2>4. QED
      BY <2>2, <2>3
  <1>8. QED
    BY <1>4, <1>6, <1>7 DEF items

\* Rows that come behind the last one keep the order of the list.
LEMMA DescendingJoin ==
    ASSUME NEW s \in Seq(Msg), NEW t \in Seq(Msg), Descending(s), Descending(t),
           \A i \in 1 .. Len(t) : s # <<>> => Later(Last(s), t[i])
    PROVE  Descending(s \o t)
  <1> DEFINE u == s \o t
  <1>1. /\ Len(s) \in Nat /\ Len(t) \in Nat
        /\ DOMAIN s = 1 .. Len(s) /\ DOMAIN t = 1 .. Len(t) /\ DOMAIN u = 1 .. Len(s) + Len(t)
        /\ \A i \in 1 .. Len(s) : u[i] = s[i] /\ s[i] \in Msg
        /\ \A i \in 1 .. Len(t) : u[Len(s) + i] = t[i] /\ t[i] \in Msg
    OBVIOUS
  <1> HIDE DEF u
  <1>2. SUFFICES ASSUME NEW i \in DOMAIN u, NEW j \in DOMAIN u, i < j PROVE Later(u[i], u[j])
    BY DEF Descending, u
  <1>3. CASE j <= Len(s)
    <2>1. i \in 1 .. Len(s) /\ j \in 1 .. Len(s)
      BY <1>1, <1>2, <1>3
    <2>2. QED
      BY <1>1, <1>2, <2>1 DEF Descending
  <1>4. CASE i > Len(s)
    <2>1. i - Len(s) \in 1 .. Len(t) /\ j - Len(s) \in 1 .. Len(t) /\ i - Len(s) < j - Len(s)
      BY <1>1, <1>2, <1>4
    <2>2. u[i] = t[i - Len(s)] /\ u[j] = t[j - Len(s)]
      <3>1. i = Len(s) + (i - Len(s)) /\ j = Len(s) + (j - Len(s))
        BY <1>1
      <3>2. QED
        BY <1>1, <2>1, <3>1
    <2>3. QED
      BY <1>1, <2>1, <2>2 DEF Descending
  <1>5. CASE i <= Len(s) /\ j > Len(s)
    <2>1. i \in 1 .. Len(s) /\ Len(s) \in 1 .. Len(s) /\ j - Len(s) \in 1 .. Len(t) /\ s # <<>>
      BY <1>1, <1>2, <1>5
    <2>2. u[j] = t[j - Len(s)]
      <3>1. j = Len(s) + (j - Len(s))
        BY <1>1
      <3>2. QED
        BY <1>1, <2>1, <3>1
    <2>3. Later(s[Len(s)], u[j])
      BY <2>1, <2>2 DEF Last
    <2>4. u[i] = s[i] /\ u[i] \in Msg /\ s[Len(s)] \in Msg /\ u[j] \in Msg
      BY <1>1, <2>1, <2>2
    <2>5. i = Len(s) \/ Later(s[i], s[Len(s)])
      <3>1. i = Len(s) \/ i < Len(s)
        BY <1>1, <2>1
      <3>2. i \in DOMAIN s /\ Len(s) \in DOMAIN s
        BY <1>1, <2>1
      <3>3. QED
        BY <3>1, <3>2 DEF Descending
    <2>6. QED
      BY <2>3, <2>4, <2>5, LaterOrders
  <1>6. QED
    BY <1>1, <1>3, <1>4, <1>5

(***************************************************************************)
(* Every step keeps the inductive invariant.                               *)
(***************************************************************************)

LEMMA PageLists == ASSUME IInv, ListInv, Page PROVE ListInv'
  <1> DEFINE S == {m \in Listable : listed # <<>> => Behind(m, Last(listed))}
  <1>1. Listable \subseteq table /\ table \subseteq Msg
    BY DEF IInv, TypeOK, Listable, Current
  <1>2. /\ UNCHANGED <<table, validTo>> /\ more
        /\ first' = IF listed = <<>> THEN Listable ELSE first
    BY DEF Page, vars, database
  <1>3. Listable' = Listable
    BY <1>2 DEF Listable, Current
  <1>4. \E rows \in SetToSeqs(S) :
            Descending(rows) /\ listed' = listed \o Items(rows) /\ more' = (Len(rows) > Limit)
    BY DEF Page
  <1>5. \A m \in S : listed # <<>> => Behind(m, Last(listed))
    OBVIOUS
  <1>6. \A m \in Listable : listed = <<>> \/ Behind(m, Last(listed)) => m \in S
    OBVIOUS
  <1>7. S \subseteq Msg
    BY <1>1
  <1> HIDE DEF S
  <1>8. PICK rows \in Seq(S) :
            /\ \A x \in S : \E i \in 1 .. Len(rows) : rows[i] = x
            /\ Descending(rows)
            /\ listed' = listed \o Items(rows) /\ more' = (Len(rows) > Limit)
    <2>1. IsFiniteSet(S)
      BY <1>7, MessagesFinite, FS_Subset
    <2>2. QED
      BY <1>4, <2>1, SequencesOfSet
  <1>9. PICK items : items = Items(rows)
    OBVIOUS
  <1>10. /\ items \in Seq(S) /\ Descending(items)
         /\ \A m \in S : \/ \E i \in 1 .. Len(items) : items[i] = m
                         \/ Len(rows) > Limit /\ items # <<>> /\ Behind(m, Last(items))
    BY <1>8, <1>9, PageCuts
  <1>11. listed' = listed \o items /\ more' = (Len(rows) > Limit)
    BY <1>8, <1>9
  <1>12. listed \in Seq(Msg) /\ items \in Seq(Msg) /\ Descending(listed)
    <2>1. items \in Seq(Msg)
      <3>1. \A s \in Seq(S) : s \in Seq(Msg)
        BY <1>7
      <3>2. QED
        BY <1>10, <3>1
    <2>2. QED
      BY <2>1 DEF ListInv, PagesDescend
  <1>13. listed' \in Seq(Msg) /\ more' \in BOOLEAN
    BY <1>11, <1>12
  <1>14. first' \subseteq table'
    BY <1>1, <1>2 DEF ListInv
  <1>15. PagesDescend'
    <2>1. \A i \in 1 .. Len(items) : items[i] \in S
      BY <1>10
    <2>2. \A i \in 1 .. Len(items) : listed # <<>> => Later(Last(listed), items[i])
      BY <1>5, <2>1 DEF Behind
    <2>3. Descending(listed \o items)
      BY <1>12, <1>10, <2>2, DescendingJoin
    <2>4. QED
      BY <1>11, <2>3 DEF PagesDescend, Descending
  <1>16. ASSUME NEW m \in first' \cap Listable'
         PROVE  m \in ToSet(listed') \/ ComesYet(m)'
    <2>1. /\ DOMAIN listed = 1 .. Len(listed) /\ Len(listed) \in Nat /\ Len(items) \in Nat
          /\ DOMAIN listed' = 1 .. Len(listed) + Len(items)
          /\ Len(listed') = Len(listed) + Len(items)
          /\ \A i \in 1 .. Len(listed) : listed'[i] = listed[i]
          /\ \A i \in 1 .. Len(items) : listed'[Len(listed) + i] = items[i]
      BY <1>11, <1>12
    <2>2. CASE m \in ToSet(listed)
      <3>1. PICK i \in 1 .. Len(listed) : listed[i] = m
        BY <2>1, <2>2 DEF ToSet
      <3>2. i \in DOMAIN listed' /\ listed'[i] = m
        BY <2>1, <3>1
      <3>3. QED
        BY <3>2 DEF ToSet
    <2>3. CASE m \notin ToSet(listed)
      <3>1. m \in S
        BY <1>2, <1>3, <1>6, <1>16, <2>3 DEF ListInv, ComesYet
      <3>2. CASE \E i \in 1 .. Len(items) : items[i] = m
        <4>1. PICK i \in 1 .. Len(items) : items[i] = m
          BY <3>2
        <4>2. Len(listed) + i \in DOMAIN listed' /\ listed'[Len(listed) + i] = m
          BY <2>1, <4>1
        <4>3. QED
          BY <4>2 DEF ToSet
      <3>3. CASE Len(rows) > Limit /\ items # <<>> /\ Behind(m, Last(items))
        <4>1. Len(items) \in 1 .. Len(items) /\ Len(listed') # 0
          BY <1>12, <2>1, <3>3
        <4>2. Last(listed') = Last(items) /\ listed' # <<>>
          BY <1>13, <2>1, <4>1 DEF Last
        <4>3. Behind(m, Last(listed'))
          BY <3>3, <4>2
        <4>4. QED
          BY <1>11, <3>3, <4>2, <4>3 DEF ComesYet
      <3>4. QED
        BY <1>10, <3>1, <3>2, <3>3
    <2>4. QED
      BY <2>2, <2>3
  <1>17. QED
    BY <1>13, <1>14, <1>15, <1>16 DEF ListInv

\* The store retires rows and never makes a retired one current again.
LEMMA StoreLists == ASSUME IInv, ListInv, [Next]_vars, UNCHANGED reader PROVE ListInv'
  <1>1. /\ table \subseteq table' /\ table \subseteq Msg
        /\ \A m \in Msg : validTo[m] # 0 => validTo'[m] = validTo[m]
    BY NextHistory DEF IInv, TypeOK
  <1>2. listed' = listed /\ more' = more /\ first' = first
    BY DEF reader
  <1>3. \A m \in first \cap Listable' : m \in Listable
    BY <1>1 DEF ListInv, Listable, Current
  <1>4. QED
    BY <1>1, <1>2, <1>3 DEF ListInv, PagesDescend, Descending, ComesYet, Behind

LEMMA QInitLists == QInit => ListInv
  <1> SUFFICES ASSUME QInit PROVE ListInv
    OBVIOUS
  <1>1. listed = <<>> /\ more = TRUE /\ first = {}
    BY DEF QInit
  <1>2. PagesDescend
    BY <1>1 DEF PagesDescend, Descending
  <1>3. QED
    BY <1>1, <1>2 DEF ListInv

LEMMA QNextLists ==
    ASSUME IInv, ListInv, [QNext]_<<vars, reader>> PROVE IInv' /\ ListInv'
  <1>1. [Next]_vars
    BY DEF QNext, Page
  <1>2. IInv'
    BY <1>1, NextInvariant
  <1>3. CASE Page
    BY <1>2, <1>3, PageLists
  <1>4. CASE UNCHANGED reader
    BY <1>1, <1>2, <1>4, StoreLists
  <1>5. QED
    BY <1>2, <1>3, <1>4 DEF QNext

LEMMA Listing == QSpec => [](IInv /\ ListInv)
  <1>1. QInit => IInv /\ ListInv
    BY InitInvariant, QInitLists DEF QInit
  <1>2. QED
    BY <1>1, QNextLists, PTL DEF QSpec

\* No row is listed twice and each comes after those of a later event time,
\* over pages between which rows are written and retired.
THEOREM ListDescends == QSpec => []PagesDescend
  <1>1. ListInv => PagesDescend
    BY DEF ListInv
  <1>2. QED
    BY <1>1, Listing, PTL

\* A client that pages to the end has every row that was current throughout.
THEOREM ListIsComplete == QSpec => []PagesComplete
  <1>1. ListInv => PagesComplete
    BY DEF ListInv, PagesComplete, ComesYet
  <1>2. QED
    BY <1>1, Listing, PTL

=============================================================================
