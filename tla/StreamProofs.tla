----------------------------- MODULE StreamProofs -----------------------------
(* What the readers of a TCP connection make of its chunks (CotStreams), for *)
(* whatever a client sends and however it is cut.                            *)
EXTENDS CotStreams, SequenceTheorems, DataFacts

-----------------------------------------------------------------------------
(* Numbers.                                                                 *)

LEMMA DivMod ==
    ASSUME NEW G \in Nat \ {0}, NEW n \in Nat
    PROVE  /\ n \div G \in Nat /\ n % G \in Nat /\ n % G < G
           /\ n = G * (n \div G) + (n % G)
  <1>1. n \div G \in Nat /\ n % G \in Nat /\ n % G < G
    OBVIOUS
  <1>2. n = G * (n \div G) + (n % G)
    OBVIOUS
  <1>3. QED
    BY <1>1, <1>2

LEMMA ModOfGroup ==
    ASSUME NEW G \in Nat \ {0}, NEW r \in Nat, r < G
    PROVE  r % G = r /\ (G + r) % G = r
  OBVIOUS

LEMMA DivIsLess ==
    ASSUME NEW G \in Nat, G >= 2, NEW n \in Nat, n >= G
    PROVE  n \div G \in Nat /\ n \div G < n
  OBVIOUS

-----------------------------------------------------------------------------
(* The varint of a number, as the loop of encode_frame makes it.            *)

Varints(f, n) ==
    f = [k \in 0 .. n |-> IF k < GroupSize THEN <<k>>
                          ELSE <<GroupSize + (k % GroupSize)>> \o f[k \div GroupSize]]

\* There is such a table: were there none up to some number, take the least one,
\* and extend the table below it.
LEMMA VarintsExist ==
    ASSUME NEW n \in Nat
    PROVE  \E f : Varints(f, n)
  <1> DEFINE Body(f, k) == IF k < GroupSize THEN <<k>>
                           ELSE <<GroupSize + (k % GroupSize)>> \o f[k \div GroupSize]
             Runs(f, m) == f = [k \in 0 .. m |-> Body(f, k)]
             Bad == {m \in Nat : ~ \E f : Runs(f, m)}
  <1>1. GroupSize \in Nat /\ GroupSize >= 2
    BY StreamAssumption
  <1>2. ASSUME NEW m \in Bad, \A j \in Bad : m <= j PROVE FALSE
    <2>1. m \in Nat
      OBVIOUS
    <2>2. CASE m = 0
      <3>1. Runs([k \in 0 .. 0 |-> <<k>>], 0)
        BY <1>1
      <3>2. QED
        BY <2>2, <3>1
    <2>3. CASE m # 0
      <3>1. m - 1 \in Nat /\ m - 1 \notin Bad
        <4> HIDE DEF Bad
        <4> QED
          BY <1>2, <2>1, <2>3
      <3>2. PICK f : Runs(f, m - 1)
        BY <3>1
      <3> DEFINE g == [k \in 0 .. m |-> Body(f, k)]
      <3>3. ASSUME NEW k \in 0 .. m PROVE Body(f, k) = Body(g, k)
        <4>1. CASE k < GroupSize
          BY <4>1
        <4>2. CASE k >= GroupSize
          <5> DEFINE d == k \div GroupSize
          <5>1. k \in Nat /\ k <= m
            BY <2>1
          <5>2. d \in Nat /\ d < k
            BY <1>1, <4>2, <5>1, DivIsLess
          <5> HIDE DEF d
          <5>3. d \in 0 .. m - 1 /\ d \in 0 .. m
            BY <2>1, <5>1, <5>2
          <5>4. g[d] = Body(f, d)
            BY <5>3
          <5>5. f[d] = Body(f, d)
            BY <3>2, <5>3
          <5>6. g[k \div GroupSize] = f[k \div GroupSize]
            BY <5>4, <5>5 DEF d
          <5> HIDE DEF g
          <5>7. QED
            BY <5>6
        <4>3. QED
          BY <1>1, <2>1, <4>1, <4>2
      <3>4. Runs(g, m)
        BY <3>3
      <3>5. QED
        BY <3>4
    <2>4. QED
      BY <2>2, <2>3
  <1>3. Bad = {}
    <2>1. Bad \in SUBSET Nat
      OBVIOUS
    <2> HIDE DEF Bad
    <2>2. QED
      BY <1>2, <2>1, SmallestElement
  <1>4. \E f : Runs(f, n)
    BY <1>3
  <1>5. QED
    BY <1>4 DEF Varints

-----------------------------------------------------------------------------
(* The value of some groups, as the loop of try_decode_frame adds them up.  *)

Values(it, b) ==
    it = [s \in SUBSET (DOMAIN b) |->
             IF s = {} THEN 0 ELSE (b[Min(s)] % GroupSize) + GroupSize * it[s \ {Min(s)}]]

LEMMA LeastIsIn ==
    ASSUME NEW S \in SUBSET Nat, S # {}
    PROVE  Min(S) \in S /\ \A y \in S : Min(S) <= y
  BY SmallestElement DEF Min

LEMMA ValuesExist ==
    ASSUME NEW b, NEW N \in Nat, DOMAIN b = 1 .. N
    PROVE  \E it : Values(it, b)
  <1> DEFINE D == 1 .. N
             Small(n) == {s \in SUBSET D : Cardinality(s) <= n}
             Body(g, s) == IF s = {} THEN 0
                           ELSE (b[Min(s)] % GroupSize) + GroupSize * g[s \ {Min(s)}]
             Runs(n, g) == g = [s \in Small(n) |-> Body(g, s)]
             Bad == {n \in Nat : ~ \E g : Runs(n, g)}
  <1>1. IsFiniteSet(D) /\ \A s \in SUBSET D : IsFiniteSet(s) /\ Cardinality(s) \in Nat
    <2>1. IsFiniteSet(D)
      BY FS_Interval
    <2>2. QED
      BY <2>1, FS_Subset, FS_CardinalityType
  <1>2. ASSUME NEW s \in SUBSET D, s # {}
        PROVE  /\ Min(s) \in s
               /\ s \ {Min(s)} \in SUBSET D
               /\ Cardinality(s \ {Min(s)}) = Cardinality(s) - 1
    <2>1. s \in SUBSET Nat
      OBVIOUS
    <2>2. Min(s) \in s
      BY <1>2, <2>1, LeastIsIn
    <2>3. QED
      BY <1>1, <2>2, FS_RemoveElement
  <1> HIDE DEF D
  <1>3. ASSUME NEW n \in Bad, \A m \in Bad : n <= m PROVE FALSE
    <2>1. CASE n = 0
      <3>1. \A s \in Small(0) : s = {}
        BY <1>1, FS_EmptySet
      <3>2. Runs(0, [s \in Small(0) |-> 0])
        BY <3>1
      <3>3. QED
        BY <2>1, <3>2
    <2>2. CASE n # 0
      <3>1. n - 1 \in Nat /\ n - 1 \notin Bad
        <4>1. n \in Nat
          OBVIOUS
        <4> HIDE DEF Bad
        <4>2. QED
          BY <1>3, <2>2, <4>1
      <3>2. PICK g : Runs(n - 1, g)
        BY <3>1
      <3> DEFINE h == [s \in Small(n) |-> Body(g, s)]
      <3>3. ASSUME NEW s \in Small(n) PROVE Body(g, s) = Body(h, s)
        <4>1. CASE s = {}
          BY <4>1
        <4>2. CASE s # {}
          <5> DEFINE t == s \ {Min(s)}
          <5>1. t \in Small(n - 1) /\ t \in Small(n)
            BY <1>1, <1>2, <4>2, <3>1, SMTT(20)
          <5>2. h[t] = Body(g, t)
            BY <5>1
          <5>3. g[t] = Body(g, t)
            BY <3>2, <5>1
          <5>4. g[s \ {Min(s)}] = h[s \ {Min(s)}]
            BY <5>2, <5>3
          <5> HIDE DEF h
          <5>5. QED
            BY <4>2, <5>4
        <4>3. QED
          BY <4>1, <4>2
      <3>4. Runs(n, h)
        BY <3>3
      <3>5. QED
        BY <3>4
    <2>3. QED
      BY <2>1, <2>2
  <1>4. Bad = {}
    <2>1. Bad \in SUBSET Nat
      OBVIOUS
    <2> HIDE DEF Bad
    <2>2. QED
      BY <1>3, <2>1, SmallestElement
  <1>5. Cardinality(D) \in Nat
    BY <1>1
  <1>6. PICK g : Runs(Cardinality(D), g)
    BY <1>4, <1>5
  <1>7. \A s \in SUBSET D : Cardinality(s) <= Cardinality(D)
    BY <1>1, FS_Subset
  <1>8. Small(Cardinality(D)) = SUBSET D
    BY <1>7
  <1>9. QED
    BY <1>6, <1>8 DEF Values, D

LEMMA ValueIsFold ==
    ASSUME NEW b, NEW N \in Nat, DOMAIN b = 1 .. N
    PROVE  \E it : Values(it, b) /\ GroupsValue(b) = it[DOMAIN b]
  <1>1. GroupsValue(b) = (CHOOSE it : Values(it, b))[DOMAIN b]
    BY DEF GroupsValue, FoldRight, MapThenFoldSet, Values
  <1>2. QED
    BY <1>1, ValuesExist

LEMMA IntervalLeft ==
    ASSUME NEW i \in Nat, NEW n \in Nat, i <= n
    PROVE  Min(i .. n) = i /\ (i .. n) \ {i} = i + 1 .. n /\ i .. n # {}
  <1>1. i \in i .. n /\ (i .. n) \ {i} = i + 1 .. n
    OBVIOUS
  <1> DEFINE S == i .. n
  <1>2. S \in SUBSET Nat /\ \A y \in S : i <= y /\ y \in Nat
    OBVIOUS
  <1>3. i \in S
    BY <1>1
  <1> HIDE DEF S
  <1>4. Min(S) \in S /\ Min(S) <= i
    BY <1>2, <1>3, LeastIsIn
  <1>5. Min(S) = i
    <2>1. i <= Min(S) /\ Min(S) \in Nat /\ Min(S) <= i
      BY <1>2, <1>4
    <2>2. \A m \in Nat : i <= m /\ m <= i => m = i
      OBVIOUS
    <2>3. QED
      BY <2>1, <2>2
  <1>6. QED
    BY <1>1, <1>5 DEF S

LEMMA ValueOfNone == GroupsValue(<<>>) = 0
  <1>1. DOMAIN <<>> = 1 .. 0 /\ DOMAIN <<>> = {}
    OBVIOUS
  <1>2. PICK it : Values(it, <<>>) /\ GroupsValue(<<>>) = it[{}]
    BY <1>1, ValueIsFold
  <1>3. it[{}] = 0
    BY <1>2 DEF Values
  <1>4. QED
    BY <1>2, <1>3

\* The first group counts once, what follows it GroupSize times.
LEMMA ValueOfMore ==
    ASSUME NEW s \in Seq(Byte), NEW x \in Byte
    PROVE  GroupsValue(<<x>> \o s) = (x % GroupSize) + GroupSize * GroupsValue(s)
  <1> DEFINE b == <<x>> \o s
             N == Len(s)
  <1>1. /\ N \in Nat /\ DOMAIN s = 1 .. N /\ DOMAIN b = 1 .. N + 1 /\ b[1] = x
        /\ \A i \in 1 .. N : b[i + 1] = s[i]
    <2>1. <<x>> \in Seq(Byte) /\ Len(<<x>>) = 1 /\ <<x>>[1] = x
      OBVIOUS
    <2>2. /\ b \in Seq(Byte) /\ Len(b) = 1 + N
          /\ \A i \in 1 .. 1 + N : b[i] = IF i <= 1 THEN <<x>>[i] ELSE s[i - 1]
      BY <2>1, ConcatProperties
    <2>3. N \in Nat /\ DOMAIN s = 1 .. N /\ DOMAIN b = 1 .. Len(b)
      BY <2>2, LenProperties
    <2> HIDE DEF b
    <2>4. \A i \in 1 .. N : b[i + 1] = s[i]
      <3>1. \A i \in 1 .. N : i + 1 \in 1 .. 1 + N /\ ~ (i + 1 <= 1) /\ (i + 1) - 1 = i
        BY <2>3
      <3>2. QED
        BY <2>2, <3>1
    <2>5. b[1] = x
      BY <2>1, <2>2, <2>3
    <2>6. 1 + N = N + 1
      BY <2>3
    <2>7. QED
      BY <2>2, <2>3, <2>4, <2>5, <2>6
  <1> HIDE DEF b, N
  <1>2. PICK long : Values(long, b) /\ GroupsValue(b) = long[DOMAIN b]
    <2>1. N + 1 \in Nat
      BY <1>1
    <2>2. QED
      BY <1>1, <2>1, ValueIsFold
  <1>3. PICK short : Values(short, s) /\ GroupsValue(s) = short[DOMAIN s]
    BY <1>1, ValueIsFold
  <1>4. \A i \in 1 .. N + 1 :
            long[i .. N + 1] = (b[i] % GroupSize) + GroupSize * long[i + 1 .. N + 1]
    <2>1. SUFFICES ASSUME NEW i \in 1 .. N + 1
                   PROVE  long[i .. N + 1] = (b[i] % GroupSize) + GroupSize * long[i + 1 .. N + 1]
      OBVIOUS
    <2>2. i .. N + 1 \in SUBSET (DOMAIN b)
      BY <1>1
    <2>3. i \in Nat /\ N + 1 \in Nat /\ i <= N + 1
      BY <1>1
    <2>4. Min(i .. N + 1) = i /\ (i .. N + 1) \ {i} = i + 1 .. N + 1 /\ i .. N + 1 # {}
      BY <2>3, IntervalLeft
    <2>5. QED
      BY <1>2, <2>2, <2>4 DEF Values
  <1>5. \A i \in 1 .. N : short[i .. N] = (s[i] % GroupSize) + GroupSize * short[i + 1 .. N]
    <2>1. SUFFICES ASSUME NEW i \in 1 .. N
                   PROVE  short[i .. N] = (s[i] % GroupSize) + GroupSize * short[i + 1 .. N]
      OBVIOUS
    <2>2. i .. N \in SUBSET (DOMAIN s)
      BY <1>1
    <2>3. i \in Nat /\ i <= N
      BY <1>1
    <2>4. Min(i .. N) = i /\ (i .. N) \ {i} = i + 1 .. N /\ i .. N # {}
      BY <1>1, <2>3, IntervalLeft
    <2>5. QED
      BY <1>3, <2>2, <2>4 DEF Values
  <1>6. long[{}] = 0 /\ short[{}] = 0
    BY <1>2, <1>3 DEF Values
  <1> DEFINE Bad == {j \in 0 .. N : long[(N - j) + 2 .. N + 1] # short[(N - j) + 1 .. N]}
  <1>7. ASSUME NEW j \in Bad, \A k \in Bad : j <= k PROVE FALSE
    <2>1. j \in 0 .. N /\ j \in Nat
      BY <1>1
    <2>2. CASE j = 0
      <3>1. (N - 0) + 2 .. N + 1 = {} /\ (N - 0) + 1 .. N = {}
        BY <1>1
      <3>2. QED
        BY <1>6, <2>2, <3>1
    <2>3. CASE j # 0
      <3> DEFINE i == (N - j) + 1
      <3>1. /\ i \in 1 .. N /\ i + 1 \in 1 .. N + 1 /\ j - 1 \in 0 .. N
            /\ (N - j) + 2 = i + 1 /\ (N - (j - 1)) + 2 = (i + 1) + 1 /\ (N - (j - 1)) + 1 = i + 1
        BY <1>1, <2>1, <2>3
      <3>2. j - 1 \notin Bad
        <4> HIDE DEF Bad
        <4> QED
          BY <1>7, <2>1
      <3>3. long[(i + 1) + 1 .. N + 1] = short[i + 1 .. N]
        BY <3>1, <3>2
      <3> HIDE DEF i
      <3>4. long[i + 1 .. N + 1] = short[i .. N]
        BY <1>1, <1>4, <1>5, <3>1, <3>3
      <3>5. QED
        BY <3>1, <3>4 DEF i
    <2>4. QED
      BY <2>2, <2>3
  <1>8. Bad = {}
    <2>1. Bad \in SUBSET Nat
      BY <1>1
    <2> HIDE DEF Bad
    <2>2. QED
      BY <1>7, <2>1, SmallestElement
  <1>9. long[2 .. N + 1] = short[1 .. N]
    <2>1. N \in 0 .. N /\ (N - N) + 2 = 2 /\ (N - N) + 1 = 1
      BY <1>1
    <2>2. QED
      BY <1>8, <2>1
  <1>10. 1 \in 1 .. N + 1 /\ 1 + 1 = 2
    BY <1>1
  <1>11. long[1 .. N + 1] = (b[1] % GroupSize) + GroupSize * long[2 .. N + 1]
    BY <1>4, <1>10
  <1>12. QED
    BY <1>1, <1>2, <1>3, <1>9, <1>11 DEF b

-----------------------------------------------------------------------------
(* A varint is a number of groups that go on and one that does not, and its *)
(* value is what it was made of.                                            *)
IsVarint(v, n) ==
    /\ v \in Seq(Byte) /\ Len(v) \in Nat /\ Len(v) >= 1
    /\ \A i \in 1 .. Len(v) : v[i] < GroupSize <=> i = Len(v)
    /\ GroupsValue(v) = n

LEMMA VarintIsRight ==
    ASSUME NEW n \in Nat
    PROVE  IsVarint(Varint(n), n)
  <1> DEFINE f == CHOOSE g : Varints(g, n)
             Bad == {k \in 0 .. n : ~ IsVarint(f[k], k)}
  <1>1. Varint(n) = f[n]
    BY DEF Varint, Varints
  <1>2. Varints(f, n)
    BY VarintsExist
  <1>3. GroupSize \in Nat /\ GroupSize >= 2
    BY StreamAssumption
  <1> HIDE DEF f
  <1>4. ASSUME NEW k \in Bad, \A j \in Bad : k <= j PROVE FALSE
    <2>1. k \in 0 .. n /\ k \in Nat /\ ~ IsVarint(f[k], k)
      OBVIOUS
    <2>2. CASE k < GroupSize
      <3>1. f[k] = <<k>>
        BY <1>2, <2>1, <2>2 DEF Varints
      <3>2. k \in Byte
        BY <1>3, <2>1, <2>2 DEF Byte
      <3>3. <<k>> \in Seq(Byte) /\ Len(<<k>>) = 1 /\ <<k>>[1] = k
        BY <3>2
      <3>4. GroupsValue(<<k>>) = k
        <4>1. <<>> \in Seq(Byte) /\ <<k>> = <<k>> \o <<>>
          BY <3>3, ConcatEmptySeq
        <4>2. GroupsValue(<<k>>) = (k % GroupSize) + GroupSize * 0
          BY <3>2, <4>1, ValueOfMore, ValueOfNone
        <4>3. k % GroupSize = k
          BY <1>3, <2>1, <2>2, ModOfGroup
        <4>4. QED
          BY <1>3, <2>1, <4>2, <4>3
      <3>5. QED
        BY <2>1, <2>2, <3>1, <3>3, <3>4 DEF IsVarint
    <2>3. CASE k >= GroupSize
      <3> DEFINE d == k \div GroupSize
                 r == k % GroupSize
                 v == f[d]
                 x == GroupSize + r
                 u == <<x>> \o v
      <3>1. /\ d \in Nat /\ d < k /\ r \in Nat /\ r < GroupSize
            /\ k = GroupSize * d + r
        BY <1>3, <2>1, <2>3, DivIsLess, DivMod
      <3>2. f[k] = u
        <4>1. f[k] = IF k < GroupSize THEN <<k>> ELSE u
          BY <1>2, <2>1 DEF Varints
        <4>2. ~ (k < GroupSize)
          BY <1>3, <2>1, <2>3
        <4> HIDE DEF u
        <4>3. QED
          BY <4>1, <4>2
      <3> HIDE DEF d, r
      <3>3. d \in 0 .. n /\ d \notin Bad
        <4>1. d \in 0 .. n
          BY <2>1, <3>1
        <4> HIDE DEF Bad
        <4>2. QED
          BY <1>4, <2>1, <3>1, <4>1
      <3>4. IsVarint(v, d)
        BY <3>3
      <3> HIDE DEF v
      <3>5. /\ v \in Seq(Byte) /\ Len(v) \in Nat /\ Len(v) >= 1
            /\ \A i \in 1 .. Len(v) : v[i] < GroupSize <=> i = Len(v)
            /\ GroupsValue(v) = d
        BY <3>4 DEF IsVarint
      <3>6. x \in Byte /\ x % GroupSize = r /\ ~ (x < GroupSize)
        <4>1. x % GroupSize = r
          BY <1>3, <3>1, ModOfGroup
        <4>2. QED
          BY <1>3, <3>1, <4>1 DEF Byte
      <3> HIDE DEF x
      <3>7. <<x>> \in Seq(Byte) /\ Len(<<x>>) = 1 /\ <<x>>[1] = x
        BY <3>6
      <3>8. /\ u \in Seq(Byte) /\ Len(u) = 1 + Len(v)
            /\ \A i \in 1 .. 1 + Len(v) : u[i] = IF i <= 1 THEN <<x>>[i] ELSE v[i - 1]
        BY <3>5, <3>7, ConcatProperties
      <3>9. GroupsValue(u) = k
        <4>1. GroupsValue(u) = r + GroupSize * d
          BY <3>5, <3>6, ValueOfMore
        <4>2. QED
          BY <1>3, <3>1, <4>1
      <3> HIDE DEF u
      <3>10. ASSUME NEW i \in 1 .. Len(u) PROVE u[i] < GroupSize <=> i = Len(u)
        <4>1. i \in Nat /\ i >= 1 /\ i <= 1 + Len(v)
          BY <3>5, <3>8
        <4>2. CASE i = 1
          BY <3>5, <3>6, <3>7, <3>8, <4>1, <4>2
        <4>3. CASE i # 1
          <5>1. i - 1 \in 1 .. Len(v) /\ ~ (i <= 1) /\ i \in 1 .. 1 + Len(v)
            BY <3>5, <4>1, <4>3
          <5>2. u[i] = v[i - 1]
            BY <3>8, <5>1
          <5>3. v[i - 1] < GroupSize <=> i - 1 = Len(v)
            BY <3>5, <5>1
          <5>4. i - 1 = Len(v) <=> i = Len(u)
            BY <3>5, <3>8, <4>1
          <5>5. QED
            BY <5>2, <5>3, <5>4
        <4>4. QED
          BY <4>2, <4>3
      <3>11. Len(u) \in Nat /\ Len(u) >= 1
        BY <3>5, <3>8
      <3>12. IsVarint(u, k)
        BY <3>8, <3>9, <3>10, <3>11 DEF IsVarint
      <3>13. QED
        BY <2>1, <3>2, <3>12
    <2>4. QED
      BY <1>3, <2>1, <2>2, <2>3
  <1>5. Bad = {}
    <2>1. Bad \in SUBSET Nat
      OBVIOUS
    <2> HIDE DEF Bad
    <2>2. QED
      BY <1>4, <2>1, SmallestElement
  <1>6. n \in 0 .. n
    OBVIOUS
  <1>7. QED
    BY <1>1, <1>5, <1>6

-----------------------------------------------------------------------------
(* Parts of lists.                                                          *)

LEMMA Cut ==
    ASSUME NEW T, NEW s \in Seq(T), NEW m \in Nat, m >= 1, NEW n \in Nat, n <= Len(s), m <= n + 1
    PROVE  /\ SubSeq(s, m, n) \in Seq(T) /\ Len(SubSeq(s, m, n)) = (n + 1) - m
           /\ \A i \in 1 .. (n + 1) - m : SubSeq(s, m, n)[i] = s[(m + i) - 1]
  <1>1. Len(s) \in Nat /\ \A i \in 1 .. Len(s) : s[i] \in T
    BY LenProperties, ElementOfSeq
  <1>2. \A i \in m .. n : s[i] \in T
    BY <1>1
  <1>3. m \in Int /\ n \in Int /\ (n - m) + 1 = (n + 1) - m
    OBVIOUS
  <1>4. /\ SubSeq(s, m, n) \in Seq(T)
        /\ Len(SubSeq(s, m, n)) = IF m <= n THEN (n - m) + 1 ELSE 0
        /\ \A i \in 1 .. (n - m) + 1 : SubSeq(s, m, n)[i] = s[(m + i) - 1]
    BY <1>2, <1>3, SubSeqProperties
  <1>5. Len(SubSeq(s, m, n)) = (n + 1) - m
    BY <1>4
  <1>6. QED
    BY <1>3, <1>4, <1>5

LEMMA Joined ==
    ASSUME NEW T, NEW s \in Seq(T), NEW t \in Seq(T)
    PROVE  /\ s \o t \in Seq(T) /\ Len(s) \in Nat /\ Len(t) \in Nat
           /\ Len(s \o t) = Len(s) + Len(t)
           /\ \A i \in 1 .. Len(s) : (s \o t)[i] = s[i]
           /\ \A i \in 1 .. Len(t) : (s \o t)[Len(s) + i] = t[i]
  <1> DEFINE u == s \o t
  <1>1. /\ u \in Seq(T) /\ Len(u) = Len(s) + Len(t)
        /\ \A i \in 1 .. Len(s) + Len(t) : u[i] = IF i <= Len(s) THEN s[i] ELSE t[i - Len(s)]
    BY ConcatProperties
  <1>2. Len(s) \in Nat /\ Len(t) \in Nat
    BY LenProperties
  <1> HIDE DEF u
  <1>3. \A i \in 1 .. Len(s) : i \in 1 .. Len(s) + Len(t) /\ i <= Len(s)
    BY <1>2
  <1>4. \A i \in 1 .. Len(t) : /\ Len(s) + i \in 1 .. Len(s) + Len(t) /\ ~ (Len(s) + i <= Len(s))
                               /\ (Len(s) + i) - Len(s) = i
    BY <1>2
  <1>5. \A i \in 1 .. Len(s) : u[i] = s[i]
    BY <1>1, <1>3
  <1>6. \A i \in 1 .. Len(t) : u[Len(s) + i] = t[i]
    BY <1>1, <1>4
  <1>7. QED
    BY <1>1, <1>2, <1>5, <1>6 DEF u

-----------------------------------------------------------------------------
(* A frame is decoded as soon as it is whole, and to what was encoded.      *)

LEMMA FrameShape ==
    ASSUME NEW p \in Seq(Byte), NEW v \in Seq(Byte), Varint(Len(p)) = v
    PROVE  LET f == EncodeFrame(p)
           IN  /\ f \in Seq(Byte) /\ Len(f) = Len(v) + 2 + Len(p) /\ Len(v) \in Nat /\ Len(p) \in Nat
               /\ f[1] = Magic /\ f[Len(v) + 2] = Magic
               /\ \A i \in 1 .. Len(v) : f[i + 1] = v[i]
               /\ \A i \in 1 .. Len(p) : f[Len(v) + 2 + i] = p[i]
  <1> DEFINE m == <<Magic>>
             a == m \o v
             b == a \o m
             f == b \o p
  <1>1. EncodeFrame(p) = f
    BY DEF EncodeFrame
  <1>2. m \in Seq(Byte) /\ Len(m) = 1 /\ m[1] = Magic
    <2>1. Magic \in Byte
      BY StreamAssumption DEF Byte
    <2>2. QED
      BY <2>1
  <1> HIDE DEF m
  <1>3. /\ a \in Seq(Byte) /\ Len(a) = 1 + Len(v) /\ Len(v) \in Nat
        /\ a[1] = Magic /\ \A i \in 1 .. Len(v) : a[1 + i] = v[i]
    <2>1. 1 \in 1 .. 1
      OBVIOUS
    <2>2. QED
      BY <1>2, <2>1, Joined, SMTT(20)
  <1> HIDE DEF a
  <1>4. /\ b \in Seq(Byte) /\ Len(b) = Len(a) + 1
        /\ \A i \in 1 .. Len(a) : b[i] = a[i]
        /\ b[Len(a) + 1] = Magic
    <2>1. /\ b \in Seq(Byte) /\ Len(b) = Len(a) + Len(m)
          /\ \A i \in 1 .. Len(a) : b[i] = a[i]
          /\ \A i \in 1 .. Len(m) : b[Len(a) + i] = m[i]
      <3>1. a \in Seq(Byte) /\ m \in Seq(Byte)
        BY <1>2, <1>3
      <3>2. QED
        BY <3>1, Joined
    <2>2. 1 \in 1 .. Len(m)
      BY <1>2
    <2> HIDE DEF b
    <2>3. QED
      BY <1>2, <2>1, <2>2
  <1> HIDE DEF b
  <1>5. /\ f \in Seq(Byte) /\ Len(f) = Len(b) + Len(p) /\ Len(p) \in Nat
        /\ \A i \in 1 .. Len(b) : f[i] = b[i]
        /\ \A i \in 1 .. Len(p) : f[Len(b) + i] = p[i]
    <2>1. b \in Seq(Byte)
      BY <1>4
    <2>2. QED
      BY <2>1, Joined
  <1> HIDE DEF f
  <1>6. Len(b) = Len(v) + 2 /\ Len(a) + 1 = Len(v) + 2
    BY <1>3, <1>4
  <1>7. f[1] = Magic
    <2>1. 1 \in 1 .. Len(b) /\ 1 \in 1 .. Len(a)
      BY <1>3, <1>4
    <2>2. QED
      BY <1>3, <1>4, <1>5, <2>1
  <1>8. f[Len(v) + 2] = Magic
    <2>1. Len(v) + 2 \in 1 .. Len(b)
      BY <1>3, <1>6
    <2>2. QED
      BY <1>4, <1>5, <1>6, <2>1
  <1>9. ASSUME NEW i \in 1 .. Len(v) PROVE f[i + 1] = v[i]
    <2>1. i + 1 = 1 + i /\ i + 1 \in 1 .. Len(a) /\ i + 1 \in 1 .. Len(b)
      BY <1>3, <1>4
    <2>2. QED
      BY <1>3, <1>4, <1>5, <2>1
  <1>10. QED
    BY <1>1, <1>3, <1>5, <1>6, <1>7, <1>8, <1>9 DEF f

\* The group that ends the varint is found when it has come, and none before.
LEMMA FirstFinalIs ==
    ASSUME NEW v, NEW n, IsVarint(v, n), NEW b \in Seq(Byte),
           \A i \in 1 .. Len(v) : i + 1 <= Len(b) => b[i + 1] = v[i]
    PROVE  FirstFinal(b) = IF Len(b) <= Len(v) THEN 0 ELSE Len(v) + 1
  <1> DEFINE finals == {i \in 2 .. Len(b) : b[i] < GroupSize}
             L == Len(v)
  <1>1. FirstFinal(b) = IF finals # {} THEN Min(finals) ELSE 0
    BY DEF FirstFinal, SelectInSubSeq
  <1>2. Len(b) \in Nat /\ L \in Nat /\ L >= 1 /\ \A i \in 1 .. L : v[i] < GroupSize <=> i = L
    BY LenProperties DEF IsVarint
  <1>3. ASSUME NEW i \in 2 .. Len(b), i <= L + 1
        PROVE  i \in finals <=> i = L + 1
    <2>1. i - 1 \in 1 .. L /\ (i - 1) + 1 = i /\ i <= Len(b)
      BY <1>2, <1>3
    <2>2. b[i] = v[i - 1]
      BY <2>1
    <2>3. i - 1 = L <=> i = L + 1
      BY <1>2
    <2>4. QED
      BY <1>2, <2>1, <2>2, <2>3
  <1>4. CASE Len(b) <= L
    <2>1. finals = {}
      <3>1. \A i \in finals : i \in 2 .. Len(b)
        OBVIOUS
      <3> HIDE DEF finals
      <3>2. \A i \in 2 .. Len(b) : i <= L + 1 /\ i # L + 1
        BY <1>2, <1>4
      <3>3. QED
        BY <1>3, <3>1, <3>2
    <2> HIDE DEF finals
    <2>2. QED
      BY <1>1, <1>4, <2>1
  <1>5. CASE Len(b) > L
    <2>1. finals \in SUBSET Nat /\ \A i \in finals : i \in 2 .. Len(b)
      OBVIOUS
    <2>2. L + 1 \in 2 .. Len(b) /\ L + 1 <= L + 1
      BY <1>2, <1>5
    <2> HIDE DEF finals
    <2>3. L + 1 \in finals
      BY <1>3, <2>2
    <2>4. Min(finals) \in finals /\ Min(finals) <= L + 1
      BY <2>1, <2>3, LeastIsIn
    <2>5. Min(finals) = L + 1
      BY <1>3, <2>1, <2>4
    <2>6. ~ (Len(b) <= L)
      BY <1>2, <1>5
    <2>7. QED
      BY <1>1, <2>3, <2>5, <2>6
  <1>6. QED
    BY <1>2, <1>4, <1>5

\* b is what has come of the frame of p, and perhaps what follows it.
LEMMA FrameDecodes ==
    ASSUME NEW p \in Seq(Byte), Len(Varint(Len(p))) <= MaxGroups, NEW b \in Seq(Byte),
           \A j \in 1 .. Len(b) : j <= Len(EncodeFrame(p)) => b[j] = EncodeFrame(p)[j]
    PROVE  TryDecode(b) = IF Len(b) < Len(EncodeFrame(p)) THEN Incomplete
                          ELSE Got(p, Len(EncodeFrame(p)))
  <1> DEFINE v == Varint(Len(p))
             f == EncodeFrame(p)
             L == Len(v)
             last == FirstFinal(b)
             end == last + 1 + GroupsValue(SubSeq(b, 2, last))
             continued == IF last = 0 THEN Len(b) - 1 ELSE last - 2
  <1>1. IsVarint(v, Len(p)) /\ Len(p) \in Nat
    BY VarintIsRight, LenProperties
  <1>2. v \in Seq(Byte) /\ L \in Nat /\ L >= 1 /\ GroupsValue(v) = Len(p)
    BY <1>1 DEF IsVarint
  <1>3. /\ Len(f) = L + 2 + Len(p) /\ f[1] = Magic /\ f[L + 2] = Magic
        /\ \A i \in 1 .. L : f[i + 1] = v[i]
        /\ \A i \in 1 .. Len(p) : f[L + 2 + i] = p[i]
    BY <1>2, FrameShape
  <1>4. Len(b) \in Nat /\ DOMAIN b = 1 .. Len(b)
    BY LenProperties
  <1>5. L <= MaxGroups /\ MaxGroups \in Nat
    BY StreamAssumption
  <1>6. TryDecode(b) = IF b = <<>> THEN Incomplete
                       ELSE IF b[1] # Magic \/ continued >= MaxGroups THEN Malformed
                       ELSE IF last \in {0, Len(b)} THEN Incomplete
                       ELSE IF b[last + 1] # Magic THEN Malformed
                       ELSE IF Len(b) < end THEN Incomplete
                       ELSE Got(SubSeq(b, last + 2, end), end)
    BY DEF TryDecode
  <1>7. \A j \in 1 .. Len(b) : j <= Len(f) => b[j] = f[j]
    OBVIOUS
  <1> HIDE DEF v, f, last
  <1>8. last = IF Len(b) <= L THEN 0 ELSE L + 1
    <2>1. ASSUME NEW i \in 1 .. L, i + 1 <= Len(b) PROVE b[i + 1] = v[i]
      <3>1. i + 1 \in 1 .. Len(b) /\ i + 1 <= Len(f)
        BY <1>1, <1>2, <1>3, <1>4, <2>1
      <3>2. QED
        BY <1>3, <1>7, <3>1
    <2>2. QED
      BY <1>1, <2>1, FirstFinalIs DEF last
  <1>9. CASE b = <<>>
    <2>1. Len(b) = 0
      BY <1>9
    <2>2. QED
      BY <1>1, <1>2, <1>3, <1>6, <1>9, <2>1 DEF f
  <1>10. CASE b # <<>>
    <2>1. Len(b) >= 1 /\ b[1] = Magic
      <3>1. Len(b) # 0
        BY <1>10
      <3>2. 1 \in 1 .. Len(b) /\ 1 <= Len(f)
        BY <1>1, <1>2, <1>3, <1>4, <3>1
      <3>3. QED
        BY <1>3, <1>7, <3>2
    <2>2. CASE Len(b) <= L
      <3>1. last = 0 /\ continued < MaxGroups /\ continued \in Int /\ Len(b) < Len(f)
        BY <1>1, <1>2, <1>3, <1>4, <1>5, <1>8, <2>2
      <3> HIDE DEF continued, end
      <3>2. TryDecode(b) = Incomplete
        BY <1>5, <1>6, <1>10, <2>1, <3>1
      <3>3. QED
        BY <3>1, <3>2 DEF f
    <2>3. CASE Len(b) > L
      <3>1. last = L + 1 /\ continued = L - 1 /\ ~ (continued >= MaxGroups)
        BY <1>2, <1>4, <1>5, <1>8, <2>3
      <3>2. CASE Len(b) = L + 1
        <4>1. Len(b) < Len(f)
          BY <1>1, <1>2, <1>3, <3>2
        <4> HIDE DEF continued, end
        <4>2. TryDecode(b) = Incomplete
          BY <1>6, <1>10, <2>1, <3>1, <3>2
        <4>3. QED
          BY <4>1, <4>2 DEF f
      <3>3. CASE Len(b) # L + 1
        <4> DEFINE w == SubSeq(b, 2, L + 1)
        <4>1. /\ L + 2 \in 1 .. Len(b) /\ L + 2 <= Len(f) /\ L + 2 = last + 1
              /\ last \notin {0, Len(b)}
          <5>1. last = L + 1 /\ Len(f) = L + 2 + Len(p)
            BY <1>3, <3>1
          <5> HIDE DEF L, continued
          <5>2. L + 2 \in 1 .. Len(b) /\ L + 2 <= Len(f)
            <6>1. \A m, n \in Nat : n > m /\ n # m + 1 => m + 2 \in 1 .. n
              OBVIOUS
            <6>2. L + 2 \in 1 .. Len(b)
              BY <1>2, <1>4, <2>3, <3>3, <6>1
            <6>3. QED
              BY <1>1, <1>2, <5>1, <6>2
          <5>3. L + 2 = last + 1 /\ last # 0 /\ last # Len(b)
            BY <1>2, <3>3, <5>1
          <5>4. QED
            BY <5>2, <5>3
        <4>2. b[last + 1] = Magic
          BY <1>3, <1>7, <4>1
        <4>3. w = v
          <5>1. /\ w \in Seq(Byte) /\ Len(w) = ((L + 1) + 1) - 2
                /\ \A i \in 1 .. ((L + 1) + 1) - 2 : w[i] = b[(2 + i) - 1]
            <6>1. 2 \in Nat /\ 2 >= 1 /\ L + 1 \in Nat /\ L + 1 <= Len(b) /\ 2 <= (L + 1) + 1
              BY <1>2, <1>4, <2>3
            <6>2. QED
              BY <6>1, Cut
          <5>2. ((L + 1) + 1) - 2 = L
            BY <1>2
          <5> HIDE DEF w
          <5>3. ASSUME NEW i \in 1 .. L PROVE w[i] = v[i]
            <6>1. (2 + i) - 1 = i + 1 /\ i + 1 \in 1 .. Len(b) /\ i + 1 <= Len(f)
              BY <1>1, <1>2, <1>3, <1>4, <2>3
            <6>2. QED
              BY <1>3, <1>7, <5>1, <5>2, <6>1
          <5>4. QED
            BY <1>2, <5>1, <5>2, <5>3, SeqEqual
        <4>4. end = Len(f) /\ last + 2 = L + 3
          <5>1. last = L + 1 /\ Len(f) = L + 2 + Len(p)
            BY <1>3, <3>1
          <5>2. GroupsValue(SubSeq(b, 2, last)) = Len(p)
            BY <1>2, <4>3, <5>1
          <5>3. end = (L + 1) + 1 + Len(p)
            BY <5>1, <5>2
          <5> HIDE DEF end, continued, L
          <5>4. QED
            BY <1>1, <1>2, <5>1, <5>3
        <4> HIDE DEF end, w, continued
        <4>5. CASE Len(b) < Len(f)
          <5>1. TryDecode(b) = Incomplete
            BY <1>6, <1>10, <2>1, <3>1, <4>1, <4>2, <4>4, <4>5
          <5>2. QED
            BY <4>5, <5>1 DEF f
        <4>6. CASE ~ (Len(b) < Len(f))
          <5> DEFINE q == SubSeq(b, L + 3, Len(f))
          <5>1. TryDecode(b) = Got(q, Len(f))
            BY <1>6, <1>10, <2>1, <3>1, <4>1, <4>2, <4>4, <4>6
          <5>2. (Len(f) + 1) - (L + 3) = Len(p)
            BY <1>1, <1>2, <1>3
          <5>3. /\ q \in Seq(Byte) /\ Len(q) = (Len(f) + 1) - (L + 3)
                /\ \A i \in 1 .. (Len(f) + 1) - (L + 3) : q[i] = b[((L + 3) + i) - 1]
            <6>1. /\ L + 3 \in Nat /\ L + 3 >= 1 /\ Len(f) \in Nat
                  /\ Len(f) <= Len(b) /\ L + 3 <= Len(f) + 1
              BY <1>1, <1>2, <1>3, <1>4, <4>6
            <6> HIDE DEF L
            <6>2. QED
              BY <6>1, Cut
          <5> HIDE DEF q
          <5>4. ASSUME NEW i \in 1 .. Len(p) PROVE q[i] = p[i]
            <6>1. /\ ((L + 3) + i) - 1 = L + 2 + i
                  /\ L + 2 + i \in 1 .. Len(b) /\ L + 2 + i <= Len(f)
              BY <1>1, <1>2, <1>3, <1>4, <4>6
            <6>2. QED
              BY <1>3, <1>7, <5>2, <5>3, <6>1
          <5>5. q = p
            BY <5>2, <5>3, <5>4, SeqEqual
          <5>6. QED
            BY <4>6, <5>1, <5>5 DEF f
        <4>7. QED
          BY <4>5, <4>6
      <3>4. QED
        BY <3>2, <3>3
    <2>4. QED
      BY <1>2, <1>4, <2>2, <2>3
  <1>11. QED
    BY <1>9, <1>10

-----------------------------------------------------------------------------
(* White space in front of a text, and what is behind it.                   *)

LEMMA LeadingIs ==
    ASSUME NEW T, NEW s \in Seq(T)
    PROVE  /\ Leading(s) \in 0 .. Len(s) /\ Len(s) \in Nat
           /\ \A i \in 1 .. Leading(s) : s[i] = "sp"
           /\ Leading(s) < Len(s) => s[Leading(s) + 1] # "sp"
  <1> DEFINE others == {i \in 1 .. Len(s) : s[i] # "sp"}
             first == SelectInSubSeq(s, 1, Len(s), LAMBDA piece : piece # "sp")
  <1>1. first = IF others # {} THEN Min(others) ELSE 0
    BY DEF SelectInSubSeq
  <1>2. Leading(s) = IF first = 0 THEN Len(s) ELSE first - 1
    BY DEF Leading
  <1>3. Len(s) \in Nat
    BY LenProperties
  <1>4. \A i \in 1 .. Len(s) : i \in others <=> s[i] # "sp"
    OBVIOUS
  <1>5. others \in SUBSET Nat /\ \A i \in others : i \in 1 .. Len(s)
    OBVIOUS
  <1> HIDE DEF others, first
  <1>6. CASE others = {}
    <2>1. Leading(s) = Len(s)
      BY <1>1, <1>2, <1>6
    <2>2. \A i \in 1 .. Len(s) : s[i] = "sp"
      BY <1>4, <1>6
    <2>3. QED
      BY <1>3, <2>1, <2>2
  <1>7. CASE others # {}
    <2> DEFINE m == Min(others)
    <2>1. m \in others /\ \A i \in others : m <= i
      BY <1>5, <1>7, LeastIsIn
    <2>2. m \in 1 .. Len(s) /\ s[m] # "sp"
      BY <1>4, <1>5, <2>1
    <2>3. first = m /\ first # 0
      BY <1>1, <1>3, <1>7, <2>2
    <2> HIDE DEF m
    <2>4. Leading(s) = m - 1 /\ m \in Nat /\ m >= 1 /\ m <= Len(s)
      BY <1>2, <1>3, <2>2, <2>3
    <2>5. ASSUME NEW i \in 1 .. Leading(s) PROVE s[i] = "sp"
      <3>1. i \in 1 .. Len(s) /\ ~ (m <= i)
        BY <1>3, <2>4
      <3>2. QED
        BY <1>4, <2>1, <3>1
    <2>6. Leading(s) + 1 = m /\ Leading(s) \in 0 .. Len(s)
      BY <1>3, <2>4
    <2>7. QED
      BY <1>3, <2>2, <2>5, <2>6
  <1>8. QED
    BY <1>6, <1>7

LEMMA LeadingIsOnly ==
    ASSUME NEW T, NEW s \in Seq(T), NEW n \in 0 .. Len(s),
           \A i \in 1 .. n : s[i] = "sp", n < Len(s) => s[n + 1] # "sp"
    PROVE  Leading(s) = n
  <1> DEFINE m == Leading(s)
  <1>1. /\ m \in 0 .. Len(s) /\ Len(s) \in Nat
        /\ \A i \in 1 .. m : s[i] = "sp"
        /\ m < Len(s) => s[m + 1] # "sp"
    BY LeadingIs
  <1> HIDE DEF m
  <1>2. ~ (m < n)
    <2>1. SUFFICES ASSUME m < n PROVE FALSE
      OBVIOUS
    <2>2. m < Len(s) /\ m + 1 \in 1 .. n
      BY <1>1, <2>1
    <2>3. QED
      BY <1>1, <2>2
  <1>3. ~ (n < m)
    <2>1. SUFFICES ASSUME n < m PROVE FALSE
      OBVIOUS
    <2>2. n < Len(s) /\ n + 1 \in 1 .. m
      BY <1>1, <2>1
    <2>3. QED
      BY <1>1, <2>2
  <1>4. m = n
    BY <1>1, <1>2, <1>3
  <1>5. QED
    BY <1>4 DEF m

\* What has come of a text begins with no more white space than the text, but
\* for a text that is all white space and goes on.
LEMMA LeadingOfPart ==
    ASSUME NEW T, NEW s \in Seq(T), NEW t \in Seq(T),
           \A j \in 1 .. Len(s) : j <= Len(t) => s[j] = t[j],
           Leading(t) < Len(t) \/ Len(s) <= Len(t)
    PROVE  Leading(s) <= Leading(t)
  <1>1. /\ Leading(s) \in 0 .. Len(s) /\ Len(s) \in Nat
        /\ \A i \in 1 .. Leading(s) : s[i] = "sp"
    BY LeadingIs
  <1>2. /\ Leading(t) \in 0 .. Len(t) /\ Len(t) \in Nat
        /\ Leading(t) < Len(t) => t[Leading(t) + 1] # "sp"
    BY LeadingIs
  <1>3. SUFFICES ASSUME Leading(s) > Leading(t) PROVE FALSE
    BY <1>1, <1>2
  <1>4. Leading(t) < Len(t)
    BY <1>1, <1>2, <1>3
  <1>5. Leading(t) + 1 \in 1 .. Leading(s) /\ Leading(t) + 1 \in 1 .. Len(s) /\ Leading(t) + 1 <= Len(t)
    BY <1>1, <1>2, <1>3, <1>4
  <1>6. QED
    BY <1>1, <1>2, <1>4, <1>5

LEMMA StripIs ==
    ASSUME NEW T, NEW s \in Seq(T)
    PROVE  /\ Strip(s) \in Seq(T) /\ Len(Strip(s)) = Len(s) - Leading(s)
           /\ \A j \in 1 .. Len(s) - Leading(s) : Strip(s)[j] = s[Leading(s) + j]
  <1> DEFINE a == Leading(s)
  <1>1. a \in 0 .. Len(s) /\ Len(s) \in Nat
    BY LeadingIs
  <1>2. Strip(s) = SubSeq(s, a + 1, Len(s))
    BY DEF Strip
  <1> HIDE DEF a
  <1>3. a + 1 \in Nat /\ a + 1 >= 1 /\ Len(s) <= Len(s) /\ a + 1 <= Len(s) + 1
    BY <1>1
  <1>4. /\ Strip(s) \in Seq(T) /\ Len(Strip(s)) = (Len(s) + 1) - (a + 1)
        /\ \A j \in 1 .. (Len(s) + 1) - (a + 1) : Strip(s)[j] = s[((a + 1) + j) - 1]
    BY <1>1, <1>2, <1>3, Cut
  <1>5. (Len(s) + 1) - (a + 1) = Len(s) - a
    BY <1>1
  <1>6. ASSUME NEW j \in 1 .. Len(s) - a PROVE Strip(s)[j] = s[a + j]
    <2>1. ((a + 1) + j) - 1 = a + j
      BY <1>1
    <2>2. QED
      BY <1>4, <1>5, <2>1
  <1>7. QED
    BY <1>4, <1>5, <1>6 DEF a

-----------------------------------------------------------------------------
(* A text with an event: white space, and perhaps a declaration, at d, in   *)
(* front of the event's three pieces.                                       *)
IsText(t, d) ==
    /\ t \in Seq(STRING) /\ Len(t) \in Nat /\ Len(t) >= 3
    /\ d \in 0 .. Len(t) - 3
    /\ \A j \in 1 .. Len(t) - 3 : t[j] = IF j = d THEN "decl" ELSE "sp"
    /\ t[Len(t) - 2] \in Event /\ t[Len(t) - 1] = "</event" /\ t[Len(t)] = ">"

Core(e) == <<e, "</event", ">">>

LEMMA CoreOf ==
    ASSUME NEW e
    PROVE  /\ Len(Core(e)) = 3 /\ Core(e)[1] = e
           /\ Core(e)[2] = "</event" /\ Core(e)[3] = ">"
           /\ \A S : {e, "</event", ">"} \subseteq S => Core(e) \in Seq(S)
  <1>1. ASSUME NEW S, NEW x \in S, NEW y \in S, NEW z \in S
        PROVE  /\ <<x, y, z>> \in Seq(S) /\ Len(<<x, y, z>>) = 3
               /\ <<x, y, z>>[1] = x /\ <<x, y, z>>[2] = y /\ <<x, y, z>>[3] = z
    <2>1. <<x, y, z>> \in Seq(S)
      OBVIOUS
    <2>2. Len(<<x, y, z>>) = 3
      OBVIOUS
    <2>3. QED
      BY <2>1, <2>2
  <1>2. \A S : {e, "</event", ">"} \subseteq S => Core(e) \in Seq(S)
    BY <1>1 DEF Core
  <1>3. QED
    BY <1>1, <1>2 DEF Core

\* Where a text without white space and declaration is an event's.
LEMMA IsEventIs ==
    ASSUME NEW t
    PROVE  IsEvent(t) <=> \E e \in Event :
               Strip(IF t[1] = "decl" THEN Tail(t) ELSE t) = Core(e)
  BY DEF IsEvent, Core

LEMMA SentIsText ==
    ASSUME NEW m \in Seq(STRING), Strip(m) # <<>>, IsEvent(Strip(m))
    PROVE  \E d : IsText(m, d)
  <1> DEFINE a == Leading(m)
             s == Strip(m)
             u == IF s[1] = "decl" THEN Tail(s) ELSE s
             h == IF s[1] = "decl" THEN 1 ELSE 0
             c == Leading(u)
             L == Len(m)
  <1>1. a \in 0 .. L /\ L \in Nat /\ \A i \in 1 .. a : m[i] = "sp"
    BY LeadingIs
  <1>2. s \in Seq(STRING) /\ Len(s) = L - a /\ \A j \in 1 .. L - a : s[j] = m[a + j]
    BY StripIs
  <1>3. s # <<>>
    OBVIOUS
  <1>4. PICK e \in Event : Strip(u) = Core(e)
    BY IsEventIs
  <1> HIDE DEF a, s, L
  <1>5. Len(s) \in Nat /\ Len(s) >= 1
    BY <1>2, <1>3, EmptySeq
  <1>6. /\ h \in {0, 1} /\ u \in Seq(STRING) /\ Len(u) = Len(s) - h
        /\ \A j \in 1 .. Len(s) - h : u[j] = s[h + j]
        /\ h = 1 <=> s[1] = "decl"
    <2>1. CASE s[1] = "decl"
      <3>1. /\ Tail(s) \in Seq(STRING) /\ Len(Tail(s)) = Len(s) - 1
            /\ \A j \in 1 .. Len(Tail(s)) : Tail(s)[j] = s[j + 1]
        BY <1>2, <1>3, HeadTailProperties
      <3>2. u = Tail(s) /\ h = 1
        BY <2>1
      <3>3. \A j \in 1 .. Len(s) - 1 : j + 1 = 1 + j
        OBVIOUS
      <3>4. QED
        BY <2>1, <3>1, <3>2, <3>3
    <2>2. CASE s[1] # "decl"
      <3>1. u = s /\ h = 0
        BY <2>2
      <3>2. Len(s) - 0 = Len(s) /\ \A j \in 1 .. Len(s) : 0 + j = j
        BY <1>5
      <3>3. QED
        BY <1>2, <2>2, <3>1, <3>2
    <2>3. QED
      BY <2>1, <2>2
  <1> HIDE DEF u, h
  <1>7. c \in 0 .. Len(u) /\ Len(u) \in Nat /\ \A i \in 1 .. c : u[i] = "sp"
    BY <1>6, LeadingIs
  <1>8. /\ Len(Strip(u)) = Len(u) - c
        /\ \A j \in 1 .. Len(u) - c : Strip(u)[j] = u[c + j]
    BY <1>6, StripIs
  <1> HIDE DEF c
  <1>9. Len(u) - c = 3
    <2>1. Len(Core(e)) = 3
      BY CoreOf
    <2>2. QED
      BY <1>4, <1>8, <2>1
  <1>10. L = a + h + c + 3
    BY <1>1, <1>2, <1>5, <1>6, <1>7, <1>9
  <1>11. \A j \in 1 .. Len(u) : u[j] = m[a + h + j]
    <2>1. SUFFICES ASSUME NEW j \in 1 .. Len(u) PROVE u[j] = m[a + h + j]
      OBVIOUS
    <2>2. h + j \in 1 .. L - a /\ a + (h + j) = a + h + j /\ j \in 1 .. Len(s) - h
      BY <1>1, <1>2, <1>6, <1>7
    <2>3. QED
      BY <1>2, <1>6, <2>2
  <1>12. \A j \in 1 .. 3 : m[a + h + c + j] = Core(e)[j]
    <2>1. SUFFICES ASSUME NEW j \in 1 .. 3 PROVE m[a + h + c + j] = Core(e)[j]
      OBVIOUS
    <2>2. j \in 1 .. Len(u) - c /\ c + j \in 1 .. Len(u) /\ a + h + (c + j) = a + h + c + j
      BY <1>1, <1>6, <1>7, <1>9
    <2>3. Core(e)[j] = u[c + j]
      BY <1>4, <1>8, <2>2
    <2>4. u[c + j] = m[a + h + (c + j)]
      BY <1>11, <2>2
    <2>5. QED
      BY <2>2, <2>3, <2>4
  <1>13. m[L - 2] = e /\ m[L - 1] = "</event" /\ m[L] = ">"
    <2>1. L - 2 = a + h + c + 1 /\ L - 1 = a + h + c + 2 /\ L = a + h + c + 3
      BY <1>1, <1>6, <1>7, <1>10
    <2>2. m[a + h + c + 1] = Core(e)[1] /\ m[a + h + c + 2] = Core(e)[2] /\ m[a + h + c + 3] = Core(e)[3]
      BY <1>12
    <2>3. QED
      BY <2>1, <2>2, CoreOf
  <1> DEFINE d == IF h = 1 THEN a + 1 ELSE 0
  <1>14. L - 3 = a + h + c /\ d \in 0 .. L - 3 /\ L >= 3
    BY <1>1, <1>6, <1>7, <1>10
  <1>15. ASSUME NEW j \in 1 .. L - 3 PROVE m[j] = IF j = d THEN "decl" ELSE "sp"
    <2>1. j \in Nat /\ j >= 1 /\ j <= a + h + c
      BY <1>14
    <2>2. CASE j <= a
      <3>1. j \in 1 .. a /\ j # d
        BY <1>1, <2>1, <2>2
      <3> HIDE DEF d
      <3>2. QED
        BY <1>1, <3>1
    <2>3. CASE j > a /\ j <= a + h
      <3>1. h = 1 /\ j = a + 1 /\ j = d
        BY <1>1, <1>6, <2>1, <2>3
      <3>2. 1 \in 1 .. L - a
        BY <1>2, <1>5
      <3>3. m[a + 1] = "decl"
        BY <1>2, <1>6, <3>1, <3>2
      <3> HIDE DEF d
      <3>4. QED
        BY <3>1, <3>3
    <2>4. CASE j > a + h
      <3> DEFINE i == j - (a + h)
      <3>1. i \in 1 .. c /\ i \in 1 .. Len(u) /\ a + h + i = j /\ j # d
        BY <1>1, <1>6, <1>7, <2>1, <2>4
      <3> HIDE DEF d, i
      <3>2. m[j] = u[i] /\ u[i] = "sp"
        BY <1>7, <1>11, <3>1
      <3>3. QED
        BY <3>1, <3>2
    <2>5. QED
      BY <1>1, <1>6, <2>1, <2>2, <2>3, <2>4
  <1> HIDE DEF d
  <1>16. IsText(m, d)
    BY <1>1, <1>13, <1>14, <1>15 DEF IsText, L
  <1>17. QED
    BY <1>16

LEMMA TextLeading ==
    ASSUME NEW t, NEW d, IsText(t, d)
    PROVE  /\ Leading(t) = IF d = 0 THEN Len(t) - 3 ELSE d - 1
           /\ Leading(t) \in 0 .. Len(t) - 3 /\ Leading(t) < Len(t)
  <1> DEFINE n == IF d = 0 THEN Len(t) - 3 ELSE d - 1
  <1>1. /\ t \in Seq(STRING) /\ Len(t) \in Nat /\ Len(t) >= 3 /\ d \in 0 .. Len(t) - 3
        /\ \A j \in 1 .. Len(t) - 3 : t[j] = IF j = d THEN "decl" ELSE "sp"
        /\ t[Len(t) - 2] \in Event
    BY DEF IsText
  <1>2. n \in 0 .. Len(t) - 3 /\ n \in 0 .. Len(t) /\ n < Len(t)
    BY <1>1
  <1>3. \A i \in 1 .. n : t[i] = "sp"
    <2>1. SUFFICES ASSUME NEW i \in 1 .. n PROVE t[i] = "sp"
      OBVIOUS
    <2>2. i \in 1 .. Len(t) - 3 /\ i # d
      BY <1>1
    <2>3. QED
      BY <1>1, <2>2
  <1>4. t[n + 1] # "sp"
    <2>1. CASE d = 0
      <3>1. n + 1 = Len(t) - 2
        BY <1>1, <2>1
      <3>2. QED
        BY <1>1, <3>1 DEF Event
    <2>2. CASE d # 0
      <3>1. n + 1 = d /\ d \in 1 .. Len(t) - 3
        BY <1>1, <2>2
      <3>2. t[d] = "decl"
        BY <1>1, <3>1
      <3>3. QED
        BY <3>1, <3>2
    <2>3. QED
      BY <2>1, <2>2
  <1> HIDE DEF n
  <1>5. Leading(t) = n
    BY <1>1, <1>2, <1>3, <1>4, LeadingIsOnly
  <1>6. QED
    BY <1>2, <1>5 DEF n

\* A part of the white space in front may be missing.
LEMMA TextFrom ==
    ASSUME NEW t, NEW d, IsText(t, d), NEW i \in 0 .. Leading(t)
    PROVE  LET part == SubSeq(t, i + 1, Len(t))
           IN  /\ IsText(part, IF d = 0 THEN 0 ELSE d - i)
               /\ Len(part) = Len(t) - i /\ Strip(part) = Strip(t)
               /\ \A j \in 1 .. Len(t) - i : part[j] = t[i + j]
  <1> DEFINE part == SubSeq(t, i + 1, Len(t))
             e == IF d = 0 THEN 0 ELSE d - i
             L == Len(t)
             N == Len(part)
  <1>1. /\ t \in Seq(STRING) /\ L \in Nat /\ L >= 3 /\ d \in 0 .. L - 3
        /\ \A j \in 1 .. L - 3 : t[j] = IF j = d THEN "decl" ELSE "sp"
        /\ t[L - 2] \in Event /\ t[L - 1] = "</event" /\ t[L] = ">"
    BY DEF IsText
  <1>2. Leading(t) = (IF d = 0 THEN L - 3 ELSE d - 1) /\ Leading(t) \in 0 .. L - 3
    BY TextLeading
  <1>3. i \in Nat /\ i + 1 \in Nat /\ i + 1 >= 1 /\ L <= L /\ i + 1 <= L + 1
    BY <1>1, <1>2
  <1>4. part \in Seq(STRING) /\ N = L - i /\ \A j \in 1 .. L - i : part[j] = t[i + j]
    <2>1. /\ part \in Seq(STRING) /\ N = (L + 1) - (i + 1)
          /\ \A j \in 1 .. (L + 1) - (i + 1) : part[j] = t[((i + 1) + j) - 1]
      <3>1. \A m \in Nat : m >= 1 /\ m <= L + 1 =>
                /\ SubSeq(t, m, L) \in Seq(STRING) /\ Len(SubSeq(t, m, L)) = (L + 1) - m
                /\ \A j \in 1 .. (L + 1) - m : SubSeq(t, m, L)[j] = t[(m + j) - 1]
        BY <1>1, Cut
      <3>2. QED
        BY <1>3, <3>1
    <2>2. (L + 1) - (i + 1) = L - i
      BY <1>1, <1>3
    <2> HIDE DEF part
    <2>3. ASSUME NEW j \in 1 .. L - i PROVE part[j] = t[i + j]
      <3>1. ((i + 1) + j) - 1 = i + j
        BY <1>3
      <3>2. QED
        BY <2>1, <2>2, <3>1
    <2>4. QED
      BY <2>1, <2>2, <2>3
  <1> HIDE DEF part, L, N
  <1>5. IsText(part, e)
    <2>1. N \in Nat /\ N >= 3 /\ e \in 0 .. N - 3
      BY <1>1, <1>2, <1>3, <1>4
    <2>2. ASSUME NEW j \in 1 .. N - 3 PROVE part[j] = IF j = e THEN "decl" ELSE "sp"
      <3>1. j \in 1 .. L - i /\ i + j \in 1 .. L - 3
        BY <1>1, <1>3, <1>4
      <3>2. part[j] = t[i + j] /\ t[i + j] = IF i + j = d THEN "decl" ELSE "sp"
        BY <1>1, <1>4, <3>1
      <3>3. i + j = d <=> j = e
        BY <1>1, <1>3
      <3> HIDE DEF e
      <3>4. QED
        BY <3>2, <3>3
    <2>3. part[N - 2] = t[L - 2] /\ part[N - 1] = t[L - 1] /\ part[N] = t[L]
      <3>1. /\ N - 2 \in 1 .. L - i /\ N - 1 \in 1 .. L - i /\ N \in 1 .. L - i
            /\ i + (N - 2) = L - 2 /\ i + (N - 1) = L - 1 /\ i + N = L
        BY <1>1, <1>3, <1>4, <2>1
      <3>2. QED
        BY <1>4, <3>1
    <2> HIDE DEF e
    <2>4. QED
      BY <1>1, <1>4, <2>1, <2>2, <2>3 DEF IsText, N
  <1>6. Leading(part) = Leading(t) - i
    <2>1. Leading(part) = IF e = 0 THEN N - 3 ELSE e - 1
      BY <1>5, TextLeading DEF N
    <2>2. CASE d = 0
      BY <1>1, <1>2, <1>3, <1>4, <2>1, <2>2
    <2>3. CASE d # 0
      <3>1. e # 0 /\ e = d - i
        BY <1>1, <1>2, <1>3, <2>3
      <3> HIDE DEF e
      <3>2. QED
        BY <1>1, <1>2, <1>3, <2>1, <2>3, <3>1
    <2>4. QED
      BY <2>2, <2>3
  <1>7. Strip(part) = Strip(t)
    <2> DEFINE a == Leading(t)
               b == Leading(part)
    <2>1. a \in 0 .. L - 3 /\ b = a - i
      BY <1>2, <1>6
    <2>2. /\ Strip(t) \in Seq(STRING) /\ Len(Strip(t)) = L - a
          /\ \A j \in 1 .. L - a : Strip(t)[j] = t[a + j]
      BY <1>1, StripIs DEF L
    <2>3. /\ Strip(part) \in Seq(STRING) /\ Len(Strip(part)) = N - b
          /\ \A j \in 1 .. N - b : Strip(part)[j] = part[b + j]
      BY <1>4, StripIs DEF N
    <2> HIDE DEF a, b
    <2>4. N - b = L - a
      BY <1>1, <1>3, <1>4, <2>1
    <2>5. ASSUME NEW j \in 1 .. L - a PROVE Strip(part)[j] = Strip(t)[j]
      <3>1. b + j \in 1 .. L - i /\ i + (b + j) = a + j
        <4>1. i <= a
          BY DEF a
        <4>2. QED
          BY <1>1, <1>3, <2>1, <4>1
      <3>2. QED
        BY <1>4, <2>2, <2>3, <2>4, <3>1
    <2>6. QED
      BY <2>2, <2>3, <2>4, <2>5, SeqEqual
  <1>8. QED
    BY <1>4, <1>5, <1>7 DEF part, e, L, N

LEMMA TextCore ==
    ASSUME NEW t, IsText(t, 0)
    PROVE  \E e \in Event : Strip(t) = Core(e)
  <1> DEFINE L == Len(t)
             e == t[L - 2]
             s == Strip(t)
  <1>1. /\ t \in Seq(STRING) /\ L \in Nat /\ L >= 3
        /\ e \in Event /\ t[L - 1] = "</event" /\ t[L] = ">"
    BY DEF IsText
  <1>2. Leading(t) = L - 3
    BY TextLeading
  <1>3. /\ s \in Seq(STRING) /\ Len(s) = L - (L - 3)
        /\ \A j \in 1 .. L - (L - 3) : s[j] = t[(L - 3) + j]
    <2>1. /\ s \in Seq(STRING) /\ Len(s) = L - Leading(t)
          /\ \A j \in 1 .. L - Leading(t) : s[j] = t[Leading(t) + j]
      BY <1>1, StripIs
    <2> HIDE DEF s, L
    <2>2. QED
      BY <1>2, <2>1
  <1> HIDE DEF s, L
  <1>4. L - (L - 3) = 3 /\ (L - 3) + 1 = L - 2 /\ (L - 3) + 2 = L - 1 /\ (L - 3) + 3 = L
    BY <1>1
  <1>5. 1 \in 1 .. 3 /\ 2 \in 1 .. 3 /\ 3 \in 1 .. 3 /\ \A j \in 1 .. 3 : j = 1 \/ j = 2 \/ j = 3
    OBVIOUS
  <1>6. s[1] = e /\ s[2] = "</event" /\ s[3] = ">"
    BY <1>1, <1>3, <1>4, <1>5
  <1> HIDE DEF e
  <1>7. s = Core(e)
    <2>1. Core(e) \in Seq(STRING) /\ Len(Core(e)) = 3 /\ Len(s) = 3
      <3>1. {s[1], s[2], s[3]} \subseteq STRING
        BY <1>3, <1>4, <1>5, ElementOfSeq
      <3>2. QED
        BY <1>3, <1>4, <1>6, <3>1, CoreOf
    <2>2. Core(e)[1] = e /\ Core(e)[2] = "</event" /\ Core(e)[3] = ">"
      BY <1>1, CoreOf
    <2>3. \A j \in 1 .. 3 : s[j] = Core(e)[j]
      BY <1>5, <1>6, <2>2
    <2>4. QED
      BY <1>3, <2>1, <2>3, SeqEqual
  <1>8. QED
    BY <1>1, <1>7 DEF s

\* ... which parses if the declaration, if any, is the first of it.
LEMMA TextParses ==
    ASSUME NEW t, NEW d, IsText(t, d)
    PROVE  IsEvent(t) <=> d \in {0, 1}
  <1>1. /\ t \in Seq(STRING) /\ Len(t) \in Nat /\ Len(t) >= 3 /\ d \in 0 .. Len(t) - 3
        /\ \A j \in 1 .. Len(t) - 3 : t[j] = IF j = d THEN "decl" ELSE "sp"
        /\ t[Len(t) - 2] \in Event /\ t[Len(t) - 1] = "</event" /\ t[Len(t)] = ">"
    BY DEF IsText
  <1>2. t[1] = "decl" <=> d = 1
    <2>1. CASE Len(t) = 3
      <3>1. t[1] \in Event /\ d = 0
        <4>1. Len(t) - 2 = 1
          BY <2>1
        <4>2. QED
          BY <1>1, <2>1, <4>1
      <3>2. QED
        BY <3>1 DEF Event
    <2>2. CASE Len(t) # 3
      <3>1. 1 \in 1 .. Len(t) - 3
        <4>1. \A n \in Nat : n >= 3 /\ n # 3 => 1 \in 1 .. n - 3
          OBVIOUS
        <4>2. QED
          BY <1>1, <2>2, <4>1
      <3>2. t[1] = IF 1 = d THEN "decl" ELSE "sp"
        BY <1>1, <3>1
      <3>3. QED
        BY <3>2
    <2>3. QED
      BY <2>1, <2>2
  <1>3. CASE d = 0
    <2>1. IsEvent(t) <=> \E e \in Event : Strip(t) = Core(e)
      BY <1>2, <1>3, IsEventIs
    <2>2. QED
      BY <1>3, <2>1, TextCore
  <1>4. CASE d = 1
    <2> DEFINE u == Tail(t)
    <2>1. IsEvent(t) <=> \E e \in Event : Strip(u) = Core(e)
      BY <1>2, <1>4, IsEventIs
    <2>2. /\ u \in Seq(STRING) /\ Len(u) = Len(t) - 1
          /\ \A i \in 1 .. Len(u) : u[i] = t[i + 1]
      <3>1. t # <<>>
        BY <1>1, EmptySeq
      <3>2. QED
        BY <1>1, <3>1, HeadTailProperties
    <2> HIDE DEF u
    <2>3. Len(t) >= 4 /\ Len(u) \in Nat /\ Len(u) >= 3 /\ 0 \in 0 .. Len(u) - 3
      BY <1>1, <1>4, <2>2
    <2>4. ASSUME NEW j \in 1 .. Len(u) - 3 PROVE u[j] = IF j = 0 THEN "decl" ELSE "sp"
      <3>1. j \in 1 .. Len(u) /\ j + 1 \in 1 .. Len(t) - 3 /\ j + 1 # d /\ j # 0
        BY <1>1, <1>4, <2>2, <2>3
      <3>2. QED
        BY <1>1, <2>2, <3>1
    <2>5. u[Len(u) - 2] = t[Len(t) - 2] /\ u[Len(u) - 1] = t[Len(t) - 1] /\ u[Len(u)] = t[Len(t)]
      <3>1. /\ Len(u) - 2 \in 1 .. Len(u) /\ (Len(u) - 2) + 1 = Len(t) - 2
            /\ Len(u) - 1 \in 1 .. Len(u) /\ (Len(u) - 1) + 1 = Len(t) - 1
            /\ Len(u) \in 1 .. Len(u) /\ Len(u) + 1 = Len(t)
        BY <1>1, <2>2, <2>3
      <3>2. QED
        BY <2>2, <3>1
    <2>6. IsText(u, 0)
      BY <1>1, <2>2, <2>3, <2>4, <2>5 DEF IsText
    <2>7. QED
      BY <1>4, <2>1, <2>6, TextCore
  <1>5. CASE d \notin {0, 1}
    <2>1. IsEvent(t) <=> \E e \in Event : Strip(t) = Core(e)
      BY <1>2, <1>5, IsEventIs
    <2>2. Leading(t) = d - 1
      BY <1>5, TextLeading
    <2>3. /\ Len(Strip(t)) = Len(t) - (d - 1)
          /\ \A j \in 1 .. Len(t) - (d - 1) : Strip(t)[j] = t[(d - 1) + j]
      BY <1>1, <2>2, StripIs, SMTT(20)
    <2>4. d \in 1 .. Len(t) - 3 /\ 1 \in 1 .. Len(t) - (d - 1) /\ (d - 1) + 1 = d
      BY <1>1, <1>5
    <2>5. Strip(t)[1] = "decl"
      BY <1>1, <2>3, <2>4
    <2>6. \A e \in Event : Core(e)[1] = e /\ e # "decl"
      BY CoreOf DEF Event
    <2>7. QED
      BY <1>5, <2>1, <2>5, <2>6
  <1>6. QED
    BY <1>3, <1>4, <1>5

\* b is what has come of the text t, and perhaps what follows it.
LEMMA EventDecodes ==
    ASSUME NEW t, NEW d, IsText(t, d), NEW b \in Seq(STRING),
           \A j \in 1 .. Len(b) : j <= Len(t) => b[j] = t[j]
    PROVE  ReadEvent(b) = IF Len(b) < Len(t) THEN Incomplete
                          ELSE IF d \notin {0, 1} THEN Malformed
                          ELSE Got(t, Len(t) + Leading(SubSeq(b, Len(t) + 1, Len(b))))
  <1> DEFINE ends == {i \in 2 .. Len(b) : b[i - 1] = "</event" /\ b[i] = ">"}
             text == SubSeq(b, 1, Min(ends))
             L == Len(t)
  <1>1. /\ t \in Seq(STRING) /\ L \in Nat /\ L >= 3 /\ d \in 0 .. L - 3
        /\ \A j \in 1 .. L - 3 : t[j] = IF j = d THEN "decl" ELSE "sp"
        /\ t[L - 2] \in Event /\ t[L - 1] = "</event" /\ t[L] = ">"
    BY DEF IsText
  <1>2. Len(b) \in Nat
    BY LenProperties
  <1>3. ReadEvent(b) = IF ends = {} THEN Incomplete
                       ELSE IF ~ IsEvent(text) THEN Malformed
                       ELSE Got(text, Len(text) + Leading(SubSeq(b, Len(text) + 1, Len(b))))
    BY DEF ReadEvent
  <1>4. \A j \in 1 .. Len(b) : j <= L => b[j] = t[j]
    OBVIOUS
  <1>5. \A i \in 2 .. Len(b) : i \in ends <=> b[i - 1] = "</event" /\ b[i] = ">"
    OBVIOUS
  <1>6. ends \in SUBSET Nat /\ \A i \in ends : i \in 2 .. Len(b)
    OBVIOUS
  <1>7. ASSUME NEW i \in 2 .. Len(b), i <= L
        PROVE  i \in ends <=> i = L
    <2>1. i - 1 \in 1 .. Len(b) /\ i \in 1 .. Len(b) /\ i - 1 <= L
      BY <1>1, <1>2, <1>7
    <2>2. b[i - 1] = t[i - 1] /\ b[i] = t[i]
      BY <1>4, <1>7, <2>1
    <2>3. CASE i = L
      BY <1>1, <1>5, <2>2, <2>3
    <2>4. CASE i # L
      <3>1. i - 1 \in 1 .. L - 3 \/ i - 1 = L - 2
        BY <1>1, <1>7, <2>4
      <3>2. t[i - 1] # "</event"
        <4>1. CASE i - 1 \in 1 .. L - 3
          BY <1>1, <4>1
        <4>2. CASE i - 1 = L - 2
          BY <1>1, <4>2 DEF Event
        <4>3. QED
          BY <3>1, <4>1, <4>2
      <3> HIDE DEF ends
      <3>3. QED
        BY <1>5, <2>2, <2>4, <3>2
    <2>5. QED
      BY <2>3, <2>4
  <1> HIDE DEF ends, L
  <1>8. CASE Len(b) < L
    <2>1. \A i \in 2 .. Len(b) : i <= L /\ i # L
      BY <1>1, <1>2, <1>8
    <2>2. ends = {}
      BY <1>6, <1>7, <2>1
    <2>3. ReadEvent(b) = Incomplete
      BY <1>3, <2>2
    <2>4. QED
      BY <1>8, <2>3 DEF L
  <1>9. CASE ~ (Len(b) < L)
    <2>1. L \in 2 .. Len(b) /\ L <= L
      BY <1>1, <1>2, <1>9
    <2>2. L \in ends
      BY <1>7, <2>1
    <2>3. Min(ends) \in ends /\ Min(ends) <= L
      BY <1>6, <2>2, LeastIsIn
    <2>4. Min(ends) = L
      BY <1>6, <1>7, <2>3
    <2>5. text = t
      <3>1. text = SubSeq(b, 1, L)
        BY <2>4
      <3>2. 1 \in Nat /\ 1 >= 1 /\ L <= Len(b) /\ 1 <= L + 1 /\ (L + 1) - 1 = L
        BY <1>1, <1>2, <1>9
      <3> HIDE DEF text
      <3>3. /\ text \in Seq(STRING) /\ Len(text) = (L + 1) - 1
            /\ \A i \in 1 .. (L + 1) - 1 : text[i] = b[(1 + i) - 1]
        BY <1>1, <3>1, <3>2, Cut
      <3>4. ASSUME NEW i \in 1 .. L PROVE text[i] = t[i]
        <4>1. (1 + i) - 1 = i /\ i \in 1 .. Len(b) /\ i <= L
          BY <1>1, <1>2, <1>9
        <4>2. QED
          BY <1>4, <3>2, <3>3, <4>1
      <3>5. QED
        BY <1>1, <3>2, <3>3, <3>4, SeqEqual DEF L
    <2> HIDE DEF text
    <2>6. IsEvent(text) <=> d \in {0, 1}
      BY <2>5, TextParses
    <2>7. ReadEvent(b) = IF d \notin {0, 1} THEN Malformed
                         ELSE Got(t, Len(t) + Leading(SubSeq(b, Len(t) + 1, Len(b))))
      BY <1>3, <2>2, <2>5, <2>6
    <2>8. QED
      BY <1>9, <2>7 DEF L
  <1>10. QED
    BY <1>8, <1>9

-----------------------------------------------------------------------------
(* Lists of lists, joined.                                                  *)

Flattens(f, ss, N) ==
    f = [i \in 1 .. N |-> IF i = 1 THEN ss[i] ELSE f[i - 1] \o ss[i]]

LEMMA FlattenExists ==
    ASSUME NEW ss, NEW N \in Nat
    PROVE  \E f : Flattens(f, ss, N)
  <1> DEFINE Body(f, i) == IF i = 1 THEN ss[i] ELSE f[i - 1] \o ss[i]
             Runs(f, n) == f = [i \in 1 .. n |-> Body(f, i)]
             Bad == {n \in Nat : ~ \E f : Runs(f, n)}
  <1>1. ASSUME NEW n \in Bad, \A m \in Bad : n <= m PROVE FALSE
    <2>1. n \in Nat
      OBVIOUS
    <2>2. CASE n = 0
      <3>1. Runs([i \in 1 .. 0 |-> <<>>], 0)
        OBVIOUS
      <3>2. QED
        BY <2>2, <3>1
    <2>3. CASE n # 0
      <3>1. n - 1 \in Nat /\ n - 1 \notin Bad
        <4> HIDE DEF Bad
        <4> QED
          BY <1>1, <2>1, <2>3
      <3>2. PICK f : Runs(f, n - 1)
        BY <3>1
      <3> DEFINE g == [i \in 1 .. n |-> Body(f, i)]
      <3>3. ASSUME NEW i \in 1 .. n PROVE Body(f, i) = Body(g, i)
        <4>1. CASE i = 1
          BY <4>1
        <4>2. CASE i # 1
          <5>1. i - 1 \in 1 .. n - 1 /\ i - 1 \in 1 .. n
            BY <2>1, <3>3, <4>2
          <5>2. g[i - 1] = Body(f, i - 1)
            BY <5>1
          <5>3. f[i - 1] = Body(f, i - 1)
            BY <3>2, <5>1
          <5>4. g[i - 1] = f[i - 1]
            BY <5>2, <5>3
          <5> HIDE DEF g
          <5>5. QED
            BY <4>2, <5>4
        <4>3. QED
          BY <4>1, <4>2
      <3>4. Runs(g, n)
        BY <3>3
      <3>5. QED
        BY <3>4
    <2>4. QED
      BY <2>2, <2>3
  <1>2. Bad = {}
    <2>1. Bad \in SUBSET Nat
      OBVIOUS
    <2> HIDE DEF Bad
    <2>2. QED
      BY <1>1, <2>1, SmallestElement
  <1>3. \E f : Runs(f, N)
    BY <1>2
  <1>4. QED
    BY <1>3 DEF Flattens

\* What the first n of the lists come to, for every n, and what the next adds.
LEMMA FlattenTable ==
    ASSUME NEW T, NEW ss \in Seq(Seq(T))
    PROVE  \E F : /\ F[0] = <<>> /\ \A n \in 0 .. Len(ss) : F[n] \in Seq(T)
                  /\ \A n \in 1 .. Len(ss) : F[n] = F[n - 1] \o ss[n]
                  /\ \A n \in 0 .. Len(ss) : F[n] = FlattenSeq([i \in 1 .. n |-> ss[i]])
  <1> DEFINE N == Len(ss)
             F == [n \in 0 .. N |-> FlattenSeq([i \in 1 .. n |-> ss[i]])]
             table(n) == CHOOSE f : Flattens(f, [i \in 1 .. n |-> ss[i]], n)
  <1>1. N \in Nat /\ \A n \in 1 .. N : ss[n] \in Seq(T)
    BY LenProperties, ElementOfSeq
  <1>2. ASSUME NEW n \in 0 .. N
        PROVE  /\ n = 0 => F[n] = <<>>
               /\ n # 0 => F[n] = table(n)[n]
    <2> DEFINE s == [i \in 1 .. n |-> ss[i]]
    <2>1. n \in Nat /\ Len(s) = n /\ F[n] = FlattenSeq(s)
      BY <1>1
    <2>2. CASE n = 0
      <3>1. s = <<>>
        BY <2>2
      <3> HIDE DEF s, F
      <3>2. QED
        BY <2>1, <2>2, <3>1 DEF FlattenSeq
    <2>3. CASE n # 0
      <3>1. FlattenSeq(s) = IF Len(s) = 0 THEN s
                            ELSE (CHOOSE f : Flattens(f, s, Len(s)))[Len(s)]
        BY DEF FlattenSeq, Flattens
      <3> HIDE DEF s, F
      <3>2. FlattenSeq(s) = (CHOOSE f : Flattens(f, s, n))[n]
        BY <2>1, <2>3, <3>1
      <3>3. QED
        BY <2>1, <2>3, <3>2 DEF s
    <2>4. QED
      BY <2>2, <2>3
  <1>3. ASSUME NEW n \in 1 .. N, NEW i \in 1 .. n
        PROVE  table(n)[i] = IF i = 1 THEN ss[i] ELSE table(n)[i - 1] \o ss[i]
    <2> DEFINE s == [j \in 1 .. n |-> ss[j]]
               f == table(n)
    <2>1. n \in Nat
      BY <1>1
    <2>2. Flattens(f, s, n)
      <3> HIDE DEF s
      <3>1. \E g : Flattens(g, s, n)
        BY <2>1, FlattenExists
      <3>2. QED
        BY <3>1 DEF s
    <2>3. s[i] = ss[i]
      OBVIOUS
    <2> HIDE DEF f, s
    <2>4. f[i] = IF i = 1 THEN s[i] ELSE f[i - 1] \o s[i]
      BY <2>2 DEF Flattens
    <2>5. QED
      BY <2>3, <2>4 DEF f
  <1> HIDE DEF table
  <1> DEFINE Bad == {n \in 1 .. N : ~ \A m \in n .. N : table(m)[n] = table(n)[n] /\ table(n)[n] \in Seq(T)}
  <1>4. ASSUME NEW n \in Bad, \A m \in Bad : n <= m PROVE FALSE
    <2>1. n \in 1 .. N /\ n \in Nat
      BY <1>1
    <2>2. SUFFICES \A m \in n .. N : table(m)[n] = table(n)[n] /\ table(n)[n] \in Seq(T)
      OBVIOUS
    <2>3. SUFFICES ASSUME NEW m \in n .. N
                   PROVE  table(m)[n] = table(n)[n] /\ table(n)[n] \in Seq(T)
      OBVIOUS
    <2>4. n \in 1 .. m /\ m \in 1 .. N /\ n \in 1 .. n
      BY <1>1, <2>1
    <2>5. /\ table(m)[n] = IF n = 1 THEN ss[n] ELSE table(m)[n - 1] \o ss[n]
          /\ table(n)[n] = IF n = 1 THEN ss[n] ELSE table(n)[n - 1] \o ss[n]
      BY <1>3, <2>1, <2>4
    <2>6. CASE n = 1
      BY <1>1, <2>1, <2>5, <2>6
    <2>7. CASE n # 1
      <3>1. n - 1 \in 1 .. N /\ n - 1 \in Nat /\ n \in n - 1 .. N /\ m \in n - 1 .. N
        BY <1>1, <2>1, <2>7
      <3>2. n - 1 \notin Bad
        <4> HIDE DEF Bad
        <4> QED
          BY <1>4, <2>1, <3>1
      <3>3. /\ table(m)[n - 1] = table(n - 1)[n - 1] /\ table(n)[n - 1] = table(n - 1)[n - 1]
            /\ table(n - 1)[n - 1] \in Seq(T)
        BY <3>1, <3>2
      <3>4. table(n)[n - 1] \o ss[n] \in Seq(T)
        BY <1>1, <2>1, <3>3, ConcatProperties
      <3>5. QED
        BY <2>5, <2>7, <3>3, <3>4
    <2>8. QED
      BY <2>6, <2>7
  <1>5. Bad = {}
    <2>1. Bad \in SUBSET Nat
      BY <1>1
    <2> HIDE DEF Bad
    <2>2. QED
      BY <1>4, <2>1, SmallestElement
  <1>6. F[0] = <<>>
    <2>1. 0 \in 0 .. N
      BY <1>1
    <2> HIDE DEF F
    <2>2. QED
      BY <1>2, <2>1
  <1>7. ASSUME NEW n \in 1 .. N
        PROVE  F[n] \in Seq(T) /\ F[n] = F[n - 1] \o ss[n]
    <2>1. n \in 0 .. N /\ n - 1 \in 0 .. N /\ n # 0 /\ n \in Nat /\ n \in n .. N /\ n \in 1 .. n
      BY <1>1
    <2>2. F[n] = table(n)[n] /\ table(n)[n] \in Seq(T)
      BY <1>2, <1>5, <2>1
    <2>3. table(n)[n] = IF n = 1 THEN ss[n] ELSE table(n)[n - 1] \o ss[n]
      BY <1>3, <2>1
    <2>4. CASE n = 1
      <3>1. F[n - 1] = <<>>
        <4>1. n - 1 = 0
          BY <2>4
        <4> HIDE DEF F
        <4>2. QED
          BY <1>6, <4>1
      <3>2. <<>> \o ss[n] = ss[n]
        BY <1>1, ConcatEmptySeq
      <3> HIDE DEF F
      <3>3. QED
        BY <2>2, <2>3, <2>4, <3>1, <3>2
    <2>5. CASE n # 1
      <3>1. n - 1 \in 1 .. N /\ n \in n - 1 .. N /\ n - 1 # 0
        BY <1>1, <2>1, <2>5
      <3>2. table(n)[n - 1] = table(n - 1)[n - 1]
        BY <1>5, <3>1
      <3>3. F[n - 1] = table(n - 1)[n - 1]
        BY <1>2, <2>1, <3>1
      <3> HIDE DEF F
      <3>4. QED
        BY <2>2, <2>3, <2>5, <3>2, <3>3
    <2>6. QED
      BY <2>4, <2>5
  <1>8. \A n \in 0 .. N : F[n] \in Seq(T)
    <2>1. \A n \in 0 .. N : n = 0 \/ n \in 1 .. N
      BY <1>1
    <2> HIDE DEF F
    <2>2. QED
      BY <1>6, <1>7, <2>1, EmptySeq
  <1>9. \A n \in 0 .. N : F[n] = FlattenSeq([i \in 1 .. n |-> ss[i]])
    OBVIOUS
  <1> HIDE DEF F
  <1>10. QED
    BY <1>6, <1>7, <1>8, <1>9

-----------------------------------------------------------------------------
(* What a client sends, piece by piece: behind k messages comes the next    *)
(* one, or the rest.                                                        *)
WireOk == wire \in PbWire \cup XmlWire
Piece == IF wire.proto = "pb" THEN Byte ELSE STRING
Following(k) == IF k < Len(wire.msgs) THEN Encode(wire.msgs[k + 1]) ELSE wire.junk
Start(k) == Len(Encoded(k))

\* How much of it goes with the message before, if it has come by then.
Skip(k) == IF wire.proto = "pb" THEN 0 ELSE Leading(Following(k))

(* The buffer begins where a message begins, or in the white space there,   *)
(* and ends where reading has come to.  A connection is not closed while a  *)
(* whole message waits, and with an error only if there is something behind *)
(* the messages that are delivered.                                         *)
BufferIs(k, i) ==
    /\ Start(k) + i <= sent
    /\ buf \in Seq(Piece) /\ Len(buf) = sent - (Start(k) + i)
    /\ \A j \in 1 .. Len(buf) : buf[j] = Input[Start(k) + i + j]

DeliveredAre ==
    /\ delivered \in Seq(Seq(Piece)) /\ Len(delivered) \in 0 .. Len(wire.msgs)
    /\ \A i \in 1 .. Len(delivered) : Text(delivered[i]) = Text(wire.msgs[i])

BufferBegins == \E i \in 0 .. Skip(Len(delivered)) : BufferIs(Len(delivered), i)

ClosedInTime ==
    LET k == Len(delivered)
    IN  /\ phase # "open" /\ ~Spaced => k = Len(wire.msgs) \/ sent < Start(k + 1)
        /\ phase = "error" /\ ~Spaced =>
               \/ sent > Start(Len(wire.msgs))
               \/ wire.proto = "xml" /\ Start(k) < sent

StreamInv ==
    /\ WireOk /\ sent \in 0 .. Len(Input)
    /\ DeliveredAre /\ BufferBegins /\ ClosedInTime

LEMMA WireKinds ==
    ASSUME WireOk
    PROVE  LET N == Len(wire.msgs)
           IN  /\ N \in Nat /\ wire.junk \in Seq(Piece)
               /\ \A k \in 1 .. N : wire.msgs[k] \in Seq(Piece) /\ Encode(wire.msgs[k]) \in Seq(Piece)
               /\ \/ wire.proto = "pb" /\ wire \in PbWire
                  \/ wire.proto = "xml" /\ wire \in XmlWire
  <1>1. CASE wire \in PbWire
    <2>1. wire.proto = "pb" /\ wire.msgs \in Seq(Seq(Byte)) /\ wire.junk \in Seq(Byte)
      BY <1>1 DEF PbWire
    <2>2. Piece = Byte /\ \A m : Encode(m) = EncodeFrame(m)
      BY <2>1 DEF Piece, Encode
    <2>3. Len(wire.msgs) \in Nat /\ \A k \in 1 .. Len(wire.msgs) : wire.msgs[k] \in Seq(Byte)
      BY <2>1, LenProperties, ElementOfSeq
    <2>4. ASSUME NEW p \in Seq(Byte) PROVE EncodeFrame(p) \in Seq(Byte)
      <3>1. Len(p) \in Nat
        BY LenProperties
      <3>2. Varint(Len(p)) \in Seq(Byte)
        BY <3>1, VarintIsRight DEF IsVarint
      <3>3. QED
        BY <3>2, FrameShape
    <2>5. QED
      BY <1>1, <2>1, <2>2, <2>3, <2>4
  <1>2. CASE wire \in XmlWire
    <2>1. wire.proto = "xml" /\ wire.msgs \in Seq(Seq(STRING)) /\ wire.junk \in Seq(STRING)
      BY <1>2 DEF XmlWire
    <2>2. Piece = STRING /\ \A m : Encode(m) = m
      BY <2>1 DEF Piece, Encode
    <2>3. Len(wire.msgs) \in Nat /\ \A k \in 1 .. Len(wire.msgs) : wire.msgs[k] \in Seq(STRING)
      BY <2>1, LenProperties, ElementOfSeq
    <2>4. QED
      BY <1>2, <2>1, <2>2, <2>3
  <1>3. QED
    BY <1>1, <1>2 DEF WireOk

LEMMA InputIs ==
    ASSUME WireOk
    PROVE  LET N == Len(wire.msgs)
           IN  /\ N \in Nat /\ Start(0) = 0
               /\ \A k \in 0 .. N : /\ Following(k) \in Seq(Piece) /\ Len(Following(k)) \in Nat
                                    /\ Start(k) \in Nat
               /\ \A k \in 0 .. N : k < N => Start(k + 1) = Start(k) + Len(Following(k))
               /\ \A m \in 0 .. N : \A n \in m .. N : Start(m) <= Start(n)
               /\ Input \in Seq(Piece) /\ Len(Input) = Start(N) + Len(Following(N))
               /\ \A k \in 0 .. N : \A j \in 1 .. Len(Following(k)) :
                      Start(k) + j \in 1 .. Len(Input) /\ Input[Start(k) + j] = Following(k)[j]
  <1> DEFINE N == Len(wire.msgs)
             ss == [i \in 1 .. N |-> Encode(wire.msgs[i])]
  <1>1. /\ N \in Nat /\ wire.junk \in Seq(Piece)
        /\ \A k \in 1 .. N : Encode(wire.msgs[k]) \in Seq(Piece)
    BY WireKinds
  <1> DEFINE T == Piece
  <1> HIDE DEF T
  <1>2. ss \in Seq(Seq(T)) /\ Len(ss) = N
    BY <1>1 DEF T
  <1>3. PICK F : /\ F[0] = <<>> /\ \A n \in 0 .. N : F[n] \in Seq(T)
                 /\ \A n \in 1 .. N : F[n] = F[n - 1] \o ss[n]
                 /\ \A n \in 0 .. N : F[n] = FlattenSeq([i \in 1 .. n |-> ss[i]])
    <2> HIDE DEF ss, N
    <2>1. ss \in Seq(Seq(T))
      BY <1>2
    <2>2. \E F : /\ F[0] = <<>> /\ \A n \in 0 .. Len(ss) : F[n] \in Seq(T)
                 /\ \A n \in 1 .. Len(ss) : F[n] = F[n - 1] \o ss[n]
                 /\ \A n \in 0 .. Len(ss) : F[n] = FlattenSeq([i \in 1 .. n |-> ss[i]])
      BY <2>1, FlattenTable
    <2>3. QED
      BY <1>2, <2>2
  <1>4. \A n \in 0 .. N : Encoded(n) = F[n] /\ Start(n) = Len(F[n]) /\ Len(F[n]) \in Nat
    <2>1. SUFFICES ASSUME NEW n \in 0 .. N PROVE Encoded(n) = F[n] /\ Len(F[n]) \in Nat
      BY DEF Start
    <2>2. [i \in 1 .. n |-> ss[i]] = [i \in 1 .. n |-> Encode(wire.msgs[i])]
      <3>1. \A i \in 1 .. n : i \in 1 .. N
        BY <1>1
      <3>2. QED
        BY <3>1
    <2> HIDE DEF ss, N
    <2>3. Encoded(n) = F[n]
      BY <1>3, <2>2 DEF Encoded
    <2>4. Len(F[n]) \in Nat
      BY <1>3, LenProperties
    <2>5. QED
      BY <2>3, <2>4
  <1>5. \A k \in 0 .. N : Following(k) \in Seq(T) /\ Len(Following(k)) \in Nat
    <2>1. SUFFICES ASSUME NEW k \in 0 .. N PROVE Following(k) \in Seq(T)
      BY LenProperties
    <2>2. CASE k < N
      <3>1. k + 1 \in 1 .. N
        BY <1>1, <2>2
      <3>2. QED
        BY <1>1, <2>2, <3>1 DEF Following, T
    <2>3. CASE ~ (k < N)
      BY <1>1, <2>3 DEF Following, T
    <2>4. QED
      BY <2>2, <2>3
  <1>6. \A n \in 1 .. N : ss[n] = Following(n - 1) /\ n - 1 \in 0 .. N
    <2>1. SUFFICES ASSUME NEW n \in 1 .. N PROVE ss[n] = Following(n - 1) /\ n - 1 \in 0 .. N
      OBVIOUS
    <2>2. n - 1 < N /\ (n - 1) + 1 = n /\ n - 1 \in 0 .. N
      BY <1>1
    <2>3. QED
      BY <2>2 DEF Following
  <1> HIDE DEF ss, N
  <1>7. ASSUME NEW n \in 1 .. N
        PROVE  /\ Len(F[n]) = Len(F[n - 1]) + Len(Following(n - 1))
               /\ \A j \in 1 .. Len(F[n - 1]) : F[n][j] = F[n - 1][j]
               /\ \A j \in 1 .. Len(Following(n - 1)) : F[n][Len(F[n - 1]) + j] = Following(n - 1)[j]
    <2>1. n - 1 \in 0 .. N /\ ss[n] = Following(n - 1)
      BY <1>6
    <2>2. F[n - 1] \in Seq(T) /\ Following(n - 1) \in Seq(T)
      BY <1>3, <1>5, <2>1
    <2>3. F[n] = F[n - 1] \o Following(n - 1)
      BY <1>3, <2>1
    <2> DEFINE a == F[n - 1]
               b == Following(n - 1)
    <2>4. a \in Seq(T) /\ b \in Seq(T)
      BY <2>2
    <2> HIDE DEF a, b
    <2>5. /\ Len(a \o b) = Len(a) + Len(b)
          /\ \A j \in 1 .. Len(a) : (a \o b)[j] = a[j]
          /\ \A j \in 1 .. Len(b) : (a \o b)[Len(a) + j] = b[j]
      BY <2>4, Joined
    <2>6. QED
      BY <2>3, <2>5 DEF a, b
  <1> DEFINE Begins(m, n) == Len(F[m]) <= Len(F[n]) /\ \A j \in 1 .. Len(F[m]) : F[n][j] = F[m][j]
             Bad == {n \in 0 .. N : ~ \A m \in 0 .. n : Begins(m, n)}
  <1>8. ASSUME NEW n \in Bad, \A b \in Bad : n <= b PROVE FALSE
    <2>1. n \in 0 .. N /\ n \in Nat
      BY <1>1
    <2>2. SUFFICES ASSUME NEW m \in 0 .. n PROVE Begins(m, n)
      OBVIOUS
    <2>3. CASE m = n
      BY <1>4, <2>1, <2>3
    <2>4. CASE m # n
      <3>1. n - 1 \in 0 .. N /\ n \in 1 .. N /\ m \in 0 .. n - 1 /\ n - 1 < n /\ m \in 0 .. N
        BY <1>1, <2>1, <2>4
      <3>2. n - 1 \notin Bad
        <4> HIDE DEF Bad
        <4> QED
          BY <1>8, <2>1, <3>1
      <3>3. Begins(m, n - 1)
        <4> HIDE DEF Begins
        <4> QED
          BY <3>1, <3>2
      <3>4. Len(F[m]) \in Nat /\ Len(F[n - 1]) \in Nat /\ Len(Following(n - 1)) \in Nat
        BY <1>4, <1>5, <3>1
      <3>5. Len(F[m]) <= Len(F[n])
        <4>1. Len(F[n]) = Len(F[n - 1]) + Len(Following(n - 1)) /\ Len(F[m]) <= Len(F[n - 1])
          BY <1>7, <3>1, <3>3
        <4>2. \A a, b, c \in Nat : a <= b => a <= b + c
          OBVIOUS
        <4>3. QED
          BY <3>4, <4>1, <4>2
      <3>6. ASSUME NEW j \in 1 .. Len(F[m]) PROVE F[n][j] = F[m][j]
        <4>1. j \in 1 .. Len(F[n - 1])
          BY <3>3, <3>4
        <4>2. QED
          BY <1>7, <3>1, <3>3, <4>1
      <3>7. QED
        BY <3>5, <3>6
    <2>5. QED
      BY <2>3, <2>4
  <1>9. Bad = {}
    <2>1. Bad \in SUBSET Nat
      BY <1>1
    <2> HIDE DEF Bad
    <2>2. QED
      BY <1>8, <2>1, SmallestElement
  <1>10. \A n \in 0 .. N : \A m \in 0 .. n : Begins(m, n)
    BY <1>9
  <1> HIDE DEF Bad
  <1>11. /\ Input \in Seq(T) /\ Len(Input) = Len(F[N]) + Len(Following(N))
         /\ \A j \in 1 .. Len(F[N]) : Input[j] = F[N][j]
         /\ \A j \in 1 .. Len(Following(N)) : Input[Len(F[N]) + j] = Following(N)[j]
    <2>1. N \in 0 .. N /\ ~ (N < N)
      BY <1>1
    <2>2. Following(N) = wire.junk
      BY <2>1 DEF Following, N
    <2>3. Input = F[N] \o Following(N)
      BY <1>4, <2>1, <2>2 DEF Input, N
    <2>4. F[N] \in Seq(T) /\ Following(N) \in Seq(T)
      BY <1>3, <1>5, <2>1
    <2>5. QED
      BY <2>3, <2>4, Joined
  <1>12. ASSUME NEW k \in 0 .. N, NEW j \in 1 .. Len(Following(k))
         PROVE  Start(k) + j \in 1 .. Len(Input) /\ Input[Start(k) + j] = Following(k)[j]
    <2>1. Start(k) = Len(F[k]) /\ Len(F[k]) \in Nat /\ Len(Following(k)) \in Nat /\ Len(F[N]) \in Nat
      <3>1. N \in 0 .. N
        BY <1>1
      <3>2. QED
        BY <1>4, <1>5, <3>1
    <2>2. CASE k = N
      BY <1>11, <2>1, <2>2
    <2>3. CASE k # N
      <3>1. /\ k + 1 \in 1 .. N /\ (k + 1) - 1 = k /\ k + 1 \in 0 .. N /\ N \in 0 .. N
            /\ k + 1 \in 0 .. N
        BY <1>1, <2>3
      <3>2. /\ Len(F[k + 1]) = Len(F[k]) + Len(Following(k))
            /\ F[k + 1][Len(F[k]) + j] = Following(k)[j]
        BY <1>7, <3>1
      <3>3. Begins(k + 1, N)
        BY <1>10, <3>1
      <3>4. /\ Len(F[k]) + j \in 1 .. Len(F[k + 1]) /\ Len(F[k]) + j \in 1 .. Len(F[N])
            /\ Len(F[N]) <= Len(Input) /\ Len(Input) \in Nat
        <4>1. Len(Following(N)) \in Nat /\ Len(Input) = Len(F[N]) + Len(Following(N))
          BY <1>5, <1>11, <3>1
        <4>2. \A x, y, z, u, v \in Nat : \A p \in 1 .. y :
                  /\ x + y <= z
                  => x + p \in 1 .. x + y /\ x + p \in 1 .. z /\ z <= z + v /\ z + v \in Nat
          OBVIOUS
        <4>3. /\ Len(F[k]) \in Nat /\ Len(Following(k)) \in Nat /\ Len(F[N]) \in Nat
              /\ Len(F[k]) + Len(Following(k)) <= Len(F[N]) /\ j \in 1 .. Len(Following(k))
          BY <2>1, <3>2, <3>3
        <4>4. QED
          BY <3>2, <4>1, <4>2, <4>3, SMTT(20)
      <3>5. Input[Len(F[k]) + j] = F[k + 1][Len(F[k]) + j]
        BY <1>11, <3>3, <3>4
      <3>6. Len(F[k]) + j \in 1 .. Len(Input)
        BY <2>1, <3>4
      <3>7. QED
        BY <2>1, <3>2, <3>5, <3>6
    <2>4. QED
      BY <2>2, <2>3
  <1>13. ASSUME NEW m \in 0 .. N, NEW n \in m .. N PROVE Start(m) <= Start(n)
    <2>1. n \in 0 .. N /\ m \in 0 .. n
      BY <1>1
    <2>2. QED
      BY <1>4, <1>10, <2>1
  <1>14. ASSUME NEW k \in 0 .. N, k < N
         PROVE  Start(k + 1) = Start(k) + Len(Following(k))
    <2>1. k + 1 \in 1 .. N /\ (k + 1) - 1 = k /\ k + 1 \in 0 .. N
      <3>1. k \in Nat
        BY <1>1
      <3>2. \A m, n \in Nat : m < n => m + 1 \in 1 .. n /\ (m + 1) - 1 = m /\ m + 1 \in 0 .. n
        OBVIOUS
      <3>3. QED
        BY <1>1, <1>14, <3>1, <3>2
    <2>2. QED
      BY <1>4, <1>7, <2>1
  <1>15. Start(0) = 0 /\ Start(N) = Len(F[N])
    <2>1. 0 \in 0 .. N /\ N \in 0 .. N
      BY <1>1
    <2>2. Len(F[0]) = 0
      BY <1>3
    <2>3. QED
      BY <1>4, <2>1, <2>2
  <1> HIDE DEF Begins
  <1>16. QED
    BY <1>1, <1>4, <1>5, <1>11, <1>12, <1>13, <1>14, <1>15 DEF T, N

-----------------------------------------------------------------------------
(* What a reader makes of the buffer.                                       *)

LEMMA BufferFollows ==
    ASSUME WireOk, NEW k \in 0 .. Len(wire.msgs), NEW i \in 0 .. Len(Following(k)), BufferIs(k, i),
           sent \in 0 .. Len(Input)
    PROVE  /\ Len(buf) \in Nat /\ Start(k) \in Nat /\ sent \in Nat /\ i \in Nat
           /\ Len(buf) = (sent - Start(k)) - i
           /\ \A j \in 1 .. Len(buf) : i + j <= Len(Following(k)) => buf[j] = Following(k)[i + j]
  <1>1. /\ Following(k) \in Seq(Piece) /\ Len(Following(k)) \in Nat /\ Start(k) \in Nat
        /\ \A j \in 1 .. Len(Following(k)) : Input[Start(k) + j] = Following(k)[j]
        /\ Input \in Seq(Piece)
    BY InputIs
  <1>2. /\ Start(k) + i <= sent /\ Len(buf) = sent - (Start(k) + i)
        /\ \A j \in 1 .. Len(buf) : buf[j] = Input[Start(k) + i + j]
    BY DEF BufferIs
  <1>3. sent \in Nat /\ i \in Nat
    BY <1>1, LenProperties
  <1>4. Len(buf) \in Nat /\ Len(buf) = (sent - Start(k)) - i
    BY <1>1, <1>2, <1>3
  <1>5. ASSUME NEW j \in 1 .. Len(buf), i + j <= Len(Following(k))
        PROVE  buf[j] = Following(k)[i + j]
    <2>1. Start(k) + i + j = Start(k) + (i + j) /\ i + j \in 1 .. Len(Following(k))
      BY <1>1, <1>3, <1>4, <1>5
    <2>2. QED
      BY <1>1, <1>2, <2>1
  <1>6. QED
    BY <1>1, <1>3, <1>4, <1>5

LEMMA PbAnswer ==
    ASSUME WireOk, wire.proto = "pb", NEW k \in 0 .. Len(wire.msgs), k < Len(wire.msgs),
           BufferIs(k, 0), sent \in 0 .. Len(Input)
    PROVE  Answer = IF sent < Start(k + 1) THEN Incomplete
                    ELSE Got(wire.msgs[k + 1], Start(k + 1) - Start(k))
  <1> DEFINE p == wire.msgs[k + 1]
             f == EncodeFrame(p)
  <1>1. Following(k) = f /\ Answer = TryDecode(buf) /\ Piece = Byte
    BY DEF Following, Encode, Answer, Piece
  <1>2. wire \in PbWire /\ k + 1 \in 1 .. Len(wire.msgs) /\ Len(wire.msgs) \in Nat
    <2>1. wire \in PbWire /\ Len(wire.msgs) \in Nat
      BY WireKinds
    <2>2. QED
      BY <2>1
  <1>3. p \in Seq(Byte) /\ Len(Varint(Len(p))) <= MaxGroups
    <2>1. wire.msgs \in Seq(Seq(Byte))
      BY <1>2 DEF PbWire
    <2>2. k + 1 \in DOMAIN wire.msgs
      BY <1>2, <2>1
    <2>3. QED
      BY <1>2, <2>1, <2>2 DEF PbWire
  <1>4. Start(k) \in Nat /\ Len(f) \in Nat /\ Start(k + 1) = Start(k) + Len(f)
    BY <1>1, InputIs
  <1> HIDE DEF p, f
  <1>5. /\ Len(buf) \in Nat /\ sent \in Nat /\ Len(buf) = (sent - Start(k)) - 0
        /\ \A j \in 1 .. Len(buf) : 0 + j <= Len(f) => buf[j] = f[0 + j]
    <2>1. 0 \in 0 .. Len(Following(k))
      BY <1>1, <1>4
    <2>2. QED
      BY <1>1, <2>1, BufferFollows
  <1>6. \A j \in 1 .. Len(buf) : j <= Len(f) => buf[j] = f[j]
    <2>1. \A j \in 1 .. Len(buf) : 0 + j = j
      BY <1>5
    <2>2. QED
      BY <1>5, <2>1
  <1>7. buf \in Seq(Byte)
    BY <1>1 DEF BufferIs
  <1>8. Answer = IF Len(buf) < Len(f) THEN Incomplete ELSE Got(p, Len(f))
    BY <1>1, <1>3, <1>6, <1>7, FrameDecodes DEF f
  <1>9. Len(buf) < Len(f) <=> sent < Start(k + 1)
    BY <1>4, <1>5
  <1>10. Len(f) = Start(k + 1) - Start(k)
    BY <1>4
  <1>11. QED
    BY <1>8, <1>9, <1>10 DEF p

\* An event that is sent is a text, with its white space in front.
LEMMA NextIsText ==
    ASSUME WireOk, wire.proto = "xml", NEW k \in 0 .. Len(wire.msgs), k < Len(wire.msgs)
    PROVE  /\ Following(k) = wire.msgs[k + 1]
           /\ \E d : IsText(Following(k), d)
           /\ Leading(Following(k)) < Len(Following(k))
  <1>1. wire \in XmlWire /\ k + 1 \in 1 .. Len(wire.msgs)
    <2>1. wire \in XmlWire /\ Len(wire.msgs) \in Nat
      BY WireKinds
    <2>2. QED
      BY <2>1
  <1> DEFINE m == wire.msgs[k + 1]
  <1>2. m \in Seq(STRING) /\ Strip(m) # <<>> /\ IsEvent(Strip(m))
    <2>1. wire.msgs \in Seq(Seq(STRING))
      BY <1>1 DEF XmlWire
    <2>2. k + 1 \in DOMAIN wire.msgs
      BY <1>1, <2>1
    <2>3. QED
      BY <1>1, <2>1, <2>2 DEF XmlWire
  <1>3. Following(k) = m
    BY DEF Following, Encode
  <1> HIDE DEF m
  <1>4. PICK d : IsText(m, d)
    BY <1>2, SentIsText
  <1>5. Leading(m) < Len(m)
    BY <1>4, TextLeading
  <1>6. QED
    BY <1>3, <1>4, <1>5 DEF m

LEMMA SkipIs ==
    ASSUME WireOk, NEW k \in 0 .. Len(wire.msgs)
    PROVE  Skip(k) \in Nat /\ Skip(k) <= Len(Following(k))
  <1>1. Following(k) \in Seq(Piece) /\ Len(Following(k)) \in Nat
    BY InputIs
  <1>2. Leading(Following(k)) \in 0 .. Len(Following(k))
    BY <1>1, LeadingIs
  <1>3. QED
    BY <1>1, <1>2 DEF Skip

LEMMA XmlAnswer ==
    ASSUME WireOk, wire.proto = "xml", NEW k \in 0 .. Len(wire.msgs), k < Len(wire.msgs),
           NEW i \in 0 .. Skip(k), BufferIs(k, i), sent \in 0 .. Len(Input)
    PROVE  /\ sent < Start(k + 1) => Answer = Incomplete
           /\ sent >= Start(k + 1) =>
                  \/ Answer = Malformed /\ Spaced
                  \/ \E t \in Seq(STRING) : \E next \in 0 .. Skip(k + 1) :
                         /\ Strip(t) = Strip(wire.msgs[k + 1]) /\ Start(k + 1) + next <= sent
                         /\ Answer = Got(t, ((Start(k + 1) - Start(k)) - i) + next)
  <1> DEFINE m == Following(k)
             L == Len(m)
             t == SubSeq(m, i + 1, L)
  <1>1. /\ Len(wire.msgs) \in Nat /\ m \in Seq(STRING) /\ L \in Nat /\ Start(k) \in Nat
        /\ Start(k + 1) = Start(k) + L /\ Input \in Seq(STRING)
        /\ \A j \in 1 .. L : Start(k) + j \in 1 .. Len(Input) /\ Input[Start(k) + j] = m[j]
    <2>1. Piece = STRING
      BY DEF Piece
    <2>2. QED
      BY <2>1, InputIs
  <1>2. PICK d : IsText(m, d)
    BY NextIsText
  <1>3. /\ L >= 3 /\ d \in 0 .. L - 3
        /\ \A j \in 1 .. L - 3 : m[j] = IF j = d THEN "decl" ELSE "sp"
    BY <1>2 DEF IsText
  <1>4. Skip(k) = Leading(m) /\ i \in 0 .. Leading(m) /\ i \in Nat /\ i <= L - 3
    <2>1. Skip(k) = Leading(m)
      BY DEF Skip
    <2> HIDE DEF m, L
    <2>2. Leading(m) \in 0 .. L - 3
      BY <1>2, TextLeading DEF L
    <2>3. QED
      BY <1>1, <1>3, <2>1, <2>2
  <1> DEFINE e == IF d = 0 THEN 0 ELSE d - i
  <1>5. /\ IsText(t, e) /\ Len(t) = L - i /\ Strip(t) = Strip(m)
        /\ \A j \in 1 .. L - i : t[j] = m[i + j]
    <2> HIDE DEF m
    <2>1. QED
      BY <1>2, <1>4, TextFrom
  <1>6. /\ Len(buf) \in Nat /\ sent \in Nat /\ Len(buf) = (sent - Start(k)) - i
        /\ \A j \in 1 .. Len(buf) : i + j <= L => buf[j] = m[i + j]
    <2>1. i \in 0 .. Len(Following(k))
      BY <1>1, <1>3, <1>4
    <2>2. QED
      BY <2>1, BufferFollows
  <1>7. m = wire.msgs[k + 1]
    BY NextIsText
  <1>8. buf \in Seq(STRING) /\ Answer = ReadEvent(buf)
    BY DEF BufferIs, Piece, Answer
  <1>9. \A j \in 1 .. Len(buf) : buf[j] = Input[Start(k) + i + j]
    BY DEF BufferIs
  <1> HIDE DEF m, L, t, e
  <1>10. \A j \in 1 .. Len(buf) : j <= Len(t) => buf[j] = t[j]
    <2>1. SUFFICES ASSUME NEW j \in 1 .. Len(buf), j <= Len(t) PROVE buf[j] = t[j]
      OBVIOUS
    <2>2. j \in 1 .. L - i /\ i + j <= L
      BY <1>1, <1>4, <1>5, <1>6, <2>1
    <2>3. QED
      BY <1>5, <1>6, <2>2
  <1> DEFINE rest == SubSeq(buf, Len(t) + 1, Len(buf))
             next == Leading(rest)
  <1>11. Answer = IF Len(buf) < Len(t) THEN Incomplete
                  ELSE IF e \notin {0, 1} THEN Malformed
                  ELSE Got(t, Len(t) + next)
    BY <1>5, <1>8, <1>10, EventDecodes
  <1> HIDE DEF rest, next
  <1>12. /\ Len(t) \in Nat /\ Len(t) = (Start(k + 1) - Start(k)) - i /\ Start(k + 1) \in Nat
         /\ Len(buf) < Len(t) <=> sent < Start(k + 1)
         /\ ~ (Len(buf) < Len(t)) =>
                Len(t) <= Len(buf) /\ (Len(buf) + 1) - (Len(t) + 1) = sent - Start(k + 1)
         /\ \A j \in Nat : /\ ((Len(t) + 1) + j) - 1 = Len(t) + j
                           /\ Start(k) + i + (Len(t) + j) = Start(k + 1) + j
    <2>1. /\ Start(k) \in Nat /\ L \in Nat /\ i \in Nat /\ i <= L /\ sent \in Nat /\ Len(buf) \in Nat
          /\ Len(buf) = (sent - Start(k)) - i /\ Len(t) = L - i /\ Start(k + 1) = Start(k) + L
      BY <1>1, <1>3, <1>4, <1>5, <1>6
    <2>2. Len(t) \in Nat /\ Len(t) = (Start(k + 1) - Start(k)) - i /\ Start(k + 1) \in Nat
      BY <2>1
    <2>3. Len(buf) < Len(t) <=> sent < Start(k + 1)
      BY <2>1
    <2>4. ~ (Len(buf) < Len(t)) =>
              Len(t) <= Len(buf) /\ (Len(buf) + 1) - (Len(t) + 1) = sent - Start(k + 1)
      BY <2>1
    <2>5. \A j \in Nat : /\ ((Len(t) + 1) + j) - 1 = Len(t) + j
                         /\ Start(k) + i + (Len(t) + j) = Start(k + 1) + j
      BY <2>1
    <2>6. QED
      BY <2>2, <2>3, <2>4, <2>5
  <1>13. ASSUME sent < Start(k + 1) PROVE Answer = Incomplete
    BY <1>11, <1>12, <1>13
  <1>14. ASSUME sent >= Start(k + 1), e \notin {0, 1}
         PROVE  Answer = Malformed /\ Spaced
    <2>1. ~ (Len(buf) < Len(t))
      BY <1>1, <1>6, <1>12, <1>14
    <2>2. Answer = Malformed
      BY <1>11, <1>14, <2>1
    <2>3. d \in Nat /\ d >= 2 /\ d <= L - 3
      <3>1. d # 0 /\ d - i \notin {0, 1} /\ d \in Nat
        BY <1>3, <1>14 DEF e
      <3>2. i <= d - 1
        BY <1>2, <1>4, <3>1, TextLeading
      <3>3. QED
        BY <1>1, <1>3, <1>4, <3>1, <3>2
    <2>4. d - 1 \in 1 .. L - 3 /\ d \in 1 .. L - 3 /\ d - 1 # d /\ d \in 1 .. L /\ d - 1 \in 1 .. L
      BY <1>1, <1>3, <2>3
    <2>5. m[d - 1] = "sp" /\ m[d] = "decl"
      BY <1>3, <2>4
    <2> DEFINE j == Start(k) + (d - 1)
    <2>6. j \in 1 .. Len(Input) /\ j + 1 = Start(k) + d /\ j + 1 \in 1 .. Len(Input)
      <3>1. Start(k) + (d - 1) \in 1 .. Len(Input) /\ Start(k) + d \in 1 .. Len(Input)
        BY <1>1, <2>4
      <3>2. j + 1 = Start(k) + d
        BY <1>1, <2>3
      <3>3. QED
        BY <3>1, <3>2
    <2>7. Input[j] = "sp" /\ Input[j + 1] = "decl"
      BY <1>1, <2>4, <2>5, <2>6
    <2> HIDE DEF j
    <2>8. j \in 1 .. Len(Input) - 1
      <3>1. Len(Input) \in Nat
        BY <1>1, LenProperties
      <3>2. QED
        BY <2>6, <3>1
    <2>9. Spaced
      BY <2>7, <2>8 DEF Spaced
    <2>10. QED
      BY <2>2, <2>9
  <1>15. ASSUME sent >= Start(k + 1), e \in {0, 1}
         PROVE  /\ t \in Seq(STRING) /\ Strip(t) = Strip(wire.msgs[k + 1])
                /\ next \in 0 .. Skip(k + 1) /\ Start(k + 1) + next <= sent
                /\ Answer = Got(t, ((Start(k + 1) - Start(k)) - i) + next)
    <2>1. ~ (Len(buf) < Len(t))
      BY <1>1, <1>6, <1>12, <1>15
    <2>2. Answer = Got(t, Len(t) + next)
      BY <1>11, <1>15, <2>1
    <2>3. Len(t) = (Start(k + 1) - Start(k)) - i /\ Len(t) \in Nat /\ Len(t) <= Len(buf)
      BY <1>12, <2>1
    <2>4. t \in Seq(STRING)
      BY <1>5 DEF IsText
    <2>5. /\ rest \in Seq(STRING) /\ Len(rest) = (Len(buf) + 1) - (Len(t) + 1)
          /\ \A j \in 1 .. (Len(buf) + 1) - (Len(t) + 1) : rest[j] = buf[((Len(t) + 1) + j) - 1]
      <3>1. Len(t) + 1 \in Nat /\ Len(t) + 1 >= 1 /\ Len(buf) <= Len(buf) /\ Len(t) + 1 <= Len(buf) + 1
        BY <1>6, <2>3
      <3>2. QED
        BY <1>6, <1>8, <3>1, Cut DEF rest
    <2>6. Len(rest) = sent - Start(k + 1) /\ (Len(buf) + 1) - (Len(t) + 1) = Len(rest)
      BY <1>12, <2>1, <2>5
    <2>7. k + 1 \in 0 .. Len(wire.msgs)
      BY <1>1
    <2> DEFINE G == Following(k + 1)
    <2>8. /\ G \in Seq(STRING) /\ Len(G) \in Nat /\ Start(k + 1) \in Nat
          /\ \A j \in 1 .. Len(G) : Input[Start(k + 1) + j] = G[j]
          /\ k + 1 = Len(wire.msgs) => Len(Input) = Start(k + 1) + Len(G)
      <3>1. Piece = STRING
        BY DEF Piece
      <3>2. QED
        BY <2>7, <3>1, InputIs
    <2>9. Skip(k + 1) = Leading(G)
      BY DEF Skip
    <2>10. Leading(G) < Len(G) \/ Len(rest) <= Len(G)
      <3>1. CASE k + 1 < Len(wire.msgs)
        BY <2>7, <3>1, NextIsText
      <3>2. CASE ~ (k + 1 < Len(wire.msgs))
        <4>1. k + 1 = Len(wire.msgs)
          BY <1>1, <2>7, <3>2
        <4>2. Len(Input) = Start(k + 1) + Len(G) /\ sent <= Len(Input)
          BY <1>1, <2>8, <4>1, LenProperties
        <4> HIDE DEF G
        <4>3. QED
          BY <1>6, <2>6, <2>8, <4>2
      <3>3. QED
        BY <3>1, <3>2
    <2> HIDE DEF G
    <2>11. ASSUME NEW j \in 1 .. Len(rest), j <= Len(G) PROVE rest[j] = G[j]
      <3>1. /\ ((Len(t) + 1) + j) - 1 = Len(t) + j /\ Len(t) + j \in 1 .. Len(buf)
            /\ Start(k) + i + (Len(t) + j) = Start(k + 1) + j /\ j \in 1 .. Len(G)
        <4>1. j \in Nat /\ j >= 1 /\ Len(rest) \in Nat /\ j <= Len(rest)
          BY <2>5, LenProperties
        <4>2. \A a, b, c \in Nat : c >= 1 /\ c <= (b + 1) - (a + 1) => a + c \in 1 .. b
          OBVIOUS
        <4>3. Len(t) + j \in 1 .. Len(buf)
          BY <1>6, <2>3, <2>6, <4>1, <4>2
        <4>4. j \in 1 .. Len(G)
          BY <2>8, <2>11, <4>1
        <4>5. QED
          BY <1>12, <4>1, <4>3, <4>4
      <3>2. rest[j] = buf[Len(t) + j]
        BY <2>5, <2>6, <3>1
      <3>3. buf[Len(t) + j] = Input[Start(k + 1) + j]
        BY <1>9, <3>1
      <3>4. QED
        BY <2>8, <3>1, <3>2, <3>3
    <2>12. Leading(rest) <= Leading(G)
      BY <2>5, <2>8, <2>10, <2>11, LeadingOfPart
    <2>13. Leading(rest) \in 0 .. Len(rest) /\ Leading(G) \in 0 .. Len(G)
      BY <2>5, <2>8, LeadingIs
    <2>14. next \in 0 .. Skip(k + 1)
      BY <2>5, <2>8, <2>9, <2>12, <2>13 DEF next
    <2>15. Start(k + 1) + next <= sent
      BY <1>6, <2>6, <2>8, <2>13 DEF next
    <2>16. QED
      BY <1>5, <1>7, <2>2, <2>3, <2>4, <2>14, <2>15
  <1>16. QED
    <2>1. ASSUME sent >= Start(k + 1)
          PROVE  \/ Answer = Malformed /\ Spaced
                 \/ \E u \in Seq(STRING) : \E n \in 0 .. Skip(k + 1) :
                        /\ Strip(u) = Strip(wire.msgs[k + 1]) /\ Start(k + 1) + n <= sent
                        /\ Answer = Got(u, ((Start(k + 1) - Start(k)) - i) + n)
      BY <1>14, <1>15, <2>1
    <2>2. QED
      BY <1>13, <2>1

\* Behind the messages nothing is taken for one more.
LEMMA RestAnswer ==
    ASSUME WireOk, NEW k, k = Len(wire.msgs), NEW i \in 0 .. Skip(k), BufferIs(k, i),
           sent \in 0 .. Len(Input)
    PROVE  Answer.got # "message" /\ (Answer.got = "error" => sent > Start(k))
  <1> DEFINE J == wire.junk
             n == sent - Start(k)
  <1>1. k \in 0 .. Len(wire.msgs) /\ k \in Nat /\ Following(k) = J
    BY InputIs DEF Following
  <1>2. /\ J \in Seq(Piece) /\ Len(J) \in Nat /\ Start(k) \in Nat
        /\ Len(Input) = Start(k) + Len(J)
    BY <1>1, InputIs
  <1>3. Skip(k) \in Nat /\ Skip(k) <= Len(J)
    BY <1>1, SkipIs
  <1>4. i \in Nat /\ i \in 0 .. Len(Following(k))
    BY <1>1, <1>2, <1>3
  <1>5. /\ Len(buf) \in Nat /\ sent \in Nat /\ Len(buf) = (sent - Start(k)) - i
        /\ \A j \in 1 .. Len(buf) : i + j <= Len(J) => buf[j] = J[i + j]
    BY <1>1, <1>4, BufferFollows
  <1>6. buf \in Seq(Piece) /\ Start(k) + i <= sent
    BY DEF BufferIs
  <1>7. n \in i .. Len(J) /\ n \in Nat /\ n - i = Len(buf)
    <2>1. \A x, y, z, l \in Nat :
              x + z <= y /\ y <= x + l => y - x \in z .. l /\ (y - x) - z = (y - x) - z
      OBVIOUS
    <2>2. sent <= Start(k) + Len(J)
      BY <1>2
    <2>3. sent - Start(k) \in i .. Len(J)
      BY <1>2, <1>4, <1>5, <1>6, <2>1, <2>2
    <2>4. QED
      BY <1>2, <1>4, <1>5, <2>3
  <1>8. Len(buf) > 0 => sent > Start(k)
    BY <1>2, <1>4, <1>5
  <1> HIDE DEF n, J
  <1>9. buf = SubSeq(J, i + 1, n)
    <2> DEFINE s == SubSeq(J, i + 1, n)
    <2>1. /\ s \in Seq(Piece) /\ Len(s) = (n + 1) - (i + 1)
          /\ \A j \in 1 .. (n + 1) - (i + 1) : s[j] = J[((i + 1) + j) - 1]
      <3>1. i + 1 \in Nat /\ i + 1 >= 1 /\ n <= Len(J) /\ i + 1 <= n + 1
        BY <1>2, <1>4, <1>7
      <3>2. QED
        BY <1>2, <1>7, <3>1, Cut
    <2> HIDE DEF s
    <2>2. (n + 1) - (i + 1) = Len(buf)
      BY <1>4, <1>7
    <2>3. ASSUME NEW j \in 1 .. Len(buf) PROVE buf[j] = s[j]
      <3>1. ((i + 1) + j) - 1 = i + j /\ i + j <= Len(J)
        BY <1>2, <1>4, <1>5, <1>7
      <3>2. QED
        BY <1>5, <2>1, <2>2, <3>1
    <2>4. buf = s
      BY <1>6, <2>1, <2>2, <2>3, SeqEqual
    <2>5. QED
      BY <2>4 DEF s
  <1>10. CASE wire.proto = "pb"
    <2>1. wire \in PbWire /\ Answer = TryDecode(buf) /\ i = 0
      BY <1>10, WireKinds DEF Answer, Skip
    <2>2. buf = SubSeq(J, 1, n) /\ n \in 0 .. Len(J)
      BY <1>2, <1>7, <1>9, <2>1
    <2>3. Answer.got # "message"
      BY <2>1, <2>2 DEF PbWire, J
    <2>4. buf = <<>> => Answer.got = "nothing"
      BY <2>1 DEF TryDecode, Incomplete
    <2>5. Len(buf) = 0 => buf = <<>>
      BY <1>6, EmptySeq
    <2>6. QED
      BY <1>5, <1>8, <2>3, <2>4, <2>5
  <1>11. CASE wire.proto # "pb"
    <2>1. wire \in XmlWire /\ Answer = ReadEvent(buf) /\ i \in 0 .. Leading(J)
      BY <1>1, <1>11, WireKinds DEF Answer, Skip
    <2>2. Answer.got # "message"
      BY <1>7, <1>9, <2>1 DEF XmlWire, J
    <2>3. Len(buf) = 0 => Answer.got = "nothing"
      <3>1. SUFFICES ASSUME Len(buf) = 0 PROVE Answer.got = "nothing"
        OBVIOUS
      <3>2. {j \in 2 .. Len(buf) : buf[j - 1] = "</event" /\ buf[j] = ">"} = {}
        BY <3>1
      <3>3. QED
        BY <2>1, <3>2 DEF ReadEvent, Incomplete
    <2>4. QED
      BY <1>5, <1>8, <2>2, <2>3
  <1>12. QED
    BY <1>10, <1>11

-----------------------------------------------------------------------------
(* Every step keeps the invariant.                                          *)

LEMMA StreamStarts ==
    ASSUME WireOk, sent = 0, buf = <<>>, delivered = <<>>,
           phase = "open" \/ (phase = "ended" /\ wire.msgs = <<>>)
    PROVE  StreamInv
  <1>1. Len(wire.msgs) \in Nat /\ Start(0) = 0 /\ Input \in Seq(Piece)
    BY InputIs
  <1>2. 0 \in 0 .. Len(wire.msgs) /\ Len(Input) \in Nat
    BY <1>1, LenProperties
  <1>3. sent \in 0 .. Len(Input)
    BY <1>2
  <1>4. Len(delivered) = 0 /\ delivered \in Seq(Seq(Piece)) /\ Len(buf) = 0 /\ buf \in Seq(Piece)
    BY EmptySeq
  <1>5. DeliveredAre
    BY <1>2, <1>4 DEF DeliveredAre
  <1>6. BufferIs(0, 0)
    BY <1>1, <1>4 DEF BufferIs
  <1>7. BufferBegins
    <2>1. 0 \in 0 .. Skip(0)
      BY <1>2, SkipIs
    <2>2. QED
      BY <1>4, <1>6, <2>1 DEF BufferBegins
  <1>8. ClosedInTime
    <2>1. wire.msgs = <<>> => Len(wire.msgs) = 0
      OBVIOUS
    <2>2. QED
      BY <1>4, <2>1 DEF ClosedInTime
  <1>9. QED
    BY <1>3, <1>5, <1>7, <1>8 DEF StreamInv

\* All that is said of the wire stays as long as the wire does.
LEMMA WireStays ==
    ASSUME wire' = wire
    PROVE  /\ WireOk' = WireOk /\ Piece' = Piece /\ Input' = Input /\ Spaced' = Spaced
           /\ \A m : Text(m)' = Text(m)
           /\ \A k : Start(k)' = Start(k) /\ Skip(k)' = Skip(k)
  <1>1. \A m : Encode(m)' = Encode(m)
    BY DEF Encode
  <1>2. \A k : Encoded(k)' = Encoded(k)
    BY <1>1 DEF Encoded
  <1>3. Input' = Input
    BY <1>2 DEF Input
  <1>4. \A k : Following(k)' = Following(k)
    BY <1>1 DEF Following
  <1>5. \A k : Start(k)' = Start(k) /\ Skip(k)' = Skip(k)
    BY <1>2, <1>4 DEF Start, Skip
  <1>6. \A m : Text(m)' = Text(m)
    BY DEF Text
  <1>7. Spaced' = Spaced
    BY <1>3 DEF Spaced
  <1>8. QED
    BY <1>3, <1>5, <1>6, <1>7 DEF WireOk, Piece

LEMMA ReadKeeps ==
    ASSUME StreamInv, NEW n \in 1 .. Len(Input), Read(n)
    PROVE  StreamInv'
  <1> DEFINE k == Len(delivered)
             chunk == SubSeq(Input, sent + 1, sent + n)
  <1>1. /\ phase = "open" /\ sent + n <= Len(Input) /\ sent' = sent + n /\ buf' = buf \o chunk
        /\ wire' = wire /\ delivered' = delivered /\ phase' = phase
    BY DEF Read
  <1>2. WireOk /\ sent \in 0 .. Len(Input) /\ DeliveredAre
    BY DEF StreamInv
  <1>3. PICK i \in 0 .. Skip(k) : BufferIs(k, i)
    BY DEF StreamInv, BufferBegins
  <1>4. /\ Start(k) + i <= sent /\ buf \in Seq(Piece) /\ Len(buf) = sent - (Start(k) + i)
        /\ \A j \in 1 .. Len(buf) : buf[j] = Input[Start(k) + i + j]
    BY <1>3 DEF BufferIs
  <1>5. k \in 0 .. Len(wire.msgs) /\ Start(k) \in Nat /\ Input \in Seq(Piece) /\ Skip(k) \in Nat
    <2>1. k \in 0 .. Len(wire.msgs)
      BY <1>2 DEF DeliveredAre
    <2>2. QED
      BY <1>2, <2>1, InputIs, SkipIs
  <1>6. i \in Nat /\ sent \in Nat /\ n \in Nat /\ n >= 1 /\ Len(Input) \in Nat
    BY <1>2, <1>5, LenProperties
  <1>7. /\ chunk \in Seq(Piece) /\ Len(chunk) = n
        /\ \A j \in 1 .. n : chunk[j] = Input[sent + j]
    <2>1. /\ chunk \in Seq(Piece) /\ Len(chunk) = ((sent + n) + 1) - (sent + 1)
          /\ \A j \in 1 .. ((sent + n) + 1) - (sent + 1) : chunk[j] = Input[((sent + 1) + j) - 1]
      <3>1. /\ sent + 1 \in Nat /\ sent + 1 >= 1 /\ sent + n \in Nat
            /\ sent + n <= Len(Input) /\ sent + 1 <= (sent + n) + 1
        BY <1>1, <1>6
      <3>2. QED
        BY <1>5, <3>1, Cut, SMTT(20)
    <2>2. ((sent + n) + 1) - (sent + 1) = n /\ \A j \in 1 .. n : ((sent + 1) + j) - 1 = sent + j
      <3>1. \A x, y \in Nat : /\ ((x + y) + 1) - (x + 1) = y
                              /\ \A j \in 1 .. y : ((x + 1) + j) - 1 = x + j
        OBVIOUS
      <3>2. QED
        BY <1>6, <3>1
    <2> HIDE DEF chunk
    <2>3. QED
      BY <2>1, <2>2
  <1> HIDE DEF chunk, k
  <1> DEFINE b == buf \o chunk
  <1>8. /\ b \in Seq(Piece) /\ Len(buf) \in Nat /\ Len(b) = Len(buf) + n
        /\ \A j \in 1 .. Len(buf) : b[j] = buf[j]
        /\ \A j \in 1 .. n : b[Len(buf) + j] = chunk[j]
    <2>1. buf \in Seq(Piece) /\ chunk \in Seq(Piece)
      BY <1>4, <1>7
    <2>2. /\ b \in Seq(Piece) /\ Len(buf) \in Nat /\ Len(b) = Len(buf) + Len(chunk)
          /\ \A j \in 1 .. Len(buf) : b[j] = buf[j]
          /\ \A j \in 1 .. Len(chunk) : b[Len(buf) + j] = chunk[j]
      BY <2>1, Joined
    <2> HIDE DEF b
    <2>3. QED
      BY <1>7, <2>2
  <1> HIDE DEF b
  <1>9. Len(b) = (sent + n) - (Start(k) + i) /\ Start(k) + i <= sent + n
    BY <1>4, <1>5, <1>6, <1>8
  <1>10. ASSUME NEW j \in 1 .. Len(b) PROVE b[j] = Input[Start(k) + i + j]
    <2>1. CASE j \in 1 .. Len(buf)
      BY <1>4, <1>8, <2>1
    <2>2. CASE j \notin 1 .. Len(buf)
      <3> DEFINE h == j - Len(buf)
      <3>1. h \in 1 .. n /\ j = Len(buf) + h /\ Start(k) + i + j = sent + h
        <4>1. /\ sent \in Nat /\ n \in Nat /\ Len(buf) \in Nat /\ Start(k) \in Nat /\ i \in Nat
              /\ Start(k) + i <= sent /\ Len(buf) = sent - (Start(k) + i)
          BY <1>4, <1>5, <1>6, <1>8
        <4>2. j \in 1 .. Len(buf) + n
          BY <1>8
        <4>3. j \in Nat /\ 1 <= j /\ j <= Len(buf) + n /\ ~(j <= Len(buf))
          <5>1. Len(buf) \in Nat /\ n \in Nat
            BY <4>1
          <5>2. QED
            BY <2>2, <4>2, <5>1
        <4>4. h \in 1 .. n /\ j = Len(buf) + h
          <5>1. \A x, y, g \in Nat : g <= x + y /\ ~(g <= x)
                                    => \E d \in 1 .. y : d = g - x /\ g = x + d
            OBVIOUS
          <5>2. Len(buf) \in Nat /\ n \in Nat
            BY <4>1
          <5>3. \E d \in 1 .. n : d = j - Len(buf) /\ j = Len(buf) + d
            BY <4>3, <5>1, <5>2
          <5>4. QED
            BY <5>3
        <4> HIDE DEF h
        <4>5. h \in Nat /\ j \in Nat
          BY <4>3, <4>4
        <4>6. Start(k) + i + j = sent + h
          <5>1. \A x, y, z, v, g, w \in Nat : x = z - (y + v) /\ w = x + g => y + v + w = z + g
            OBVIOUS
          <5>2. QED
            BY <4>1, <4>4, <4>5, <5>1, SMTT(30)
        <4>7. QED
          BY <4>4, <4>6
      <3> HIDE DEF h
      <3>2. QED
        BY <1>7, <1>8, <3>1
    <2>3. QED
      BY <2>1, <2>2
  <1>11. sent' \in 0 .. Len(Input) /\ buf' = b
    BY <1>1, <1>6 DEF b
  <1>12. BufferIs(k, i)'
    <2>1. Start(k)' = Start(k) /\ Piece' = Piece /\ Input' = Input /\ k' = k /\ i' = i
      BY <1>1, WireStays DEF k
    <2>2. QED
      BY <1>1, <1>8, <1>9, <1>10, <1>11, <2>1 DEF BufferIs
  <1>13. QED
    <2>1. WireOk' /\ DeliveredAre'
      BY <1>1, <1>2, WireStays DEF DeliveredAre
    <2>2. BufferBegins'
      BY <1>1, <1>12, WireStays DEF BufferBegins, k
    <2>3. ClosedInTime'
      BY <1>1 DEF ClosedInTime
    <2>4. QED
      BY <1>1, <1>11, <2>1, <2>2, <2>3, WireStays DEF StreamInv

\* A message that is taken is the next one, and the buffer then begins behind it.
LEMMA TakenIsNext ==
    ASSUME StreamInv, Answer.got = "message"
    PROVE  LET k == Len(delivered)
               b == SubSeq(buf, Answer.used + 1, Len(buf))
           IN  /\ k \in 0 .. Len(wire.msgs) /\ k + 1 \in 0 .. Len(wire.msgs)
               /\ Answer.payload \in Seq(Piece) /\ Text(Answer.payload) = Text(wire.msgs[k + 1])
               /\ \E next \in 0 .. Skip(k + 1) :
                      /\ Start(k + 1) + next <= sent
                      /\ b \in Seq(Piece) /\ Len(b) = sent - (Start(k + 1) + next)
                      /\ \A j \in 1 .. Len(b) : b[j] = Input[Start(k + 1) + next + j]
  <1> DEFINE k == Len(delivered)
             after == k + 1
             b == SubSeq(buf, Answer.used + 1, Len(buf))
  <1>1. WireOk /\ sent \in 0 .. Len(Input) /\ k \in 0 .. Len(wire.msgs)
    BY DEF StreamInv, DeliveredAre
  <1>2. PICK i \in 0 .. Skip(k) : BufferIs(k, i)
    BY DEF StreamInv, BufferBegins
  <1>3. /\ Start(k) + i <= sent /\ buf \in Seq(Piece) /\ Len(buf) = sent - (Start(k) + i)
        /\ \A j \in 1 .. Len(buf) : buf[j] = Input[Start(k) + i + j]
    BY <1>2 DEF BufferIs
  <1> HIDE DEF k
  <1>4. Len(wire.msgs) \in Nat /\ k \in Nat /\ Len(Input) \in Nat /\ sent \in Nat
    <2>1. Len(wire.msgs) \in Nat /\ Input \in Seq(Piece)
      BY <1>1, InputIs
    <2>2. QED
      BY <1>1, <2>1, LenProperties
  <1>5. k < Len(wire.msgs)
    <2>1. k # Len(wire.msgs)
      BY <1>1, <1>2, RestAnswer
    <2>2. QED
      BY <1>1, <1>4, <2>1
  <1>6. after \in 0 .. Len(wire.msgs)
    BY <1>1, <1>4, <1>5
  <1>7. Start(k) \in Nat /\ Start(after) \in Nat /\ Start(k) <= Start(after) /\ Skip(after) \in Nat /\ i \in Nat
    <2>1. after \in k .. Len(wire.msgs)
      BY <1>1, <1>4, <1>6
    <2>2. QED
      BY <1>1, <1>6, <2>1, InputIs, SkipIs
  <1> DEFINE Taken(next) ==
                 /\ next \in 0 .. Skip(after) /\ Start(after) + next <= sent
                 /\ Answer.payload \in Seq(Piece) /\ Text(Answer.payload) = Text(wire.msgs[after])
                 /\ Answer.used = ((Start(after) - Start(k)) - i) + next
                 /\ (Start(after) - Start(k)) - i >= 0
  <1>8. PICK next : Taken(next)
    <2>1. CASE wire.proto = "pb"
      <3>1. i = 0 /\ Skip(after) = 0
        BY <1>7, <2>1 DEF Skip
      <3>2. Answer = IF sent < Start(after) THEN Incomplete
                     ELSE Got(wire.msgs[after], Start(after) - Start(k))
        BY <1>1, <1>2, <1>5, <2>1, <3>1, PbAnswer
      <3>3. ~ (sent < Start(after))
        BY <3>2 DEF Incomplete
      <3>4. Answer.payload = wire.msgs[after] /\ Answer.used = Start(after) - Start(k)
        BY <3>2, <3>3 DEF Got
      <3>5. wire.msgs[after] \in Seq(Piece)
        <4>1. after \in 1 .. Len(wire.msgs)
          BY <1>4, <1>5
        <4>2. QED
          BY <1>1, <4>1, WireKinds
      <3>6. Taken(0)
        BY <1>4, <1>7, <3>1, <3>3, <3>4, <3>5
      <3>7. QED
        BY <3>6
    <2>2. CASE wire.proto = "xml"
      <3>1. /\ sent < Start(after) => Answer = Incomplete
            /\ sent >= Start(after) =>
                  \/ Answer = Malformed /\ Spaced
                  \/ \E t \in Seq(STRING) : \E next \in 0 .. Skip(after) :
                         /\ Strip(t) = Strip(wire.msgs[after]) /\ Start(after) + next <= sent
                         /\ Answer = Got(t, ((Start(after) - Start(k)) - i) + next)
        BY <1>1, <1>2, <1>5, <2>2, XmlAnswer
      <3>2. Answer # Incomplete /\ Answer # Malformed
        BY DEF Incomplete, Malformed
      <3>3. sent >= Start(after)
        BY <1>4, <1>7, <3>1, <3>2
      <3>4. PICK t \in Seq(STRING), next \in 0 .. Skip(after) :
                /\ Strip(t) = Strip(wire.msgs[after]) /\ Start(after) + next <= sent
                /\ Answer = Got(t, ((Start(after) - Start(k)) - i) + next)
        BY <3>1, <3>2, <3>3
      <3>5. Answer.payload = t /\ Answer.used = ((Start(after) - Start(k)) - i) + next
        BY <3>4 DEF Got
      <3>6. Text(Answer.payload) = Text(wire.msgs[after]) /\ Answer.payload \in Seq(Piece)
        BY <2>2, <3>4, <3>5 DEF Text, Piece
      <3>7. (Start(after) - Start(k)) - i >= 0
        <4>1. i <= Len(Following(k)) /\ Len(Following(k)) \in Nat
          <5>1. Skip(k) \in Nat /\ Skip(k) <= Len(Following(k)) /\ Len(Following(k)) \in Nat
            BY <1>1, SkipIs, InputIs
          <5>2. QED
            BY <1>7, <5>1
        <4>2. Start(after) = Start(k) + Len(Following(k))
          BY <1>1, <1>5, InputIs
        <4>3. QED
          BY <1>7, <4>1, <4>2
      <3> HIDE DEF after
      <3>8. Taken(next)
        BY <3>4, <3>5, <3>6, <3>7
      <3> HIDE DEF Taken
      <3>9. QED
        BY <3>8
    <2>3. QED
      BY <1>1, <2>1, <2>2, WireKinds
  <1> HIDE DEF after
  <1> DEFINE u == Answer.used
  <1>9. /\ u \in Nat /\ Len(buf) \in Nat /\ u + 1 <= Len(buf) + 1 /\ next \in Nat
        /\ (Len(buf) + 1) - (u + 1) = sent - (Start(after) + next)
        /\ \A j \in Nat : Start(k) + i + (u + j) = Start(after) + next + j
    <2>1. next \in Nat
      BY <1>7, <1>8
    <2>2. Start(after) + next <= sent
      BY <1>8
    <2>3. u = ((Start(after) - Start(k)) - i) + next /\ (Start(after) - Start(k)) - i >= 0
      BY <1>8
    <2>4. Len(buf) = sent - (Start(k) + i) /\ Start(k) + i <= sent
      BY <1>3
    <2> HIDE DEF u, Taken
    <2>5. /\ Start(k) \in Nat /\ Start(after) \in Nat /\ i \in Nat /\ sent \in Nat
      BY <1>4, <1>7
    <2>6. u \in Nat
      BY <2>1, <2>3, <2>5
    <2>7. Len(buf) \in Nat
      BY <2>4, <2>5
    <2>8. u + 1 <= Len(buf) + 1
      BY <2>1, <2>2, <2>3, <2>4, <2>5
    <2>9. (Len(buf) + 1) - (u + 1) = sent - (Start(after) + next)
      BY <2>1, <2>3, <2>4, <2>5, SMTT(20)
    <2>10. \A j \in Nat : Start(k) + i + (u + j) = Start(after) + next + j
      <3>1. \A x, y, z, v \in Nat : \A w, j \in Nat :
                w = ((y - x) - z) + v => x + z + (w + j) = y + v + j
        OBVIOUS
      <3>2. QED
        BY <2>1, <2>3, <2>5, <2>6, <3>1
    <2>11. QED
      BY <2>1, <2>6, <2>7, <2>8, <2>9, <2>10
  <1> HIDE DEF u
  <1>10. /\ b \in Seq(Piece) /\ Len(b) = (Len(buf) + 1) - (u + 1)
         /\ \A j \in 1 .. (Len(buf) + 1) - (u + 1) : b[j] = buf[((u + 1) + j) - 1]
    <2>1. u + 1 \in Nat /\ u + 1 >= 1 /\ Len(buf) <= Len(buf)
      BY <1>9
    <2>2. b = SubSeq(buf, u + 1, Len(buf))
      BY DEF u
    <2>3. buf \in Seq(Piece) /\ Len(buf) \in Nat /\ u + 1 <= Len(buf) + 1
      BY <1>3, <1>9
    <2> DEFINE c == SubSeq(buf, u + 1, Len(buf))
    <2>4. /\ c \in Seq(Piece) /\ Len(c) = (Len(buf) + 1) - (u + 1)
          /\ \A j \in 1 .. (Len(buf) + 1) - (u + 1) : c[j] = buf[((u + 1) + j) - 1]
      BY <2>1, <2>3, Cut
    <2> HIDE DEF b
    <2>5. b = c
      BY <2>2
    <2> HIDE DEF c
    <2>6. QED
      BY <2>4, <2>5
  <1> HIDE DEF b
  <1>11. ASSUME NEW j \in 1 .. Len(b) PROVE b[j] = Input[Start(after) + next + j]
    <2>1. ((u + 1) + j) - 1 = u + j /\ u + j \in 1 .. Len(buf) /\ j \in Nat
      <3>1. u \in Nat /\ Len(buf) \in Nat /\ u + 1 <= Len(buf) + 1
        BY <1>9
      <3>2. j \in 1 .. (Len(buf) + 1) - (u + 1)
        BY <1>10
      <3>3. \A x, y \in Nat : x + 1 <= y + 1 =>
                \A g \in 1 .. (y + 1) - (x + 1) :
                    ((x + 1) + g) - 1 = x + g /\ x + g \in 1 .. y /\ g \in Nat
        OBVIOUS
      <3>4. QED
        BY <3>1, <3>2, <3>3
    <2>2. b[j] = buf[u + j]
      BY <1>10, <2>1
    <2>3. buf[u + j] = Input[Start(k) + i + (u + j)]
      BY <1>3, <2>1
    <2>4. QED
      BY <1>9, <2>1, <2>2, <2>3
  <1>12. \E n \in 0 .. Skip(after) :
             /\ Start(after) + n <= sent
             /\ b \in Seq(Piece) /\ Len(b) = sent - (Start(after) + n)
             /\ \A j \in 1 .. Len(b) : b[j] = Input[Start(after) + n + j]
    BY <1>8, <1>9, <1>10, <1>11
  <1>13. QED
    BY <1>1, <1>6, <1>8, <1>12 DEF k, after, b

LEMMA DeliverKeeps ==
    ASSUME StreamInv, Deliver
    PROVE  StreamInv'
  <1> DEFINE k == Len(delivered)
             d == Append(delivered, Answer.payload)
             b == SubSeq(buf, Answer.used + 1, Len(buf))
  <1>1. /\ phase = "open" /\ Answer.got = "message" /\ delivered' = d /\ buf' = b
        /\ wire' = wire /\ sent' = sent /\ phase' = phase
    BY DEF Deliver
  <1>2. /\ WireOk /\ sent \in 0 .. Len(Input) /\ delivered \in Seq(Seq(Piece))
        /\ \A i \in 1 .. k : Text(delivered[i]) = Text(wire.msgs[i])
    BY DEF StreamInv, DeliveredAre
  <1>3. /\ k \in 0 .. Len(wire.msgs) /\ k + 1 \in 0 .. Len(wire.msgs)
        /\ Answer.payload \in Seq(Piece) /\ Text(Answer.payload) = Text(wire.msgs[k + 1])
    BY <1>1, TakenIsNext
  <1>4. PICK next \in 0 .. Skip(k + 1) :
            /\ Start(k + 1) + next <= sent
            /\ b \in Seq(Piece) /\ Len(b) = sent - (Start(k + 1) + next)
            /\ \A j \in 1 .. Len(b) : b[j] = Input[Start(k + 1) + next + j]
    BY <1>1, TakenIsNext
  <1>5. /\ d \in Seq(Seq(Piece)) /\ Len(d) = k + 1 /\ d[k + 1] = Answer.payload
        /\ \A i \in 1 .. k : d[i] = delivered[i]
    BY <1>2, <1>3, AppendProperties
  <1>6. k \in Nat
    BY <1>2, LenProperties
  <1> HIDE DEF d, b, k
  <1>7. \A i \in 1 .. k + 1 : Text(d[i]) = Text(wire.msgs[i])
    <2>1. \A i \in 1 .. k + 1 : i \in 1 .. k \/ i = k + 1
      BY <1>6
    <2>2. QED
      BY <1>2, <1>3, <1>5, <2>1
  <1>8. DeliveredAre'
    BY <1>1, <1>3, <1>5, <1>7, WireStays DEF DeliveredAre
  <1>9. BufferBegins'
    <2>1. PICK m \in Nat : m = k + 1
      BY <1>6
    <2>2. Start(m)' = Start(m) /\ Skip(m)' = Skip(m) /\ Piece' = Piece /\ Input' = Input
      BY <1>1, WireStays
    <2>3. Len(delivered') = m
      BY <1>1, <1>5, <2>1
    <2>4. next \in 0 .. Skip(m)
      BY <2>1
    <2>5. BufferIs(m, next)'
      BY <1>1, <1>4, <2>1, <2>2 DEF BufferIs
    <2>6. QED
      BY <2>2, <2>3, <2>4, <2>5 DEF BufferBegins
  <1>10. ClosedInTime'
    BY <1>1 DEF ClosedInTime
  <1>11. QED
    BY <1>1, <1>2, <1>8, <1>9, <1>10, WireStays DEF StreamInv

\* It is not waited for more while a message is there, and only what follows
\* the messages is in error.
LEMMA AnswerInTime ==
    ASSUME StreamInv
    PROVE  LET k == Len(delivered)
           IN  /\ Answer.got = "nothing" => k = Len(wire.msgs) \/ sent < Start(k + 1)
               /\ Answer.got = "error" /\ ~Spaced => k = Len(wire.msgs) /\ sent > Start(k)
  <1> DEFINE k == Len(delivered)
  <1>1. WireOk /\ sent \in 0 .. Len(Input) /\ k \in 0 .. Len(wire.msgs)
    BY DEF StreamInv, DeliveredAre
  <1>2. PICK i \in 0 .. Skip(k) : BufferIs(k, i)
    BY DEF StreamInv, BufferBegins
  <1> HIDE DEF k
  <1>3. CASE k = Len(wire.msgs)
    <2>1. Answer.got # "message" /\ (Answer.got = "error" => sent > Start(k))
      BY <1>1, <1>2, <1>3, RestAnswer
    <2>2. QED
      BY <1>3, <2>1 DEF k
  <1>4. CASE k # Len(wire.msgs)
    <2>1. k < Len(wire.msgs) /\ sent \in Nat /\ Start(k + 1) \in Nat
      <3>1. Len(wire.msgs) \in Nat /\ Input \in Seq(Piece)
        BY <1>1, InputIs
      <3>2. k < Len(wire.msgs) /\ sent \in Nat /\ k + 1 \in 0 .. Len(wire.msgs)
        BY <1>1, <1>4, <3>1, LenProperties
      <3>3. QED
        BY <1>1, <3>2, InputIs
    <2>2. Incomplete.got = "nothing" /\ Malformed.got = "error" /\ \A p, u : Got(p, u).got = "message"
      BY DEF Incomplete, Malformed, Got
    <2>3. CASE wire.proto = "pb"
      <3>1. i = 0
        BY <1>2, <2>3 DEF Skip
      <3>2. Answer = IF sent < Start(k + 1) THEN Incomplete
                     ELSE Got(wire.msgs[k + 1], Start(k + 1) - Start(k))
        BY <1>1, <1>2, <2>1, <2>3, <3>1, PbAnswer
      <3>3. QED
        BY <2>2, <3>2 DEF k
    <2>4. CASE wire.proto = "xml"
      <3>1. /\ sent < Start(k + 1) => Answer = Incomplete
            /\ sent >= Start(k + 1) =>
                  \/ Answer = Malformed /\ Spaced
                  \/ \E t \in Seq(STRING) : \E next \in 0 .. Skip(k + 1) :
                         /\ Strip(t) = Strip(wire.msgs[k + 1]) /\ Start(k + 1) + next <= sent
                         /\ Answer = Got(t, ((Start(k + 1) - Start(k)) - i) + next)
        BY <1>1, <1>2, <2>1, <2>4, XmlAnswer
      <3>2. sent < Start(k + 1) \/ sent >= Start(k + 1)
        BY <2>1
      <3>3. CASE sent < Start(k + 1)
        BY <2>2, <3>1, <3>3 DEF k
      <3>4. CASE sent >= Start(k + 1)
        <4>1. Answer.got \in {"message", "error"} /\ (Answer.got = "error" => Spaced)
          BY <2>2, <3>1, <3>4
        <4>2. QED
          BY <4>1
      <3>5. QED
        BY <3>2, <3>3, <3>4
    <2>5. QED
      BY <1>1, <2>3, <2>4, WireKinds
  <1>5. QED
    BY <1>3, <1>4 DEF k

LEMMA CloseKeeps ==
    ASSUME StreamInv, UNCHANGED <<wire, sent, buf, delivered>>,
           LET k == Len(delivered)
           IN  /\ ~Spaced => k = Len(wire.msgs) \/ sent < Start(k + 1)
               /\ phase' = "error" /\ ~Spaced =>
                      \/ sent > Start(Len(wire.msgs))
                      \/ wire.proto = "xml" /\ Start(k) < sent
    PROVE  StreamInv'
  <1>1. WireOk /\ sent \in 0 .. Len(Input) /\ DeliveredAre /\ BufferBegins
    BY DEF StreamInv
  <1>2. /\ Piece' = Piece /\ Input' = Input /\ Spaced' = Spaced /\ WireOk' = WireOk
        /\ \A m : Text(m)' = Text(m)
        /\ \A k : Start(k)' = Start(k) /\ Skip(k)' = Skip(k)
    BY WireStays
  <1>3. WireOk' /\ sent' \in 0 .. Len(Input')
    BY <1>1, <1>2
  <1>4. DeliveredAre'
    BY <1>1, <1>2 DEF DeliveredAre
  <1>5. PICK k : k = Len(delivered)
    OBVIOUS
  <1>6. BufferBegins'
    <2>1. PICK i \in 0 .. Skip(k) : BufferIs(k, i)
      BY <1>1, <1>5 DEF BufferBegins
    <2>2. BufferIs(k, i)'
      BY <1>2, <2>1 DEF BufferIs
    <2>3. i \in 0 .. Skip(k)' /\ k = Len(delivered')
      BY <1>2, <1>5, <2>1
    <2>4. QED
      BY <2>2, <2>3 DEF BufferBegins
  <1>7. ClosedInTime'
    <2>1. PICK n : n = Len(wire.msgs)
      OBVIOUS
    <2>2. PICK s : s = k + 1
      OBVIOUS
    <2>3. Start(k)' = Start(k) /\ Start(s)' = Start(s) /\ Start(n)' = Start(n)
      BY <1>2
    <2>4. QED
      BY <1>2, <1>5, <2>1, <2>2, <2>3 DEF ClosedInTime
  <1>8. QED
    BY <1>3, <1>4, <1>6, <1>7 DEF StreamInv

LEMMA RejectKeeps ==
    ASSUME StreamInv, Reject
    PROVE  StreamInv'
  <1> DEFINE k == Len(delivered)
  <1>1. Answer.got = "error" /\ phase' = "error" /\ UNCHANGED <<wire, sent, buf, delivered>>
    BY DEF Reject
  <1>2. ~Spaced => k = Len(wire.msgs) /\ sent > Start(k)
    BY <1>1, AnswerInTime
  <1>3. QED
    BY <1>1, <1>2, CloseKeeps

LEMMA HangUpKeeps ==
    ASSUME StreamInv, HangUp
    PROVE  StreamInv'
  <1> DEFINE k == Len(delivered)
  <1>1. /\ Answer.got = "nothing" /\ UNCHANGED <<wire, sent, buf, delivered>>
        /\ phase' = IF wire.proto = "xml" /\ Strip(buf) # <<>> THEN "error" ELSE "ended"
    BY DEF HangUp
  <1>2. k = Len(wire.msgs) \/ sent < Start(k + 1)
    BY <1>1, AnswerInTime
  <1>3. ASSUME phase' = "error"
        PROVE  wire.proto = "xml" /\ Start(k) < sent
    <2>1. wire.proto = "xml" /\ Strip(buf) # <<>>
      BY <1>1, <1>3
    <2>2. WireOk /\ k \in 0 .. Len(wire.msgs) /\ sent \in 0 .. Len(Input)
      BY DEF StreamInv, DeliveredAre
    <2>3. PICK i \in 0 .. Skip(k) : BufferIs(k, i)
      BY DEF StreamInv, BufferBegins
    <2>4. buf \in Seq(Piece) /\ Len(buf) = sent - (Start(k) + i)
      BY <2>3 DEF BufferIs
    <2>5. Start(k) \in Nat /\ Skip(k) \in Nat /\ Input \in Seq(Piece)
      BY <2>2, InputIs, SkipIs
    <2>6. Len(buf) \in Nat /\ sent \in Nat
      BY <2>2, <2>4, <2>5, LenProperties
    <2>7. Len(buf) # 0
      <3>1. Strip(buf) \in Seq(Piece) /\ Len(Strip(buf)) = Len(buf) - Leading(buf)
        BY <2>4, StripIs
      <3>2. Leading(buf) \in 0 .. Len(buf)
        BY <2>4, LeadingIs
      <3>3. Len(Strip(buf)) # 0
        BY <2>1, <3>1, EmptySeq
      <3>4. QED
        BY <2>6, <3>1, <3>2, <3>3
    <2> HIDE DEF k
    <2>8. QED
      BY <2>1, <2>3, <2>4, <2>5, <2>6, <2>7
  <1>4. QED
    BY <1>1, <1>2, <1>3, CloseKeeps

LEMMA StreamStep ==
    ASSUME StreamInv, [StreamNext]_streamVars
    PROVE  StreamInv'
  <1>1. CASE UNCHANGED streamVars
    <2>1. UNCHANGED <<wire, sent, buf, delivered, phase>>
      BY <1>1 DEF streamVars
    <2>2. ClosedInTime
      BY DEF StreamInv
    <2>3. CASE phase # "open"
      BY <2>1, <2>2, <2>3, CloseKeeps DEF ClosedInTime
    <2>4. CASE phase = "open"
      <3>1. WireOk /\ sent \in 0 .. Len(Input) /\ DeliveredAre /\ BufferBegins
        BY DEF StreamInv
      <3>2. WireOk' /\ sent' \in 0 .. Len(Input')
        BY <2>1, <3>1, WireStays
      <3>3. DeliveredAre'
        BY <2>1, <3>1, WireStays DEF DeliveredAre
      <3>4. PICK k : k = Len(delivered)
        OBVIOUS
      <3>5. PICK i \in 0 .. Skip(k) : BufferIs(k, i)
        BY <3>1, <3>4 DEF BufferBegins
      <3>6. Start(k)' = Start(k) /\ Skip(k)' = Skip(k) /\ Piece' = Piece /\ Input' = Input
        BY <2>1, WireStays
      <3>7. BufferIs(k, i)'
        BY <2>1, <3>5, <3>6 DEF BufferIs
      <3>8. BufferBegins'
        BY <2>1, <3>4, <3>5, <3>6, <3>7 DEF BufferBegins
      <3>9. ClosedInTime'
        BY <2>1, <2>4 DEF ClosedInTime
      <3>10. QED
        BY <3>2, <3>3, <3>8, <3>9 DEF StreamInv
    <2>5. QED
      BY <2>3, <2>4
  <1>2. CASE StreamNext
    <2>1. ASSUME NEW n \in 1 .. Len(Input), Read(n) PROVE StreamInv'
      BY <2>1, ReadKeeps
    <2>2. CASE Deliver
      BY <2>2, DeliverKeeps
    <2>3. CASE Reject
      BY <2>3, RejectKeeps
    <2>4. CASE HangUp
      BY <2>4, HangUpKeeps
    <2>5. QED
      BY <1>2, <2>1, <2>2, <2>3, <2>4 DEF StreamNext
  <1>3. QED
    BY <1>1, <1>2

-----------------------------------------------------------------------------
(* The invariant says what was to be shown.                                 *)

LEMMA GreatestElement ==
    ASSUME NEW N \in Nat, NEW S \in SUBSET (0 .. N), S # {}
    PROVE  Max(S) \in S /\ \A y \in S : y <= Max(S)
  <1> DEFINE T == {N - x : x \in S}
  <1>1. ASSUME NEW x \in S PROVE x \in Nat /\ x <= N /\ N - x \in Nat
    <2>1. x \in 0 .. N
      OBVIOUS
    <2>2. QED
      BY <2>1
  <1>2. T \in SUBSET Nat /\ T # {}
    BY <1>1
  <1>3. PICK t \in T : \A u \in T : t <= u
    <2> HIDE DEF T
    <2> QED
      BY <1>2, SmallestElement
  <1>4. PICK x \in S : t = N - x
    BY <1>3
  <1>5. ASSUME NEW y \in S PROVE x >= y
    <2>1. t <= N - y
      BY <1>3
    <2>2. x \in Nat /\ y \in Nat
      BY <1>1
    <2>3. QED
      BY <1>4, <2>1, <2>2
  <1>6. Max(S) \in S /\ \A y \in S : Max(S) >= y
    BY <1>5 DEF Max
  <1>7. QED
    BY <1>1, <1>6

LEMMA ArrivedIs ==
    ASSUME WireOk, sent \in Nat
    PROVE  /\ Arrived \in 0 .. Len(wire.msgs) /\ Start(Arrived) <= sent
           /\ \A n \in 0 .. Len(wire.msgs) : Start(n) <= sent => n <= Arrived
  <1> DEFINE S == {n \in 0 .. Len(wire.msgs) : Len(Encoded(n)) <= sent}
  <1>1. Len(wire.msgs) \in Nat /\ Start(0) = 0
    BY InputIs
  <1>2. 0 \in S
    BY <1>1 DEF Start
  <1>3. S \in SUBSET (0 .. Len(wire.msgs))
    OBVIOUS
  <1>4. \A n \in 0 .. Len(wire.msgs) : n \in S <=> Start(n) <= sent
    BY DEF Start
  <1>5. Arrived = Max(S)
    BY DEF Arrived
  <1> HIDE DEF S
  <1>6. Max(S) \in S /\ \A y \in S : y <= Max(S)
    BY <1>1, <1>2, <1>3, GreatestElement
  <1>7. QED
    BY <1>3, <1>4, <1>5, <1>6

LEMMA StreamIsExact ==
    ASSUME StreamInv
    PROVE  MessagesExact
  <1> DEFINE k == Len(delivered)
             N == Len(wire.msgs)
  <1>1. /\ WireOk /\ sent \in 0 .. Len(Input) /\ k \in 0 .. N /\ delivered \in Seq(Seq(Piece))
        /\ \A i \in 1 .. k : Text(delivered[i]) = Text(wire.msgs[i])
    BY DEF StreamInv, DeliveredAre
  <1>2. /\ phase # "open" /\ ~Spaced => k = N \/ sent < Start(k + 1)
        /\ phase = "error" /\ ~Spaced => sent > Start(N) \/ (wire.proto = "xml" /\ Start(k) < sent)
    BY DEF StreamInv, ClosedInTime
  <1>3. Start(k) <= sent
    <2>1. PICK i \in 0 .. Skip(k) : BufferIs(k, i)
      BY DEF StreamInv, BufferBegins
    <2>2. Start(k) + i <= sent
      BY <2>1 DEF BufferIs
    <2>3. Start(k) \in Nat /\ Skip(k) \in Nat
      BY <1>1, InputIs, SkipIs
    <2>4. Input \in Seq(Piece)
      BY <1>1, InputIs
    <2>5. sent \in Nat
      BY <1>1, <2>4, LenProperties
    <2> HIDE DEF k
    <2>6. QED
      BY <2>2, <2>3, <2>5
  <1>4. DOMAIN delivered = 1 .. k /\ k \in Nat /\ N \in Nat /\ sent \in Nat
    <2>1. N \in Nat /\ Input \in Seq(Piece)
      BY <1>1, InputIs
    <2>2. QED
      BY <1>1, <2>1, LenProperties
  <1> HIDE DEF k, N
  <1>5. /\ Arrived \in 0 .. N /\ Start(Arrived) <= sent
        /\ \A n \in 0 .. N : Start(n) <= sent => n <= Arrived
    BY <1>1, <1>4, ArrivedIs DEF N
  <1>6. k <= Arrived
    BY <1>1, <1>3, <1>5
  <1>7. ASSUME phase # "open", ~Spaced PROVE k = Arrived
    <2>1. CASE k = N
      BY <1>4, <1>5, <1>6, <2>1
    <2>2. CASE k # N /\ sent < Start(k + 1)
      <3>1. SUFFICES ASSUME k # Arrived PROVE FALSE
        OBVIOUS
      <3>2. k + 1 \in 0 .. N /\ Arrived \in k + 1 .. N
        BY <1>1, <1>4, <1>5, <1>6, <3>1
      <3>3. Start(k + 1) <= Start(Arrived) /\ Start(k + 1) \in Nat /\ Start(Arrived) \in Nat
        <4>1. Arrived \in 0 .. N
          BY <1>5
        <4>2. QED
          BY <1>1, <3>2, <4>1, InputIs DEF N
      <3>4. QED
        BY <1>4, <1>5, <2>2, <3>3
    <2>3. QED
      BY <1>2, <1>7, <2>1, <2>2
  <1>8. MessagesExact
    <2>1. Len(delivered) <= Arrived /\ (phase # "open" /\ ~Spaced => Len(delivered) = Arrived)
      BY <1>6, <1>7 DEF k
    <2>2. \A i \in DOMAIN delivered : Text(delivered[i]) = Text(wire.msgs[i])
      BY <1>1, <1>4
    <2>3. phase = "error" /\ ~Spaced =>
              \/ sent > Len(Encoded(Len(wire.msgs)))
              \/ wire.proto = "xml" /\ Len(Encoded(Arrived)) < sent
      <3>1. SUFFICES ASSUME phase = "error", ~Spaced
                     PROVE  sent > Start(N) \/ (wire.proto = "xml" /\ Start(Arrived) < sent)
        BY DEF Start, N
      <3>2. k = Arrived
        BY <1>7, <3>1
      <3>3. QED
        BY <1>2, <3>1, <3>2
    <2>4. QED
      BY <2>1, <2>2, <2>3 DEF MessagesExact
  <1>9. QED
    BY <1>8

=============================================================================
