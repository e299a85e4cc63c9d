------------------------------ MODULE DataFacts ------------------------------
(* Facts about numbers, queues and finite sets that the proofs share.       *)
EXTENDS Integers, Sequences, FiniteSets, Functions, FiniteSetTheorems,
        WellFoundedInduction, TLAPS

-----------------------------------------------------------------------------
(* Among some subsets of a finite set there is one with none inside it:     *)
(* strict inclusion of finite sets is well founded. A proof by induction    *)
(* over the subsets of a finite set is by a smallest counterexample.        *)
LEMMA SmallestSubset ==
    ASSUME NEW D, IsFiniteSet(D), NEW T \in SUBSET (SUBSET D), T # {}
    PROVE  \E U \in T : \A V \in T : V \subseteq U => V = U
  <1>1. IsWellFoundedOn(StrictSubsetOrdering(D), SUBSET D)
    BY FS_StrictSubsetOrderingWellFounded, FS_FiniteSubsetsOfFinite
  <1>2. \E U \in T : \A V \in T : <<V, U>> \notin StrictSubsetOrdering(D)
    BY <1>1, WFMin
  <1>3. QED
    BY <1>2 DEF StrictSubsetOrdering

(* A set of numbers that is not empty has a smallest element: one of its    *)
(* initial segments below an element of the set has none inside it.         *)
LEMMA SmallestElement ==
    ASSUME NEW S \in SUBSET Nat, S # {}
    PROVE  \E x \in S : \A y \in S : x <= y
  <1>1. PICK n \in S : TRUE
    OBVIOUS
  <1> DEFINE I == 0 .. n
             Below(x) == {y \in S : y <= x}
             T == {Below(x) : x \in {y \in S : y <= n}}
  <1>2. IsFiniteSet(I)
    BY FS_Interval
  <1>3. T \subseteq SUBSET I /\ T # {}
    <2>1. ASSUME NEW x \in S, x <= n, NEW y \in Below(x) PROVE y \in I
      <3>1. x \in Nat /\ y \in Nat /\ n \in Nat /\ y <= x
        BY <1>1
      <3>2. QED
        BY <2>1, <3>1
    <2>2. Below(n) \in T
      BY <1>1
    <2>3. QED
      BY <2>1, <2>2
  <1> HIDE DEF I
  <1>4. \E U \in T : \A V \in T : V \subseteq U => V = U
    <2> HIDE DEF T
    <2> QED
      BY <1>2, <1>3, SmallestSubset
  <1>5. PICK U \in T : \A V \in T : V \subseteq U => V = U
    BY <1>4
  <1>6. PICK x \in S : x <= n /\ U = Below(x)
    BY <1>5
  <1>7. ASSUME NEW y \in S, ~ (x <= y) PROVE FALSE
    <2>1. y <= x /\ y <= n /\ x \in Below(x) /\ x \notin Below(y)
      BY <1>1, <1>6, <1>7
    <2>2. Below(y) \in T
      BY <2>1
    <2>3. x \in Nat /\ y \in Nat /\ \A z \in S : z \in Nat /\ (z <= y => z <= x)
      BY <2>1, \A z \in S : z \in Nat
    <2>4. Below(y) \subseteq Below(x)
      BY <2>3
    <2>5. QED
      BY <1>5, <1>6, <2>1, <2>2, <2>4
  <1>8. QED
    BY <1>7

-----------------------------------------------------------------------------
(* The sum of a function over a finite set, as Functions computes it: an    *)
(* element at a time, from the sums over the smaller sets.                  *)
Pick(s) == CHOOSE x \in s : TRUE
SumsTo(f, g) ==
    g = [s \in SUBSET (DOMAIN f) |->
            IF s = {} THEN 0 ELSE f[Pick(s)] + g[s \ {Pick(s)}]]

(* There is such a table of sums: were there none for the subsets of some   *)
(* size, take the least such size, and extend the table of the one below.   *)
LEMMA SumsExist ==
    ASSUME NEW f, IsFiniteSet(DOMAIN f)
    PROVE  \E g : SumsTo(f, g)
  <1> DEFINE D == DOMAIN f
             Small(n) == {s \in SUBSET D : Cardinality(s) <= n}
             Body(g, s) == IF s = {} THEN 0 ELSE f[Pick(s)] + g[s \ {Pick(s)}]
             Sums(n, g) == g = [s \in Small(n) |-> Body(g, s)]
             Bad == {n \in Nat : ~ \E g : Sums(n, g)}
  <1>1. \A s \in SUBSET D : IsFiniteSet(s) /\ Cardinality(s) \in Nat
    BY FS_Subset, FS_CardinalityType
  <1>2. ASSUME NEW s \in SUBSET D, s # {}
        PROVE  /\ Pick(s) \in s
               /\ s \ {Pick(s)} \in SUBSET D
               /\ Cardinality(s \ {Pick(s)}) = Cardinality(s) - 1
    BY <1>1, <1>2, FS_RemoveElement DEF Pick
  <1>3. ASSUME NEW n \in Bad, \A m \in Bad : n <= m PROVE FALSE
    <2>1. CASE n = 0
      <3>1. \A s \in Small(0) : s = {}
        BY <1>1, FS_EmptySet
      <3>2. [s \in Small(0) |-> 0] = [s \in Small(0) |-> Body([t \in Small(0) |-> 0], s)]
        BY <3>1
      <3>3. QED
        BY <2>1, <3>2
    <2>2. CASE n # 0
      <3>1. n - 1 \in Nat /\ n - 1 \notin Bad
        <4>1. n \in Nat
          OBVIOUS
        <4> HIDE DEF Bad
        <4>2. QED
          BY <1>3, <2>2, <4>1
      <3>2. PICK g : Sums(n - 1, g)
        BY <3>1
      <3> DEFINE h == [s \in Small(n) |-> Body(g, s)]
      <3>3. ASSUME NEW s \in Small(n) PROVE Body(g, s) = Body(h, s)
        <4>1. CASE s = {}
          BY <4>1
        <4>2. CASE s # {}
          <5> DEFINE t == s \ {Pick(s)}
          <5>1. t \in Small(n - 1) /\ t \in Small(n)
            BY <1>1, <1>2, <4>2, <3>1
          <5>2. h[t] = Body(g, t)
            BY <5>1
          <5>3. g[t] = Body(g, t)
            BY <3>2, <5>1
          <5>4. QED
            BY <4>2, <5>2, <5>3
        <4>3. QED
          BY <4>1, <4>2
      <3>4. Sums(n, h)
        BY <3>3
      <3>5. QED
        BY <3>4
    <2>3. QED
      BY <2>1, <2>2
  <1>4. Bad = {}
    <2>1. Bad \in SUBSET Nat
      OBVIOUS
    <2> HIDE DEF Bad
    <2>2. QED
      BY <1>3, <2>1, SmallestElement
  <1>5. Cardinality(D) \in Nat
    BY FS_CardinalityType
  <1>6. PICK g : Sums(Cardinality(D), g)
    BY <1>4, <1>5
  <1>7. Small(Cardinality(D)) = SUBSET D
    BY FS_Subset
  <1>8. QED
    BY <1>6, <1>7 DEF SumsTo

LEMMA SumIsSums ==
    ASSUME NEW f, IsFiniteSet(DOMAIN f)
    PROVE  \E g : SumsTo(f, g) /\ SumFunction(f) = g[DOMAIN f]
  <1>1. SumFunction(f) = (CHOOSE g : SumsTo(f, g))[DOMAIN f]
    BY DEF SumFunction, SumFunctionOnSet, FoldFunctionOnSet, MapThenFoldSet, SumsTo, Pick
  <1>2. QED
    BY <1>1, SumsExist

(* A sum of numbers is a number.                                            *)
LEMMA SumIsNat ==
    ASSUME NEW D, IsFiniteSet(D), NEW f \in [D -> Nat]
    PROVE  SumFunction(f) \in Nat
  <1>1. PICK g : SumsTo(f, g) /\ SumFunction(f) = g[D]
    BY SumIsSums
  <1> DEFINE Bad == {s \in SUBSET D : g[s] \notin Nat}
  <1>2. ASSUME NEW U \in Bad, \A V \in Bad : V \subseteq U => V = U PROVE FALSE
    <2>1. U # {}
      BY <1>1 DEF SumsTo
    <2>2. Pick(U) \in U /\ g[U] = f[Pick(U)] + g[U \ {Pick(U)}]
      BY <1>1, <2>1 DEF SumsTo, Pick
    <2>3. U \ {Pick(U)} \notin Bad
      BY <1>2, <2>2
    <2>4. g[U \ {Pick(U)}] \in Nat
      BY <2>3
    <2>5. f[Pick(U)] \in Nat
      BY <2>2
    <2>6. g[U] \in Nat
      BY <2>2, <2>4, <2>5
    <2>7. QED
      BY <2>6
  <1>3. Bad = {}
    <2>1. Bad \in SUBSET (SUBSET D)
      OBVIOUS
    <2> HIDE DEF Bad
    <2>2. QED
      BY <1>2, <2>1, SmallestSubset
  <1>4. QED
    BY <1>1, <1>3

(* If no value is greater, the sum is not.                                  *)
LEMMA SumMonotone ==
    ASSUME NEW D, IsFiniteSet(D), NEW f1 \in [D -> Nat], NEW f2 \in [D -> Nat],
           \A x \in D : f1[x] <= f2[x]
    PROVE  SumFunction(f1) <= SumFunction(f2)
  <1>1. PICK g1 : SumsTo(f1, g1) /\ SumFunction(f1) = g1[D]
    BY SumIsSums
  <1>2. PICK g2 : SumsTo(f2, g2) /\ SumFunction(f2) = g2[D]
    BY SumIsSums
  <1> DEFINE Fine(s) == g1[s] \in Nat /\ g2[s] \in Nat /\ g1[s] <= g2[s]
             Bad == {s \in SUBSET D : ~ Fine(s)}
  <1>3. ASSUME NEW U \in Bad, \A V \in Bad : V \subseteq U => V = U PROVE FALSE
    <2>1. U # {}
      BY <1>1, <1>2 DEF SumsTo
    <2> DEFINE p == Pick(U)
               t == U \ {p}
    <2>2. /\ p \in U
          /\ g1[U] = f1[p] + g1[t]
          /\ g2[U] = f2[p] + g2[t]
      BY <1>1, <1>2, <2>1 DEF SumsTo, Pick
    <2>3. Fine(t)
      BY <1>3, <2>2
    <2>4. f1[p] \in Nat /\ f2[p] \in Nat /\ f1[p] <= f2[p]
      BY <2>2
    <2>5. Fine(U)
      <3> HIDE DEF p, t
      <3> QED
        BY <2>2, <2>3, <2>4
    <2>6. QED
      BY <2>5
  <1>4. Bad = {}
    <2>1. Bad \in SUBSET (SUBSET D)
      OBVIOUS
    <2> HIDE DEF Bad
    <2>2. QED
      BY <1>3, <2>1, SmallestSubset
  <1>5. QED
    BY <1>1, <1>2, <1>4

(* If one value changes, the sum changes by as much.                        *)
LEMMA SumChange ==
    ASSUME NEW D, IsFiniteSet(D), NEW f1 \in [D -> Nat], NEW f2 \in [D -> Nat],
           NEW k \in D, \A x \in D : x # k => f1[x] = f2[x]
    PROVE  SumFunction(f1) + f2[k] = SumFunction(f2) + f1[k]
  <1>1. PICK g1 : SumsTo(f1, g1) /\ SumFunction(f1) = g1[D]
    BY SumIsSums
  <1>2. PICK g2 : SumsTo(f2, g2) /\ SumFunction(f2) = g2[D]
    BY SumIsSums
  <1> DEFINE Fine(s) == /\ g1[s] \in Nat /\ g2[s] \in Nat
                        /\ IF k \in s THEN g1[s] + f2[k] = g2[s] + f1[k]
                                      ELSE g1[s] = g2[s]
             Bad == {s \in SUBSET D : ~ Fine(s)}
  <1>3. ASSUME NEW U \in Bad, \A V \in Bad : V \subseteq U => V = U PROVE FALSE
    <2>1. U # {}
      BY <1>1, <1>2 DEF SumsTo
    <2> DEFINE p == Pick(U)
               t == U \ {p}
    <2>2. /\ p \in U /\ p \notin t
          /\ g1[U] = f1[p] + g1[t]
          /\ g2[U] = f2[p] + g2[t]
      BY <1>1, <1>2, <2>1 DEF SumsTo, Pick
    <2>3. Fine(t)
      BY <1>3, <2>2
    <2>4. /\ f1[p] \in Nat /\ f2[p] \in Nat /\ f1[k] \in Nat /\ f2[k] \in Nat
          /\ p # k => f1[p] = f2[p]
          /\ p # k => (k \in U <=> k \in t)
      BY <2>2
    <2>5. Fine(U)
      <3> HIDE DEF p, t
      <3>1. CASE p = k
        BY <2>2, <2>3, <2>4, <3>1
      <3>2. CASE p # k /\ k \in U
        BY <2>2, <2>3, <2>4, <3>2
      <3>3. CASE p # k /\ k \notin U
        BY <2>2, <2>3, <2>4, <3>3
      <3>4. QED
        BY <3>1, <3>2, <3>3
    <2>6. QED
      BY <2>5
  <1>4. Bad = {}
    <2>1. Bad \in SUBSET (SUBSET D)
      OBVIOUS
    <2> HIDE DEF Bad
    <2>2. QED
      BY <1>3, <2>1, SmallestSubset
  <1>5. QED
    BY <1>1, <1>2, <1>4

(* A sum of zeros is zero.                                                  *)
LEMMA SumOfZeros ==
    ASSUME NEW D, IsFiniteSet(D), NEW f \in [D -> Nat], \A x \in D : f[x] = 0
    PROVE  SumFunction(f) = 0
  <1>1. PICK g : SumsTo(f, g) /\ SumFunction(f) = g[D]
    BY SumIsSums
  <1> DEFINE Bad == {s \in SUBSET D : g[s] # 0}
  <1>2. ASSUME NEW U \in Bad, \A V \in Bad : V \subseteq U => V = U PROVE FALSE
    <2>1. U # {}
      BY <1>1 DEF SumsTo
    <2>2. Pick(U) \in U /\ g[U] = f[Pick(U)] + g[U \ {Pick(U)}]
      BY <1>1, <2>1 DEF SumsTo, Pick
    <2>3. g[U \ {Pick(U)}] = 0
      BY <1>2, <2>2
    <2>4. QED
      BY <2>2, <2>3
  <1>3. Bad = {}
    <2>1. Bad \in SUBSET (SUBSET D)
      OBVIOUS
    <2> HIDE DEF Bad
    <2>2. QED
      BY <1>2, <2>1, SmallestSubset
  <1>4. QED
    BY <1>1, <1>3

-----------------------------------------------------------------------------
(* Who waits in a queue still waits in it when another joins, *)
InQueue(q, x) == \E i \in 1 .. Len(q) : q[i] = x

LEMMA QueueAppend ==
    ASSUME NEW S, NEW q \in Seq(S), NEW x \in S
    PROVE  /\ Append(q, x) \in Seq(S)
           /\ InQueue(Append(q, x), x)
           /\ \A y : InQueue(q, y) => InQueue(Append(q, x), y)
  <1>1. /\ Append(q, x) \in Seq(S) /\ Len(Append(q, x)) = Len(q) + 1
        /\ Append(q, x)[Len(q) + 1] = x
        /\ \A i \in 1 .. Len(q) : Append(q, x)[i] = q[i]
    OBVIOUS
  <1>2. QED
    BY <1>1 DEF InQueue

(* and when another leaves it at its head. *)
LEMMA QueueTail ==
    ASSUME NEW S, NEW q \in Seq(S), NEW x, InQueue(q, x)
    PROVE  /\ q # <<>> /\ Tail(q) \in Seq(S)
           /\ Head(q) \in S
           /\ \A y : InQueue(q, y) /\ Head(q) # y => InQueue(Tail(q), y)
  <1>1. q # <<>> /\ Len(q) \in Nat
    BY DEF InQueue
  <1>2. /\ Tail(q) \in Seq(S) /\ Len(Tail(q)) = Len(q) - 1
        /\ Head(q) = q[1] /\ q[1] \in S
        /\ \A i \in 1 .. Len(q) - 1 : Tail(q)[i] = q[i + 1]
    BY <1>1
  <1>3. ASSUME NEW y, InQueue(q, y), Head(q) # y PROVE InQueue(Tail(q), y)
    <2>1. PICK i \in 1 .. Len(q) : q[i] = y
      BY <1>3 DEF InQueue
    <2>2. i - 1 \in 1 .. Len(Tail(q)) /\ Tail(q)[i - 1] = y
      BY <1>1, <1>2, <1>3, <2>1
    <2>3. QED
      BY <2>2 DEF InQueue
  <1>4. QED
    BY <1>1, <1>2, <1>3

(* Nobody else joins or leaves; and in a queue where everybody waits once,  *)
(* who leaves is no longer in it.                                           *)
Distinct(q) == \A a, b \in 1 .. Len(q) : q[a] = q[b] => a = b

LEMMA QueueJoin ==
    ASSUME NEW S, NEW q \in Seq(S), NEW x \in S
    PROVE  /\ \A y : InQueue(Append(q, x), y) <=> InQueue(q, y) \/ y = x
           /\ Distinct(q) /\ ~ InQueue(q, x) => Distinct(Append(q, x))
  <1>1. /\ Len(Append(q, x)) = Len(q) + 1 /\ Len(q) \in Nat
        /\ Append(q, x)[Len(q) + 1] = x
        /\ \A i \in 1 .. Len(q) : Append(q, x)[i] = q[i]
    OBVIOUS
  <1>2. \A y : InQueue(Append(q, x), y) => InQueue(q, y) \/ y = x
    BY <1>1 DEF InQueue
  <1>3. \A y : InQueue(q, y) \/ y = x => InQueue(Append(q, x), y)
    BY <1>1 DEF InQueue
  <1>4. ASSUME Distinct(q), ~ InQueue(q, x) PROVE Distinct(Append(q, x))
    BY <1>1, <1>4 DEF Distinct, InQueue
  <1>5. QED
    BY <1>2, <1>3, <1>4

LEMMA QueueLeave ==
    ASSUME NEW S, NEW q \in Seq(S), q # <<>>
    PROVE  /\ \A y : InQueue(Tail(q), y) => InQueue(q, y)
           /\ \A y : InQueue(q, y) /\ y # Head(q) => InQueue(Tail(q), y)
           /\ Distinct(q) => Distinct(Tail(q)) /\ ~ InQueue(Tail(q), Head(q))
  <1>1. /\ Len(q) \in Nat /\ Len(q) > 0 /\ Len(Tail(q)) = Len(q) - 1
        /\ Head(q) = q[1]
        /\ \A i \in 1 .. Len(q) - 1 : Tail(q)[i] = q[i + 1]
    OBVIOUS
  <1>2. \A y : InQueue(Tail(q), y) => InQueue(q, y)
    BY <1>1 DEF InQueue
  <1>3. ASSUME NEW y, InQueue(q, y), y # Head(q) PROVE InQueue(Tail(q), y)
    <2>1. PICK i \in 1 .. Len(q) : q[i] = y
      BY <1>3 DEF InQueue
    <2>2. i - 1 \in 1 .. Len(q) - 1 /\ (i - 1) + 1 = i
      BY <1>1, <1>3, <2>1
    <2>3. QED
      BY <1>1, <2>1, <2>2 DEF InQueue
  <1>4. ASSUME Distinct(q) PROVE Distinct(Tail(q)) /\ ~ InQueue(Tail(q), Head(q))
    <2>1. ASSUME NEW a \in 1 .. Len(q) - 1, NEW b \in 1 .. Len(q) - 1, Tail(q)[a] = Tail(q)[b]
          PROVE  a = b
      <3>1. q[a + 1] = q[b + 1] /\ a + 1 \in 1 .. Len(q) /\ b + 1 \in 1 .. Len(q)
        BY <1>1, <2>1
      <3>2. a + 1 = b + 1
        BY <1>4, <3>1 DEF Distinct
      <3>3. QED
        BY <3>2
    <2>2. ASSUME NEW a \in 1 .. Len(q) - 1, Tail(q)[a] = Head(q) PROVE FALSE
      <3>1. q[a + 1] = q[1] /\ a + 1 \in 1 .. Len(q) /\ 1 \in 1 .. Len(q)
        BY <1>1, <2>2
      <3>2. a + 1 = 1
        BY <1>4, <3>1 DEF Distinct
      <3>3. QED
        BY <3>2
    <2>3. QED
      BY <1>1, <2>1, <2>2 DEF Distinct, InQueue
  <1>5. QED
    BY <1>2, <1>3, <1>4

=============================================================================
