------------------------- MODULE TraceReplayProofs -------------------------
(***************************************************************************)
(* Proofs about TraceReplay, for every workload, any number of flows and   *)
(* bins and any hash of the five-tuples: what the generators and the HAL   *)
(* workload hand over, what a bin gets of it, and the buckets.             *)
(***************************************************************************)
EXTENDS TraceReplay, FiniteSums

-----------------------------------------------------------------------------
(* Sequences: InOrder, BySize and Picked.                                  *)

Rising(p) == \A i, j \in DOMAIN p : i < j => p[i].ts <= p[j].ts

LEMMA SeqFacts ==
    ASSUME NEW S, NEW p \in Seq(S)
    PROVE  /\ Len(p) \in Nat /\ DOMAIN p = 1..Len(p)
           /\ \A k \in DOMAIN p : p[k] \in S
           /\ Cardinality(DOMAIN p) = Len(p)
           /\ \A key : (\A k \in DOMAIN p : key[k] \in Int) => Keyed(DOMAIN p, key)
  <1>1. Len(p) \in Nat /\ DOMAIN p = 1..Len(p) /\ \A k \in DOMAIN p : p[k] \in S
    OBVIOUS
  <1>2. Cardinality(1..Len(p)) = Len(p)
    BY <1>1, FS_Interval, 1 \in Int
  <1> QED
    BY <1>1, <1>2 DEF Keyed

LEMMA IsSeq ==
    ASSUME NEW S, NEW n \in Nat, NEW q, DOMAIN q = 1..n, q = [k \in 1..n |-> q[k]],
           \A k \in 1..n : q[k] \in S
    PROVE  q \in Seq(S) /\ Len(q) = n
  OBVIOUS

LEMMA InOrderSorts ==
    ASSUME NEW S, \A x \in S : x.ts \in Int, NEW p \in Seq(S)
    PROVE  /\ InOrder(p) \in Seq(S) /\ Len(InOrder(p)) = Len(p)
           /\ Rising(InOrder(p))
  <1> DEFINE key == [i \in DOMAIN p |-> p[i].ts]
             q == InOrder(p)
  <1>1. Len(p) \in Nat /\ DOMAIN p = 1..Len(p) /\ Cardinality(DOMAIN p) = Len(p)
    BY SeqFacts
  <1>2. Keyed(DOMAIN p, key)
    BY SeqFacts
  <1>3. q = [k \in 1..Len(p) |-> p[Place(DOMAIN p, key, k)]]
    BY <1>1 DEF InOrder
  <1> HIDE DEF key, q
  <1>4. \A k \in 1..Len(p) : Place(DOMAIN p, key, k) \in DOMAIN p
    BY <1>1, <1>2, PlaceIs
  <1>5. \A k \in 1..Len(p) : q[k] \in S
    BY <1>3, <1>4, SeqFacts
  <1>6. q \in Seq(S) /\ Len(q) = Len(p)
    BY <1>1, <1>3, <1>5
  <1>7. ASSUME NEW i \in 1..Len(p), NEW j \in 1..Len(p), i < j
        PROVE  q[i].ts <= q[j].ts
    <2>1. Ahead(key, Place(DOMAIN p, key, i), Place(DOMAIN p, key, j))
      BY <1>1, <1>2, <1>7, PlacesInOrder
    <2> DEFINE a == Place(DOMAIN p, key, i)
               b == Place(DOMAIN p, key, j)
    <2>2. a \in DOMAIN p /\ b \in DOMAIN p
      BY <1>4
    <2>3. key[a] = q[i].ts /\ key[b] = q[j].ts /\ key[a] \in Int /\ key[b] \in Int
      BY <1>3, <2>2, SeqFacts DEF key
    <2> HIDE DEF a, b
    <2> QED
      BY <2>1, <2>3 DEF Ahead, a, b
  <1>8. Rising(q)
    BY <1>1, <1>3, <1>7 DEF Rising
  <1> QED
    BY <1>6, <1>8 DEF q

LEMMA InOrderKeeps ==
    ASSUME NEW S, \A x \in S : x.ts \in Int, NEW p \in Seq(S), Rising(p)
    PROVE  InOrder(p) = p
  <1> DEFINE key == [i \in DOMAIN p |-> p[i].ts]
  <1>1. Len(p) \in Nat /\ DOMAIN p = 1..Len(p) /\ \A k \in DOMAIN p : p[k] \in S
    BY SeqFacts
  <1>2. \A i \in 1..Len(p) : key[i] \in Int
    BY <1>1
  <1>3. \A i, j \in 1..Len(p) : i < j => key[i] <= key[j]
    BY <1>1 DEF Rising
  <1>4. InOrder(p) = [k \in 1..Len(p) |-> p[Place(1..Len(p), key, k)]]
    BY <1>1 DEF InOrder
  <1> HIDE DEF key
  <1>5. \A k \in 1..Len(p) : Place(1..Len(p), key, k) = k
    BY <1>1, <1>2, <1>3, PlaceOfSorted
  <1> QED
    BY <1>1, <1>4, <1>5

LEMMA BySizeSorts ==
    ASSUME NEW S, \A x \in S : x.sz \in Int, NEW p \in Seq(S)
    PROVE  BySize(p) \in Seq(S)
  <1> DEFINE key == [i \in DOMAIN p |-> p[i].sz]
             q == BySize(p)
  <1>1. Len(p) \in Nat /\ DOMAIN p = 1..Len(p) /\ Cardinality(DOMAIN p) = Len(p)
    BY SeqFacts
  <1>2. Keyed(DOMAIN p, key)
    BY SeqFacts
  <1>3. q = [k \in 1..Len(p) |-> p[Place(DOMAIN p, key, k)]]
    BY <1>1 DEF BySize
  <1> HIDE DEF key, q
  <1>4. \A k \in 1..Len(p) : Place(DOMAIN p, key, k) \in DOMAIN p
    BY <1>1, <1>2, PlaceIs
  <1>5. \A k \in 1..Len(p) : q[k] \in S
    BY <1>3, <1>4, SeqFacts
  <1> QED
    BY <1>1, <1>3, <1>5 DEF q

(* What a mask picks: elements at its places, in their order.              *)
LEMMA PickedPlaces ==
    ASSUME NEW S, NEW p \in Seq(S), NEW mask \in SUBSET DOMAIN p
    PROVE  /\ Picked(p, mask) \in Seq(S)
           /\ Len(Picked(p, mask)) = Cardinality(mask)
           /\ \E at \in [1..Cardinality(mask) -> mask] :
                 /\ \A k \in 1..Cardinality(mask) : Picked(p, mask)[k] = p[at[k]]
                 /\ \A k, m \in 1..Cardinality(mask) : k < m => at[k] < at[m]
                 /\ \A i \in mask : \E k \in 1..Cardinality(mask) : at[k] = i
  <1> DEFINE key == [i \in mask |-> i]
             n == Cardinality(mask)
             q == Picked(p, mask)
             at == [k \in 1..n |-> Place(mask, key, k)]
  <1>1. Len(p) \in Nat /\ DOMAIN p = 1..Len(p) /\ \A k \in DOMAIN p : p[k] \in S
    BY SeqFacts
  <1>2. Keyed(mask, key)
    BY <1>1 DEF Keyed
  <1>3. n \in Nat
    BY <1>2, KeyedFacts
  <1>4. \A k \in 1..n : Place(mask, key, k) \in mask
    BY <1>2, PlaceIs
  <1>5. at \in [1..n -> mask]
    BY <1>4
  <1>6. q = [k \in 1..n |-> p[at[k]]]
    BY DEF Picked
  <1>7. \A k, m \in 1..n : k < m => Ahead(key, at[k], at[m])
    <2> HIDE DEF key
    <2> QED
      BY <1>2, PlacesInOrder
  <1>8. \A i \in mask : \E k \in 1..n : at[k] = i
    <2> HIDE DEF key
    <2> QED
      BY <1>2, PlaceReached
  <1> HIDE DEF at, n, q
  <1>9. \A k, m \in 1..n : k < m => at[k] < at[m]
    BY <1>1, <1>5, <1>7 DEF Ahead
  <1>10. q \in Seq(S) /\ Len(q) = n
    BY <1>1, <1>3, <1>5, <1>6
  <1>11. \A k \in 1..n : q[k] = p[at[k]]
    BY <1>6
  <1> HIDE DEF key
  <1> QED
    BY <1>5, <1>8, <1>9, <1>10, <1>11 DEF n, q

LEMMA PickedRising ==
    ASSUME NEW S, NEW p \in Seq(S), NEW mask \in SUBSET DOMAIN p, Rising(p)
    PROVE  Rising(Picked(p, mask))
  <1> DEFINE q == Picked(p, mask)
             n == Cardinality(mask)
  <1>1. PICK at \in [1..n -> mask] :
           /\ \A k \in 1..n : q[k] = p[at[k]]
           /\ \A k, m \in 1..n : k < m => at[k] < at[m]
    BY PickedPlaces
  <1>2. q \in Seq(S) /\ Len(q) = n
    BY PickedPlaces
  <1>3. DOMAIN q = 1..n
    BY <1>2
  <1> HIDE DEF q, n
  <1>4. \A i, j \in 1..n : i < j => q[i].ts <= q[j].ts
    BY <1>1 DEF Rising
  <1> QED
    BY <1>3, <1>4 DEF Rising, q

LEMMA PickedInjective ==
    ASSUME NEW S, NEW p \in Seq(S), NEW mask \in SUBSET DOMAIN p, IsInjective(p)
    PROVE  IsInjective(Picked(p, mask))
  <1> DEFINE q == Picked(p, mask)
             n == Cardinality(mask)
  <1>1. PICK at \in [1..n -> mask] :
           /\ \A k \in 1..n : q[k] = p[at[k]]
           /\ \A k, m \in 1..n : k < m => at[k] < at[m]
    BY PickedPlaces
  <1>2. DOMAIN q = 1..n /\ n \in Nat
    <2>1. q \in Seq(S) /\ Len(q) = n
      BY PickedPlaces
    <2> QED
      BY <2>1
  <1> HIDE DEF q, n
  <1>3. \A i \in mask : i \in Nat
    BY SeqFacts
  <1>4. ASSUME NEW i \in 1..n, NEW j \in 1..n, q[i] = q[j] PROVE i = j
    <2>1. p[at[i]] = p[at[j]] /\ at[i] \in mask /\ at[j] \in mask
      BY <1>1, <1>4
    <2>2. at[i] = at[j]
      BY <2>1 DEF IsInjective
    <2>3. at[i] \in Int
      BY <1>3, <2>1
    <2>4. ~(i < j) /\ ~(j < i)
      BY <1>1, <2>2, <2>3
    <2> QED
      BY <1>2, <2>4
  <1> QED
    BY <1>2, <1>4 DEF IsInjective, q

LEMMA PickedInterval ==
    ASSUME NEW S, NEW p \in Seq(S), NEW a \in Int, NEW b \in Int,
           1 <= a, b <= Len(p), a <= b + 1
    PROVE  Picked(p, a..b) = SubSeq(p, a, b)
  <1> DEFINE key == [i \in a..b |-> i]
             n == b - a + 1
  <1>1. Cardinality(a..b) = n /\ n \in Nat
    <2>1. Cardinality(a..b) = IF a > b THEN 0 ELSE b - a + 1
      BY FS_Interval
    <2> QED
      BY <2>1
  <1>2. Keyed(a..b, key)
    <2>1. a..b \in SUBSET (1..Len(p)) /\ Len(p) \in Nat
      OBVIOUS
    <2>2. \A i \in a..b : key[i] \in Int
      OBVIOUS
    <2> HIDE DEF key
    <2> QED
      BY <2>1, <2>2 DEF Keyed
  <1>3. ASSUME NEW k \in 1..n PROVE Place(a..b, key, k) = a + k - 1
    <2> DEFINE r == Place(a..b, key, k)
    <2>1. r \in a..b /\ Cardinality(AheadOf(a..b, key, r)) = k - 1
      BY <1>1, <1>2, PlaceIs
    <2> HIDE DEF r
    <2>2. AheadOf(a..b, key, r) = a..(r - 1)
      BY <2>1 DEF AheadOf, Ahead
    <2>3. Cardinality(a..(r - 1)) = IF a > r - 1 THEN 0 ELSE r - 1 - a + 1
      BY <2>1, FS_Interval, r - 1 \in Int
    <2> QED
      BY <2>1, <2>2, <2>3 DEF r
  <1>4. Picked(p, a..b) = [k \in 1..n |-> p[a + k - 1]]
    <2>1. Picked(p, a..b) = [k \in 1..n |-> p[Place(a..b, key, k)]]
      BY <1>1 DEF Picked
    <2> HIDE DEF key
    <2> QED
      BY <1>3, <2>1
  <1>5. SubSeq(p, a, b) = [k \in 1..n |-> p[a + k - 1]]
    OBVIOUS
  <1> QED
    BY <1>4, <1>5

-----------------------------------------------------------------------------
(* FlattenSeq, and folds as sums.                                          *)

Flat(f, ss, i) == IF i = 1 THEN ss[i] ELSE f[i - 1] \o ss[i]

Flattens(f, ss, n) == f = [i \in 1..n |-> Flat(f, ss, i)]

LEMMA FlattenSolved ==
    ASSUME NEW ss, NEW n \in Nat
    PROVE  \E f : Flattens(f, ss, n)
  <1> DEFINE N == {m \in Nat : \E f : Flattens(f, ss, m)}
  <1>1. 0 \in N
    <2> DEFINE f == [i \in 1..0 |-> <<>>]
    <2>1. Flattens(f, ss, 0)
      BY DEF Flattens
    <2> QED
      BY <2>1
  <1>2. ASSUME NEW m \in Nat, m \in N PROVE m + 1 \in N
    <2>1. PICK g : Flattens(g, ss, m)
      BY <1>2
    <2> DEFINE h == [i \in 1..(m + 1) |-> Flat(g, ss, i)]
    <2>2. \A i \in 1..m : g[i] = Flat(g, ss, i)
      <3>1. g = [i \in 1..m |-> Flat(g, ss, i)]
        BY <2>1 DEF Flattens
      <3> QED
        BY <3>1
    <2>3. \A i \in 1..m : h[i] = g[i]
      BY <2>2
    <2>4. \A i \in 1..(m + 1) : i = 1 \/ i - 1 \in 1..m
      OBVIOUS
    <2>5. \A i \in 1..(m + 1) : Flat(g, ss, i) = Flat(h, ss, i)
      <3> HIDE DEF h
      <3> QED
        BY <2>3, <2>4 DEF Flat
    <2>6. \A i \in 1..(m + 1) : h[i] = Flat(h, ss, i)
      BY <2>5
    <2>7. h = [i \in 1..(m + 1) |-> h[i]]
      OBVIOUS
    <2> HIDE DEF h
    <2>8. Flattens(h, ss, m + 1)
      BY <2>6, <2>7 DEF Flattens
    <2> QED
      BY <2>8
  <1> HIDE DEF N
  <1>3. n \in N
    BY <1>1, <1>2, Induction
  <1> QED
    BY <1>3 DEF N

LEMMA FlattenTyped ==
    ASSUME NEW S, NEW ss \in Seq(Seq(S)), NEW n \in 1..Len(ss), NEW f, Flattens(f, ss, Len(ss))
    PROVE  f[n] \in Seq(S)
  <1> DEFINE N == {m \in Nat : m + 1 <= Len(ss) => f[m + 1] \in Seq(S)}
  <1>1. Len(ss) \in Nat /\ \A i \in 1..Len(ss) : ss[i] \in Seq(S)
    OBVIOUS
  <1>2. \A i \in 1..Len(ss) : f[i] = Flat(f, ss, i)
    <2>1. f = [i \in 1..Len(ss) |-> Flat(f, ss, i)]
      BY DEF Flattens
    <2> QED
      BY <2>1
  <1>3. 0 \in N
    <2> SUFFICES ASSUME 1 <= Len(ss) PROVE f[1] \in Seq(S)
      OBVIOUS
    <2>1. f[1] = ss[1] /\ ss[1] \in Seq(S)
      BY <1>1, <1>2 DEF Flat
    <2> QED
      BY <2>1
  <1>4. ASSUME NEW m \in Nat, m \in N PROVE m + 1 \in N
    <2> SUFFICES ASSUME m + 2 <= Len(ss) PROVE f[m + 2] \in Seq(S)
      OBVIOUS
    <2>1. f[m + 1] \in Seq(S) /\ ss[m + 2] \in Seq(S)
      BY <1>1, <1>4
    <2>2. f[m + 2] = f[m + 1] \o ss[m + 2]
      <3>1. m + 2 \in 1..Len(ss) /\ m + 2 # 1 /\ (m + 2) - 1 = m + 1
        BY <1>1
      <3> QED
        BY <1>2, <3>1 DEF Flat
    <2> QED
      BY <2>1, <2>2
  <1> HIDE DEF N
  <1>5. n - 1 \in N
    BY <1>3, <1>4, Induction, n - 1 \in Nat
  <1> QED
    BY <1>5 DEF N

(* The elements of a flattened sequence are elements of its parts.         *)
LEMMA FlattenIn ==
    ASSUME NEW S, NEW ss \in Seq(Seq(S))
    PROVE  FlattenSeq(ss) \in Seq(S)
  <1> DEFINE f == CHOOSE f : Flattens(f, ss, Len(ss))
  <1>1. Len(ss) \in Nat
    OBVIOUS
  <1>2. Flattens(f, ss, Len(ss))
    BY <1>1, FlattenSolved
  <1>3. FlattenSeq(ss) = IF Len(ss) = 0 THEN ss ELSE f[Len(ss)]
    BY DEF FlattenSeq, Flattens, Flat
  <1> HIDE DEF f
  <1>4. CASE Len(ss) = 0
    <2>1. ss = << >> /\ << >> \in Seq(S)
      BY <1>4
    <2> QED
      BY <1>3, <1>4, <2>1
  <1>5. CASE Len(ss) # 0
    BY <1>1, <1>2, <1>3, <1>5, FlattenTyped
  <1> QED
    BY <1>4, <1>5

(* A left fold that adds is the sum over the domain of the sequence.       *)
Adds(h, f, n) ==
    h = [s \in SUBSET (1..n) |->
           IF s = {} THEN 0 ELSE h[s \ {Max(s)}] + f[Max(s)]]

LEMMA MaxIn ==
    ASSUME NEW n \in Nat
    PROVE  \A s \in SUBSET (1..n) : s # {} => Max(s) \in s
  <1> SUFFICES ASSUME NEW s \in SUBSET (1..n), s # {} PROVE Max(s) \in s
    OBVIOUS
  <1>1. \E x \in s : \A y \in s : x >= y
    BY GreatestElement
  <1> QED
    BY <1>1 DEF Max

LEMMA AddsIs ==
    ASSUME NEW n \in Nat, NEW f, \A i \in 1..n : f[i] \in Int
    PROVE  LET g == [s \in SUBSET (1..n) |-> SumFunctionOnSet(f, s)]
           IN  \A s \in SUBSET (1..n) :
                  g[s] = IF s = {} THEN 0 ELSE g[s \ {Max(s)}] + f[Max(s)]
  <1> DEFINE g == [s \in SUBSET (1..n) |-> SumFunctionOnSet(f, s)]
  <1> SUFFICES ASSUME NEW s \in SUBSET (1..n)
               PROVE  g[s] = IF s = {} THEN 0 ELSE g[s \ {Max(s)}] + f[Max(s)]
    OBVIOUS
  <1>1. CASE s = {}
    BY <1>1, SumOverNothing
  <1>2. CASE s # {}
    <2>1. Max(s) \in s
      BY <1>2, MaxIn
    <2> DEFINE x == Max(s)
    <2> HIDE DEF x
    <2>2. x \in s /\ IsFiniteSet(s) /\ \A i \in s : f[i] \in Int
      BY <2>1, FS_Interval, FS_Subset, 1 \in Int, n \in Int DEF x
    <2>3. SumFunctionOnSet(f, s) = f[x] + SumFunctionOnSet(f, s \ {x})
      BY <2>2, SumRemove
    <2>4. SumFunctionOnSet(f, s \ {x}) \in Int
      BY <2>2, SumInteger, FS_Subset
    <2>5. g[s] = g[s \ {x}] + f[x]
      BY <2>2, <2>3, <2>4
    <2> QED
      BY <1>2, <2>5 DEF x
  <1> QED
    BY <1>1, <1>2

LEMMA AddsSolved ==
    ASSUME NEW n \in Nat, NEW f, \A i \in 1..n : f[i] \in Int
    PROVE  \E h : Adds(h, f, n)
  <1> DEFINE g == [s \in SUBSET (1..n) |-> SumFunctionOnSet(f, s)]
  <1>1. \A s \in SUBSET (1..n) :
           g[s] = IF s = {} THEN 0 ELSE g[s \ {Max(s)}] + f[Max(s)]
    BY AddsIs
  <1>2. g = [s \in SUBSET (1..n) |-> g[s]]
    OBVIOUS
  <1> HIDE DEF g
  <1>3. Adds(g, f, n)
    BY <1>1, <1>2 DEF Adds
  <1> QED
    BY <1>3

LEMMA AddsUp ==
    ASSUME NEW n \in Nat, NEW f, \A i \in 1..n : f[i] \in Int,
           NEW h, Adds(h, f, n)
    PROVE  h[1..n] = SumFunctionOnSet(f, 1..n)
  <1> DEFINE g == [s \in SUBSET (1..n) |-> SumFunctionOnSet(f, s)]
             P == {s \in SUBSET (1..n) : h[s] = g[s]}
             N == {m \in Nat : \A s \in SUBSET (1..n) : Cardinality(s) = m => s \in P}
  <1>1. \A s \in SUBSET (1..n) :
           g[s] = IF s = {} THEN 0 ELSE g[s \ {Max(s)}] + f[Max(s)]
    BY AddsIs
  <1>2. \A s \in SUBSET (1..n) :
           h[s] = IF s = {} THEN 0 ELSE h[s \ {Max(s)}] + f[Max(s)]
    <2>1. h = [s \in SUBSET (1..n) |->
                 IF s = {} THEN 0 ELSE h[s \ {Max(s)}] + f[Max(s)]]
      BY DEF Adds
    <2> QED
      BY <2>1
  <1>3. \A s \in SUBSET (1..n) : IsFiniteSet(s) /\ Cardinality(s) \in Nat
    BY FS_Interval, FS_Subset, FS_CardinalityType, 1 \in Int, n \in Int
  <1> HIDE DEF g
  <1>4. 0 \in N
    <2>1. \A s \in SUBSET (1..n) : Cardinality(s) = 0 => s = {}
      BY <1>3, FS_EmptySet
    <2> QED
      BY <1>1, <1>2, <2>1
  <1>5. ASSUME NEW m \in Nat, m \in N PROVE m + 1 \in N
    <2> SUFFICES ASSUME NEW s \in SUBSET (1..n), Cardinality(s) = m + 1 PROVE s \in P
      OBVIOUS
    <2>1. s # {}
      BY FS_EmptySet
    <2> DEFINE x == Max(s)
    <2>2. x \in s
      BY <2>1, MaxIn
    <2> HIDE DEF x
    <2>3. Cardinality(s \ {x}) = m
      <3>1. Cardinality(s \ {x}) = Cardinality(s) - 1
        BY <1>3, <2>2, FS_RemoveElement
      <3> QED
        BY <3>1
    <2>4. h[s \ {x}] = g[s \ {x}]
      BY <1>5, <2>3
    <2>5. h[s] = h[s \ {x}] + f[x] /\ g[s] = g[s \ {x}] + f[x]
      BY <1>1, <1>2, <2>1 DEF x
    <2> QED
      BY <2>4, <2>5
  <1> HIDE DEF N
  <1>6. Nat \subseteq N
    BY <1>4, <1>5, Induction
  <1>7. 1..n \in P
    BY <1>3, <1>6 DEF N
  <1> QED
    BY <1>7 DEF g

LEMMA BytesAre ==
    ASSUME NEW S, \A x \in S : x.sz \in Int, NEW p \in Seq(S)
    PROVE  Bytes(p) = SumFunctionOnSet([k \in DOMAIN p |-> p[k].sz], DOMAIN p)
  <1> DEFINE n == Len(p)
             f == [k \in DOMAIN p |-> p[k].sz]
             h == CHOOSE h : h = [s \in SUBSET (1..n) |->
                     IF s = {} THEN 0 ELSE h[s \ {Max(s)}] + p[Max(s)].sz]
  <1>1. n \in Nat /\ DOMAIN p = 1..n /\ \A k \in 1..n : p[k] \in S
    BY SeqFacts
  <1>2. Bytes(p) = h[1..n]
    BY <1>1 DEF Bytes, FoldLeft, MapThenFoldSet
  <1>3. \A i \in 1..n : f[i] \in Int /\ f[i] = p[i].sz
    BY <1>1
  <1> HIDE DEF f
  <1>4. \A s \in SUBSET (1..n) : s # {} => Max(s) \in 1..n
    BY <1>1, MaxIn
  <1>5. ASSUME NEW g PROVE [s \in SUBSET (1..n) |->
                     IF s = {} THEN 0 ELSE g[s \ {Max(s)}] + p[Max(s)].sz]
           = [s \in SUBSET (1..n) |->
                     IF s = {} THEN 0 ELSE g[s \ {Max(s)}] + f[Max(s)]]
    <2>1. \A s \in SUBSET (1..n) :
             (IF s = {} THEN 0 ELSE g[s \ {Max(s)}] + p[Max(s)].sz)
               = (IF s = {} THEN 0 ELSE g[s \ {Max(s)}] + f[Max(s)])
      BY <1>3, <1>4
    <2> QED
      BY <2>1
  <1>6. \E g : g = [s \in SUBSET (1..n) |->
                     IF s = {} THEN 0 ELSE g[s \ {Max(s)}] + p[Max(s)].sz]
    <2>1. PICK g : Adds(g, f, n)
      BY <1>1, <1>3, AddsSolved
    <2>2. g = [s \in SUBSET (1..n) |->
                     IF s = {} THEN 0 ELSE g[s \ {Max(s)}] + f[Max(s)]]
      BY <2>1 DEF Adds
    <2>3. g = [s \in SUBSET (1..n) |->
                     IF s = {} THEN 0 ELSE g[s \ {Max(s)}] + p[Max(s)].sz]
      BY <1>5, <2>2
    <2> QED
      BY <2>3
  <1>7. h = [s \in SUBSET (1..n) |->
                     IF s = {} THEN 0 ELSE h[s \ {Max(s)}] + p[Max(s)].sz]
    BY <1>6
  <1> HIDE DEF h
  <1>8. Adds(h, f, n)
    BY <1>5, <1>7 DEF Adds
  <1>9. h[1..n] = SumFunctionOnSet(f, 1..n)
    BY <1>1, <1>3, <1>8, AddsUp
  <1> QED
    BY <1>1, <1>2, <1>9 DEF f

-----------------------------------------------------------------------------
(* Packets and their bytes.                                                *)

(* What a timeline consists of, and what the sources that cut bytes into   *)
(* packets make it of.                                                     *)
AnyPackets == [ts : 0..(horizon_ns - 1), sz : Int]

Packets == [ts : 0..(horizon_ns - 1), sz : 1..Mtu]

LEMMA Constants ==
    /\ Grain \in Nat \ {0} /\ DeltaBin \in Nat \ {0} /\ MyBins \in Nat \ {0}
    /\ Mtu \in Nat \ {0} /\ MinBytes \in Nat \ {0} /\ MaxBytes \in Nat \ {0}
    /\ NsPerByte \in Nat \ {0}
    /\ MinBytes <= Mtu /\ MinBytes <= MaxBytes
  BY TracePacketsAssumption

LEMMA Products ==
    ASSUME NEW x \in Nat \ {0}, NEW y \in Nat \ {0}
    PROVE  x * y \in Nat \ {0}
  <1>1. 0 * y < x * y
    BY StrictlyMonotone
  <1> QED
    BY <1>1

LEMMA HorizonType == horizon_ns \in Nat \ {0} /\ Gap \in Nat \ {0}
  <1>1. DeltaBin * MyBins \in Nat \ {0} /\ Mtu * NsPerByte \in Nat \ {0}
    BY Constants, Products
  <1> QED
    BY <1>1 DEF horizon_ns, Gap

LEMMA PacketsType ==
    ASSUME NEW x \in Packets
    PROVE  x.ts \in Nat /\ x.ts < horizon_ns /\ x.sz \in Nat /\ 1 <= x.sz /\ x.sz <= Mtu
  BY HorizonType, Constants DEF Packets

LEMMA TimelineFacts ==
    ASSUME NEW p \in Seq(Packets)
    PROVE  /\ Len(p) \in Nat /\ DOMAIN p = 1..Len(p)
           /\ \A k \in 1..Len(p) :
                 /\ p[k] \in Packets /\ p[k].ts \in Nat /\ p[k].ts < horizon_ns
                 /\ p[k].sz \in Nat /\ p[k].sz <= Mtu
  <1>1. Len(p) \in Nat /\ DOMAIN p = 1..Len(p) /\ \A k \in 1..Len(p) : p[k] \in Packets
    OBVIOUS
  <1> QED
    BY <1>1, PacketsType

LEMMA AnyType ==
    /\ \A x \in AnyPackets : /\ x.ts \in Nat /\ x.ts < horizon_ns
                              /\ x.ts \in Int /\ x.sz \in Int
    /\ Seq(Packets) \subseteq Seq(AnyPackets)
  <1>1. ASSUME NEW x \in AnyPackets
        PROVE  x.ts \in Nat /\ x.ts < horizon_ns /\ x.ts \in Int /\ x.sz \in Int
    BY HorizonType DEF AnyPackets
  <1>2. Packets \subseteq AnyPackets
    BY Constants DEF Packets, AnyPackets
  <1> QED
    BY <1>1, <1>2

LEMMA AnyTimeline ==
    ASSUME NEW p \in Seq(AnyPackets)
    PROVE  /\ Len(p) \in Nat /\ DOMAIN p = 1..Len(p)
           /\ \A k \in 1..Len(p) :
                 p[k] \in AnyPackets /\ p[k].ts \in Nat /\ p[k].ts < horizon_ns
  <1>1. Len(p) \in Nat /\ DOMAIN p = 1..Len(p) /\ \A k \in 1..Len(p) : p[k] \in AnyPackets
    OBVIOUS
  <1> QED
    BY <1>1, AnyType

-----------------------------------------------------------------------------
(* The bytes of timelines.                                                 *)
LEMMA BytesSum ==
    ASSUME NEW p \in Seq(Packets)
    PROVE  /\ Bytes(p) = SumFunctionOnSet([k \in 1..Len(p) |-> p[k].sz], 1..Len(p))
           /\ Bytes(p) \in Nat
  <1>1. /\ Len(p) \in Nat /\ DOMAIN p = 1..Len(p)
        /\ \A k \in 1..Len(p) : p[k].sz \in Nat
    BY TimelineFacts
  <1>2. \A x \in Packets : x.sz \in Int
    BY PacketsType
  <1>3. Bytes(p) = SumFunctionOnSet([k \in DOMAIN p |-> p[k].sz], DOMAIN p)
    BY <1>2, BytesAre
  <1>4. IsFiniteSet(1..Len(p))
    <2>1. Len(p) \in Int /\ 1 \in Int
      BY <1>1
    <2> QED
      BY <2>1, FS_Interval, Zenon
  <1> DEFINE f == [k \in 1..Len(p) |-> p[k].sz]
  <1>5. \A k \in 1..Len(p) : f[k] \in Nat
    BY <1>1
  <1> HIDE DEF f
  <1>6. SumFunctionOnSet(f, 1..Len(p)) \in Nat
    BY <1>4, <1>5, SumNatural
  <1> QED
    BY <1>1, <1>3, <1>6 DEF f

LEMMA BytesEmpty == Bytes(<< >>) = 0
  <1>1. << >> \in Seq(Packets) /\ 1..Len(<< >>) = {}
    OBVIOUS
  <1> QED
    BY <1>1, BytesSum, SumOverNothing

LEMMA BytesConcat ==
    ASSUME NEW p \in Seq(Packets), NEW q \in Seq(Packets)
    PROVE  Bytes(p \o q) = Bytes(p) + Bytes(q)
  <1> DEFINE m == Len(p)
             n == Len(q)
             f == [k \in 1..m |-> p[k].sz]
             g == [k \in 1..n |-> q[k].sz]
             h == [k \in 1..(m + n) |-> (p \o q)[k].sz]
  <1>1. m \in Nat /\ n \in Nat
    BY TimelineFacts
  <1>2. p \o q \in Seq(Packets) /\ Len(p \o q) = m + n
    OBVIOUS
  <1>3. \A k \in 1..m : f[k] \in Int /\ h[k] = f[k]
    <2> TAKE k \in 1..m
    <2>1. k \in 1..(m + n) /\ (p \o q)[k] = p[k] /\ p[k].sz \in Nat
      BY <1>1, TimelineFacts
    <2> QED
      BY <2>1
  <1>4. \A k \in 1..n : g[k] \in Int /\ h[m + k] = g[k]
    <2> TAKE k \in 1..n
    <2>1. m + k \in 1..(m + n) /\ (p \o q)[m + k] = q[k] /\ q[k].sz \in Nat
      BY <1>1, TimelineFacts
    <2> QED
      BY <2>1
  <1>5. Bytes(p \o q) = SumFunctionOnSet(h, 1..(m + n))
    BY <1>2, BytesSum
  <1>6. Bytes(p) = SumFunctionOnSet(f, 1..m) /\ Bytes(q) = SumFunctionOnSet(g, 1..n)
    BY BytesSum
  <1> HIDE DEF f, g, h, m, n
  <1> QED
    BY <1>1, <1>3, <1>4, <1>5, <1>6, SumConcat

(* Full packets and a last one.                                            *)
LEMMA BytesRun ==
    ASSUME NEW p \in Seq(Packets), p # << >>,
           \A k \in 1..(Len(p) - 1) : p[k].sz = Mtu
    PROVE  Bytes(p) = (Len(p) - 1) * Mtu + p[Len(p)].sz
  <1> DEFINE n == Len(p) - 1
             f == [k \in 1..Len(p) |-> p[k].sz]
  <1>1. n \in Nat /\ Len(p) = n + 1
    OBVIOUS
  <1>2. \A k \in 1..(n + 1) : f[k] = p[k].sz /\ f[k] \in Nat
    BY <1>1, TimelineFacts
  <1>3. Bytes(p) = SumFunctionOnSet(f, 1..(n + 1))
    BY <1>1, BytesSum
  <1> HIDE DEF f
  <1>4. \A k \in 1..n : f[k] = Mtu
    BY <1>1, <1>2
  <1> HIDE DEF n
  <1>5. SumFunctionOnSet(f, 1..(n + 1)) = SumFunctionOnSet(f, 1..n) + f[n + 1]
    BY <1>1, <1>2, SumLast
  <1>6. IsFiniteSet(1..n) /\ Cardinality(1..n) = n /\ Mtu \in Int
    BY <1>1, FS_Interval, Constants, 1 \in Int
  <1>7. SumFunctionOnSet(f, 1..n) = n * Mtu
    BY <1>4, <1>6, SumConstant
  <1>8. f[n + 1] = p[Len(p)].sz
    BY <1>1, <1>2
  <1>9. Bytes(p) = n * Mtu + p[Len(p)].sz
    BY <1>3, <1>5, <1>7, <1>8
  <1> QED
    BY <1>9 DEF n

-----------------------------------------------------------------------------
(* Spaced timelines, and the sizes and instants of a message.              *)

(* Packets come at least gap apart.                                        *)
Spaced(p, gap) == \A k \in 1..(Len(p) - 1) : p[k + 1].ts - p[k].ts >= gap

LEMMA SpacedRising ==
    ASSUME NEW p \in Seq(AnyPackets), NEW gap \in Nat, Spaced(p, gap)
    PROVE  Rising(p)
  <1> DEFINE N == {d \in Nat : \A i, j \in 1..Len(p) :
                      j = i + d => p[i].ts <= p[j].ts}
  <1>1. /\ Len(p) \in Nat /\ DOMAIN p = 1..Len(p)
        /\ \A k \in 1..Len(p) : p[k].ts \in Nat
    BY AnyTimeline
  <1>2. 0 \in N
    BY <1>1
  <1>3. ASSUME NEW d \in Nat, d \in N PROVE d + 1 \in N
    <2> SUFFICES ASSUME NEW i \in 1..Len(p), NEW j \in 1..Len(p), j = i + (d + 1)
                 PROVE  p[i].ts <= p[j].ts
      OBVIOUS
    <2>1. j - 1 \in 1..(Len(p) - 1) /\ j - 1 \in 1..Len(p) /\ j - 1 = i + d
          /\ (j - 1) + 1 = j
      BY <1>1
    <2>2. p[i].ts <= p[j - 1].ts
      BY <1>3, <2>1
    <2>3. p[j].ts - p[j - 1].ts >= gap
      BY <2>1 DEF Spaced
    <2>4. p[i].ts \in Nat /\ p[j].ts \in Nat /\ p[j - 1].ts \in Nat
      BY <1>1, <2>1
    <2> QED
      BY <2>2, <2>3, <2>4
  <1> HIDE DEF N
  <1>4. Nat \subseteq N
    BY <1>2, <1>3, Induction
  <1>5. ASSUME NEW i \in 1..Len(p), NEW j \in 1..Len(p), i < j
        PROVE  p[i].ts <= p[j].ts
    <2>1. j - i \in N
      BY <1>1, <1>4, <1>5
    <2>2. i + (j - i) = j
      BY <1>1
    <2> QED
      BY <2>1, <2>2 DEF N
  <1> QED
    BY <1>1, <1>5 DEF Rising

LEMMA RisingSpaced ==
    ASSUME NEW p \in Seq(AnyPackets), Rising(p)
    PROVE  Spaced(p, 0)
  <1>1. /\ Len(p) \in Nat /\ DOMAIN p = 1..Len(p)
        /\ \A k \in 1..Len(p) : p[k].ts \in Nat
    BY AnyTimeline
  <1> SUFFICES ASSUME NEW k \in 1..(Len(p) - 1) PROVE p[k + 1].ts - p[k].ts >= 0
    BY DEF Spaced
  <1>2. k \in 1..Len(p) /\ k + 1 \in 1..Len(p) /\ k < k + 1
    BY <1>1
  <1> QED
    BY <1>1, <1>2 DEF Rising

(* Places that are taken from the first on are those up to their number.   *)
LEMMA Prefix ==
    ASSUME NEW n \in Nat, NEW K \in SUBSET (1..n),
           \A i \in K : \A j \in 1..n : j < i => j \in K
    PROVE  K = 1..Cardinality(K) /\ Cardinality(K) \in 0..n
  <1>1. CASE K = {}
    BY <1>1, FS_EmptySet
  <1>2. CASE K # {}
    <2>1. PICK m \in K : \A i \in K : m >= i
      BY <1>2, GreatestElement
    <2>2. m \in 1..n /\ K \subseteq 1..m
      BY <2>1
    <2>3. 1..m \subseteq K
      <3> SUFFICES ASSUME NEW j \in 1..m, j # m PROVE j \in K
        OBVIOUS
      <3>1. j \in 1..n /\ j < m
        BY <2>2
      <3> QED
        BY <3>1
    <2>4. Cardinality(1..m) = m
      BY <2>2, FS_Interval, 1 \in Int, m \in Int
    <2>5. K = 1..m
      BY <2>2, <2>3
    <2> QED
      BY <2>2, <2>4, <2>5
  <1> QED
    BY <1>1, <1>2

-----------------------------------------------------------------------------
(* A message: its packets carry its bytes, the last one what remains.      *)
LEMMA MessageSizes ==
    ASSUME NEW size \in Nat, MinBytes * Grain <= size
    PROVE  /\ PacketCount(size) \in Nat \ {0}
           /\ LastSize(size) \in 1..Mtu
           /\ (PacketCount(size) - 1) * Mtu + LastSize(size) = size \div Grain
  <1> DEFINE M == Mtu * Grain
             F == Full(size)
             r == size % M
             a == r \div Grain
             b == r % Grain
  <1>1. M \in Nat \ {0} /\ Grain \in Nat \ {0} /\ Mtu \in Nat \ {0}
        /\ MinBytes \in Nat \ {0} /\ MinBytes <= Mtu
    BY Constants, Products
  <1> HIDE DEF M
  <1>2. size = M * F + r /\ r \in 0..(M - 1) /\ F \in Nat
    <2>1. size = M * (size \div M) + (size % M) /\ size % M \in 0..(M - 1)
          /\ size \div M \in Nat
      BY <1>1, DivMod
    <2>2. F = size \div M
      BY DEF Full, M
    <2> QED
      BY <2>1, <2>2
  <1> HIDE DEF F, r
  <1>3. r = Grain * a + b /\ b \in 0..(Grain - 1) /\ a \in Nat
    <2>1. r \in Nat
      BY <1>1, <1>2
    <2> QED
      BY <1>1, <2>1, DivMod
  <1>4. a < Mtu
    <2>1. r < Mtu * Grain /\ r \in Nat
      BY <1>1, <1>2 DEF M
    <2> QED
      BY <1>1, <2>1, DivBelow
  <1>5. F = 0 => a >= MinBytes
    <2> SUFFICES ASSUME F = 0, a < MinBytes PROVE FALSE
      BY <1>1, <1>3
    <2>1. r = size /\ r \in Nat
      BY <1>1, <1>2
    <2>2. r < MinBytes * Grain
      BY <1>1, <2>1, DivBelow
    <2>3. MinBytes * Grain \in Nat
      BY <1>1
    <2> QED
      BY <2>1, <2>2, <2>3
  <1>6. (size - F * Mtu * Grain) = r
    <2>1. F * Mtu * Grain = M * F
      BY <1>1, <1>2 DEF M
    <2>2. M * F \in Nat
      BY <1>1, <1>2
    <2> QED
      BY <1>1, <1>2, <2>1, <2>2
  <1> HIDE DEF a, b
  <1>7. Remainder(size) = a
    <2>1. Remainder(size) = IF F = 0 /\ a < MinBytes THEN MinBytes ELSE a
      BY <1>6 DEF Remainder, F, a
    <2> QED
      BY <1>1, <1>3, <1>5, <2>1
  <1>8. size \div Grain = F * Mtu + a
    <2>1. Grain * (F * Mtu + a) = M * F + Grain * a
      BY <1>1, <1>2, <1>3 DEF M
    <2>2. F * Mtu \in Nat /\ M * F \in Nat /\ Grain * a \in Nat
      BY <1>1, <1>2, <1>3
    <2> DEFINE q == F * Mtu + a
    <2>3. q \in Nat
      BY <1>3, <2>2
    <2>4. Grain * q <= size /\ size < Grain * q + Grain
      BY <1>1, <1>2, <1>3, <2>1, <2>2
    <2> HIDE DEF q
    <2>5. size \div Grain = q
      BY <1>1, <2>3, <2>4, DivIs
    <2> QED
      BY <2>5 DEF q
  <1>9. F * Mtu \in Nat /\ (F + 1 - 1) * Mtu = F * Mtu
        /\ (F - 1) * Mtu + Mtu = F * Mtu
    BY <1>1, <1>2
  <1>10. CASE a > 0
    <2>1. PacketCount(size) = F + 1 /\ LastSize(size) = a
      BY <1>7, <1>10 DEF PacketCount, LastSize, F
    <2>2. PacketCount(size) \in Nat \ {0} /\ LastSize(size) \in 1..Mtu
      BY <1>1, <1>2, <1>3, <1>4, <1>10, <2>1
    <2>3. (PacketCount(size) - 1) * Mtu = F * Mtu
      BY <1>2, <1>9, <2>1
    <2> QED
      BY <1>8, <2>1, <2>2, <2>3
  <1>11. CASE a = 0
    <2>1. PacketCount(size) = F + 0 /\ LastSize(size) = Mtu
      BY <1>7, <1>11 DEF PacketCount, LastSize, F
    <2>2. F # 0
      BY <1>1, <1>5, <1>11
    <2> QED
      BY <1>1, <1>2, <1>8, <1>9, <1>11, <2>1, <2>2
  <1> QED
    BY <1>3, <1>10, <1>11

LEMMA Stamps ==
    ASSUME NEW from \in Nat, NEW i \in Nat \ {0}
    PROVE  /\ Stamp(from, i) \in Nat
           /\ Gap \div Grain \in Nat
           /\ Stamp(from, i) + Gap \div Grain <= Stamp(from, i + 1)
           /\ Stamp(from, i + 1) <= Stamp(from, i) + Gap \div Grain + 1
  <1>1. Gap \in Nat \ {0} /\ Grain \in Nat \ {0}
    BY HorizonType, Constants
  <1> DEFINE x == from + (i - 1) * Gap
  <1>2. x \in Nat
    BY <1>1, i - 1 \in Nat
  <1>3. from + ((i + 1) - 1) * Gap = x + Gap
    <2>1. ((i + 1) - 1) * Gap = (i - 1) * Gap + Gap
      BY <1>1
    <2> QED
      BY <1>1, <2>1
  <1> HIDE DEF x
  <1>4. /\ x \div Grain + Gap \div Grain <= (x + Gap) \div Grain
        /\ (x + Gap) \div Grain <= x \div Grain + Gap \div Grain + 1
    BY <1>1, <1>2, DivSum
  <1>5. x \div Grain \in Nat /\ Gap \div Grain \in Nat
    BY <1>1, <1>2, DivMod
  <1>6. Stamp(from, i) = x \div Grain /\ Stamp(from, i + 1) = (x + Gap) \div Grain
    BY <1>3 DEF Stamp, x
  <1> QED
    BY <1>4, <1>5, <1>6

LEMMA StampsGrow ==
    ASSUME NEW from \in Nat, NEW i \in Nat \ {0}, NEW j \in Nat \ {0}, i <= j
    PROVE  Stamp(from, i) <= Stamp(from, j)
  <1>1. Gap \in Nat \ {0} /\ Grain \in Nat \ {0}
    BY HorizonType, Constants
  <1> DEFINE x == from + (i - 1) * Gap
             y == from + (j - 1) * Gap
  <1>2. (i - 1) * Gap <= (j - 1) * Gap
    BY <1>1, i - 1 \in Nat, j - 1 \in Nat, Monotone
  <1>3. (i - 1) * Gap \in Nat /\ (j - 1) * Gap \in Nat
    BY <1>1, i - 1 \in Nat, j - 1 \in Nat, NatProducts
  <1>4. x \in Nat /\ y \in Nat /\ x <= y
    BY <1>2, <1>3
  <1> HIDE DEF x, y
  <1>5. x \div Grain <= y \div Grain
    BY <1>1, <1>4, DivMonotone
  <1> QED
    BY <1>5 DEF Stamp, x, y

(* A timeline p of what was to be bytes: no more, and all of it if there   *)
(* was time for another packet.                                            *)
Budgeted(p, bytes) ==
    Bytes(p) <= bytes /\ (Room(p) => Bytes(p) = bytes)

LEMMA MessageTimeline ==
    ASSUME NEW from \in Nat, NEW size \in Nat, MinBytes * Grain <= size
    PROVE  /\ BackToBack(from, size) \in Seq(Packets)
           /\ Spaced(BackToBack(from, size), Gap \div Grain)
           /\ BackToBack(from, size) # << >> =>
                 /\ BackToBack(from, size)[1].ts = from \div Grain
                 /\ BackToBack(from, size)[Len(BackToBack(from, size))].ts + Gap \div Grain
                      <= (from + PacketCount(size) * Gap) \div Grain
           /\ Bytes(BackToBack(from, size)) <= size \div Grain
           /\ from < horizon_ns * Grain =>
                 /\ BackToBack(from, size) # << >>
                 /\ Budgeted(BackToBack(from, size), size \div Grain)
  <1> DEFINE p == BackToBack(from, size)
             n == PacketCount(size)
             K == {i \in 1..n : Stamp(from, i) < horizon_ns}
             m == Cardinality(K)
             last == LastSize(size)
             gap == Gap \div Grain
  <1>1. /\ n \in Nat \ {0} /\ last \in 1..Mtu /\ (n - 1) * Mtu + last = size \div Grain
        /\ horizon_ns \in Nat \ {0} /\ Grain \in Nat \ {0} /\ Mtu \in Nat \ {0}
    BY MessageSizes, HorizonType, Constants
  <1>2. \A i \in Nat \ {0} :
           /\ Stamp(from, i) \in Nat /\ gap \in Nat
           /\ Stamp(from, i) + gap <= Stamp(from, i + 1)
           /\ Stamp(from, i + 1) <= Stamp(from, i) + gap + 1
    BY Stamps
  <1>3. K = 1..m /\ m \in 0..n
    <2>1. \A i \in K : \A j \in 1..n : j < i => j \in K
      <3> SUFFICES ASSUME NEW i \in K, NEW j \in 1..n, j < i PROVE j \in K
        OBVIOUS
      <3>1. Stamp(from, j) <= Stamp(from, i)
        BY <1>1, StampsGrow
      <3>2. Stamp(from, j) \in Nat /\ Stamp(from, i) \in Nat
        BY <1>1, <1>2
      <3> QED
        BY <1>1, <3>1, <3>2
    <2>2. n \in Nat /\ K \in SUBSET (1..n)
      BY <1>1
    <2> HIDE DEF K, n
    <2> QED
      BY <2>1, <2>2, Prefix
  <1>4. p = [i \in 1..m |-> Packet(Stamp(from, i), IF i = n THEN last ELSE Mtu)]
    BY DEF BackToBack
  <1>5. \A i \in 1..m : Stamp(from, i) < horizon_ns
    BY <1>3
  <1>6. m < n => Stamp(from, m + 1) >= horizon_ns
    <2> SUFFICES ASSUME m < n PROVE ~(Stamp(from, m + 1) < horizon_ns)
      <3>1. Stamp(from, m + 1) \in Nat
        BY <1>2, <1>3
      <3> QED
        BY <1>1, <3>1
    <2>1. m + 1 \in 1..n /\ m + 1 \notin 1..m
      BY <1>1, <1>3
    <2> QED
      BY <1>3, <2>1
  <1> HIDE DEF p, n, K, m, last
  <1>7. \A i \in 1..m : /\ p[i].ts = Stamp(from, i)
                        /\ p[i].sz = IF i = n THEN last ELSE Mtu
                        /\ p[i] \in Packets
    <2> SUFFICES ASSUME NEW i \in 1..m
                 PROVE  /\ p[i].ts = Stamp(from, i)
                        /\ p[i].sz = IF i = n THEN last ELSE Mtu
                        /\ p[i] \in Packets
      OBVIOUS
    <2> DEFINE z == IF i = n THEN last ELSE Mtu
    <2>1. z \in 1..Mtu
      BY <1>1
    <2>2. Stamp(from, i) \in 0..(horizon_ns - 1)
      <3>1. i \in Nat \ {0}
        BY <1>3
      <3>2. Stamp(from, i) \in Nat /\ Stamp(from, i) < horizon_ns
        BY <1>2, <1>5, <3>1
      <3> QED
        BY <1>1, <3>2
    <2>3. p[i] = [ts |-> Stamp(from, i), sz |-> z]
      BY <1>4 DEF Packet
    <2> HIDE DEF z
    <2>4. p[i].ts = Stamp(from, i) /\ p[i].sz = z /\ p[i] \in Packets
      BY <2>1, <2>2, <2>3 DEF Packets
    <2> QED
      BY <2>4 DEF z
  <1>8. p \in Seq(Packets) /\ Len(p) = m
    <2>1. m \in Nat /\ DOMAIN p = 1..m /\ p = [i \in 1..m |-> p[i]]
      BY <1>3, <1>4
    <2> QED
      BY <1>7, <2>1, IsSeq
  <1>9. Spaced(p, gap)
    <2> SUFFICES ASSUME NEW k \in 1..(m - 1) PROVE p[k + 1].ts - p[k].ts >= gap
      BY <1>8 DEF Spaced
    <2>1. k \in 1..m /\ k + 1 \in 1..m /\ k \in Nat \ {0} /\ k + 1 \in Nat \ {0}
      BY <1>3
    <2>2. Stamp(from, k) + gap <= Stamp(from, k + 1)
          /\ Stamp(from, k) \in Nat /\ Stamp(from, k + 1) \in Nat /\ gap \in Nat
      BY <1>2, <2>1
    <2>3. p[k].ts = Stamp(from, k) /\ p[k + 1].ts = Stamp(from, k + 1)
      BY <1>7, <2>1
    <2> HIDE DEF gap
    <2> QED
      BY <2>2, <2>3
  <1>10. p # << >> => m # 0
    BY <1>8
  <1>11. ASSUME m # 0
         PROVE  /\ p[1].ts = from \div Grain
                /\ p[m].ts + gap <= (from + n * Gap) \div Grain
    <2>1. 1 \in 1..m /\ m \in 1..m /\ m \in Nat \ {0} /\ m <= n
      BY <1>1, <1>3, <1>11
    <2>2. Stamp(from, 1) = from \div Grain
      <3>1. Gap \in Nat
        BY HorizonType
      <3>2. from + (1 - 1) * Gap = from
        BY <3>1
      <3> QED
        BY <3>2 DEF Stamp
    <2>3. Stamp(from, m) <= Stamp(from, n) /\ Stamp(from, m) \in Nat
      BY <1>1, <1>2, <2>1, StampsGrow
    <2>4. Stamp(from, n + 1) = (from + n * Gap) \div Grain
      <3>1. (n + 1) - 1 = n
        BY <1>1
      <3> QED
        BY <3>1 DEF Stamp
    <2>5. /\ Stamp(from, n) + gap <= Stamp(from, n + 1)
          /\ Stamp(from, n) \in Nat /\ Stamp(from, n + 1) \in Nat /\ gap \in Nat
      <3>1. n + 1 \in Nat \ {0}
        BY <1>1
      <3> QED
        BY <1>1, <1>2, <3>1
    <2>6. p[1].ts = Stamp(from, 1) /\ p[m].ts = Stamp(from, m)
      BY <1>7, <2>1
    <2> HIDE DEF gap
    <2>7. p[m].ts + gap <= Stamp(from, n + 1)
      BY <2>3, <2>5, <2>6
    <2> QED
      BY <2>2, <2>4, <2>6, <2>7
  <1>12. m = 0 => Bytes(p) = 0
    <2> SUFFICES ASSUME m = 0 PROVE Bytes(p) = 0
      OBVIOUS
    <2>1. p = << >>
      BY <1>8
    <2> QED
      BY <2>1, BytesEmpty
  <1>13. m # 0 => Bytes(p) = (m - 1) * Mtu + (IF m = n THEN last ELSE Mtu)
    <2> SUFFICES ASSUME m # 0
                 PROVE  Bytes(p) = (m - 1) * Mtu + (IF m = n THEN last ELSE Mtu)
      OBVIOUS
    <2>1. p # << >> /\ m \in 1..m
      BY <1>3, <1>8
    <2>2. \A k \in 1..(m - 1) : k \in 1..m /\ k # n
      BY <1>1, <1>3
    <2>3. \A k \in 1..(Len(p) - 1) : p[k].sz = Mtu
      BY <1>7, <1>8, <2>2
    <2>4. Bytes(p) = (Len(p) - 1) * Mtu + p[Len(p)].sz
      BY <1>8, <2>1, <2>3, BytesRun
    <2>5. p[m].sz = IF m = n THEN last ELSE Mtu
      BY <1>7, <2>1
    <2> QED
      BY <1>8, <2>4, <2>5
  <1>14. m = n => Bytes(p) = size \div Grain
    BY <1>1, <1>13
  <1>15. m # n => Bytes(p) <= size \div Grain
    <2> SUFFICES ASSUME m # n PROVE Bytes(p) <= size \div Grain
      OBVIOUS
    <2>1. m * Mtu <= (n - 1) * Mtu /\ m * Mtu \in Nat /\ (n - 1) * Mtu \in Nat
      <3>1. m \in Nat /\ n - 1 \in Nat /\ m <= n - 1
        BY <1>1, <1>3
      <3> QED
        BY <1>1, <3>1, Monotone, NatProducts
    <2>2. m # 0 => (m - 1) * Mtu + Mtu = m * Mtu
      BY <1>1, <1>3
    <2>3. m # 0 => Bytes(p) = m * Mtu
      BY <1>13, <2>2
    <2> QED
      BY <1>1, <1>12, <2>1, <2>3
  <1>16. Bytes(p) <= size \div Grain
    <2>1. Bytes(p) \in Nat
      BY <1>8, BytesSum
    <2> QED
      BY <1>14, <1>15, <2>1
  <1>17. ASSUME from < horizon_ns * Grain
         PROVE  p # << >> /\ Budgeted(p, size \div Grain)
    <2>1. m # 0
      <3> SUFFICES ASSUME m = 0 PROVE FALSE
        OBVIOUS
      <3>1. from \div Grain < horizon_ns
        BY <1>1, <1>17, DivBelow
      <3>2. Stamp(from, 1) >= horizon_ns
        BY <1>1, <1>6
      <3>3. Stamp(from, 1) = from \div Grain
        <4>1. Gap \in Nat
          BY HorizonType
        <4>2. from + (1 - 1) * Gap = from
          BY <4>1
        <4> QED
          BY <4>2 DEF Stamp
      <3>4. from \div Grain \in Nat
        BY <1>1, DivMod
      <3> QED
        BY <1>1, <3>1, <3>2, <3>3, <3>4
    <2>2. p # << >>
      BY <1>8, <2>1
    <2>3. m # n => ~Room(p)
      <3> SUFFICES ASSUME m # n, p[m].ts + gap + 1 < horizon_ns PROVE FALSE
        BY <1>8, <2>2 DEF Room
      <3>1. m \in 1..m /\ m \in Nat \ {0} /\ m < n
        BY <1>1, <1>3, <2>1
      <3>2. Stamp(from, m + 1) >= horizon_ns
        BY <1>6, <3>1
      <3>3. /\ Stamp(from, m + 1) <= Stamp(from, m) + gap + 1 /\ Stamp(from, m) \in Nat
            /\ Stamp(from, m + 1) \in Nat /\ gap \in Nat
        <4>1. m + 1 \in Nat \ {0}
          BY <3>1
        <4> QED
          BY <1>2, <3>1, <4>1
      <3>4. p[m].ts = Stamp(from, m)
        BY <1>7, <3>1
      <3> HIDE DEF gap
      <3> QED
        BY <1>1, <3>2, <3>3, <3>4
    <2> QED
      BY <1>14, <1>16, <2>2, <2>3 DEF Budgeted
  <1>18. /\ p \in Seq(Packets)
         /\ Spaced(p, gap)
         /\ p # << >> => /\ p[1].ts = from \div Grain
                         /\ p[Len(p)].ts + gap <= (from + n * Gap) \div Grain
         /\ Bytes(p) <= size \div Grain
         /\ from < horizon_ns * Grain => p # << >> /\ Budgeted(p, size \div Grain)
    BY <1>8, <1>9, <1>10, <1>11, <1>16, <1>17
  <1> QED
    BY <1>18 DEF p, n

LastStamp(p) == p[Len(p)].ts

LEMMA SpacedConcat ==
    ASSUME NEW p \in Seq(Packets), NEW q \in Seq(Packets), NEW gap \in Nat,
           Spaced(p, gap), Spaced(q, gap),
           p # << >> /\ q # << >> => LastStamp(p) + gap <= q[1].ts
    PROVE  p \o q \in Seq(Packets) /\ Spaced(p \o q, gap)
  <1> DEFINE m == Len(p)
             n == Len(q)
             r == p \o q
  <1>1. /\ m \in Nat /\ n \in Nat /\ r \in Seq(Packets) /\ Len(r) = m + n
        /\ \A k \in 1..m : p[k].ts \in Nat /\ r[k] = p[k]
        /\ \A k \in 1..n : q[k].ts \in Nat /\ r[m + k] = q[k]
    <2>1. m \in Nat /\ n \in Nat /\ r \in Seq(Packets) /\ Len(r) = m + n
      OBVIOUS
    <2>2. \A k \in 1..m : r[k] = p[k]
      OBVIOUS
    <2>3. \A k \in 1..n : r[m + k] = q[k]
      OBVIOUS
    <2> QED
      BY <2>1, <2>2, <2>3, TimelineFacts
  <1>2. p = << >> <=> m = 0
    OBVIOUS
  <1>3. q = << >> <=> n = 0
    OBVIOUS
  <1>4. /\ \A k \in 1..(m - 1) : p[k + 1].ts - p[k].ts >= gap
        /\ \A k \in 1..(n - 1) : q[k + 1].ts - q[k].ts >= gap
        /\ m # 0 /\ n # 0 => p[m].ts + gap <= q[1].ts
    BY <1>2, <1>3 DEF Spaced, LastStamp
  <1> HIDE DEF m, n, r
  <1>5. ASSUME NEW k \in 1..(m + n - 1) PROVE r[k + 1].ts - r[k].ts >= gap
    <2>1. CASE k < m
      <3>1. k \in 1..(m - 1) /\ k \in 1..m /\ k + 1 \in 1..m
        BY <1>1, <2>1
      <3> QED
        BY <1>1, <1>4, <3>1
    <2>2. CASE k = m
      <3>1. m \in 1..m /\ 1 \in 1..n /\ m # 0 /\ n # 0
        BY <1>1, <2>2
      <3>2. r[k + 1] = q[1] /\ r[k] = p[m] /\ q[1].ts \in Nat /\ p[m].ts \in Nat
        BY <1>1, <2>2, <3>1
      <3> QED
        BY <1>4, <3>1, <3>2
    <2>3. CASE k > m
      <3>1. k - m \in 1..(n - 1) /\ k - m \in 1..n /\ (k - m) + 1 \in 1..n
            /\ m + (k - m) = k /\ m + ((k - m) + 1) = k + 1
        BY <1>1, <2>3
      <3>2. r[k] = q[k - m] /\ r[k + 1] = q[(k - m) + 1]
        BY <1>1, <3>1
      <3> QED
        BY <1>4, <3>1, <3>2
    <2> QED
      BY <1>1, <2>1, <2>2, <2>3
  <1>6. Spaced(r, gap)
    BY <1>1, <1>5 DEF Spaced
  <1> QED
    BY <1>1, <1>6 DEF r

LEMMA LastOfConcat ==
    ASSUME NEW p \in Seq(Packets), NEW q \in Seq(Packets), q # << >>
    PROVE  p \o q # << >> /\ LastStamp(p \o q) = LastStamp(q)
  <1>1. Len(p) \in Nat /\ Len(q) \in Nat \ {0} /\ Len(p \o q) = Len(p) + Len(q)
    OBVIOUS
  <1>2. (p \o q)[Len(p) + Len(q)] = q[Len(q)]
    BY <1>1
  <1>3. p \o q # << >>
    BY <1>1
  <1> QED
    BY <1>1, <1>2, <1>3 DEF LastStamp

(* A connection: messages one after the other, each when the last one has  *)
(* been sent.                                                              *)
LEMMA NextMessage ==
    ASSUME NEW p \in Seq(Packets), NEW bytes \in Nat, Budgeted(p, bytes),
           Spaced(p, Gap \div Grain), NEW from \in Nat, from < horizon_ns * Grain,
           p # << >> => LastStamp(p) + Gap \div Grain <= from \div Grain,
           NEW size \in Nat, MinBytes * Grain <= size
    PROVE  LET r == p \o BackToBack(from, size)
           IN  /\ r \in Seq(Packets) /\ r # << >>
               /\ Spaced(r, Gap \div Grain)
               /\ Budgeted(r, bytes + size \div Grain)
               /\ LastStamp(r) + Gap \div Grain
                    <= (from + PacketCount(size) * Gap) \div Grain
  <1> DEFINE q == BackToBack(from, size)
             r == p \o q
             gap == Gap \div Grain
             whole == size \div Grain
             end == (from + PacketCount(size) * Gap) \div Grain
  <1>1. /\ q \in Seq(Packets) /\ Spaced(q, gap) /\ q # << >>
        /\ q[1].ts = from \div Grain /\ LastStamp(q) + gap <= end
        /\ Budgeted(q, whole)
    BY MessageTimeline DEF LastStamp
  <1>2. Grain \in Nat \ {0} /\ gap \in Nat /\ whole \in Nat /\ horizon_ns \in Nat
    BY Constants, HorizonType, DivMod
  <1> HIDE DEF q, gap, whole, end
  <1>3. r \in Seq(Packets) /\ Spaced(r, gap)
    BY <1>1, <1>2, SpacedConcat DEF gap
  <1>4. r # << >> /\ LastStamp(r) = LastStamp(q)
    BY <1>1, LastOfConcat
  <1>5. Bytes(r) = Bytes(p) + Bytes(q) /\ Bytes(p) \in Nat /\ Bytes(q) \in Nat
    BY <1>1, BytesConcat, BytesSum
  <1>6. Room(r) => Room(q) /\ Room(p)
    <2> SUFFICES ASSUME LastStamp(q) + gap + 1 < horizon_ns PROVE Room(q) /\ Room(p)
      BY <1>4 DEF Room, LastStamp, gap
    <2>1. Room(q)
      BY DEF Room, LastStamp, gap
    <2>2. p # << >> => LastStamp(p) <= LastStamp(q)
                       /\ LastStamp(p) \in Nat /\ LastStamp(q) \in Nat
      <3> SUFFICES ASSUME p # << >>
                   PROVE  LastStamp(p) <= LastStamp(q)
                          /\ LastStamp(p) \in Nat /\ LastStamp(q) \in Nat
        OBVIOUS
      <3>1. Len(p) \in 1..Len(p) /\ 1 \in 1..Len(q) /\ Len(q) \in 1..Len(q)
        <4>1. Len(p) \in Nat /\ Len(p) # 0
          OBVIOUS
        <4>2. Len(q) \in Nat /\ Len(q) # 0
          BY <1>1
        <4> QED
          BY <4>1, <4>2
      <3>2. Rising(q)
        BY <1>1, <1>2, AnyType, SpacedRising
      <3>3. DOMAIN q = 1..Len(q) /\ q[1].ts \in Nat /\ q[Len(q)].ts \in Nat
            /\ p[Len(p)].ts \in Nat
        BY <1>1, <3>1, TimelineFacts
      <3>4. q[1].ts <= q[Len(q)].ts
        <4>1. CASE Len(q) = 1
          BY <3>3, <4>1
        <4>2. CASE Len(q) # 1
          <5>1. 1 < Len(q)
            <6>1. Len(q) \in Nat /\ Len(q) # 0
              BY <1>1
            <6>2. \A n \in Nat : n # 0 /\ n # 1 => 1 < n
              OBVIOUS
            <6> QED
              BY <4>2, <6>1, <6>2, Zenon
          <5> QED
            BY <3>1, <3>2, <3>3, <5>1 DEF Rising
        <4> QED
          BY <4>1, <4>2
      <3>5. LastStamp(p) + gap <= q[1].ts
        BY <1>1 DEF gap
      <3>6. p[Len(p)].ts + gap <= q[1].ts
        BY <3>5 DEF LastStamp
      <3>7. p[Len(p)].ts <= q[Len(q)].ts
        BY <1>2, <3>3, <3>4, <3>6
      <3> QED
        BY <3>3, <3>7 DEF LastStamp
    <2>3. Room(p)
      <3> SUFFICES ASSUME p # << >> PROVE LastStamp(p) + gap + 1 < horizon_ns
        BY DEF Room, LastStamp, gap
      <3> QED
        BY <1>2, <2>2
    <2> QED
      BY <2>1, <2>3
  <1>7. Budgeted(r, bytes + whole)
    <2>1. Bytes(p) <= bytes /\ (Room(p) => Bytes(p) = bytes)
          /\ Bytes(q) <= whole /\ (Room(q) => Bytes(q) = whole)
      BY <1>1 DEF Budgeted
    <2>2. Bytes(r) <= bytes + whole
      BY <1>2, <1>5, <2>1
    <2>3. Room(r) => Bytes(r) = bytes + whole
      BY <1>5, <1>6, <2>1
    <2> QED
      BY <2>2, <2>3 DEF Budgeted
  <1> QED
    BY <1>1, <1>3, <1>4, <1>7 DEF gap, q, whole, end

-----------------------------------------------------------------------------
(* Timelines at a constant rate.                                           *)

FullPackets == [ts : 0..(horizon_ns - 1), sz : {Mtu}]

LEMMA FullFacts ==
    /\ \A x \in FullPackets : x \in Packets /\ x.ts \in Int /\ x.sz = Mtu
    /\ Seq(FullPackets) \subseteq Seq(Packets)
  <1>1. Mtu \in 1..Mtu
    BY Constants
  <1>2. \A x \in FullPackets : x \in Packets /\ x.ts \in Int /\ x.sz = Mtu
    BY <1>1, HorizonType DEF FullPackets, Packets
  <1> QED
    BY <1>2

(* A time clipped into from..to - 1 is a ns of that span.                  *)
LEMMA ClippedStamp ==
    ASSUME NEW from \in Nat, NEW to \in Nat, from < to, to <= horizon_ns,
           NEW x \in Int
    PROVE  Least(Greatest(x, from * Grain), (to - 1) * Grain) \div Grain
              \in 0..(horizon_ns - 1)
  <1> DEFINE y == Least(Greatest(x, from * Grain), (to - 1) * Grain)
             a == from * Grain
             b == (to - 1) * Grain
  <1>1. Grain \in Nat \ {0} /\ horizon_ns \in Nat \ {0} /\ to - 1 \in Nat
        /\ from <= to - 1 /\ to - 1 < to
    BY Constants, HorizonType
  <1>2. a \in Nat /\ b \in Nat /\ a <= b /\ b < to * Grain /\ to * Grain \in Nat
    BY <1>1, Monotone, StrictlyMonotone, NatProducts
  <1>3. y = Least(Greatest(x, a), b)
    OBVIOUS
  <1> HIDE DEF a, b, y
  <1>4. y \in Nat /\ y <= b
    BY <1>2, <1>3 DEF Least, Greatest
  <1>5. y < to * Grain
    BY <1>2, <1>4
  <1>6. y \div Grain < to
    BY <1>1, <1>4, <1>5, DivBelow
  <1>7. y \div Grain \in Nat
    BY <1>1, <1>4, DivMod
  <1>8. y \div Grain \in 0..(horizon_ns - 1)
    BY <1>1, <1>6, <1>7
  <1> QED
    BY <1>8 DEF y

LEMMA CbrTimeline ==
    ASSUME NEW from \in Nat, NEW to \in Nat, to <= horizon_ns,
           NEW interval \in Nat \ {0},
           NEW jitter \in [1..CbrCount(from, to, interval) -> Jitters]
    PROVE  Cbr(from, to, interval, jitter) \in Seq(FullPackets)
           /\ Rising(Cbr(from, to, interval, jitter))
  <1> DEFINE n == CbrCount(from, to, interval)
             base(i) == from * Grain + ((2 * i - 1) * interval) \div 2 + jitter[i]
             clip(x) == Least(Greatest(x, from * Grain), (to - 1) * Grain)
             p == [i \in 1..n |-> Packet(clip(base(i)) \div Grain, Mtu)]
  <1>1. Grain \in Nat \ {0} /\ Jitters \subseteq Int
    BY Constants, FlowSourcesAssumption
  <1>2. n \in Nat /\ (n # 0 => from < to)
    <2>1. CASE to <= from
      BY <2>1 DEF CbrCount
    <2>2. CASE ~(to <= from)
      <3>1. to - from \in Nat
        BY <2>2
      <3>2. (to - from) * Grain \in Nat
        BY <1>1, <3>1
      <3>3. ((to - from) * Grain) \div interval \in Nat
        BY <3>2, DivMod
      <3> QED
        BY <2>2, <3>3 DEF CbrCount
    <2> QED
      BY <2>1, <2>2
  <1>3. \A i \in 1..n : base(i) \in Int
    <2> SUFFICES ASSUME NEW i \in 1..n PROVE base(i) \in Int
      OBVIOUS
    <2>1. jitter[i] \in Int
      BY <1>1
    <2>2. 2 * i - 1 \in Nat
      BY <1>2
    <2>3. (2 * i - 1) * interval \in Nat
      BY <2>2
    <2>4. ((2 * i - 1) * interval) \div 2 \in Nat
      <3>1. \A z \in Nat : z \div 2 \in Nat
        OBVIOUS
      <3> QED
        BY <2>3, <3>1
    <2>5. from * Grain \in Nat
      BY <1>1
    <2> QED
      BY <2>1, <2>4, <2>5
  <1>4. \A i \in 1..n : p[i] \in FullPackets
    <2> SUFFICES ASSUME NEW i \in 1..n PROVE p[i] \in FullPackets
      OBVIOUS
    <2>1. base(i) \in Int /\ from < to
      BY <1>2, <1>3
    <2>2. clip(base(i)) \div Grain \in 0..(horizon_ns - 1)
      BY <2>1, ClippedStamp
    <2>3. p[i] = Packet(clip(base(i)) \div Grain, Mtu)
      OBVIOUS
    <2> HIDE DEF p, base, clip
    <2> QED
      BY <2>2, <2>3 DEF Packet, FullPackets
  <1>5. Cbr(from, to, interval, jitter) = InOrder(p)
    BY DEF Cbr
  <1>6. DOMAIN p = 1..n /\ p = [i \in 1..n |-> p[i]]
    OBVIOUS
  <1> HIDE DEF p, n
  <1>7. p \in Seq(FullPackets)
    BY <1>2, <1>4, <1>6, IsSeq
  <1>8. \A x \in FullPackets : x.ts \in Int
    BY FullFacts
  <1> QED
    BY <1>5, <1>7, <1>8, InOrderSorts

-----------------------------------------------------------------------------
(* Rounding up.                                                            *)
LEMMA Ceiling ==
    ASSUME NEW x \in Nat, NEW k \in Nat \ {0}
    PROVE  /\ CeilDiv(x, k) \in Nat
           /\ \A q \in Nat : CeilDiv(x, k) <= q <=> x <= q * k
           /\ \A q \in Nat : q < CeilDiv(x, k) <=> q * k < x
           /\ x \div k <= CeilDiv(x, k)
  <1>1. x + k - 1 \in Nat /\ x <= x + k - 1
    OBVIOUS
  <1>2. CeilDiv(x, k) \in Nat /\ x \div k <= CeilDiv(x, k)
    BY <1>1, DivMod, DivMonotone DEF CeilDiv
  <1>3. \A q \in Nat : CeilDiv(x, k) < q + 1 <=> x <= q * k
    <2> SUFFICES ASSUME NEW q \in Nat PROVE CeilDiv(x, k) < q + 1 <=> x <= q * k
      OBVIOUS
    <2>1. x + k - 1 < (q + 1) * k <=> (x + k - 1) \div k < q + 1
      BY <1>1, DivBelow
    <2>2. (q + 1) * k = q * k + k /\ q * k \in Nat
      OBVIOUS
    <2>3. x + k - 1 < q * k + k <=> x <= q * k
      BY <2>2
    <2> QED
      BY <2>1, <2>2, <2>3 DEF CeilDiv
  <1> DEFINE c == CeilDiv(x, k)
  <1> HIDE DEF c
  <1>4. c \in Nat /\ \A q \in Nat : c < q + 1 <=> x <= q * k
    BY <1>2, <1>3 DEF c
  <1>5. \A q \in Nat : (c <= q <=> c < q + 1) /\ (q < c <=> ~(c < q + 1))
    BY <1>4
  <1>6. \A q \in Nat : (q * k < x) <=> ~(x <= q * k)
    OBVIOUS
  <1>7. /\ \A q \in Nat : c <= q <=> x <= q * k
        /\ \A q \in Nat : q < c <=> q * k < x
    BY <1>4, <1>5, <1>6
  <1> QED
    BY <1>2, <1>7 DEF c

LEMMA Rounding ==
    ASSUME NEW x \in Nat
    PROVE  Round(x) \in Nat /\ Round(x) <= CeilDiv(x, Grain)
  <1>1. Grain \in Nat \ {0}
    BY Constants
  <1> DEFINE q == x \div Grain
             r == x % Grain
             c == CeilDiv(x, Grain)
  <1>2. q \in Nat /\ r \in Nat /\ x = Grain * q + r
    BY <1>1, DivMod
  <1>3. c \in Nat /\ q <= c /\ (q < c <=> q * Grain < x)
    BY <1>1, <1>2, Ceiling
  <1>4. Round(x) = IF 2 * r > Grain \/ (2 * r = Grain /\ q % 2 = 1) THEN q + 1 ELSE q
    BY DEF Round
  <1> HIDE DEF q, r, c
  <1>5. CASE r = 0
    <2>1. Round(x) = q
      BY <1>1, <1>4, <1>5
    <2> QED
      BY <1>2, <1>3, <2>1 DEF c
  <1>6. CASE r # 0
    <2>1. q * Grain < x
      <3>1. q * Grain = Grain * q /\ q * Grain \in Nat
        BY <1>1, <1>2
      <3> QED
        BY <1>2, <1>6, <3>1
    <2>2. q + 1 <= c
      BY <1>2, <1>3, <2>1
    <2> QED
      BY <1>2, <1>3, <1>4, <2>2 DEF c
  <1> QED
    BY <1>5, <1>6

LEMMA BytesFull ==
    ASSUME NEW p \in Seq(FullPackets)
    PROVE  Bytes(p) = Len(p) * Mtu
  <1>1. p \in Seq(Packets) /\ Len(p) \in Nat /\ \A k \in 1..Len(p) : p[k].sz = Mtu
    <2>1. \A k \in 1..Len(p) : p[k] \in FullPackets
      OBVIOUS
    <2> QED
      BY <2>1, FullFacts
  <1>2. CASE p = << >>
    BY <1>2, BytesEmpty, Constants
  <1>3. CASE p # << >>
    <2> DEFINE n == Len(p)
    <2>1. n \in Nat \ {0} /\ Mtu \in Nat
      BY <1>3, Constants
    <2>2. Bytes(p) = (n - 1) * Mtu + p[n].sz
      BY <1>1, <1>3, BytesRun
    <2> HIDE DEF n
    <2>3. p[n].sz = Mtu
      BY <1>1, <2>1 DEF n
    <2>4. (n - 1) * Mtu + Mtu = n * Mtu
      BY <2>1
    <2> QED
      BY <2>2, <2>3, <2>4 DEF n
  <1> QED
    BY <1>2, <1>3

LEMMA FirstPackets ==
    ASSUME NEW S, NEW p \in Seq(S), NEW n \in Nat, n <= Len(p)
    PROVE  /\ SubSeq(p, 1, n) \in Seq(S) /\ Len(SubSeq(p, 1, n)) = n
           /\ \A k \in 1..n : SubSeq(p, 1, n)[k] = p[k]
  OBVIOUS

LEMMA TrimmedTimeline ==
    ASSUME NEW p \in Seq(FullPackets), Rising(p), NEW size \in Nat
    PROVE  LET q == Trimmed(p, size)
           IN  /\ q \in Seq(Packets) /\ Rising(q)
               /\ Bytes(q) <= CeilDiv(size, Grain)
  <1> DEFINE over == {k \in DOMAIN p : k * Mtu * Grain > size}
             cut == CHOOSE k \in over : \A j \in over : k <= j
             full == (cut - 1) * Mtu
             rest == size - full * Grain
             last == Greatest(1, Round(rest))
             head == SubSeq(p, 1, cut)
             q == Trimmed(p, size)
             all_bytes == CeilDiv(size, Grain)
  <1>1. /\ Len(p) \in Nat /\ DOMAIN p = 1..Len(p) /\ p \in Seq(Packets)
        /\ \A k \in 1..Len(p) : p[k] \in FullPackets /\ p[k].ts \in Nat /\ p[k].sz = Mtu
    <2>1. \A k \in 1..Len(p) : p[k] \in FullPackets
      OBVIOUS
    <2>2. p \in Seq(Packets)
      BY FullFacts
    <2> QED
      BY <2>1, <2>2, FullFacts, TimelineFacts
  <1>2. Grain \in Nat \ {0} /\ Mtu \in Nat \ {0}
    BY Constants
  <1>3. /\ all_bytes \in Nat
        /\ \A b \in Nat : b * Grain <= size => b <= all_bytes
    <2>1. all_bytes \in Nat /\ \A b \in Nat : all_bytes <= b <=> size <= b * Grain
      BY <1>2, Ceiling
    <2>2. \A b \in Nat : b < all_bytes <=> b * Grain < size
      BY <1>2, Ceiling
    <2> HIDE DEF all_bytes
    <2> SUFFICES ASSUME NEW b \in Nat, b * Grain <= size PROVE b <= all_bytes
      BY <2>1
    <2>3. b * Grain \in Nat
      BY <1>2
    <2>4. CASE b * Grain < size
      BY <2>1, <2>2, <2>4
    <2>5. CASE b * Grain = size
      <3>1. ~(all_bytes <= b - 1) \/ b = 0
        <4> SUFFICES ASSUME b # 0, all_bytes <= b - 1 PROVE FALSE
          OBVIOUS
        <4>1. b - 1 \in Nat
          OBVIOUS
        <4>2. size <= (b - 1) * Grain
          BY <2>1, <4>1
        <4>3. (b - 1) * Grain < b * Grain /\ (b - 1) * Grain \in Nat
          BY <1>2, <4>1, StrictlyMonotone
        <4> QED
          BY <2>3, <2>5, <4>2, <4>3
      <3> QED
        BY <2>1, <3>1
    <2> QED
      BY <2>3, <2>4, <2>5
  <1>4. \A k \in Nat : k * Mtu \in Nat /\ (k * Mtu) * Grain \in Nat
    BY <1>2
  <1>5. CASE over = {}
    <2>1. q = p
      BY <1>5 DEF Trimmed
    <2>2. Bytes(p) = Len(p) * Mtu
      BY BytesFull
    <2>3. (Len(p) * Mtu) * Grain <= size
      <3>1. CASE Len(p) = 0
        BY <1>2, <3>1
      <3>2. CASE Len(p) # 0
        <4>1. Len(p) \in DOMAIN p
          BY <1>1, <3>2
        <4>2. ~((Len(p) * Mtu) * Grain > size)
          BY <1>5, <4>1
        <4> QED
          BY <1>1, <1>4, <4>2
      <3> QED
        BY <3>1, <3>2
    <2>4. Bytes(p) <= all_bytes
      BY <1>1, <1>3, <1>4, <2>2, <2>3
    <2> QED
      BY <1>1, <2>1, <2>4
  <1>6. CASE over # {}
    <2>1. cut \in over /\ \A j \in over : cut <= j
      <3>1. over \in SUBSET Nat
        BY <1>1
      <3> HIDE DEF over
      <3>2. \E k \in over : \A j \in over : k <= j
        BY <1>6, <3>1, LeastElement
      <3> QED
        BY <3>2
    <2>2. cut \in 1..Len(p) /\ (cut * Mtu) * Grain > size
      BY <1>1, <2>1
    <2>3. q = IF rest > 0 THEN [head EXCEPT ![cut].sz = last] ELSE SubSeq(p, 1, cut - 1)
      <3>1. rest = size - (cut - 1) * Mtu * Grain
        OBVIOUS
      <3> QED
        BY <1>6 DEF Trimmed
    <2> HIDE DEF cut
    <2>4. cut - 1 \in Nat /\ cut \in Nat /\ cut - 1 <= Len(p) /\ cut <= Len(p)
      BY <1>1, <2>2
    <2>5. full * Grain <= size
      <3>1. CASE cut = 1
        <4>1. full = 0
          BY <1>2, <3>1
        <4> QED
          BY <1>2, <4>1
      <3>2. CASE cut # 1
        <4>1. cut - 1 \in DOMAIN p /\ ~(cut <= cut - 1)
          BY <1>1, <2>2, <3>2
        <4>2. ~((cut - 1) * Mtu * Grain > size)
          BY <2>1, <4>1
        <4>3. (cut - 1) * Mtu * Grain \in Nat
          BY <1>4, <2>4
        <4> QED
          BY <4>2, <4>3
      <3> QED
        BY <3>1, <3>2
    <2>6. full \in Nat /\ full * Grain \in Nat /\ full + Mtu = cut * Mtu
          /\ (full + Mtu) * Grain = full * Grain + Mtu * Grain
      <3>1. full \in Nat /\ full * Grain \in Nat
        BY <1>4, <2>4
      <3>2. (cut - 1) * Mtu + Mtu = cut * Mtu
        BY <1>2, <2>4
      <3> HIDE DEF full
      <3>3. (full + Mtu) * Grain = full * Grain + Mtu * Grain
        BY <1>2, <3>1
      <3> QED
        BY <3>1, <3>2, <3>3 DEF full
    <2>7. rest \in Nat /\ rest <= Mtu * Grain
      <3>1. (full + Mtu) * Grain > size
        BY <2>2, <2>6
      <3>2. Mtu * Grain \in Nat
        BY <1>2
      <3> HIDE DEF full
      <3> QED
        BY <2>5, <2>6, <3>1, <3>2
    <2>8. SubSeq(p, 1, cut - 1) \in Seq(FullPackets)
          /\ Len(SubSeq(p, 1, cut - 1)) = cut - 1
          /\ \A k \in 1..(cut - 1) : SubSeq(p, 1, cut - 1)[k] = p[k]
      BY <2>4, FirstPackets
    <2>9. head \in Seq(FullPackets) /\ Len(head) = cut
          /\ \A k \in 1..cut : head[k] = p[k]
      BY <2>4, FirstPackets
    <2>10. \A i, j \in 1..cut : i < j => p[i].ts <= p[j].ts
      <3>1. \A i \in 1..cut : i \in DOMAIN p
        BY <1>1, <2>4
      <3> QED
        BY <3>1 DEF Rising
    <2>11. full <= all_bytes
      BY <1>3, <2>5, <2>6
    <2>12. CASE ~(rest > 0)
      <3>1. q = SubSeq(p, 1, cut - 1)
        BY <2>3, <2>12
      <3> HIDE DEF q
      <3>2. DOMAIN q = 1..(cut - 1) /\ q \in Seq(FullPackets) /\ Len(q) = cut - 1
            /\ \A k \in 1..(cut - 1) : q[k] = p[k]
        <4>1. q \in Seq(FullPackets) /\ Len(q) = cut - 1
              /\ \A k \in 1..(cut - 1) : q[k] = p[k]
          BY <2>8, <3>1, Zenon
        <4> QED
          BY <4>1, SeqFacts
      <3>3. Rising(q)
        BY <2>4, <2>10, <3>2 DEF Rising
      <3>4. Bytes(q) = (cut - 1) * Mtu
        BY <3>2, BytesFull
      <3>5. q \in Seq(Packets)
        BY <3>2, FullFacts
      <3> QED
        BY <2>11, <3>3, <3>4, <3>5 DEF q
    <2>13. CASE rest > 0
      <3>1. q = [head EXCEPT ![cut].sz = last]
        BY <2>3, <2>13
      <3> HIDE DEF q
      <3>2. cut \in 1..cut /\ DOMAIN head = 1..cut
        BY <2>4, <2>2, <2>9
      <3> DEFINE c == CeilDiv(rest, Grain)
      <3>3. last \in Nat /\ 1 <= last /\ last <= c /\ c <= Mtu /\ full + c <= all_bytes
        <4>1. Round(rest) \in Nat /\ Round(rest) <= c
          BY <2>7, Rounding
        <4>2. c \in Nat /\ (0 < c <=> 0 * Grain < rest) /\ (c <= Mtu <=> rest <= Mtu * Grain)
          BY <1>2, <2>7, Ceiling
        <4>3. 0 * Grain = 0
          BY <1>2
        <4>4. 1 <= c /\ c <= Mtu
          BY <2>7, <2>13, <4>2, <4>3
        <4>5. last \in Nat /\ 1 <= last /\ last <= c
          BY <4>1, <4>2, <4>4 DEF Greatest
        <4>6. c - 1 \in Nat /\ c - 1 < c
          BY <4>2, <4>4
        <4>7. (c - 1) * Grain < rest
          BY <1>2, <2>7, <4>6, Ceiling
        <4>8. (full + (c - 1)) * Grain < size
          <5>1. (full + (c - 1)) * Grain = full * Grain + (c - 1) * Grain
            BY <1>2, <2>6, <4>6
          <5>2. (c - 1) * Grain \in Nat
            BY <1>2, <4>6
          <5>3. size = full * Grain + rest
            <6> HIDE DEF full
            <6> QED
              BY <2>6
          <5> HIDE DEF full, c
          <5> QED
            BY <2>6, <2>7, <4>7, <5>1, <5>2, <5>3
        <4>9. full + (c - 1) \in Nat
          BY <2>6, <4>6
        <4>10. full + (c - 1) < all_bytes
          BY <1>2, <4>8, <4>9, Ceiling
        <4> HIDE DEF full, c, last, all_bytes
        <4> QED
          BY <1>3, <2>6, <4>2, <4>4, <4>5, <4>10
      <3> HIDE DEF last, c
      <3>4. /\ DOMAIN q = 1..cut
            /\ q = [k \in 1..cut |-> q[k]]
            /\ \A k \in 1..cut : k # cut => q[k] = p[k]
            /\ q[cut] = [p[cut] EXCEPT !.sz = last]
        <4>1. DOMAIN q = 1..cut /\ q = [k \in 1..cut |-> q[k]]
          BY <3>1, <3>2
        <4>2. \A k \in 1..cut : k # cut => q[k] = head[k]
          BY <3>1, <3>2
        <4>3. q[cut] = [head[cut] EXCEPT !.sz = last]
          BY <3>1, <3>2
        <4> HIDE DEF head
        <4> QED
          BY <2>9, <3>2, <4>1, <4>2, <4>3
      <3>5. q[cut].ts = p[cut].ts /\ q[cut].sz = last /\ q[cut] \in Packets
        <4>1. p[cut] \in FullPackets
          BY <1>1, <2>2
        <4>2. last \in 1..Mtu
          <5>1. c \in Nat
            BY <1>2, <2>7, Ceiling DEF c
          <5> QED
            BY <1>2, <3>3, <5>1
        <4> QED
          BY <3>4, <4>1, <4>2 DEF Packets, FullPackets
      <3>6. \A k \in 1..cut : q[k] \in Packets /\ q[k].ts = p[k].ts
        <4> SUFFICES ASSUME NEW k \in 1..cut, k # cut
                     PROVE  q[k] \in Packets /\ q[k].ts = p[k].ts
          BY <3>5
        <4>1. k \in 1..Len(p)
          BY <2>2, <2>4, <1>1
        <4>2. p[k] \in Packets
          BY <1>1, <4>1, FullFacts
        <4> QED
          BY <3>4, <4>2
      <3>7. q \in Seq(Packets) /\ Len(q) = cut
        BY <2>4, <3>4, <3>6, IsSeq
      <3>8. Rising(q)
        BY <2>10, <3>4, <3>6 DEF Rising
      <3>9. Bytes(q) = full + last
        <4>1. q # << >>
          BY <2>2, <2>4, <3>7
        <4>2. \A k \in 1..(Len(q) - 1) : q[k].sz = Mtu
          <5> SUFFICES ASSUME NEW k \in 1..(cut - 1) PROVE q[k].sz = Mtu
            BY <3>7
          <5>1. k \in 1..cut /\ k # cut /\ k \in 1..Len(p)
            BY <1>1, <2>2, <2>4
          <5> QED
            BY <1>1, <3>4, <5>1
        <4>3. Bytes(q) = (Len(q) - 1) * Mtu + q[Len(q)].sz
          BY <3>7, <4>1, <4>2, BytesRun
        <4> QED
          BY <3>5, <3>7, <4>3
      <3>10. Bytes(q) <= all_bytes
        <4>1. c \in Nat
          BY <1>2, <2>7, Ceiling DEF c
        <4> HIDE DEF full, all_bytes
        <4> QED
          BY <1>3, <2>6, <3>3, <3>9, <4>1
      <3> QED
        BY <3>7, <3>8, <3>10 DEF q
    <2> QED
      BY <2>12, <2>13
  <1> QED
    BY <1>5, <1>6

-----------------------------------------------------------------------------
(* Timelines of cycles and of windows.                                     *)

LEMMA PickedFrom ==
    ASSUME NEW S, NEW p \in Seq(S), NEW mask \in SUBSET DOMAIN p
    PROVE  \A k \in 1..Cardinality(mask) : \E i \in mask : Picked(p, mask)[k] = p[i]
  <1>1. PICK at \in [1..Cardinality(mask) -> mask] :
           /\ \A k \in 1..Cardinality(mask) : Picked(p, mask)[k] = p[at[k]]
           /\ \A k, m \in 1..Cardinality(mask) : k < m => at[k] < at[m]
    BY PickedPlaces
  <1> QED
    BY <1>1

(* The packets of a timeline that come before the horizon.                 *)
LEMMA BeforeHorizon ==
    ASSUME NEW p \in Seq([ts : Nat, sz : {Mtu}]), Rising(p),
           NEW a \in Nat, NEW b \in Nat,
           \A k \in 1..Len(p) : a <= p[k].ts /\ p[k].ts <= b
    PROVE  LET q == Picked(p, {i \in DOMAIN p : p[i].ts < horizon_ns})
           IN  /\ q \in Seq(Packets) /\ Rising(q)
               /\ \A k \in 1..Len(q) : a <= q[k].ts /\ q[k].ts <= b
  <1> DEFINE mask == {i \in DOMAIN p : p[i].ts < horizon_ns}
             q == Picked(p, mask)
             n == Cardinality(mask)
             S == [ts : Nat, sz : {Mtu}]
  <1>1. mask \in SUBSET DOMAIN p /\ p \in Seq(S)
    OBVIOUS
  <1>2. Rising(q) /\ q \in Seq(S) /\ Len(q) = n
    <2> HIDE DEF mask, S
    <2>1. Rising(q)
      BY <1>1, PickedRising
    <2>2. q \in Seq(S) /\ Len(q) = n
      BY <1>1, PickedPlaces
    <2> QED
      BY <2>1, <2>2
  <1>3. \A k \in 1..n : \E i \in mask : q[k] = p[i]
    <2> HIDE DEF mask, S
    <2> QED
      BY <1>1, PickedFrom
  <1>4. \A i \in mask : /\ p[i] \in Packets /\ a <= p[i].ts /\ p[i].ts <= b
    <2> SUFFICES ASSUME NEW i \in mask
                 PROVE  p[i] \in Packets /\ a <= p[i].ts /\ p[i].ts <= b
      OBVIOUS
    <2>1. i \in 1..Len(p) /\ p[i] \in S /\ p[i].ts < horizon_ns
      BY SeqFacts
    <2>2. Mtu \in 1..Mtu /\ horizon_ns \in Nat
      BY Constants, HorizonType
    <2> QED
      BY <2>1, <2>2 DEF Packets
  <1> HIDE DEF mask, q, n, S
  <1>5. DOMAIN q = 1..n /\ n \in Nat /\ q = [k \in 1..n |-> q[k]]
    <2>1. Len(q) \in Nat /\ DOMAIN q = 1..Len(q)
      BY <1>2, SeqFacts
    <2>2. q = [k \in DOMAIN q |-> q[k]]
      BY <1>2
    <2> QED
      BY <1>2, <2>1, <2>2
  <1>6. \A k \in 1..n : q[k] \in Packets /\ a <= q[k].ts /\ q[k].ts <= b
    BY <1>3, <1>4
  <1>7. q \in Seq(Packets)
    BY <1>5, <1>6, IsSeq
  <1> QED
    BY <1>2, <1>6, <1>7 DEF q, mask

(* The packets of an ON window.                                            *)
OnPackets(from, to) ==
    [i \in 1..((to - from) \div Iat + 1) |->
        Packet((from + (i - 1) * Iat) \div Grain, Mtu)]

LEMMA CycleTimeline ==
    ASSUME NEW from \in Nat, NEW to \in Nat, from <= to
    PROVE  LET p == OnPackets(from, to)
               q == Picked(p, {i \in DOMAIN p : p[i].ts < horizon_ns})
           IN  /\ q \in Seq(Packets) /\ Rising(q)
               /\ \A k \in 1..Len(q) :
                     from \div Grain <= q[k].ts /\ q[k].ts <= to \div Grain
  <1> DEFINE p == OnPackets(from, to)
             m == (to - from) \div Iat
             ts(i) == from + (i - 1) * Iat
  <1>1. Grain \in Nat \ {0} /\ Iat \in Nat \ {0} /\ Mtu \in Nat
    BY Constants, FlowSourcesAssumption
  <1>2. m \in Nat /\ m * Iat <= to - from /\ m * Iat \in Nat
    <2> DEFINE d == to - from
    <2>1. d \in Nat
      OBVIOUS
    <2> HIDE DEF d
    <2>2. d = Iat * (d \div Iat) + (d % Iat) /\ d % Iat \in 0..(Iat - 1)
          /\ d \div Iat \in Nat
      BY <1>1, <2>1, DivMod
    <2>3. (d \div Iat) * Iat = Iat * (d \div Iat) /\ (d \div Iat) * Iat \in Nat
      BY <1>1, <2>2
    <2>4. (d \div Iat) * Iat <= d
      BY <1>1, <2>2, <2>3
    <2> QED
      BY <2>2, <2>3, <2>4 DEF d
  <1> HIDE DEF m
  <1>3. \A i \in 1..(m + 1) : ts(i) \in Nat /\ from <= ts(i) /\ ts(i) <= to
    <2> SUFFICES ASSUME NEW i \in 1..(m + 1)
                 PROVE  ts(i) \in Nat /\ from <= ts(i) /\ ts(i) <= to
      OBVIOUS
    <2>1. i - 1 \in Nat /\ i - 1 <= m
      BY <1>2
    <2>2. (i - 1) * Iat <= m * Iat /\ (i - 1) * Iat \in Nat
      BY <1>1, <1>2, <2>1, Monotone, NatProducts
    <2> QED
      BY <1>2, <2>2
  <1>4. \A i, j \in 1..(m + 1) : i < j => ts(i) <= ts(j)
    <2> SUFFICES ASSUME NEW i \in 1..(m + 1), NEW j \in 1..(m + 1), i < j
                 PROVE  ts(i) <= ts(j)
      OBVIOUS
    <2>1. i - 1 \in Nat /\ j - 1 \in Nat /\ i - 1 <= j - 1
      BY <1>2
    <2>2. (i - 1) * Iat <= (j - 1) * Iat /\ (i - 1) * Iat \in Nat /\ (j - 1) * Iat \in Nat
      BY <1>1, <2>1, Monotone, NatProducts
    <2> QED
      BY <2>2
  <1>5. p = [i \in 1..(m + 1) |-> Packet(ts(i) \div Grain, Mtu)]
    BY DEF OnPackets, m
  <1> HIDE DEF ts, p
  <1>6. \A i \in 1..(m + 1) :
           /\ p[i].ts = ts(i) \div Grain /\ p[i].ts \in Nat
           /\ p[i] \in [ts : Nat, sz : {Mtu}]
           /\ from \div Grain <= p[i].ts /\ p[i].ts <= to \div Grain
    <2> SUFFICES ASSUME NEW i \in 1..(m + 1)
                 PROVE  /\ p[i].ts = ts(i) \div Grain /\ p[i].ts \in Nat
                        /\ p[i] \in [ts : Nat, sz : {Mtu}]
                        /\ from \div Grain <= p[i].ts /\ p[i].ts <= to \div Grain
      OBVIOUS
    <2>1. ts(i) \div Grain \in Nat
      BY <1>1, <1>3, DivMod
    <2>2. from \div Grain <= ts(i) \div Grain /\ ts(i) \div Grain <= to \div Grain
      BY <1>1, <1>3, DivMonotone
    <2>3. p[i] = [ts |-> ts(i) \div Grain, sz |-> Mtu]
      BY <1>5 DEF Packet
    <2> QED
      BY <2>1, <2>2, <2>3
  <1>7. DOMAIN p = 1..(m + 1) /\ p = [i \in 1..(m + 1) |-> p[i]] /\ m + 1 \in Nat
    BY <1>2, <1>5
  <1>8. p \in Seq([ts : Nat, sz : {Mtu}]) /\ Len(p) = m + 1
    <2> DEFINE S == [ts : Nat, sz : {Mtu}]
    <2>1. \A i \in 1..(m + 1) : p[i] \in S
      BY <1>6
    <2> HIDE DEF S
    <2>2. p \in Seq(S) /\ Len(p) = m + 1
      BY <1>7, <2>1, IsSeq
    <2> QED
      BY <2>2 DEF S
  <1>9. Rising(p)
    <2> SUFFICES ASSUME NEW i \in 1..(m + 1), NEW j \in 1..(m + 1), i < j
                 PROVE  p[i].ts <= p[j].ts
      BY <1>7 DEF Rising
    <2>1. ts(i) \div Grain <= ts(j) \div Grain
      BY <1>1, <1>3, <1>4, DivMonotone
    <2> QED
      BY <1>6, <2>1
  <1>10. from \div Grain \in Nat /\ to \div Grain \in Nat
    BY <1>1, DivMod
  <1>11. \A k \in 1..Len(p) : from \div Grain <= p[k].ts /\ p[k].ts <= to \div Grain
    BY <1>6, <1>8
  <1> QED
    BY <1>8, <1>9, <1>10, <1>11, BeforeHorizon DEF p

-----------------------------------------------------------------------------
(* What a flow of the HAL workload sends in a window.                      *)
Emissions == {e \in [from : Nat, to : Nat, bytes : Nat] : e.from <= e.to}

LEMMA WindowTimeline ==
    ASSUME NEW e \in Emissions
    PROVE  WindowPackets(e) \in Seq(Packets)
  <1> DEFINE n == CeilDiv(e.bytes, Mtu * Grain)
             ts(i) == (2 * n * e.from + (2 * i - 1) * (e.to - e.from)) \div (2 * n)
             K == {i \in 1..n : ts(i) < horizon_ns}
             kept == Cardinality(K)
             rem == Round(e.bytes) - (kept - 1) * Mtu
             p == WindowPackets(e)
  <1>1. e.from \in Nat /\ e.to \in Nat /\ e.bytes \in Nat /\ e.from <= e.to
    BY DEF Emissions
  <1>2. Grain \in Nat \ {0} /\ Mtu \in Nat \ {0} /\ Mtu * Grain \in Nat \ {0}
        /\ horizon_ns \in Nat \ {0}
    BY Constants, Products, HorizonType
  <1>3. n \in Nat
    BY <1>1, <1>2, Ceiling
  <1> HIDE DEF n
  <1>4. \A i \in 1..n : ts(i) \in Nat
    <2> SUFFICES ASSUME NEW i \in 1..n PROVE ts(i) \in Nat
      OBVIOUS
    <2>1. 2 * n \in Nat \ {0} /\ 2 * i - 1 \in Nat /\ e.to - e.from \in Nat
      BY <1>1, <1>3
    <2> DEFINE x == 2 * n * e.from + (2 * i - 1) * (e.to - e.from)
    <2>2. (2 * n) * e.from \in Nat /\ (2 * i - 1) * (e.to - e.from) \in Nat
      BY <1>1, <2>1, NatProducts
    <2>3. x \in Nat
      BY <2>2
    <2> HIDE DEF x
    <2>4. x \div (2 * n) \in Nat
      BY <2>1, <2>3, DivMod
    <2> QED
      BY <2>4 DEF x
  <1>5. \A i, j \in 1..n : i < j => ts(i) <= ts(j)
    <2> SUFFICES ASSUME NEW i \in 1..n, NEW j \in 1..n, i < j PROVE ts(i) <= ts(j)
      OBVIOUS
    <2>1. 2 * n \in Nat \ {0} /\ 2 * i - 1 \in Nat /\ e.to - e.from \in Nat
          /\ 2 * j - 1 \in Nat /\ 2 * i - 1 <= 2 * j - 1
      BY <1>1, <1>3
    <2> DEFINE x == 2 * n * e.from + (2 * i - 1) * (e.to - e.from)
               y == 2 * n * e.from + (2 * j - 1) * (e.to - e.from)
    <2>2. /\ (2 * n) * e.from \in Nat /\ (2 * i - 1) * (e.to - e.from) \in Nat
          /\ (2 * j - 1) * (e.to - e.from) \in Nat
          /\ (2 * i - 1) * (e.to - e.from) <= (2 * j - 1) * (e.to - e.from)
      BY <1>1, <2>1, NatProducts, Monotone
    <2>3. x \in Nat /\ y \in Nat /\ x <= y
      BY <2>2
    <2> HIDE DEF x, y
    <2>4. x \div (2 * n) <= y \div (2 * n)
      BY <2>1, <2>3, DivMonotone
    <2> QED
      BY <2>4 DEF x, y
  <1>6. p = [i \in 1..kept |->
               Packet(ts(i), IF i = kept /\ 0 < rem /\ rem < Mtu THEN rem ELSE Mtu)]
    BY DEF WindowPackets, n
  <1> HIDE DEF ts, p
  <1>7. K = 1..kept /\ kept \in 0..n
    <2>1. K \in SUBSET (1..n)
      OBVIOUS
    <2>2. \A i \in K : \A j \in 1..n : j < i => j \in K
      <3> SUFFICES ASSUME NEW i \in K, NEW j \in 1..n, j < i PROVE j \in K
        OBVIOUS
      <3>1. ts(j) <= ts(i) /\ ts(i) \in Nat /\ ts(j) \in Nat /\ ts(i) < horizon_ns
        BY <1>4, <1>5
      <3>2. ts(j) < horizon_ns
        BY <1>2, <3>1
      <3> QED
        BY <3>2
    <2> HIDE DEF K
    <2> QED
      BY <1>3, <2>1, <2>2, Prefix
  <1>8. \A i \in 1..kept : ts(i) \in 0..(horizon_ns - 1)
    <2> SUFFICES ASSUME NEW i \in 1..kept PROVE ts(i) \in 0..(horizon_ns - 1)
      OBVIOUS
    <2>1. i \in K
      BY <1>7
    <2>2. ts(i) \in Nat /\ ts(i) < horizon_ns
      BY <1>4, <2>1
    <2> QED
      BY <1>2, <2>2
  <1> HIDE DEF kept, K
  <1>9. rem \in Int
    <2>1. Round(e.bytes) \in Nat
      BY <1>1, Rounding
    <2>2. (kept - 1) * Mtu \in Int
      BY <1>2, <1>7
    <2> QED
      BY <2>1, <2>2
  <1> HIDE DEF rem
  <1>10. \A i \in 1..kept : p[i] \in Packets
    <2> SUFFICES ASSUME NEW i \in 1..kept PROVE p[i] \in Packets
      OBVIOUS
    <2> DEFINE z == IF i = kept /\ 0 < rem /\ rem < Mtu THEN rem ELSE Mtu
    <2>1. z \in 1..Mtu
      BY <1>2, <1>9
    <2>2. p[i] = [ts |-> ts(i), sz |-> z]
      BY <1>6 DEF Packet
    <2> HIDE DEF z
    <2> QED
      BY <1>8, <2>1, <2>2 DEF Packets
  <1>11. DOMAIN p = 1..kept /\ p = [i \in 1..kept |-> p[i]] /\ kept \in Nat
    BY <1>3, <1>6, <1>7
  <1>12. p \in Seq(Packets)
    BY <1>10, <1>11, IsSeq
  <1> QED
    BY <1>12 DEF p

(* The packets of a flow get sizes.                                        *)
LEMMA SizedTimeline ==
    ASSUME NEW p \in Seq(Packets), Rising(p), NEW sz \in [DOMAIN p -> PktSizes]
    PROVE  LET q == [i \in DOMAIN p |-> Packet(p[i].ts, sz[i])]
           IN  q \in Seq(AnyPackets) /\ Rising(q)
  <1> DEFINE q == [i \in DOMAIN p |-> Packet(p[i].ts, sz[i])]
  <1>1. Len(p) \in Nat /\ DOMAIN p = 1..Len(p)
    BY SeqFacts
  <1>2. \A i \in 1..Len(p) : q[i] \in AnyPackets /\ q[i].ts = p[i].ts
    <2> SUFFICES ASSUME NEW i \in 1..Len(p) PROVE q[i] \in AnyPackets /\ q[i].ts = p[i].ts
      OBVIOUS
    <2>1. sz[i] \in Int
      BY <1>1, FlowSourcesAssumption
    <2>2. p[i] \in Packets
      OBVIOUS
    <2>3. q[i] = [ts |-> p[i].ts, sz |-> sz[i]]
      BY <1>1 DEF Packet
    <2> HIDE DEF q
    <2> QED
      BY <2>1, <2>2, <2>3 DEF Packets, AnyPackets
  <1>3. DOMAIN q = 1..Len(p) /\ q = [i \in 1..Len(p) |-> q[i]]
    BY <1>1
  <1> HIDE DEF q
  <1>4. q \in Seq(AnyPackets)
    BY <1>1, <1>2, <1>3, IsSeq
  <1>5. Rising(q)
    BY <1>1, <1>2, <1>3 DEF Rising
  <1> QED
    BY <1>4, <1>5 DEF q

-----------------------------------------------------------------------------
(* The sources: flows that fit what they were to send.                     *)

(* What holds of a flow's timeline p that was to send bytes: in packets up *)
(* to the MTU unless a mix or CSV rows give the sizes, paced, but for the  *)
(* rows of a CSV until they are sorted, and within its budget.             *)
Fits(p, bytes) ==
    /\ source \in MixedSizes \/ p \in Seq(Packets)
    /\ (source = "trace_csv" /\ stage = "generate") \/ Spaced(p, LeastGap)
    /\ source = "trace_csv" => bytes = Unasked
    /\ \/ bytes = Unasked
       \/ IF source = "synthetic_sustained" THEN Bytes(p) <= bytes
                                            ELSE Budgeted(p, bytes)

FlowsReady ==
    /\ pairs \in Seq(Seq(AnyPackets))
    /\ asked \in Seq(Int) /\ Len(asked) = Len(pairs) + 1
    /\ \A k \in DOMAIN pairs : Fits(pairs[k], asked[k])

(* What holds of the timeline that is being generated.                     *)
LineReady ==
    /\ line \in Seq(Packets) /\ t \in Nat /\ count \in Nat
    /\ source \in {"rpc", "imc17_cdf"} =>
          /\ Spaced(line, LeastGap)
          /\ line # << >> => LastStamp(line) + LeastGap <= t \div Grain
    /\ source = "rpc" /\ stage = "generate" =>
          asked[Len(asked)] \in Nat /\ Budgeted(line, asked[Len(asked)])

SourcesReady == FlowsReady /\ LineReady

Kept == source' = source /\ stage' = stage

LEMMA Gaps ==
    /\ source \in {"poisson_flow", "rpc"} => LeastGap = Gap \div Grain
    /\ source \notin {"poisson_flow", "rpc"} => LeastGap = 0
    /\ LeastGap \in Nat
  <1>1. Gap \div Grain \in Nat
    BY Constants, HorizonType, DivMod
  <1> QED
    BY <1>1 DEF LeastGap

LEMMA FitsKept ==
    ASSUME Kept
    PROVE  \A p, bytes : Fits(p, bytes)' <=> Fits(p, bytes)
  BY DEF Kept, Fits, LeastGap, Packets

LEMMA NothingLine ==
    ASSUME NEW gap \in Nat
    PROVE  << >> \in Seq(Packets) /\ Spaced(<< >>, gap) /\ Budgeted(<< >>, 0)
  <1>1. << >> \in Seq(Packets) /\ Len(<< >>) = 0
    OBVIOUS
  <1>2. Spaced(<< >>, gap)
    BY <1>1 DEF Spaced
  <1> QED
    BY <1>1, <1>2, BytesEmpty DEF Budgeted

LEMMA FlowAdded ==
    ASSUME FlowsReady, NEW p \in Seq(AnyPackets), NEW bytes \in Int,
           AddFlow(p, bytes), Kept, Fits(p, bytes)
    PROVE  FlowsReady' /\ asked'[Len(asked')] = 0
  <1> DEFINE n == Len(pairs)
  <1>1. /\ n \in Nat /\ DOMAIN pairs = 1..n /\ pairs \in Seq(Seq(AnyPackets))
        /\ asked \in Seq(Int) /\ Len(asked) = n + 1
    BY DEF FlowsReady
  <1>2. /\ pairs' \in Seq(Seq(AnyPackets)) /\ Len(pairs') = n + 1
        /\ \A k \in 1..n : pairs'[k] = pairs[k]
        /\ pairs'[n + 1] = p
    BY <1>1 DEF AddFlow
  <1> DEFINE b == [asked EXCEPT ![n + 1] = bytes]
  <1>3. /\ b \in Seq(Int) /\ Len(b) = n + 1 /\ b[n + 1] = bytes
        /\ \A k \in 1..n : b[k] = asked[k]
    BY <1>1
  <1>4. asked' = Append(b, 0)
    BY <1>1 DEF AddFlow
  <1> HIDE DEF b, n
  <1>5. /\ asked' \in Seq(Int) /\ Len(asked') = n + 2 /\ asked'[n + 2] = 0
        /\ \A k \in 1..(n + 1) : asked'[k] = b[k]
    BY <1>1, <1>3, <1>4
  <1>6. DOMAIN pairs' = 1..(n + 1) /\ n + 1 \in 1..(n + 1)
    BY <1>1, <1>2
  <1>7. \A k \in 1..(n + 1) : Fits(pairs'[k], asked'[k])
    <2> SUFFICES ASSUME NEW k \in 1..(n + 1) PROVE Fits(pairs'[k], asked'[k])
      OBVIOUS
    <2>1. CASE k = n + 1
      BY <1>2, <1>3, <1>5, <2>1
    <2>2. CASE k # n + 1
      <3>1. k \in 1..n
        BY <1>1, <2>2
      <3>2. pairs'[k] = pairs[k] /\ asked'[k] = asked[k]
        BY <1>2, <1>3, <1>5, <3>1
      <3>3. Fits(pairs[k], asked[k])
        BY <1>1, <3>1 DEF FlowsReady
      <3> QED
        BY <3>2, <3>3
    <2> QED
      BY <2>1, <2>2
  <1>8. \A k \in DOMAIN pairs' : Fits(pairs[k], asked[k])'
    BY <1>6, <1>7, FitsKept
  <1>9. Len(asked') = Len(pairs') + 1
    BY <1>1, <1>2, <1>5
  <1>10. asked'[Len(asked')] = 0
    BY <1>5
  <1> QED
    BY <1>2, <1>5, <1>8, <1>9, <1>10 DEF FlowsReady

LEMMA FlowsUnchanged ==
    ASSUME FlowsReady, Kept, UNCHANGED <<pairs, asked>>
    PROVE  FlowsReady'
  <1>1. \A k \in DOMAIN pairs' : Fits(pairs[k], asked[k])'
    BY FitsKept DEF FlowsReady
  <1> QED
    BY <1>1 DEF FlowsReady

(* Sources that keep no line ready for the rate of a connection.           *)
LEMMA OtherLine ==
    ASSUME source \notin {"rpc", "imc17_cdf"}, source' = source,
           line' \in Seq(Packets), t' \in Nat, count' \in Nat
    PROVE  LineReady'
  BY DEF LineReady

LEMMA NewLine ==
    ASSUME source' = source, line' = << >>, t' \in Nat, count' \in Nat,
           source = "rpc" => asked'[Len(asked')] = 0
    PROVE  LineReady'
  <1>1. line' \in Seq(Packets) /\ Spaced(line', LeastGap') /\ Budgeted(line', 0)
    <2>1. LeastGap' \in Nat
      <3>1. LeastGap' = LeastGap
        BY DEF LeastGap
      <3> QED
        BY <3>1, Gaps
    <2> QED
      BY <2>1, NothingLine
  <1> QED
    BY <1>1 DEF LineReady

LEMMA ClippedSize ==
    ASSUME NEW size \in Nat
    PROVE  Clipped(size) \in Nat /\ MinBytes * Grain <= Clipped(size)
           /\ Clipped(size) \div Grain \in Nat
  <1>1. MinBytes * Grain \in Nat /\ MaxBytes * Grain \in Nat
        /\ MinBytes * Grain <= MaxBytes * Grain /\ Grain \in Nat \ {0}
    BY Constants, Monotone, NatProducts
  <1>2. Clipped(size) \in Nat /\ MinBytes * Grain <= Clipped(size)
    BY <1>1 DEF Clipped, Least, Greatest
  <1> QED
    BY <1>1, <1>2, DivMod

LEMMA SourceConstants ==
    /\ Sizes \subseteq Nat /\ Thinks \subseteq Nat
    /\ OnTimes \subseteq Nat /\ OffTimes \subseteq Nat
    /\ \A x \in Arrivals \cup Phases : x \in Nat /\ x < horizon_ns * Grain
    /\ Interval \in Nat \ {0} /\ OnInterval \in Nat \ {0}
    /\ horizon_ns \in Nat \ {0} /\ Grain \in Nat \ {0}
    /\ horizon_ns * Grain \in Nat \ {0}
    /\ Gap \in Nat \ {0} /\ Mtu \in Nat \ {0} /\ NsPerByte \in Nat \ {0}
  <1>1. /\ horizon_ns \in Nat \ {0} /\ Grain \in Nat \ {0} /\ Gap \in Nat \ {0}
        /\ Mtu \in Nat \ {0} /\ NsPerByte \in Nat \ {0}
    BY Constants, HorizonType
  <1>2. horizon_ns * Grain \in Nat \ {0}
    BY <1>1, Products
  <1> DEFINE h == horizon_ns * Grain
  <1> HIDE DEF h
  <1>3. Arrivals \cup Phases \subseteq 0..(h - 1)
    BY FlowSourcesAssumption DEF h
  <1>4. \A x \in Arrivals \cup Phases : x \in Nat /\ x < h
    BY <1>2, <1>3 DEF h
  <1>5. /\ Sizes \subseteq Nat /\ Thinks \subseteq Nat
        /\ OnTimes \subseteq Nat /\ OffTimes \subseteq Nat
        /\ Interval \in Nat \ {0} /\ OnInterval \in Nat \ {0}
    BY FlowSourcesAssumption
  <1> QED
    BY <1>1, <1>2, <1>4, <1>5 DEF h

LEMMA PoissonFlowReady ==
    ASSUME SourcesReady, Kept, PoissonFlow
    PROVE  SourcesReady'
  <1>1. PICK arrival \in Arrivals, s \in Sizes :
           t' = arrival
           /\ AddFlow(BackToBack(arrival, Clipped(s)), Clipped(s) \div Grain)
    BY DEF PoissonFlow
  <1> DEFINE p == BackToBack(arrival, Clipped(s))
             b == Clipped(s) \div Grain
  <1>2. source = "poisson_flow" /\ UNCHANGED <<source, line, count>>
    BY DEF PoissonFlow
  <1>3. arrival \in Nat /\ arrival < horizon_ns * Grain /\ s \in Nat
    BY SourceConstants
  <1>4. Clipped(s) \in Nat /\ MinBytes * Grain <= Clipped(s) /\ b \in Nat
    BY <1>3, ClippedSize
  <1>5. /\ p \in Seq(Packets) /\ Spaced(p, Gap \div Grain) /\ Budgeted(p, b)
    BY <1>3, <1>4, MessageTimeline
  <1> HIDE DEF p, b
  <1>6. Fits(p, b)
    BY <1>2, <1>5, Gaps DEF Fits, MixedSizes
  <1>7. FlowsReady'
    BY <1>1, <1>4, <1>5, <1>6, AnyType, FlowAdded DEF p, b, SourcesReady
  <1>8. LineReady'
    BY <1>1, <1>2, <1>3, OtherLine DEF SourcesReady, LineReady
  <1> QED
    BY <1>7, <1>8 DEF SourcesReady

LEMMA RpcMessageReady ==
    ASSUME SourcesReady, Kept, stage = "generate", RpcMessage
    PROVE  SourcesReady'
  <1>1. PICK s \in Sizes, think \in Thinks :
          /\ line' = line \o BackToBack(t, Clipped(s))
          /\ t' = MessageEnd(Clipped(s)) + think
          /\ asked' = [asked EXCEPT ![Len(asked)] = @ + Clipped(s) \div Grain]
    BY DEF RpcMessage
  <1> DEFINE size == Clipped(s)
             whole == size \div Grain
             n == Len(pairs)
             b == asked[n + 1]
             gap == Gap \div Grain
             end == t + PacketCount(size) * Gap
  <1>2. source = "rpc" /\ ~AtEnd /\ count' = count + 1 /\ UNCHANGED <<source, pairs>>
    BY DEF RpcMessage
  <1>3. LeastGap = gap /\ LeastGap' = gap /\ gap \in Nat
    BY <1>2, Gaps DEF LeastGap
  <1>4. /\ n \in Nat /\ DOMAIN pairs = 1..n /\ pairs \in Seq(Seq(AnyPackets))
        /\ asked \in Seq(Int) /\ Len(asked) = n + 1
    BY DEF SourcesReady, FlowsReady
  <1>5. /\ line \in Seq(Packets) /\ t \in Nat /\ count \in Nat
        /\ Spaced(line, gap) /\ (line # << >> => LastStamp(line) + gap <= t \div Grain)
    BY <1>2, <1>3 DEF SourcesReady, LineReady
  <1>6. stage = "generate" => b \in Nat /\ Budgeted(line, b)
    BY <1>2, <1>4 DEF SourcesReady, LineReady
  <1>7. size \in Nat /\ MinBytes * Grain <= size /\ whole \in Nat /\ think \in Nat
    BY ClippedSize, SourceConstants
  <1>8. t < horizon_ns * Grain
    BY <1>2, <1>5, SourceConstants DEF AtEnd
  <1> HIDE DEF size, whole, n, b, gap
  <1>9. stage = "generate" =>
          /\ line' \in Seq(Packets) /\ Spaced(line', gap)
          /\ line' # << >> /\ Budgeted(line', b + whole)
          /\ LastStamp(line') + gap <= end \div Grain
    BY <1>1, <1>5, <1>6, <1>7, <1>8, NextMessage DEF gap, size, whole
  <1>10. end \in Nat /\ t' \in Nat /\ end <= t' /\ end \div Grain <= t' \div Grain
         /\ end \div Grain \in Nat /\ t' \div Grain \in Nat
    <2>1. PacketCount(size) \in Nat
      BY <1>7, MessageSizes
    <2>2. PacketCount(size) * Gap \in Nat
      BY <2>1, NatProducts, SourceConstants
    <2>3. end \in Nat /\ t' = end + think
      BY <1>1, <1>5, <2>2 DEF MessageEnd, size
    <2> HIDE DEF end
    <2>4. t' \in Nat /\ end <= t' /\ Grain \in Nat \ {0}
      BY <1>7, <2>3, SourceConstants
    <2> QED
      BY <2>3, <2>4, DivMonotone, DivMod
  <1> HIDE DEF end
  <1>11. /\ asked' \in Seq(Int) /\ Len(asked') = n + 1
         /\ asked'[n + 1] = b + whole
         /\ \A k \in 1..n : asked'[k] = asked[k]
    <2>1. asked' = [asked EXCEPT ![n + 1] = b + whole]
      BY <1>1, <1>4 DEF whole, size, b
    <2>2. b \in Int /\ b + whole \in Int
      BY <1>4, <1>7 DEF b
    <2> QED
      BY <1>4, <2>1, <2>2
  <1>12. FlowsReady'
    <2>1. \A k \in DOMAIN pairs' : Fits(pairs[k], asked[k])'
      <3>1. \A k \in 1..n : Fits(pairs'[k], asked'[k])
        BY <1>2, <1>4, <1>11 DEF SourcesReady, FlowsReady
      <3> QED
        BY <1>2, <1>4, <3>1, FitsKept
    <2> QED
      BY <1>2, <1>4, <1>11, <2>1 DEF FlowsReady, n
  <1>13. LineReady'
    <2>1. LastStamp(line') \in Int
      <3>1. Len(line') \in 1..Len(line')
        <4>1. line' \in Seq(Packets) /\ line' # << >>
          BY <1>9
        <4>2. Len(line') \in Nat /\ Len(line') # 0
          BY <4>1
        <4> QED
          BY <4>2
      <3>2. line'[Len(line')].ts \in Nat
        BY <1>9, <3>1, TimelineFacts
      <3> QED
        BY <3>2 DEF LastStamp
    <2>2. LastStamp(line') + gap <= t' \div Grain
      BY <1>3, <1>9, <1>10, <2>1
    <2>3. b + whole \in Nat /\ count' \in Nat
      BY <1>2, <1>5, <1>6, <1>7
    <2>4. asked'[Len(asked')] = b + whole
      BY <1>11
    <2> QED
      BY <1>3, <1>9, <1>10, <2>2, <2>3, <2>4 DEF LineReady
  <1> QED
    BY <1>12, <1>13 DEF SourcesReady

LEMMA PacketTimes ==
    (\A x \in Packets : x.ts \in Int) /\ (\A x \in AnyPackets : x.ts \in Int)
  BY PacketsType, AnyType

(* A sorted timeline whose bytes are not given fits a source that paces    *)
(* nothing.                                                                *)
LEMMA SortedFits ==
    ASSUME NEW p \in Seq(AnyPackets), Rising(p), NEW bytes \in Int,
           source \in MixedSizes \/ p \in Seq(Packets),
           source \in {"synthetic_sustained", "synthetic_rates", "imc17_cdf",
                       "hal_composite", "trace_csv"},
           bytes = Unasked \/ (source = "synthetic_sustained" /\ Bytes(p) <= bytes)
    PROVE  Fits(p, bytes)
  <1>1. LeastGap = 0
    BY Gaps
  <1>2. Spaced(p, LeastGap)
    BY <1>1, RisingSpaced
  <1> QED
    BY <1>2 DEF Fits

LEMMA NextConnectionReady ==
    ASSUME SourcesReady, Kept, stage = "generate", NextConnection
    PROVE  SourcesReady'
  <1> DEFINE b == asked[Len(asked)]
  <1>1. /\ source = "rpc" /\ AddFlow(InOrder(line), b) /\ source' = source
        /\ line' = << >> /\ count' = 0 /\ t' \in Phases
    BY DEF NextConnection
  <1>2. /\ line \in Seq(Packets) /\ Spaced(line, LeastGap)
        /\ b \in Nat /\ Budgeted(line, b)
    BY <1>1 DEF SourcesReady, LineReady
  <1> HIDE DEF b
  <1>3. Rising(line)
    BY <1>2, Gaps, AnyType, SpacedRising
  <1>4. InOrder(line) = line
    BY <1>2, <1>3, PacketTimes, InOrderKeeps
  <1>5. Fits(line, b)
    BY <1>1, <1>2 DEF Fits
  <1>6. FlowsReady' /\ asked'[Len(asked')] = 0
    BY <1>1, <1>2, <1>4, <1>5, AnyType, FlowAdded DEF SourcesReady
  <1>7. t' \in Nat
    BY <1>1, SourceConstants
  <1>8. LineReady'
    BY <1>1, <1>6, <1>7, NewLine
  <1> QED
    BY <1>6, <1>8 DEF SourcesReady

LEMMA ElephantReady ==
    ASSUME SourcesReady, Kept, Elephant
    PROVE  SourcesReady'
  <1>1. PICK j \in [1..CbrCount(0, horizon_ns, Interval) -> Jitters] :
           LET p == Cbr(0, horizon_ns, Interval, j)
           IN  IF p = << >> THEN UNCHANGED <<pairs, asked>> ELSE AddFlow(p, Unasked)
    BY DEF Elephant
  <1> DEFINE p == Cbr(0, horizon_ns, Interval, j)
  <1>2. source = "synthetic_sustained" /\ count' = count + 1
        /\ UNCHANGED <<source, line, t>>
    BY DEF Elephant
  <1>3. p \in Seq(Packets) /\ Rising(p)
    <2>1. 0 \in Nat /\ horizon_ns \in Nat /\ horizon_ns <= horizon_ns
          /\ Interval \in Nat \ {0}
      BY SourceConstants
    <2>2. p \in Seq(FullPackets) /\ Rising(p)
      BY <2>1, CbrTimeline
    <2> HIDE DEF p
    <2> QED
      BY <2>2, FullFacts
  <1>4. IF p = << >> THEN UNCHANGED <<pairs, asked>> ELSE AddFlow(p, Unasked)
    BY <1>1
  <1> HIDE DEF p
  <1>5. Unasked \in Int
    BY DEF Unasked
  <1>6. Fits(p, Unasked)
    BY <1>2, <1>3, <1>5, AnyType, SortedFits
  <1>7. FlowsReady'
    BY <1>3, <1>4, <1>5, <1>6, AnyType, FlowAdded, FlowsUnchanged DEF SourcesReady
  <1>8. LineReady'
    BY <1>2, OtherLine DEF SourcesReady, LineReady
  <1> QED
    BY <1>7, <1>8 DEF SourcesReady

LEMMA MouseReady ==
    ASSUME SourcesReady, Kept, Mouse
    PROVE  SourcesReady'
  <1>1. PICK arrival \in Arrivals, s \in Sizes :
          LET from == arrival \div Grain
              size == Least(Greatest(s, Mtu * Grain), MaxBytes * Grain)
              to == MouseEnd(from, size)
          IN  /\ t' = arrival
              /\ \E j \in [1..CbrCount(from, to, Gap) -> Jitters] :
                    LET p == Trimmed(Cbr(from, to, Gap, j), size)
                    IN  IF p = << >> THEN UNCHANGED <<pairs, asked>>
                        ELSE AddFlow(p, CeilDiv(size, Grain))
    BY DEF Mouse
  <1> DEFINE from == arrival \div Grain
             size == Least(Greatest(s, Mtu * Grain), MaxBytes * Grain)
             to == MouseEnd(from, size)
  <1>2. PICK j \in [1..CbrCount(from, to, Gap) -> Jitters] :
           LET p == Trimmed(Cbr(from, to, Gap, j), size)
           IN  IF p = << >> THEN UNCHANGED <<pairs, asked>>
               ELSE AddFlow(p, CeilDiv(size, Grain))
    BY <1>1
  <1>3. source = "synthetic_sustained" /\ UNCHANGED <<source, line, count>>
    BY DEF Mouse
  <1>4. arrival \in Nat /\ from \in Nat /\ s \in Nat /\ t' \in Nat
    BY <1>1, SourceConstants, DivMod
  <1>5. size \in Nat
    <2>1. Mtu * Grain \in Nat /\ MaxBytes * Grain \in Nat
      BY Constants, NatProducts
    <2> QED
      BY <1>4, <2>1 DEF Least, Greatest
  <1> DEFINE q == Cbr(from, to, Gap, j)
             p == Trimmed(q, size)
             b == CeilDiv(size, Grain)
  <1>6. IF p = << >> THEN UNCHANGED <<pairs, asked>> ELSE AddFlow(p, b)
    BY <1>2
  <1> HIDE DEF size, from
  <1>7. to \in Nat /\ to <= horizon_ns
    <2> DEFINE x == size * NsPerByte
               g == Grain * Grain
    <2>1. x \in Nat /\ g \in Nat \ {0}
      BY <1>5, SourceConstants, NatProducts, Products
    <2>2. to = Least(horizon_ns, from + x \div g + 1)
      BY DEF MouseEnd
    <2> HIDE DEF x, g, to
    <2>3. x \div g \in Nat
      BY <2>1, DivMod
    <2> QED
      BY <1>4, <2>2, <2>3, SourceConstants DEF Least
  <1> HIDE DEF to
  <1>8. q \in Seq(FullPackets) /\ Rising(q)
    BY <1>4, <1>7, SourceConstants, CbrTimeline
  <1> HIDE DEF q
  <1>9. p \in Seq(Packets) /\ Rising(p) /\ Bytes(p) <= b
    BY <1>5, <1>8, TrimmedTimeline
  <1>10. b \in Int
    BY <1>5, Ceiling, SourceConstants
  <1> HIDE DEF p, b
  <1>11. Fits(p, b)
    BY <1>3, <1>9, <1>10, AnyType, SortedFits
  <1>12. FlowsReady'
    BY <1>6, <1>9, <1>10, <1>11, AnyType, FlowAdded, FlowsUnchanged DEF SourcesReady
  <1>13. LineReady'
    BY <1>3, <1>4, OtherLine DEF SourcesReady, LineReady
  <1> QED
    BY <1>12, <1>13 DEF SourcesReady

LEMMA OnPeriodReady ==
    ASSUME SourcesReady, Kept, OnPeriod
    PROVE  SourcesReady'
  <1>1. PICK d \in OnTimes :
          LET to == Least(horizon_ns * Grain, t + d)
              n == CbrCount(t \div Grain, to \div Grain, OnInterval)
          IN  /\ \E j \in [1..n -> Jitters] :
                    line' = line \o Cbr(t \div Grain, to \div Grain, OnInterval, j)
              /\ t' = to
    BY DEF OnPeriod
  <1> DEFINE to == Least(horizon_ns * Grain, t + d)
             n == CbrCount(t \div Grain, to \div Grain, OnInterval)
  <1>2. PICK j \in [1..n -> Jitters] :
           line' = line \o Cbr(t \div Grain, to \div Grain, OnInterval, j)
    BY <1>1
  <1>3. source = "synthetic_rates" /\ count' = count + 1
        /\ UNCHANGED <<source, pairs, asked>>
    BY DEF OnPeriod
  <1>4. line \in Seq(Packets) /\ t \in Nat /\ count \in Nat
    BY DEF SourcesReady, LineReady
  <1>5. to \in Nat /\ to <= horizon_ns * Grain /\ t' = to
    <2> DEFINE h == horizon_ns * Grain
    <2>1. h \in Nat /\ d \in Nat
      BY SourceConstants
    <2> HIDE DEF h
    <2> QED
      BY <1>1, <1>4, <2>1 DEF Least, h
  <1> HIDE DEF to
  <1>6. t \div Grain \in Nat /\ to \div Grain \in Nat /\ to \div Grain <= horizon_ns
    <2>1. (horizon_ns * Grain) \div Grain = horizon_ns
      BY SourceConstants, DivTimes
    <2>2. to \div Grain <= (horizon_ns * Grain) \div Grain
      BY <1>5, SourceConstants, DivMonotone
    <2> QED
      BY <1>4, <1>5, <2>1, <2>2, SourceConstants, DivMod
  <1> DEFINE q == Cbr(t \div Grain, to \div Grain, OnInterval, j)
  <1>7. q \in Seq(FullPackets)
    BY <1>6, SourceConstants, CbrTimeline
  <1> HIDE DEF q
  <1>8. line' \in Seq(Packets)
    BY <1>2, <1>4, <1>7, FullFacts DEF q
  <1>9. FlowsReady'
    BY <1>3, FlowsUnchanged DEF SourcesReady
  <1>10. LineReady'
    BY <1>3, <1>4, <1>5, <1>8, OtherLine
  <1> QED
    BY <1>9, <1>10 DEF SourcesReady

LEMMA OffPeriodReady ==
    ASSUME SourcesReady, Kept, OffPeriod
    PROVE  SourcesReady'
  <1>1. /\ source = "synthetic_rates" /\ count' = count + 1
        /\ \E d \in OffTimes : t' = t + d
        /\ UNCHANGED <<source, pairs, line, asked>>
    BY DEF OffPeriod
  <1>2. line \in Seq(Packets) /\ t \in Nat /\ count \in Nat
    BY DEF SourcesReady, LineReady
  <1>3. t' \in Nat /\ count' \in Nat /\ line' \in Seq(Packets)
    BY <1>1, <1>2, SourceConstants
  <1>4. FlowsReady'
    BY <1>1, FlowsUnchanged DEF SourcesReady
  <1>5. LineReady'
    BY <1>1, <1>3, OtherLine
  <1> QED
    BY <1>4, <1>5 DEF SourcesReady

LEMMA ConstantRateReady ==
    ASSUME SourcesReady, Kept, ConstantRate
    PROVE  SourcesReady'
  <1>1. PICK j \in [1..CbrCount(0, horizon_ns, Interval) -> Jitters] :
           line' = Cbr(0, horizon_ns, Interval, j)
    BY DEF ConstantRate
  <1>2. /\ source = "synthetic_rates" /\ t' = horizon_ns * Grain /\ count' = 1
        /\ UNCHANGED <<source, pairs, asked>>
    BY DEF ConstantRate
  <1>3. 0 \in Nat /\ horizon_ns \in Nat /\ horizon_ns <= horizon_ns
        /\ Interval \in Nat \ {0} /\ t' \in Nat /\ count' \in Nat
    BY <1>2, SourceConstants
  <1>4. line' \in Seq(FullPackets)
    BY <1>1, <1>3, CbrTimeline
  <1>5. line' \in Seq(Packets)
    BY <1>4, FullFacts
  <1>6. FlowsReady'
    BY <1>2, FlowsUnchanged DEF SourcesReady
  <1>7. LineReady'
    BY <1>2, <1>3, <1>5, OtherLine
  <1> QED
    BY <1>6, <1>7 DEF SourcesReady

LEMMA CycleReady ==
    ASSUME SourcesReady, Kept, Cycle
    PROVE  SourcesReady'
  <1>1. PICK on \in OnTimes, off \in OffTimes :
          LET to == Least(t + on, horizon_ns * Grain)
              n == (to - t) \div Iat + 1
              ts(i) == (t + (i - 1) * Iat) \div Grain
          IN  /\ line' = line \o Masked([i \in 1..n |-> Packet(ts(i), Mtu)],
                                        LAMBDA p : p.ts < horizon_ns)
              /\ t' = t + on + off
    BY DEF Cycle
  <1> DEFINE to == Least(t + on, horizon_ns * Grain)
             p == OnPackets(t, to)
             q == Picked(p, {i \in DOMAIN p : p[i].ts < horizon_ns})
  <1>2. /\ source = "imc17_cdf" /\ count' = count + 1 /\ ~AtEnd
        /\ UNCHANGED <<source, pairs, asked>>
    BY DEF Cycle
  <1>3. line' = line \o q /\ t' = t + on + off
    BY <1>1 DEF OnPackets, Masked
  <1>4. /\ line \in Seq(Packets) /\ t \in Nat /\ count \in Nat
        /\ Spaced(line, 0) /\ (line # << >> => LastStamp(line) <= t \div Grain)
    <2>1. LeastGap = 0
      BY <1>2, Gaps
    <2>2. /\ line \in Seq(Packets) /\ t \in Nat /\ count \in Nat
          /\ Spaced(line, LeastGap)
          /\ line # << >> => LastStamp(line) + LeastGap <= t \div Grain
      BY <1>2 DEF SourcesReady, LineReady
    <2>3. line # << >> => LastStamp(line) + 0 = LastStamp(line)
      <3> SUFFICES ASSUME line # << >> PROVE LastStamp(line) + 0 = LastStamp(line)
        OBVIOUS
      <3>1. Len(line) \in 1..Len(line)
        <4>1. Len(line) \in Nat /\ Len(line) # 0
          BY <2>2
        <4> QED
          BY <4>1
      <3>2. line[Len(line)].ts \in Nat
        BY <2>2, <3>1, TimelineFacts
      <3> QED
        BY <3>2 DEF LastStamp
    <2> QED
      BY <2>1, <2>2, <2>3
  <1>5. to \in Nat /\ t <= to /\ to <= t + on /\ on \in Nat /\ off \in Nat
    <2> DEFINE h == horizon_ns * Grain
    <2>1. h \in Nat /\ on \in Nat /\ off \in Nat
      BY SourceConstants
    <2>2. t < h
      BY <1>2, <1>4, <2>1 DEF AtEnd
    <2> HIDE DEF h
    <2> QED
      BY <1>4, <2>1, <2>2 DEF Least, h
  <1> HIDE DEF to
  <1>6. /\ q \in Seq(Packets) /\ Rising(q)
        /\ \A k \in 1..Len(q) :
              t \div Grain <= q[k].ts /\ q[k].ts <= to \div Grain
    BY <1>4, <1>5, CycleTimeline
  <1> HIDE DEF q, p
  <1>7. /\ t \div Grain \in Nat /\ to \div Grain \in Nat /\ t' \div Grain \in Nat
        /\ t \div Grain <= t' \div Grain /\ to \div Grain <= t' \div Grain
        /\ t' \in Nat
    <2>1. t' \in Nat /\ t <= t' /\ to <= t'
      BY <1>3, <1>4, <1>5
    <2> QED
      BY <1>4, <1>5, <2>1, SourceConstants, DivMonotone, DivMod
  <1>8. Spaced(q, 0)
    BY <1>6, AnyType, RisingSpaced
  <1>9. q # << >> => 1 \in 1..Len(q) /\ Len(q) \in 1..Len(q)
                     /\ q[1].ts \in Nat /\ q[Len(q)].ts \in Nat
    <2> SUFFICES ASSUME q # << >>
                 PROVE  1 \in 1..Len(q) /\ Len(q) \in 1..Len(q)
                        /\ q[1].ts \in Nat /\ q[Len(q)].ts \in Nat
      OBVIOUS
    <2>1. Len(q) \in Nat /\ Len(q) # 0
      BY <1>6
    <2>2. 1 \in 1..Len(q) /\ Len(q) \in 1..Len(q)
      BY <2>1
    <2> QED
      BY <1>6, <2>2, TimelineFacts
  <1>10. line # << >> => LastStamp(line) \in Nat
    <2> SUFFICES ASSUME line # << >> PROVE LastStamp(line) \in Nat
      OBVIOUS
    <2>1. Len(line) \in Nat /\ Len(line) # 0
      BY <1>4
    <2>2. Len(line) \in 1..Len(line)
      BY <2>1
    <2>3. line[Len(line)].ts \in Nat
      BY <1>4, <2>2, TimelineFacts
    <2> QED
      BY <2>3 DEF LastStamp
  <1>11. line # << >> /\ q # << >> => LastStamp(line) + 0 <= q[1].ts
    BY <1>4, <1>6, <1>7, <1>9, <1>10
  <1>12. line \o q \in Seq(Packets) /\ Spaced(line \o q, 0)
    <2>1. 0 \in Nat
      OBVIOUS
    <2> QED
      BY <1>4, <1>6, <1>8, <1>11, <2>1, SpacedConcat
  <1>13. line' # << >> => LastStamp(line') + 0 <= t' \div Grain
    <2> SUFFICES ASSUME line' # << >> PROVE LastStamp(line') + 0 <= t' \div Grain
      OBVIOUS
    <2>1. CASE q = << >>
      <3>1. line' = line
        BY <1>3, <1>4, <2>1
      <3> QED
        BY <1>4, <1>7, <1>10, <3>1
    <2>2. CASE q # << >>
      <3>1. LastStamp(line') = LastStamp(q)
        BY <1>3, <1>4, <1>6, <2>2, LastOfConcat
      <3>2. LastStamp(q) = q[Len(q)].ts
        BY DEF LastStamp
      <3> QED
        BY <1>6, <1>7, <1>9, <2>2, <3>1, <3>2
    <2> QED
      BY <2>1, <2>2
  <1>14. LineReady'
    <2>1. LeastGap' = 0
      BY <1>2 DEF LeastGap
    <2>2. source' = "imc17_cdf" /\ count' \in Nat
      BY <1>2, <1>4
    <2> QED
      BY <1>3, <1>7, <1>12, <1>13, <2>1, <2>2 DEF LineReady
  <1>15. FlowsReady'
    BY <1>2, FlowsUnchanged DEF SourcesReady
  <1> QED
    BY <1>14, <1>15 DEF SourcesReady

LEMMA EndFlowReady ==
    ASSUME SourcesReady, Kept, EndFlow
    PROVE  SourcesReady'
  <1>1. PICK sz \in [DOMAIN line -> PktSizes] :
          LET p == IF source = "imc17_cdf" THEN line ELSE InOrder(line)
          IN  AddFlow([i \in DOMAIN p |-> Packet(p[i].ts, sz[i])], Unasked)
    BY DEF EndFlow
  <1> DEFINE p == IF source = "imc17_cdf" THEN line ELSE InOrder(line)
             q == [i \in DOMAIN p |-> Packet(p[i].ts, sz[i])]
  <1>2. /\ source \in {"synthetic_rates", "imc17_cdf"} /\ source' = source
        /\ line' = << >> /\ count' = 0
        /\ t' \in IF source = "imc17_cdf" THEN Phases ELSE {0}
    BY DEF EndFlow
  <1>3. line \in Seq(Packets)
    BY DEF SourcesReady, LineReady
  <1>4. p \in Seq(Packets) /\ Rising(p) /\ Len(p) = Len(line)
    <2>1. CASE source = "imc17_cdf"
      <3>1. Spaced(line, LeastGap)
        BY <2>1 DEF SourcesReady, LineReady
      <3>2. Rising(line)
        BY <1>3, <3>1, Gaps, AnyType, SpacedRising
      <3> QED
        BY <1>3, <2>1, <3>2
    <2>2. CASE source # "imc17_cdf"
      <3>1. p = InOrder(line)
        BY <2>2
      <3> QED
        BY <1>3, <3>1, PacketTimes, InOrderSorts
    <2> QED
      BY <2>1, <2>2
  <1>5. AddFlow(q, Unasked)
    BY <1>1
  <1> HIDE DEF p
  <1>6. DOMAIN p = DOMAIN line
    <2>1. DOMAIN p = 1..Len(p) /\ DOMAIN line = 1..Len(line)
      BY <1>3, <1>4
    <2> QED
      BY <1>4, <2>1
  <1>7. sz \in [DOMAIN p -> PktSizes]
    BY <1>6
  <1>8. q \in Seq(AnyPackets) /\ Rising(q)
    BY <1>4, <1>7, SizedTimeline
  <1> HIDE DEF q
  <1>9. Unasked \in Int
    BY DEF Unasked
  <1>10. Fits(q, Unasked)
    BY <1>2, <1>8, <1>9, SortedFits DEF MixedSizes
  <1>11. FlowsReady'
    BY <1>5, <1>8, <1>9, <1>10, FlowAdded DEF SourcesReady
  <1>12. t' \in Nat
    BY <1>2, SourceConstants
  <1>13. LineReady'
    BY <1>2, <1>12, NewLine
  <1> QED
    BY <1>11, <1>13 DEF SourcesReady

LEMMA CsvRowReady ==
    ASSUME SourcesReady, Kept, stage = "generate", CsvRow
    PROVE  SourcesReady'
  <1>1. PICK f \in 1..Least(Len(pairs) + 1, MaxFlows[source]), ts \in 0..horizon_ns,
             sz \in PktSizes :
          IF ts >= horizon_ns THEN UNCHANGED <<pairs, asked>>
          ELSE IF f > Len(pairs) THEN AddFlow(<<Packet(ts, sz)>>, Unasked)
          ELSE /\ pairs' = [pairs EXCEPT ![f] = Append(@, Packet(ts, sz))]
               /\ UNCHANGED asked
    BY DEF CsvRow
  <1>2. source = "trace_csv" /\ count' = count + 1 /\ UNCHANGED <<source, line, t>>
    BY DEF CsvRow
  <1>3. LineReady'
    BY <1>2, OtherLine DEF SourcesReady, LineReady
  <1>4. FlowsReady
    BY DEF SourcesReady
  <1> DEFINE x == Packet(ts, sz)
  <1>5. ~(ts >= horizon_ns) => x \in AnyPackets
    <2> SUFFICES ASSUME ~(ts >= horizon_ns) PROVE x \in AnyPackets
      OBVIOUS
    <2>1. ts \in 0..(horizon_ns - 1)
      BY SourceConstants
    <2>2. sz \in Int
      BY FlowSourcesAssumption
    <2> QED
      BY <2>1, <2>2 DEF Packet, AnyPackets
  <1> HIDE DEF x
  <1>6. Unasked \in Int /\ \A p : Fits(p, Unasked)
    BY <1>2 DEF Unasked, Fits, MixedSizes
  <1>7. CASE ts >= horizon_ns
    <2>1. FlowsReady'
      BY <1>1, <1>4, <1>7, FlowsUnchanged
    <2> QED
      BY <1>3, <2>1 DEF SourcesReady
  <1>8. CASE ~(ts >= horizon_ns) /\ f > Len(pairs)
    <2>1. <<x>> \in Seq(AnyPackets)
      BY <1>5, <1>8
    <2>2. AddFlow(<<x>>, Unasked)
      BY <1>1, <1>8 DEF x
    <2>3. FlowsReady'
      BY <1>4, <1>6, <2>1, <2>2, FlowAdded
    <2> QED
      BY <1>3, <2>3 DEF SourcesReady
  <1>9. CASE ~(ts >= horizon_ns) /\ ~(f > Len(pairs))
    <2>1. /\ pairs' = [pairs EXCEPT ![f] = Append(@, x)] /\ UNCHANGED asked
      BY <1>1, <1>9 DEF x
    <2>2. /\ pairs \in Seq(Seq(AnyPackets)) /\ Len(pairs) \in Nat
          /\ asked \in Seq(Int) /\ Len(asked) = Len(pairs) + 1
          /\ \A k \in DOMAIN pairs : Fits(pairs[k], asked[k])
      BY <1>4 DEF FlowsReady
    <2>3. f \in 1..Len(pairs) /\ x \in AnyPackets
      <3>1. f \in Nat \ {0}
        BY <2>2, FlowSourcesAssumption DEF Least
      <3> QED
        BY <1>5, <1>9, <2>2, <3>1
    <2>4. pairs[f] \in Seq(AnyPackets)
      BY <2>2, <2>3
    <2>5. Append(pairs[f], x) \in Seq(AnyPackets)
      BY <2>3, <2>4
    <2>6. pairs' \in Seq(Seq(AnyPackets)) /\ Len(pairs') = Len(pairs)
          /\ DOMAIN pairs' = DOMAIN pairs
      <3> DEFINE S == Seq(AnyPackets)
                 y == Append(pairs[f], x)
      <3>1. pairs \in Seq(S) /\ y \in S /\ pairs' = [pairs EXCEPT ![f] = y]
        BY <2>1, <2>2, <2>5
      <3> HIDE DEF S, y
      <3>2. pairs' \in Seq(S) /\ Len(pairs') = Len(pairs) /\ DOMAIN pairs' = DOMAIN pairs
        BY <2>3, <3>1
      <3> QED
        BY <3>2 DEF S
    <2>7. \A k \in DOMAIN pairs : asked[k] = Unasked
      BY <1>2, <2>2 DEF Fits
    <2>8. \A k \in DOMAIN pairs' : Fits(pairs'[k], asked'[k])
      BY <1>6, <2>1, <2>6, <2>7
    <2>9. \A k \in DOMAIN pairs' : Fits(pairs[k], asked[k])'
      BY <2>8, FitsKept
    <2>10. FlowsReady'
      BY <2>1, <2>2, <2>6, <2>9 DEF FlowsReady
    <2> QED
      BY <1>3, <2>10 DEF SourcesReady
  <1> QED
    BY <1>7, <1>8, <1>9

LEMMA NextSourcesReady ==
    ASSUME SourcesReady, Kept, stage = "generate", NextSources
    PROVE  SourcesReady'
  BY PoissonFlowReady, RpcMessageReady, NextConnectionReady, ElephantReady,
     MouseReady, OnPeriodReady, OffPeriodReady, ConstantRateReady, CycleReady,
     EndFlowReady, CsvRowReady DEF NextSources

LEMMA SourceKept == NextSources => source' = source
  BY DEF NextSources, PoissonFlow, RpcMessage, NextConnection, Elephant, Mouse,
         OnPeriod, OffPeriod, ConstantRate, Cycle, EndFlow, CsvRow

LEMMA SourcesReadyKept ==
    ASSUME SourcesReady, stage' = stage \/ (stage # "generate" /\ stage' # "generate"),
           UNCHANGED genVars
    PROVE  SourcesReady'
  <1>1. UNCHANGED <<source, pairs, line, t, count, asked>>
    BY DEF genVars
  <1>2. \A p, bytes : Fits(p, bytes)' <=> Fits(p, bytes)
    BY <1>1 DEF Fits, LeastGap, Packets
  <1>3. \A k \in DOMAIN pairs' : Fits(pairs[k], asked[k])'
    BY <1>1, <1>2 DEF SourcesReady, FlowsReady
  <1>4. FlowsReady'
    BY <1>1, <1>3 DEF SourcesReady, FlowsReady
  <1>5. LineReady'
    BY <1>1 DEF SourcesReady, LineReady, LeastGap
  <1> QED
    BY <1>4, <1>5 DEF SourcesReady

LEMMA InitSourcesReady ==
    ASSUME InitSources, stage = "generate"
    PROVE  SourcesReady
  <1>1. /\ pairs = << >> /\ line = << >> /\ count = 0 /\ asked = <<0>>
        /\ t \in IF source \in {"rpc", "imc17_cdf"} THEN Phases ELSE {0}
    BY DEF InitSources
  <1>2. t \in Nat
    BY <1>1, SourceConstants
  <1>3. FlowsReady
    <2>1. << >> \in Seq(Seq(AnyPackets)) /\ DOMAIN << >> = {} /\ Len(<< >>) = 0
          /\ <<0>> \in Seq(Int) /\ Len(<<0>>) = 1
      OBVIOUS
    <2> QED
      BY <1>1, <2>1 DEF FlowsReady
  <1>4. LineReady
    <2>1. << >> \in Seq(Packets) /\ Spaced(<< >>, LeastGap) /\ Budgeted(<< >>, 0)
      BY Gaps, NothingLine
    <2>2. asked[Len(asked)] = 0
      BY <1>1
    <2> QED
      BY <1>1, <1>2, <2>1, <2>2 DEF LineReady
  <1> QED
    BY <1>3, <1>4 DEF SourcesReady

(* What a source returns.                                                  *)
LEMMA ReturnReady ==
    ASSUME SourcesReady, source' = source, stage' # "generate",
           pairs' = Timelines, UNCHANGED asked,
           line' = << >>, t' = 0, count' = 0
    PROVE  SourcesReady'
  <1>1. /\ pairs \in Seq(Seq(AnyPackets)) /\ asked \in Seq(Int)
        /\ Len(asked) = Len(pairs) + 1 /\ Len(pairs) \in Nat
        /\ DOMAIN pairs = 1..Len(pairs)
        /\ \A k \in DOMAIN pairs : Fits(pairs[k], asked[k])
    BY DEF SourcesReady, FlowsReady
  <1>2. LeastGap' = LeastGap
    BY DEF LeastGap
  <1>3. FlowsReady'
    <2>1. CASE source = "trace_csv"
      <3> DEFINE n == Len(pairs)
                 q == [f \in DOMAIN pairs |-> InOrder(BySize(pairs[f]))]
      <3>1. pairs' = q
        BY <2>1 DEF Timelines
      <3>2. LeastGap = 0
        BY <2>1, Gaps
      <3>3. \A k \in 1..n : q[k] \in Seq(AnyPackets) /\ Spaced(q[k], LeastGap)
        <4> SUFFICES ASSUME NEW k \in 1..n
                     PROVE  q[k] \in Seq(AnyPackets) /\ Spaced(q[k], LeastGap)
          OBVIOUS
        <4>1. pairs[k] \in Seq(AnyPackets)
          BY <1>1
        <4>2. \A x \in AnyPackets : x.sz \in Int
          BY AnyType
        <4>3. BySize(pairs[k]) \in Seq(AnyPackets)
          BY <4>1, <4>2, BySizeSorts
        <4> DEFINE p == InOrder(BySize(pairs[k]))
        <4>4. p \in Seq(AnyPackets) /\ Rising(p)
          BY <4>3, PacketTimes, InOrderSorts
        <4>5. Spaced(p, 0)
          BY <4>4, RisingSpaced
        <4>6. q[k] = p
          BY <1>1
        <4> QED
          BY <3>2, <4>4, <4>5, <4>6
      <3>4. DOMAIN q = 1..n /\ q = [k \in 1..n |-> q[k]] /\ n \in Nat
        BY <1>1
      <3> HIDE DEF q, n
      <3>5. q \in Seq(Seq(AnyPackets)) /\ Len(q) = n
        BY <3>3, <3>4, IsSeq
      <3>6. \A k \in 1..n : asked[k] = Unasked
        BY <1>1, <2>1 DEF Fits, n
      <3>7. \A k \in DOMAIN pairs' : Fits(pairs[k], asked[k])'
        BY <1>2, <2>1, <3>1, <3>3, <3>4, <3>6 DEF Fits, Unasked, MixedSizes
      <3> QED
        BY <1>1, <3>1, <3>5, <3>7 DEF FlowsReady, n
    <2>2. CASE source # "trace_csv"
      <3>1. pairs' = pairs
        BY <2>2 DEF Timelines
      <3>2. \A p, bytes : Fits(p, bytes) => Fits(p, bytes)'
        BY <1>2, <2>2 DEF Fits, Unasked, Packets
      <3>3. \A k \in DOMAIN pairs' : Fits(pairs[k], asked[k])'
        BY <1>1, <3>1, <3>2
      <3> QED
        BY <1>1, <3>1, <3>3 DEF FlowsReady
    <2> QED
      BY <2>1, <2>2
  <1>4. LineReady'
    <2>1. << >> \in Seq(Packets) /\ Spaced(<< >>, LeastGap)
      BY Gaps, NothingLine
    <2> QED
      BY <1>2, <2>1 DEF LineReady
  <1> QED
    BY <1>3, <1>4 DEF SourcesReady

-----------------------------------------------------------------------------
(* Shares of a target, rounded down.                                       *)

LEMMA SumTimes ==
    ASSUME NEW n \in Nat, NEW f, NEW h, NEW w \in Int,
           \A k \in 1..n : f[k] \in Int /\ h[k] = f[k] * w
    PROVE  SumFunctionOnSet(h, 1..n) = SumFunctionOnSet(f, 1..n) * w
  <1> DEFINE N == {m \in Nat : m <= n =>
                     /\ SumFunctionOnSet(f, 1..m) \in Int
                     /\ SumFunctionOnSet(h, 1..m) = SumFunctionOnSet(f, 1..m) * w}
  <1>1. 0 \in N
    <2>1. 1..0 = {} /\ 0 * w = 0
      OBVIOUS
    <2> QED
      BY <2>1, SumOverNothing
  <1>2. ASSUME NEW m \in Nat, m \in N PROVE m + 1 \in N
    <2> DEFINE a == SumFunctionOnSet(f, 1..m)
               b == SumFunctionOnSet(f, 1..(m + 1))
               c == SumFunctionOnSet(h, 1..m)
               d == SumFunctionOnSet(h, 1..(m + 1))
    <2> SUFFICES ASSUME m + 1 <= n PROVE b \in Int /\ d = b * w
      OBVIOUS
    <2>1. m <= n /\ \A k \in 1..(m + 1) : k \in 1..n
      OBVIOUS
    <2>2. \A k \in 1..(m + 1) : f[k] \in Int /\ h[k] = f[k] * w /\ h[k] \in Int
      BY <2>1
    <2>3. a \in Int /\ c = a * w
      BY <1>2, <2>1
    <2>4. b = a + f[m + 1] /\ d = c + h[m + 1]
      BY <2>2, SumLast
    <2> HIDE DEF a, b, c, d
    <2>5. m + 1 \in 1..(m + 1)
      OBVIOUS
    <2>6. f[m + 1] \in Int /\ h[m + 1] = f[m + 1] * w
      BY <2>2, <2>5
    <2>7. \A x, y \in Int : x * w + y * w = (x + y) * w
      OBVIOUS
    <2> QED
      BY <2>3, <2>4, <2>6, <2>7
  <1> HIDE DEF N
  <1>3. Nat \subseteq N
    BY <1>1, <1>2, Induction
  <1> QED
    BY <1>3 DEF N

(* A sum over what a sequence without repetitions lists.                   *)
Lists(q, n, P) ==
    P = {q[k] : k \in 1..n} /\ \A i, j \in 1..n : q[i] = q[j] => i = j

LEMMA SumListed ==
    ASSUME NEW n \in Nat, NEW q, NEW P, Lists(q, n, P), NEW f, NEW h,
           \A k \in 1..n : h[k] \in Int /\ h[k] = f[q[k]]
    PROVE  SumFunctionOnSet(f, P) = SumFunctionOnSet(h, 1..n) /\ IsFiniteSet(P)
  <1>0. P = {q[k] : k \in 1..n} /\ \A i, j \in 1..n : q[i] = q[j] => i = j
    BY DEF Lists
  <1> DEFINE T(m) == {q[k] : k \in 1..m}
             N == {m \in Nat : m <= n =>
                     /\ IsFiniteSet(T(m))
                     /\ SumFunctionOnSet(f, T(m)) = SumFunctionOnSet(h, 1..m)}
  <1>1. 0 \in N
    <2>1. 1..0 = {} /\ T(0) = {}
      OBVIOUS
    <2> QED
      BY <2>1, SumOverNothing, FS_EmptySet
  <1>2. ASSUME NEW m \in Nat, m \in N PROVE m + 1 \in N
    <2> SUFFICES ASSUME m + 1 <= n
                 PROVE  /\ IsFiniteSet(T(m + 1))
                        /\ SumFunctionOnSet(f, T(m + 1)) = SumFunctionOnSet(h, 1..(m + 1))
      OBVIOUS
    <2> DEFINE x == q[m + 1]
    <2>1. /\ m <= n /\ m + 1 \in 1..n
          /\ \A k \in 1..(m + 1) : k \in 1..n
      OBVIOUS
    <2>2. IsFiniteSet(T(m)) /\ SumFunctionOnSet(f, T(m)) = SumFunctionOnSet(h, 1..m)
      BY <1>2, <2>1
    <2>3. T(m + 1) = T(m) \cup {x}
      <3>1. 1..(m + 1) = (1..m) \cup {m + 1}
        OBVIOUS
      <3> QED
        BY <3>1
    <2>4. x \notin T(m)
      <3>1. \A k \in 1..m : k \in 1..n /\ k # m + 1
        BY <2>1
      <3> QED
        BY <1>0, <2>1, <3>1
    <2>5. IsFiniteSet(T(m + 1))
      <3> HIDE DEF T
      <3> QED
        BY <2>2, <2>3, FS_AddElement
    <2>6. T(m + 1) \ {x} = T(m) /\ x \in T(m + 1)
      BY <2>3, <2>4
    <2>7. \A s \in T(m + 1) : f[s] \in Int
      <3> SUFFICES ASSUME NEW k \in 1..(m + 1) PROVE f[q[k]] \in Int
        OBVIOUS
      <3>1. k \in 1..n
        BY <2>1
      <3> QED
        BY <3>1
    <2> HIDE DEF T
    <2>8. SumFunctionOnSet(f, T(m + 1)) = f[x] + SumFunctionOnSet(f, T(m + 1) \ {x})
      BY <2>5, <2>6, <2>7, SumRemove
    <2>9. SumFunctionOnSet(h, 1..(m + 1)) = SumFunctionOnSet(h, 1..m) + h[m + 1]
          /\ SumFunctionOnSet(h, 1..m) \in Int
      <3>1. \A k \in 1..(m + 1) : h[k] \in Int
        BY <2>1
      <3> QED
        BY <3>1, SumLast
    <2>10. h[m + 1] = f[x] /\ h[m + 1] \in Int
      BY <2>1
    <2> HIDE DEF x
    <2>11. SumFunctionOnSet(f, T(m + 1)) = h[m + 1] + SumFunctionOnSet(h, 1..m)
      BY <2>2, <2>6, <2>8, <2>10
    <2> QED
      BY <2>5, <2>9, <2>10, <2>11
  <1> HIDE DEF N
  <1>3. Nat \subseteq N
    BY <1>1, <1>2, Induction
  <1> QED
    BY <1>0, <1>3 DEF N

(* Rounded shares of w among demands that come to more than w.             *)
LEMMA RoundedShares ==
    ASSUME NEW n \in Nat, NEW f, NEW g, NEW w \in Nat,
           \A k \in 1..n : f[k] \in Nat,
           SumFunctionOnSet(f, 1..n) > w,
           \A k \in 1..n : g[k] = (f[k] * w) \div SumFunctionOnSet(f, 1..n)
    PROVE  /\ \A k \in 1..n : g[k] \in Nat /\ g[k] <= f[k]
           /\ SumFunctionOnSet(g, 1..n) <= w
           /\ SumFunctionOnSet(g, 1..n) + n > w
  <1> DEFINE d == SumFunctionOnSet(f, 1..n)
             F == [k \in 1..n |-> f[k] * w]
             G == [k \in 1..n |-> g[k] * d]
             one == [k \in 1..n |-> 1]
             h == [k \in 1..n |-> g[k] + 1]
             H == [k \in 1..n |-> h[k] * d]
             F1 == [k \in 1..n |-> F[k] + one[k]]
             sum == SumFunctionOnSet(g, 1..n)
  <1>1. IsFiniteSet(1..n) /\ Cardinality(1..n) = n
    BY FS_Interval, 1 \in Int, n \in Int
  <1>2. d \in Nat /\ d > w /\ d # 0
    <2>1. d \in Nat
      BY <1>1, SumNatural
    <2> QED
      BY <2>1
  <1>3. n # 0
    <2> SUFFICES ASSUME n = 0 PROVE FALSE
      OBVIOUS
    <2>1. 1..n = {}
      OBVIOUS
    <2>2. d = 0
      BY <2>1, SumOverNothing
    <2> QED
      BY <1>2, <2>2
  <1> HIDE DEF d
  <1>4. \A k \in 1..n : /\ f[k] \in Nat /\ g[k] \in Nat /\ g[k] <= f[k]
                        /\ f[k] * w \in Nat /\ g[k] * d \in Nat
                        /\ g[k] * d <= f[k] * w
                        /\ f[k] * w + 1 <= (g[k] + 1) * d
    <2> SUFFICES ASSUME NEW k \in 1..n
                 PROVE  /\ f[k] \in Nat /\ g[k] \in Nat /\ g[k] <= f[k]
                        /\ f[k] * w \in Nat /\ g[k] * d \in Nat
                        /\ g[k] * d <= f[k] * w
                        /\ f[k] * w + 1 <= (g[k] + 1) * d
      OBVIOUS
    <2> DEFINE x == f[k] * w
               y == g[k]
               z == f[k]
    <2>1. z \in Nat /\ x \in Nat /\ y = x \div d /\ d \in Nat \ {0}
      BY <1>2, NatProducts DEF d
    <2>2. x <= z * d /\ x = z * w
      BY <1>2, <2>1, Times
    <2> HIDE DEF x, y, z
    <2>3. y \in Nat /\ x = d * y + (x % d) /\ x % d \in 0..(d - 1)
      BY <2>1, DivMod
    <2>4. y * d = d * y /\ (y + 1) * d = d * y + d /\ y * d \in Nat
      BY <2>1, <2>3
    <2>5. y * d <= x /\ x + 1 <= (y + 1) * d
      BY <2>1, <2>3, <2>4
    <2>6. y <= z
      <3>1. (z * d) \div d = z /\ x \div d <= (z * d) \div d
        <4>1. z * d \in Nat
          BY <2>1
        <4> QED
          BY <2>1, <2>2, <4>1, DivTimes, DivMonotone
      <3> QED
        BY <2>1, <3>1
    <2> QED
      BY <2>1, <2>3, <2>4, <2>5, <2>6 DEF x, y, z
  <1>5. \A k \in 1..n :
           /\ f[k] \in Int /\ F[k] \in Int /\ F[k] = f[k] * w
           /\ g[k] \in Int /\ G[k] \in Int /\ G[k] = g[k] * d /\ G[k] <= F[k]
           /\ one[k] = 1 /\ one[k] \in Int
           /\ h[k] \in Int /\ h[k] = g[k] + one[k]
           /\ H[k] \in Int /\ H[k] = h[k] * d
           /\ F1[k] \in Int /\ F1[k] = F[k] + one[k] /\ F1[k] <= H[k]
    <2> SUFFICES ASSUME NEW k \in 1..n
                 PROVE  /\ f[k] \in Int /\ F[k] \in Int /\ F[k] = f[k] * w
                        /\ g[k] \in Int /\ G[k] \in Int /\ G[k] = g[k] * d
                        /\ G[k] <= F[k]
                        /\ one[k] = 1 /\ one[k] \in Int
                        /\ h[k] \in Int /\ h[k] = g[k] + one[k]
                        /\ H[k] \in Int /\ H[k] = h[k] * d
                        /\ F1[k] \in Int /\ F1[k] = F[k] + one[k] /\ F1[k] <= H[k]
      OBVIOUS
    <2>1. /\ F[k] = f[k] * w /\ G[k] = g[k] * d /\ one[k] = 1
          /\ h[k] = g[k] + 1 /\ H[k] = (g[k] + 1) * d /\ F1[k] = f[k] * w + 1
      OBVIOUS
    <2>2. (g[k] + 1) * d \in Nat
      BY <1>2, <1>4
    <2> HIDE DEF F, G, one, h, H, F1
    <2> QED
      BY <1>4, <2>1, <2>2
  <1>6. sum \in Nat
    BY <1>1, <1>4, SumNatural
  <1>7. d = SumFunctionOnSet(f, 1..n) /\ sum = SumFunctionOnSet(g, 1..n)
    BY DEF d
  <1> HIDE DEF F, G, one, h, H, F1, sum
  <1>8. SumFunctionOnSet(F, 1..n) = d * w
    <2>1. \A k \in 1..n : f[k] \in Int /\ F[k] = f[k] * w
      BY <1>5
    <2>2. w \in Int
      OBVIOUS
    <2> QED
      BY <1>7, <2>1, <2>2, SumTimes
  <1>9. SumFunctionOnSet(G, 1..n) = sum * d
    <2>1. \A k \in 1..n : g[k] \in Int /\ G[k] = g[k] * d
      BY <1>5
    <2>2. d \in Int
      BY <1>2
    <2> QED
      BY <1>7, <2>1, <2>2, SumTimes
  <1>10. SumFunctionOnSet(G, 1..n) <= SumFunctionOnSet(F, 1..n)
    <2>1. \A k \in 1..n : G[k] \in Int /\ F[k] \in Int /\ G[k] <= F[k]
      BY <1>5
    <2> QED
      BY <1>1, <2>1, SumMonotone
  <1>11. SumFunctionOnSet(h, 1..n) = sum + n
    <2>1. SumFunctionOnSet(one, 1..n) = Cardinality(1..n) * 1
      <3>1. \A k \in 1..n : one[k] = 1
        BY <1>5
      <3>2. 1 \in Int
        OBVIOUS
      <3> QED
        BY <1>1, <3>1, <3>2, SumConstant
    <2>2. SumFunctionOnSet(h, 1..n) = sum + SumFunctionOnSet(one, 1..n)
      <3>1. \A k \in 1..n : g[k] \in Int /\ one[k] \in Int /\ h[k] = g[k] + one[k]
        BY <1>5
      <3> QED
        BY <1>1, <1>7, <3>1, SumPlus
    <2> QED
      BY <1>1, <2>1, <2>2
  <1>12. SumFunctionOnSet(H, 1..n) = (sum + n) * d
    <2>1. \A k \in 1..n : h[k] \in Int /\ H[k] = h[k] * d
      BY <1>5
    <2>2. d \in Int
      BY <1>2
    <2>3. SumFunctionOnSet(H, 1..n) = SumFunctionOnSet(h, 1..n) * d
      BY <2>1, <2>2, SumTimes
    <2> QED
      BY <1>11, <2>3
  <1>13. SumFunctionOnSet(F1, 1..n) = d * w + n
    <2>1. SumFunctionOnSet(one, 1..n) = Cardinality(1..n) * 1
      <3>1. \A k \in 1..n : one[k] = 1
        BY <1>5
      <3>2. 1 \in Int
        OBVIOUS
      <3> QED
        BY <1>1, <3>1, <3>2, SumConstant
    <2>2. SumFunctionOnSet(F1, 1..n)
             = SumFunctionOnSet(F, 1..n) + SumFunctionOnSet(one, 1..n)
      <3>1. \A k \in 1..n : F[k] \in Int /\ one[k] \in Int /\ F1[k] = F[k] + one[k]
        BY <1>5
      <3> QED
        BY <1>1, <3>1, SumPlus
    <2> QED
      BY <1>1, <1>8, <2>1, <2>2
  <1>14. SumFunctionOnSet(F1, 1..n) <= SumFunctionOnSet(H, 1..n)
    <2>1. \A k \in 1..n : F1[k] \in Int /\ H[k] \in Int /\ F1[k] <= H[k]
      BY <1>5
    <2> QED
      BY <1>1, <2>1, SumMonotone
  <1>15. sum * d <= w * d
    <2>1. d * w = w * d
      BY <1>2
    <2> QED
      BY <1>8, <1>9, <1>10, <2>1
  <1>16. w * d < (sum + n) * d
    <2>1. d * w + n <= (sum + n) * d
      BY <1>12, <1>13, <1>14
    <2>2. w * d = d * w /\ w * d \in Nat /\ (sum + n) * d \in Nat
      BY <1>2, <1>6
    <2> QED
      BY <1>3, <2>1, <2>2
  <1>17. sum <= w
    <2> SUFFICES ASSUME w < sum PROVE FALSE
      BY <1>6
    <2>1. w * d < sum * d /\ w * d \in Nat /\ sum * d \in Nat
      BY <1>2, <1>6, StrictlyMonotone
    <2> QED
      BY <1>15, <2>1
  <1>18. w < sum + n
    <2> SUFFICES ASSUME sum + n <= w PROVE FALSE
      BY <1>6
    <2>1. sum + n \in Nat /\ d \in Nat
      BY <1>2, <1>6
    <2>2. (sum + n) * d <= w * d /\ w * d \in Nat /\ (sum + n) * d \in Nat
      BY <2>1, Monotone
    <2> QED
      BY <1>16, <2>2
  <1> QED
    BY <1>4, <1>6, <1>7, <1>17, <1>18

-----------------------------------------------------------------------------
(* The HAL workload: its flows, and what they send in a window.            *)

HalFlows == [rate : Nat, total : Nat, rem : Nat, end : Nat, sent : Seq(Emissions)]

(* The flows of a class, each once, and no more than the cap.              *)
Listed(q, flowset) ==
    q \in Seq(flowset) /\ IsInjective(q) /\ Len(q) <= MaxAlive

HalReady ==
    /\ all \in Seq(HalFlows)
    /\ DOMAIN alive = ToSet(Classes)
    /\ \A c \in ToSet(Classes) : Listed(alive[c], DOMAIN all)
    /\ Listed(present, DOMAIN all)
    /\ class \in 1..Len(Classes) /\ window \in Nat
    /\ step \in {"window", "spawn"}
    /\ step = "spawn" => window < n_updates
    /\ target \in Nat /\ spawned \in 0..MaxSpawn

LEMMA HalConstants ==
    /\ RateUpdate \in Nat \ {0} /\ Tenants \in Nat \ {0}
    /\ MaxSpawn \in Nat \ {0} /\ MaxAlive \in Nat \ {0}
    /\ Len(Classes) \in Nat \ {0} /\ DOMAIN Classes = 1..Len(Classes)
    /\ n_updates \in Nat /\ horizon_ns \in Nat
    /\ \A a \in Attributes : a.size \in Nat /\ a.rate \in Nat \ {0} /\ a.duration \in Nat
    /\ \A r \in {Least(x, LinkRate) : x \in RawRates} : r \in Nat
  <1>1. /\ RateUpdate \in Nat \ {0} /\ Tenants \in Nat \ {0}
        /\ MaxSpawn \in Nat \ {0} /\ MaxAlive \in Nat \ {0}
    BY HalWorkloadAssumption
  <1>2. Len(Classes) \in Nat \ {0} /\ DOMAIN Classes = 1..Len(Classes)
    BY HalWorkloadAssumption
  <1>3. n_updates \in Nat /\ horizon_ns \in Nat
    BY <1>1, HorizonType, Ceiling DEF n_updates
  <1>4. \A a \in Attributes : a.size \in Nat /\ a.rate \in Nat \ {0} /\ a.duration \in Nat
    <2> SUFFICES ASSUME NEW a \in Attributes
                 PROVE  a.size \in Nat /\ a.rate \in Nat \ {0} /\ a.duration \in Nat
      OBVIOUS
    <2>1. PICK s \in FlowSizes : a.size = Greatest(Mtu \div 2, s)
      BY DEF Attributes
    <2>2. PICK r \in FlowRates : a.rate = Greatest(Least(r, RateCap), RateFloor)
      BY DEF Attributes
    <2>3. PICK d \in FlowDurations : a.duration = Greatest(1, d)
      BY DEF Attributes
    <2>4. s \in Nat /\ r \in Nat /\ d \in Nat /\ RateFloor \in Nat \ {0} /\ RateCap \in Nat
      BY HalWorkloadAssumption
    <2>5. Mtu \div 2 \in Nat
      <3>1. \A z \in Nat : z \div 2 \in Nat
        OBVIOUS
      <3> QED
        BY <3>1, Constants
    <2> QED
      BY <2>1, <2>2, <2>3, <2>4, <2>5 DEF Greatest, Least
  <1>5. \A r \in {Least(x, LinkRate) : x \in RawRates} : r \in Nat
    BY HalWorkloadAssumption DEF Least
  <1> QED
    BY <1>1, <1>2, <1>3, <1>4, <1>5

(* A window is a span of time.                                             *)
LEMMA WindowSpan ==
    ASSUME window \in Nat, window < n_updates
    PROVE  t_start \in Nat /\ t_end \in Nat /\ t_start <= t_end
  <1>1. RateUpdate \in Nat \ {0} /\ horizon_ns \in Nat
    BY HalConstants
  <1> DEFINE a == window * RateUpdate
             b == (window + 1) * RateUpdate
  <1>2. a < horizon_ns
    BY <1>1, Ceiling DEF n_updates
  <1>3. a \in Nat /\ b \in Nat /\ a <= b
    <2>1. window <= window + 1 /\ window + 1 \in Nat
      OBVIOUS
    <2> QED
      BY <1>1, <2>1, Monotone, NatProducts
  <1>4. t_start = a /\ t_end = Least(b, horizon_ns)
    BY DEF t_start, t_end
  <1> HIDE DEF a, b
  <1> QED
    BY <1>1, <1>2, <1>3, <1>4 DEF Least

LEMMA NominalFacts ==
    ASSUME t_start \in Nat, t_end \in Nat, NEW f \in HalFlows
    PROVE  Nominal(f) \in Nat /\ Nominal(f) <= f.rem
  <1> DEFINE d == Greatest(0, Least(f.end, t_end) - t_start)
  <1>1. f.rem \in Nat /\ f.rate \in Nat /\ f.end \in Nat
    BY DEF HalFlows
  <1>2. d \in Nat
    BY <1>1 DEF Greatest, Least
  <1> HIDE DEF d
  <1>3. f.rate * d \in Nat
    BY <1>1, <1>2, NatProducts
  <1> QED
    BY <1>1, <1>3 DEF Nominal, Least, d

(* What the flows of the class can send.                                   *)
Wanted(k) == Nominal(all[present[k]])

LEMMA DemandIs ==
    ASSUME present \in Seq(Nat), \A k \in 1..Len(present) : Wanted(k) \in Int
    PROVE  Demand = SumFunctionOnSet([k \in 1..Len(present) |-> Wanted(k)],
                                     1..Len(present))
  <1> DEFINE n == Len(present)
             f == [k \in 1..n |-> Wanted(k)]
             h == CHOOSE h : h = [s \in SUBSET (1..n) |->
                     IF s = {} THEN 0
                     ELSE h[s \ {Max(s)}] + Nominal(all[present[Max(s)]])]
  <1>1. n \in Nat /\ DOMAIN present = 1..n
    BY SeqFacts
  <1>2. Demand = h[1..n]
    BY <1>1 DEF Demand, FoldLeft, MapThenFoldSet
  <1>3. \A i \in 1..n : f[i] \in Int /\ f[i] = Nominal(all[present[i]])
    BY DEF Wanted
  <1> HIDE DEF f
  <1>4. \A s \in SUBSET (1..n) : s # {} => Max(s) \in 1..n
    BY <1>1, MaxIn
  <1>5. ASSUME NEW g PROVE [s \in SUBSET (1..n) |->
                     IF s = {} THEN 0
                     ELSE g[s \ {Max(s)}] + Nominal(all[present[Max(s)]])]
           = [s \in SUBSET (1..n) |->
                     IF s = {} THEN 0 ELSE g[s \ {Max(s)}] + f[Max(s)]]
    <2>1. \A s \in SUBSET (1..n) :
             (IF s = {} THEN 0 ELSE g[s \ {Max(s)}] + Nominal(all[present[Max(s)]]))
               = (IF s = {} THEN 0 ELSE g[s \ {Max(s)}] + f[Max(s)])
      BY <1>3, <1>4
    <2> QED
      BY <2>1
  <1>6. \E g : g = [s \in SUBSET (1..n) |->
                     IF s = {} THEN 0
                     ELSE g[s \ {Max(s)}] + Nominal(all[present[Max(s)]])]
    <2>1. PICK g : Adds(g, f, n)
      BY <1>1, <1>3, AddsSolved
    <2>2. g = [s \in SUBSET (1..n) |->
                     IF s = {} THEN 0 ELSE g[s \ {Max(s)}] + f[Max(s)]]
      BY <2>1 DEF Adds
    <2>3. g = [s \in SUBSET (1..n) |->
                     IF s = {} THEN 0
                     ELSE g[s \ {Max(s)}] + Nominal(all[present[Max(s)]])]
      BY <1>5, <2>2
    <2> QED
      BY <2>3
  <1>7. h = [s \in SUBSET (1..n) |->
                     IF s = {} THEN 0
                     ELSE h[s \ {Max(s)}] + Nominal(all[present[Max(s)]])]
    BY <1>6
  <1> HIDE DEF h
  <1>8. Adds(h, f, n)
    BY <1>5, <1>7 DEF Adds
  <1>9. h[1..n] = SumFunctionOnSet(f, 1..n)
    BY <1>1, <1>3, <1>8, AddsUp
  <1> QED
    BY <1>2, <1>9 DEF f

(* What all flows have sent between two states u and v of them.            *)
Released(u, v) ==
    FoldLeft(LAMBDA sum, i : sum + (u[i].rem - v[i].rem), 0, [i \in DOMAIN u |-> i])

LEMMA ReleasedIs ==
    ASSUME NEW u \in Seq(HalFlows), NEW v,
           \A i \in 1..Len(u) : v[i].rem \in Int
    PROVE  Released(u, v) = SumFunctionOnSet([k \in 1..Len(u) |-> u[k].rem - v[k].rem],
                                             1..Len(u))
  <1> DEFINE n == Len(u)
             q == [i \in DOMAIN u |-> i]
             f == [k \in 1..n |-> u[k].rem - v[k].rem]
             h == CHOOSE h : h = [s \in SUBSET (1..n) |->
                     IF s = {} THEN 0
                     ELSE h[s \ {Max(s)}] + (u[q[Max(s)]].rem - v[q[Max(s)]].rem)]
  <1>1. n \in Nat /\ DOMAIN u = 1..n /\ \A k \in 1..n : u[k] \in HalFlows
    BY SeqFacts
  <1>2. DOMAIN q = 1..n
    BY <1>1
  <1>3. Released(u, v) = h[1..n]
    BY <1>2 DEF Released, FoldLeft, MapThenFoldSet
  <1>4. \A i \in 1..n : f[i] \in Int /\ f[i] = u[q[i]].rem - v[q[i]].rem
    <2> SUFFICES ASSUME NEW i \in 1..n
                 PROVE  f[i] \in Int /\ f[i] = u[q[i]].rem - v[q[i]].rem
      OBVIOUS
    <2>1. u[i].rem \in Nat /\ v[i].rem \in Int
      BY <1>1 DEF HalFlows
    <2>2. q[i] = i /\ f[i] = u[i].rem - v[i].rem
      BY <1>1
    <2> QED
      BY <2>1, <2>2
  <1> HIDE DEF f, q
  <1>5. \A s \in SUBSET (1..n) : s # {} => Max(s) \in 1..n
    BY <1>1, MaxIn
  <1>6. ASSUME NEW g PROVE [s \in SUBSET (1..n) |->
                     IF s = {} THEN 0
                     ELSE g[s \ {Max(s)}] + (u[q[Max(s)]].rem - v[q[Max(s)]].rem)]
           = [s \in SUBSET (1..n) |->
                     IF s = {} THEN 0 ELSE g[s \ {Max(s)}] + f[Max(s)]]
    <2>1. \A s \in SUBSET (1..n) :
             (IF s = {} THEN 0
              ELSE g[s \ {Max(s)}] + (u[q[Max(s)]].rem - v[q[Max(s)]].rem))
               = (IF s = {} THEN 0 ELSE g[s \ {Max(s)}] + f[Max(s)])
      BY <1>4, <1>5
    <2> QED
      BY <2>1
  <1>7. \E g : g = [s \in SUBSET (1..n) |->
                     IF s = {} THEN 0
                     ELSE g[s \ {Max(s)}] + (u[q[Max(s)]].rem - v[q[Max(s)]].rem)]
    <2>1. PICK g : Adds(g, f, n)
      BY <1>1, <1>4, AddsSolved
    <2>2. g = [s \in SUBSET (1..n) |->
                     IF s = {} THEN 0 ELSE g[s \ {Max(s)}] + f[Max(s)]]
      BY <2>1 DEF Adds
    <2>3. g = [s \in SUBSET (1..n) |->
                     IF s = {} THEN 0
                     ELSE g[s \ {Max(s)}] + (u[q[Max(s)]].rem - v[q[Max(s)]].rem)]
      BY <1>6, <2>2
    <2> QED
      BY <2>3
  <1>8. h = [s \in SUBSET (1..n) |->
                     IF s = {} THEN 0
                     ELSE h[s \ {Max(s)}] + (u[q[Max(s)]].rem - v[q[Max(s)]].rem)]
    BY <1>7
  <1> HIDE DEF h
  <1>9. Adds(h, f, n)
    BY <1>6, <1>8 DEF Adds
  <1>10. h[1..n] = SumFunctionOnSet(f, 1..n)
    BY <1>1, <1>4, <1>9, AddsUp
  <1> QED
    BY <1>3, <1>10 DEF f

LEMMA PickedListed ==
    ASSUME NEW S, NEW q, Listed(q, S), NEW mask \in SUBSET DOMAIN q
    PROVE  Listed(Picked(q, mask), S)
  <1>1. q \in Seq(S) /\ IsInjective(q) /\ Len(q) <= MaxAlive
    BY DEF Listed
  <1>2. Picked(q, mask) \in Seq(S) /\ Len(Picked(q, mask)) = Cardinality(mask)
    BY <1>1, PickedPlaces
  <1>3. IsInjective(Picked(q, mask))
    BY <1>1, PickedInjective
  <1>4. Cardinality(mask) <= Len(q) /\ Cardinality(mask) \in Nat /\ Len(q) \in Nat
    <2>1. DOMAIN q = 1..Len(q) /\ Len(q) \in Nat /\ Cardinality(DOMAIN q) = Len(q)
      BY <1>1, SeqFacts
    <2>2. IsFiniteSet(DOMAIN q)
      BY <2>1, FS_Interval, 1 \in Int
    <2> QED
      BY <2>1, <2>2, FS_Subset, FS_CardinalityType
  <1> QED
    BY <1>1, <1>2, <1>3, <1>4, HalConstants DEF Listed

LEMMA ListedWider ==
    ASSUME NEW S, NEW T, S \subseteq T, NEW q, Listed(q, S)
    PROVE  Listed(q, T)
  BY DEF Listed

LEMMA ListedFacts ==
    ASSUME HalReady
    PROVE  /\ Len(all) \in Nat /\ DOMAIN all = 1..Len(all)
           /\ \A i \in DOMAIN all : all[i] \in HalFlows
           /\ Len(present) \in Nat /\ DOMAIN present = 1..Len(present)
           /\ Len(present) <= MaxAlive
           /\ \A k \in 1..Len(present) : present[k] \in DOMAIN all
           /\ \A i, j \in 1..Len(present) : present[i] = present[j] => i = j
           /\ ToSet(present) = {present[k] : k \in 1..Len(present)}
           /\ present \in Seq(Nat)
  <1>1. all \in Seq(HalFlows)
    BY DEF HalReady
  <1>2. Len(all) \in Nat /\ DOMAIN all = 1..Len(all) /\ \A i \in DOMAIN all : all[i] \in HalFlows
    BY <1>1, SeqFacts
  <1>3. present \in Seq(DOMAIN all) /\ IsInjective(present) /\ Len(present) <= MaxAlive
    BY DEF HalReady, Listed
  <1>4. Len(present) \in Nat /\ DOMAIN present = 1..Len(present)
        /\ \A k \in DOMAIN present : present[k] \in DOMAIN all
    BY <1>3, SeqFacts
  <1>5. \A i, j \in DOMAIN present : present[i] = present[j] => i = j
    BY <1>3 DEF IsInjective
  <1>6. ToSet(present) = {present[k] : k \in 1..Len(present)}
    BY <1>4 DEF ToSet
  <1>7. present \in Seq(Nat)
    <2>1. DOMAIN all \subseteq Nat
      BY <1>2
    <2> QED
      BY <1>3, <2>1
  <1> QED
    BY <1>2, <1>3, <1>4, <1>5, <1>6, <1>7

(* The shares of a window.                                                 *)
Given(k) == Share(all[present[k]])

LEMMA SharesGiven ==
    ASSUME HalReady, step = "spawn"
    PROVE  LET n == Len(present)
               given == SumFunctionOnSet([k \in 1..n |-> Given(k)], 1..n)
           IN  /\ \A k \in 1..n : Given(k) \in Nat /\ Given(k) <= all[present[k]].rem
               /\ given <= target /\ given \in Nat /\ Demand \in Nat
               /\ Demand >= target => given = target \/ given + n > target
  <1> DEFINE n == Len(present)
             f == [k \in 1..n |-> Wanted(k)]
             g == [k \in 1..n |-> Given(k)]
             d == SumFunctionOnSet(f, 1..n)
             given == SumFunctionOnSet(g, 1..n)
  <1>1. /\ n \in Nat /\ target \in Nat
        /\ \A k \in 1..n : all[present[k]] \in HalFlows
    BY ListedFacts DEF HalReady
  <1>2. t_start \in Nat /\ t_end \in Nat
    BY WindowSpan DEF HalReady
  <1>3. \A k \in 1..n : Wanted(k) \in Nat /\ Wanted(k) <= all[present[k]].rem
    BY <1>1, <1>2, NominalFacts DEF Wanted
  <1>4. Demand = d
    BY <1>3, ListedFacts, DemandIs
  <1>5. \A k \in 1..n : /\ f[k] = Wanted(k) /\ f[k] \in Nat
                        /\ g[k] = IF Demand > target THEN (f[k] * target) \div Demand
                                                     ELSE f[k]
    <2> SUFFICES ASSUME NEW k \in 1..n
                 PROVE  /\ f[k] = Wanted(k) /\ f[k] \in Nat
                        /\ g[k] = IF Demand > target THEN (f[k] * target) \div Demand
                                                     ELSE f[k]
      OBVIOUS
    <2>1. f[k] = Wanted(k) /\ g[k] = Given(k)
      OBVIOUS
    <2>2. Given(k) = IF Demand > target THEN (Wanted(k) * target) \div Demand
                                        ELSE Wanted(k)
      BY DEF Given, Share, Wanted
    <2> HIDE DEF f, g
    <2> QED
      BY <1>3, <2>1, <2>2
  <1>6. \A k \in 1..n : g[k] = Given(k)
    OBVIOUS
  <1> HIDE DEF f, g, n
  <1>7. IsFiniteSet(1..n)
    BY <1>1, FS_Interval, 1 \in Int, n \in Int
  <1>8. d \in Nat
    BY <1>5, <1>7, SumNatural
  <1>9. \A k \in 1..n : f[k] <= all[present[k]].rem /\ all[present[k]].rem \in Nat
    BY <1>1, <1>3, <1>5 DEF HalFlows
  <1>10. CASE Demand > target
    <2>1. /\ d > target
          /\ \A k \in 1..n : f[k] \in Nat
          /\ \A k \in 1..n : g[k] = (f[k] * target) \div d
      BY <1>4, <1>5, <1>10
    <2>2. /\ \A k \in 1..n : g[k] \in Nat /\ g[k] <= f[k]
          /\ given <= target /\ given + n > target
      BY <1>1, <2>1, RoundedShares
    <2>3. given \in Nat
      BY <1>7, <2>2, SumNatural
    <2>4. \A k \in 1..n : g[k] <= all[present[k]].rem
      BY <1>5, <1>9, <2>2
    <2> HIDE DEF given, d
    <2>5. /\ \A k \in 1..n : Given(k) \in Nat /\ Given(k) <= all[present[k]].rem
          /\ given <= target /\ given \in Nat /\ Demand \in Nat
          /\ Demand >= target => given = target \/ given + n > target
      BY <1>4, <1>6, <1>8, <2>2, <2>3, <2>4
    <2> QED
      BY <2>5 DEF given, g, n
  <1>11. CASE ~(Demand > target)
    <2>1. \A k \in 1..n : f[k] \in Int /\ g[k] = f[k]
      BY <1>5, <1>11
    <2>2. given = d
      BY <1>7, <2>1, SumSame
    <2>3. \A k \in 1..n : Given(k) \in Nat /\ Given(k) <= all[present[k]].rem
      BY <1>3, <1>5, <1>6, <2>1
    <2> HIDE DEF given, d
    <2>4. /\ given <= target /\ given \in Nat /\ Demand \in Nat
          /\ Demand >= target => given = target
      BY <1>1, <1>4, <1>8, <1>11, <2>2
    <2> QED
      BY <2>3, <2>4 DEF given, g, n
  <1> QED
    BY <1>10, <1>11

LEMMA SentFlow ==
    ASSUME HalReady, step = "spawn", NEW f \in HalFlows,
           Share(f) \in Nat, Share(f) <= f.rem
    PROVE  Sent(f) \in HalFlows /\ f.rem - Sent(f).rem = Share(f)
  <1>1. t_start \in Nat /\ t_end \in Nat /\ t_start <= t_end
    BY WindowSpan DEF HalReady
  <1>2. Emission(f) \in Emissions
    BY <1>1 DEF Emission, Emissions
  <1>3. f.rem \in Nat /\ f.sent \in Seq(Emissions)
    BY DEF HalFlows
  <1>4. CASE Share(f) = 0
    BY <1>3, <1>4 DEF Sent
  <1>5. CASE Share(f) # 0
    <2> DEFINE x == Share(f)
               y == Append(f.sent, Emission(f))
    <2>1. Sent(f) = [f EXCEPT !.rem = f.rem - x, !.sent = y]
      BY <1>5 DEF Sent
    <2>2. y \in Seq(Emissions) /\ f.rem - x \in Nat
      BY <1>2, <1>3
    <2>3. x \in Nat
      OBVIOUS
    <2> HIDE DEF x, y
    <2>4. Sent(f) \in HalFlows /\ Sent(f).rem = f.rem - x
      BY <2>1, <2>2 DEF HalFlows
    <2> QED
      BY <1>3, <2>3, <2>4 DEF x
  <1> QED
    BY <1>4, <1>5

(* Closing a window: what every flow sends.                                *)
LEMMA WindowCloses ==
    ASSUME HalReady, CloseWindow
    PROVE  /\ all' \in Seq(HalFlows) /\ Len(all') = Len(all)
           /\ DOMAIN all' = DOMAIN all
           /\ \A k \in 1..Len(present) :
                 all[present[k]].rem - all'[present[k]].rem = Given(k)
           /\ \A i \in DOMAIN all \ ToSet(present) : all'[i] = all[i]
  <1>1. step = "spawn"
    BY DEF CloseWindow
  <1>2. all' = [i \in DOMAIN all |->
                  IF i \in ToSet(present) THEN Sent(all[i]) ELSE all[i]]
    BY DEF CloseWindow
  <1>3. \A k \in 1..Len(present) :
           /\ present[k] \in DOMAIN all /\ present[k] \in ToSet(present)
           /\ Sent(all[present[k]]) \in HalFlows
           /\ all[present[k]].rem - Sent(all[present[k]]).rem = Given(k)
    <2> SUFFICES ASSUME NEW k \in 1..Len(present)
                 PROVE  /\ present[k] \in DOMAIN all /\ present[k] \in ToSet(present)
                        /\ Sent(all[present[k]]) \in HalFlows
                        /\ all[present[k]].rem - Sent(all[present[k]]).rem = Given(k)
      OBVIOUS
    <2>1. present[k] \in DOMAIN all /\ present[k] \in ToSet(present)
      BY ListedFacts
    <2>2. all[present[k]] \in HalFlows
      BY <2>1, ListedFacts
    <2>3. Given(k) \in Nat /\ Given(k) <= all[present[k]].rem
      BY <1>1, SharesGiven
    <2> QED
      BY <1>1, <2>1, <2>2, <2>3, SentFlow DEF Given
  <1>4. \A i \in ToSet(present) : \E k \in 1..Len(present) : i = present[k]
    BY ListedFacts
  <1>5. \A i \in DOMAIN all : all'[i] \in HalFlows
    <2> SUFFICES ASSUME NEW i \in DOMAIN all PROVE all'[i] \in HalFlows
      OBVIOUS
    <2>1. CASE i \in ToSet(present)
      <3>1. PICK k \in 1..Len(present) : i = present[k]
        BY <1>4, <2>1
      <3> QED
        BY <1>2, <1>3, <2>1, <3>1
    <2>2. CASE i \notin ToSet(present)
      BY <1>2, <2>2, ListedFacts
    <2> QED
      BY <2>1, <2>2
  <1>6. DOMAIN all' = DOMAIN all /\ DOMAIN all = 1..Len(all) /\ Len(all) \in Nat
    BY <1>2, ListedFacts
  <1>7. all' \in Seq(HalFlows) /\ Len(all') = Len(all)
    <2>1. all' = [i \in 1..Len(all) |-> all'[i]]
      BY <1>2, <1>6
    <2> QED
      BY <1>5, <1>6, <2>1, IsSeq
  <1>8. \A k \in 1..Len(present) :
                 all[present[k]].rem - all'[present[k]].rem = Given(k)
    BY <1>2, <1>3
  <1>9. \A i \in DOMAIN all \ ToSet(present) : all'[i] = all[i]
    BY <1>2
  <1> QED
    BY <1>6, <1>7, <1>8, <1>9

(* Together they send what the shares come to.                             *)
LEMMA WindowReleases ==
    ASSUME HalReady, CloseWindow
    PROVE  Released(all, all')
             = SumFunctionOnSet([k \in 1..Len(present) |-> Given(k)], 1..Len(present))
  <1> DEFINE n == Len(all)
             m == Len(present)
             r == [k \in 1..n |-> all[k].rem - all'[k].rem]
             g == [k \in 1..m |-> Given(k)]
             P == {present[k] : k \in 1..m}
             R == (1..n) \ P
  <1>1. /\ n \in Nat /\ m \in Nat /\ DOMAIN all = 1..n /\ ToSet(present) = P
        /\ all \in Seq(HalFlows)
        /\ \A k \in 1..n : all[k] \in HalFlows
        /\ \A k \in 1..m : present[k] \in 1..n
        /\ \A i, j \in 1..m : present[i] = present[j] => i = j
    BY ListedFacts DEF HalReady
  <1>2. /\ \A k \in 1..n : all'[k] \in HalFlows
        /\ \A k \in 1..m : all[present[k]].rem - all'[present[k]].rem = Given(k)
        /\ \A i \in (1..n) \ P : all'[i] = all[i]
    <2>1. all' \in Seq(HalFlows) /\ DOMAIN all' = 1..n
      BY <1>1, WindowCloses
    <2>2. \A k \in 1..n : all'[k] \in HalFlows
      BY <2>1, SeqFacts
    <2> QED
      BY <1>1, <2>2, WindowCloses
  <1>3. \A k \in 1..n : all'[k].rem \in Nat /\ all[k].rem \in Nat
    BY <1>1, <1>2 DEF HalFlows
  <1>4. Released(all, all') = SumFunctionOnSet(r, 1..n)
    BY <1>1, <1>3, ReleasedIs
  <1>5. \A k \in 1..n : r[k] \in Int /\ r[k] = all[k].rem - all'[k].rem
    BY <1>3
  <1>6. \A k \in 1..m : g[k] \in Int /\ g[k] = r[present[k]]
    <2> SUFFICES ASSUME NEW k \in 1..m PROVE g[k] \in Int /\ g[k] = r[present[k]]
      OBVIOUS
    <2>1. present[k] \in 1..n /\ g[k] = Given(k)
      BY <1>1
    <2>2. r[present[k]] = Given(k)
      BY <1>2, <1>5, <2>1
    <2> QED
      BY <1>5, <2>1, <2>2
  <1>7. \A k \in R : r[k] = 0
    <2> SUFFICES ASSUME NEW k \in R PROVE r[k] = 0
      OBVIOUS
    <2>1. k \in 1..n /\ all'[k] = all[k]
      BY <1>2
    <2> QED
      BY <1>3, <1>5, <2>1
  <1>8. P \subseteq 1..n
    BY <1>1
  <1>9. P \cup R = 1..n /\ P \cap R = {}
    BY <1>8
  <1> HIDE DEF r, g
  <1>10. SumFunctionOnSet(r, P) = SumFunctionOnSet(g, 1..m) /\ IsFiniteSet(P)
    <2>1. /\ m \in Nat
          /\ \A k \in 1..m : g[k] \in Int /\ g[k] = r[present[k]]
      BY <1>1, <1>6
    <2>2. Lists(present, m, P)
      BY <1>1 DEF Lists
    <2> HIDE DEF m, n, R, P
    <2> QED
      BY <2>1, <2>2, SumListed
  <1>11. IsFiniteSet(R)
    <2>1. IsFiniteSet(1..n)
      BY <1>1, FS_Interval, 1 \in Int
    <2>2. R \in SUBSET (1..n)
      OBVIOUS
    <2> HIDE DEF R
    <2> QED
      BY <2>1, <2>2, FS_Subset
  <1> HIDE DEF P, R, n, m
  <1>12. SumFunctionOnSet(r, R) = 0
    BY <1>7, <1>11, SumZero
  <1>13. SumFunctionOnSet(r, P \cup R) = SumFunctionOnSet(r, P) + SumFunctionOnSet(r, R)
    <2>1. \A s \in P \cup R : r[s] \in Int
      BY <1>5, <1>9
    <2> QED
      BY <1>9, <1>10, <1>11, <2>1, SumUnion
  <1>14. SumFunctionOnSet(r, P) \in Int
    <2>1. \A s \in P : r[s] \in Int
      BY <1>5, <1>9
    <2> QED
      BY <1>10, <2>1, SumInteger
  <1>15. Released(all, all') = SumFunctionOnSet(g, 1..m)
    <2>1. Released(all, all') = SumFunctionOnSet(r, P) + SumFunctionOnSet(r, R)
      BY <1>4, <1>9, <1>13
    <2>2. SumFunctionOnSet(r, P) + SumFunctionOnSet(r, R) = SumFunctionOnSet(r, P)
      BY <1>12, <1>14
    <2> QED
      BY <1>10, <2>1, <2>2
  <1> QED
    BY <1>15 DEF g, m

LEMMA NothingListed == \A S : Listed(<< >>, S)
  <1>1. \A S : << >> \in Seq(S)
    OBVIOUS
  <1>2. Len(<< >>) = 0 /\ IsInjective(<< >>)
    BY DEF IsInjective
  <1> QED
    BY <1>1, <1>2, HalConstants DEF Listed

LEMMA FreshHal ==
    /\ << >> \in Seq(HalFlows) /\ Listed(<< >>, {})
    /\ 1 \in 1..Len(Classes) /\ 0 \in Nat /\ 0 \in 0..MaxSpawn
    /\ DOMAIN << >> = {}
  BY NothingListed, HalConstants

LEMMA InitHalReady ==
    ASSUME InitHal
    PROVE  HalReady
  <1>1. /\ all = << >> /\ alive = [c \in ToSet(Classes) |-> << >>]
        /\ window = 0 /\ class = 1 /\ step = "window"
        /\ target = 0 /\ present = << >> /\ spawned = 0
    BY DEF InitHal
  <1>2. DOMAIN all = {}
    BY <1>1, FreshHal
  <1> QED
    BY <1>1, <1>2, FreshHal DEF HalReady

LEMMA LocalsGoneReady ==
    ASSUME LocalsGone
    PROVE  HalReady'
  <1>1. /\ all' = << >> /\ alive' = [c \in ToSet(Classes) |-> << >>]
        /\ window' = 0 /\ class' = 1 /\ step' = "window"
        /\ target' = 0 /\ present' = << >> /\ spawned' = 0
    BY DEF LocalsGone
  <1>2. DOMAIN all' = {}
    BY <1>1, FreshHal
  <1> QED
    BY <1>1, <1>2, FreshHal DEF HalReady

LEMMA RateNatural ==
    ASSUME NEW rate \in ClassRates
    PROVE  rate \in Nat
  <1>1. PICK f \in [1..Tenants -> {Least(r, LinkRate) : r \in RawRates}] :
           rate = SumFunction(f)
    BY DEF ClassRates
  <1>2. \A k \in 1..Tenants : f[k] \in Nat
    BY HalConstants
  <1>3. IsFiniteSet(1..Tenants)
    BY HalConstants, FS_Interval, 1 \in Int, Tenants \in Int
  <1>4. SumFunction(f) = SumFunctionOnSet(f, 1..Tenants)
    BY DEF SumFunction
  <1> QED
    BY <1>1, <1>2, <1>3, <1>4, SumNatural

LEMMA OpenWindowReady ==
    ASSUME HalReady, OpenWindow
    PROVE  HalReady'
  <1>1. /\ step = "window" /\ window < n_updates
        /\ \E rate \in ClassRates : target' = rate * (t_end - t_start)
        /\ spawned' = 0 /\ step' = "spawn"
        /\ UNCHANGED <<all, alive, window, class>>
    BY DEF OpenWindow
  <1> DEFINE q == alive[Classes[class]]
             mask == {k \in DOMAIN q : all[q[k]].rem > 0 /\ all[q[k]].end > t_start}
  <1>2. present' = Picked(q, mask)
    BY DEF OpenWindow, Masked
  <1>3. Classes[class] \in ToSet(Classes)
    BY HalConstants DEF HalReady, ToSet
  <1>4. Listed(q, DOMAIN all)
    BY <1>3 DEF HalReady
  <1>5. mask \in SUBSET DOMAIN q
    OBVIOUS
  <1> HIDE DEF q, mask
  <1>6. Listed(present', DOMAIN all)
    BY <1>2, <1>4, <1>5, PickedListed
  <1>7. target' \in Nat
    <2>1. PICK rate \in ClassRates : target' = rate * (t_end - t_start)
      BY <1>1
    <2>2. t_start \in Nat /\ t_end \in Nat /\ t_start <= t_end
      BY <1>1, WindowSpan DEF HalReady
    <2>3. t_end - t_start \in Nat /\ rate \in Nat
      BY <2>2, RateNatural
    <2> HIDE DEF t_end, t_start
    <2> QED
      BY <2>1, <2>3, NatProducts
  <1>8. 0 \in 0..MaxSpawn /\ n_updates' = n_updates
    BY FreshHal DEF n_updates
  <1> QED
    BY <1>1, <1>6, <1>7, <1>8 DEF HalReady

LEMMA SpawnedFlow ==
    ASSUME HalReady, step = "spawn", NEW a \in Attributes
    PROVE  NewFlow(a) \in HalFlows
  <1>1. t_start \in Nat
    BY WindowSpan DEF HalReady
  <1>2. a.size \in Nat /\ a.rate \in Nat \ {0} /\ a.duration \in Nat /\ Grain \in Nat \ {0}
    BY HalConstants, Constants
  <1> DEFINE x == a.size * Grain
             e == t_start + Least(x \div a.rate, a.duration)
  <1>3. x \in Nat
    BY <1>2, NatProducts
  <1> HIDE DEF x
  <1>4. x \div a.rate \in Nat
    BY <1>2, <1>3, DivMod
  <1>5. e \in Nat
    BY <1>1, <1>2, <1>4 DEF Least
  <1> HIDE DEF e
  <1>6. NewFlow(a) = [rate |-> a.rate, total |-> x, rem |-> x, end |-> e, sent |-> << >>]
    BY DEF NewFlow, x, e
  <1>7. << >> \in Seq(Emissions)
    OBVIOUS
  <1> QED
    BY <1>2, <1>3, <1>5, <1>6, <1>7 DEF HalFlows

LEMMA SpawnReady ==
    ASSUME HalReady, Spawn
    PROVE  /\ HalReady' /\ DOMAIN all \subseteq DOMAIN all'
           /\ \A i \in DOMAIN all : all'[i] = all[i]
  <1>1. /\ step = "spawn" /\ spawned < MaxSpawn /\ Len(present) < MaxAlive
        /\ present' = Append(present, Len(all) + 1) /\ spawned' = spawned + 1
        /\ UNCHANGED <<alive, window, class, step, target>>
    BY DEF Spawn, Wanting
  <1>2. PICK a \in Attributes : all' = Append(all, NewFlow(a))
    BY DEF Spawn
  <1> DEFINE n == Len(all)
             m == Len(present)
             f == NewFlow(a)
  <1>3. f \in HalFlows
    BY <1>1, SpawnedFlow
  <1> HIDE DEF f
  <1>4. all \in Seq(HalFlows) /\ n \in Nat /\ DOMAIN all = 1..n
    BY ListedFacts DEF HalReady
  <1>5. /\ all' \in Seq(HalFlows) /\ Len(all') = n + 1 /\ DOMAIN all' = 1..(n + 1)
        /\ \A i \in 1..n : all'[i] = all[i]
    BY <1>2, <1>3, <1>4 DEF f
  <1>6. DOMAIN all \subseteq DOMAIN all'
    BY <1>4, <1>5
  <1>7. Listed(present', DOMAIN all')
    <2>1. /\ m \in Nat /\ present \in Seq(1..n) /\ MaxAlive \in Nat
          /\ \A k \in 1..m : present[k] \in 1..n
          /\ \A i, j \in 1..m : present[i] = present[j] => i = j
      BY <1>4, ListedFacts, HalConstants DEF HalReady, Listed
    <2>2. present \in Seq(1..(n + 1)) /\ n + 1 \in 1..(n + 1)
      <3>1. 1..n \subseteq 1..(n + 1) /\ n + 1 \in 1..(n + 1)
        BY <1>4
      <3> QED
        BY <2>1, <3>1
    <2> HIDE DEF n
    <2>3. /\ present' \in Seq(1..(n + 1)) /\ Len(present') = m + 1
          /\ DOMAIN present' = 1..(m + 1)
          /\ \A k \in 1..m : present'[k] = present[k]
          /\ present'[m + 1] = n + 1
      BY <1>1, <2>1, <2>2 DEF n
    <2> HIDE DEF m
    <2>4. IsInjective(present')
      <3> SUFFICES ASSUME NEW i \in 1..(m + 1), NEW j \in 1..(m + 1),
                          present'[i] = present'[j]
                   PROVE  i = j
        BY <2>3 DEF IsInjective
      <3>1. \A k \in 1..(m + 1) : k # m + 1 => k \in 1..m
        BY <2>1
      <3>2. \A k \in 1..m : present'[k] # n + 1
        <4>1. \A k \in 1..m : present'[k] \in 1..n
          BY <2>1, <2>3
        <4>2. n + 1 \notin 1..n
          BY <1>4
        <4> QED
          BY <4>1, <4>2
      <3>3. CASE i = m + 1
        BY <2>3, <3>1, <3>2, <3>3
      <3>4. CASE j = m + 1
        BY <2>3, <3>1, <3>2, <3>4
      <3>5. CASE i # m + 1 /\ j # m + 1
        BY <2>1, <2>3, <3>1, <3>5
      <3> QED
        BY <3>3, <3>4, <3>5
    <2>5. m + 1 <= MaxAlive
      BY <1>1, <2>1 DEF m
    <2> QED
      BY <1>5, <2>3, <2>4, <2>5 DEF Listed
  <1>8. \A c \in ToSet(Classes) : Listed(alive'[c], DOMAIN all')
    BY <1>1, <1>6, ListedWider DEF HalReady
  <1>9. spawned' \in 0..MaxSpawn
    BY <1>1, HalConstants DEF HalReady
  <1>10. n_updates' = n_updates
    BY DEF n_updates
  <1>11. HalReady'
    BY <1>1, <1>5, <1>7, <1>8, <1>9, <1>10 DEF HalReady
  <1> QED
    BY <1>4, <1>5, <1>6, <1>11

LEMMA CloseWindowReady ==
    ASSUME HalReady, CloseWindow
    PROVE  HalReady'
  <1>1. /\ step = "spawn"
        /\ class' = (class % Len(Classes)) + 1
        /\ window' = IF class = Len(Classes) THEN window + 1 ELSE window
        /\ step' = "window"
        /\ UNCHANGED <<target, present, spawned>>
    BY DEF CloseWindow
  <1>2. all' \in Seq(HalFlows) /\ DOMAIN all' = DOMAIN all
    BY WindowCloses
  <1> DEFINE mask == {k \in DOMAIN present : all'[present[k]].rem > 0
                                             /\ all'[present[k]].end > t_end}
  <1>3. alive' = [alive EXCEPT ![Classes[class]] = Picked(present, mask)]
    BY DEF CloseWindow, Masked
  <1>4. mask \in SUBSET DOMAIN present
    OBVIOUS
  <1> HIDE DEF mask
  <1>5. Listed(Picked(present, mask), DOMAIN all)
    BY <1>4, PickedListed DEF HalReady
  <1>6. DOMAIN alive' = ToSet(Classes)
        /\ \A c \in ToSet(Classes) : Listed(alive'[c], DOMAIN all')
    BY <1>2, <1>3, <1>5 DEF HalReady
  <1>7. class' \in 1..Len(Classes)
    <2> DEFINE n == Len(Classes)
    <2>1. n \in Nat \ {0} /\ class \in Nat
      BY HalConstants DEF HalReady
    <2> HIDE DEF n
    <2>2. class % n \in 0..(n - 1)
      BY <2>1, DivMod
    <2>3. (class % n) + 1 \in 1..n
      BY <2>1, <2>2
    <2> QED
      BY <1>1, <2>3 DEF n
  <1>8. window' \in Nat
    BY <1>1 DEF HalReady
  <1> QED
    BY <1>1, <1>2, <1>6, <1>7, <1>8 DEF HalReady

LEMMA HalReadyKept ==
    ASSUME HalReady, UNCHANGED halVars
    PROVE  HalReady'
  <1>1. UNCHANGED <<all, alive, window, class, step, target, present, spawned>>
    BY DEF halVars
  <1>2. n_updates' = n_updates
    BY DEF n_updates
  <1> QED
    BY <1>1, <1>2 DEF HalReady

LEMMA NextHalReady ==
    ASSUME HalReady, NextHal
    PROVE  HalReady'
  BY OpenWindowReady, SpawnReady, CloseWindowReady DEF NextHal

(* What the HAL workload returns.                                          *)
LEMMA HalTimelineReady ==
    ASSUME NEW f \in HalFlows
    PROVE  HalTimeline(f) \in Seq(Packets) /\ Rising(HalTimeline(f))
  <1> DEFINE ss == [k \in DOMAIN f.sent |-> WindowPackets(f.sent[k])]
             n == Len(f.sent)
  <1>1. f.sent \in Seq(Emissions)
    BY DEF HalFlows
  <1>2. n \in Nat /\ DOMAIN f.sent = 1..n /\ \A k \in 1..n : f.sent[k] \in Emissions
    BY <1>1, SeqFacts
  <1>3. \A k \in 1..n : ss[k] \in Seq(Packets)
    BY <1>2, WindowTimeline
  <1>4. DOMAIN ss = 1..n /\ ss = [k \in 1..n |-> ss[k]]
    BY <1>2
  <1>5. HalTimeline(f) = InOrder(FlattenSeq(ss))
    BY DEF HalTimeline
  <1> HIDE DEF ss, n
  <1>6. ss \in Seq(Seq(Packets))
    BY <1>2, <1>3, <1>4, IsSeq
  <1>7. FlattenSeq(ss) \in Seq(Packets)
    BY <1>6, FlattenIn
  <1> QED
    BY <1>5, <1>7, PacketTimes, InOrderSorts

LEMMA HalPairsReady ==
    ASSUME HalReady
    PROVE  /\ HalPairs \in Seq(Seq(Packets))
           /\ \A k \in DOMAIN HalPairs : Rising(HalPairs[k])
  <1> DEFINE q == [i \in DOMAIN all |-> HalTimeline(all[i])]
             mask == {i \in DOMAIN q : q[i] # << >>}
             S == {p \in Seq(Packets) : Rising(p)}
             n == Len(all)
  <1>1. n \in Nat /\ DOMAIN all = 1..n /\ \A i \in 1..n : all[i] \in HalFlows
    BY ListedFacts
  <1>2. \A i \in 1..n : q[i] \in S
    BY <1>1, HalTimelineReady
  <1>3. DOMAIN q = 1..n /\ q = [i \in 1..n |-> q[i]]
    BY <1>1
  <1>4. HalPairs = Picked(q, mask) /\ mask \in SUBSET DOMAIN q
    BY DEF HalPairs, Masked
  <1>5. S \subseteq Seq(Packets) /\ \A p \in S : Rising(p)
    OBVIOUS
  <1> HIDE DEF q, mask, S, n
  <1>6. q \in Seq(S)
    BY <1>1, <1>2, <1>3, IsSeq
  <1>7. HalPairs \in Seq(S)
    BY <1>4, <1>6, PickedPlaces
  <1>8. \A k \in DOMAIN HalPairs : HalPairs[k] \in S
    BY <1>7, SeqFacts
  <1>9. HalPairs \in Seq(Seq(Packets))
    BY <1>5, <1>7
  <1> QED
    BY <1>5, <1>8, <1>9

-----------------------------------------------------------------------------
(* The TraceSet: cursors that follow the bins.                             *)

(* A flow of the TraceSet: its cursor is past exactly the packets of the   *)
(* first b bins.                                                           *)
PacketsBefore(f, b) ==
    \A i \in 1..Len(f.packets) : i <= f.cursor <=> f.packets[i].ts < b * DeltaBin

FlowReady(f, b) ==
    /\ {"tuple", "bucket", "packets", "cursor"} \subseteq DOMAIN f
    /\ f.packets \in Seq(AnyPackets) /\ Rising(f.packets)
    /\ f.cursor \in 0..Len(f.packets)
    /\ PacketsBefore(f, b)

ReplayReady ==
    /\ stage \in {"generate", "materialise", "bin", "boundary", "done"}
    /\ bins \in Nat
    /\ stage \in {"generate", "materialise"} => bins = 0 /\ flows = << >>
    /\ \E n \in Nat : DOMAIN flows = 1..n
    /\ \A k \in DOMAIN flows : FlowReady(flows[k], bins)

LEMMA FlowFacts ==
    ASSUME NEW f, NEW b \in Nat, FlowReady(f, b)
    PROVE  /\ f.packets \in Seq(AnyPackets) /\ Rising(f.packets)
           /\ Len(f.packets) \in Nat /\ DOMAIN f.packets = 1..Len(f.packets)
           /\ f.cursor \in Nat /\ f.cursor <= Len(f.packets)
           /\ \A i \in 1..Len(f.packets) :
                 /\ f.packets[i].ts \in Nat /\ f.packets[i].ts < horizon_ns
                 /\ i <= f.cursor <=> f.packets[i].ts < b * DeltaBin
           /\ \A i, j \in 1..Len(f.packets) :
                 i < j => f.packets[i].ts <= f.packets[j].ts
  <1>1. f.packets \in Seq(AnyPackets) /\ Rising(f.packets) /\ f.cursor \in 0..Len(f.packets)
    BY DEF FlowReady
  <1>2. /\ Len(f.packets) \in Nat /\ DOMAIN f.packets = 1..Len(f.packets)
        /\ \A i \in 1..Len(f.packets) :
              f.packets[i].ts \in Nat /\ f.packets[i].ts < horizon_ns
    BY <1>1, AnyTimeline
  <1>3. f.cursor \in Nat /\ f.cursor <= Len(f.packets)
    BY <1>1, <1>2
  <1>4. \A i \in 1..Len(f.packets) : i <= f.cursor <=> f.packets[i].ts < b * DeltaBin
    BY DEF FlowReady, PacketsBefore
  <1>5. \A i, j \in 1..Len(f.packets) : i < j => f.packets[i].ts <= f.packets[j].ts
    BY <1>1, <1>2 DEF Rising
  <1> QED
    BY <1>1, <1>2, <1>3, <1>4, <1>5

(* A pull goes to the end of the bin.                                      *)
PullEnds(f, to, n) ==
    /\ \A k \in 1..n : f.packets[f.cursor + k].ts < to
    /\ f.cursor + n < Len(f.packets) => f.packets[f.cursor + n + 1].ts >= to

LEMMA PullExists ==
    ASSUME NEW f, NEW b \in Nat, FlowReady(f, b), NEW to \in Nat, b * DeltaBin <= to
    PROVE  \E n \in 0..(Len(f.packets) - f.cursor) : PullEnds(f, to, n)
  <1> DEFINE m == Len(f.packets)
             c == f.cursor
             ts(i) == f.packets[i].ts
             K == {i \in 1..m : ts(i) < to}
             d == Cardinality(K)
  <1>1. /\ m \in Nat /\ c \in Nat /\ c <= m
        /\ \A i \in 1..m : ts(i) \in Nat /\ (i <= c <=> ts(i) < b * DeltaBin)
        /\ \A i, j \in 1..m : i < j => ts(i) <= ts(j)
    BY FlowFacts
  <1>2. b * DeltaBin \in Nat
    BY Constants
  <1> HIDE DEF m, c, ts
  <1>3. K = 1..d /\ d \in 0..m
    <2>1. K \in SUBSET (1..m)
      OBVIOUS
    <2>2. \A i \in K : \A j \in 1..m : j < i => j \in K
      <3> SUFFICES ASSUME NEW i \in K, NEW j \in 1..m, j < i PROVE j \in K
        OBVIOUS
      <3>1. ts(j) <= ts(i) /\ ts(i) \in Nat /\ ts(j) \in Nat /\ ts(i) < to
        BY <1>1
      <3> QED
        BY <3>1
    <2> HIDE DEF K
    <2> QED
      BY <1>1, <2>1, <2>2, Prefix
  <1>4. c <= d
    <2>1. CASE c = 0
      BY <1>1, <1>3, <2>1
    <2>2. CASE c # 0
      <3>1. c \in 1..m
        BY <1>1, <2>2
      <3>2. ts(c) < b * DeltaBin /\ ts(c) \in Nat
        BY <1>1, <3>1
      <3>3. c \in K
        BY <1>2, <3>1, <3>2
      <3> QED
        BY <1>3, <3>3
    <2> QED
      BY <2>1, <2>2
  <1> DEFINE n == d - c
  <1>5. \A i \in 1..m : i \in 1..d <=> ts(i) < to
    BY <1>3
  <1> HIDE DEF d, K
  <1>6. n \in 0..(m - c) /\ c + n = d /\ n \in Nat
    BY <1>1, <1>3, <1>4
  <1>7. \A k \in 1..n : ts(c + k) < to
    <2> SUFFICES ASSUME NEW k \in 1..n PROVE ts(c + k) < to
      OBVIOUS
    <2>1. c + k \in 1..d /\ c + k \in 1..m
      BY <1>1, <1>3, <1>6
    <2> QED
      BY <1>5, <2>1
  <1>8. c + n < m => ts(c + n + 1) >= to
    <2> SUFFICES ASSUME d < m PROVE ts(d + 1) >= to
      BY <1>6
    <2>1. d + 1 \in 1..m /\ d + 1 \notin 1..d
      BY <1>1, <1>3
    <2>2. ts(d + 1) \in Nat /\ ~(ts(d + 1) < to)
      BY <1>1, <1>5, <2>1
    <2> QED
      BY <2>2
  <1> HIDE DEF n
  <1>9. n \in 0..(Len(f.packets) - f.cursor) /\ PullEnds(f, to, n)
    BY <1>6, <1>7, <1>8 DEF PullEnds, ts, c, m
  <1> QED
    BY <1>9

LEMMA PullFacts ==
    ASSUME NEW f, NEW b \in Nat, FlowReady(f, b)
    PROVE  LET to == (b + 1) * DeltaBin
               g == [f EXCEPT !.cursor = @ + Pulled(f, to)]
           IN  /\ FlowReady(g, b + 1)
               /\ g.packets = f.packets /\ g.bucket = f.bucket
               /\ g.cursor = f.cursor + Pulled(f, to) /\ f.cursor <= g.cursor
  <1> DEFINE to == (b + 1) * DeltaBin
             n == Pulled(f, to)
             g == [f EXCEPT !.cursor = @ + n]
             m == Len(f.packets)
             c == f.cursor
             p == f.packets
  <1>1. to \in Nat /\ b * DeltaBin <= to /\ b * DeltaBin \in Nat
    <2>1. b + 1 \in Nat /\ b <= b + 1 /\ DeltaBin \in Nat
      BY Constants
    <2> QED
      BY <2>1, Monotone, NatProducts
  <1>2. /\ m \in Nat /\ c \in Nat /\ c <= m /\ DOMAIN p = 1..m
        /\ \A i \in 1..m : p[i].ts \in Nat /\ (i <= c <=> p[i].ts < b * DeltaBin)
        /\ \A i, j \in 1..m : i < j => p[i].ts <= p[j].ts
    BY FlowFacts
  <1> HIDE DEF to
  <1>3. n \in 0..(m - c) /\ PullEnds(f, to, n)
    <2>1. \E x \in 0..(m - c) : PullEnds(f, to, x)
      BY <1>1, PullExists
    <2>2. n = CHOOSE x \in 0..(m - c) : PullEnds(f, to, x)
      BY DEF Pulled, PullEnds
    <2> HIDE DEF n, m, c
    <2> QED
      BY <2>1, <2>2
  <1>4. /\ \A k \in 1..n : p[c + k].ts < to
        /\ c + n < m => p[c + n + 1].ts >= to
    BY <1>3 DEF PullEnds
  <1>5. /\ g.packets = p /\ g.bucket = f.bucket /\ g.cursor = c + n
        /\ DOMAIN g = DOMAIN f
    BY DEF FlowReady
  <1> HIDE DEF n, g, m
  <1>6. c + n \in 0..m /\ c <= c + n /\ n \in Nat
    BY <1>2, <1>3
  <1> HIDE DEF c, p
  <1>7. \A i \in 1..m : i <= c + n <=> p[i].ts < to
    <2> SUFFICES ASSUME NEW i \in 1..m PROVE i <= c + n <=> p[i].ts < to
      OBVIOUS
    <2>1. p[i].ts \in Nat
      BY <1>2
    <2>2. CASE i <= c
      <3>1. p[i].ts < b * DeltaBin
        BY <1>2, <2>2
      <3> QED
        BY <1>1, <1>2, <1>6, <2>1, <2>2, <3>1
    <2>3. CASE c < i /\ i <= c + n
      <3>1. i - c \in 1..n /\ c + (i - c) = i
        BY <1>2, <1>6, <2>3
      <3>2. p[c + (i - c)].ts < to
        BY <1>4, <3>1
      <3> QED
        BY <2>3, <3>1, <3>2
    <2>4. CASE c + n < i
      <3>1. c + n + 1 \in 1..m /\ c + n < m
        BY <1>2, <1>6, <2>4
      <3>2. p[c + n + 1].ts >= to /\ p[c + n + 1].ts \in Nat
        BY <1>2, <1>4, <3>1
      <3>3. p[c + n + 1].ts <= p[i].ts
        <4>1. CASE i = c + n + 1
          BY <2>1, <4>1
        <4>2. CASE i # c + n + 1
          <5>1. c + n + 1 < i
            BY <1>2, <1>6, <2>4, <4>2
          <5> QED
            BY <1>2, <3>1, <5>1
        <4> QED
          BY <4>1, <4>2
      <3>4. ~(p[i].ts < to)
        BY <1>1, <2>1, <3>2, <3>3
      <3> QED
        BY <1>2, <1>6, <2>4, <3>4
    <2> QED
      BY <1>2, <1>6, <2>2, <2>3, <2>4
  <1>8. FlowReady(g, b + 1)
    <2>1. /\ {"tuple", "bucket", "packets", "cursor"} \subseteq DOMAIN f
          /\ p \in Seq(AnyPackets) /\ Rising(p)
      BY DEF FlowReady, p
    <2>2. g.cursor \in 0..Len(g.packets)
      BY <1>5, <1>6 DEF p, m
    <2>3. PacketsBefore(g, b + 1)
      BY <1>5, <1>7 DEF PacketsBefore, to, m, p
    <2> QED
      BY <1>5, <2>1, <2>2, <2>3 DEF FlowReady
  <1> QED
    BY <1>5, <1>6, <1>8 DEF to, g, n, c, p

(* The packets of a bin.                                                   *)
BinMask(p, b) ==
    {i \in DOMAIN p : (b - 1) * DeltaBin <= p[i].ts /\ p[i].ts < b * DeltaBin}

LEMMA PulledPackets ==
    ASSUME NEW f, NEW b \in Nat, FlowReady(f, b)
    PROVE  Picked(f.packets, BinMask(f.packets, b + 1))
             = SubSeq(f.packets, f.cursor + 1,
                      f.cursor + Pulled(f, (b + 1) * DeltaBin))
  <1> DEFINE to == (b + 1) * DeltaBin
             g == [f EXCEPT !.cursor = @ + Pulled(f, to)]
             p == f.packets
             c == f.cursor
             e == c + Pulled(f, to)
             m == Len(p)
  <1>1. /\ p \in Seq(AnyPackets) /\ m \in Nat /\ c \in Nat /\ c <= m /\ DOMAIN p = 1..m
        /\ \A i \in 1..m : p[i].ts \in Nat /\ (i <= c <=> p[i].ts < b * DeltaBin)
    BY FlowFacts
  <1>2. /\ FlowReady(g, b + 1) /\ g.packets = p /\ g.cursor = e /\ c <= e
    BY PullFacts
  <1> HIDE DEF g
  <1>3. /\ e \in Nat /\ e <= m
        /\ \A i \in 1..m : i <= e <=> p[i].ts < to
    <2>1. b + 1 \in Nat
      OBVIOUS
    <2> QED
      BY <1>2, <2>1, FlowFacts
  <1>4. to \in Nat /\ b * DeltaBin \in Nat /\ (b + 1) - 1 = b
    BY Constants
  <1> HIDE DEF e, c, p, m, to
  <1>5. BinMask(p, b + 1) = (c + 1)..e
    <2>1. BinMask(p, b + 1) = {i \in 1..m : b * DeltaBin <= p[i].ts /\ p[i].ts < to}
      BY <1>1, <1>4 DEF BinMask, to
    <2>2. \A i \in 1..m : (b * DeltaBin <= p[i].ts /\ p[i].ts < to)
                            <=> (c < i /\ i <= e)
      <3> SUFFICES ASSUME NEW i \in 1..m
                   PROVE  (b * DeltaBin <= p[i].ts /\ p[i].ts < to)
                            <=> (c < i /\ i <= e)
        OBVIOUS
      <3>1. /\ p[i].ts \in Nat /\ (i <= c <=> p[i].ts < b * DeltaBin)
            /\ i <= e <=> p[i].ts < to
        BY <1>1, <1>3
      <3>2. i \in Nat
        BY <1>1
      <3> QED
        BY <1>1, <1>3, <1>4, <3>1, <3>2
    <2>3. \A i : i \in (c + 1)..e <=> (i \in 1..m /\ c < i /\ i <= e)
      BY <1>1, <1>3
    <2> QED
      BY <2>1, <2>2, <2>3
  <1>6. Picked(p, (c + 1)..e) = SubSeq(p, c + 1, e)
    <2>1. c + 1 \in Int /\ e \in Int /\ 1 <= c + 1 /\ e <= Len(p) /\ c + 1 <= e + 1
      BY <1>1, <1>2, <1>3 DEF m
    <2> QED
      BY <1>1, <2>1, PickedInterval
  <1> QED
    BY <1>5, <1>6 DEF p, c, e, to

(* Past the horizon there are no packets left.                             *)
LEMMA NothingLeft ==
    ASSUME NEW f, NEW b \in Nat, FlowReady(f, b), ~(b * DeltaBin < horizon_ns)
    PROVE  FlowReady(f, b + 1) /\ Picked(f.packets, BinMask(f.packets, b + 1)) = << >>
  <1> DEFINE p == f.packets
             m == Len(p)
             D == b * DeltaBin
             to == (b + 1) * DeltaBin
  <1>1. /\ p \in Seq(AnyPackets) /\ m \in Nat /\ DOMAIN p = 1..m
        /\ \A i \in 1..m : /\ p[i].ts \in Nat /\ p[i].ts < horizon_ns
                           /\ i <= f.cursor <=> p[i].ts < D
    BY FlowFacts
  <1>2. /\ D \in Nat /\ to \in Nat /\ D <= to /\ horizon_ns \in Nat /\ ~(D < horizon_ns)
        /\ (b + 1) - 1 = b
    <2>1. b + 1 \in Nat /\ b <= b + 1 /\ DeltaBin \in Nat /\ horizon_ns \in Nat
      BY Constants, HorizonType
    <2> QED
      BY <2>1, Monotone, NatProducts
  <1> HIDE DEF D, to
  <1>3. \A i \in 1..m : p[i].ts < D /\ p[i].ts < to
    <2> SUFFICES ASSUME NEW i \in 1..m PROVE p[i].ts < D /\ p[i].ts < to
      OBVIOUS
    <2>1. p[i].ts \in Nat /\ p[i].ts < horizon_ns
      BY <1>1
    <2> QED
      BY <1>2, <2>1
  <1>4. PacketsBefore(f, b + 1)
    BY <1>1, <1>3 DEF PacketsBefore, to
  <1>5. FlowReady(f, b + 1)
    BY <1>4 DEF FlowReady
  <1>6. BinMask(p, b + 1) = {}
    <2> SUFFICES ASSUME NEW i \in 1..m PROVE ~(D <= p[i].ts)
      BY <1>1, <1>2 DEF BinMask, D
    <2>1. p[i].ts \in Nat /\ p[i].ts < D
      BY <1>1, <1>3
    <2> QED
      BY <1>2, <2>1
  <1>7. Picked(p, {}) = << >>
    <2>1. {} \in SUBSET DOMAIN p /\ Cardinality({}) = 0
      BY FS_EmptySet
    <2>2. Picked(p, {}) \in Seq(AnyPackets) /\ Len(Picked(p, {})) = 0
      BY <1>1, <2>1, PickedPlaces
    <2> QED
      BY <2>2
  <1> QED
    BY <1>5, <1>6, <1>7 DEF p

-----------------------------------------------------------------------------
(* The steps of the replay.                                                *)

Ready == SourcesReady /\ HalReady /\ ReplayReady

LEMMA ReplayReadyKept ==
    ASSUME ReplayReady, UNCHANGED replayVars
    PROVE  ReplayReady'
  BY DEF ReplayReady, replayVars, FlowReady, PacketsBefore, horizon_ns

LEMMA InitReady == Init => Ready
  <1> SUFFICES ASSUME Init PROVE Ready
    OBVIOUS
  <1>1. InitSources /\ InitHal /\ stage = "generate" /\ flows = << >> /\ bins = 0
    BY DEF Init
  <1>2. ReplayReady
    <2>1. DOMAIN << >> = 1..0 /\ DOMAIN << >> = {}
      OBVIOUS
    <2> QED
      BY <1>1, <2>1 DEF ReplayReady
  <1> QED
    BY <1>1, <1>2, InitSourcesReady, InitHalReady DEF Ready

LEMMA GenerateReady ==
    ASSUME Ready, Generate
    PROVE  Ready'
  <1>1. /\ stage = "generate" /\ NextSources /\ UNCHANGED halVars
        /\ UNCHANGED replayVars
    BY DEF Generate
  <1>2. Kept
    BY <1>1, SourceKept DEF Kept, replayVars
  <1> QED
    BY <1>1, <1>2, NextSourcesReady, HalReadyKept, ReplayReadyKept DEF Ready

LEMMA GenerateHalReady ==
    ASSUME Ready, GenerateHal
    PROVE  Ready'
  <1>1. NextHal /\ UNCHANGED genVars /\ UNCHANGED replayVars
    BY DEF GenerateHal
  <1>2. stage' = stage
    BY <1>1 DEF replayVars
  <1> QED
    BY <1>1, <1>2, NextHalReady, SourcesReadyKept, ReplayReadyKept DEF Ready

LEMMA HalReturns ==
    ASSUME HalReady, source = "hal_composite", source' = source,
           pairs' = HalPairs,
           asked' = [k \in 1..(Len(HalPairs) + 1) |-> Unasked],
           stage' # "generate", line' = << >>, t' = 0, count' = 0
    PROVE  SourcesReady'
  <1> DEFINE n == Len(HalPairs)
             a == [k \in 1..(n + 1) |-> Unasked]
  <1>1. HalPairs \in Seq(Seq(Packets)) /\ \A k \in DOMAIN HalPairs : Rising(HalPairs[k])
    BY HalPairsReady
  <1>2. n \in Nat /\ DOMAIN HalPairs = 1..n /\ \A k \in 1..n : HalPairs[k] \in Seq(Packets)
    BY <1>1, SeqFacts
  <1>3. a \in Seq(Int) /\ Len(a) = n + 1 /\ \A k \in 1..n : a[k] = Unasked
    <2>1. Unasked \in Int /\ n + 1 \in Nat /\ \A k \in 1..n : k \in 1..(n + 1)
      BY <1>2 DEF Unasked
    <2> QED
      BY <2>1, IsSeq
  <1>4. asked' = a
    OBVIOUS
  <1>5. LeastGap' = 0
    BY DEF LeastGap
  <1>6. \A k \in 1..n : Spaced(HalPairs[k], 0)
    BY <1>1, <1>2, AnyType, RisingSpaced
  <1> HIDE DEF n, a
  <1>7. FlowsReady'
    <2>1. DOMAIN pairs' = 1..n /\ Len(pairs') = n
      BY <1>2 DEF n
    <2>2. \A k \in DOMAIN pairs' : Fits(pairs[k], asked[k])'
      <3> SUFFICES ASSUME NEW k \in 1..n PROVE Fits(pairs[k], asked[k])'
        BY <2>1
      <3>1. Spaced(pairs'[k], LeastGap') /\ asked'[k] = Unasked /\ Unasked' = Unasked
        BY <1>3, <1>4, <1>5, <1>6 DEF Unasked
      <3> QED
        BY <1>2, <3>1 DEF Fits
    <2> QED
      BY <1>1, <1>3, <1>4, <2>1, <2>2, AnyType DEF FlowsReady
  <1>8. LineReady'
    <2>1. << >> \in Seq(Packets)
      OBVIOUS
    <2> QED
      BY <2>1 DEF LineReady
  <1> QED
    BY <1>7, <1>8 DEF SourcesReady

LEMMA ReturnsReady ==
    ASSUME Ready, Return
    PROVE  Ready'
  <1>1. /\ stage = "generate" /\ stage' = "materialise"
        /\ LocalsGone
        /\ line' = << >> /\ t' = 0 /\ count' = 0
        /\ UNCHANGED <<source, flows, bins>>
    BY DEF Return
  <1>2. SourcesReady'
    <2>1. \/ pairs' = Timelines /\ UNCHANGED asked
          \/ /\ source = "hal_composite" /\ pairs' = HalPairs
             /\ asked' = [k \in 1..(Len(HalPairs) + 1) |-> Unasked]
      BY DEF Return
    <2> QED
      BY <1>1, <2>1, ReturnReady, HalReturns DEF Ready
  <1>3. ReplayReady'
    <2>1. bins = 0 /\ flows = << >>
      BY <1>1 DEF Ready, ReplayReady
    <2>2. DOMAIN << >> = 1..0 /\ DOMAIN << >> = {}
      OBVIOUS
    <2> QED
      BY <1>1, <2>1, <2>2 DEF ReplayReady
  <1> QED
    BY <1>1, <1>2, <1>3, LocalsGoneReady DEF Ready

(* The flows of the timelines begin before their first packet.             *)
LEMMA FlowBegins ==
    ASSUME NEW p \in Seq(AnyPackets), Rising(p), NEW tuple
    PROVE  FlowReady(Flow(tuple, p), 0)
  <1> DEFINE f == Flow(tuple, p)
  <1>1. /\ DOMAIN f = {"tuple", "bucket", "packets", "cursor"}
        /\ f.packets = p /\ f.cursor = 0
    BY DEF Flow
  <1> HIDE DEF f
  <1>2. Len(p) \in Nat /\ \A k \in 1..Len(p) : p[k].ts \in Nat
    BY AnyTimeline
  <1>3. 0 * DeltaBin = 0
    BY Constants
  <1>4. PacketsBefore(f, 0)
    BY <1>1, <1>2, <1>3 DEF PacketsBefore
  <1>5. FlowReady(f, 0)
    BY <1>1, <1>2, <1>4 DEF FlowReady
  <1> QED
    BY <1>5 DEF f

LEMMA TimelinesRising ==
    ASSUME SourcesReady, stage = "materialise"
    PROVE  /\ pairs \in Seq(Seq(AnyPackets)) /\ Len(pairs) \in Nat
           /\ DOMAIN pairs = 1..Len(pairs)
           /\ \A k \in DOMAIN pairs :
                 pairs[k] \in Seq(AnyPackets) /\ Spaced(pairs[k], LeastGap) /\ Rising(pairs[k])
  <1>1. pairs \in Seq(Seq(AnyPackets)) /\ \A k \in DOMAIN pairs : Fits(pairs[k], asked[k])
    BY DEF SourcesReady, FlowsReady
  <1>2. /\ Len(pairs) \in Nat /\ DOMAIN pairs = 1..Len(pairs)
        /\ \A k \in DOMAIN pairs : pairs[k] \in Seq(AnyPackets)
    BY <1>1, SeqFacts
  <1>3. \A k \in DOMAIN pairs : Spaced(pairs[k], LeastGap)
    BY <1>1 DEF Fits
  <1>4. \A k \in DOMAIN pairs : Rising(pairs[k])
    BY <1>2, <1>3, Gaps, SpacedRising
  <1> QED
    BY <1>1, <1>2, <1>3, <1>4

LEMMA MaterialiseReady ==
    ASSUME Ready, _materialise_flows
    PROVE  Ready'
  <1>1. /\ stage = "materialise" /\ stage' = "bin" /\ UNCHANGED genVars
        /\ UNCHANGED halVars /\ bins' = bins
    BY DEF _materialise_flows
  <1>2. PICK addr \in [DOMAIN pairs -> Addrs] :
           flows' = [f \in DOMAIN pairs |->
                       Flow([addr |-> addr[f], port |-> PortOf[f]], pairs[f])]
    BY DEF _materialise_flows
  <1>3. /\ DOMAIN pairs = 1..Len(pairs) /\ Len(pairs) \in Nat
        /\ \A k \in DOMAIN pairs : pairs[k] \in Seq(AnyPackets) /\ Rising(pairs[k])
    BY <1>1, TimelinesRising DEF Ready
  <1>4. bins = 0
    BY <1>1 DEF Ready, ReplayReady
  <1>5. DOMAIN flows' = 1..Len(pairs)
    BY <1>2, <1>3
  <1>6. \A k \in DOMAIN flows' : FlowReady(flows'[k], 0)
    <2> SUFFICES ASSUME NEW k \in DOMAIN pairs PROVE FlowReady(flows'[k], 0)
      BY <1>3, <1>5
    <2>1. flows'[k] = Flow([addr |-> addr[k], port |-> PortOf[k]], pairs[k])
      BY <1>2
    <2> QED
      BY <1>3, <2>1, FlowBegins
  <1>7. ReplayReady'
    BY <1>1, <1>3, <1>4, <1>5, <1>6 DEF ReplayReady, FlowReady, PacketsBefore
  <1>8. SourcesReady'
    BY <1>1, SourcesReadyKept DEF Ready
  <1> QED
    BY <1>1, <1>7, <1>8, HalReadyKept DEF Ready

LEMMA BinReady ==
    ASSUME Ready, Bin
    PROVE  Ready'
  <1>1. /\ stage = "bin" /\ stage' = "boundary" /\ UNCHANGED genVars
        /\ UNCHANGED halVars /\ bins' = bins + 1
    BY DEF Bin
  <1>2. /\ bins \in Nat /\ \A k \in DOMAIN flows : FlowReady(flows[k], bins)
    BY DEF Ready, ReplayReady
  <1>3. PICK n \in Nat : DOMAIN flows = 1..n
    BY DEF Ready, ReplayReady
  <1>4. DOMAIN flows' = 1..n /\ \A k \in DOMAIN flows' : FlowReady(flows'[k], bins + 1)
    <2>1. CASE bins * DeltaBin < horizon_ns
      <3> DEFINE to == (bins + 1) * DeltaBin
      <3>1. flows' = [k \in DOMAIN flows |->
                        [flows[k] EXCEPT !.cursor = @ + Pulled(flows[k], to)]]
        BY <2>1 DEF Bin, generate_bin_packets
      <3>2. \A k \in DOMAIN flows :
               FlowReady([flows[k] EXCEPT !.cursor = @ + Pulled(flows[k], to)], bins + 1)
        BY <1>2, PullFacts
      <3> HIDE DEF to
      <3> QED
        BY <1>3, <3>1, <3>2
    <2>2. CASE ~(bins * DeltaBin < horizon_ns)
      <3>1. flows' = flows
        BY <2>2 DEF Bin
      <3> QED
        BY <1>2, <1>3, <2>2, <3>1, NothingLeft
    <2> QED
      BY <2>1, <2>2
  <1>5. ReplayReady'
    BY <1>1, <1>2, <1>4 DEF ReplayReady, FlowReady, PacketsBefore
  <1>6. SourcesReady'
    BY <1>1, SourcesReadyKept DEF Ready
  <1> QED
    BY <1>1, <1>5, <1>6, HalReadyKept DEF Ready

LEMMA BoundaryReady ==
    ASSUME Ready, Boundary
    PROVE  Ready'
  <1>1. /\ stage = "boundary" /\ stage' \in {"done", "bin"} /\ UNCHANGED genVars
        /\ UNCHANGED halVars /\ bins' = bins
        /\ UNCHANGED flows \/ _shift_pattern
    BY DEF Boundary
  <1>2. /\ bins \in Nat /\ \A k \in DOMAIN flows : FlowReady(flows[k], bins)
    BY DEF Ready, ReplayReady
  <1>3. PICK n \in Nat : DOMAIN flows = 1..n
    BY DEF Ready, ReplayReady
  <1>4. DOMAIN flows' = 1..n /\ \A k \in DOMAIN flows' : FlowReady(flows'[k], bins)
    <2>1. CASE UNCHANGED flows
      BY <1>2, <1>3, <2>1
    <2>2. CASE _shift_pattern
      <3>0. PICK shifted \in SUBSET DOMAIN flows : \E port \in [shifted -> Ports] :
                  flows' = [k \in DOMAIN flows |->
                      Rebucketed(IF k \in shifted
                                 THEN [flows[k] EXCEPT !.tuple.port = port[k]]
                                 ELSE flows[k])]
        BY <2>2 DEF _shift_pattern
      <3>1. PICK port \in [shifted -> Ports] :
                  flows' = [k \in DOMAIN flows |->
                      Rebucketed(IF k \in shifted
                                 THEN [flows[k] EXCEPT !.tuple.port = port[k]]
                                 ELSE flows[k])]
        BY <3>0
      <3>2. \A k \in DOMAIN flows :
               /\ flows'[k].packets = flows[k].packets
               /\ flows'[k].cursor = flows[k].cursor
               /\ DOMAIN flows'[k] = DOMAIN flows[k]
        <4> SUFFICES ASSUME NEW k \in DOMAIN flows
                     PROVE  /\ flows'[k].packets = flows[k].packets
                            /\ flows'[k].cursor = flows[k].cursor
                            /\ DOMAIN flows'[k] = DOMAIN flows[k]
          OBVIOUS
        <4> DEFINE f == flows[k]
                   moved == [f EXCEPT !.tuple.port = port[k]]
                   g == IF k \in shifted THEN moved ELSE f
        <4>1. {"tuple", "bucket", "packets", "cursor"} \subseteq DOMAIN f
          BY <1>2 DEF FlowReady
        <4>2. DOMAIN moved = DOMAIN f /\ moved.packets = f.packets /\ moved.cursor = f.cursor
          BY <4>1
        <4>3. flows'[k] = Rebucketed(g)
          BY <3>1
        <4> HIDE DEF moved, f
        <4>4. DOMAIN g = DOMAIN f /\ g.packets = f.packets /\ g.cursor = f.cursor
          BY <4>2
        <4> HIDE DEF g
        <4>5. /\ DOMAIN Rebucketed(g) = DOMAIN g /\ Rebucketed(g).packets = g.packets
              /\ Rebucketed(g).cursor = g.cursor
          BY <4>1, <4>4 DEF Rebucketed
        <4> QED
          BY <4>3, <4>4, <4>5 DEF f
      <3>3. DOMAIN flows' = DOMAIN flows
        BY <3>1
      <3> QED
        BY <1>2, <1>3, <3>2, <3>3 DEF FlowReady, PacketsBefore
    <2> QED
      BY <1>1, <2>1, <2>2
  <1>5. ReplayReady'
    BY <1>1, <1>2, <1>4 DEF ReplayReady, FlowReady, PacketsBefore
  <1>6. SourcesReady'
    BY <1>1, SourcesReadyKept DEF Ready
  <1> QED
    BY <1>1, <1>5, <1>6, HalReadyKept DEF Ready

LEMMA StutterReady ==
    ASSUME Ready, UNCHANGED vars
    PROVE  Ready'
  <1>1. UNCHANGED genVars /\ UNCHANGED halVars /\ UNCHANGED replayVars /\ stage' = stage
    BY DEF vars, replayVars
  <1> QED
    BY <1>1, SourcesReadyKept, HalReadyKept, ReplayReadyKept DEF Ready

LEMMA NextReady == Ready /\ [Next]_vars => Ready'
  BY GenerateReady, GenerateHalReady, ReturnsReady, MaterialiseReady, BinReady,
     BoundaryReady, StutterReady DEF Next, Done

(* What a flow contributes to a bin.                                       *)
Part(f, b) == Labelled(f, Picked(f.packets, BinMask(f.packets, b)))

LEMMA BatchIs ==
    BatchExact <=> (stage = "boundary" =>
        batch = InOrder(FlattenSeq([k \in DOMAIN flows |-> Part(flows[k], bins)])))
  <1>1. \A k : {i \in DOMAIN flows[k].packets : InBin(flows[k].packets[i])}
                 = BinMask(flows[k].packets, bins)
    BY DEF InBin, BinMask
  <1>2. \A k : Masked(flows[k].packets, InBin)
                 = Picked(flows[k].packets, BinMask(flows[k].packets, bins))
    BY <1>1 DEF Masked
  <1>3. [k \in DOMAIN flows |-> Labelled(flows[k], Masked(flows[k].packets, InBin))]
          = [k \in DOMAIN flows |-> Part(flows[k], bins)]
    BY <1>2 DEF Part
  <1> QED
    BY <1>3 DEF BatchExact

LEMMA BinBatch ==
    ASSUME Ready, Bin
    PROVE  BatchExact'
  <1>1. bins' = bins + 1
    BY DEF Bin
  <1>2. /\ bins \in Nat /\ \A k \in DOMAIN flows : FlowReady(flows[k], bins)
    BY DEF Ready, ReplayReady
  <1>3. PICK n \in Nat : DOMAIN flows = 1..n
    BY DEF Ready, ReplayReady
  <1> DEFINE parts == [k \in DOMAIN flows' |-> Part(flows'[k], bins + 1)]
  <1>4. batch' = InOrder(FlattenSeq(parts))
    <2>1. CASE bins * DeltaBin < horizon_ns
      <3> DEFINE to == (bins + 1) * DeltaBin
                 pulled(f) == [f EXCEPT !.cursor = @ + Pulled(f, to)]
                 taken(f) == SubSeq(f.packets, f.cursor + 1, f.cursor + Pulled(f, to))
      <3>1. /\ flows' = [k \in DOMAIN flows |-> pulled(flows[k])]
            /\ batch' = InOrder(FlattenSeq([k \in DOMAIN flows |->
                                   Labelled(flows[k], taken(flows[k]))]))
        BY <2>1 DEF Bin, generate_bin_packets, Merged
      <3>2. \A k \in DOMAIN flows :
               Part(pulled(flows[k]), bins + 1) = Labelled(flows[k], taken(flows[k]))
        <4> SUFFICES ASSUME NEW k \in DOMAIN flows
                     PROVE  Part(pulled(flows[k]), bins + 1)
                              = Labelled(flows[k], taken(flows[k]))
          OBVIOUS
        <4> DEFINE f == flows[k]
                   g == pulled(f)
        <4>1. g.packets = f.packets /\ g.bucket = f.bucket
          BY <1>2, PullFacts
        <4>2. Picked(f.packets, BinMask(f.packets, bins + 1)) = taken(f)
          BY <1>2, PulledPackets
        <4> HIDE DEF g, f, taken
        <4>3. Part(g, bins + 1) = Labelled(g, taken(f))
          BY <4>1, <4>2 DEF Part
        <4>4. Labelled(g, taken(f)) = Labelled(f, taken(f))
          BY <4>1 DEF Labelled
        <4> QED
          BY <4>3, <4>4 DEF g, f
      <3> HIDE DEF pulled, taken
      <3>3. parts = [k \in DOMAIN flows |-> Labelled(flows[k], taken(flows[k]))]
        BY <3>1, <3>2
      <3> HIDE DEF parts
      <3> QED
        BY <3>1, <3>3
    <2>2. CASE ~(bins * DeltaBin < horizon_ns)
      <3>1. flows' = flows /\ batch' = << >>
        BY <2>2 DEF Bin
      <3>2. \A k \in DOMAIN flows : Part(flows[k], bins + 1) = << >>
        <4>1. \A k \in DOMAIN flows :
                 Picked(flows[k].packets, BinMask(flows[k].packets, bins + 1)) = << >>
          BY <1>2, <2>2, NothingLeft
        <4>2. \A f : Labelled(f, << >>) = << >>
          BY DEF Labelled
        <4> QED
          BY <4>1, <4>2 DEF Part
      <3>3. DOMAIN parts = 1..n /\ parts = [k \in 1..n |-> parts[k]]
            /\ \A k \in 1..n : parts[k] = << >>
        BY <1>3, <3>1, <3>2
      <3> HIDE DEF parts
      <3>4. << >> \in Seq({}) /\ \A p \in Seq({}) : p = << >>
        OBVIOUS
      <3>5. parts \in Seq(Seq({}))
        <4>1. DOMAIN parts = 1..n /\ parts = [k \in 1..n |-> parts[k]]
              /\ \A k \in 1..n : parts[k] \in Seq({})
          BY <3>3, <3>4
        <4> QED
          BY <4>1, IsSeq
      <3>6. FlattenSeq(parts) = << >>
        BY <3>4, <3>5, FlattenIn
      <3>7. \A x \in {} : x.ts \in Int
        OBVIOUS
      <3>8. InOrder(<< >>) = << >>
        BY <3>4, <3>7, InOrderSorts
      <3> QED
        BY <3>1, <3>6, <3>8
    <2> QED
      BY <2>1, <2>2
  <1>5. (BatchExact <=> (stage = "boundary" =>
            batch = InOrder(FlattenSeq([k \in DOMAIN flows |-> Part(flows[k], bins)]))))'
    BY BatchIs, PTL
  <1>6. [k \in DOMAIN flows |-> Part(flows[k], bins)]' = parts
    BY <1>1 DEF Part, BinMask, Labelled
  <1> HIDE DEF parts
  <1> QED
    BY <1>4, <1>5, <1>6

LEMMA BatchKept ==
    ASSUME BatchExact, UNCHANGED vars
    PROVE  BatchExact'
  <1>1. UNCHANGED <<stage, flows, bins, batch>>
    BY DEF vars, replayVars
  <1>2. (BatchExact <=> (stage = "boundary" =>
            batch = InOrder(FlattenSeq([k \in DOMAIN flows |-> Part(flows[k], bins)]))))'
    BY BatchIs, PTL
  <1>3. [k \in DOMAIN flows |-> Part(flows[k], bins)]'
          = [k \in DOMAIN flows |-> Part(flows[k], bins)]
    BY <1>1 DEF Part, BinMask, Labelled
  <1> QED
    BY <1>1, <1>2, <1>3, BatchIs

LEMMA NextBatch == Ready /\ BatchExact /\ [Next]_vars => BatchExact'
  <1> SUFFICES ASSUME Ready, BatchExact, [Next]_vars PROVE BatchExact'
    OBVIOUS
  <1>1. CASE Bin
    BY <1>1, BinBatch
  <1>2. CASE UNCHANGED vars
    BY <1>2, BatchKept
  <1>3. CASE Generate \/ GenerateHal \/ Return \/ _materialise_flows \/ Boundary
    <2>1. stage' # "boundary"
      BY <1>3 DEF Generate, GenerateHal, Return, _materialise_flows, Boundary, replayVars
    <2> QED
      BY <2>1 DEF BatchExact
  <1> QED
    BY <1>1, <1>2, <1>3 DEF Next, Done

LEMMA NothingReleased ==
    ASSUME HalReady, NEW v, \A i \in DOMAIN all : v[i] = all[i]
    PROVE  Released(all, v) = 0
  <1> DEFINE n == Len(all)
             f == [k \in 1..n |-> all[k].rem - v[k].rem]
  <1>1. /\ all \in Seq(HalFlows) /\ n \in Nat /\ DOMAIN all = 1..n
        /\ \A i \in 1..n : all[i] \in HalFlows
    BY ListedFacts DEF HalReady
  <1>2. \A i \in 1..n : all[i].rem \in Int /\ v[i].rem = all[i].rem
    BY <1>1 DEF HalFlows
  <1>3. \A k \in 1..n : f[k] = 0
    BY <1>2
  <1> HIDE DEF n
  <1>4. IsFiniteSet(1..n)
    BY <1>1, FS_Interval, 1 \in Int, n \in Int
  <1>5. Released(all, v) = SumFunctionOnSet(f, 1..n)
    BY <1>1, <1>2, ReleasedIs DEF n
  <1> HIDE DEF f
  <1> QED
    BY <1>3, <1>4, <1>5, SumZero

LEMMA CapsKept ==
    ASSUME HalReady'
    PROVE  /\ \A i \in DOMAIN all' : all'[i].rem >= 0
           /\ spawned' <= MaxSpawn /\ Len(present') <= MaxAlive
  <1>1. all' \in Seq(HalFlows) /\ spawned' \in 0..MaxSpawn /\ Len(present') <= MaxAlive
    BY DEF HalReady, Listed
  <1>2. \A i \in DOMAIN all' : all'[i] \in HalFlows
    BY <1>1, SeqFacts
  <1>3. MaxSpawn \in Nat
    BY HalConstants
  <1> QED
    BY <1>1, <1>2, <1>3 DEF HalFlows

LEMMA IdleStep ==
    ASSUME HalReady, HalReady', \A i \in DOMAIN all : all'[i] = all[i],
           ~(step = "spawn" /\ step' = "window")
    PROVE  WindowStep
  <1>1. Released(all, all') = 0
    BY NothingReleased
  <1> QED
    BY <1>1, CapsKept DEF WindowStep, Released

LEMMA CloseStep ==
    ASSUME HalReady, HalReady', CloseWindow
    PROVE  WindowStep
  <1> DEFINE n == Len(present)
             given == SumFunctionOnSet([k \in 1..n |-> Given(k)], 1..n)
  <1>1. step = "spawn" /\ step' = "window" /\ ~Wanting
    BY DEF CloseWindow
  <1>2. Released(all, all') = given
    BY WindowReleases
  <1>3. /\ given <= target /\ given \in Nat /\ Demand \in Nat
        /\ Demand >= target => given = target \/ given + n > target
    BY <1>1, SharesGiven
  <1>4. n \in Nat /\ n <= MaxAlive /\ spawned \in Nat /\ spawned <= MaxSpawn
        /\ MaxAlive \in Nat /\ MaxSpawn \in Nat /\ target \in Nat
    BY ListedFacts, HalConstants DEF HalReady
  <1>5. Demand >= target \/ spawned = MaxSpawn \/ n = MaxAlive
    <2>1. ~(Demand < target) \/ ~(spawned < MaxSpawn) \/ ~(n < MaxAlive)
      BY <1>1 DEF Wanting
    <2> HIDE DEF n
    <2> QED
      BY <1>3, <1>4, <2>1
  <1> HIDE DEF given, n
  <1>6. /\ given <= target
        /\ \/ given = target \/ given + n > target
           \/ spawned = MaxSpawn
           \/ n = MaxAlive
    BY <1>3, <1>5
  <1> QED
    BY <1>1, <1>2, <1>6, CapsKept DEF WindowStep, Released, n

LEMMA NextWindow ==
    ASSUME Ready, Next, stage = "generate", stage' = "generate"
    PROVE  WindowStep
  <1>1. HalReady /\ HalReady'
    BY NextReady DEF Ready
  <1>2. CASE Generate
    <2>1. all' = all /\ step' = step
      BY <1>2 DEF Generate, halVars
    <2> QED
      BY <1>1, <2>1, IdleStep
  <1>3. CASE GenerateHal
    <2>1. CASE OpenWindow
      <3>1. all' = all /\ step = "window"
        BY <2>1 DEF OpenWindow
      <3> QED
        BY <1>1, <3>1, IdleStep
    <2>2. CASE Spawn
      <3>1. step' = step /\ \A i \in DOMAIN all : all'[i] = all[i]
        BY <1>1, <2>2, SpawnReady DEF Spawn
      <3> QED
        BY <1>1, <3>1, IdleStep
    <2>3. CASE CloseWindow
      BY <1>1, <2>3, CloseStep
    <2> QED
      BY <1>3, <2>1, <2>2, <2>3 DEF GenerateHal, NextHal
  <1>4. CASE Return \/ _materialise_flows \/ Bin \/ Boundary \/ Done
    BY <1>4 DEF Return, _materialise_flows, Bin, Boundary, Done
  <1> QED
    BY <1>2, <1>3, <1>4 DEF Next

-----------------------------------------------------------------------------
(* The buckets of the flows.                                               *)

(* A flow of a TraceSet has its fields, and the bucket of its tuple.       *)
Hashed(f) ==
    /\ {"tuple", "bucket", "packets", "cursor"} \subseteq DOMAIN f
    /\ f.bucket = BucketOf[f.tuple]

FlowsHashed ==
    /\ stage \in {"generate", "materialise"} => flows = << >>
    /\ \A k \in DOMAIN flows : Hashed(flows[k])

LEMMA FlowHashed ==
    ASSUME NEW tuple, NEW packets
    PROVE  Hashed(Flow(tuple, packets))
  BY DEF Hashed, Flow

(* A pull moves cursors, and a shift ends with the buckets of the tuples.  *)
LEMMA CursorKeepsHash ==
    ASSUME NEW f, Hashed(f), NEW n
    PROVE  Hashed([f EXCEPT !.cursor = n])
  BY DEF Hashed

LEMMA RebucketedHashed ==
    ASSUME NEW f, {"tuple", "bucket", "packets", "cursor"} \subseteq DOMAIN f
    PROVE  Hashed(Rebucketed(f))
  BY DEF Hashed, Rebucketed

LEMMA ShiftHashes ==
    ASSUME FlowsHashed, _shift_pattern
    PROVE  \A k \in DOMAIN flows' : Hashed(flows'[k])
  <1>1. PICK shifted \in SUBSET DOMAIN flows : \E port \in [shifted -> Ports] :
              flows' = [k \in DOMAIN flows |->
                  Rebucketed(IF k \in shifted
                             THEN [flows[k] EXCEPT !.tuple.port = port[k]]
                             ELSE flows[k])]
    BY DEF _shift_pattern
  <1>2. PICK port \in [shifted -> Ports] :
              flows' = [k \in DOMAIN flows |->
                  Rebucketed(IF k \in shifted
                             THEN [flows[k] EXCEPT !.tuple.port = port[k]]
                             ELSE flows[k])]
    BY <1>1
  <1> SUFFICES ASSUME NEW k \in DOMAIN flows PROVE Hashed(flows'[k])
    BY <1>2
  <1> DEFINE moved == [flows[k] EXCEPT !.tuple.port = port[k]]
             f == IF k \in shifted THEN moved ELSE flows[k]
  <1>3. DOMAIN moved = DOMAIN flows[k]
    OBVIOUS
  <1>4. {"tuple", "bucket", "packets", "cursor"} \subseteq DOMAIN f
    <2> HIDE DEF moved
    <2> QED
      BY <1>3 DEF FlowsHashed, Hashed
  <1> HIDE DEF f, moved
  <1>5. Hashed(Rebucketed(f))
    BY <1>4, RebucketedHashed
  <1>6. flows'[k] = Rebucketed(f)
    BY <1>2 DEF f, moved
  <1> QED
    BY <1>5, <1>6

LEMMA InitHashed == Init => FlowsHashed
  BY DEF Init, FlowsHashed

LEMMA NextHashed == FlowsHashed /\ [Next]_vars => FlowsHashed'
  <1> SUFFICES ASSUME FlowsHashed, [Next]_vars PROVE FlowsHashed'
    OBVIOUS
  <1>1. CASE Generate \/ GenerateHal
    BY <1>1 DEF Generate, GenerateHal, replayVars, FlowsHashed
  <1>2. CASE Return
    BY <1>2 DEF Return, FlowsHashed
  <1>3. CASE _materialise_flows
    <2>1. PICK addr \in [DOMAIN pairs -> Addrs] :
             flows' = [f \in DOMAIN pairs |->
                         Flow([addr |-> addr[f], port |-> PortOf[f]], pairs[f])]
      BY <1>3 DEF _materialise_flows
    <2>2. \A k \in DOMAIN flows' : Hashed(flows'[k])
      BY <2>1, FlowHashed
    <2> QED
      BY <1>3, <2>2 DEF _materialise_flows, FlowsHashed
  <1>4. CASE Bin
    <2>1. stage = "bin" /\ stage' = "boundary"
      BY <1>4 DEF Bin
    <2>2. CASE UNCHANGED flows
      BY <2>1, <2>2 DEF FlowsHashed
    <2>3. ASSUME NEW to, generate_bin_packets(to)
          PROVE  \A k \in DOMAIN flows' : Hashed(flows'[k])
      <3>1. flows' = [k \in DOMAIN flows |->
                        [flows[k] EXCEPT !.cursor = @ + Pulled(flows[k], to)]]
        BY <2>3 DEF generate_bin_packets
      <3>2. \A k \in DOMAIN flows : Hashed(flows[k])
        BY DEF FlowsHashed
      <3>3. \A k \in DOMAIN flows :
               Hashed([flows[k] EXCEPT !.cursor = flows[k].cursor + Pulled(flows[k], to)])
        BY <3>2, CursorKeepsHash
      <3> QED
        BY <3>1, <3>3
    <2> QED
      BY <1>4, <2>1, <2>2, <2>3 DEF Bin, FlowsHashed
  <1>5. CASE Boundary
    <2>1. stage = "boundary" /\ stage' \in {"done", "bin"}
      BY <1>5 DEF Boundary
    <2>2. CASE _shift_pattern
      BY <2>1, <2>2, ShiftHashes DEF FlowsHashed
    <2>3. CASE UNCHANGED flows
      BY <2>1, <2>3 DEF FlowsHashed
    <2> QED
      BY <1>5, <2>2, <2>3 DEF Boundary
  <1>6. CASE Done \/ UNCHANGED vars
    BY <1>6 DEF Done, vars, replayVars, FlowsHashed
  <1> QED
    BY <1>1, <1>2, <1>3, <1>4, <1>5, <1>6 DEF Next

-----------------------------------------------------------------------------
(* What holds of every replay.                                             *)

(* A bin gets exactly the packets whose timestamps lie in it, from every   *)
(* flow and in the order of time, each under the bucket its flow has in    *)
(* that bin, however many flows, bins and shifts of the pattern there are. *)
THEOREM BatchAlwaysExact == Spec => []BatchExact
  <1>1. Init => Ready /\ BatchExact
    BY InitReady DEF Init, BatchExact
  <1>2. Ready /\ BatchExact /\ [Next]_vars => (Ready /\ BatchExact)'
    BY NextReady, NextBatch
  <1> QED
    BY <1>1, <1>2, PTL DEF Spec

(* Every timeline that is handed over is in order and before the horizon,  *)
(* and no faster than its flow's rate where messages are sent one after    *)
(* the other; for any jitter, any rows and any sizes of packets in a mix   *)
(* or in the rows.  The sources that cut bytes into packets keep to the    *)
(* MTU.                                                                    *)
THEOREM TimelinesAlwaysPaced == Spec => []TimelinesPaced
  <1>1. Ready => TimelinesPaced
    <2> SUFFICES ASSUME Ready, stage = "materialise", NEW p \in ToSet(pairs)
                 PROVE  /\ \A k \in DOMAIN p :
                              /\ p[k].ts < horizon_ns
                              /\ source \notin MixedSizes => p[k].sz <= Mtu
                        /\ \A k \in 1..(Len(p) - 1) : p[k + 1].ts - p[k].ts >= LeastGap
      BY DEF TimelinesPaced
    <2>1. PICK j \in DOMAIN pairs : p = pairs[j]
      BY DEF ToSet
    <2>2. p \in Seq(AnyPackets) /\ Spaced(p, LeastGap)
      BY <2>1, TimelinesRising DEF Ready
    <2>3. Len(p) \in Nat /\ DOMAIN p = 1..Len(p) /\ \A k \in 1..Len(p) : p[k].ts < horizon_ns
      BY <2>2, AnyTimeline
    <2>4. source \notin MixedSizes => \A k \in 1..Len(p) : p[k].sz <= Mtu
      <3>1. source \notin MixedSizes => p \in Seq(Packets)
        BY <2>1 DEF Ready, SourcesReady, FlowsReady, Fits
      <3> QED
        BY <3>1, TimelineFacts
    <2>5. \A k \in 1..(Len(p) - 1) : p[k + 1].ts - p[k].ts >= LeastGap
      BY <2>2 DEF Spaced
    <2> QED
      BY <2>3, <2>4, <2>5
  <1> QED
    BY <1>1, InitReady, NextReady, PTL DEF Spec

(* No flow sends more than its size, its messages or its budget, and it    *)
(* sends them to the last whole byte if there was time for another packet. *)
THEOREM AlwaysWithinBudget == Spec => []WithinBudget
  <1>1. Ready => WithinBudget
    <2> SUFFICES ASSUME Ready, stage = "materialise",
                        NEW k \in DOMAIN pairs, asked[k] # Unasked
                 PROVE  /\ Bytes(pairs[k]) <= asked[k]
                        /\ source # "synthetic_sustained" /\ Room(pairs[k])
                              => Bytes(pairs[k]) = asked[k]
      BY DEF WithinBudget
    <2>1. Fits(pairs[k], asked[k])
      BY DEF Ready, SourcesReady, FlowsReady
    <2>2. IF source = "synthetic_sustained" THEN Bytes(pairs[k]) <= asked[k]
                                            ELSE Budgeted(pairs[k], asked[k])
      BY <2>1 DEF Fits
    <2> QED
      BY <2>2 DEF Budgeted
  <1> QED
    BY <1>1, InitReady, NextReady, PTL DEF Spec

(* The flows of a class send together in a window no more than its target, *)
(* and all of it to a unit for each flow unless a cap has ended the        *)
(* spawning; nothing is sent at another time, no flow more than it has,    *)
(* and no cap is exceeded: for any classes, windows, rates and sizes.      *)
THEOREM WindowsAlwaysShared == Spec => WindowShare
  <1>1. Ready /\ [Next]_vars => [stage = "generate" /\ stage' = "generate" => WindowStep]_vars
    BY NextWindow
  <1> QED
    BY <1>1, InitReady, NextReady, PTL DEF Spec, WindowShare

(* A flow is steered by the bucket of its present five-tuple, whatever     *)
(* shifts of the pattern came before.                                      *)
THEOREM BucketAlwaysMatchesTuple == Spec => []BucketMatchesTuple
  <1>1. FlowsHashed => BucketMatchesTuple
    BY DEF FlowsHashed, Hashed, BucketMatchesTuple
  <1> QED
    BY <1>1, InitHashed, NextHashed, PTL DEF Spec

=============================================================================
