----------------------------- MODULE FiniteSums -----------------------------
(***************************************************************************)
(* Induction, sums and quotients, for proofs about packets and bytes.      *)
(* The induction theorems of the library take a predicate as parameter,    *)
(* which the provers cannot instantiate.  Here the predicate is the set of *)
(* what satisfies it, and induction follows from the least element that is *)
(* not in it.  The sums are those of the module Functions.                 *)
(***************************************************************************)
EXTENDS Sorting, Functions, FiniteSetTheorems, WellFoundedInduction, TLAPS

(* Every set of naturals that is not empty has a least element.            *)
LEMMA LeastElement ==
    ASSUME NEW T \in SUBSET Nat, T # {}
    PROVE  \E x \in T : \A y \in T : x <= y
  <1> DEFINE R == OpToRel(<, Nat)
  <1>1. \A x, y \in Nat : <<x, y>> \in R <=> x < y
    BY DEF OpToRel
  <1>2. IsWellFoundedOn(R, Nat)
    BY NatLessThanWellFounded
  <1> HIDE DEF R
  <1>3. PICK x \in T : \A y \in T : ~(<<y, x>> \in R)
    BY <1>2, WFMin
  <1>4. \A y \in T : y \in Nat /\ x \in Nat /\ ~(y < x)
    BY <1>1, <1>3
  <1> QED
    BY <1>3, <1>4

(* What is bounded has a greatest.                                         *)
LEMMA GreatestElement ==
    ASSUME NEW n \in Nat, NEW T \in SUBSET (1..n), T # {}
    PROVE  \E x \in T : \A y \in T : x >= y
  <1> DEFINE U == {i \in Nat : n - i \in T}
  <1>1. U \in SUBSET Nat /\ U # {}
    <2>1. PICK x \in T : x \in 1..n
      OBVIOUS
    <2>2. n - x \in Nat /\ n - (n - x) = x
      BY <2>1
    <2> QED
      BY <2>1, <2>2
  <1>2. PICK i \in U : \A j \in U : i <= j
    BY <1>1, LeastElement
  <1>3. \A y \in T : n - y \in U /\ y \in Nat
    <2> TAKE y \in T
    <2>1. y \in 1..n
      OBVIOUS
    <2>2. n - y \in Nat /\ n - (n - y) = y
      BY <2>1
    <2> QED
      BY <2>1, <2>2
  <1>4. \A y \in T : n - i >= y
    <2> TAKE y \in T
    <2>1. i <= n - y /\ y \in Nat /\ i \in Nat
      BY <1>2, <1>3
    <2> QED
      BY <2>1
  <1> QED
    BY <1>2, <1>4

(* Induction over the naturals.                                            *)
LEMMA Induction ==
    ASSUME NEW P, 0 \in P, \A n \in Nat : n \in P => n + 1 \in P
    PROVE  Nat \subseteq P
  <1> SUFFICES ASSUME Nat \ P # {} PROVE FALSE
    OBVIOUS
  <1>1. PICK x \in Nat \ P : \A y \in Nat \ P : x <= y
    <2>1. Nat \ P \in SUBSET Nat
      OBVIOUS
    <2> QED
      BY <2>1, LeastElement
  <1>2. x # 0 /\ x - 1 \in Nat
    BY <1>1
  <1>3. x - 1 \in P
    BY <1>1, <1>2
  <1> QED
    BY <1>1, <1>2, <1>3

(* Induction over the subsets of a finite set.                             *)
LEMMA FiniteInduction ==
    ASSUME NEW S, IsFiniteSet(S), NEW P, {} \in P,
           \A T \in SUBSET S : \A x \in S \ T : T \in P => T \cup {x} \in P
    PROVE  SUBSET S \subseteq P
  <1> DEFINE N == {n \in Nat : \A T \in SUBSET S : Cardinality(T) = n => T \in P}
  <1>1. \A T \in SUBSET S : IsFiniteSet(T) /\ Cardinality(T) \in Nat
    BY FS_Subset, FS_CardinalityType
  <1>2. 0 \in N
    BY <1>1, FS_EmptySet
  <1>3. ASSUME NEW n \in Nat, n \in N PROVE n + 1 \in N
    <2> SUFFICES ASSUME NEW T \in SUBSET S, Cardinality(T) = n + 1 PROVE T \in P
      OBVIOUS
    <2>1. PICK x \in T : TRUE
      BY <1>1, FS_EmptySet
    <2>2. T \ {x} \in SUBSET S /\ Cardinality(T \ {x}) = n
      <3>1. IsFiniteSet(T)
        BY <1>1
      <3>2. Cardinality(T \ {x}) = Cardinality(T) - 1
        BY <2>1, <3>1, FS_RemoveElement
      <3> QED
        BY <3>2
    <2>3. T \ {x} \in P /\ x \in S \ (T \ {x}) /\ (T \ {x}) \cup {x} = T
      BY <1>3, <2>1, <2>2
    <2>4. (T \ {x}) \cup {x} \in P
      BY <2>2, <2>3
    <2> QED
      BY <2>3, <2>4
  <1> HIDE DEF N
  <1>4. Nat \subseteq N
    BY <1>2, <1>3, Induction
  <1> QED
    BY <1>1, <1>4 DEF N

-----------------------------------------------------------------------------
(* The recursion by which a sum is defined has a solution.                 *)
Chosen(s) == CHOOSE x \in s : TRUE

PartialSum(f, g, s) == IF s = {} THEN 0 ELSE f[Chosen(s)] + g[s \ {Chosen(s)}]

LEMMA ChosenRemoved ==
    ASSUME NEW s, IsFiniteSet(s), s # {}
    PROVE  /\ Chosen(s) \in s
           /\ IsFiniteSet(s \ {Chosen(s)})
           /\ Cardinality(s) \in Nat \ {0}
           /\ Cardinality(s \ {Chosen(s)}) = Cardinality(s) - 1
  <1> DEFINE e == Chosen(s)
  <1>1. e \in s
    BY DEF Chosen
  <1> HIDE DEF e
  <1>2. Cardinality(s) \in Nat \ {0}
    BY FS_CardinalityType, FS_EmptySet
  <1>3. /\ IsFiniteSet(s \ {e})
        /\ Cardinality(s \ {e}) = IF e \in s THEN Cardinality(s) - 1 ELSE Cardinality(s)
    BY FS_RemoveElement
  <1> QED
    BY <1>1, <1>2, <1>3 DEF e

LEMMA SumUnfolds ==
    ASSUME NEW S, IsFiniteSet(S), NEW f
    PROVE  \E g : /\ \A s \in SUBSET S : g[s] = PartialSum(f, g, s)
                 /\ SumFunctionOnSet(f, S) = g[S]
  <1> DEFINE Upto(n) == {s \in SUBSET S : Cardinality(s) <= n}
             N == {n \in Nat : \E g : g = [s \in Upto(n) |-> PartialSum(f, g, s)]}
  <1>1. \A T \in SUBSET S : IsFiniteSet(T) /\ Cardinality(T) \in Nat
    BY FS_Subset, FS_CardinalityType
  <1>2. \A s \in SUBSET S : s # {} =>
           /\ Chosen(s) \in s /\ s \ {Chosen(s)} \in SUBSET S
           /\ Cardinality(s \ {Chosen(s)}) = Cardinality(s) - 1
    BY <1>1, FS_RemoveElement DEF Chosen
  <1>3. 0 \in N
    <2> DEFINE g == [s \in Upto(0) |-> 0]
    <2>1. \A s \in Upto(0) : s = {}
      BY <1>1, FS_EmptySet
    <2>2. g = [s \in Upto(0) |-> PartialSum(f, g, s)]
      BY <2>1 DEF PartialSum
    <2> QED
      BY <2>2
  <1>4. ASSUME NEW n \in Nat, n \in N PROVE n + 1 \in N
    <2>1. PICK g : g = [s \in Upto(n) |-> PartialSum(f, g, s)]
      BY <1>4
    <2> DEFINE h == [s \in Upto(n + 1) |-> PartialSum(f, g, s)]
    <2>2. \A s \in Upto(n) : s \in Upto(n + 1) /\ h[s] = g[s]
      BY <1>1, <2>1
    <2>3. \A s \in Upto(n + 1) : s # {} => s \ {Chosen(s)} \in Upto(n)
      BY <1>1, <1>2
    <2>4. \A s \in Upto(n + 1) : PartialSum(f, g, s) = PartialSum(f, h, s)
      <3> HIDE DEF h, Upto
      <3> QED
        BY <2>2, <2>3 DEF PartialSum
    <2>5. h = [s \in Upto(n + 1) |-> PartialSum(f, h, s)]
      <3> HIDE DEF Upto
      <3> QED
        BY <2>4
    <2>6. \E k : k = [s \in Upto(n + 1) |-> PartialSum(f, k, s)]
      <3> HIDE DEF h, Upto
      <3> QED
        BY <2>5
    <2> HIDE DEF h, Upto
    <2> QED
      BY <2>6
  <1> HIDE DEF N
  <1>5. Cardinality(S) \in N
    BY <1>1, <1>3, <1>4, Induction
  <1>6. Upto(Cardinality(S)) = SUBSET S
    BY <1>1, FS_Subset
  <1>7. PICK g : g = [s \in SUBSET S |-> PartialSum(f, g, s)]
    BY <1>5, <1>6 DEF N
  <1>8. g = [s \in SUBSET S |->
               IF s = {} THEN 0
               ELSE f[CHOOSE x \in s : TRUE] + g[s \ {CHOOSE x \in s : TRUE}]]
    BY <1>7 DEF PartialSum, Chosen
  <1>9. \E k : k = [s \in SUBSET S |->
               IF s = {} THEN 0
               ELSE f[CHOOSE x \in s : TRUE] + k[s \ {CHOOSE x \in s : TRUE}]]
    BY <1>8
  <1> HIDE DEF N, Upto
  <1> QED
    BY <1>9 DEF SumFunctionOnSet, FoldFunctionOnSet, MapThenFoldSet, PartialSum, Chosen

(* The sum over a set, one element after the other, as the sum chooses     *)
(* them.                                                                   *)
LEMMA SumStep ==
    ASSUME NEW S, IsFiniteSet(S), NEW f
    PROVE  /\ SumFunctionOnSet(f, {}) = 0
           /\ S # {} => SumFunctionOnSet(f, S)
                 = f[Chosen(S)] + SumFunctionOnSet(f, S \ {Chosen(S)})
  <1>1. ASSUME NEW g, NEW h, NEW T \in SUBSET S,
               \A s \in SUBSET S : g[s] = PartialSum(f, g, s),
               \A s \in SUBSET T : h[s] = PartialSum(f, h, s)
        PROVE  \A s \in SUBSET T : g[s] = h[s]
    <2> DEFINE P == {s \in SUBSET T : g[s] = h[s]}
    <2>1. \A s \in SUBSET S : IsFiniteSet(s) /\ Cardinality(s) \in Nat
      BY FS_Subset, FS_CardinalityType
    <2> DEFINE N == {n \in Nat : \A s \in SUBSET T : Cardinality(s) = n => g[s] = h[s]}
    <2>2. 0 \in N
      <3>1. \A s \in SUBSET T : Cardinality(s) = 0 => s = {}
        BY <2>1, FS_EmptySet
      <3> QED
        BY <1>1, <3>1 DEF PartialSum
    <2>3. ASSUME NEW n \in Nat, n \in N PROVE n + 1 \in N
      <3> SUFFICES ASSUME NEW s \in SUBSET T, Cardinality(s) = n + 1 PROVE g[s] = h[s]
        OBVIOUS
      <3>1. s # {} /\ Chosen(s) \in s
        BY FS_EmptySet DEF Chosen
      <3>2. s \ {Chosen(s)} \in SUBSET T /\ Cardinality(s \ {Chosen(s)}) = n
        BY <2>1, <3>1, ChosenRemoved
      <3>3. g[s \ {Chosen(s)}] = h[s \ {Chosen(s)}]
        BY <2>3, <3>2
      <3> QED
        BY <1>1, <3>1, <3>3 DEF PartialSum
    <2> HIDE DEF N
    <2>4. Nat \subseteq N
      BY <2>2, <2>3, Induction
    <2> QED
      BY <2>1, <2>4 DEF N
  <1>2. SumFunctionOnSet(f, {}) = 0
    <2>1. IsFiniteSet({})
      BY FS_EmptySet
    <2> QED
      BY <2>1, SumUnfolds DEF PartialSum
  <1>3. ASSUME S # {}
        PROVE  SumFunctionOnSet(f, S)
                 = f[Chosen(S)] + SumFunctionOnSet(f, S \ {Chosen(S)})
    <2> DEFINE T == S \ {Chosen(S)}
    <2>1. PICK g : /\ \A s \in SUBSET S : g[s] = PartialSum(f, g, s)
                   /\ SumFunctionOnSet(f, S) = g[S]
      BY SumUnfolds
    <2>2. T \in SUBSET S /\ IsFiniteSet(T)
      BY FS_Subset
    <2>3. PICK h : /\ \A s \in SUBSET T : h[s] = PartialSum(f, h, s)
                   /\ SumFunctionOnSet(f, T) = h[T]
      BY <2>2, SumUnfolds
    <2>4. g[T] = h[T]
      <3> HIDE DEF T
      <3> QED
        BY <1>1, <2>1, <2>2, <2>3
    <2>5. g[S] = f[Chosen(S)] + g[T]
      BY <1>3, <2>1 DEF PartialSum
    <2> QED
      BY <2>1, <2>3, <2>4, <2>5
  <1> QED
    BY <1>2, <1>3

LEMMA SumInteger ==
    ASSUME NEW S, IsFiniteSet(S), NEW f, \A x \in S : f[x] \in Int
    PROVE  SumFunctionOnSet(f, S) \in Int
  <1> DEFINE N == {n \in Nat : \A T \in SUBSET S :
                      Cardinality(T) = n => SumFunctionOnSet(f, T) \in Int}
  <1>1. \A T \in SUBSET S : IsFiniteSet(T) /\ Cardinality(T) \in Nat
    BY FS_Subset, FS_CardinalityType
  <1>2. 0 \in N
    <2>1. \A T \in SUBSET S : Cardinality(T) = 0 => T = {}
      BY <1>1, FS_EmptySet
    <2>2. SumFunctionOnSet(f, {}) = 0
      BY SumStep
    <2> QED
      BY <2>1, <2>2
  <1>3. ASSUME NEW n \in Nat, n \in N PROVE n + 1 \in N
    <2> SUFFICES ASSUME NEW T \in SUBSET S, Cardinality(T) = n + 1
                 PROVE  SumFunctionOnSet(f, T) \in Int
      OBVIOUS
    <2>1. T # {} /\ Chosen(T) \in T
      BY FS_EmptySet DEF Chosen
    <2>2. T \ {Chosen(T)} \in SUBSET S /\ Cardinality(T \ {Chosen(T)}) = n
      BY <1>1, <2>1, ChosenRemoved
    <2>3. SumFunctionOnSet(f, T \ {Chosen(T)}) \in Int
      BY <1>3, <2>2
    <2>4. SumFunctionOnSet(f, T) = f[Chosen(T)] + SumFunctionOnSet(f, T \ {Chosen(T)})
      BY <1>1, <2>1, SumStep
    <2> QED
      BY <2>1, <2>3, <2>4
  <1> HIDE DEF N
  <1>4. Nat \subseteq N
    BY <1>2, <1>3, Induction
  <1> QED
    BY <1>1, <1>4 DEF N

(* A sum does not depend on the order in which it is taken.                *)
LEMMA SumRemove ==
    ASSUME NEW S, IsFiniteSet(S), NEW f, \A s \in S : f[s] \in Int, NEW x \in S
    PROVE  SumFunctionOnSet(f, S) = f[x] + SumFunctionOnSet(f, S \ {x})
  <1> DEFINE N == {n \in Nat : \A T \in SUBSET S : Cardinality(T) = n =>
                      \A y \in T : SumFunctionOnSet(f, T)
                                      = f[y] + SumFunctionOnSet(f, T \ {y})}
  <1>1. \A T \in SUBSET S : IsFiniteSet(T) /\ Cardinality(T) \in Nat
    BY FS_Subset, FS_CardinalityType
  <1>2. \A T \in SUBSET S : SumFunctionOnSet(f, T) \in Int
    BY <1>1, SumInteger
  <1>3. 0 \in N
    BY <1>1, FS_EmptySet
  <1>4. ASSUME NEW n \in Nat, n \in N PROVE n + 1 \in N
    <2> SUFFICES ASSUME NEW T \in SUBSET S, Cardinality(T) = n + 1, NEW y \in T
                 PROVE  SumFunctionOnSet(f, T) = f[y] + SumFunctionOnSet(f, T \ {y})
      OBVIOUS
    <2> DEFINE e == Chosen(T)
    <2>1. e \in T
      BY DEF Chosen
    <2> HIDE DEF e
    <2>2. SumFunctionOnSet(f, T) = f[e] + SumFunctionOnSet(f, T \ {e})
      BY <1>1, SumStep DEF e
    <2>3. CASE y = e
      BY <2>2, <2>3
    <2>4. CASE y # e
      <3>1. /\ T \ {e} \in SUBSET S /\ Cardinality(T \ {e}) = n
            /\ T \ {y} \in SUBSET S /\ Cardinality(T \ {y}) = n
        BY <1>1, <2>1, FS_RemoveElement
      <3>2. y \in T \ {e} /\ e \in T \ {y} /\ (T \ {e}) \ {y} = (T \ {y}) \ {e}
        BY <2>1, <2>4
      <3>3. SumFunctionOnSet(f, T \ {e})
              = f[y] + SumFunctionOnSet(f, (T \ {e}) \ {y})
        BY <1>4, <3>1, <3>2
      <3>4. SumFunctionOnSet(f, T \ {y})
              = f[e] + SumFunctionOnSet(f, (T \ {y}) \ {e})
        BY <1>4, <3>1, <3>2
      <3>5. /\ f[e] \in Int /\ f[y] \in Int
            /\ SumFunctionOnSet(f, (T \ {y}) \ {e}) \in Int
        BY <1>2, <2>1
      <3>6. SumFunctionOnSet(f, T \ {e})
              = f[y] + SumFunctionOnSet(f, (T \ {y}) \ {e})
        BY <3>2, <3>3
      <3> HIDE DEF N
      <3> QED
        BY <2>2, <3>4, <3>5, <3>6
    <2> QED
      BY <2>3, <2>4
  <1> HIDE DEF N
  <1>5. Nat \subseteq N
    BY <1>3, <1>4, Induction
  <1> QED
    BY <1>1, <1>5 DEF N

(* The forms in which the proofs use them: for a function over a finite    *)
(* set.                                                                    *)
LEMMA SumOverNothing == \A f : SumFunctionOnSet(f, {}) = 0
  <1>1. IsFiniteSet({})
    BY FS_EmptySet
  <1> QED
    BY <1>1, SumStep

LEMMA SumSame ==
    ASSUME NEW S, IsFiniteSet(S), NEW f, NEW g,
           \A s \in S : f[s] \in Int /\ g[s] = f[s]
    PROVE  SumFunctionOnSet(g, S) = SumFunctionOnSet(f, S)
  <1> DEFINE P == {T \in SUBSET S : SumFunctionOnSet(g, T) = SumFunctionOnSet(f, T)}
  <1>1. {} \in P
    BY SumOverNothing
  <1>2. ASSUME NEW T \in SUBSET S, NEW x \in S \ T, T \in P PROVE T \cup {x} \in P
    <2> DEFINE U == T \cup {x}
    <2>1. U \in SUBSET S /\ IsFiniteSet(U) /\ x \in U /\ U \ {x} = T
      BY FS_Subset
    <2> HIDE DEF U
    <2>2. \A s \in U : f[s] \in Int /\ g[s] = f[s] /\ g[s] \in Int
      BY <2>1
    <2>3. /\ SumFunctionOnSet(f, U) = f[x] + SumFunctionOnSet(f, T)
          /\ SumFunctionOnSet(g, U) = g[x] + SumFunctionOnSet(g, T)
      BY <2>1, <2>2, SumRemove
    <2>4. SumFunctionOnSet(g, U) = SumFunctionOnSet(f, U)
      BY <1>2, <2>1, <2>2, <2>3
    <2> QED
      BY <2>1, <2>4 DEF U
  <1> HIDE DEF P
  <1>3. SUBSET S \subseteq P
    BY <1>1, <1>2, FiniteInduction
  <1> QED
    BY <1>3 DEF P

LEMMA SumNatural ==
    ASSUME NEW S, IsFiniteSet(S), NEW f, \A s \in S : f[s] \in Nat
    PROVE  SumFunctionOnSet(f, S) \in Nat
  <1> DEFINE P == {T \in SUBSET S : SumFunctionOnSet(f, T) \in Nat}
  <1>1. {} \in P
    BY SumOverNothing
  <1>2. ASSUME NEW T \in SUBSET S, NEW x \in S \ T, T \in P PROVE T \cup {x} \in P
    <2> DEFINE U == T \cup {x}
    <2>1. U \in SUBSET S /\ IsFiniteSet(U) /\ x \in U /\ U \ {x} = T
      BY FS_Subset
    <2> HIDE DEF U
    <2>2. \A s \in U : f[s] \in Int /\ f[s] \in Nat
      BY <2>1
    <2>3. SumFunctionOnSet(f, U) = f[x] + SumFunctionOnSet(f, T)
      BY <2>1, <2>2, SumRemove
    <2>4. SumFunctionOnSet(f, U) \in Nat
      BY <1>2, <2>1, <2>2, <2>3
    <2> QED
      BY <2>1, <2>4 DEF U
  <1> HIDE DEF P
  <1>3. SUBSET S \subseteq P
    BY <1>1, <1>2, FiniteInduction
  <1> QED
    BY <1>3 DEF P

(* Two functions that differ at one place.                                 *)
LEMMA SumChanged ==
    ASSUME NEW S, IsFiniteSet(S), NEW f, NEW g, NEW x \in S,
           \A s \in S : f[s] \in Int /\ g[s] \in Int,
           \A s \in S \ {x} : g[s] = f[s]
    PROVE  SumFunctionOnSet(g, S) = SumFunctionOnSet(f, S) + g[x] - f[x]
  <1> DEFINE T == S \ {x}
  <1>1. T \in SUBSET S /\ IsFiniteSet(T)
    BY FS_Subset
  <1>2. \A s \in T : f[s] \in Int /\ g[s] = f[s]
    OBVIOUS
  <1> HIDE DEF T
  <1>3. SumFunctionOnSet(g, T) = SumFunctionOnSet(f, T)
    BY <1>1, <1>2, SumSame
  <1>4. /\ SumFunctionOnSet(f, S) = f[x] + SumFunctionOnSet(f, T)
        /\ SumFunctionOnSet(g, S) = g[x] + SumFunctionOnSet(g, T)
    BY SumRemove DEF T
  <1>5. SumFunctionOnSet(f, T) \in Int
    BY <1>1, <1>2, SumInteger
  <1> QED
    BY <1>3, <1>4, <1>5

LEMMA SumZero ==
    ASSUME NEW S, IsFiniteSet(S), NEW f, \A s \in S : f[s] = 0
    PROVE  SumFunctionOnSet(f, S) = 0
  <1> DEFINE P == {T \in SUBSET S : SumFunctionOnSet(f, T) = 0}
  <1>1. {} \in P
    BY SumOverNothing
  <1>2. ASSUME NEW T \in SUBSET S, NEW x \in S \ T, T \in P PROVE T \cup {x} \in P
    <2> DEFINE U == T \cup {x}
    <2>1. U \in SUBSET S /\ IsFiniteSet(U) /\ x \in U /\ U \ {x} = T
      BY FS_Subset
    <2> HIDE DEF U
    <2>2. \A s \in U : f[s] \in Int /\ f[s] = 0
      BY <2>1
    <2>3. SumFunctionOnSet(f, U) = f[x] + SumFunctionOnSet(f, T)
      BY <2>1, <2>2, SumRemove
    <2>4. SumFunctionOnSet(f, U) = 0
      BY <1>2, <2>1, <2>2, <2>3
    <2> QED
      BY <2>1, <2>4 DEF U
  <1> HIDE DEF P
  <1>3. SUBSET S \subseteq P
    BY <1>1, <1>2, FiniteInduction
  <1> QED
    BY <1>3 DEF P

(* The sum of one number, over and over.                                   *)
LEMMA SumConstant ==
    ASSUME NEW S, IsFiniteSet(S), NEW f, NEW w \in Int, \A s \in S : f[s] = w
    PROVE  SumFunctionOnSet(f, S) = Cardinality(S) * w
  <1> DEFINE P == {T \in SUBSET S : SumFunctionOnSet(f, T) = Cardinality(T) * w}
  <1>1. {} \in P
    <2>1. 0 * w = 0
      OBVIOUS
    <2> QED
      BY <2>1, SumOverNothing, FS_EmptySet
  <1>2. ASSUME NEW T \in SUBSET S, NEW x \in S \ T, T \in P PROVE T \cup {x} \in P
    <2> DEFINE U == T \cup {x}
    <2>1. U \in SUBSET S /\ IsFiniteSet(U) /\ x \in U /\ U \ {x} = T /\ IsFiniteSet(T)
      BY FS_Subset
    <2>2. Cardinality(U) = Cardinality(T) + 1 /\ Cardinality(T) \in Nat
      BY <2>1, FS_AddElement, FS_CardinalityType
    <2> HIDE DEF U
    <2>3. \A s \in U : f[s] \in Int /\ f[s] = w
      BY <2>1
    <2>4. SumFunctionOnSet(f, U) = w + SumFunctionOnSet(f, T)
      BY <2>1, <2>3, SumRemove
    <2>5. SumFunctionOnSet(f, T) = Cardinality(T) * w
      BY <1>2
    <2>6. (Cardinality(T) + 1) * w = w + Cardinality(T) * w
      BY <2>2
    <2>7. SumFunctionOnSet(f, U) = Cardinality(U) * w
      BY <2>2, <2>4, <2>5, <2>6
    <2> QED
      BY <2>1, <2>7 DEF U
  <1> HIDE DEF P
  <1>3. SUBSET S \subseteq P
    BY <1>1, <1>2, FiniteInduction
  <1> QED
    BY <1>3 DEF P

(* The sum of two functions, and of a difference.                          *)
LEMMA SumPlus ==
    ASSUME NEW S, IsFiniteSet(S), NEW f, NEW g, NEW h,
           \A s \in S : f[s] \in Int /\ g[s] \in Int /\ h[s] = f[s] + g[s]
    PROVE  SumFunctionOnSet(h, S) = SumFunctionOnSet(f, S) + SumFunctionOnSet(g, S)
  <1> DEFINE P == {T \in SUBSET S : SumFunctionOnSet(h, T)
                      = SumFunctionOnSet(f, T) + SumFunctionOnSet(g, T)}
  <1>1. {} \in P
    BY SumOverNothing
  <1>2. ASSUME NEW T \in SUBSET S, NEW x \in S \ T, T \in P PROVE T \cup {x} \in P
    <2> DEFINE U == T \cup {x}
    <2>1. U \in SUBSET S /\ IsFiniteSet(U) /\ x \in U /\ U \ {x} = T /\ IsFiniteSet(T)
      BY FS_Subset
    <2> HIDE DEF U
    <2>2. \A s \in U : f[s] \in Int /\ g[s] \in Int /\ h[s] \in Int /\ h[s] = f[s] + g[s]
      BY <2>1
    <2>3. /\ SumFunctionOnSet(f, U) = f[x] + SumFunctionOnSet(f, T)
          /\ SumFunctionOnSet(g, U) = g[x] + SumFunctionOnSet(g, T)
          /\ SumFunctionOnSet(h, U) = h[x] + SumFunctionOnSet(h, T)
      BY <2>1, <2>2, SumRemove
    <2>4. SumFunctionOnSet(f, T) \in Int /\ SumFunctionOnSet(g, T) \in Int
      BY <2>1, SumInteger
    <2>5. SumFunctionOnSet(h, T) = SumFunctionOnSet(f, T) + SumFunctionOnSet(g, T)
      BY <1>2
    <2>6. SumFunctionOnSet(h, U) = SumFunctionOnSet(f, U) + SumFunctionOnSet(g, U)
      BY <2>1, <2>2, <2>3, <2>4, <2>5
    <2> QED
      BY <2>1, <2>6 DEF U
  <1> HIDE DEF P
  <1>3. SUBSET S \subseteq P
    BY <1>1, <1>2, FiniteInduction
  <1> QED
    BY <1>3 DEF P

LEMMA SumMonotone ==
    ASSUME NEW S, IsFiniteSet(S), NEW f, NEW g,
           \A s \in S : f[s] \in Int /\ g[s] \in Int /\ f[s] <= g[s]
    PROVE  SumFunctionOnSet(f, S) <= SumFunctionOnSet(g, S)
  <1> DEFINE d == [s \in S |-> g[s] - f[s]]
  <1>1. \A s \in S : f[s] \in Int /\ d[s] \in Nat /\ d[s] \in Int /\ g[s] = f[s] + d[s]
    OBVIOUS
  <1> HIDE DEF d
  <1>2. SumFunctionOnSet(g, S) = SumFunctionOnSet(f, S) + SumFunctionOnSet(d, S)
    BY <1>1, SumPlus
  <1>3. SumFunctionOnSet(d, S) \in Nat /\ SumFunctionOnSet(f, S) \in Int
    BY <1>1, SumNatural, SumInteger
  <1> QED
    BY <1>2, <1>3

(* The sum over two sets without a common element.                         *)
LEMMA SumUnion ==
    ASSUME NEW S, IsFiniteSet(S), NEW T, IsFiniteSet(T), S \cap T = {},
           NEW f, \A s \in S \cup T : f[s] \in Int
    PROVE  SumFunctionOnSet(f, S \cup T) = SumFunctionOnSet(f, S) + SumFunctionOnSet(f, T)
  <1> DEFINE P == {R \in SUBSET T : SumFunctionOnSet(f, S \cup R)
                      = SumFunctionOnSet(f, S) + SumFunctionOnSet(f, R)}
  <1>1. SumFunctionOnSet(f, S) \in Int
    BY SumInteger
  <1>2. {} \in P
    <2>1. S \cup {} = S
      OBVIOUS
    <2> QED
      BY <1>1, <2>1, SumOverNothing
  <1>3. ASSUME NEW R \in SUBSET T, NEW x \in T \ R, R \in P PROVE R \cup {x} \in P
    <2> DEFINE U == R \cup {x}
               W == S \cup U
    <2>1. U \in SUBSET T /\ IsFiniteSet(U) /\ x \in U /\ U \ {x} = R
      BY FS_Subset
    <2>2. IsFiniteSet(W) /\ x \in W /\ W \ {x} = S \cup R
      BY <2>1, FS_Union
    <2>3. \A s \in W : f[s] \in Int
      BY <2>1
    <2>4. \A s \in U : f[s] \in Int
      BY <2>1
    <2> HIDE DEF U, W
    <2>5. SumFunctionOnSet(f, W) = f[x] + SumFunctionOnSet(f, S \cup R)
      BY <2>2, <2>3, SumRemove
    <2>6. SumFunctionOnSet(f, U) = f[x] + SumFunctionOnSet(f, R)
      BY <2>1, <2>4, SumRemove
    <2>7. IsFiniteSet(R) /\ \A s \in R : f[s] \in Int
      BY FS_Subset
    <2>8. SumFunctionOnSet(f, R) \in Int
      BY <2>7, SumInteger
    <2>9. f[x] \in Int
      OBVIOUS
    <2>10. SumFunctionOnSet(f, S \cup R) = SumFunctionOnSet(f, S) + SumFunctionOnSet(f, R)
      BY <1>3
    <2>11. SumFunctionOnSet(f, W) = SumFunctionOnSet(f, S) + SumFunctionOnSet(f, U)
      <3> HIDE DEF P
      <3> QED
        BY <1>1, <2>5, <2>6, <2>8, <2>9, <2>10
    <2> QED
      BY <2>1, <2>11 DEF U, W
  <1> HIDE DEF P
  <1>4. SUBSET T \subseteq P
    BY <1>2, <1>3, FiniteInduction
  <1> QED
    BY <1>4 DEF P

(* A sum of differences of neighbours.                                     *)
LEMMA SumTelescopes ==
    ASSUME NEW n \in Nat, NEW f, NEW V,
           \A k \in 0..n : V[k] \in Int,
           \A k \in 0..(n - 1) : f[k] = V[k] - V[k + 1]
    PROVE  SumFunctionOnSet(f, 0..(n - 1)) = V[0] - V[n]
  <1> DEFINE P == {m \in Nat : m <= n =>
                      SumFunctionOnSet(f, 0..(m - 1)) = V[0] - V[m]}
  <1>1. 0 \in P
    <2>1. 0..(0 - 1) = {} /\ V[0] \in Int
      OBVIOUS
    <2> QED
      BY <2>1, SumOverNothing
  <1>2. ASSUME NEW m \in Nat, m \in P PROVE m + 1 \in P
    <2> SUFFICES ASSUME m + 1 <= n
                 PROVE  SumFunctionOnSet(f, 0..((m + 1) - 1)) = V[0] - V[m + 1]
      OBVIOUS
    <2>1. 0..((m + 1) - 1) = 0..m
      OBVIOUS
    <2> DEFINE U == 0..m
    <2>2. IsFiniteSet(U)
      BY FS_Interval
    <2>3. m \in U /\ U \ {m} = 0..(m - 1) /\ \A k \in U : f[k] \in Int
      OBVIOUS
    <2> HIDE DEF U
    <2>4. SumFunctionOnSet(f, U) = f[m] + SumFunctionOnSet(f, 0..(m - 1))
      <3>1. SumFunctionOnSet(f, U) = f[m] + SumFunctionOnSet(f, U \ {m})
        BY <2>2, <2>3, SumRemove, Zenon
      <3> QED
        BY <2>3, <3>1, Zenon
    <2>5. /\ SumFunctionOnSet(f, 0..(m - 1)) = V[0] - V[m]
          /\ f[m] = V[m] - V[m + 1]
          /\ V[0] \in Int /\ V[m] \in Int /\ V[m + 1] \in Int
      <3>1. /\ m <= n /\ m \in 0..(n - 1)
            /\ 0 \in 0..n /\ m \in 0..n /\ m + 1 \in 0..n
        OBVIOUS
      <3>2. SumFunctionOnSet(f, 0..(m - 1)) = V[0] - V[m]
        BY <1>2, <3>1
      <3> QED
        BY <3>1, <3>2
    <2> HIDE DEF P
    <2>6. SumFunctionOnSet(f, U) = V[0] - V[m + 1]
      BY <2>4, <2>5
    <2> QED
      BY <2>1, <2>6 DEF U
  <1> HIDE DEF P
  <1>3. Nat \subseteq P
    BY <1>1, <1>2, Induction
  <1>4. n \in P
    BY <1>3
  <1> QED
    BY <1>4 DEF P

(* Sums over an interval: the last of it, and one after the other.         *)
LEMMA SumLast ==
    ASSUME NEW n \in Nat, NEW f, \A k \in 1..(n + 1) : f[k] \in Int
    PROVE  /\ SumFunctionOnSet(f, 1..(n + 1)) = SumFunctionOnSet(f, 1..n) + f[n + 1]
           /\ SumFunctionOnSet(f, 1..n) \in Int
  <1> DEFINE U == 1..(n + 1)
  <1>1. IsFiniteSet(U)
    BY FS_Interval
  <1>2. n + 1 \in U /\ U \ {n + 1} = 1..n /\ \A k \in U : f[k] \in Int
    OBVIOUS
  <1>3. IsFiniteSet(1..n) /\ \A k \in 1..n : f[k] \in Int
    BY FS_Interval
  <1>4. SumFunctionOnSet(f, 1..n) \in Int
    BY <1>3, SumInteger
  <1> HIDE DEF U
  <1>5. SumFunctionOnSet(f, U) = f[n + 1] + SumFunctionOnSet(f, U \ {n + 1})
    BY <1>1, <1>2, SumRemove
  <1>6. SumFunctionOnSet(f, U) = f[n + 1] + SumFunctionOnSet(f, 1..n)
    BY <1>2, <1>5, Zenon
  <1>7. f[n + 1] \in Int
    BY <1>2
  <1>8. SumFunctionOnSet(f, U) = SumFunctionOnSet(f, 1..n) + f[n + 1]
    BY <1>4, <1>6, <1>7
  <1> QED
    BY <1>4, <1>8 DEF U

LEMMA SumConcat ==
    ASSUME NEW m \in Nat, NEW n \in Nat, NEW f, NEW g, NEW h,
           \A k \in 1..m : f[k] \in Int, \A k \in 1..n : g[k] \in Int,
           \A k \in 1..m : h[k] = f[k], \A k \in 1..n : h[m + k] = g[k]
    PROVE  SumFunctionOnSet(h, 1..(m + n))
             = SumFunctionOnSet(f, 1..m) + SumFunctionOnSet(g, 1..n)
  <1> DEFINE P == {k \in Nat : k <= n => SumFunctionOnSet(h, 1..(m + k))
                      = SumFunctionOnSet(f, 1..m) + SumFunctionOnSet(g, 1..k)}
  <1>1. \A k \in 1..(m + n) : h[k] \in Int
    <2> SUFFICES ASSUME NEW k \in 1..(m + n) PROVE h[k] \in Int
      OBVIOUS
    <2>1. CASE k <= m
      BY <2>1
    <2>2. CASE ~(k <= m)
      <3>1. k - m \in 1..n /\ m + (k - m) = k
        BY <2>2
      <3> QED
        BY <3>1
    <2> QED
      BY <2>1, <2>2
  <1>2. IsFiniteSet(1..m)
    BY FS_Interval
  <1>3. SumFunctionOnSet(f, 1..m) \in Int
    BY <1>2, SumInteger
  <1>4. 0 \in P
    <2>1. 1..0 = {} /\ m + 0 = m
      OBVIOUS
    <2>2. SumFunctionOnSet(h, 1..m) = SumFunctionOnSet(f, 1..m)
      BY <1>2, SumSame
    <2> QED
      BY <1>3, <2>1, <2>2, SumOverNothing
  <1>5. ASSUME NEW k \in Nat, k \in P PROVE k + 1 \in P
    <2> SUFFICES ASSUME k + 1 <= n
                 PROVE  SumFunctionOnSet(h, 1..(m + (k + 1)))
                          = SumFunctionOnSet(f, 1..m) + SumFunctionOnSet(g, 1..(k + 1))
      OBVIOUS
    <2>1. /\ SumFunctionOnSet(h, 1..((m + k) + 1))
               = SumFunctionOnSet(h, 1..(m + k)) + h[(m + k) + 1]
          /\ SumFunctionOnSet(h, 1..(m + k)) \in Int
      <3>1. m + k \in Nat /\ \A j \in 1..((m + k) + 1) : h[j] \in Int
        BY <1>1
      <3> QED
        BY <3>1, SumLast
    <2>2. /\ SumFunctionOnSet(g, 1..(k + 1)) = SumFunctionOnSet(g, 1..k) + g[k + 1]
          /\ SumFunctionOnSet(g, 1..k) \in Int
      <3>1. \A j \in 1..(k + 1) : g[j] \in Int
        OBVIOUS
      <3> QED
        BY <3>1, SumLast
    <2>3. h[(m + k) + 1] = g[k + 1] /\ g[k + 1] \in Int /\ (m + k) + 1 = m + (k + 1)
      <3>1. k + 1 \in 1..n /\ (m + k) + 1 = m + (k + 1)
        OBVIOUS
      <3> QED
        BY <3>1
    <2>4. SumFunctionOnSet(h, 1..(m + k))
            = SumFunctionOnSet(f, 1..m) + SumFunctionOnSet(g, 1..k)
      BY <1>5
    <2> HIDE DEF P
    <2> QED
      BY <1>3, <2>1, <2>2, <2>3, <2>4
  <1> HIDE DEF P
  <1>6. Nat \subseteq P
    BY <1>4, <1>5, Induction
  <1>7. n \in P
    BY <1>6
  <1> QED
    BY <1>7 DEF P

-----------------------------------------------------------------------------
(* Products of naturals grow with their factors.                           *)
LEMMA Monotone ==
    ASSUME NEW x \in Nat, NEW y \in Nat, NEW w \in Nat, x <= y
    PROVE  x * w <= y * w
  <1>1. y = x + (y - x) /\ y - x \in Nat
    OBVIOUS
  <1>2. PICK k \in Nat : y = x + k
    BY <1>1
  <1>3. y * w = x * w + k * w
    BY <1>2
  <1>4. k * w \in Nat /\ x * w \in Nat
    OBVIOUS
  <1> QED
    BY <1>3, <1>4

LEMMA StrictlyMonotone ==
    ASSUME NEW x \in Nat, NEW y \in Nat, NEW w \in Nat \ {0}, x < y
    PROVE  x * w < y * w
  <1>1. (x + 1) * w <= y * w
    BY Monotone
  <1>2. (x + 1) * w = x * w + w /\ x * w \in Nat /\ y * w \in Nat
    OBVIOUS
  <1> QED
    BY <1>1, <1>2

LEMMA Times ==
    ASSUME NEW x \in Nat, NEW y \in Nat, NEW w \in Nat, x <= y
    PROVE  w * x <= w * y /\ w * x \in Nat /\ w * y \in Nat
  <1>1. PICK d \in Nat : y = x + d
    <2>1. y - x \in Nat /\ y = x + (y - x)
      OBVIOUS
    <2> QED
      BY <2>1
  <1>2. w * y = w * x + w * d
    BY <1>1
  <1>3. w * d \in Nat /\ w * x \in Nat
    OBVIOUS
  <1> QED
    BY <1>2, <1>3

LEMMA TimesInt ==
    ASSUME NEW x \in Int, NEW y \in Int, NEW w \in Nat, x <= y
    PROVE  w * x <= w * y /\ x * w <= y * w
  <1>1. PICK d \in Nat : y = x + d
    <2>1. y - x \in Nat /\ y = x + (y - x)
      OBVIOUS
    <2> QED
      BY <2>1
  <1>2. w * y = w * x + w * d /\ w * d \in Nat /\ w * x \in Int
    BY <1>1
  <1>3. w * x = x * w /\ w * y = y * w
    OBVIOUS
  <1> QED
    BY <1>2, <1>3

LEMMA NatProducts ==
    ASSUME NEW x \in Nat, NEW y \in Nat
    PROVE  x * y \in Nat
  OBVIOUS

(* Quotient and remainder.                                                 *)
LEMMA DivMod ==
    ASSUME NEW x \in Nat, NEW k \in Nat \ {0}
    PROVE  /\ x = k * (x \div k) + (x % k)
           /\ x % k \in 0..(k - 1)
           /\ x \div k \in Nat
  OBVIOUS

LEMMA DivModUnique ==
    ASSUME NEW k \in Nat \ {0}, NEW a \in Nat, NEW s \in 0..(k - 1),
           NEW b \in Nat, NEW r \in 0..(k - 1), k * a + s = k * b + r
    PROVE  a = b /\ s = r
  <1>1. ASSUME NEW u \in Nat, NEW v \in Nat, NEW e \in 0..(k - 1), NEW f \in 0..(k - 1),
               k * u + e = k * v + f, u < v
        PROVE  FALSE
    <2>1. k * (u + 1) <= k * v
      BY <1>1, Times
    <2>2. k * (u + 1) = k * u + k
      BY <1>1
    <2>3. k * u \in Nat /\ k * v \in Nat
      BY <1>1
    <2> QED
      BY <1>1, <2>1, <2>2, <2>3
  <1>2. a = b
    BY <1>1
  <1>3. k * a \in Nat
    OBVIOUS
  <1> QED
    BY <1>2, <1>3

(* A quotient is what the remainder leaves.                                *)
LEMMA DivIs ==
    ASSUME NEW x \in Nat, NEW k \in Nat \ {0}, NEW q \in Nat,
           k * q <= x, x < k * q + k
    PROVE  x \div k = q
  <1>1. /\ x = k * (x \div k) + (x % k) /\ x % k \in 0..(k - 1)
        /\ x \div k \in Nat
    BY DivMod
  <1>2. k * q \in Nat /\ x - k * q \in 0..(k - 1) /\ x = k * q + (x - k * q)
    BY NatProducts
  <1> DEFINE d == x \div k
             r == x % k
             s == x - k * q
  <1>3. k * d + r = k * q + s /\ d \in Nat /\ r \in 0..(k - 1) /\ s \in 0..(k - 1)
    BY <1>1, <1>2
  <1> HIDE DEF d, r, s
  <1>4. d = q
    BY <1>3, DivModUnique
  <1> QED
    BY <1>4 DEF d

LEMMA DivTimes ==
    ASSUME NEW q \in Nat, NEW k \in Nat \ {0}
    PROVE  (q * k) \div k = q
  <1>1. q * k \in Nat /\ k * q = q * k
    OBVIOUS
  <1>2. k * q <= q * k /\ q * k < k * q + k
    BY <1>1
  <1> QED
    BY <1>1, <1>2, DivIs

LEMMA DivMonotone ==
    ASSUME NEW x \in Nat, NEW y \in Nat, NEW k \in Nat \ {0}, x <= y
    PROVE  x \div k <= y \div k
  <1> DEFINE a == x \div k
             b == y \div k
  <1>1. x = k * a + (x % k) /\ x % k \in 0..(k - 1) /\ a \in Nat
    BY DivMod
  <1>2. y = k * b + (y % k) /\ y % k \in 0..(k - 1) /\ b \in Nat
    BY DivMod
  <1> HIDE DEF a, b
  <1> SUFFICES ASSUME b + 1 <= a PROVE FALSE
    BY <1>1, <1>2 DEF a, b
  <1>3. k * (b + 1) <= k * a
    BY <1>1, <1>2, Times
  <1>4. k * (b + 1) = k * b + k /\ k * a \in Nat /\ k * b \in Nat
    BY <1>1, <1>2
  <1> QED
    BY <1>1, <1>2, <1>3, <1>4

(* A quotient below a bound, and the quotient of a sum.                    *)
LEMMA DivBelow ==
    ASSUME NEW x \in Nat, NEW q \in Nat, NEW k \in Nat \ {0}
    PROVE  x < q * k <=> x \div k < q
  <1> DEFINE a == x \div k
  <1>1. x = k * a + (x % k) /\ x % k \in 0..(k - 1) /\ a \in Nat
    BY DivMod
  <1> HIDE DEF a
  <1>2. k * a \in Nat /\ q * k \in Nat /\ q * k = k * q
    BY <1>1, NatProducts
  <1>3. ASSUME q <= a PROVE q * k <= x
    <2>1. k * q <= k * a
      BY <1>1, <1>3, Times
    <2> QED
      BY <1>1, <1>2, <2>1
  <1>4. ASSUME a + 1 <= q PROVE x < q * k
    <2>1. k * (a + 1) <= k * q
      BY <1>1, <1>4, Times
    <2>2. k * (a + 1) = k * a + k
      BY <1>1
    <2> QED
      BY <1>1, <1>2, <2>1, <2>2
  <1> QED
    BY <1>1, <1>2, <1>3, <1>4 DEF a

LEMMA DivSum ==
    ASSUME NEW x \in Nat, NEW y \in Nat, NEW k \in Nat \ {0}
    PROVE  /\ x \div k + y \div k <= (x + y) \div k
           /\ (x + y) \div k <= x \div k + y \div k + 1
  <1> DEFINE a == x \div k
             b == y \div k
             r == x % k
             s == y % k
  <1>1. x = k * a + r /\ r \in 0..(k - 1) /\ a \in Nat
    BY DivMod
  <1>2. y = k * b + s /\ s \in 0..(k - 1) /\ b \in Nat
    BY DivMod
  <1> HIDE DEF a, b, r, s
  <1>3. /\ k * (a + b) = k * a + k * b /\ k * a \in Nat /\ k * b \in Nat
        /\ k * (a + b + 1) = k * a + k * b + k
    BY <1>1, <1>2
  <1>4. CASE r + s < k
    <2>1. (x + y) \div k = a + b
      BY <1>1, <1>2, <1>3, <1>4, DivIs, x + y \in Nat, a + b \in Nat
    <2> QED
      BY <1>1, <1>2, <2>1 DEF a, b
  <1>5. CASE ~(r + s < k)
    <2>1. (x + y) \div k = a + b + 1
      BY <1>1, <1>2, <1>3, <1>5, DivIs, x + y \in Nat, a + b + 1 \in Nat
    <2> QED
      BY <1>1, <1>2, <2>1 DEF a, b
  <1> QED
    BY <1>4, <1>5

-----------------------------------------------------------------------------
(* Sorting: what Place finds.                                              *)

(* The places of a mask have integer keys; what comes before what in the   *)
(* order of the keys, and what comes before a place.                       *)
Keyed(keep, key) ==
    \E n \in Nat : keep \in SUBSET (1..n) /\ \A i \in keep : key[i] \in Int

Ahead(key, j, i) == key[j] < key[i] \/ (key[j] = key[i] /\ j < i)

AheadOf(keep, key, i) == {j \in keep : Ahead(key, j, i)}

LEMMA KeyedFacts ==
    ASSUME NEW keep, NEW key, Keyed(keep, key)
    PROVE  /\ IsFiniteSet(keep) /\ Cardinality(keep) \in Nat
           /\ \A i \in keep : i \in Nat /\ key[i] \in Int
           /\ \A i, j \in keep : i # j => Ahead(key, i, j) \/ Ahead(key, j, i)
           /\ \A i, j \in keep : ~(Ahead(key, i, j) /\ Ahead(key, j, i))
  <1>1. PICK n \in Nat : keep \in SUBSET (1..n) /\ \A i \in keep : key[i] \in Int
    BY DEF Keyed
  <1>2. IsFiniteSet(keep) /\ Cardinality(keep) \in Nat
    BY <1>1, FS_Interval, FS_Subset, FS_CardinalityType, 1 \in Int, n \in Int
  <1>3. \A i \in keep : i \in Nat /\ key[i] \in Int
    BY <1>1
  <1> QED
    BY <1>2, <1>3 DEF Ahead

LEMMA BeforeGrows ==
    ASSUME NEW keep, NEW key, Keyed(keep, key)
    PROVE  \A i, j \in keep : Ahead(key, i, j) =>
              Cardinality(AheadOf(keep, key, i)) < Cardinality(AheadOf(keep, key, j))
  <1> SUFFICES ASSUME NEW i \in keep, NEW j \in keep, Ahead(key, i, j)
               PROVE  Cardinality(AheadOf(keep, key, i))
                         < Cardinality(AheadOf(keep, key, j))
    OBVIOUS
  <1>1. IsFiniteSet(keep)
    BY KeyedFacts
  <1> DEFINE A == AheadOf(keep, key, i)
             B == AheadOf(keep, key, j)
  <1>2. A \in SUBSET keep /\ B \in SUBSET keep
    BY DEF AheadOf
  <1>3. IsFiniteSet(A) /\ IsFiniteSet(B)
    BY <1>1, <1>2, FS_Subset
  <1>4. \A m \in keep : m \in Nat /\ key[m] \in Int
    BY KeyedFacts
  <1>5. i \notin A
    BY <1>4 DEF AheadOf, Ahead
  <1>6. A \cup {i} \in SUBSET B
    BY <1>4 DEF AheadOf, Ahead
  <1> HIDE DEF A, B
  <1>7. Cardinality(A \cup {i}) = Cardinality(A) + 1
    BY <1>3, <1>5, FS_AddElement
  <1>8. Cardinality(A \cup {i}) <= Cardinality(B)
    BY <1>3, <1>6, FS_Subset
  <1>9. Cardinality(A) \in Nat /\ Cardinality(B) \in Nat
    BY <1>3, FS_CardinalityType
  <1> QED
    BY <1>7, <1>8, <1>9 DEF A, B

LEMMA BeforeBounded ==
    ASSUME NEW keep, NEW key, Keyed(keep, key)
    PROVE  \A i \in keep :
              Cardinality(AheadOf(keep, key, i)) \in 0..(Cardinality(keep) - 1)
  <1> SUFFICES ASSUME NEW i \in keep
               PROVE  Cardinality(AheadOf(keep, key, i)) \in 0..(Cardinality(keep) - 1)
    OBVIOUS
  <1>1. IsFiniteSet(keep) /\ Cardinality(keep) \in Nat
    BY KeyedFacts
  <1> DEFINE A == AheadOf(keep, key, i)
  <1>2. A \in SUBSET (keep \ {i})
    BY KeyedFacts DEF AheadOf, Ahead
  <1>3. IsFiniteSet(keep \ {i}) /\ Cardinality(keep \ {i}) = Cardinality(keep) - 1
    BY <1>1, FS_RemoveElement
  <1> HIDE DEF A
  <1>4. IsFiniteSet(A) /\ Cardinality(A) <= Cardinality(keep) - 1
    BY <1>2, <1>3, FS_Subset
  <1>5. Cardinality(A) \in Nat
    BY <1>4, FS_CardinalityType
  <1> QED
    BY <1>1, <1>4, <1>5 DEF A

(* Every rank is taken: the places are an enumeration of keep, in order.   *)
LEMMA PlaceTaken ==
    ASSUME NEW keep, NEW key, Keyed(keep, key)
    PROVE  \A k \in 1..Cardinality(keep) :
              \E i \in keep : Cardinality(AheadOf(keep, key, i)) = k - 1
  <1> SUFFICES ASSUME NEW k \in 1..Cardinality(keep)
               PROVE  \E i \in keep : Cardinality(AheadOf(keep, key, i)) = k - 1
    OBVIOUS
  <1> DEFINE N == Cardinality(keep)
             rank == [i \in keep |-> Cardinality(AheadOf(keep, key, i)) + 1]
  <1>1. IsFiniteSet(keep) /\ N \in Nat
    BY KeyedFacts
  <1>2. \A i \in keep : rank[i] \in 1..N /\ Cardinality(AheadOf(keep, key, i)) \in Nat
    BY <1>1, BeforeBounded
  <1>3. \A i, j \in keep : Ahead(key, i, j) => rank[i] # rank[j]
    BY <1>2, BeforeGrows
  <1>4. \A i, j \in keep : i # j => Ahead(key, i, j) \/ Ahead(key, j, i)
    BY KeyedFacts
  <1>5. rank \in Injection(keep, 1..N)
    <2> rank \in [keep -> 1..N]
      BY <1>2
    <2> HIDE DEF rank, N
    <2> QED
      BY <1>3, <1>4 DEF Injection, IsInjective
  <1>6. IsFiniteSet(1..N) /\ Cardinality(1..N) = N
    BY <1>1, FS_Interval
  <1>7. rank \in Surjection(keep, 1..N)
    <2> HIDE DEF rank
    <2> QED
      BY <1>5, <1>6, FS_Injection
  <1>8. PICK i \in keep : rank[i] = k
    <2> HIDE DEF rank
    <2> QED
      BY <1>7 DEF Surjection
  <1> QED
    BY <1>2, <1>8

LEMMA PlaceIs ==
    ASSUME NEW keep, NEW key, Keyed(keep, key)
    PROVE  \A k \in 1..Cardinality(keep) :
              /\ Place(keep, key, k) \in keep
              /\ Cardinality(AheadOf(keep, key, Place(keep, key, k))) = k - 1
  <1> SUFFICES ASSUME NEW k \in 1..Cardinality(keep)
               PROVE  /\ Place(keep, key, k) \in keep
                      /\ Cardinality(AheadOf(keep, key, Place(keep, key, k))) = k - 1
    OBVIOUS
  <1>1. \E i \in keep : Cardinality(AheadOf(keep, key, i)) = k - 1
    BY PlaceTaken
  <1> QED
    BY <1>1 DEF Place, AheadOf, Ahead

LEMMA PlacesInOrder ==
    ASSUME NEW keep, NEW key, Keyed(keep, key)
    PROVE  \A k, m \in 1..Cardinality(keep) : k < m =>
              Ahead(key, Place(keep, key, k), Place(keep, key, m))
  <1> SUFFICES ASSUME NEW k \in 1..Cardinality(keep),
                      NEW m \in 1..Cardinality(keep), k < m
               PROVE  Ahead(key, Place(keep, key, k), Place(keep, key, m))
    OBVIOUS
  <1> DEFINE a == Place(keep, key, k)
             b == Place(keep, key, m)
  <1>1. /\ a \in keep /\ Cardinality(AheadOf(keep, key, a)) = k - 1
        /\ b \in keep /\ Cardinality(AheadOf(keep, key, b)) = m - 1
    BY PlaceIs
  <1> HIDE DEF a, b
  <1>2. a # b /\ ~(m - 1 < k - 1)
    BY <1>1
  <1>3. ~Ahead(key, b, a)
    BY <1>1, <1>2, BeforeGrows
  <1>4. Ahead(key, a, b) \/ Ahead(key, b, a)
    BY <1>1, <1>2, KeyedFacts
  <1> QED
    BY <1>3, <1>4 DEF a, b

(* Every place is reached.                                                 *)
LEMMA PlaceReached ==
    ASSUME NEW keep, NEW key, Keyed(keep, key)
    PROVE  \A i \in keep : \E k \in 1..Cardinality(keep) : Place(keep, key, k) = i
  <1> SUFFICES ASSUME NEW i \in keep
               PROVE  \E k \in 1..Cardinality(keep) : Place(keep, key, k) = i
    OBVIOUS
  <1> DEFINE k == Cardinality(AheadOf(keep, key, i)) + 1
             a == Place(keep, key, k)
  <1>1. /\ k \in 1..Cardinality(keep) /\ Cardinality(AheadOf(keep, key, i)) = k - 1
        /\ Cardinality(AheadOf(keep, key, i)) \in Nat
    BY BeforeBounded, KeyedFacts
  <1> HIDE DEF k
  <1>2. a \in keep /\ Cardinality(AheadOf(keep, key, a)) = k - 1
    BY <1>1, PlaceIs
  <1> HIDE DEF a
  <1>3. ~(k - 1 < k - 1)
    BY <1>1
  <1>4. ~Ahead(key, a, i) /\ ~Ahead(key, i, a)
    BY <1>1, <1>2, <1>3, BeforeGrows
  <1>5. a = i
    BY <1>2, <1>4, KeyedFacts
  <1> QED
    BY <1>1, <1>5 DEF a

(* What is in order already stays where it is.                             *)
LEMMA PlaceOfSorted ==
    ASSUME NEW n \in Nat, NEW key, \A i \in 1..n : key[i] \in Int,
           \A i, j \in 1..n : i < j => key[i] <= key[j]
    PROVE  \A k \in 1..n : Place(1..n, key, k) = k
  <1> SUFFICES ASSUME NEW k \in 1..n PROVE Place(1..n, key, k) = k
    OBVIOUS
  <1>1. Cardinality(1..n) = n
    BY FS_Interval, 1 \in Int, n \in Int
  <1>2. Keyed(1..n, key)
    BY DEF Keyed
  <1> DEFINE a == Place(1..n, key, k)
  <1>3. a \in 1..n /\ Cardinality(AheadOf(1..n, key, a)) = k - 1
    BY <1>1, <1>2, PlaceIs
  <1> HIDE DEF a
  <1>4. AheadOf(1..n, key, a) = 1..(a - 1)
    BY <1>3 DEF AheadOf, Ahead
  <1>5. Cardinality(1..(a - 1)) = a - 1
    BY <1>3, FS_Interval, 1 \in Int, a - 1 \in Int
  <1> QED
    BY <1>3, <1>4, <1>5 DEF a

-----------------------------------------------------------------------------
(* Sums over pairs.                                                        *)

(* A sum does not depend on the names of what is summed.                   *)
LEMMA SumRenamed ==
    ASSUME NEW S, IsFiniteSet(S), NEW T, IsFiniteSet(T), NEW f, NEW g, NEW pi,
           \A t \in T : pi[t] \in S /\ f[pi[t]] \in Int /\ g[t] = f[pi[t]],
           \A t, u \in T : pi[t] = pi[u] => t = u,
           \A s \in S : \E t \in T : pi[t] = s
    PROVE  SumFunctionOnSet(f, S) = SumFunctionOnSet(g, T)
  <1> DEFINE Named(R) == {pi[t] : t \in R}
             P == {R \in SUBSET T : SumFunctionOnSet(f, Named(R)) = SumFunctionOnSet(g, R)}
  <1>1. {} \in P
    <2>1. Named({}) = {}
      OBVIOUS
    <2> QED
      BY <2>1, SumOverNothing
  <1>2. ASSUME NEW R \in SUBSET T, NEW x \in T \ R, R \in P PROVE R \cup {x} \in P
    <2> DEFINE U == R \cup {x}
    <2>1. /\ Named(U) \in SUBSET S /\ pi[x] \in Named(U) /\ Named(U) \ {pi[x]} = Named(R)
          /\ U \in SUBSET T /\ x \in U /\ U \ {x} = R
      OBVIOUS
    <2>2. IsFiniteSet(Named(U)) /\ IsFiniteSet(U)
      <3> HIDE DEF U, Named
      <3> QED
        BY <2>1, FS_Subset
    <2>3. \A s \in S : f[s] \in Int
      OBVIOUS
    <2>4. SumFunctionOnSet(f, Named(U)) = f[pi[x]] + SumFunctionOnSet(f, Named(R))
      <3> HIDE DEF U, Named
      <3>1. \A s \in Named(U) : f[s] \in Int
        BY <2>1, <2>3
      <3>2. SumFunctionOnSet(f, Named(U))
               = f[pi[x]] + SumFunctionOnSet(f, Named(U) \ {pi[x]})
        BY <2>1, <2>2, <3>1, SumRemove
      <3> QED
        BY <2>1, <3>2
    <2>5. SumFunctionOnSet(g, U) = g[x] + SumFunctionOnSet(g, R)
      <3> HIDE DEF U, Named
      <3>1. \A s \in U : g[s] \in Int
        BY <2>1
      <3>2. SumFunctionOnSet(g, U) = g[x] + SumFunctionOnSet(g, U \ {x})
        BY <2>1, <2>2, <3>1, SumRemove
      <3> QED
        BY <2>1, <3>2
    <2>6. g[x] = f[pi[x]]
      OBVIOUS
    <2>7. SumFunctionOnSet(f, Named(R)) = SumFunctionOnSet(g, R)
      BY <1>2
    <2> HIDE DEF Named
    <2>8. SumFunctionOnSet(f, Named(U)) = SumFunctionOnSet(g, U)
      BY <2>4, <2>5, <2>6, <2>7
    <2> QED
      BY <2>1, <2>8
  <1> HIDE DEF P
  <1>3. T \in P
    <2>1. SUBSET T \subseteq P
      BY <1>1, <1>2, FiniteInduction
    <2> QED
      BY <2>1
  <1>4. Named(T) = S
    OBVIOUS
  <1> HIDE DEF Named
  <1> QED
    BY <1>3, <1>4 DEF P

(* A common factor.                                                        *)
LEMMA SumScaled ==
    ASSUME NEW S, IsFiniteSet(S), NEW f, NEW g, NEW w \in Int,
           \A s \in S : f[s] \in Int /\ g[s] = w * f[s]
    PROVE  SumFunctionOnSet(g, S) = w * SumFunctionOnSet(f, S)
  <1> DEFINE P == {R \in SUBSET S : SumFunctionOnSet(g, R) = w * SumFunctionOnSet(f, R)}
  <1>1. {} \in P
    <2>1. w * 0 = 0
      OBVIOUS
    <2> QED
      BY <2>1, SumOverNothing
  <1>2. ASSUME NEW R \in SUBSET S, NEW x \in S \ R, R \in P PROVE R \cup {x} \in P
    <2> DEFINE U == R \cup {x}
    <2>1. U \in SUBSET S /\ x \in U /\ U \ {x} = R
      OBVIOUS
    <2>2. IsFiniteSet(U) /\ IsFiniteSet(R)
      <3> HIDE DEF U
      <3> QED
        BY <2>1, FS_Subset
    <2>3. \A s \in S : f[s] \in Int /\ g[s] \in Int /\ g[s] = w * f[s]
      OBVIOUS
    <2> HIDE DEF U
    <2>4. SumFunctionOnSet(f, U) = f[x] + SumFunctionOnSet(f, U \ {x})
      BY <2>1, <2>2, <2>3, SumRemove
    <2>5. SumFunctionOnSet(g, U) = g[x] + SumFunctionOnSet(g, U \ {x})
      BY <2>1, <2>2, <2>3, SumRemove
    <2>6. SumFunctionOnSet(f, R) \in Int
      BY <2>2, <2>3, SumInteger
    <2> DEFINE a == SumFunctionOnSet(f, R)
    <2>7. SumFunctionOnSet(g, R) = w * a
      BY <1>2
    <2>8. w * (f[x] + a) = w * f[x] + w * a
      <3> DEFINE b == f[x]
      <3>1. b \in Int /\ a \in Int
        BY <2>3, <2>6
      <3> HIDE DEF a, b
      <3>2. w * (b + a) = w * b + w * a
        BY <3>1
      <3> QED
        BY <3>2 DEF b
    <2>9. SumFunctionOnSet(g, U) = w * SumFunctionOnSet(f, U)
      BY <2>1, <2>3, <2>4, <2>5, <2>7, <2>8
    <2> QED
      BY <2>1, <2>9 DEF U
  <1> HIDE DEF P
  <1>3. SUBSET S \subseteq P
    BY <1>1, <1>2, FiniteInduction
  <1> QED
    BY <1>3 DEF P

(* A table is summed by rows or by columns.                                *)
LEMMA SumSwapped ==
    ASSUME NEW S, IsFiniteSet(S), NEW T, IsFiniteSet(T), NEW f, NEW F, NEW G, NEW Col,
           \A s \in S : \A t \in T : f[s][t] \in Int /\ Col[t][s] = f[s][t],
           \A s \in S : F[s] = SumFunctionOnSet(f[s], T),
           \A t \in T : G[t] = SumFunctionOnSet(Col[t], S)
    PROVE  SumFunctionOnSet(F, S) = SumFunctionOnSet(G, T)
  <1> DEFINE H(R) == [t \in T |-> SumFunctionOnSet(Col[t], R)]
             P == {R \in SUBSET S : SumFunctionOnSet(F, R) = SumFunctionOnSet(H(R), T)}
  <1>1. {} \in P
    <2>1. \A t \in T : H({})[t] = 0
      BY SumOverNothing
    <2> HIDE DEF H
    <2>2. SumFunctionOnSet(H({}), T) = 0
      BY <2>1, SumZero
    <2> QED
      BY <2>2, SumOverNothing
  <1>2. \A s \in S : F[s] \in Int
    <2> SUFFICES ASSUME NEW s \in S PROVE F[s] \in Int
      OBVIOUS
    <2>1. \A t \in T : f[s][t] \in Int
      OBVIOUS
    <2> QED
      BY <2>1, SumInteger
  <1>3. ASSUME NEW R \in SUBSET S, NEW x \in S \ R, R \in P PROVE R \cup {x} \in P
    <2> DEFINE U == R \cup {x}
    <2>1. U \in SUBSET S /\ x \in U /\ U \ {x} = R /\ R \in SUBSET S /\ x \in S
      OBVIOUS
    <2> HIDE DEF U
    <2>2. IsFiniteSet(U) /\ IsFiniteSet(R)
      BY <2>1, FS_Subset
    <2>3. SumFunctionOnSet(F, U) = F[x] + SumFunctionOnSet(F, R)
      <3>1. \A s \in U : F[s] \in Int
        BY <1>2, <2>1
      <3>2. SumFunctionOnSet(F, U) = F[x] + SumFunctionOnSet(F, U \ {x})
        BY <2>1, <2>2, <3>1, SumRemove
      <3> QED
        BY <2>1, <3>2
    <2>4. \A t \in T : /\ f[x][t] \in Int /\ H(R)[t] \in Int
                       /\ H(U)[t] = f[x][t] + H(R)[t]
      <3> SUFFICES ASSUME NEW t \in T
                   PROVE  /\ f[x][t] \in Int /\ H(R)[t] \in Int
                          /\ H(U)[t] = f[x][t] + H(R)[t]
        OBVIOUS
      <3>1. \A s \in U : Col[t][s] \in Int
        BY <2>1
      <3>2. \A s \in R : Col[t][s] \in Int
        BY <2>1
      <3>3. SumFunctionOnSet(Col[t], U) = Col[t][x] + SumFunctionOnSet(Col[t], U \ {x})
        BY <2>1, <2>2, <3>1, SumRemove
      <3>4. SumFunctionOnSet(Col[t], R) \in Int
        BY <2>2, <3>2, SumInteger
      <3>5. Col[t][x] = f[x][t] /\ f[x][t] \in Int
        BY <2>1
      <3> QED
        BY <2>1, <3>3, <3>4, <3>5
    <2>5. F[x] = SumFunctionOnSet(f[x], T)
      BY <2>1
    <2>6. SumFunctionOnSet(F, R) = SumFunctionOnSet(H(R), T)
      BY <1>3
    <2> HIDE DEF H
    <2>7. SumFunctionOnSet(H(U), T) = SumFunctionOnSet(f[x], T) + SumFunctionOnSet(H(R), T)
      BY <2>4, SumPlus
    <2>8. SumFunctionOnSet(F, U) = SumFunctionOnSet(H(U), T)
      BY <2>3, <2>5, <2>6, <2>7
    <2> QED
      BY <2>1, <2>8 DEF U
  <1>4. S \in P
    <2> HIDE DEF P
    <2>1. SUBSET S \subseteq P
      BY <1>1, <1>3, FiniteInduction
    <2> QED
      BY <2>1
  <1>5. \A t \in T : H(S)[t] \in Int /\ G[t] = H(S)[t]
    <2> SUFFICES ASSUME NEW t \in T PROVE H(S)[t] \in Int /\ G[t] = H(S)[t]
      OBVIOUS
    <2>1. \A s \in S : Col[t][s] \in Int
      OBVIOUS
    <2>2. SumFunctionOnSet(Col[t], S) \in Int
      BY <2>1, SumInteger
    <2> QED
      BY <2>2
  <1>6. SumFunctionOnSet(F, S) = SumFunctionOnSet(H(S), T)
    BY <1>4
  <1> HIDE DEF H
  <1>7. SumFunctionOnSet(G, T) = SumFunctionOnSet(H(S), T)
    BY <1>5, SumSame
  <1> QED
    BY <1>6, <1>7

(* An element of a sum of naturals.                                        *)
LEMMA SumElement ==
    ASSUME NEW S, IsFiniteSet(S), NEW f, \A s \in S : f[s] \in Nat, NEW x \in S
    PROVE  f[x] <= SumFunctionOnSet(f, S)
  <1>1. IsFiniteSet(S \ {x})
    BY FS_Subset
  <1>2. SumFunctionOnSet(f, S \ {x}) \in Nat
    BY <1>1, SumNatural
  <1>3. \A s \in S : f[s] \in Int
    OBVIOUS
  <1>4. SumFunctionOnSet(f, S) = f[x] + SumFunctionOnSet(f, S \ {x})
    BY <1>3, SumRemove
  <1> QED
    BY <1>2, <1>4

(* Sums of what is no larger are equal only when everything is.            *)
LEMMA SumEqual ==
    ASSUME NEW S, IsFiniteSet(S), NEW f, NEW g,
           \A s \in S : f[s] \in Int /\ g[s] \in Int /\ f[s] <= g[s]
    PROVE  /\ SumFunctionOnSet(f, S) <= SumFunctionOnSet(g, S)
           /\ SumFunctionOnSet(f, S) = SumFunctionOnSet(g, S)
                 <=> \A s \in S : f[s] = g[s]
  <1> DEFINE d == [s \in S |-> g[s] - f[s]]
  <1>1. \A s \in S : f[s] \in Int /\ d[s] \in Nat /\ d[s] \in Int /\ g[s] = f[s] + d[s]
    OBVIOUS
  <1> HIDE DEF d
  <1>2. SumFunctionOnSet(g, S) = SumFunctionOnSet(f, S) + SumFunctionOnSet(d, S)
    BY <1>1, SumPlus
  <1>3. SumFunctionOnSet(d, S) \in Nat /\ SumFunctionOnSet(f, S) \in Int
    BY <1>1, SumNatural, SumInteger
  <1>4. ASSUME SumFunctionOnSet(f, S) = SumFunctionOnSet(g, S), NEW s \in S
        PROVE  f[s] = g[s]
    <2>1. d[s] <= SumFunctionOnSet(d, S)
      BY <1>1, SumElement
    <2>2. SumFunctionOnSet(d, S) = 0
      BY <1>2, <1>3, <1>4
    <2> QED
      BY <1>1, <2>1, <2>2
  <1>5. ASSUME \A s \in S : f[s] = g[s]
        PROVE  SumFunctionOnSet(f, S) = SumFunctionOnSet(g, S)
    <2>1. \A s \in S : f[s] \in Int /\ g[s] = f[s]
      BY <1>1, <1>5
    <2> QED
      BY <2>1, SumSame
  <1> QED
    BY <1>2, <1>3, <1>4, <1>5

-----------------------------------------------------------------------------
(* Products of integers.                                                   *)
LEMMA SquareOfDifference ==
    ASSUME NEW a \in Int, NEW b \in Int
    PROVE  /\ (a - b) * (a - b) = a * a + (b * b + (-2 * a) * b)
           /\ (a - b) * (a - b) \in Nat
           /\ (a - b) * (a - b) = 0 <=> a = b
  <1> DEFINE c == a - b
  <1>1. c \in Int /\ (c = 0 <=> a = b)
    OBVIOUS
  <1>2. c * c = a * a + (b * b + (-2 * a) * b)
    OBVIOUS
  <1> HIDE DEF c
  <1>3. c * c \in Nat /\ (c * c = 0 <=> c = 0)
    <2>1. CASE c \in Nat
      BY <2>1
    <2>2. CASE -c \in Nat
      <3> DEFINE e == -c
      <3>1. e \in Nat /\ c = -e /\ e * e \in Nat /\ (e * e = 0 <=> e = 0) /\ (c = 0 <=> e = 0)
        BY <1>1, <2>2
      <3> HIDE DEF e
      <3>2. c * c = e * e
        BY <3>1
      <3> QED
        BY <3>1, <3>2
    <2> QED
      BY <1>1, <2>1, <2>2
  <1> QED
    BY <1>1, <1>2, <1>3 DEF c

(* The squared differences of all pairs: n times the squares, less the     *)
(* square of the sum, twice.                                               *)
SquareSum(x, S) == SumFunctionOnSet([i \in S |-> x[i] * x[i]], S)

PairGaps(x, S) == [p \in S |-> [r \in S |-> (x[p] - x[r]) * (x[p] - x[r])]]

GapRow(x, S) == [p \in S |-> SumFunctionOnSet(PairGaps(x, S)[p], S)]

LEMMA GapsFrom ==
    ASSUME NEW S, IsFiniteSet(S), NEW x, \A i \in S : x[i] \in Int, NEW p \in S
    PROVE  GapRow(x, S)[p] = Cardinality(S) * (x[p] * x[p])
                                + (SquareSum(x, S) + (-2 * x[p]) * SumFunctionOnSet(x, S))
  <1> DEFINE a == x[p]
             b == -2 * a
             one == [r \in S |-> a * a]
             two == [r \in S |-> x[r] * x[r]]
             three == [r \in S |-> b * x[r]]
             both == [r \in S |-> two[r] + three[r]]
             all == [r \in S |-> (a - x[r]) * (a - x[r])]
  <1>1. a \in Int /\ b \in Int /\ a * a \in Int
    OBVIOUS
  <1>2. ASSUME NEW r \in S
        PROVE  /\ one[r] = a * a /\ two[r] \in Int /\ three[r] \in Int
               /\ three[r] = b * x[r] /\ both[r] = two[r] + three[r]
               /\ all[r] = one[r] + both[r]
    <2>1. x[r] \in Int
      OBVIOUS
    <2> HIDE DEF a
    <2> DEFINE c == x[r]
    <2>2. c \in Int /\ one[r] = a * a /\ two[r] = c * c /\ three[r] = b * c
          /\ both[r] = c * c + b * c /\ all[r] = (a - c) * (a - c)
      BY <2>1
    <2> HIDE DEF c, one, two, three, both, all, b
    <2>3. (a - c) * (a - c) = a * a + (c * c + (-2 * a) * c)
      BY <1>1, <2>2, SquareOfDifference
    <2>4. c * c \in Int /\ b * c \in Int
      BY <1>1, <2>2
    <2> QED
      BY <2>2, <2>3, <2>4 DEF b, c
  <1>3. GapRow(x, S)[p] = SumFunctionOnSet(all, S)
    BY DEF GapRow, PairGaps
  <1>4. SquareSum(x, S) = SumFunctionOnSet(two, S)
    BY DEF SquareSum
  <1> HIDE DEF a, b, one, two, three, both, all
  <1>5. SumFunctionOnSet(one, S) = Cardinality(S) * (a * a)
    BY <1>1, <1>2, SumConstant
  <1>6. SumFunctionOnSet(three, S) = b * SumFunctionOnSet(x, S)
    BY <1>1, <1>2, SumScaled
  <1>7. SumFunctionOnSet(both, S) = SumFunctionOnSet(two, S) + SumFunctionOnSet(three, S)
    BY <1>2, SumPlus
  <1>8. SumFunctionOnSet(all, S) = SumFunctionOnSet(one, S) + SumFunctionOnSet(both, S)
    <2>1. \A r \in S : one[r] \in Int /\ both[r] \in Int /\ all[r] = one[r] + both[r]
      BY <1>1, <1>2
    <2> QED
      BY <2>1, SumPlus
  <1>9. GapRow(x, S)[p] = Cardinality(S) * (a * a)
                             + (SquareSum(x, S) + b * SumFunctionOnSet(x, S))
    BY <1>3, <1>4, <1>5, <1>6, <1>7, <1>8
  <1> QED
    BY <1>9 DEF a, b

LEMMA AllGaps ==
    ASSUME NEW S, IsFiniteSet(S), NEW x, \A i \in S : x[i] \in Int
    PROVE  /\ SumFunctionOnSet(x, S) \in Int /\ SquareSum(x, S) \in Int
           /\ Cardinality(S) \in Nat
           /\ SumFunctionOnSet(GapRow(x, S), S)
                 = 2 * (Cardinality(S) * SquareSum(x, S)
                           - SumFunctionOnSet(x, S) * SumFunctionOnSet(x, S))
  <1> DEFINE n == Cardinality(S)
             s == SumFunctionOnSet(x, S)
             q == SquareSum(x, S)
             w == -2 * s
             sq == [i \in S |-> x[i] * x[i]]
             one == [i \in S |-> n * sq[i]]
             two == [i \in S |-> q]
             three == [i \in S |-> w * x[i]]
             both == [i \in S |-> two[i] + three[i]]
             all == [i \in S |-> one[i] + both[i]]
  <1>1. n \in Nat /\ s \in Int
    BY FS_CardinalityType, SumInteger
  <1>2. \A i \in S : sq[i] \in Int
    <2> SUFFICES ASSUME NEW i \in S PROVE sq[i] \in Int
      OBVIOUS
    <2> DEFINE a == x[i]
    <2>1. a \in Int /\ sq[i] = a * a
      OBVIOUS
    <2> HIDE DEF a, sq
    <2> QED
      BY <2>1
  <1>3. q = SumFunctionOnSet(sq, S)
    BY DEF SquareSum
  <1> HIDE DEF sq
  <1>4. q \in Int
    BY <1>2, <1>3, SumInteger
  <1> HIDE DEF n, s, q
  <1>5. w \in Int
    BY <1>1
  <1>6. ASSUME NEW i \in S
        PROVE  /\ one[i] = n * sq[i] /\ one[i] \in Int /\ two[i] = q
               /\ three[i] = w * x[i] /\ three[i] \in Int
               /\ both[i] = two[i] + three[i] /\ both[i] \in Int
               /\ all[i] = one[i] + both[i]
               /\ all[i] = GapRow(x, S)[i] /\ all[i] \in Int
    <2> DEFINE a == x[i]
               e == sq[i]
    <2>1. a \in Int /\ e \in Int
      BY <1>2
    <2>2. /\ one[i] = n * e /\ two[i] = q /\ three[i] = w * a
          /\ both[i] = q + w * a /\ all[i] = n * e + (q + w * a)
      OBVIOUS
    <2>3. GapRow(x, S)[i] = n * e + (q + (-2 * a) * s)
      BY GapsFrom DEF n, s, q, sq
    <2> HIDE DEF a, e, one, two, three, both, all, w
    <2>4. n * e \in Int /\ w * a \in Int
      BY <1>1, <1>5, <2>1
    <2>5. w * a = (-2 * a) * s
      BY <1>1, <2>1 DEF w
    <2> QED
      BY <1>4, <2>2, <2>3, <2>4, <2>5 DEF a, e
  <1> HIDE DEF one, two, three, both, all
  <1>7. SumFunctionOnSet(one, S) = n * q
    <2>1. n \in Int
      BY <1>1
    <2>2. \A i \in S : sq[i] \in Int /\ one[i] = n * sq[i]
      BY <1>2, <1>6
    <2> QED
      BY <1>3, <2>1, <2>2, SumScaled
  <1>8. SumFunctionOnSet(two, S) = n * q
    <2>1. \A i \in S : two[i] = q
      BY <1>6
    <2> QED
      BY <1>4, <2>1, SumConstant DEF n
  <1>9. SumFunctionOnSet(three, S) = w * s
    BY <1>5, <1>6, SumScaled DEF s
  <1>10. SumFunctionOnSet(both, S) = SumFunctionOnSet(two, S) + SumFunctionOnSet(three, S)
    <2>1. \A i \in S : two[i] \in Int /\ three[i] \in Int /\ both[i] = two[i] + three[i]
      BY <1>4, <1>6
    <2> QED
      BY <2>1, SumPlus
  <1>11. SumFunctionOnSet(all, S) = SumFunctionOnSet(one, S) + SumFunctionOnSet(both, S)
    BY <1>6, SumPlus
  <1>12. SumFunctionOnSet(GapRow(x, S), S) = SumFunctionOnSet(all, S)
    <2>1. \A i \in S : all[i] \in Int /\ GapRow(x, S)[i] = all[i]
      BY <1>6
    <2> QED
      BY <2>1, SumSame
  <1>13. SumFunctionOnSet(GapRow(x, S), S) = 2 * (n * q - s * s)
    <2>1. w * s = -2 * (s * s) /\ n * q \in Int /\ s * s \in Int
      BY <1>1, <1>4 DEF w
    <2> QED
      BY <1>7, <1>8, <1>9, <1>10, <1>11, <1>12, <2>1
  <1> QED
    BY <1>1, <1>4, <1>13 DEF n, s, q

(* Jain's index lies between 1/n and 1, and is 1 for equal shares only.    *)
LEMMA JainBounds ==
    ASSUME NEW S, IsFiniteSet(S), NEW x, \A i \in S : x[i] \in Nat
    PROVE  LET n == Cardinality(S)
               s == SumFunctionOnSet(x, S)
               q == SquareSum(x, S)
           IN  /\ n \in Nat /\ s \in Nat /\ q \in Nat
               /\ s * s <= n * q /\ q <= s * s
               /\ s * s = n * q <=> \A i, j \in S : x[i] = x[j]
               /\ s = 0 => \A i \in S : x[i] = 0
               /\ q = 0 <=> s = 0
  <1> DEFINE n == Cardinality(S)
             s == SumFunctionOnSet(x, S)
             q == SquareSum(x, S)
             sq == [i \in S |-> x[i] * x[i]]
             sx == [i \in S |-> s * x[i]]
             G == GapRow(x, S)
  <1>1. s \in Nat
    BY SumNatural
  <1>2. \A i \in S : x[i] \in Int
    OBVIOUS
  <1>3. /\ s \in Int /\ q \in Int /\ n \in Nat
        /\ SumFunctionOnSet(G, S) = 2 * (n * q - s * s)
    BY <1>2, AllGaps
  <1>4. q = SumFunctionOnSet(sq, S)
    BY DEF SquareSum
  <1> HIDE DEF n, q
  <1>5. ASSUME NEW i \in S
        PROVE  /\ x[i] <= s /\ sq[i] \in Nat /\ sx[i] \in Nat /\ sx[i] = s * x[i]
               /\ sq[i] <= sx[i] /\ (sq[i] = 0 => x[i] = 0)
               /\ (x[i] = 0 => sq[i] = 0)
    <2> DEFINE a == x[i]
    <2>1. a \in Nat /\ a <= s
      BY SumElement
    <2>2. sq[i] = a * a /\ sx[i] = s * a
      OBVIOUS
    <2> HIDE DEF a, sq, sx, s
    <2>3. a * a <= s * a /\ a * a \in Nat /\ s * a \in Nat
      BY <1>1, <2>1, Monotone
    <2>4. a * a = 0 <=> a = 0
      BY <2>1
    <2> QED
      BY <2>1, <2>2, <2>3, <2>4 DEF a
  <1> HIDE DEF sq, sx
  <1>6. q \in Nat
    BY <1>4, <1>5, SumNatural
  <1>7. q <= s * s
    <2>1. SumFunctionOnSet(sq, S) <= SumFunctionOnSet(sx, S)
      <3>1. \A i \in S : sq[i] \in Int /\ sx[i] \in Int /\ sq[i] <= sx[i]
        BY <1>5
      <3> QED
        BY <3>1, SumMonotone
    <2>2. SumFunctionOnSet(sx, S) = s * SumFunctionOnSet(x, S)
      <3>1. \A i \in S : x[i] \in Int /\ sx[i] = s * x[i]
        BY <1>5
      <3> HIDE DEF s
      <3> QED
        BY <1>3, <3>1, SumScaled
    <2> QED
      BY <1>4, <2>1, <2>2
  <1>8. s = 0 => \A i \in S : x[i] = 0
    BY <1>5
  <1>9. q = 0 <=> s = 0
    <2>1. ASSUME q = 0 PROVE s = 0
      <3>1. \A i \in S : x[i] = 0
        <4> SUFFICES ASSUME NEW i \in S PROVE x[i] = 0
          OBVIOUS
        <4>1. sq[i] <= SumFunctionOnSet(sq, S)
          BY <1>5, SumElement
        <4> QED
          BY <1>4, <1>5, <2>1, <4>1
      <3> QED
        BY <3>1, SumZero
    <2>2. ASSUME s = 0 PROVE q = 0
      <3>1. \A i \in S : sq[i] = 0
        BY <1>5, <1>8, <2>2
      <3> QED
        BY <1>4, <3>1, SumZero
    <2> QED
      BY <2>1, <2>2
  <1> DEFINE row(i) == PairGaps(x, S)[i]
  <1>10. ASSUME NEW i \in S
         PROVE  /\ \A j \in S : /\ row(i)[j] \in Nat
                                /\ row(i)[j] = 0 <=> x[i] = x[j]
                /\ G[i] = SumFunctionOnSet(row(i), S) /\ G[i] \in Nat
    <2>1. ASSUME NEW j \in S
          PROVE  row(i)[j] \in Nat /\ (row(i)[j] = 0 <=> x[i] = x[j])
      <3> DEFINE a == x[i]
                 b == x[j]
      <3>1. a \in Int /\ b \in Int
        OBVIOUS
      <3>2. row(i)[j] = (a - b) * (a - b)
        BY DEF PairGaps
      <3> HIDE DEF a, b
      <3>3. (a - b) * (a - b) \in Nat /\ ((a - b) * (a - b) = 0 <=> a = b)
        BY <3>1, SquareOfDifference
      <3> QED
        BY <3>2, <3>3 DEF a, b
    <2>2. G[i] = SumFunctionOnSet(row(i), S)
      BY DEF GapRow
    <2> HIDE DEF row
    <2>3. SumFunctionOnSet(row(i), S) \in Nat
      BY <2>1, SumNatural
    <2> QED
      BY <2>1, <2>2, <2>3
  <1> HIDE DEF row, G, s
  <1>11. SumFunctionOnSet(G, S) \in Nat
    BY <1>10, SumNatural
  <1>12. n * q \in Int /\ s * s \in Int
    BY <1>3
  <1>13. s * s <= n * q
    BY <1>3, <1>11, <1>12
  <1>14. ASSUME s * s = n * q PROVE \A i, j \in S : x[i] = x[j]
    <2> SUFFICES ASSUME NEW i \in S, NEW j \in S PROVE x[i] = x[j]
      OBVIOUS
    <2>1. SumFunctionOnSet(G, S) = 0
      BY <1>3, <1>12, <1>14
    <2>2. G[i] <= SumFunctionOnSet(G, S)
      BY <1>10, SumElement
    <2>3. G[i] = 0
      BY <1>10, <2>1, <2>2
    <2>4. row(i)[j] <= SumFunctionOnSet(row(i), S)
      BY <1>10, SumElement
    <2>5. row(i)[j] = 0
      BY <1>10, <2>3, <2>4
    <2> QED
      BY <1>10, <2>5
  <1>15. ASSUME \A i, j \in S : x[i] = x[j] PROVE s * s = n * q
    <2>1. \A i \in S : G[i] = 0
      <3> SUFFICES ASSUME NEW i \in S PROVE G[i] = 0
        OBVIOUS
      <3>1. \A j \in S : row(i)[j] = 0
        BY <1>10, <1>15
      <3> QED
        BY <1>10, <3>1, SumZero
    <2>2. SumFunctionOnSet(G, S) = 0
      BY <2>1, SumZero
    <2> QED
      BY <1>3, <1>12, <2>2
  <1> QED
    BY <1>1, <1>3, <1>6, <1>7, <1>8, <1>9, <1>13, <1>14, <1>15 DEF n, s, q

-----------------------------------------------------------------------------
(* Counting as a sum.                                                      *)
LEMMA SumOfIndicator ==
    ASSUME NEW S, IsFiniteSet(S), NEW A \in SUBSET S, NEW f,
           \A s \in S : f[s] = IF s \in A THEN 1 ELSE 0
    PROVE  SumFunctionOnSet(f, S) = Cardinality(A)
  <1>1. IsFiniteSet(A) /\ IsFiniteSet(S \ A) /\ A \cap (S \ A) = {} /\ A \cup (S \ A) = S
    BY FS_Subset
  <1>2. \A s \in S : f[s] \in Int
    OBVIOUS
  <1>3. SumFunctionOnSet(f, S) = SumFunctionOnSet(f, A) + SumFunctionOnSet(f, S \ A)
    <2> DEFINE B == S \ A
    <2>1. IsFiniteSet(A) /\ IsFiniteSet(B) /\ A \cap B = {} /\ A \cup B = S
      BY <1>1
    <2> HIDE DEF B
    <2>2. \A s \in A \cup B : f[s] \in Int
      BY <1>2, <2>1
    <2>3. SumFunctionOnSet(f, A \cup B) = SumFunctionOnSet(f, A) + SumFunctionOnSet(f, B)
      BY <2>1, <2>2, SumUnion
    <2> QED
      BY <2>1, <2>3 DEF B
  <1>4. SumFunctionOnSet(f, A) = Cardinality(A) * 1
    <2>1. \A s \in A : f[s] = 1
      OBVIOUS
    <2>2. 1 \in Int
      OBVIOUS
    <2> QED
      BY <1>1, <2>1, <2>2, SumConstant
  <1>5. SumFunctionOnSet(f, S \ A) = 0
    <2>1. \A s \in S \ A : f[s] = 0
      OBVIOUS
    <2> QED
      BY <1>1, <2>1, SumZero
  <1>6. Cardinality(A) \in Nat
    BY <1>1, FS_CardinalityType
  <1> QED
    BY <1>3, <1>4, <1>5, <1>6

(* What Sorted returns rises.                                              *)
LEMMA SortedRises ==
    ASSUME NEW n \in Nat, NEW y, DOMAIN y = 1..n, \A i \in 1..n : y[i] \in Int
    PROVE  /\ DOMAIN Sorted(y) = 1..n
           /\ \A k \in 1..n : /\ Sorted(y)[k] \in Int
                              /\ Place(1..n, y, k) \in 1..n
                              /\ Sorted(y)[k] = y[Place(1..n, y, k)]
           /\ \A k, m \in 1..n : k <= m => Sorted(y)[k] <= Sorted(y)[m]
  <1>1. Keyed(1..n, y) /\ Cardinality(1..n) = n
    <2>1. Cardinality(1..n) = n
      BY FS_Interval, 1 \in Int, n \in Int
    <2>2. Keyed(1..n, y)
      BY DEF Keyed
    <2> QED
      BY <2>1, <2>2
  <1>2. Sorted(y) = [k \in 1..n |-> y[Place(1..n, y, k)]]
    BY DEF Sorted
  <1>3. \A k \in 1..n : Place(1..n, y, k) \in 1..n
    BY <1>1, PlaceIs
  <1>4. \A k, m \in 1..n : k < m => Ahead(y, Place(1..n, y, k), Place(1..n, y, m))
    BY <1>1, PlacesInOrder
  <1>5. ASSUME NEW k \in 1..n, NEW m \in 1..n, k <= m
        PROVE  Sorted(y)[k] <= Sorted(y)[m]
    <2> DEFINE a == Place(1..n, y, k)
               b == Place(1..n, y, m)
    <2>1. a \in 1..n /\ b \in 1..n /\ Sorted(y)[k] = y[a] /\ Sorted(y)[m] = y[b]
      BY <1>2, <1>3
    <2>2. k = m \/ k < m
      BY <1>5
    <2>3. CASE k = m
      BY <2>1, <2>3
    <2>4. CASE k < m
      <3>1. Ahead(y, a, b)
        BY <1>4, <2>4
      <3> HIDE DEF a, b
      <3> QED
        BY <2>1, <3>1 DEF Ahead
    <2> QED
      BY <2>2, <2>3, <2>4
  <1> QED
    BY <1>2, <1>3, <1>5

(* The distance between two numbers, from the one that is ahead.           *)
Apart(a, b) == IF a < b THEN b - a ELSE a - b

Signed(n, y) == [i \in 1..n |-> [j \in 1..n |->
                    IF Ahead(y, j, i) THEN y[i] ELSE IF Ahead(y, i, j) THEN -y[i] ELSE 0]]

SignedOf(n, y) == [i \in 1..n |-> SumFunctionOnSet(Signed(n, y)[i], 1..n)]

Rank(n, y, i) == Cardinality(AheadOf(1..n, y, i)) + 1

LEMMA SignedFrom ==
    ASSUME NEW n \in Nat, NEW y, \A i \in 1..n : y[i] \in Int, NEW i \in 1..n
    PROVE  /\ \A j \in 1..n : Signed(n, y)[i][j] \in Int
           /\ Rank(n, y, i) \in Nat
           /\ SignedOf(n, y)[i] = y[i] * (2 * Rank(n, y, i) - (n + 1))
  <1> DEFINE K == 1..n
             A == AheadOf(K, y, i)
             a == y[i]
             u == [j \in K |-> IF j \in A THEN 1 ELSE 0]
             v == [j \in K |-> (2 * a) * u[j]]
             w == [j \in K |-> -a]
             h == [j \in K |-> v[j] + w[j]]
             g == Signed(n, y)[i]
  <1>1. IsFiniteSet(K) /\ Cardinality(K) = n /\ i \in K
    BY FS_Interval, 1 \in Int, n \in Int
  <1>2. Keyed(K, y)
    BY DEF Keyed
  <1>3. A \in SUBSET K /\ \A j \in K : j \in A <=> Ahead(y, j, i)
    BY DEF AheadOf
  <1>4. \A j \in K : j # i => Ahead(y, j, i) \/ Ahead(y, i, j)
    BY <1>1, <1>2, KeyedFacts
  <1>5. ~Ahead(y, i, i)
    BY <1>1, <1>2, KeyedFacts
  <1>6. IsFiniteSet(A) /\ Cardinality(A) \in Nat
    BY <1>1, <1>3, FS_Subset, FS_CardinalityType
  <1>7. a \in Int
    OBVIOUS
  <1>8. \A j \in K : g[j] = IF Ahead(y, j, i) THEN a ELSE IF Ahead(y, i, j) THEN -a ELSE 0
    BY DEF Signed
  <1> HIDE DEF A, K, g, a
  <1>9. \A j \in K : /\ u[j] \in Int /\ v[j] \in Int /\ w[j] \in Int /\ h[j] \in Int
                     /\ v[j] = (2 * a) * u[j] /\ h[j] = v[j] + w[j] /\ w[j] = -a
                     /\ u[j] = IF j \in A THEN 1 ELSE 0
                     /\ g[j] \in Int
                     /\ j # i => g[j] = h[j]
                     /\ j = i => g[j] = 0 /\ h[j] = -a
    <2> SUFFICES ASSUME NEW j \in K
                 PROVE  /\ u[j] \in Int /\ v[j] \in Int /\ w[j] \in Int /\ h[j] \in Int
                        /\ v[j] = (2 * a) * u[j] /\ h[j] = v[j] + w[j] /\ w[j] = -a
                        /\ u[j] = IF j \in A THEN 1 ELSE 0
                        /\ g[j] \in Int
                        /\ j # i => g[j] = h[j]
                        /\ j = i => g[j] = 0 /\ h[j] = -a
      OBVIOUS
    <2>1. /\ u[j] = (IF j \in A THEN 1 ELSE 0) /\ v[j] = (2 * a) * u[j] /\ w[j] = -a
          /\ h[j] = v[j] + w[j]
      OBVIOUS
    <2> HIDE DEF u, v, w, h
    <2>2. CASE j \in A
      <3>1. v[j] = 2 * a
        BY <1>7, <2>1, <2>2
      <3>2. j # i /\ g[j] = a
        BY <1>3, <1>5, <1>8, <2>2
      <3> QED
        BY <1>7, <2>1, <2>2, <3>1, <3>2
    <2>3. CASE j \notin A
      <3>1. v[j] = 0
        BY <1>7, <2>1, <2>3
      <3>2. j # i => g[j] = -a
        BY <1>3, <1>4, <1>8, <2>3
      <3>3. j = i => g[j] = 0
        BY <1>5, <1>8
      <3> QED
        BY <1>7, <2>1, <2>3, <3>1, <3>2, <3>3
    <2> QED
      BY <2>2, <2>3
  <1> HIDE DEF u, v, w, h
  <1>10. SumFunctionOnSet(u, K) = Cardinality(A)
    BY <1>1, <1>3, <1>9, SumOfIndicator
  <1>11. SumFunctionOnSet(v, K) = (2 * a) * Cardinality(A)
    <2> DEFINE b == 2 * a
    <2>1. b \in Int
      BY <1>7
    <2>2. \A j \in K : u[j] \in Int /\ v[j] = b * u[j]
      BY <1>9
    <2> HIDE DEF b
    <2>3. SumFunctionOnSet(v, K) = b * SumFunctionOnSet(u, K)
      BY <1>1, <2>1, <2>2, SumScaled
    <2> QED
      BY <1>10, <2>3 DEF b
  <1>12. SumFunctionOnSet(w, K) = n * (-a)
    <2>1. -a \in Int
      BY <1>7
    <2> QED
      BY <1>1, <1>9, <2>1, SumConstant
  <1>13. SumFunctionOnSet(h, K) = SumFunctionOnSet(v, K) + SumFunctionOnSet(w, K)
    BY <1>1, <1>9, SumPlus
  <1>14. SumFunctionOnSet(g, K) = SumFunctionOnSet(h, K) + g[i] - h[i]
    <2>1. \A j \in K : h[j] \in Int /\ g[j] \in Int
      BY <1>9
    <2>2. \A j \in K \ {i} : g[j] = h[j]
      BY <1>9
    <2>3. IsFiniteSet(K) /\ i \in K
      BY <1>1
    <2>4. PICK c \in K : c = i
      BY <2>3
    <2>5. \A j \in K \ {c} : g[j] = h[j]
      BY <2>2, <2>4
    <2>6. IsFiniteSet(K)
      BY <2>3
    <2>7. SumFunctionOnSet(g, K) = SumFunctionOnSet(h, K) + g[c] - h[c]
      BY <2>1, <2>5, <2>6, SumChanged
    <2> QED
      BY <2>4, <2>7
  <1>15. SumFunctionOnSet(g, K) = a * (2 * (Cardinality(A) + 1) - (n + 1))
    <2> DEFINE c == Cardinality(A)
    <2>1. c \in Nat /\ SumFunctionOnSet(g, K) = ((2 * a) * c + n * (-a)) + 0 - (-a)
      BY <1>1, <1>6, <1>9, <1>11, <1>12, <1>13, <1>14
    <2> HIDE DEF c
    <2>2. ((2 * a) * c + n * (-a)) + 0 - (-a) = a * (2 * (c + 1) - (n + 1))
      BY <1>7, <2>1
    <2> QED
      BY <2>1, <2>2 DEF c
  <1>16. SignedOf(n, y)[i] = SumFunctionOnSet(g, K)
    BY DEF SignedOf, g, K
  <1>17. Rank(n, y, i) = Cardinality(A) + 1
    BY DEF Rank, A, K
  <1>18. \A j \in 1..n : Signed(n, y)[i][j] \in Int
    BY <1>9 DEF g, K
  <1> QED
    BY <1>6, <1>15, <1>16, <1>17, <1>18 DEF a

(* The other of a pair has the same number with the other sign.            *)
LEMMA SignedSwapped ==
    ASSUME NEW n \in Nat, NEW y, \A i \in 1..n : y[i] \in Int, NEW col, NEW C,
           \A i, j \in 1..n : col[i][j] = Signed(n, y)[j][i],
           \A i \in 1..n : C[i] = SumFunctionOnSet(col[i], 1..n)
    PROVE  SumFunctionOnSet(C, 1..n) = SumFunctionOnSet(SignedOf(n, y), 1..n)
  <1> DEFINE K == 1..n
             f == Signed(n, y)
             G == SignedOf(n, y)
  <1>1. IsFiniteSet(K)
    BY FS_Interval, 1 \in Int, n \in Int
  <1>2. \A s \in K : \A t \in K : f[s][t] \in Int
    BY SignedFrom
  <1>3. \A s \in K : \A t \in K : f[s][t] \in Int /\ col[t][s] = f[s][t]
    BY <1>2
  <1>4. \A s \in K : G[s] = SumFunctionOnSet(f[s], K)
    BY DEF SignedOf
  <1>5. \A t \in K : C[t] = SumFunctionOnSet(col[t], K)
    OBVIOUS
  <1>6. SumFunctionOnSet(G, K) = SumFunctionOnSet(C, K)
    <2> HIDE DEF K, f, G
    <2> QED
      BY <1>1, <1>3, <1>4, <1>5, SumSwapped
  <1> QED
    BY <1>6

(* The mean difference of numbers, from their ranks: what makes the        *)
(* formula with sorted numbers the Gini coefficient.                       *)
LEMMA GiniFromRanks ==
    ASSUME NEW n \in Nat, NEW y, DOMAIN y = 1..n, \A i \in 1..n : y[i] \in Int,
           NEW W, W = SumFunctionOnSet([k \in 1..n |-> k * Sorted(y)[k]], 1..n),
           NEW D, D = [i \in 1..n |-> SumFunctionOnSet([j \in 1..n |-> Apart(y[i], y[j])], 1..n)]
    PROVE  /\ W \in Int /\ SumFunctionOnSet(y, 1..n) \in Int
           /\ \A i \in 1..n : D[i] \in Int
           /\ SumFunctionOnSet(D, 1..n) = 2 * (2 * W - (n + 1) * SumFunctionOnSet(y, 1..n))
  <1> DEFINE K == 1..n
             G == SignedOf(n, y)
             Z == SumFunctionOnSet(y, K)
             ranked == [i \in K |-> Rank(n, y, i) * y[i]]
             weighted == [k \in K |-> k * Sorted(y)[k]]
             col == [i \in K |-> [j \in K |-> Signed(n, y)[j][i]]]
             C == [i \in K |-> SumFunctionOnSet(col[i], K)]
             dist(i) == [j \in K |-> Apart(y[i], y[j])]
  <1>1. IsFiniteSet(K) /\ Cardinality(K) = n
    BY FS_Interval, 1 \in Int, n \in Int
  <1>2. Keyed(K, y)
    BY DEF Keyed
  <1>3. Z \in Int
    BY <1>1, SumInteger
  <1>4. W = SumFunctionOnSet(weighted, K)
    OBVIOUS
  <1>5. \A i \in K : /\ \A j \in K : Signed(n, y)[i][j] \in Int
                     /\ Rank(n, y, i) \in Nat
                     /\ G[i] = y[i] * (2 * Rank(n, y, i) - (n + 1))
                     /\ y[i] \in Int
    BY SignedFrom
  <1>6. SumFunctionOnSet(ranked, K) = W /\ W \in Int /\ \A i \in K : ranked[i] \in Int
    <2> DEFINE pi == [k \in K |-> Place(K, y, k)]
    <2>1. \A k \in K : /\ pi[k] \in K /\ Cardinality(AheadOf(K, y, pi[k])) = k - 1
      BY <1>1, <1>2, PlaceIs
    <2>2. \A i \in K : \E k \in K : pi[k] = i
      <3> SUFFICES ASSUME NEW i \in K PROVE \E k \in K : pi[k] = i
        OBVIOUS
      <3>1. \A j \in K : \E k \in 1..Cardinality(K) : Place(K, y, k) = j
        BY <1>2, PlaceReached
      <3>2. PICK k \in 1..Cardinality(K) : Place(K, y, k) = i
        BY <3>1
      <3> QED
        BY <1>1, <3>2
    <2>3. \A k, m \in K : pi[k] = pi[m] => k = m
      <3> HIDE DEF pi
      <3> SUFFICES ASSUME NEW k \in K, NEW m \in K, pi[k] = pi[m] PROVE k = m
        OBVIOUS
      <3>1. k - 1 = m - 1
        BY <2>1
      <3> QED
        BY <3>1
    <2>4. \A i \in K : ranked[i] \in Int
      <3> SUFFICES ASSUME NEW i \in K PROVE ranked[i] \in Int
        OBVIOUS
      <3> DEFINE r == Rank(n, y, i)
                 a == y[i]
      <3>1. r \in Int /\ a \in Int /\ ranked[i] = r * a
        BY <1>5
      <3> HIDE DEF r, a, ranked
      <3> QED
        BY <3>1
    <2>5. \A k \in K : ranked[pi[k]] = weighted[k]
      <3> SUFFICES ASSUME NEW k \in K PROVE ranked[pi[k]] = weighted[k]
        OBVIOUS
      <3>1. Sorted(y)[k] = y[pi[k]]
        BY SortedRises
      <3>2. weighted[k] = k * Sorted(y)[k]
        OBVIOUS
      <3>3. ranked[pi[k]] = Rank(n, y, pi[k]) * y[pi[k]]
        BY <2>1
      <3>4. Rank(n, y, pi[k]) = k
        <4> HIDE DEF pi
        <4> QED
          BY <2>1 DEF Rank
      <3> QED
        BY <3>1, <3>2, <3>3, <3>4
    <2> HIDE DEF pi, ranked, weighted, K
    <2>6. \A k \in K : /\ pi[k] \in K /\ ranked[pi[k]] \in Int
                       /\ weighted[k] = ranked[pi[k]]
      BY <2>1, <2>4, <2>5
    <2>7. SumFunctionOnSet(ranked, K) = SumFunctionOnSet(weighted, K)
      BY <1>1, <2>2, <2>3, <2>6, SumRenamed
    <2>8. SumFunctionOnSet(ranked, K) \in Int
      BY <1>1, <2>4, SumInteger
    <2> QED
      BY <1>4, <2>4, <2>7, <2>8
  <1>7. SumFunctionOnSet(G, K) = 2 * W - (n + 1) * Z
    <2> DEFINE two == [i \in K |-> 2 * ranked[i]]
               m == -(n + 1)
               less == [i \in K |-> m * y[i]]
    <2>1. m \in Int
      OBVIOUS
    <2>2. ASSUME NEW i \in K
          PROVE  /\ two[i] \in Int /\ less[i] \in Int /\ ranked[i] \in Int /\ y[i] \in Int
                 /\ two[i] = 2 * ranked[i] /\ less[i] = m * y[i]
                 /\ G[i] = two[i] + less[i]
      <3> DEFINE r == Rank(n, y, i)
                 a == y[i]
      <3>1. r \in Nat /\ a \in Int /\ ranked[i] = r * a /\ G[i] = a * (2 * r - (n + 1))
        BY <1>5
      <3>2. ranked[i] \in Int
        BY <1>6
      <3>3. two[i] = 2 * ranked[i] /\ less[i] = m * a
        OBVIOUS
      <3> HIDE DEF r, a, ranked, two, less, G
      <3>4. a * (2 * r - (n + 1)) = 2 * (r * a) + (-(n + 1)) * a
        BY <3>1
      <3>5. m * a \in Int /\ 2 * ranked[i] \in Int
        BY <2>1, <3>1, <3>2
      <3> QED
        BY <3>1, <3>2, <3>3, <3>4, <3>5 DEF a
    <2> HIDE DEF two, less, ranked, G, K, m
    <2>3. SumFunctionOnSet(two, K) = 2 * SumFunctionOnSet(ranked, K)
      <3>1. 2 \in Int
        OBVIOUS
      <3> QED
        BY <1>1, <2>2, <3>1, SumScaled
    <2>4. SumFunctionOnSet(less, K) = m * SumFunctionOnSet(y, K)
      BY <1>1, <2>1, <2>2, SumScaled
    <2>5. SumFunctionOnSet(G, K) = SumFunctionOnSet(two, K) + SumFunctionOnSet(less, K)
      BY <1>1, <2>2, SumPlus
    <2>6. m * Z = -((n + 1) * Z) /\ (n + 1) * Z \in Int
      BY <1>3 DEF m
    <2> QED
      BY <1>3, <1>6, <2>3, <2>4, <2>5, <2>6
  <1>8. \A i \in K : G[i] \in Int /\ C[i] \in Int
    <2> SUFFICES ASSUME NEW i \in K PROVE G[i] \in Int /\ C[i] \in Int
      OBVIOUS
    <2>1. \A j \in K : col[i][j] \in Int
      BY <1>5
    <2>2. \A j \in K : Signed(n, y)[i][j] \in Int
      BY <1>5
    <2>3. C[i] = SumFunctionOnSet(col[i], K) /\ G[i] = SumFunctionOnSet(Signed(n, y)[i], K)
      BY DEF SignedOf
    <2> HIDE DEF col, C, G, K
    <2> QED
      BY <1>1, <2>1, <2>2, <2>3, SumInteger
  <1>9. SumFunctionOnSet(C, K) = SumFunctionOnSet(G, K)
    BY SignedSwapped
  <1>10. \A i \in K : D[i] = G[i] + C[i]
    <2> SUFFICES ASSUME NEW i \in K PROVE D[i] = G[i] + C[i]
      OBVIOUS
    <2>1. ASSUME NEW j \in K
          PROVE  /\ Signed(n, y)[i][j] \in Int /\ col[i][j] \in Int
                 /\ dist(i)[j] = Signed(n, y)[i][j] + col[i][j]
      <3>1. /\ Signed(n, y)[i][j] =
                  IF Ahead(y, j, i) THEN y[i] ELSE IF Ahead(y, i, j) THEN -y[i] ELSE 0
            /\ col[i][j] =
                  IF Ahead(y, i, j) THEN y[j] ELSE IF Ahead(y, j, i) THEN -y[j] ELSE 0
            /\ dist(i)[j] = Apart(y[i], y[j])
        BY DEF Signed
      <3>2. ~(Ahead(y, i, j) /\ Ahead(y, j, i))
        BY <1>2, KeyedFacts
      <3>3. i # j => Ahead(y, i, j) \/ Ahead(y, j, i)
        BY <1>2, KeyedFacts
      <3>4. y[i] \in Int /\ y[j] \in Int
        BY <1>5
      <3> DEFINE a == y[i]
                 b == y[j]
      <3>5. Ahead(y, i, j) => a <= b
        BY <3>4 DEF Ahead
      <3>6. Ahead(y, j, i) => b <= a
        BY <3>4 DEF Ahead
      <3>7. i = j => a = b
        OBVIOUS
      <3> HIDE DEF col, dist, a, b
      <3> QED
        BY <3>1, <3>2, <3>3, <3>4, <3>5, <3>6, <3>7 DEF Apart, a, b
    <2>2. /\ D[i] = SumFunctionOnSet(dist(i), K)
          /\ G[i] = SumFunctionOnSet(Signed(n, y)[i], K)
          /\ C[i] = SumFunctionOnSet(col[i], K)
      BY DEF SignedOf
    <2> DEFINE di == dist(i)
               si == Signed(n, y)[i]
               ci == col[i]
    <2>3. \A j \in K : si[j] \in Int /\ ci[j] \in Int /\ di[j] = si[j] + ci[j]
      BY <2>1
    <2>4. SumFunctionOnSet(di, K) = SumFunctionOnSet(si, K) + SumFunctionOnSet(ci, K)
      <3> HIDE DEF di, si, ci, K
      <3> QED
        BY <1>1, <2>3, SumPlus
    <2> QED
      BY <2>2, <2>4
  <1>11. \A i \in K : D[i] \in Int
    <2> SUFFICES ASSUME NEW i \in K PROVE D[i] \in Int
      OBVIOUS
    <2>1. G[i] \in Int /\ C[i] \in Int /\ D[i] = G[i] + C[i]
      BY <1>8, <1>10
    <2> HIDE DEF K, G, C
    <2> QED
      BY <2>1
  <1>12. SumFunctionOnSet(D, K) = SumFunctionOnSet(G, K) + SumFunctionOnSet(C, K)
    <2> HIDE DEF K, G, C
    <2> QED
      BY <1>1, <1>8, <1>10, SumPlus
  <1>13. SumFunctionOnSet(D, K) = 2 * (2 * W - (n + 1) * Z)
    <2> HIDE DEF K, G, C, Z
    <2>1. (n + 1) * Z \in Int
      BY <1>3
    <2> QED
      BY <1>6, <1>7, <1>9, <1>12, <2>1
  <1> QED
    BY <1>3, <1>6, <1>11, <1>13

(* The distances of one number from all are at most the sums with it, and  *)
(* that only where of every two one is 0.                                  *)
LEMMA ApartFromOne ==
    ASSUME NEW S, IsFiniteSet(S), NEW x, \A i \in S : x[i] \in Nat, NEW p \in S,
           NEW f, \A i \in S : f[i] = Apart(x[p], x[i])
    PROVE  LET most == (Cardinality(S) - 2) * x[p] + SumFunctionOnSet(x, S)
           IN  /\ SumFunctionOnSet(f, S) \in Nat /\ most \in Int
               /\ SumFunctionOnSet(f, S) <= most
               /\ SumFunctionOnSet(f, S) = most
                     <=> \A i \in S \ {p} : x[p] = 0 \/ x[i] = 0
               /\ SumFunctionOnSet(f, S) = 0 <=> \A i \in S : x[i] = x[p]
  <1> DEFINE n == Cardinality(S)
             T == S \ {p}
             w == x[p]
             c == [i \in T |-> w]
             h == [i \in T |-> c[i] + x[i]]
             s == SumFunctionOnSet(x, S)
             a == SumFunctionOnSet(f, S)
             most == (n - 2) * w + s
  <1>1. /\ n \in Nat /\ IsFiniteSet(T) /\ Cardinality(T) = n - 1 /\ w \in Nat
    BY FS_CardinalityType, FS_RemoveElement
  <1>2. \A i \in S : x[i] \in Int /\ x[i] \in Nat
    OBVIOUS
  <1>3. s = w + SumFunctionOnSet(x, T) /\ SumFunctionOnSet(x, T) \in Int
    BY <1>1, <1>2, SumRemove, SumInteger
  <1>4. f[p] = 0 /\ \A i \in S : f[i] \in Nat /\ f[i] \in Int
    BY <1>2 DEF Apart
  <1>5. a = SumFunctionOnSet(f, T) /\ SumFunctionOnSet(f, T) \in Nat
    <2>1. SumFunctionOnSet(f, S) = f[p] + SumFunctionOnSet(f, T)
      BY <1>4, SumRemove
    <2>2. SumFunctionOnSet(f, T) \in Nat
      BY <1>1, <1>4, SumNatural
    <2> QED
      BY <1>4, <2>1, <2>2
  <1>6. \A i \in T : /\ f[i] \in Int /\ h[i] \in Int /\ f[i] <= h[i]
                     /\ c[i] \in Int /\ x[i] \in Int /\ h[i] = c[i] + x[i] /\ c[i] = w
                     /\ f[i] = h[i] <=> w = 0 \/ x[i] = 0
    BY <1>1, <1>2 DEF Apart
  <1> HIDE DEF h, c, w
  <1>7. SumFunctionOnSet(h, T) = SumFunctionOnSet(c, T) + SumFunctionOnSet(x, T)
    BY <1>1, <1>6, SumPlus
  <1>8. SumFunctionOnSet(c, T) = (n - 1) * w
    BY <1>1, <1>6, SumConstant
  <1>9. SumFunctionOnSet(h, T) = most
    <2> HIDE DEF n, s
    <2>1. (n - 1) * w = (n - 2) * w + w /\ (n - 2) * w \in Int
      BY <1>1
    <2> QED
      BY <1>1, <1>3, <1>7, <1>8, <2>1
  <1>10. /\ SumFunctionOnSet(f, T) <= SumFunctionOnSet(h, T)
         /\ SumFunctionOnSet(f, T) = SumFunctionOnSet(h, T) <=> \A i \in T : f[i] = h[i]
    <2> HIDE DEF T
    <2> QED
      BY <1>1, <1>6, SumEqual
  <1>11. a = most <=> \A i \in T : w = 0 \/ x[i] = 0
    BY <1>5, <1>6, <1>9, <1>10
  <1>12. most \in Int
    <2>1. (n - 2) * w \in Int
      BY <1>1
    <2> QED
      BY <1>1, <1>3, <2>1
  <1>13. a = 0 <=> \A i \in S : x[i] = w
    <2> DEFINE z == [i \in S |-> 0]
    <2>1. \A i \in S : z[i] \in Int /\ f[i] \in Int /\ z[i] <= f[i] /\ z[i] = 0
      BY <1>4
    <2>2. SumFunctionOnSet(z, S) = 0
      BY <2>1, SumZero
    <2> HIDE DEF z
    <2>3. a = 0 <=> \A i \in S : z[i] = f[i]
      BY <2>1, <2>2, SumEqual
    <2>4. \A i \in S : f[i] = 0 <=> x[i] = w
      BY <1>1, <1>2 DEF Apart, w
    <2> QED
      BY <2>1, <2>3, <2>4
  <1> QED
    BY <1>5, <1>9, <1>10, <1>11, <1>12, <1>13 DEF w

(* All distances: the most they come to, and when.                         *)
ApartFrom(x, S, p) == SumFunctionOnSet([i \in S |-> Apart(x[p], x[i])], S)

LEMMA ApartFromAll ==
    ASSUME NEW S, IsFiniteSet(S), NEW x, \A i \in S : x[i] \in Nat,
           NEW e, \A p \in S : e[p] = ApartFrom(x, S, p)
    PROVE  LET most == 2 * ((Cardinality(S) - 1) * SumFunctionOnSet(x, S))
           IN  /\ SumFunctionOnSet(e, S) \in Nat /\ most \in Int
               /\ SumFunctionOnSet(e, S) <= most
               /\ SumFunctionOnSet(e, S) = most
                     <=> \A p, i \in S : p = i \/ x[p] = 0 \/ x[i] = 0
               /\ SumFunctionOnSet(e, S) = 0 <=> \A p, i \in S : x[i] = x[p]
  <1> DEFINE n == Cardinality(S)
             s == SumFunctionOnSet(x, S)
             w == n - 2
             g == [p \in S |-> w * x[p]]
             c == [p \in S |-> s]
             h == [p \in S |-> g[p] + c[p]]
             most == 2 * ((n - 1) * s)
  <1>1. n \in Nat /\ w \in Int /\ s \in Nat /\ \A i \in S : x[i] \in Int
    BY FS_CardinalityType, SumNatural
  <1>2. ASSUME NEW p \in S
        PROVE  /\ e[p] \in Nat /\ w * x[p] + s \in Int /\ e[p] <= w * x[p] + s
               /\ e[p] = w * x[p] + s <=> \A i \in S \ {p} : x[p] = 0 \/ x[i] = 0
               /\ e[p] = 0 <=> \A i \in S : x[i] = x[p]
    <2> DEFINE f == [i \in S |-> Apart(x[p], x[i])]
    <2>1. e[p] = SumFunctionOnSet(f, S) /\ \A i \in S : f[i] = Apart(x[p], x[i])
      BY DEF ApartFrom
    <2> HIDE DEF f
    <2> QED
      BY <2>1, ApartFromOne
  <1>3. \A p \in S : /\ e[p] \in Int /\ h[p] \in Int /\ e[p] <= h[p]
                     /\ g[p] \in Int /\ c[p] \in Int /\ h[p] = g[p] + c[p]
                     /\ g[p] = w * x[p] /\ c[p] = s /\ h[p] = w * x[p] + s
    <2> TAKE p \in S
    <2>1. w * x[p] \in Int
      BY <1>1
    <2> HIDE DEF w, s
    <2> QED
      BY <1>1, <1>2, <2>1
  <1> HIDE DEF g, c, h
  <1>4. SumFunctionOnSet(h, S) = SumFunctionOnSet(g, S) + SumFunctionOnSet(c, S)
    BY <1>3, SumPlus
  <1>5. SumFunctionOnSet(g, S) = w * s
    <2> HIDE DEF w
    <2> QED
      BY <1>1, <1>3, SumScaled
  <1>6. SumFunctionOnSet(c, S) = n * s
    <2> HIDE DEF s
    <2> QED
      BY <1>1, <1>3, SumConstant
  <1>7. SumFunctionOnSet(h, S) = most /\ most \in Int
    <2> HIDE DEF n, s
    <2>1. w * s + n * s = 2 * ((n - 1) * s) /\ 2 * ((n - 1) * s) \in Int
      BY <1>1
    <2> QED
      BY <1>4, <1>5, <1>6, <2>1
  <1>8. /\ SumFunctionOnSet(e, S) <= SumFunctionOnSet(h, S)
        /\ SumFunctionOnSet(e, S) = SumFunctionOnSet(h, S) <=> \A p \in S : e[p] = h[p]
    BY <1>3, SumEqual
  <1>9. (\A p \in S : e[p] = h[p]) <=> \A p, i \in S : p = i \/ x[p] = 0 \/ x[i] = 0
    <2>1. \A p \in S : e[p] = h[p] <=> \A i \in S \ {p} : x[p] = 0 \/ x[i] = 0
      BY <1>2, <1>3
    <2> QED
      BY <2>1
  <1>10. SumFunctionOnSet(e, S) \in Nat
    BY <1>2, SumNatural
  <1>11. SumFunctionOnSet(e, S) = 0 <=> \A p, i \in S : x[i] = x[p]
    <2> DEFINE z == [i \in S |-> 0]
    <2>1. \A i \in S : z[i] \in Int /\ e[i] \in Int /\ z[i] <= e[i] /\ z[i] = 0
      BY <1>2
    <2>2. SumFunctionOnSet(z, S) = 0
      BY <2>1, SumZero
    <2> HIDE DEF z
    <2>3. SumFunctionOnSet(e, S) = 0 <=> \A i \in S : z[i] = e[i]
      BY <2>1, <2>2, SumEqual
    <2> QED
      BY <1>2, <2>1, <2>3
  <1> QED
    BY <1>7, <1>8, <1>9, <1>10, <1>11

=============================================================================
