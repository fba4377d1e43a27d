---------------------- MODULE StatelessSchedulerProofs ----------------------
(***************************************************************************)
(* Proofs about the stateless schedulers, for any number of queues and     *)
(* buckets, any loads, pressures and risks: the greedy loop never fills a  *)
(* queue past the limit, for any thresholds and tolerance and any change   *)
(* of hotness that a move may cause, and the loads it reckons with are     *)
(* those of the table it builds; the one-shot pass moves at most one       *)
(* bucket to and from a queue; and no policy changes more of the table     *)
(* than it reports.                                                        *)
(***************************************************************************)
EXTENDS StatelessScheduler, FiniteSums

LEMMA QueuesCounted == Cardinality(Queues) \in Nat
  BY GreedySchedulerAssumption, FS_CardinalityType

(* A load below one within the limit is within the limit.                  *)
LEMMA TimesMonotone ==
    ASSUME NEW n \in Nat, NEW x \in Int, NEW y \in Int, x <= y
    PROVE  n * x <= n * y
  <1>1. y - x \in Nat
    OBVIOUS
  <1>2. n * (y - x) >= 0
    BY <1>1
  <1>3. n * (y - x) = n * y - n * x
    OBVIOUS
  <1> QED BY <1>2, <1>3

LEMMA LimitMonotone ==
    ASSUME total \in Nat, NEW x \in Int, NEW y \in Int, x <= y, WithinLimit(y)
    PROVE  WithinLimit(x)
  <1> DEFINE n == Cardinality(Queues)
             limit == 100 * total + Tolerance * (total + n)
  <1>1. n \in Nat /\ Tolerance \in Nat
    BY QueuesCounted, GreedySchedulerAssumption
  <1>2. n * x <= n * y /\ n * x \in Int /\ n * y \in Int
    BY <1>1, TimesMonotone
  <1>3. limit \in Int
    BY <1>1
  <1>4. 100 * (n * y) <= limit
    BY DEF WithinLimit
  <1> HIDE DEF n, limit
  <1>5. 100 * (n * x) <= limit
    BY <1>2, <1>3, <1>4
  <1> QED BY <1>5 DEF WithinLimit, n, limit

-----------------------------------------------------------------------------
(* The bytes of the buckets of a queue are a natural number.               *)
LEMMA LoadsNatural ==
    ASSUME NEW table, B_b \in [Buckets -> Nat]
    PROVE  Folded(table) \in [Queues -> Nat]
  <1> SUFFICES ASSUME NEW q \in Queues
               PROVE  SumFunctionOnSet(B_b, BucketsOf(table, q)) \in Nat
    BY DEF Folded
  <1>1. IsFiniteSet(BucketsOf(table, q))
    BY GreedySchedulerAssumption, FS_Subset DEF BucketsOf
  <1>2. \A b \in BucketsOf(table, q) : B_b[b] \in Nat
    BY DEF BucketsOf
  <1> QED
    BY <1>1, <1>2, SumNatural

(* The initial states.                                                     *)
LEMMA InitInductive == Init => Inductive
  <1> SUFFICES ASSUME Init PROVE Inductive
    OBVIOUS
  <1>1. /\ current_table \in [Buckets -> Queues] /\ new_table \in [Buckets -> Queues]
        /\ B_b \in [Buckets -> Nat]
        /\ B_q_gen \in [Queues -> Int] /\ first \in [Queues -> Nat] /\ total \in Nat
        /\ H \in [Queues -> 0..Top]
        /\ hot \subseteq Hot(H) /\ cold \subseteq Cold(H)
        /\ moves \in 0..MaxMoves
    <2>1. current_table \in [Buckets -> Queues] /\ new_table \in [Buckets -> Queues]
      BY DEF Init
    <2>2. B_b \in [Buckets -> Nat]
      BY GreedySchedulerAssumption DEF Init
    <2>3. B_q_gen \in [Queues -> Int] /\ first \in [Queues -> Nat] /\ total \in Nat
      <3>1. B_q_gen \in [Queues -> Nat]
        BY <2>2, LoadsNatural DEF Init
      <3>2. \A q \in Queues : B_q_gen[q] \in Nat
        BY <3>1
      <3>3. SumFunctionOnSet(B_q_gen, Queues) \in Nat
        BY <3>2, GreedySchedulerAssumption, SumNatural
      <3>4. B_q_gen \in [Queues -> Int]
        BY <3>1
      <3> QED
        BY <3>1, <3>3, <3>4 DEF Init, SumOf
    <2>4. H \in [Queues -> 0..Top] /\ hot \subseteq Hot(H) /\ cold \subseteq Cold(H)
      BY DEF Init
    <2>5. moves \in 0..MaxMoves
      BY GreedySchedulerAssumption DEF Init
    <2> QED BY <2>1, <2>2, <2>3, <2>4, <2>5
  <1>2. NeverOverfilled
    <2>1. \A q \in Queues : B_q_gen[q] \in Int /\ first[q] = B_q_gen[q]
      BY <1>1 DEF Init
    <2> QED BY <2>1 DEF NeverOverfilled
  <1>3. Changed = {}
    BY DEF Init, Changed
  <1>4. Cardinality(Changed) <= moves
    BY <1>3, FS_EmptySet DEF Init
  <1> QED BY <1>1, <1>2, <1>4 DEF Inductive

(* One bucket that is given another queue is at most one more that differs *)
(* from the table given.                                                   *)
LEMMA OneMoreChanged ==
    ASSUME Inductive, NEW b \in Buckets, NEW dst,
           new_table' = [new_table EXCEPT ![b] = dst],
           current_table' = current_table, moves' = moves + 1
    PROVE  Cardinality(Changed') <= moves'
  <1>1. Changed' \subseteq Changed \cup {b}
    BY DEF Changed, Inductive
  <1>2. IsFiniteSet(Changed)
    BY GreedySchedulerAssumption, FS_Subset DEF Changed
  <1>3. /\ IsFiniteSet(Changed \cup {b})
        /\ Cardinality(Changed \cup {b}) <= Cardinality(Changed) + 1
    <2>1. Cardinality(Changed) \in Nat
      BY <1>2, FS_CardinalityType
    <2>2. /\ IsFiniteSet(Changed \cup {b})
          /\ Cardinality(Changed \cup {b}) =
                IF b \in Changed THEN Cardinality(Changed) ELSE Cardinality(Changed) + 1
      BY <1>2, FS_AddElement
    <2> QED BY <2>1, <2>2
  <1>4. IsFiniteSet(Changed') /\ Cardinality(Changed') <= Cardinality(Changed \cup {b})
    BY <1>1, <1>3, FS_Subset
  <1>5. Cardinality(Changed) <= moves /\ moves \in Int
    BY DEF Inductive
  <1>6. /\ Cardinality(Changed) \in Nat /\ Cardinality(Changed \cup {b}) \in Nat
        /\ Cardinality(Changed') \in Nat
    BY <1>2, <1>3, <1>4, FS_CardinalityType
  <1> QED BY <1>3, <1>4, <1>5, <1>6

(* A move: the source only loses bytes and the destination is within the   *)
(* limit afterwards; at most one more bucket differs from the table given. *)
LEMMA MoveInductive ==
    ASSUME Inductive, Running,
           NEW src \in Hottest, NEW dst \in Coldest,
           NEW b \in Heaviest(Fitting(src, dst)), Move(b, src, dst)
    PROVE  Inductive'
  <1>1. /\ b \in Buckets /\ new_table[b] = src /\ FitsIn(b, dst)
        /\ src \in Queues /\ dst \in Queues /\ src # dst
    <2>1. H[src] > TauHot /\ H[dst] < TauCold /\ src \in Queues /\ dst \in Queues
      BY DEF Hottest, Coldest, Hot, Cold, Inductive
    <2>2. src # dst
      BY <2>1, GreedySchedulerAssumption DEF Inductive
    <2> QED BY <2>1, <2>2 DEF Heaviest, Fitting, BucketsOf
  <1>2. B_b[b] \in Nat /\ B_q_gen[src] \in Int /\ B_q_gen[dst] \in Int
    BY <1>1 DEF Inductive
  <1>3. /\ current_table' \in [Buckets -> Queues] /\ new_table' \in [Buckets -> Queues]
        /\ B_b' \in [Buckets -> Nat]
        /\ first' \in [Queues -> Nat] /\ total' \in Nat
    BY <1>1 DEF Move, Inductive
  <1>4. B_q_gen' \in [Queues -> Int]
    BY <1>1, <1>2 DEF Move, Inductive, Shifted
  <1>5. H' \in [Queues -> 0..Top]
    <2>1. PICK less \in 0..H[src], more \in H[dst]..Top :
              H' = [H EXCEPT ![src] = less, ![dst] = more]
      BY DEF Move
    <2>2. H[src] \in 0..Top /\ H[dst] \in 0..Top
      BY <1>1 DEF Inductive
    <2>3. less \in 0..Top /\ more \in 0..Top
      BY <2>2, GreedySchedulerAssumption
    <2> QED BY <2>1, <2>3 DEF Inductive
  <1>6. hot' \subseteq Hot(H)' /\ cold' \subseteq Cold(H)'
    BY DEF Move, Hot, Cold
  <1>7. moves' \in 0..MaxMoves
    BY GreedySchedulerAssumption DEF Move, Running, Inductive
  <1>8. NeverOverfilled'
    <2> SUFFICES ASSUME NEW q \in Queues
                 PROVE  WithinLimit(B_q_gen[q])' \/ B_q_gen'[q] <= first[q]
      BY DEF NeverOverfilled, Move
    <2>1. B_q_gen[q] \in Int /\ first[q] \in Nat /\ total \in Nat
      BY DEF Inductive
    <2>2. WithinLimit(B_q_gen[q]) \/ B_q_gen[q] <= first[q]
      BY DEF Inductive, NeverOverfilled
    <2>3. ASSUME NEW x, x = B_q_gen'[q], WithinLimit(x)
          PROVE  WithinLimit(B_q_gen[q])'
      BY <2>3 DEF WithinLimit, Move
    <2>4. CASE q = dst
      <3>1. B_q_gen'[q] = B_q_gen[q] + B_b[b]
        BY <1>1, <2>4 DEF Move, Shifted, Inductive
      <3> QED BY <1>1, <2>3, <2>4, <3>1 DEF FitsIn
    <2>5. CASE q = src
      <3>1. B_q_gen'[q] = B_q_gen[q] - B_b[b]
        BY <1>1, <2>5 DEF Move, Shifted, Inductive
      <3>2. B_q_gen[q] - B_b[b] <= B_q_gen[q] /\ B_q_gen[q] - B_b[b] \in Int
        BY <1>2, <2>1
      <3>3. CASE WithinLimit(B_q_gen[q])
        <4>1. WithinLimit(B_q_gen[q] - B_b[b])
          BY <2>1, <3>2, <3>3, LimitMonotone
        <4> QED BY <2>3, <3>1, <4>1
      <3>4. CASE B_q_gen[q] <= first[q]
        BY <1>2, <2>1, <3>1, <3>4
      <3> QED BY <2>2, <3>3, <3>4
    <2>6. CASE q # src /\ q # dst
      <3>1. B_q_gen'[q] = B_q_gen[q]
        BY <1>1, <2>6 DEF Move, Shifted, Inductive
      <3> QED BY <2>2, <2>3, <3>1
    <2> QED BY <2>4, <2>5, <2>6
  <1>9. Cardinality(Changed') <= moves'
    BY <1>1, OneMoreChanged DEF Move
  <1> QED BY <1>3, <1>4, <1>5, <1>6, <1>7, <1>8, <1>9 DEF Inductive

(* What changes neither the tables nor the loads nor the hotness.          *)
LEMMA OtherInductive ==
    ASSUME Inductive, hot' \subseteq Hot(H), cold' \subseteq Cold(H),
           UNCHANGED <<current_table, B_b, new_table, B_q_gen, first, total,
                       H, moves>>
    PROVE  Inductive'
  <1>1. NeverOverfilled' /\ Changed' = Changed
    BY DEF Inductive, NeverOverfilled, WithinLimit, Changed
  <1>2. Hot(H)' = Hot(H) /\ Cold(H)' = Cold(H)
    BY DEF Hot, Cold
  <1> QED BY <1>1, <1>2 DEF Inductive

(* Every step.                                                             *)
LEMMA StepInductive == Inductive /\ [Next]_vars => Inductive'
  <1> SUFFICES ASSUME Inductive, [Next]_vars PROVE Inductive'
    OBVIOUS
  <1>1. CASE Iterate
    <2>1. PICK src \in Hottest, dst \in Coldest :
              \/ SkipEmpty(src)
              \/ NoFit(src, dst)
              \/ \E b \in Heaviest(Fitting(src, dst)) : Move(b, src, dst)
      BY <1>1 DEF Iterate
    <2>2. CASE SkipEmpty(src)
      BY <2>2, OtherInductive DEF SkipEmpty, Inductive
    <2>3. CASE NoFit(src, dst)
      BY <2>3, OtherInductive DEF NoFit, ColdWithout, Inductive
    <2>4. CASE \E b \in Heaviest(Fitting(src, dst)) : Move(b, src, dst)
      BY <1>1, <2>4, MoveInductive DEF Iterate
    <2> QED BY <2>1, <2>2, <2>3, <2>4
  <1>2. CASE Return
    BY <1>2, OtherInductive DEF Return, Inductive
  <1>3. CASE UNCHANGED vars
    BY <1>3, OtherInductive DEF vars, Inductive
  <1> QED BY <1>1, <1>2, <1>3 DEF Next, Done

(* The loads of the table that is built, before and after a move: the      *)
(* source's sum loses the bucket, the destination's gains it.              *)
LEMMA MoveTracked ==
    ASSUME Inductive, LoadsTracked, NEW src \in Queues, NEW dst \in Queues, src # dst,
           NEW b \in Buckets, new_table[b] = src, Move(b, src, dst)
    PROVE  LoadsTracked'
  <1> DEFINE Of(q) == BucketsOf(new_table, q)
  <1>1. /\ B_b' = B_b /\ B_q_gen' = Shifted(b, src, dst)
        /\ new_table' = [new_table EXCEPT ![b] = dst]
    BY DEF Move
  <1>2. /\ new_table \in [Buckets -> Queues] /\ B_b \in [Buckets -> Nat]
        /\ B_q_gen \in [Queues -> Int]
    BY DEF Inductive
  <1>3. \A q \in Queues : B_q_gen[q] = SumFunctionOnSet(B_b, Of(q))
    BY DEF LoadsTracked, Folded
  <1>4. \A S \in SUBSET Buckets : IsFiniteSet(S) /\ (\A c \in S : B_b[c] \in Int)
    BY <1>2, GreedySchedulerAssumption, FS_Subset
  <1>5. \A q \in Queues : Of(q) \in SUBSET Buckets
    BY DEF BucketsOf
  <1>6. b \in Of(src) /\ b \notin Of(dst)
    BY DEF BucketsOf
  <1>7. BucketsOf(new_table', src) = Of(src) \ {b}
    BY <1>1, <1>2 DEF BucketsOf
  <1>8. BucketsOf(new_table', dst) = Of(dst) \cup {b}
    BY <1>1, <1>2 DEF BucketsOf
  <1>9. \A q \in Queues \ {src, dst} : BucketsOf(new_table', q) = Of(q)
    BY <1>1, <1>2 DEF BucketsOf
  <1> HIDE DEF Of
  <1>10. SumFunctionOnSet(B_b, Of(src) \ {b}) = B_q_gen[src] - B_b[b]
    <2>1. SumFunctionOnSet(B_b, Of(src)) = B_b[b] + SumFunctionOnSet(B_b, Of(src) \ {b})
      <3>1. IsFiniteSet(Of(src)) /\ \A c \in Of(src) : B_b[c] \in Int
        BY <1>4, <1>5
      <3> QED
        BY <1>6, <3>1, SumRemove
    <2>2. SumFunctionOnSet(B_b, Of(src) \ {b}) \in Int
      BY <1>4, <1>5, SumInteger
    <2> QED
      BY <1>2, <1>3, <2>1, <2>2
  <1>11. SumFunctionOnSet(B_b, Of(dst) \cup {b}) = B_q_gen[dst] + B_b[b]
    <2>1. Of(dst) \cup {b} \in SUBSET Buckets /\ (Of(dst) \cup {b}) \ {b} = Of(dst)
      BY <1>5, <1>6
    <2>2. SumFunctionOnSet(B_b, Of(dst) \cup {b}) = B_b[b] + SumFunctionOnSet(B_b, Of(dst))
      <3> DEFINE S == Of(dst) \cup {b}
      <3>1. IsFiniteSet(S) /\ (\A c \in S : B_b[c] \in Int) /\ b \in S
        BY <1>4, <2>1
      <3>2. S \ {b} = Of(dst)
        BY <2>1
      <3> HIDE DEF S
      <3>3. SumFunctionOnSet(B_b, S) = B_b[b] + SumFunctionOnSet(B_b, S \ {b})
        BY <3>1, SumRemove
      <3> QED
        BY <3>2, <3>3 DEF S
    <2> QED
      BY <1>2, <1>3, <2>2
  <1>12. B_q_gen' = [B_q_gen EXCEPT ![src] = @ - B_b[b], ![dst] = @ + B_b[b]]
    BY <1>1 DEF Shifted
  <1>13. /\ B_q_gen' \in [Queues -> Int] /\ B_q_gen'[src] = B_q_gen[src] - B_b[b]
         /\ B_q_gen'[dst] = B_q_gen[dst] + B_b[b]
         /\ \A q \in Queues \ {src, dst} : B_q_gen'[q] = B_q_gen[q]
    BY <1>2, <1>12
  <1>14. \A q \in Queues : B_q_gen'[q] = SumFunctionOnSet(B_b', BucketsOf(new_table', q))
    BY <1>1, <1>3, <1>7, <1>8, <1>9, <1>10, <1>11, <1>13
  <1>15. Folded(new_table)' = [q \in Queues |-> SumFunctionOnSet(B_b', BucketsOf(new_table', q))]
    BY DEF Folded, BucketsOf
  <1> QED
    BY <1>13, <1>14, <1>15 DEF LoadsTracked

LEMMA StepTracked == Inductive /\ LoadsTracked /\ [Next]_vars => LoadsTracked'
  <1> SUFFICES ASSUME Inductive, LoadsTracked, [Next]_vars PROVE LoadsTracked'
    OBVIOUS
  <1>1. ASSUME UNCHANGED <<B_b, new_table, B_q_gen>> PROVE LoadsTracked'
    BY <1>1 DEF LoadsTracked, Folded, BucketsOf
  <1>2. CASE Iterate
    <2>1. PICK src \in Hottest, dst \in Coldest :
              \/ SkipEmpty(src)
              \/ NoFit(src, dst)
              \/ \E b \in Heaviest(Fitting(src, dst)) : Move(b, src, dst)
      BY <1>2 DEF Iterate
    <2>2. CASE SkipEmpty(src) \/ NoFit(src, dst)
      BY <1>1, <2>2 DEF SkipEmpty, NoFit
    <2>3. ASSUME NEW b \in Heaviest(Fitting(src, dst)), Move(b, src, dst)
          PROVE  LoadsTracked'
      <3>1. H[src] > TauHot /\ H[dst] < TauCold /\ src \in Queues /\ dst \in Queues
        BY DEF Hottest, Coldest, Hot, Cold, Inductive
      <3>2. src # dst
        BY <3>1, GreedySchedulerAssumption DEF Inductive
      <3>3. b \in Buckets /\ new_table[b] = src
        BY DEF Heaviest, Fitting, BucketsOf
      <3> QED
        BY <2>3, <3>1, <3>2, <3>3, MoveTracked
    <2> QED
      BY <2>1, <2>2, <2>3
  <1> QED
    BY <1>1, <1>2 DEF Next, Return, Done, vars

(* Both, for the greedy loop alone.                                        *)
THEOREM InductiveAlways == Spec => []Inductive
  BY InitInductive, StepInductive, PTL DEF Spec

(* No queue is filled past the limit of Algorithm 2.                       *)
THEOREM NeverFilledPastLimit == Spec => []NeverOverfilled
  <1>1. Inductive => NeverOverfilled
    BY DEF Inductive
  <1> QED BY <1>1, InductiveAlways, PTL

(* The table that is returned differs in at most max_moves_per_epoch       *)
(* buckets from the one that was given.                                    *)
THEOREM ChangesAlwaysBounded == Spec => []ChangesBounded
  <1>1. Inductive => ChangesBounded
    <2> SUFFICES ASSUME Inductive PROVE ChangesBounded
      OBVIOUS
    <2>1. IsFiniteSet(Changed)
      BY GreedySchedulerAssumption, FS_Subset DEF Changed
    <2>2. Cardinality(Changed) \in Nat
      BY <2>1, FS_CardinalityType
    <2> QED BY <2>2, GreedySchedulerAssumption DEF Inductive, ChangesBounded
  <1> QED BY <1>1, InductiveAlways, PTL

-----------------------------------------------------------------------------
(* The one-shot pass.  A queue that has not received a bucket has none it  *)
(* did not have, and one that has not been visited has lost none; a bucket *)
(* that is received and moved on had left its first queue before.          *)
Arrived(b, q) == new_table[b] = q /\ current_table[b] # q
Departed(b, q) == current_table[b] = q /\ new_table[b] # q

Pass ==
    /\ used \subseteq Queues /\ todo \subseteq Queues
    /\ \A b \in Buckets, q \in Queues : Arrived(b, q) => q \in used
    /\ \A b \in Buckets, q \in Queues : Departed(b, q) => q \notin todo
    /\ \A b, c \in Buckets, q \in Queues : Arrived(b, q) /\ Arrived(c, q) => b = c
    /\ \A b, c \in Buckets, q \in Queues : Departed(b, q) /\ Departed(c, q) => b = c

AnyInductive ==
    /\ Inductive
    /\ policy = "oneshot" => Pass
    /\ GreedyTracksLoads

LEMMA InitAnyInductive == InitAny => AnyInductive
  <1> SUFFICES ASSUME InitAny PROVE AnyInductive
    OBVIOUS
  <1>1. Inductive
    BY InitInductive DEF InitAny
  <1>2. todo = Hot(H) /\ used = {} /\ new_table = current_table
    BY DEF InitAny, Init
  <1>3. Pass
    BY <1>2 DEF Pass, Arrived, Departed, Hot
  <1>4. LoadsTracked
    BY DEF InitAny, Init, LoadsTracked, Folded
  <1> QED
    BY <1>1, <1>3, <1>4 DEF AnyInductive, GreedyTracksLoads

(* A visit takes a bucket from a queue not visited before to one that has  *)
(* received none.                                                          *)
LEMMA PassMove ==
    ASSUME Inductive, Pass, NEW src \in todo, NEW dst \in Queues \ ({src} \cup used),
           NEW b \in Buckets, new_table[b] = src,
           new_table' = [new_table EXCEPT ![b] = dst],
           used' = used \cup {dst}, todo' = todo \ {src}, current_table' = current_table
    PROVE  Pass'
  <1>1. new_table \in [Buckets -> Queues] /\ src \in Queues
    BY DEF Inductive, Pass
  <1>2. \A c \in Buckets, q \in Queues :
           Arrived(c, q)' => (c = b /\ q = dst) \/ (c # b /\ Arrived(c, q))
    BY <1>1 DEF Arrived
  <1>3. \A c \in Buckets : ~Arrived(c, dst)
    BY DEF Pass
  <1>4. \A c \in Buckets, q \in Queues :
           Departed(c, q)' => (c = b /\ q = src) \/ Departed(c, q)
    BY <1>1 DEF Departed
  <1>5. \A c \in Buckets : ~Departed(c, src)
    BY DEF Pass
  <1>6. used' \subseteq Queues /\ todo' \subseteq Queues
    BY DEF Pass
  <1>7. \A c \in Buckets, q \in Queues : Arrived(c, q)' => q \in used'
    BY <1>2 DEF Pass
  <1>8. \A c \in Buckets, q \in Queues : Departed(c, q)' => q \notin todo'
    BY <1>4 DEF Pass
  <1>9. ASSUME NEW c \in Buckets, NEW d \in Buckets, NEW q \in Queues,
               Arrived(c, q)', Arrived(d, q)'
        PROVE  c = d
    BY <1>2, <1>3, <1>9 DEF Pass
  <1>10. ASSUME NEW c \in Buckets, NEW d \in Buckets, NEW q \in Queues,
                Departed(c, q)', Departed(d, q)'
         PROVE  c = d
    BY <1>4, <1>5, <1>10 DEF Pass
  <1> QED
    BY <1>6, <1>7, <1>8, <1>9, <1>10 DEF Pass

LEMMA OneshotInductive ==
    ASSUME AnyInductive, OneshotStep
    PROVE  AnyInductive'
  <1>1. /\ policy = "oneshot" /\ policy' = policy /\ O!Next
        /\ UNCHANGED <<B_q_gen, first, total, hot, cold>>
    BY DEF OneshotStep, greedyVars
  <1>2. Inductive /\ Pass
    BY <1>1 DEF AnyInductive
  <1>3. hot \subseteq Hot(H) /\ cold \subseteq Cold(H)
    BY <1>2 DEF Inductive
  <1>4. ASSUME UNCHANGED <<current_table, B_b, H, new_table, used, moves>>,
               todo' \subseteq todo
        PROVE  AnyInductive'
    <2>1. Inductive'
      BY <1>1, <1>2, <1>3, <1>4, OtherInductive
    <2>2. Pass'
      BY <1>2, <1>4 DEF Pass, Arrived, Departed
    <2> QED
      BY <1>1, <2>1, <2>2 DEF AnyInductive, GreedyTracksLoads
  <1>5. ASSUME NEW src \in O!Hottest, O!SkipEmpty(src)
        PROVE  AnyInductive'
    BY <1>4, <1>5 DEF O!SkipEmpty
  <1>6. ASSUME NEW src \in O!Hottest, NEW b \in O!Heaviest(O!BucketsOf(src)),
               NEW dst \in O!Coolest(src), O!Move(b, src, dst)
        PROVE  AnyInductive'
    <2>1. /\ src \in todo /\ dst \in Queues \ ({src} \cup used)
          /\ b \in Buckets /\ new_table[b] = src
      BY DEF O!Hottest, O!Coolest, O!Free, O!Heaviest, O!BucketsOf
    <2>2. /\ new_table' = [new_table EXCEPT ![b] = dst] /\ moves' = moves + 1
          /\ used' = used \cup {dst} /\ todo' = todo \ {src}
          /\ UNCHANGED <<current_table, B_b, H>> /\ ~(moves >= MaxMoves)
      BY <1>6 DEF O!Move, O!CapReached
    <2>3. Pass'
      BY <1>2, <2>1, <2>2, PassMove
    <2>4. Cardinality(Changed') <= moves'
      BY <1>2, <2>1, <2>2, OneMoreChanged
    <2>5. moves' \in 0..MaxMoves
      BY <1>2, <2>2, GreedySchedulerAssumption DEF Inductive
    <2>6. new_table' \in [Buckets -> Queues]
      BY <1>2, <2>1, <2>2 DEF Inductive
    <2>7. NeverOverfilled'
      BY <1>1, <1>2 DEF Inductive, NeverOverfilled, WithinLimit
    <2>8. hot' \subseteq Hot(H)' /\ cold' \subseteq Cold(H)'
      BY <1>1, <1>3, <2>2 DEF Hot, Cold
    <2>9. Inductive'
      BY <1>1, <1>2, <2>2, <2>4, <2>5, <2>6, <2>7, <2>8 DEF Inductive
    <2> QED
      BY <1>1, <2>3, <2>9 DEF AnyInductive, GreedyTracksLoads
  <1>7. CASE O!Return
    BY <1>4, <1>7 DEF O!Return
  <1>8. CASE O!Done
    BY <1>4, <1>8 DEF O!Done, O!vars
  <1> QED
    BY <1>1, <1>5, <1>6, <1>7, <1>8 DEF O!Next, O!Visit

LEMMA NextAnyInductive == AnyInductive /\ [NextAny]_allVars => AnyInductive'
  <1> SUFFICES ASSUME AnyInductive, [NextAny]_allVars PROVE AnyInductive'
    OBVIOUS
  <1>1. Inductive
    BY DEF AnyInductive
  <1>2. CASE GreedyStep
    BY <1>1, <1>2, StepInductive, StepTracked DEF GreedyStep, AnyInductive, GreedyTracksLoads
  <1>3. CASE StaticStep
    <2>1. Inductive'
      BY <1>1, <1>3, OtherInductive DEF StaticStep, greedyVars, Inductive
    <2> QED
      BY <1>3, <2>1 DEF StaticStep, AnyInductive, GreedyTracksLoads
  <1>4. CASE UNCHANGED allVars
    <2>1. Inductive'
      BY <1>1, <1>4, OtherInductive DEF allVars, vars, Inductive
    <2> QED
      BY <1>4, <2>1 DEF allVars, vars, oneshotVars, AnyInductive, Pass, Arrived, Departed,
                        GreedyTracksLoads, LoadsTracked, Folded, BucketsOf
  <1> QED
    BY <1>2, <1>3, <1>4, OneshotInductive DEF NextAny, Returned

(* The strengthened invariant holds with every policy.                     *)
THEOREM AnyInductiveAlways == SpecAny => []AnyInductive
  BY InitAnyInductive, NextAnyInductive, PTL DEF SpecAny

(* With whatever name a scheduler is made, no queue is overfilled.         *)
THEOREM NoneOverfilled == SpecAny => []NeverOverfilled
  <1>1. AnyInductive => NeverOverfilled
    BY DEF AnyInductive, Inductive
  <1> QED BY <1>1, AnyInductiveAlways, PTL

(* What a scheduler reports as moved covers what it changed and respects   *)
(* the cap.                                                                *)
THEOREM MovesAlwaysReported == SpecAny => []MovesReported
  <1>1. AnyInductive => MovesReported
    BY DEF AnyInductive, Inductive, MovesReported
  <1> QED BY <1>1, AnyInductiveAlways, PTL

(* The loads the greedy loop reckons with are those of the table it        *)
(* builds, after any number of moves, also of one bucket.                  *)
THEOREM GreedyAlwaysTracksLoads == SpecAny => []GreedyTracksLoads
  <1>1. AnyInductive => GreedyTracksLoads
    BY DEF AnyInductive
  <1> QED BY <1>1, AnyInductiveAlways, PTL

(* The one-shot pass brings a queue at most one bucket and takes at most   *)
(* one from it.                                                            *)
THEOREM OneMoveAlways == SpecAny => []OneMovePerQueue
  <1>1. ASSUME AnyInductive, policy = "oneshot" PROVE O!OneArrival /\ O!OneDeparture
    <2>1. Pass /\ current_table \in [Buckets -> Queues] /\ new_table \in [Buckets -> Queues]
      BY <1>1 DEF AnyInductive, Inductive
    <2>2. ASSUME NEW b \in O!Moved, NEW c \in O!Moved, new_table[b] = new_table[c]
          PROVE  b = c
      BY <2>1, <2>2 DEF Pass, Arrived, O!Moved
    <2>3. ASSUME NEW b \in O!Moved, NEW c \in O!Moved, current_table[b] = current_table[c]
          PROVE  b = c
      BY <2>1, <2>3 DEF Pass, Departed, O!Moved
    <2> QED BY <2>2, <2>3 DEF O!OneArrival, O!OneDeparture
  <1>2. AnyInductive => OneMovePerQueue
    BY <1>1 DEF OneMovePerQueue
  <1> QED BY <1>2, AnyInductiveAlways, PTL

=============================================================================
