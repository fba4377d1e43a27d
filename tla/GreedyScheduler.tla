-------------------------- MODULE GreedyScheduler --------------------------
(***************************************************************************)
(* One step() of GreedyStatelessScheduler                                  *)
(* (src/src/schedulers/stateless_proposed.py): the loop that moves buckets *)
(* from hot queues to cold ones until no queue is hot, none is cold or the *)
(* cap on moves is reached.                                                *)
(*                                                                         *)
(* Hotness is an integer in 0..Top for a number in [0, 1], bytes are       *)
(* integers and the fit tolerance is a percentage.  The code lowers the    *)
(* source's hotness and raises the destination's by an amount computed     *)
(* from the moved bytes; here they fall and rise by any amount.  Ties      *)
(* between queues and between buckets are broken either way.               *)
(***************************************************************************)
EXTENDS Integers, FiniteSets, Functions

CONSTANTS
    Buckets, Queues,
    Weights,        \* bytes a bucket may have generated in the epoch
    Top,            \* hotness 1
    TauHot,         \* tau_hot_s
    TauCold,        \* tau_cold_s
    Tolerance,      \* fit_condition_tolerance, in percent
    MaxMoves        \* max_moves_per_epoch

(* The configurations in use have tau_cold_s below tau_hot_s; the code     *)
(* does not check it.                                                      *)
ASSUME GreedySchedulerAssumption ==
    /\ IsFiniteSet(Buckets) /\ IsFiniteSet(Queues)
    /\ Weights \subseteq Nat
    /\ Top \in Nat /\ TauHot \in Int /\ TauCold \in Int /\ TauCold <= TauHot
    /\ Tolerance \in Nat
    /\ MaxMoves \in Nat

VARIABLES
    current_table,   \* the table step() is given
    B_b,             \* bucket |-> its bytes
    new_table,       \* the table step() is building
    B_q_gen,         \* queue |-> the bytes it would have had with new_table
    first,           \* B_q_gen as measured; not in the code
    total,           \* |Queues| * avg_B, from B_q_gen as measured
    H,               \* queue |-> hotness
    hot, cold,
    moves,           \* moves_this_epoch
    phase            \* "loop" or "done"

vars == <<current_table, B_b, new_table, B_q_gen, first, total, H, hot, cold,
          moves, phase>>

-----------------------------------------------------------------------------
BucketsOf(table, q) == {b \in Buckets : table[b] = q}

Folded(table) ==
    [q \in Queues |-> SumFunctionOnSet(B_b, BucketsOf(table, q))]

SumOf(loads) == SumFunctionOnSet(loads, Queues)

Hot(h) == {q \in Queues : h[q] > TauHot}
Cold(h) == {q \in Queues : h[q] < TauCold}

(* bytes <= avg_B + fit_slack.                                             *)
WithinLimit(bytes) ==
    100 * (Cardinality(Queues) * bytes)
        <= 100 * total + Tolerance * (total + Cardinality(Queues))

(* Mutant: the load before the move is compared.                           *)
FitsIn_Before(b, dst) == WithinLimit(B_q_gen[dst])

FitsIn(b, dst) == WithinLimit(B_q_gen[dst] + B_b[b])

(* Mutant: the source keeps the bytes.                                     *)
Shifted_SourceKeeps(b, src, dst) == [B_q_gen EXCEPT ![dst] = @ + B_b[b]]

Shifted(b, src, dst) ==
    [B_q_gen EXCEPT ![src] = @ - B_b[b], ![dst] = @ + B_b[b]]

-----------------------------------------------------------------------------
(* B_q_gen is what telemetry has folded by the table of the epoch.         *)
Init ==
    /\ current_table \in [Buckets -> Queues]
    /\ B_b \in [Buckets -> Weights]
    /\ new_table = current_table
    /\ B_q_gen = Folded(current_table)
    /\ first = B_q_gen
    /\ total = SumOf(B_q_gen)
    /\ H \in [Queues -> 0..Top]
    /\ hot = Hot(H) /\ cold = Cold(H)
    /\ moves = 0
    /\ phase = "loop"

(* Mutant: one move more than the cap.                                     *)
Running_OneMore == hot # {} /\ cold # {} /\ moves <= MaxMoves

Running == hot # {} /\ cold # {} /\ moves < MaxMoves

Hottest == {q \in hot : \A r \in hot : H[r] <= H[q]}
Coldest == {q \in cold : \A r \in cold : H[q] <= H[r]}

(* The heaviest buckets of src that fit into dst.                          *)
Fitting(src, dst) == {b \in BucketsOf(new_table, src) : FitsIn(b, dst)}

Heaviest(S) == {b \in S : \A c \in S : B_b[c] <= B_b[b]}

(* The hottest queue has no bucket: it is no longer considered hot.        *)
SkipEmpty(src) ==
    /\ BucketsOf(new_table, src) = {}
    /\ hot' = hot \ {src}
    /\ UNCHANGED <<current_table, B_b, new_table, B_q_gen, first, total, H,
                   cold, moves, phase>>

Move(b, src, dst) ==
    /\ new_table' = [new_table EXCEPT ![b] = dst]
    /\ B_q_gen' = Shifted(b, src, dst)
    /\ moves' = moves + 1
    /\ \E less \in 0..H[src], more \in H[dst]..Top :
          H' = [H EXCEPT ![src] = less, ![dst] = more]
    /\ hot' = Hot(H') /\ cold' = Cold(H')
    /\ UNCHANGED <<current_table, B_b, first, total, phase>>

(* No bucket of the hottest queue fits: the coldest is no longer           *)
(* considered, and the hot queues are determined anew.  Mutant: the        *)
(* coldest is still considered.                                            *)
ColdWithout_Kept(dst) == cold

ColdWithout(dst) == cold \ {dst}

NoFit(src, dst) ==
    /\ BucketsOf(new_table, src) # {} /\ Fitting(src, dst) = {}
    /\ cold' = ColdWithout(dst)
    /\ hot' = Hot(H)
    /\ UNCHANGED <<current_table, B_b, new_table, B_q_gen, first, total, H,
                   moves, phase>>

Iterate ==
    /\ phase = "loop" /\ Running
    /\ \E src \in Hottest, dst \in Coldest :
          \/ SkipEmpty(src)
          \/ NoFit(src, dst)
          \/ \E b \in Heaviest(Fitting(src, dst)) : Move(b, src, dst)

Return ==
    /\ phase = "loop" /\ ~Running
    /\ phase' = "done"
    /\ UNCHANGED <<current_table, B_b, new_table, B_q_gen, first, total, H,
                   hot, cold, moves>>

Done == phase = "done" /\ UNCHANGED vars

Next == Iterate \/ Return \/ Done

(* step() is called by the one thread of the simulator, which does not     *)
(* stop between two iterations.                                            *)
Spec == Init /\ [][Next]_vars /\ WF_vars(Next)

-----------------------------------------------------------------------------
(* The loads the loop reckons with are those of the table it builds: over  *)
(* several moves, also of one bucket, the running sums and the table agree.*)
LoadsTracked == B_q_gen = Folded(new_table)

(* No queue is filled past the limit: a queue that is above it had at      *)
(* least as many bytes before step() was called.  Only the greedy loop     *)
(* tests the limit, and B_q_gen changes in it alone.                       *)
NeverOverfilled ==
    \A q \in Queues : WithinLimit(B_q_gen[q]) \/ B_q_gen[q] <= first[q]

(* The table step() returns differs from the one it was given in at most   *)
(* MaxMoves buckets.                                                       *)
Changed == {b \in Buckets : new_table[b] # current_table[b]}

ChangesBounded == Cardinality(Changed) <= MaxMoves

(* What an iteration preserves: NeverOverfilled needs the two queues of a  *)
(* move to differ, ChangesBounded that the moves are counted.              *)
Inductive ==
    /\ current_table \in [Buckets -> Queues] /\ new_table \in [Buckets -> Queues]
    /\ B_b \in [Buckets -> Nat]
    /\ B_q_gen \in [Queues -> Int] /\ first \in [Queues -> Nat] /\ total \in Nat
    /\ H \in [Queues -> 0..Top]
    /\ hot \subseteq Hot(H) /\ cold \subseteq Cold(H)
    /\ moves \in 0..MaxMoves
    /\ NeverOverfilled
    /\ Cardinality(Changed) <= moves

(* The loop ends, although an iteration may move nothing and queues that   *)
(* it had given up come back when the hot queues are determined anew.      *)
Terminates == <>(phase = "done")

=============================================================================
