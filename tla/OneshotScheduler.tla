-------------------------- MODULE OneshotScheduler --------------------------
(***************************************************************************)
(* One step() of OneshotStatelessScheduler                                 *)
(* (src/src/schedulers/stateless_proposed.py): one pass over the hot       *)
(* queues, hottest first; each gives its heaviest bucket to the coolest    *)
(* queue that has not yet received one.  Hotness is an integer; ties are   *)
(* broken either way.                                                      *)
(***************************************************************************)
EXTENDS Integers

CONSTANTS
    Buckets, Queues,
    Weights,    \* bytes a bucket may have generated in the epoch
    Top,        \* hotness 1
    TauHot,     \* tau_hot_s
    MaxMoves    \* max_moves_per_epoch

VARIABLES
    current_table,   \* the table step() is given
    B_b,             \* bucket |-> its bytes
    H,               \* queue |-> hotness
    new_table,       \* the table step() is building
    todo,            \* hot queues the loop has not visited
    used,            \* queues that have received a bucket
    moves,           \* moves_this_epoch
    phase            \* "loop" or "done"

vars == <<current_table, B_b, H, new_table, todo, used, moves, phase>>

-----------------------------------------------------------------------------
BucketsOf(q) == {b \in Buckets : new_table[b] = q}

Heaviest(S) == {b \in S : \A c \in S : B_b[c] <= B_b[b]}

Init ==
    /\ current_table \in [Buckets -> Queues]
    /\ B_b \in [Buckets -> Weights]
    /\ H \in [Queues -> 0..Top]
    /\ new_table = current_table
    /\ todo = {q \in Queues : H[q] > TauHot}
    /\ used = {}
    /\ moves = 0
    /\ phase = "loop"

Hottest == {q \in todo : \A r \in todo : H[r] <= H[q]}

(* The queues that may still receive a bucket of src, and the coolest of   *)
(* them.  Mutant: a queue may receive several.                             *)
Free_Any(src) == Queues \ {src}

Free(src) == Queues \ ({src} \cup used)

Coolest(src) == {q \in Free(src) : \A r \in Free(src) : H[q] <= H[r]}

CapReached == moves >= MaxMoves

SkipEmpty(src) ==
    /\ ~CapReached /\ BucketsOf(src) = {}
    /\ todo' = todo \ {src}
    /\ UNCHANGED <<current_table, B_b, H, new_table, used, moves, phase>>

Move(b, src, dst) ==
    /\ ~CapReached
    /\ new_table' = [new_table EXCEPT ![b] = dst]
    /\ used' = used \cup {dst}
    /\ moves' = moves + 1
    /\ todo' = todo \ {src}
    /\ UNCHANGED <<current_table, B_b, H, phase>>

Visit(src) ==
    /\ phase = "loop"
    /\ \/ SkipEmpty(src)
       \/ \E b \in Heaviest(BucketsOf(src)), dst \in Coolest(src) : Move(b, src, dst)

(* The pass ends, or is broken off at the cap or when every other queue    *)
(* has received a bucket.                                                  *)
Return ==
    /\ phase = "loop"
    /\ \/ todo = {}
       \/ CapReached
       \/ \E src \in Hottest : BucketsOf(src) # {} /\ Free(src) = {}
    /\ phase' = "done"
    /\ UNCHANGED <<current_table, B_b, H, new_table, todo, used, moves>>

Done == phase = "done" /\ UNCHANGED vars

Next == (\E src \in Hottest : Visit(src)) \/ Return \/ Done

Spec == Init /\ [][Next]_vars

-----------------------------------------------------------------------------
Moved == {b \in Buckets : new_table[b] # current_table[b]}

(* Whatever is moved on after it was received, a step brings each queue at *)
(* most one bucket that it did not have.                                   *)
OneArrival == \A b, c \in Moved : new_table[b] = new_table[c] => b = c

(* And it takes at most one of the buckets that a queue had.               *)
OneDeparture == \A b, c \in Moved : current_table[b] = current_table[c] => b = c

=============================================================================
