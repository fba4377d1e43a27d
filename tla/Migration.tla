----------------------------- MODULE Migration -----------------------------
(***************************************************************************)
(* What the handoff protocol promises to the rest of the stateful domain:  *)
(* every bucket has one owner at any time, a bucket changes owner only by  *)
(* committing a move that was begun for it, the mover sees the owner it    *)
(* began from, and a queue takes part in one move at a time.               *)
(***************************************************************************)
EXTENDS Integers, FiniteSets

CONSTANTS Buckets, Queues, MaxMoves

VARIABLES
    owner,   \* bucket |-> the queue that owns it
    moves    \* bucket in transition |-> [from, to]

Engaged(q) == \E b \in DOMAIN moves : q \in {moves[b].from, moves[b].to}

Init ==
    /\ owner \in [Buckets -> Queues]
    /\ moves = [b \in {} |-> b]

Begin(b, q) ==
    /\ b \notin DOMAIN moves
    /\ Cardinality(DOMAIN moves) < MaxMoves
    /\ q # owner[b]
    /\ ~Engaged(owner[b]) /\ ~Engaged(q)
    /\ moves' = [c \in DOMAIN moves \cup {b} |->
                   IF c = b THEN [from |-> owner[b], to |-> q] ELSE moves[c]]
    /\ UNCHANGED owner

(* Several moves may commit in one step, each from its own source.         *)
Commit(B) ==
    /\ \A b \in B : owner[b] = moves[b].from
    /\ owner' = [b \in Buckets |-> IF b \in B THEN moves[b].to ELSE owner[b]]
    /\ moves' = [b \in DOMAIN moves \ B |-> moves[b]]

Next ==
    \/ \E b \in Buckets, q \in Queues : Begin(b, q)
    \/ \E B \in SUBSET DOMAIN moves : Commit(B)

Spec == Init /\ [][Next]_<<owner, moves>>

=============================================================================
