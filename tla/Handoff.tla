------------------------------ MODULE Handoff ------------------------------
(***************************************************************************)
(* The stateful domain's migration protocol: HandoffManager                *)
(* (src/src/handoff.py), the ReactiveStatefulScheduler that drives it      *)
(* (src/src/schedulers/stateful_proposed.py), the stateful RSS indirection *)
(* table, and the two places where the simulator calls them                *)
(* (src/src/sim.py): the per-bin redirection of the traffic of buckets in  *)
(* transition and the stateful epoch boundary.                             *)
(*                                                                         *)
(* Time is an integer number of nanoseconds.  Pressures are small          *)
(* integers.  The gain of a move is a function of measured bytes and       *)
(* pressures which no property here tells apart, so whether a candidate    *)
(* move clears epsilon_t, which destination has the best gain, and in      *)
(* which order the candidates are visited are left open.                   *)
(***************************************************************************)
EXTENDS Integers, FiniteSets

CONSTANTS
    Buckets,         \* the stateful RSS buckets
    Queues,          \* the stateful queues
    InitTables,      \* the tables the RSS init policies can build
    MaxConcurrent,   \* max_concurrent_handoffs
    BufferCapacity,  \* handoff_buffer_bytes
    EpochNs,         \* stateful_epoch_ns
    Latencies,       \* total latencies _sample_latency may return, in ns
    Loads,           \* [bytes, pkts] that one bucket may generate in one bin
    Pressures,       \* values of P_q
    TauHot, TauCold, \* tau_hot_t, tau_cold_t
    EpochBins,       \* stateful_epoch_bins
    NumEpochs        \* num_epochs of the stateful domain

ASSUME HandoffAssumption ==
    /\ IsFiniteSet(Buckets) /\ IsFiniteSet(Queues)
    /\ InitTables \subseteq [Buckets -> Queues]
    /\ MaxConcurrent \in Nat
    /\ BufferCapacity \in Nat
    /\ EpochNs \in Nat \ {0}
    /\ Latencies \subseteq Nat \ {0}
    /\ Loads \subseteq [bytes : Nat, pkts : Nat]
    /\ Pressures \subseteq Int /\ TauHot \in Int /\ TauCold \in Int
    /\ EpochBins \in Nat \ {0} /\ NumEpochs \in Nat

VARIABLES
    table,      \* sf.rss.table
    pending,    \* HandoffManager.pending: bucket |-> handoff in progress
    H_pend,     \* queue |-> is a handoff in progress involving it
    finished,   \* scheduler._finished: bucket |-> handoff done at the last tick
    newTable,   \* new_table of step(); the same object as table outside of it
    hot, cold,  \* the queue sets of step(); {} outside of it
    issued,     \* issued_this_epoch
    phase,      \* where the simulator is in the stateful epoch
    bin,        \* sf.bin_in_epoch
    epoch       \* sf_epoch

vars == <<table, pending, H_pend, finished, newTable, hot, cold, issued,
          phase, bin, epoch>>

-----------------------------------------------------------------------------
(* A handoff.  "got" is not in the code: it remembers what was redirected  *)
(* to this handoff, so that the accounting of the buffer can be stated.    *)
Traffic == [bytes : Nat, pkts : Nat]
NoTraffic == [bytes |-> 0, pkts |-> 0]

HandoffRecord == [src : Queues, dst : Queues, start : Nat, latency : Nat \ {0},
                  remaining : Int, buffered : Traffic, overflow : Traffic,
                  got : Traffic]

NewHandoff(src, dst, e, latency) ==
    [src |-> src, dst |-> dst, start |-> e, latency |-> latency,
     remaining |-> latency, buffered |-> NoTraffic, overflow |-> NoTraffic,
     got |-> NoTraffic]

PlusTraffic(x, y) == [bytes |-> x.bytes + y.bytes, pkts |-> x.pkts + y.pkts]
MinusTraffic(x, y) == [bytes |-> x.bytes - y.bytes, pkts |-> x.pkts - y.pkts]

(* Mutant: a load is cut only once the buffer is full.                     *)
Fitting_Whole(h, load) ==
    IF h.buffered.bytes < BufferCapacity THEN load ELSE NoTraffic

(* What of a load still fits in the buffer.  A load too large for the room *)
(* is cut at the byte; its packets are cut in proportion, rounded down.    *)
Fitting(h, load) ==
    LET room == BufferCapacity - h.buffered.bytes
    IN  IF load.bytes <= room
        THEN load
        ELSE LET added == IF room > 0 THEN room ELSE 0
             IN  [bytes |-> added, pkts |-> (load.pkts * added) \div load.bytes]

(* Mutant: all packets of a load that is cut are counted as buffered.      *)
absorb_AllPackets(h, load) ==
    LET fit == [Fitting(h, load) EXCEPT !.pkts = load.pkts]
    IN  [h EXCEPT !.buffered = PlusTraffic(h.buffered, fit),
                  !.overflow = PlusTraffic(h.overflow, MinusTraffic(load, fit)),
                  !.got = PlusTraffic(h.got, load)]

absorb_bucket_traffic(h, load) ==
    LET fit == Fitting(h, load)
    IN  [h EXCEPT !.buffered = PlusTraffic(h.buffered, fit),
                  !.overflow = PlusTraffic(h.overflow, MinusTraffic(load, fit)),
                  !.got = PlusTraffic(h.got, load)]

Involved(h) == {h.src, h.dst}

(* R_q is set to 1 for every queue and never written again, so the code's  *)
(* test of R_q[q_dst] always succeeds.                                     *)
can_issue(src, dst) ==
    /\ Cardinality(DOMAIN pending) < MaxConcurrent
    /\ ~H_pend[src]
    /\ ~H_pend[dst]

-----------------------------------------------------------------------------
Init ==
    /\ table \in InitTables
    /\ pending = [b \in {} |-> b]
    /\ H_pend = [q \in Queues |-> FALSE]
    /\ finished = [b \in {} |-> b]
    /\ newTable = table
    /\ hot = {} /\ cold = {}
    /\ issued = 0
    /\ phase = "bins" /\ bin = 0 /\ epoch = 0

(* One bin: the traffic of every bucket in transition is withheld from its *)
(* queue and absorbed by the bucket's handoff.                             *)
_apply_handoff_redirection(arrival) ==
    pending' = [b \in DOMAIN pending |->
                   absorb_bucket_traffic(pending[b], arrival[b])]

Bin ==
    /\ phase = "bins" /\ bin < EpochBins /\ epoch < NumEpochs
    /\ \E arrival \in [DOMAIN pending -> Loads] :
          _apply_handoff_redirection(arrival)
    /\ bin' = bin + 1
    /\ UNCHANGED <<table, H_pend, finished, newTable, hot, cold, issued,
                   phase, epoch>>

(* The epoch boundary, first half: advance_time subtracts the epoch from   *)
(* every pending handoff, and drops those that ran out from pending,       *)
(* clearing the flags of both their queues.                                *)
Elapsed(h) == [h EXCEPT !.remaining = h.remaining - EpochNs]

(* Mutant: a handoff that ends exactly at the boundary misses it.          *)
Expired_Strict == {b \in DOMAIN pending : pending[b].remaining - EpochNs < 0}

Expired == {b \in DOMAIN pending : pending[b].remaining - EpochNs <= 0}

(* Mutants: only the source is freed; every queue is freed.                *)
FreedQueues_Source == {pending[b].src : b \in Expired}
FreedQueues_All == Queues

FreedQueues == UNION {Involved(pending[b]) : b \in Expired}

tick_handoffs ==
    /\ phase = "bins" /\ bin >= EpochBins /\ epoch < NumEpochs
    /\ finished' = [b \in Expired |-> Elapsed(pending[b])]
    /\ pending' = [b \in DOMAIN pending \ Expired |-> Elapsed(pending[b])]
    /\ H_pend' = [q \in Queues |-> H_pend[q] /\ q \notin FreedQueues]
    /\ phase' = "step"
    /\ UNCHANGED <<table, newTable, hot, cold, issued, bin, epoch>>

(* step() up to its loop: commit the finished handoffs into a copy of the  *)
(* table and classify the queues by pressure.  Mutant: the commit is done  *)
(* for the handoffs in progress.                                           *)
Committed_Pending == [b \in Buckets |-> IF b \in DOMAIN pending
                                        THEN pending[b].dst ELSE table[b]]

Committed == [b \in Buckets |-> IF b \in DOMAIN finished
                                THEN finished[b].dst ELSE table[b]]

step_begin ==
    /\ phase = "step"
    /\ newTable' = Committed
    /\ \E P \in [Queues -> Pressures] :
          /\ hot' = {q \in Queues : P[q] > TauHot}
          /\ cold' = {q \in Queues : P[q] < TauCold /\ ~H_pend[q]}
    /\ issued' = 0
    /\ phase' = "loop"
    /\ UNCHANGED <<table, pending, H_pend, finished, bin, epoch>>

(* One iteration of step()'s loop that issues a handoff.  An iteration     *)
(* that issues none changes nothing.                                       *)
Candidate(b, dst) ==
    /\ issued < MaxConcurrent
    /\ newTable[b] \in hot
    /\ ~H_pend[newTable[b]]
    /\ dst \in cold
    /\ dst # newTable[b]
    /\ can_issue(newTable[b], dst)

(* Mutant: only the destination's flag is raised.                          *)
RaiseFlags_Destination(src, dst) == [q \in Queues |-> H_pend[q] \/ q = dst]

RaiseFlags(src, dst) == [q \in Queues |-> H_pend[q] \/ q \in {src, dst}]

issue(b, src, dst) ==
    IF b \in DOMAIN pending
    THEN phase' = "raised" /\ UNCHANGED <<pending, H_pend, issued, cold>>
    ELSE /\ \E latency \in Latencies :
               pending' = [c \in DOMAIN pending \cup {b} |->
                              IF c = b THEN NewHandoff(src, dst, epoch, latency)
                                       ELSE pending[c]]
         /\ H_pend' = RaiseFlags(src, dst)
         /\ issued' = issued + 1
         /\ cold' = cold \ {dst}
         /\ UNCHANGED phase

Issue(b, dst) ==
    /\ phase = "loop"
    /\ Candidate(b, dst)
    /\ issue(b, newTable[b], dst)
    /\ UNCHANGED <<table, finished, newTable, hot, bin, epoch>>

(* step() returns, and the rest of the boundary runs: the table is         *)
(* installed, the buffered packets are released (see StatefulDelivery) and *)
(* the next epoch starts.                                                  *)
_on_stateful_epoch_boundary_end ==
    /\ phase = "loop"
    /\ table' = newTable
    /\ hot' = {} /\ cold' = {}
    /\ bin' = 0 /\ epoch' = epoch + 1
    /\ phase' = "bins"
    /\ UNCHANGED <<pending, H_pend, finished, newTable, issued>>

Done ==
    /\ phase = "bins" /\ epoch = NumEpochs
    /\ UNCHANGED vars

Next ==
    \/ Bin
    \/ tick_handoffs
    \/ step_begin
    \/ \E b \in Buckets, dst \in Queues : Issue(b, dst)
    \/ _on_stateful_epoch_boundary_end
    \/ Done

Spec == Init /\ [][Next]_vars

-----------------------------------------------------------------------------
(* Every variable has its type.                                            *)
TypeOK ==
    /\ table \in [Buckets -> Queues]
    /\ DOMAIN pending \subseteq Buckets
    /\ pending \in [DOMAIN pending -> HandoffRecord]
    /\ H_pend \in [Queues -> BOOLEAN]
    /\ DOMAIN finished \subseteq Buckets
    /\ finished \in [DOMAIN finished -> HandoffRecord]
    /\ newTable \in [Buckets -> Queues]
    /\ hot \subseteq Queues /\ cold \subseteq Queues
    /\ issued \in Nat
    /\ phase \in {"bins", "step", "loop", "raised"}
    /\ bin \in 0..EpochBins /\ epoch \in 0..NumEpochs

(* The H_pend flag of a queue is up exactly while a pending handoff        *)
(* involves the queue: issue() and advance_time() keep two representations *)
(* of the same fact, and clearing both flags of a finished handoff never   *)
(* clears a flag that another handoff still needs.                         *)
FlagsExact ==
    \A q \in Queues : H_pend[q] <=> \E b \in DOMAIN pending : q \in Involved(pending[b])

(* Handoffs in progress touch disjoint pairs of queues, so neither the     *)
(* drain nor the release of one meets another's.                           *)
DisjointHandoffs ==
    /\ \A b \in DOMAIN pending : pending[b].src # pending[b].dst
    /\ \A b, c \in DOMAIN pending :
          b # c => Involved(pending[b]) \cap Involved(pending[c]) = {}

(* While a bucket is in transition the table still points at the source    *)
(* its handoff was issued from: no commit, of this or another handoff,     *)
(* moves the bucket under a pending handoff.                               *)
SourceStillOwner ==
    \A b \in DOMAIN pending : newTable[b] = pending[b].src

(* issue() never raises "bucket already in handoff", although the          *)
(* scheduler's loop never looks a bucket up in pending: the flag of the    *)
(* bucket's queue protects it.                                             *)
NeverRaises == phase # "raised"

(* The number of handoffs in progress, over all epochs, is bounded by      *)
(* max_concurrent_handoffs.                                                *)
BoundedConcurrency == Cardinality(DOMAIN pending) <= MaxConcurrent

(* The handoff buffer never exceeds its capacity, and every redirected     *)
(* byte and packet is either buffered or counted as overflow, for every    *)
(* sequence of loads, also when a load is cut at the end of the buffer.    *)
BufferAccounted ==
    \A b \in DOMAIN pending :
        /\ pending[b].buffered.bytes <= BufferCapacity
        /\ PlusTraffic(pending[b].buffered, pending[b].overflow) = pending[b].got

(* A handoff is subtracted exactly one epoch at every boundary after the   *)
(* one that issued it, so that it commits at the first boundary by which   *)
(* its latency has passed, neither one epoch early nor one late.           *)
TicksSeen(h) ==
    IF phase = "bins" THEN epoch - 1 - h.start ELSE epoch - h.start

OnSchedule ==
    /\ \A b \in DOMAIN pending :
          /\ pending[b].remaining > 0
          /\ pending[b].remaining = pending[b].latency - TicksSeen(pending[b]) * EpochNs
    /\ \A b \in DOMAIN finished :
          /\ finished[b].remaining <= 0
          /\ finished[b].remaining + EpochNs > 0

(* Handoffs that finish at the same boundary share no queue, so what they  *)
(* release does not compete for the descriptors of one ring.               *)
SeparateReleases ==
    \A b, c \in DOMAIN finished :
        b # c => Involved(finished[b]) \cap Involved(finished[c]) = {}

(* A handoff whose latency ends by the last boundary is committed: its     *)
(* bucket comes to its destination, whatever the other handoffs do.        *)
EndsInTime(b) ==
    /\ phase = "bins" /\ b \in DOMAIN pending
    /\ pending[b].remaining <= (NumEpochs - epoch) * EpochNs

CommitsInTime ==
    \A b \in Buckets, q \in Queues :
        (EndsInTime(b) /\ pending[b].dst = q) ~> (table[b] = q)

(* The table changes only by committing handoffs that have finished, each  *)
(* from the queue that owned the bucket to the handoff's destination.      *)
CommitOnly ==
    \A b \in Buckets :
        table'[b] # table[b] =>
            /\ b \in DOMAIN finished
            /\ table[b] = finished[b].src
            /\ table'[b] = finished[b].dst

TableChangesOnlyByCommit == [][CommitOnly]_vars

-----------------------------------------------------------------------------
(* What ties the phases of the boundary together: outside of step() there  *)
(* is one table, inside it the new table is the old one with the finished  *)
(* handoffs committed, and every finished handoff still finds its bucket   *)
(* at its source.                                                          *)
Boundary ==
    /\ phase \in {"bins", "step"} => newTable = table
    /\ phase = "step" => DOMAIN finished \cap DOMAIN pending = {}
    /\ phase = "loop" => newTable = Committed
    /\ phase \in {"step", "loop"} =>
          /\ epoch < NumEpochs
          /\ \A b \in DOMAIN finished : table[b] = finished[b].src

(* The conjunction that one step preserves: the invariants above need each *)
(* other.  NeverRaises needs SourceStillOwner and FlagsExact, FlagsExact   *)
(* needs DisjointHandoffs when the flags of a finished handoff are         *)
(* cleared, and SourceStillOwner needs Boundary when the table changes.    *)
Inductive ==
    /\ TypeOK
    /\ FlagsExact
    /\ DisjointHandoffs
    /\ SourceStillOwner
    /\ NeverRaises
    /\ BoundedConcurrency
    /\ BufferAccounted
    /\ OnSchedule
    /\ Boundary

-----------------------------------------------------------------------------
(* The protocol implements Migration.  A move commits when advance_time    *)
(* takes it out of pending; until step() has copied it, its bucket's new   *)
(* owner is only in finished.                                              *)
Owner == IF phase = "step" THEN Committed ELSE newTable

Moves == [b \in DOMAIN pending |->
             [from |-> pending[b].src, to |-> pending[b].dst]]

Abstract == INSTANCE Migration
                WITH owner <- Owner, moves <- Moves, MaxMoves <- MaxConcurrent

(* Every behaviour of the protocol is one of Migration.                    *)
ImplementsMigration == Abstract!Spec

=============================================================================
