-------------------------- MODULE StatefulDelivery --------------------------
(***************************************************************************)
(* The packets of the stateful domain on their way to the cores: the       *)
(* migration protocol of Handoff composed with the descriptor rings of the *)
(* destination queues.  A bin's packets are redirected to the buffers of   *)
(* handoffs in progress or delivered one by one to the ring of the queue   *)
(* that the table names; the cores serve the rings; the epoch boundary     *)
(* releases the buffers of finished handoffs into their destinations       *)
(* (src/src/sim.py).                                                       *)
(*                                                                         *)
(* A ring is the untimed one of Ring, which QueuePipeline is checked to    *)
(* implement, so a core may take any time over a packet; a boundary takes  *)
(* no simulated time.  A packet is its bucket and its number in the        *)
(* bucket's arrival order.                                                 *)
(***************************************************************************)
EXTENDS Handoff, Sequences, SequencesExt, FiniteSetsExt

CONSTANT D_q     \* descriptor ring depth

ASSUME StatefulDeliveryAssumption == D_q \in Nat \ {0}

VARIABLES
    ring,       \* queue |-> packets in its descriptor ring, oldest first
    buffer,     \* bucket |-> numbers of the packets its handoff buffers
    todo,       \* bucket |-> packets of this bin still to be delivered
    generated,  \* bucket |-> packets generated so far
    served,     \* bucket |-> packets served so far
    lost        \* bucket |-> packets dropped or overflowed

deliveryVars == <<ring, buffer, todo, generated, served, lost>>
allVars == <<vars, deliveryVars>>

-----------------------------------------------------------------------------
Packet(b, n) == [bucket |-> b, num |-> n]

InitDelivery ==
    /\ Init
    /\ ring = [q \in Queues |-> << >>]
    /\ buffer = [b \in Buckets |-> << >>]
    /\ todo = [b \in Buckets |-> 0]
    /\ generated = [b \in Buckets |-> 0]
    /\ served = [b \in Buckets |-> 0]
    /\ lost = [b \in Buckets |-> 0]

(* Mutant: a handoff is looked up one epoch after it was issued.           *)
affected_buckets_Late == {b \in DOMAIN pending : pending[b].start < epoch - 1}

affected_buckets == DOMAIN pending

Delivered == \A b \in Buckets : todo[b] = 0

(* The next n numbers of a bucket.                                         *)
NextNumbers(b, n) == [i \in 1..n |-> generated[b] + i]

(* The start of a bin: what its handoff's buffer can hold of a bucket in   *)
(* transition is buffered and the rest lost; the other packets go on.      *)
StartBin ==
    /\ phase = "bins" /\ Delivered /\ bin < EpochBins /\ epoch < NumEpochs
    /\ \E arrival \in [Buckets -> Loads] :
          LET fit == [b \in DOMAIN pending |->
                         Fitting(pending[b], arrival[b]).pkts]
          IN  /\ _apply_handoff_redirection(arrival)
              /\ buffer' = [b \in Buckets |->
                    IF b \in affected_buckets
                    THEN buffer[b] \o NextNumbers(b, fit[b]) ELSE buffer[b]]
              /\ lost' = [b \in Buckets |->
                    IF b \in affected_buckets
                    THEN lost[b] + arrival[b].pkts - fit[b] ELSE lost[b]]
              /\ generated' = [b \in Buckets |->
                    IF b \in affected_buckets
                    THEN generated[b] + arrival[b].pkts ELSE generated[b]]
              /\ todo' = [b \in Buckets |->
                    IF b \in affected_buckets THEN 0 ELSE arrival[b].pkts]
    /\ bin' = bin + 1
    /\ UNCHANGED <<table, H_pend, finished, newTable, hot, cold, issued,
                   phase, epoch, ring, served>>

(* One packet of the per-packet loop: dropped for want of a credit or by   *)
(* the PCIe link, or admitted to the ring its bucket's table entry names.  *)
Deliver(b) ==
    /\ todo[b] > 0
    /\ todo' = [todo EXCEPT ![b] = @ - 1]
    /\ generated' = [generated EXCEPT ![b] = @ + 1]
    /\ \/ /\ Len(ring[table[b]]) < D_q
          /\ ring' = [ring EXCEPT ![table[b]] =
                         Append(@, Packet(b, generated[b] + 1))]
          /\ UNCHANGED lost
       \/ /\ lost' = [lost EXCEPT ![b] = @ + 1]
          /\ UNCHANGED ring
    /\ UNCHANGED <<vars, buffer, served>>

(* A core completes the packet at the head of its ring.                    *)
Serve(q) ==
    /\ phase = "bins" /\ ring[q] # << >>
    /\ ring' = [ring EXCEPT ![q] = Tail(@)]
    /\ served' = [served EXCEPT ![Head(ring[q]).bucket] = @ + 1]
    /\ UNCHANGED <<vars, buffer, todo, generated, lost>>

(* The release of the finished handoffs' buffers, each packet by its own   *)
(* try_admit, all at the same time: those that fit, in order; the rest is  *)
(* dropped.                                                                *)
(* Mutants: the first packet is skipped; the last packet buffered is the   *)
(* first released.                                                         *)
Fits(b) ==
    LET room == D_q - Len(ring[finished[b].dst])
    IN  IF Len(buffer[b]) <= room THEN Len(buffer[b]) ELSE room

Released_SkipsFirst(b) == [i \in 1..(Fits(b) - 1) |-> Packet(b, buffer[b][i + 1])]

Released_Backwards(b) ==
    [i \in 1..Fits(b) |-> Packet(b, buffer[b][Fits(b) + 1 - i])]

Released(b) == [i \in 1..Fits(b) |-> Packet(b, buffer[b][i])]

ReleasedTo(q) == {b \in DOMAIN finished : finished[b].dst = q}

release ==
    /\ ring' = [q \in Queues |->
                   IF ReleasedTo(q) = {} THEN ring[q]
                   ELSE ring[q] \o Released(CHOOSE b \in ReleasedTo(q) : TRUE)]
    /\ lost' = [b \in Buckets |->
                   IF b \in DOMAIN finished
                   THEN lost[b] + Len(buffer[b]) - Fits(b) ELSE lost[b]]
    /\ buffer' = [b \in Buckets |->
                   IF b \in DOMAIN finished THEN << >> ELSE buffer[b]]
    /\ UNCHANGED <<todo, generated, served>>

(* The stateful epoch boundary.                                            *)
BoundaryBegin ==
    /\ Delivered
    /\ tick_handoffs \/ step_begin
    /\ UNCHANGED deliveryVars

BoundaryIssue(b, dst) == Issue(b, dst) /\ UNCHANGED deliveryVars

BoundaryEnd == _on_stateful_epoch_boundary_end /\ release

DeliveryDone == Done /\ Delivered /\ UNCHANGED deliveryVars

NextDelivery ==
    \/ StartBin
    \/ \E b \in Buckets : Deliver(b)
    \/ \E q \in Queues : Serve(q)
    \/ BoundaryBegin
    \/ \E b \in Buckets, dst \in Queues : BoundaryIssue(b, dst)
    \/ BoundaryEnd
    \/ DeliveryDone

SpecDelivery == InitDelivery /\ [][NextDelivery]_allVars

(* One thread runs bins, deliveries and boundaries: it goes on while it    *)
(* has a statement to execute.                                             *)
FairSpecDelivery == SpecDelivery /\ WF_allVars(NextDelivery)

-----------------------------------------------------------------------------
(* How many packets of a bucket stand in a ring, and in all rings.         *)
InRing(b, q) == Cardinality({i \in 1..Len(ring[q]) : ring[q][i].bucket = b})

InRings(b) == SumFunction([q \in Queues |-> InRing(b, q)])

(* No packet of a bucket disappears or is delivered twice on its way       *)
(* through redirection, overflow, release and the ring: every one that was *)
(* generated is served, lost, in a ring or in the buffer of its handoff.   *)
PacketsConserved ==
    \A b \in Buckets :
        generated[b] = served[b] + lost[b] + InRings(b) + Len(buffer[b])

(* A buffer holds what its handoff counts, and a bucket without a handoff  *)
(* has nothing buffered: no commit forgets to release, not even when the   *)
(* boundary that finishes a handoff issues the next one of its bucket.     *)
Counted(b) ==
    IF phase # "bins" /\ b \in DOMAIN finished THEN finished[b].buffered.pkts
    ELSE IF b \in DOMAIN pending THEN pending[b].buffered.pkts ELSE 0

BufferMatchesHandoff == \A b \in Buckets : Len(buffer[b]) = Counted(b)

(* In every ring the packets of one bucket stand in the order in which     *)
(* they were generated: the released packets are ahead of everything that  *)
(* is delivered to the destination after the commit.                       *)
OrderedInRing ==
    \A q \in Queues : \A i, j \in 1..Len(ring[q]) :
        i < j /\ ring[q][i].bucket = ring[q][j].bucket
            => ring[q][i].num < ring[q][j].num

(* While a bucket is in transition its packets only leave the rings: none  *)
(* is delivered, whatever the table says.  The boundary is excepted: it    *)
(* may issue the next handoff of a bucket before it releases the buffer of *)
(* the last, into the ring that is by then the source of the next.         *)
NoDeliveryInTransition ==
    [][phase = "bins" => \A b \in DOMAIN pending, q \in Queues :
          InRing(b, q)' <= InRing(b, q)]_allVars

(* "drain - source core finishes in-flight packets of the bucket" before   *)
(* the commit (README.md:254, handoff.py:6-8 and 12): when a handoff has   *)
(* finished, its source ring holds no packet of its bucket.                *)
DrainedBeforeCommit ==
    phase = "step" =>
        \A b \in DOMAIN finished : InRing(b, finished[b].src) = 0

=============================================================================
