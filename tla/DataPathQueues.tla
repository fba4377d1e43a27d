--------------------------- MODULE DataPathQueues ---------------------------
(* The queues inside DataPath and the queue of QueuePipeline.              *)
EXTENDS DataPath

RunBins == EndOfRun \div BinNs

(* From generation to arrival in the ring: over the link, no longer than   *)
(* its FIFO and one setup.                                                 *)
Transits == 0..(MaxTime + Fifo + Setup)

LargestSize == CHOOSE m \in Sizes : \A s \in Sizes : s <= m

(* A packet enters a queue with a size of its own or, from a buffer, with  *)
(* the average of what the buffer took.                                    *)
LargestEntry == Later(LargestSize, BufferCapacity)

(* The bounds never stand in the way: no more packets come in all bins of  *)
(* the run than MaxPkts.                                                   *)
ASSUME DataPathQueuesAssumption ==
    /\ \E m \in Sizes : \A s \in Sizes : s <= m
    /\ \A size \in 1..LargestEntry : T_dma[size] \in Transits
    /\ \A d \in Domains : D_q[d] # 0 /\ ServiceTimes[d] \subseteq Nat \ {0}
    /\ TWb \in Nat
    /\ \A sl \in Batches["stateless"] \cup {<< >>} :
       \A sf \in Batches["stateful"] \cup {<< >>} :
          (Len(sl) + Len(sf)) * RunBins <= MaxPkts

(* Every queue implements QueuePipeline: its bin is over, with its         *)
(* counters still standing, until the next bin is pulled.                  *)
Idle == phase # "packets" /\ t_start > 0

InPackets(c) == [adm |-> c.adm.pkts, drop |-> c.drop.pkts,
                 credit_drop |-> c.credit_drop.pkts, pcie_drop |-> c.pcie_drop.pkts,
                 returned |-> c.returned, u_max |-> c.u_max]

Queue(d, q) ==
    INSTANCE QueuePipeline WITH
        D_q <- D_q[d], ServiceTimes <- ServiceTimes[d],
        TransitTimes <- Transits,
        MaxBins <- RunBins, MaxPerBin <- MaxPkts, MaxRelease <- MaxPkts,
        credits <- pipeline[d][q].credits,
        heap <- pipeline[d][q].heap,
        next_free <- pipeline[d][q].next_free,
        now <- pipeline[d][q].now,
        stats <- InPackets(pipeline[d][q].stats),
        bin <- IF Idle THEN t_start \div BinNs - 1 ELSE t_start \div BinNs,
        phase <- IF Idle THEN "release" ELSE "run",
        released <- IF Idle THEN pipeline[d][q].stats.adm.pkts + pipeline[d][q].stats.drop.pkts
                                 - pipeline[d][q].row.adm.pkts - pipeline[d][q].row.drop.pkts
                            ELSE 0,
        admitted <- pipeline[d][q].admitted,
        row <- InPackets(pipeline[d][q].row),
        base <- pipeline[d][q].credits - pipeline[d][q].stats.returned
                + pipeline[d][q].stats.adm.pkts

(* What a bin does to a queue, among the packets of all others and of both *)
(* domains, is what QueuePipeline says of one queue alone.                 *)
QueuesArePipelines ==
    [][\A d \in Domains : \A q \in Queues[d] :
          Queue(d, q)!Next \/ UNCHANGED Queue(d, q)!vars]_allVars

=============================================================================
