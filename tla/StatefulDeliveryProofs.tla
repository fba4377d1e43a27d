----------------------- MODULE StatefulDeliveryProofs -----------------------
(***************************************************************************)
(* Proofs about the handoff protocol and the packets of its domain, for    *)
(* every number of buckets and queues, every latency, load, pressure and   *)
(* bound.                                                                  *)
(*                                                                         *)
(* First the protocol alone (Handoff), and that it implements Migration.   *)
(* Then the composition with the rings (StatefulDelivery), which adds no   *)
(* behaviour to the protocol: seen on the variables of Handoff, every step *)
(* of StatefulDelivery is a step of Handoff or changes nothing.  What is   *)
(* proved of Handoff therefore holds of the composition.  On top of that   *)
(* the packets: the buffers agree with the counters of the handoffs, every *)
(* packet is in one place, the rings keep the order of each bucket, and a  *)
(* bucket in transition receives nothing.                                  *)
(***************************************************************************)
EXTENDS StatefulDelivery, FiniteSums, SequenceTheorems

-----------------------------------------------------------------------------
(* A proportional cut never yields more packets than there were.           *)
LEMMA ProportionBounded ==
    ASSUME NEW p \in Nat, NEW a \in Nat, NEW n \in Nat, a < n
    PROVE  /\ (p * a) \div n \in Nat
           /\ (p * a) \div n <= p
  <1>1. p * a \in Nat /\ p * a <= p * n
    BY SMT
  <1>2. n > 0
    OBVIOUS
  <1>3. (p * n) \div n = p
    BY <1>2, SMT
  <1> QED
    BY <1>1, <1>2, <1>3, SMT

(* One more epoch elapsed.                                                 *)
LEMMA OneEpochMore ==
    ASSUME NEW a \in Int, NEW n \in Int
    PROVE  (a - 1) * n + n = a * n
  BY SMT

(* What fits of a load is part of the load, and fits.                      *)
LEMMA FittingBounded ==
    ASSUME NEW h \in HandoffRecord, NEW load \in Traffic,
           h.buffered.bytes <= BufferCapacity
    PROVE  /\ Fitting(h, load) \in Traffic
           /\ MinusTraffic(load, Fitting(h, load)) \in Traffic
           /\ h.buffered.bytes + Fitting(h, load).bytes <= BufferCapacity
  <1> DEFINE room == BufferCapacity - h.buffered.bytes
  <1>1. h.buffered.bytes \in Nat /\ BufferCapacity \in Nat /\ room \in Nat
    BY HandoffAssumption DEF HandoffRecord, Traffic
  <1>2. load.bytes \in Nat /\ load.pkts \in Nat
    BY DEF Traffic
  <1>3. CASE load.bytes <= room
    <2>1. Fitting(h, load) = load
      BY <1>3 DEF Fitting
    <2> QED
      BY <1>1, <1>2, <1>3, <2>1 DEF MinusTraffic, Traffic
  <1>4. CASE ~(load.bytes <= room)
    <2> DEFINE cut == (load.pkts * room) \div load.bytes
    <2>a. room < load.bytes
      BY <1>1, <1>2, <1>4
    <2>1. cut \in Nat /\ cut <= load.pkts
      <3> HIDE DEF room
      <3> QED
        BY <1>1, <1>2, <2>a, ProportionBounded
    <2>2. Fitting(h, load) = [bytes |-> room, pkts |-> cut]
      BY <1>1, <1>4 DEF Fitting
    <2> HIDE DEF cut
    <2> QED
      BY <1>1, <1>2, <1>4, <2>1, <2>2 DEF MinusTraffic, Traffic
  <1> QED
    BY <1>3, <1>4

(* Absorbing a load keeps the record well formed and the buffer accounted, *)
(* and touches nothing else of the handoff.                                *)
LEMMA AbsorbAccounted ==
    ASSUME NEW h \in HandoffRecord, NEW load \in Traffic,
           h.buffered.bytes <= BufferCapacity,
           PlusTraffic(h.buffered, h.overflow) = h.got
    PROVE  LET k == absorb_bucket_traffic(h, load)
           IN  /\ k \in HandoffRecord
               /\ k.buffered.bytes <= BufferCapacity
               /\ PlusTraffic(k.buffered, k.overflow) = k.got
               /\ k.src = h.src /\ k.dst = h.dst /\ k.start = h.start
               /\ k.latency = h.latency /\ k.remaining = h.remaining
  <1> DEFINE fit == Fitting(h, load)
             rest == MinusTraffic(load, fit)
             k == absorb_bucket_traffic(h, load)
  <1>1. /\ fit \in Traffic /\ rest \in Traffic
        /\ h.buffered.bytes + fit.bytes <= BufferCapacity
    BY FittingBounded
  <1>2. k = [h EXCEPT !.buffered = PlusTraffic(h.buffered, fit),
                      !.overflow = PlusTraffic(h.overflow, rest),
                      !.got = PlusTraffic(h.got, load)]
    BY DEF absorb_bucket_traffic
  <1>3. rest = [bytes |-> load.bytes - fit.bytes, pkts |-> load.pkts - fit.pkts]
    BY DEF MinusTraffic
  <1> HIDE DEF fit, rest, k
  <1>4. /\ k.buffered = [bytes |-> h.buffered.bytes + fit.bytes,
                         pkts |-> h.buffered.pkts + fit.pkts]
        /\ k.overflow = [bytes |-> h.overflow.bytes + rest.bytes,
                         pkts |-> h.overflow.pkts + rest.pkts]
        /\ k.got = [bytes |-> h.got.bytes + load.bytes,
                    pkts |-> h.got.pkts + load.pkts]
        /\ k.src = h.src /\ k.dst = h.dst /\ k.start = h.start
        /\ k.latency = h.latency /\ k.remaining = h.remaining
    BY <1>2 DEF PlusTraffic, HandoffRecord
  <1>5. k \in HandoffRecord
    <2>1. /\ PlusTraffic(h.buffered, fit) \in Traffic
          /\ PlusTraffic(h.overflow, rest) \in Traffic
          /\ PlusTraffic(h.got, load) \in Traffic
      BY <1>1 DEF HandoffRecord, PlusTraffic, Traffic
    <2> QED
      BY <1>2, <2>1 DEF HandoffRecord
  <1>6. PlusTraffic(k.buffered, k.overflow) = k.got
    BY <1>1, <1>3, <1>4 DEF PlusTraffic, HandoffRecord, Traffic
  <1> QED
    BY <1>1, <1>4, <1>5, <1>6 DEF k

-----------------------------------------------------------------------------
(* The initial states satisfy the inductive invariant.                     *)
LEMMA InitInductive == Init => Inductive
  <1> SUFFICES ASSUME Init PROVE Inductive
    OBVIOUS
  <1> USE DEF Init
  <1>1. DOMAIN pending = {} /\ DOMAIN finished = {}
    OBVIOUS
  <1>2. TypeOK
    BY <1>1, HandoffAssumption DEF TypeOK
  <1>3. BoundedConcurrency
    BY <1>1, FS_EmptySet, HandoffAssumption DEF BoundedConcurrency
  <1>4. FlagsExact /\ DisjointHandoffs /\ SourceStillOwner
    BY <1>1 DEF FlagsExact, DisjointHandoffs, SourceStillOwner
  <1>5. BufferAccounted /\ OnSchedule /\ NeverRaises /\ Boundary
    BY <1>1 DEF BufferAccounted, OnSchedule, NeverRaises, Boundary
  <1> QED
    BY <1>2, <1>3, <1>4, <1>5 DEF Inductive

(* A bin changes only what the handoffs have absorbed.                     *)
LEMMA BinInductive == Inductive /\ Bin => Inductive'
  <1> SUFFICES ASSUME Inductive, Bin PROVE Inductive'
    OBVIOUS
  <1> USE DEF Inductive
  <1>1. PICK arrival \in [DOMAIN pending -> Loads] :
           _apply_handoff_redirection(arrival)
    BY DEF Bin
  <1>2. DOMAIN pending' = DOMAIN pending
    BY <1>1 DEF _apply_handoff_redirection
  <1>3. ASSUME NEW b \in DOMAIN pending
        PROVE  /\ pending'[b] \in HandoffRecord
               /\ pending'[b].buffered.bytes <= BufferCapacity
               /\ PlusTraffic(pending'[b].buffered, pending'[b].overflow)
                    = pending'[b].got
               /\ pending'[b].src = pending[b].src
               /\ pending'[b].dst = pending[b].dst
               /\ pending'[b].start = pending[b].start
               /\ pending'[b].latency = pending[b].latency
               /\ pending'[b].remaining = pending[b].remaining
    <2>1. arrival[b] \in Traffic
      BY <1>1, HandoffAssumption DEF Traffic
    <2>2. pending[b] \in HandoffRecord
      BY DEF TypeOK
    <2>3. pending'[b] = absorb_bucket_traffic(pending[b], arrival[b])
      BY <1>1 DEF _apply_handoff_redirection
    <2> QED
      BY <2>1, <2>2, <2>3, AbsorbAccounted DEF BufferAccounted
  <1>4. UNCHANGED <<table, H_pend, finished, newTable, hot, cold, issued,
                    phase, epoch>>
    BY DEF Bin
  <1>5. TypeOK'
    <2>1. pending' \in [DOMAIN pending' -> HandoffRecord]
      BY <1>1, <1>2, <1>3 DEF _apply_handoff_redirection
    <2>2. bin' \in 0..EpochBins
      BY HandoffAssumption DEF Bin, TypeOK
    <2> QED
      BY <1>2, <1>4, <2>1, <2>2 DEF TypeOK
  <1>6. FlagsExact'
    BY <1>2, <1>3, <1>4 DEF FlagsExact, Involved
  <1>7. DisjointHandoffs'
    BY <1>2, <1>3 DEF DisjointHandoffs, Involved
  <1>8. SourceStillOwner' /\ NeverRaises' /\ BoundedConcurrency'
    BY <1>2, <1>3, <1>4 DEF SourceStillOwner, NeverRaises, BoundedConcurrency
  <1>9. BufferAccounted'
    BY <1>2, <1>3 DEF BufferAccounted
  <1>10. OnSchedule'
    BY <1>2, <1>3, <1>4 DEF OnSchedule, TicksSeen
  <1>11. Boundary'
    BY <1>2, <1>4 DEF Boundary, Committed
  <1> QED
    BY <1>5, <1>6, <1>7, <1>8, <1>9, <1>10, <1>11

(* A tick takes out of pending exactly the handoffs that ran out.  Their   *)
(* flags can be cleared because no other handoff involves their queues.    *)
LEMMA TickInductive == Inductive /\ tick_handoffs => Inductive'
  <1> SUFFICES ASSUME Inductive, tick_handoffs PROVE Inductive'
    OBVIOUS
  <1> USE DEF Inductive
  <1>1. /\ phase = "bins" /\ bin >= EpochBins /\ epoch < NumEpochs
        /\ finished' = [b \in Expired |-> Elapsed(pending[b])]
        /\ pending' = [b \in DOMAIN pending \ Expired |-> Elapsed(pending[b])]
        /\ H_pend' = [q \in Queues |-> H_pend[q] /\ q \notin FreedQueues]
        /\ phase' = "step"
        /\ UNCHANGED <<table, newTable, hot, cold, issued, bin, epoch>>
    BY DEF tick_handoffs
  <1>2. /\ DOMAIN finished' = Expired /\ DOMAIN pending' = DOMAIN pending \ Expired
        /\ Expired \subseteq DOMAIN pending
    BY <1>1 DEF Expired
  <1>3. ASSUME NEW b \in DOMAIN pending
        PROVE  /\ pending[b] \in HandoffRecord
               /\ Elapsed(pending[b]) \in HandoffRecord
               /\ Elapsed(pending[b]).src = pending[b].src
               /\ Elapsed(pending[b]).dst = pending[b].dst
               /\ Elapsed(pending[b]).start = pending[b].start
               /\ Elapsed(pending[b]).latency = pending[b].latency
               /\ Elapsed(pending[b]).buffered = pending[b].buffered
               /\ Elapsed(pending[b]).overflow = pending[b].overflow
               /\ Elapsed(pending[b]).got = pending[b].got
               /\ Elapsed(pending[b]).remaining = pending[b].remaining - EpochNs
    <2>1. pending[b] \in HandoffRecord
      BY DEF TypeOK
    <2>2. pending[b].remaining - EpochNs \in Int
      BY <2>1, HandoffAssumption DEF HandoffRecord
    <2> QED
      BY <2>1, <2>2 DEF Elapsed, HandoffRecord
  <1>4. TypeOK'
    <2>1. finished' \in [DOMAIN finished' -> HandoffRecord]
      BY <1>1, <1>2, <1>3
    <2>2. pending' \in [DOMAIN pending' -> HandoffRecord]
      BY <1>1, <1>2, <1>3
    <2>3. H_pend' \in [Queues -> BOOLEAN]
      BY <1>1
    <2> QED
      BY <1>1, <1>2, <2>1, <2>2, <2>3 DEF TypeOK
  <1>5. \A b \in DOMAIN pending' :
           /\ b \in DOMAIN pending /\ b \notin Expired
           /\ Involved(pending'[b]) = Involved(pending[b])
           /\ pending'[b] = Elapsed(pending[b])
    BY <1>1, <1>2, <1>3 DEF Involved
  <1>6. FlagsExact'
    <2> SUFFICES ASSUME NEW q \in Queues
                 PROVE  H_pend'[q] <=> \E b \in DOMAIN pending' :
                                          q \in Involved(pending'[b])
      BY DEF FlagsExact
    <2>1. H_pend'[q] <=> H_pend[q] /\ q \notin FreedQueues
      BY <1>1
    <2>2. H_pend[q] <=> \E b \in DOMAIN pending : q \in Involved(pending[b])
      BY DEF FlagsExact
    <2>3. q \in FreedQueues <=> \E b \in Expired : q \in Involved(pending[b])
      BY DEF FreedQueues
    <2>4. \A b, c \in DOMAIN pending :
             q \in Involved(pending[b]) /\ q \in Involved(pending[c]) => b = c
      BY DEF DisjointHandoffs
    <2> QED
      BY <1>2, <1>5, <2>1, <2>2, <2>3, <2>4
  <1>7. DisjointHandoffs'
    BY <1>2, <1>3, <1>5 DEF DisjointHandoffs
  <1>8. SourceStillOwner'
    BY <1>1, <1>3, <1>5 DEF SourceStillOwner
  <1>9. NeverRaises'
    BY <1>1 DEF NeverRaises
  <1>10. BoundedConcurrency'
    <2>1. IsFiniteSet(DOMAIN pending)
      BY HandoffAssumption, FS_Subset DEF TypeOK
    <2>2. /\ IsFiniteSet(DOMAIN pending')
          /\ Cardinality(DOMAIN pending') <= Cardinality(DOMAIN pending)
      BY <1>2, <2>1, FS_Subset
    <2> QED
      BY <2>1, <2>2, FS_CardinalityType, HandoffAssumption DEF BoundedConcurrency
  <1>11. BufferAccounted'
    BY <1>3, <1>5 DEF BufferAccounted
  <1>12. OnSchedule'
    <2>1. ASSUME NEW b \in DOMAIN pending'
          PROVE  /\ pending'[b].remaining > 0
                 /\ pending'[b].remaining =
                       pending'[b].latency - (epoch - pending'[b].start) * EpochNs
      <3> DEFINE h == pending[b]
      <3>1. b \in DOMAIN pending /\ b \notin Expired /\ h \in HandoffRecord
        BY <1>3, <1>5
      <3>2. /\ pending'[b].remaining = h.remaining - EpochNs
            /\ pending'[b].latency = h.latency /\ pending'[b].start = h.start
        BY <1>3, <1>5, <3>1
      <3>3. /\ h.remaining \in Int /\ h.latency \in Int /\ h.start \in Int
            /\ EpochNs \in Int /\ epoch \in Int
        BY <3>1, HandoffAssumption DEF HandoffRecord, TypeOK
      <3>4. h.remaining = h.latency - (epoch - 1 - h.start) * EpochNs
        BY <1>1, <3>1 DEF OnSchedule, TicksSeen
      <3>5. h.remaining - EpochNs > 0
        BY <3>1, <3>3 DEF Expired
      <3> HIDE DEF h
      <3>6. epoch - 1 - h.start = (epoch - h.start) - 1 /\ epoch - h.start \in Int
        BY <3>3
      <3>7. ((epoch - h.start) - 1) * EpochNs + EpochNs = (epoch - h.start) * EpochNs
        BY <3>3, <3>6, OneEpochMore
      <3> DEFINE past == (epoch - 1 - h.start) * EpochNs
                 now == (epoch - h.start) * EpochNs
      <3>8. past + EpochNs = now
        BY <3>6, <3>7
      <3>9. past \in Int /\ h.remaining = h.latency - past
        BY <3>3, <3>4
      <3> HIDE DEF past, now
      <3>10. h.remaining - EpochNs = h.latency - now
        BY <3>3, <3>8, <3>9
      <3> QED
        BY <3>2, <3>5, <3>10 DEF now
    <2>2. ASSUME NEW b \in DOMAIN finished'
          PROVE  finished'[b].remaining <= 0 /\ finished'[b].remaining + EpochNs > 0
      <3>1. /\ b \in DOMAIN pending /\ pending[b].remaining - EpochNs <= 0
            /\ finished'[b] = Elapsed(pending[b])
        BY <1>1, <1>2 DEF Expired
      <3>2. pending[b].remaining > 0 /\ pending[b].remaining \in Int
        BY <1>3, <3>1 DEF OnSchedule, HandoffRecord
      <3> QED
        BY <1>3, <3>1, <3>2, HandoffAssumption
    <2>3. phase' = "step" /\ epoch' = epoch
      BY <1>1
    <2> QED
      BY <2>1, <2>2, <2>3 DEF OnSchedule, TicksSeen
  <1>13. Boundary'
    <2>1. \A b \in Expired : table[b] = finished'[b].src
      BY <1>1, <1>2, <1>3 DEF SourceStillOwner, Boundary
    <2> QED
      BY <1>1, <1>2, <2>1 DEF Boundary
  <1> QED
    BY <1>4, <1>6, <1>7, <1>8, <1>9, <1>10, <1>11, <1>12, <1>13

(* Committing the finished handoffs moves no bucket of a pending one.      *)
LEMMA StepBeginInductive == Inductive /\ step_begin => Inductive'
  <1> SUFFICES ASSUME Inductive, step_begin PROVE Inductive'
    OBVIOUS
  <1> USE DEF Inductive
  <1>1. /\ phase = "step" /\ phase' = "loop" /\ issued' = 0
        /\ newTable' = Committed
        /\ hot' \subseteq Queues /\ cold' \subseteq Queues
        /\ UNCHANGED <<table, pending, H_pend, finished, bin, epoch>>
    BY DEF step_begin
  <1>2. TypeOK'
    <2>1. Committed \in [Buckets -> Queues]
      BY DEF Committed, TypeOK, HandoffRecord
    <2> QED
      BY <1>1, <2>1 DEF TypeOK
  <1>3. SourceStillOwner'
    <2>1. \A b \in DOMAIN pending : Committed[b] = table[b]
      BY <1>1 DEF Committed, Boundary, TypeOK
    <2>2. newTable = table
      BY <1>1 DEF Boundary
    <2> QED
      BY <1>1, <2>1, <2>2 DEF SourceStillOwner
  <1>4. FlagsExact' /\ DisjointHandoffs' /\ NeverRaises' /\ BoundedConcurrency'
    BY <1>1 DEF FlagsExact, DisjointHandoffs, NeverRaises, BoundedConcurrency
  <1>5. BufferAccounted' /\ OnSchedule'
    BY <1>1 DEF BufferAccounted, OnSchedule, TicksSeen
  <1>6. Boundary'
    BY <1>1 DEF Boundary, Committed
  <1> QED
    BY <1>2, <1>3, <1>4, <1>5, <1>6

(* A candidate is never in transition: its queue's flag would be up.       *)
LEMMA CandidateNotPending ==
    ASSUME Inductive, NEW b \in Buckets, NEW dst \in Queues, Candidate(b, dst)
    PROVE  b \notin DOMAIN pending
  <1> SUFFICES ASSUME b \in DOMAIN pending PROVE FALSE
    OBVIOUS
  <1>1. newTable[b] = pending[b].src /\ newTable[b] \in Queues
    BY DEF Inductive, SourceStillOwner, TypeOK
  <1>2. H_pend[newTable[b]]
    BY <1>1 DEF Inductive, FlagsExact, Involved
  <1> QED
    BY <1>2 DEF Candidate

(* Issuing a handoff between two queues that no handoff involves.          *)
LEMMA IssueInductive ==
    ASSUME Inductive, NEW b \in Buckets, NEW dst \in Queues, Issue(b, dst)
    PROVE  Inductive'
  <1> USE DEF Inductive
  <1> DEFINE src == newTable[b]
  <1>1. /\ phase = "loop" /\ Candidate(b, dst)
        /\ UNCHANGED <<table, finished, newTable, hot, bin, epoch>>
    BY DEF Issue
  <1>2. b \notin DOMAIN pending
    BY <1>1, CandidateNotPending
  <1>3. PICK latency \in Latencies :
           /\ pending' = [c \in DOMAIN pending \cup {b} |->
                             IF c = b THEN NewHandoff(src, dst, epoch, latency)
                                      ELSE pending[c]]
           /\ H_pend' = RaiseFlags(src, dst)
           /\ issued' = issued + 1
           /\ cold' = cold \ {dst}
           /\ phase' = phase
    BY <1>2 DEF Issue, issue
  <1>4. src \in Queues /\ src # dst /\ ~H_pend[src] /\ ~H_pend[dst]
    BY <1>1 DEF Candidate, can_issue, TypeOK
  <1> HIDE DEF src
  <1> DEFINE h == NewHandoff(src, dst, epoch, latency)
  <1>5. /\ h \in HandoffRecord /\ h.src = src /\ h.dst = dst
        /\ h.start = epoch /\ h.latency = latency /\ h.remaining = latency
        /\ h.buffered = NoTraffic /\ h.overflow = NoTraffic /\ h.got = NoTraffic
        /\ latency \in Nat \ {0}
    BY <1>4, HandoffAssumption
       DEF NewHandoff, HandoffRecord, Traffic, NoTraffic, TypeOK
  <1>6. /\ DOMAIN pending' = DOMAIN pending \cup {b}
        /\ pending'[b] = h
        /\ \A c \in DOMAIN pending : pending'[c] = pending[c]
    BY <1>2, <1>3
  <1> HIDE DEF h
  <1>7. \A q \in Queues : H_pend'[q] <=> H_pend[q] \/ q \in {src, dst}
    BY <1>3 DEF RaiseFlags
  <1>8. TypeOK'
    <2>1. pending' \in [DOMAIN pending' -> HandoffRecord]
      <3>1. \A c \in DOMAIN pending' : pending'[c] \in HandoffRecord
        BY <1>5, <1>6 DEF TypeOK
      <3>2. pending' = [c \in DOMAIN pending' |-> pending'[c]]
        BY <1>3
      <3> QED
        BY <3>1, <3>2
    <2>2. H_pend' \in [Queues -> BOOLEAN]
      BY <1>3 DEF RaiseFlags, TypeOK
    <2> QED
      BY <1>1, <1>3, <1>6, <2>1, <2>2 DEF TypeOK
  <1>9. FlagsExact'
    <2> SUFFICES ASSUME NEW q \in Queues
                 PROVE  H_pend'[q] <=> \E c \in DOMAIN pending' :
                                          q \in Involved(pending'[c])
      BY DEF FlagsExact
    <2>1. H_pend[q] <=> \E c \in DOMAIN pending : q \in Involved(pending[c])
      BY DEF FlagsExact
    <2>2. Involved(h) = {src, dst}
      BY <1>5 DEF Involved
    <2> QED
      BY <1>2, <1>6, <1>7, <2>1, <2>2
  <1>10. DisjointHandoffs'
    <2>1. \A c \in DOMAIN pending : Involved(pending[c]) \cap Involved(h) = {}
      <3>1. \A c \in DOMAIN pending :
               src \notin Involved(pending[c]) /\ dst \notin Involved(pending[c])
        BY <1>4 DEF FlagsExact
      <3> QED
        BY <1>5, <3>1 DEF Involved
    <2>2. h.src # h.dst
      BY <1>4, <1>5
    <2> QED
      BY <1>6, <2>1, <2>2 DEF DisjointHandoffs
  <1>11. SourceStillOwner'
    BY <1>1, <1>5, <1>6 DEF SourceStillOwner, src
  <1>12. NeverRaises'
    BY <1>1, <1>3 DEF NeverRaises
  <1>13. BoundedConcurrency'
    <2>1. IsFiniteSet(DOMAIN pending)
      BY HandoffAssumption, FS_Subset DEF TypeOK
    <2>2. Cardinality(DOMAIN pending') = Cardinality(DOMAIN pending) + 1
      BY <1>2, <1>6, <2>1, FS_AddElement
    <2>3. Cardinality(DOMAIN pending) < MaxConcurrent
      BY <1>1 DEF Candidate, can_issue
    <2> QED
      BY <2>1, <2>2, <2>3, FS_CardinalityType, HandoffAssumption
         DEF BoundedConcurrency
  <1>14. BufferAccounted'
    BY <1>5, <1>6, HandoffAssumption
       DEF BufferAccounted, NoTraffic, PlusTraffic
  <1>15. OnSchedule'
    <2>1. phase' = "loop" /\ epoch' = epoch /\ finished' = finished
      BY <1>1, <1>3
    <2>2. /\ h.remaining > 0
          /\ h.remaining = h.latency - (epoch - h.start) * EpochNs
      <3>1. (epoch - h.start) * EpochNs = 0
        BY <1>5, HandoffAssumption DEF TypeOK
      <3> QED
        BY <1>5, <3>1
    <2> QED
      BY <1>1, <1>6, <2>1, <2>2 DEF OnSchedule, TicksSeen
  <1>16. Boundary'
    BY <1>1, <1>3 DEF Boundary, Committed
  <1> QED
    BY <1>8, <1>9, <1>10, <1>11, <1>12, <1>13, <1>14, <1>15, <1>16

(* Installing the new table and starting the next epoch.                   *)
LEMMA BoundaryEndInductive ==
    Inductive /\ _on_stateful_epoch_boundary_end => Inductive'
  <1> SUFFICES ASSUME Inductive, _on_stateful_epoch_boundary_end
               PROVE  Inductive'
    OBVIOUS
  <1> USE DEF Inductive
  <1>1. /\ phase = "loop" /\ phase' = "bins" /\ table' = newTable
        /\ hot' = {} /\ cold' = {} /\ bin' = 0 /\ epoch' = epoch + 1
        /\ UNCHANGED <<pending, H_pend, finished, newTable, issued>>
    BY DEF _on_stateful_epoch_boundary_end
  <1>2. TypeOK'
    BY <1>1, HandoffAssumption DEF TypeOK, Boundary
  <1>3. FlagsExact' /\ DisjointHandoffs' /\ SourceStillOwner' /\ NeverRaises'
    BY <1>1 DEF FlagsExact, DisjointHandoffs, SourceStillOwner, NeverRaises
  <1>4. BoundedConcurrency' /\ BufferAccounted' /\ Boundary'
    BY <1>1 DEF BoundedConcurrency, BufferAccounted, Boundary
  <1>5. OnSchedule'
    <2>1. \A b \in DOMAIN pending :
             (epoch + 1) - 1 - pending[b].start = epoch - pending[b].start
      BY DEF TypeOK, HandoffRecord
    <2> QED
      BY <1>1, <2>1 DEF OnSchedule, TicksSeen
  <1> QED
    BY <1>2, <1>3, <1>4, <1>5

(* A step that changes nothing.                                            *)
LEMMA StutterInductive == Inductive /\ UNCHANGED vars => Inductive'
  BY DEF Inductive, vars, TypeOK, FlagsExact, DisjointHandoffs,
         SourceStillOwner, NeverRaises, BoundedConcurrency, BufferAccounted,
         OnSchedule, TicksSeen, Boundary, Committed

LEMMA NextInductive == Inductive /\ [Next]_vars => Inductive'
  <1> SUFFICES ASSUME Inductive, [Next]_vars PROVE Inductive'
    OBVIOUS
  <1>1. CASE Bin
    BY <1>1, BinInductive
  <1>2. CASE tick_handoffs
    BY <1>2, TickInductive
  <1>3. CASE step_begin
    BY <1>3, StepBeginInductive
  <1>4. CASE \E b \in Buckets, dst \in Queues : Issue(b, dst)
    BY <1>4, IssueInductive
  <1>5. CASE _on_stateful_epoch_boundary_end
    BY <1>5, BoundaryEndInductive
  <1>6. CASE Done
    BY <1>6, StutterInductive DEF Done
  <1>7. CASE UNCHANGED vars
    BY <1>7, StutterInductive
  <1> QED
    BY <1>1, <1>2, <1>3, <1>4, <1>5, <1>6, <1>7 DEF Next

(* The inductive invariant holds in every reachable state.                 *)
THEOREM InductiveHolds == Spec => []Inductive
  <1>1. Init => Inductive
    BY InitInductive
  <1>2. Inductive /\ [Next]_vars => Inductive'
    BY NextInductive
  <1> QED
    BY <1>1, <1>2, PTL DEF Spec

-----------------------------------------------------------------------------
(* Every variable keeps its type (Handoff and HandoffManager's fields).    *)
THEOREM TypeCorrect == Spec => []TypeOK
  BY InductiveHolds, PTL DEF Inductive

(* The flags the hardware scheduler reads are exactly the handoffs that    *)
(* issue() and advance_time() have in progress.                            *)
THEOREM FlagsAlwaysExact == Spec => []FlagsExact
  BY InductiveHolds, PTL DEF Inductive

(* No queue is ever drained for one handoff and filled by another: can_issue *)
(* keeps the pairs of queues of pending handoffs disjoint.                 *)
THEOREM HandoffsAlwaysDisjoint == Spec => []DisjointHandoffs
  BY InductiveHolds, PTL DEF Inductive

(* No commit moves a bucket under the handoff that is pending for it.      *)
THEOREM SourceAlwaysOwner == Spec => []SourceStillOwner
  BY InductiveHolds, PTL DEF Inductive

(* The RuntimeError of issue() is unreachable.                             *)
THEOREM IssueNeverRaises == Spec => []NeverRaises
  BY InductiveHolds, PTL DEF Inductive

(* max_concurrent_handoffs bounds the handoffs pending over all epochs.    *)
THEOREM ConcurrencyBounded == Spec => []BoundedConcurrency
  BY InductiveHolds, PTL DEF Inductive

(* absorb_bucket_traffic loses no byte and no packet, and never overfills. *)
THEOREM BufferAlwaysAccounted == Spec => []BufferAccounted
  BY InductiveHolds, PTL DEF Inductive

(* A handoff commits at the first boundary by which its latency has passed. *)
THEOREM AlwaysOnSchedule == Spec => []OnSchedule
  BY InductiveHolds, PTL DEF Inductive

(* Handoffs that finish at one boundary were pending together, so they     *)
(* share no queue.                                                         *)
THEOREM ReleasesAlwaysSeparate == Spec => []SeparateReleases
  <1>1. Init => SeparateReleases
    BY DEF Init, SeparateReleases
  <1>2. Inductive /\ SeparateReleases /\ [Next]_vars => SeparateReleases'
    <2> SUFFICES ASSUME Inductive, SeparateReleases, [Next]_vars
                 PROVE  SeparateReleases'
      OBVIOUS
    <2>1. CASE tick_handoffs
      <3>1. finished' = [b \in Expired |-> Elapsed(pending[b])]
        BY <2>1 DEF tick_handoffs
      <3>2. \A b \in Expired : /\ b \in DOMAIN pending
                               /\ Involved(finished'[b]) = Involved(pending[b])
        BY <3>1 DEF Expired, Elapsed, Involved, Inductive, TypeOK, HandoffRecord
      <3> QED
        BY <3>1, <3>2 DEF SeparateReleases, Inductive, DisjointHandoffs, Involved
    <2>2. ASSUME UNCHANGED finished PROVE SeparateReleases'
      BY <2>2 DEF SeparateReleases, Involved
    <2>3. ASSUME ~tick_handoffs PROVE UNCHANGED finished
      BY <2>3 DEF Next, Bin, step_begin, Issue, _on_stateful_epoch_boundary_end,
                  Done, vars
    <2> QED
      BY <2>1, <2>2, <2>3
  <1> QED
    BY <1>1, <1>2, InductiveHolds, PTL DEF Spec

(* The table that the data path reads changes only by committing finished  *)
(* handoffs, each from its source.                                         *)
THEOREM TableSafe == Spec => TableChangesOnlyByCommit
  <1>1. ASSUME Inductive, Next PROVE CommitOnly
    <2>1. ASSUME UNCHANGED table PROVE CommitOnly
      BY <2>1 DEF CommitOnly
    <2>2. CASE _on_stateful_epoch_boundary_end
      <3>1. phase = "loop" /\ table' = Committed
        BY <1>1, <2>2 DEF _on_stateful_epoch_boundary_end, Inductive, Boundary
      <3>2. \A b \in DOMAIN finished : table[b] = finished[b].src
        BY <1>1, <3>1 DEF Inductive, Boundary
      <3> QED
        BY <3>1, <3>2 DEF CommitOnly, Committed
    <2>3. ASSUME ~_on_stateful_epoch_boundary_end PROVE UNCHANGED table
      BY <1>1, <2>3 DEF Next, Bin, tick_handoffs, step_begin, Issue, Done, vars
    <2> QED
      BY <2>1, <2>2, <2>3
  <1>2. Inductive /\ [Next]_vars => [CommitOnly]_vars
    BY <1>1
  <1> QED
    BY <1>2, InductiveHolds, PTL DEF Spec, TableChangesOnlyByCommit

-----------------------------------------------------------------------------
(* The refinement: what the steps of the protocol do to Owner and Moves.   *)
LEMMA TickRefines ==
    ASSUME Inductive, tick_handoffs
    PROVE  Abstract!Commit(Expired)
  <1>1. /\ phase = "bins" /\ phase' = "step"
        /\ finished' = [b \in Expired |-> Elapsed(pending[b])]
        /\ pending' = [b \in DOMAIN pending \ Expired |-> Elapsed(pending[b])]
        /\ UNCHANGED <<table, newTable>>
    BY DEF tick_handoffs
  <1>2. Expired \subseteq DOMAIN pending
    BY DEF Expired
  <1>3. \A b \in DOMAIN pending : /\ Elapsed(pending[b]).src = pending[b].src
                                  /\ Elapsed(pending[b]).dst = pending[b].dst
    BY DEF Elapsed, Inductive, TypeOK, HandoffRecord
  <1>4. newTable = table /\ newTable \in [Buckets -> Queues]
    BY <1>1 DEF Inductive, Boundary, TypeOK
  <1>5. Owner = newTable
    BY <1>1 DEF Owner
  <1>6. Owner' = [b \in Buckets |-> IF b \in Expired THEN Moves[b].to ELSE Owner[b]]
    <2>1. Owner' = [b \in Buckets |-> IF b \in Expired
                                      THEN finished'[b].dst ELSE table[b]]
      BY <1>1 DEF Owner, Committed
    <2>2. \A b \in Expired : finished'[b].dst = Moves[b].to
      BY <1>1, <1>2, <1>3 DEF Moves
    <2> QED
      BY <1>4, <1>5, <2>1, <2>2
  <1>7. Moves' = [b \in DOMAIN Moves \ Expired |-> Moves[b]]
    <2>1. Moves' = [b \in DOMAIN pending \ Expired |->
                      [from |-> pending'[b].src, to |-> pending'[b].dst]]
      BY <1>1 DEF Moves
    <2>2. \A b \in DOMAIN pending \ Expired :
             [from |-> pending'[b].src, to |-> pending'[b].dst] = Moves[b]
      BY <1>1, <1>3 DEF Moves
    <2>3. DOMAIN Moves = DOMAIN pending
      BY DEF Moves
    <2> QED
      BY <2>1, <2>2, <2>3
  <1>8. \A b \in Expired : Owner[b] = Moves[b].from
    BY <1>2, <1>5 DEF Moves, Inductive, SourceStillOwner
  <1> QED
    BY <1>6, <1>7, <1>8 DEF Abstract!Commit

LEMMA IssueRefines ==
    ASSUME Inductive, NEW b \in Buckets, NEW dst \in Queues, Issue(b, dst)
    PROVE  Abstract!Begin(b, dst)
  <1> DEFINE src == newTable[b]
  <1>1. /\ phase = "loop" /\ Candidate(b, dst)
        /\ UNCHANGED <<table, finished, newTable>>
    BY DEF Issue
  <1>2. b \notin DOMAIN pending
    BY <1>1, CandidateNotPending
  <1>3. PICK latency \in Latencies :
           /\ pending' = [c \in DOMAIN pending \cup {b} |->
                             IF c = b THEN NewHandoff(src, dst, epoch, latency)
                                      ELSE pending[c]]
           /\ phase' = phase
    BY <1>2 DEF Issue, issue
  <1>4. Owner = newTable /\ Owner' = Owner
    BY <1>1, <1>3 DEF Owner
  <1>5. /\ src # dst /\ ~H_pend[src] /\ ~H_pend[dst] /\ src \in Queues
        /\ Cardinality(DOMAIN pending) < MaxConcurrent
    BY <1>1 DEF Candidate, can_issue, Inductive, TypeOK
  <1>6. /\ DOMAIN Moves = DOMAIN pending
        /\ \A c \in DOMAIN pending :
              {Moves[c].from, Moves[c].to} = Involved(pending[c])
    BY DEF Moves, Involved
  <1>7. ~Abstract!Engaged(src) /\ ~Abstract!Engaged(dst)
    BY <1>5, <1>6 DEF Abstract!Engaged, Inductive, FlagsExact
  <1>8. Moves' = [c \in DOMAIN Moves \cup {b} |->
                    IF c = b THEN [from |-> Owner[b], to |-> dst] ELSE Moves[c]]
    <2>1. /\ DOMAIN pending' = DOMAIN pending \cup {b}
          /\ pending'[b].src = Owner[b] /\ pending'[b].dst = dst
          /\ \A c \in DOMAIN pending : pending'[c] = pending[c]
      BY <1>2, <1>3, <1>4 DEF NewHandoff
    <2>2. Moves' = [c \in DOMAIN pending \cup {b} |->
                      [from |-> pending'[c].src, to |-> pending'[c].dst]]
      BY <2>1 DEF Moves
    <2> QED
      BY <1>2, <1>6, <2>1, <2>2 DEF Moves
  <1>9. Abstract!Cardinality(DOMAIN Moves) = Cardinality(DOMAIN Moves)
    BY Zenon DEF Cardinality, Abstract!Cardinality
  <1> QED
    BY <1>2, <1>4, <1>5, <1>6, <1>7, <1>8, <1>9 DEF Abstract!Begin

(* The other steps leave owners and moves alone.                           *)
LEMMA BinStutters == Inductive /\ Bin => UNCHANGED <<Owner, Moves>>
  <1> SUFFICES ASSUME Inductive, Bin PROVE UNCHANGED <<Owner, Moves>>
    OBVIOUS
  <1>1. PICK arrival \in [DOMAIN pending -> Loads] :
           _apply_handoff_redirection(arrival)
    BY DEF Bin
  <1>2. /\ DOMAIN pending' = DOMAIN pending
        /\ \A b \in DOMAIN pending : /\ pending'[b].src = pending[b].src
                                     /\ pending'[b].dst = pending[b].dst
    BY <1>1 DEF _apply_handoff_redirection, absorb_bucket_traffic,
                Inductive, TypeOK, HandoffRecord
  <1>3. Moves' = Moves
    BY <1>2 DEF Moves
  <1>4. Owner' = Owner
    BY DEF Bin, Owner, Committed
  <1> QED
    BY <1>3, <1>4

LEMMA StepBeginStutters == Inductive /\ step_begin => UNCHANGED <<Owner, Moves>>
  BY DEF step_begin, Owner, Moves

LEMMA BoundaryEndStutters ==
    Inductive /\ _on_stateful_epoch_boundary_end => UNCHANGED <<Owner, Moves>>
  BY DEF _on_stateful_epoch_boundary_end, Owner, Moves

(* The handoff protocol implements the abstract migration of buckets.      *)
THEOREM Refinement == Spec => ImplementsMigration
  <1>1. Init => Abstract!Init
    <2> SUFFICES ASSUME Init PROVE Abstract!Init
      OBVIOUS
    <2>1. Owner \in [Buckets -> Queues]
      BY HandoffAssumption DEF Init, Owner
    <2>2. Moves = [b \in {} |-> b]
      BY DEF Init, Moves
    <2> QED
      BY <2>1, <2>2 DEF Abstract!Init
  <1>2. Inductive /\ [Next]_vars => [Abstract!Next]_<<Owner, Moves>>
    <2> SUFFICES ASSUME Inductive, [Next]_vars
                 PROVE  [Abstract!Next]_<<Owner, Moves>>
      OBVIOUS
    <2>1. CASE Bin
      BY <2>1, BinStutters
    <2>2. CASE tick_handoffs
      <3>1. Expired \in SUBSET DOMAIN Moves
        BY DEF Expired, Moves
      <3> QED
        BY <2>2, <3>1, TickRefines DEF Abstract!Next
    <2>3. CASE step_begin
      BY <2>3, StepBeginStutters
    <2>4. CASE \E b \in Buckets, dst \in Queues : Issue(b, dst)
      BY <2>4, IssueRefines DEF Abstract!Next
    <2>5. CASE _on_stateful_epoch_boundary_end
      BY <2>5, BoundaryEndStutters
    <2>6. CASE UNCHANGED vars
      BY <2>6 DEF vars, Owner, Moves, Committed
    <2> QED
      BY <2>1, <2>2, <2>3, <2>4, <2>5, <2>6 DEF Next, Done
  <1> QED
    BY <1>1, <1>2, InductiveHolds, PTL DEF Spec, ImplementsMigration, Abstract!Spec

-----------------------------------------------------------------------------
(* The start of a bin is a Bin of the protocol, whatever the other buckets *)
(* bring.                                                                  *)
LEMMA StartBinIsBin == Inductive /\ StartBin => Bin
  <1> SUFFICES ASSUME Inductive, StartBin PROVE Bin
    OBVIOUS
  <1>1. PICK arrival \in [Buckets -> Loads] : _apply_handoff_redirection(arrival)
    BY DEF StartBin
  <1> DEFINE redirected == [b \in DOMAIN pending |-> arrival[b]]
  <1>2. redirected \in [DOMAIN pending -> Loads]
    BY DEF Inductive, TypeOK
  <1>3. _apply_handoff_redirection(redirected)
    BY <1>1 DEF _apply_handoff_redirection
  <1> QED
    BY <1>2, <1>3 DEF StartBin, Bin

(* Every step of the composition is a step of the protocol or changes      *)
(* nothing of it.                                                          *)
LEMMA StepIsProtocolStep ==
    Inductive /\ [NextDelivery]_allVars => [Next]_vars
  <1> SUFFICES ASSUME Inductive, [NextDelivery]_allVars PROVE [Next]_vars
    OBVIOUS
  <1>1. CASE StartBin
    BY <1>1, StartBinIsBin DEF Next
  <1>2. CASE \E b \in Buckets : Deliver(b)
    BY <1>2 DEF Deliver
  <1>3. CASE \E q \in Queues : Serve(q)
    BY <1>3 DEF Serve
  <1>4. CASE BoundaryBegin
    BY <1>4 DEF BoundaryBegin, Next
  <1>5. CASE \E b \in Buckets, dst \in Queues : BoundaryIssue(b, dst)
    BY <1>5 DEF BoundaryIssue, Next
  <1>6. CASE BoundaryEnd
    BY <1>6 DEF BoundaryEnd, Next
  <1>7. CASE DeliveryDone
    BY <1>7 DEF DeliveryDone, Next
  <1>8. CASE UNCHANGED allVars
    BY <1>8 DEF allVars
  <1> QED
    BY <1>1, <1>2, <1>3, <1>4, <1>5, <1>6, <1>7, <1>8 DEF NextDelivery

(* What was proved of the protocol holds while it carries packets.         *)
THEOREM ProtocolKept == SpecDelivery => Spec /\ []Inductive
  <1>1. InitDelivery => Init /\ Inductive
    BY InitInductive DEF InitDelivery
  <1>2. Inductive /\ [NextDelivery]_allVars => [Next]_vars /\ Inductive'
    BY StepIsProtocolStep, NextInductive, StutterInductive
  <1> QED
    BY <1>1, <1>2, PTL DEF SpecDelivery, Spec

-----------------------------------------------------------------------------
(* The buffers.  A handoff that is issued at the boundary that finishes    *)
(* the last one of its bucket starts with nothing buffered: that is what   *)
(* lets the release of the last empty the buffer.                          *)
FreshReissue ==
    phase = "loop" => \A b \in DOMAIN finished \cap DOMAIN pending :
                         pending[b].buffered.pkts = 0

BufferInductive ==
    /\ buffer \in [Buckets -> Seq(Nat)]
    /\ generated \in [Buckets -> Nat]
    /\ BufferMatchesHandoff
    /\ FreshReissue

(* A redirection adds to a buffer as many packets as its handoff counts.   *)
LEMMA StartBinBuffers ==
    ASSUME Inductive, BufferInductive, StartBin
    PROVE  BufferInductive'
  <1>1. PICK arrival \in [Buckets -> Loads] :
           LET fit == [b \in DOMAIN pending |->
                          Fitting(pending[b], arrival[b]).pkts]
           IN  /\ _apply_handoff_redirection(arrival)
               /\ buffer' = [b \in Buckets |->
                     IF b \in affected_buckets
                     THEN buffer[b] \o NextNumbers(b, fit[b]) ELSE buffer[b]]
               /\ generated' = [b \in Buckets |->
                     IF b \in affected_buckets
                     THEN generated[b] + arrival[b].pkts ELSE generated[b]]
    BY DEF StartBin
  <1> DEFINE fit == [b \in DOMAIN pending |->
                        Fitting(pending[b], arrival[b]).pkts]
  <1>2. phase = "bins" /\ phase' = phase /\ UNCHANGED finished
    BY DEF StartBin
  <1>3. \A b \in DOMAIN pending :
           /\ b \in Buckets /\ arrival[b] \in [bytes : Nat, pkts : Nat]
           /\ fit[b] \in Nat
           /\ pending[b].buffered.pkts \in Nat
           /\ pending'[b].buffered.pkts = pending[b].buffered.pkts + fit[b]
    <2> SUFFICES ASSUME NEW b \in DOMAIN pending
                 PROVE  /\ b \in Buckets /\ arrival[b] \in [bytes : Nat, pkts : Nat]
                        /\ fit[b] \in Nat
                        /\ pending[b].buffered.pkts \in Nat
                        /\ pending'[b].buffered.pkts = pending[b].buffered.pkts + fit[b]
      OBVIOUS
    <2>1. b \in Buckets /\ pending[b] \in HandoffRecord
      BY DEF Inductive, TypeOK
    <2>2. arrival[b] \in [bytes : Nat, pkts : Nat]
      BY <2>1, HandoffAssumption
    <2>3. Fitting(pending[b], arrival[b]) \in Traffic
      BY <2>1, <2>2, FittingBounded DEF Traffic, Inductive, BufferAccounted
    <2>4. pending[b].buffered \in Traffic
      BY <2>1 DEF HandoffRecord
    <2>5. pending'[b].buffered
            = PlusTraffic(pending[b].buffered, Fitting(pending[b], arrival[b]))
      BY <1>1, <2>1 DEF _apply_handoff_redirection, absorb_bucket_traffic,
                        HandoffRecord
    <2> QED
      BY <2>1, <2>2, <2>3, <2>4, <2>5 DEF PlusTraffic, Traffic
  <1>4. DOMAIN pending' = DOMAIN pending
    BY <1>1 DEF _apply_handoff_redirection
  <1>5. \A b \in DOMAIN pending :
           /\ NextNumbers(b, fit[b]) \in Seq(Nat)
           /\ Len(NextNumbers(b, fit[b])) = fit[b]
    <2> SUFFICES ASSUME NEW b \in DOMAIN pending
                 PROVE  /\ NextNumbers(b, fit[b]) \in Seq(Nat)
                        /\ Len(NextNumbers(b, fit[b])) = fit[b]
      OBVIOUS
    <2>1. fit[b] \in Nat /\ generated[b] \in Nat
      BY <1>3 DEF BufferInductive
    <2>2. \A n \in Nat : /\ NextNumbers(b, n) \in Seq(Nat)
                         /\ Len(NextNumbers(b, n)) = n
      BY <2>1 DEF NextNumbers
    <2> HIDE DEF fit
    <2> QED
      BY <2>1, <2>2
  <1>6. buffer' \in [Buckets -> Seq(Nat)] /\ generated' \in [Buckets -> Nat]
    BY <1>1, <1>3, <1>5 DEF BufferInductive, affected_buckets
  <1>7. \A b \in DOMAIN pending : Len(buffer'[b]) = Len(buffer[b]) + fit[b]
    BY <1>1, <1>3, <1>5 DEF BufferInductive, affected_buckets
  <1>8. BufferMatchesHandoff'
    BY <1>1, <1>2, <1>3, <1>4, <1>7
       DEF BufferInductive, BufferMatchesHandoff, Counted, affected_buckets
  <1> QED
    BY <1>2, <1>6, <1>8 DEF BufferInductive, FreshReissue

(* A handoff that finishes keeps its buffer until the release.             *)
LEMMA TickBuffers ==
    ASSUME Inductive, BufferInductive, tick_handoffs, UNCHANGED deliveryVars
    PROVE  BufferInductive'
  <1>1. /\ phase = "bins" /\ phase' = "step"
        /\ finished' = [b \in Expired |-> Elapsed(pending[b])]
        /\ pending' = [b \in DOMAIN pending \ Expired |-> Elapsed(pending[b])]
        /\ UNCHANGED <<buffer, generated>>
    BY DEF tick_handoffs, deliveryVars
  <1>2. Expired \subseteq DOMAIN pending
    BY DEF Expired
  <1>3. \A b \in DOMAIN pending : Elapsed(pending[b]).buffered = pending[b].buffered
    BY DEF Elapsed, Inductive, TypeOK, HandoffRecord
  <1> QED
    BY <1>1, <1>2, <1>3
       DEF BufferInductive, BufferMatchesHandoff, Counted, FreshReissue

(* Classifying the queues changes no buffer.                               *)
LEMMA StepBeginBuffers ==
    ASSUME Inductive, BufferInductive, step_begin, UNCHANGED deliveryVars
    PROVE  BufferInductive'
  BY DEF step_begin, deliveryVars, BufferInductive, BufferMatchesHandoff, Counted,
         FreshReissue, Inductive, Boundary

(* A new handoff starts with nothing buffered, also if its bucket's last   *)
(* handoff is still to be released.                                        *)
LEMMA IssueBuffers ==
    ASSUME Inductive, BufferInductive, NEW b \in Buckets, NEW dst \in Queues,
           BoundaryIssue(b, dst)
    PROVE  BufferInductive'
  <1>1. /\ phase = "loop" /\ Candidate(b, dst) /\ issue(b, newTable[b], dst)
        /\ UNCHANGED <<finished, buffer, generated>>
    BY DEF BoundaryIssue, Issue, deliveryVars
  <1>2. b \notin DOMAIN pending
    BY <1>1, CandidateNotPending
  <1>3. PICK latency \in Latencies :
           /\ pending' = [c \in DOMAIN pending \cup {b} |->
                             IF c = b THEN NewHandoff(newTable[b], dst, epoch, latency)
                                      ELSE pending[c]]
           /\ phase' = phase
    BY <1>1, <1>2 DEF issue
  <1>4. pending'[b].buffered.pkts = 0
    BY <1>3 DEF NewHandoff, NoTraffic
  <1> QED
    BY <1>1, <1>2, <1>3, <1>4
       DEF BufferInductive, BufferMatchesHandoff, Counted, FreshReissue

(* The release empties the buffers of the finished handoffs and no other.  *)
LEMMA BoundaryEndBuffers ==
    ASSUME Inductive, BufferInductive, BoundaryEnd
    PROVE  BufferInductive'
  <1>1. /\ phase = "loop" /\ phase' = "bins" /\ UNCHANGED <<pending, finished>>
        /\ buffer' = [b \in Buckets |->
                         IF b \in DOMAIN finished THEN << >> ELSE buffer[b]]
        /\ UNCHANGED generated
    BY DEF BoundaryEnd, _on_stateful_epoch_boundary_end, release
  <1>2. buffer' \in [Buckets -> Seq(Nat)]
    BY <1>1 DEF BufferInductive
  <1>3. BufferMatchesHandoff'
    BY <1>1 DEF BufferInductive, BufferMatchesHandoff, Counted, FreshReissue
  <1> QED
    BY <1>1, <1>2, <1>3 DEF BufferInductive, FreshReissue

(* A packet that is delivered changes no buffer.                           *)
LEMMA DeliverBuffers ==
    ASSUME BufferInductive, NEW b \in Buckets, Deliver(b)
    PROVE  BufferInductive'
  <1>1. /\ UNCHANGED <<pending, finished, phase, buffer>>
        /\ generated' = [generated EXCEPT ![b] = @ + 1]
    BY DEF Deliver, vars
  <1> QED
    BY <1>1 DEF BufferInductive, BufferMatchesHandoff, Counted, FreshReissue

(* So a buffer holds what its handoff counts in every step.                *)
LEMMA BuffersStep ==
    Inductive /\ BufferInductive /\ [NextDelivery]_allVars => BufferInductive'
  <1> SUFFICES ASSUME Inductive, BufferInductive, [NextDelivery]_allVars
               PROVE  BufferInductive'
    OBVIOUS
  <1>1. ASSUME UNCHANGED <<pending, finished, phase, buffer, generated>>
        PROVE  BufferInductive'
    BY <1>1 DEF BufferInductive, BufferMatchesHandoff, Counted, FreshReissue
  <1>2. CASE StartBin
    BY <1>2, StartBinBuffers
  <1>3. CASE \E b \in Buckets : Deliver(b)
    BY <1>3, DeliverBuffers
  <1>4. CASE \E q \in Queues : Serve(q)
    BY <1>1, <1>4 DEF Serve, vars
  <1>5. CASE BoundaryBegin
    BY <1>5, TickBuffers, StepBeginBuffers DEF BoundaryBegin
  <1>6. CASE \E b \in Buckets, dst \in Queues : BoundaryIssue(b, dst)
    BY <1>6, IssueBuffers
  <1>7. CASE BoundaryEnd
    BY <1>7, BoundaryEndBuffers
  <1>8. CASE DeliveryDone
    BY <1>1, <1>8 DEF DeliveryDone, Done, vars, deliveryVars
  <1>9. CASE UNCHANGED allVars
    BY <1>1, <1>9 DEF allVars, vars, deliveryVars
  <1> QED
    BY <1>2, <1>3, <1>4, <1>5, <1>6, <1>7, <1>8, <1>9 DEF NextDelivery

-----------------------------------------------------------------------------
(* How many packets of a bucket a ring holds, and what the operations on   *)
(* rings do to the number.                                                 *)
Places(s, b) == {i \in 1..Len(s) : s[i].bucket = b}

Count(s, b) == Cardinality(Places(s, b))

(* The packets of a bucket in a ring are finitely many.                    *)
LEMMA PlacesFinite ==
    ASSUME NEW R, NEW s \in Seq(R), NEW b
    PROVE  IsFiniteSet(Places(s, b)) /\ Count(s, b) \in Nat
  <1>1. Len(s) \in Nat
    BY LenProperties
  <1>2. IsFiniteSet(1..Len(s)) /\ Places(s, b) \in SUBSET (1..Len(s))
    BY <1>1, FS_Interval DEF Places
  <1> QED
    BY <1>2, FS_Subset, FS_CardinalityType DEF Count

(* An admitted packet adds one to the count of its bucket only.            *)
LEMMA CountAppend ==
    ASSUME NEW R, NEW s \in Seq(R), NEW p \in R, NEW b
    PROVE  Count(Append(s, p), b) = Count(s, b) + (IF p.bucket = b THEN 1 ELSE 0)
  <1> DEFINE n == Len(s)
             t == Append(s, p)
  <1>1. /\ n \in Nat /\ Len(t) = n + 1 /\ t[n + 1] = p
        /\ \A i \in 1..n : t[i] = s[i]
    BY LenProperties, AppendProperties
  <1> HIDE DEF n, t
  <1>2. CASE p.bucket = b
    <2>1. Places(t, b) = Places(s, b) \cup {n + 1}
      BY <1>1, <1>2 DEF Places, n
    <2>2. n + 1 \notin Places(s, b)
      BY <1>1 DEF Places, n
    <2>3. Cardinality(Places(s, b) \cup {n + 1}) = Cardinality(Places(s, b)) + 1
      BY <2>2, PlacesFinite, FS_AddElement
    <2> QED
      BY <1>2, <2>1, <2>3 DEF Count, t
  <1>3. CASE p.bucket # b
    <2>1. Places(t, b) = Places(s, b)
      BY <1>1, <1>3 DEF Places, n
    <2> QED
      BY <1>3, <2>1, PlacesFinite DEF Count, t
  <1> QED
    BY <1>2, <1>3

(* The packet at the head leaves the count of its bucket only.             *)
LEMMA CountTail ==
    ASSUME NEW R, NEW s \in Seq(R), s # << >>, NEW b
    PROVE  Count(s, b) = Count(Tail(s), b) + (IF Head(s).bucket = b THEN 1 ELSE 0)
  <1> DEFINE t == Tail(s)
             rest == Places(s, b) \ {1}
             f == [i \in Places(t, b) |-> i + 1]
  <1>1. /\ Len(s) \in Nat \ {0} /\ Len(t) = Len(s) - 1 /\ t \in Seq(R)
        /\ \A i \in 1..Len(t) : t[i] = s[i + 1]
        /\ Head(s) = s[1]
    BY HeadTailProperties, EmptySeq
  <1>2. f \in Bijection(Places(t, b), rest)
    <2> HIDE DEF t
    <2>1. f \in [Places(t, b) -> rest]
      BY <1>1 DEF Places
    <2>2. \A i, j \in Places(t, b) : f[i] = f[j] => i = j
      BY <1>1 DEF Places
    <2>3. ASSUME NEW k \in rest PROVE \E i \in Places(t, b) : f[i] = k
      <3>1. k - 1 \in Places(t, b)
        BY <1>1, <2>3 DEF Places
      <3>2. f[k - 1] = k
        BY <3>1, <2>3, <1>1 DEF Places
      <3> QED
        BY <3>1, <3>2
    <2> HIDE DEF f, rest
    <2> QED
      BY <2>1, <2>2, <2>3 DEF Bijection, Injection, IsInjective, Surjection
  <1> HIDE DEF t, f, rest
  <1>3. Cardinality(rest) = Count(t, b)
    BY <1>1, <1>2, PlacesFinite, FS_Bijection DEF Count, ExistsBijection
  <1>4. 1 \in Places(s, b) <=> Head(s).bucket = b
    BY <1>1 DEF Places
  <1>5. Cardinality(rest) = IF 1 \in Places(s, b) THEN Count(s, b) - 1 ELSE Count(s, b)
    BY PlacesFinite, FS_RemoveElement DEF rest, Count
  <1> QED
    BY <1>3, <1>4, <1>5, PlacesFinite DEF t

(* A release adds to the count of its bucket what it releases,             *)
LEMMA CountConcat ==
    ASSUME NEW R, NEW s \in Seq(R), NEW r \in Seq(R), NEW c,
           \A i \in 1..Len(r) : r[i].bucket = c
    PROVE  Count(s \o r, c) = Count(s, c) + Len(r)
  <1> DEFINE t == s \o r
             new == (Len(s) + 1)..(Len(s) + Len(r))
  <1>1. /\ Len(s) \in Nat /\ Len(r) \in Nat /\ Len(t) = Len(s) + Len(r)
        /\ \A i \in 1..Len(t) : t[i] = IF i <= Len(s) THEN s[i] ELSE r[i - Len(s)]
    BY LenProperties, ConcatProperties
  <1> HIDE DEF t
  <1>2. \A i \in new : i \in 1..Len(t) /\ ~(i <= Len(s)) /\ i - Len(s) \in 1..Len(r)
    BY <1>1
  <1>3. \A i \in new : t[i].bucket = c
    BY <1>1, <1>2
  <1>4. \A i \in 1..Len(s) : i \in 1..Len(t) /\ t[i] = s[i]
    BY <1>1
  <1>5. 1..Len(t) = (1..Len(s)) \cup new
    BY <1>1
  <1>6. Count(t, c) = Count(s, c) + Len(r)
    <2>1. Places(t, c) = Places(s, c) \cup new
      <3>1. \A i \in Places(t, c) : i \in Places(s, c) \cup new
        BY <1>4, <1>5 DEF Places
      <3>2. \A i \in Places(s, c) : i \in Places(t, c)
        BY <1>4 DEF Places
      <3>3. \A i \in new : i \in Places(t, c)
        BY <1>2, <1>3 DEF Places
      <3> HIDE DEF new
      <3> QED
        BY <3>1, <3>2, <3>3
    <2>2. Places(s, c) \cap new = {}
      <3>1. \A i \in Places(s, c) : i \in Int /\ i <= Len(s)
        BY <1>1 DEF Places
      <3>2. \A i \in new : ~(i <= Len(s))
        BY <1>2
      <3> HIDE DEF new
      <3> QED
        BY <3>1, <3>2
    <2>3. IsFiniteSet(new) /\ Cardinality(new) = Len(r)
      <3> DEFINE from == Len(s) + 1
                 to == Len(s) + Len(r)
      <3>1. from \in Int /\ to \in Int /\ to - from + 1 = Len(r) /\ (from > to <=> Len(r) = 0)
        BY <1>1
      <3> HIDE DEF from, to
      <3>2. IsFiniteSet(from..to)
            /\ Cardinality(from..to) = IF from > to THEN 0 ELSE to - from + 1
        BY <3>1, FS_Interval
      <3> QED
        BY <3>1, <3>2 DEF from, to
    <2>4. Cardinality({}) = 0
      BY FS_EmptySet
    <2> HIDE DEF new
    <2>5. Cardinality(Places(s, c) \cup new) = Count(s, c) + Len(r) - Cardinality({})
      BY <2>2, <2>3, PlacesFinite, FS_Union DEF Count
    <2> QED
      BY <1>1, <2>1, <2>4, <2>5, PlacesFinite DEF Count
  <1> QED
    BY <1>6 DEF t

(* and nothing to the count of another.                                    *)
LEMMA CountConcatOther ==
    ASSUME NEW R, NEW s \in Seq(R), NEW r \in Seq(R), NEW b, NEW c, b # c,
           \A i \in 1..Len(r) : r[i].bucket = c
    PROVE  Count(s \o r, b) = Count(s, b)
  <1> DEFINE t == s \o r
             new == (Len(s) + 1)..(Len(s) + Len(r))
  <1>1. /\ Len(s) \in Nat /\ Len(r) \in Nat /\ Len(t) = Len(s) + Len(r)
        /\ \A i \in 1..Len(t) : t[i] = IF i <= Len(s) THEN s[i] ELSE r[i - Len(s)]
    BY LenProperties, ConcatProperties
  <1> HIDE DEF t
  <1>2. \A i \in new : i \in 1..Len(t) /\ ~(i <= Len(s)) /\ i - Len(s) \in 1..Len(r)
    BY <1>1
  <1>3. \A i \in new : t[i].bucket = c
    BY <1>1, <1>2
  <1>4. \A i \in 1..Len(s) : i \in 1..Len(t) /\ t[i] = s[i]
    BY <1>1
  <1>5. 1..Len(t) = (1..Len(s)) \cup new
    BY <1>1
  <1>6. Places(t, b) = Places(s, b)
    BY <1>3, <1>4, <1>5 DEF Places
  <1> QED
    BY <1>6 DEF Count, t

-----------------------------------------------------------------------------
(* What holds of the packets besides the buffers.  A bucket in transition  *)
(* has no packets left to deliver, nor has any at the boundary; what is    *)
(* buffered of a bucket was generated after everything of it in the rings. *)
PacketRecord == [bucket : Buckets, num : Nat]

DeliveryType ==
    /\ ring \in [Queues -> Seq(PacketRecord)]
    /\ \A q \in Queues : Len(ring[q]) <= D_q
    /\ todo \in [Buckets -> Nat]
    /\ served \in [Buckets -> Nat] /\ lost \in [Buckets -> Nat]

Withheld ==
    /\ phase # "bins" => Delivered
    /\ \A b \in DOMAIN pending : todo[b] = 0

RingsBeforeBuffers ==
    \A q \in Queues : \A i \in 1..Len(ring[q]) :
        LET p == ring[q][i]
        IN  /\ p.num <= generated[p.bucket]
            /\ \A k \in 1..Len(buffer[p.bucket]) : p.num < buffer[p.bucket][k]

BuffersInOrder ==
    \A b \in Buckets :
        /\ \A k \in 1..Len(buffer[b]) : buffer[b][k] <= generated[b]
        /\ \A k, l \in 1..Len(buffer[b]) : k < l => buffer[b][k] < buffer[b][l]

NumbersInOrder == OrderedInRing /\ RingsBeforeBuffers /\ BuffersInOrder

(* At the start nothing is on its way.                                     *)
LEMMA DeliveryInit ==
    ASSUME InitDelivery
    PROVE  DeliveryType /\ Withheld /\ PacketsConserved /\ NumbersInOrder
  <1>1. /\ ring = [q \in Queues |-> << >>] /\ buffer = [b \in Buckets |-> << >>]
        /\ todo = [b \in Buckets |-> 0] /\ generated = [b \in Buckets |-> 0]
        /\ served = [b \in Buckets |-> 0] /\ lost = [b \in Buckets |-> 0]
        /\ phase = "bins" /\ DOMAIN pending = {}
    BY DEF InitDelivery, Init
  <1>2. << >> \in Seq(PacketRecord) /\ Len(<< >>) = 0
    BY EmptySeq
  <1>3. DeliveryType
    BY <1>1, <1>2, StatefulDeliveryAssumption DEF DeliveryType
  <1>4. Withheld
    BY <1>1 DEF Withheld
  <1>5. NumbersInOrder
    BY <1>1, <1>2 DEF NumbersInOrder, OrderedInRing, RingsBeforeBuffers, BuffersInOrder
  <1>6. ASSUME NEW b \in Buckets PROVE InRings(b) = 0
    <2>1. \A q \in Queues : {i \in 1..Len(ring[q]) : ring[q][i].bucket = b} = {}
      BY <1>1, <1>2
    <2>2. \A q \in Queues : InRing(b, q) = 0
      BY <2>1, FS_EmptySet DEF InRing
    <2> DEFINE f == [q \in Queues |-> InRing(b, q)]
    <2>3. DOMAIN f = Queues /\ \A q \in Queues : f[q] = 0
      BY <2>2
    <2> HIDE DEF f
    <2>4. SumFunctionOnSet(f, Queues) = 0
      BY <2>3, SumZero, HandoffAssumption
    <2> QED
      BY <2>3, <2>4 DEF InRings, SumFunction, f
  <1>7. PacketsConserved
    BY <1>1, <1>2, <1>6 DEF PacketsConserved
  <1> QED
    BY <1>3, <1>4, <1>5, <1>7

(* InRing counts in one ring, InRings in all.                              *)
LEMMA InRingCounts == \A b, q : InRing(b, q) = Count(ring[q], b)
  BY DEF InRing, Count, Places

(* Both are natural numbers.                                               *)
LEMMA InRingNatural ==
    ASSUME DeliveryType
    PROVE  \A b \in Buckets, q \in Queues : InRing(b, q) \in Nat
  BY InRingCounts, PlacesFinite DEF DeliveryType

(* So is the number in all rings.                                          *)
LEMMA InRingsNatural ==
    ASSUME DeliveryType, NEW b \in Buckets
    PROVE  InRings(b) \in Nat
  <1> DEFINE f == [q \in Queues |-> InRing(b, q)]
  <1>1. DOMAIN f = Queues /\ \A q \in Queues : f[q] \in Nat
    BY InRingNatural
  <1> HIDE DEF f
  <1>2. SumFunctionOnSet(f, Queues) \in Nat
    BY <1>1, SumNatural, HandoffAssumption
  <1> QED
    BY <1>1, <1>2 DEF InRings, SumFunction, f

(* When the count of one ring changes, the sum changes by as much.         *)
LEMMA InRingsChanged ==
    ASSUME DeliveryType, DeliveryType', NEW b \in Buckets, NEW q \in Queues,
           \A r \in Queues \ {q} : InRing(b, r)' = InRing(b, r)
    PROVE  InRings(b)' = InRings(b) + InRing(b, q)' - InRing(b, q)
  <1> DEFINE f == [r \in Queues |-> InRing(b, r)]
             g == [r \in Queues |-> InRing(b, r)']
  <1>1. /\ \A r \in Queues : InRing(b, r) \in Nat
        /\ \A r \in Queues : InRing(b, r)' \in Nat
    <2>1. \A r \in Queues : InRing(b, r)' = Count(ring'[r], b)
      BY DEF InRing, Count, Places
    <2>2. \A r \in Queues : ring'[r] \in Seq(PacketRecord)
      BY DEF DeliveryType
    <2>3. \A r \in Queues : Count(ring'[r], b) \in Nat
      BY <2>2, PlacesFinite
    <2> QED
      BY <2>1, <2>3, InRingNatural
  <1>2. /\ DOMAIN f = Queues /\ DOMAIN g = Queues
        /\ f[q] = InRing(b, q) /\ g[q] = InRing(b, q)'
        /\ \A r \in Queues : f[r] \in Int /\ g[r] \in Int
        /\ \A r \in Queues \ {q} : g[r] = f[r]
    BY <1>1
  <1>3. InRings(b) = SumFunctionOnSet(f, Queues) /\ InRings(b)' = SumFunctionOnSet(g, Queues)
    BY <1>2 DEF InRings, SumFunction
  <1> HIDE DEF f, g
  <1>4. SumFunctionOnSet(g, Queues) = SumFunctionOnSet(f, Queues) + g[q] - f[q]
    BY <1>2, SumChanged, HandoffAssumption
  <1> QED
    BY <1>2, <1>3, <1>4

(* When no ring's count changes, neither does the sum.                     *)
LEMMA InRingsSame ==
    ASSUME DeliveryType, NEW b \in Buckets, \A r \in Queues : InRing(b, r)' = InRing(b, r)
    PROVE  InRings(b)' = InRings(b)
  <1>1. [r \in Queues |-> InRing(b, r)'] = [r \in Queues |-> InRing(b, r)]
    OBVIOUS
  <1> QED
    BY <1>1 DEF InRings

-----------------------------------------------------------------------------
DeliveryKept ==
    DeliveryType /\ Withheld /\ PacketsConserved /\ NumbersInOrder

(* A packet in a ring is of some bucket and has its number.                *)
LEMMA InTheRing ==
    ASSUME DeliveryType, NEW q \in Queues, NEW i \in 1..Len(ring[q])
    PROVE  /\ ring[q][i] \in PacketRecord
           /\ ring[q][i].bucket \in Buckets /\ ring[q][i].num \in Nat
  <1>1. ring[q] \in Seq(PacketRecord)
    BY DEF DeliveryType
  <1>2. ring[q][i] \in PacketRecord
    BY <1>1, ElementOfSeq
  <1> QED
    BY <1>2 DEF PacketRecord

(* A buffered packet has its number.                                       *)
LEMMA InTheBuffer ==
    ASSUME BufferInductive, NEW b \in Buckets, NEW k \in 1..Len(buffer[b])
    PROVE  buffer[b][k] \in Nat
  BY ElementOfSeq DEF BufferInductive

(* A bucket that has packets to deliver is not in transition: nothing of   *)
(* it is buffered.                                                         *)
LEMMA DeliveredUnbuffered ==
    ASSUME Withheld, BufferInductive, NEW b \in Buckets, DeliveryType, todo[b] > 0
    PROVE  phase = "bins" /\ b \notin DOMAIN pending /\ Len(buffer[b]) = 0
  <1>1. todo[b] # 0
    BY DEF DeliveryType
  <1>2. phase = "bins" /\ b \notin DOMAIN pending
    BY <1>1 DEF Withheld, Delivered
  <1> QED
    BY <1>2 DEF BufferInductive, BufferMatchesHandoff, Counted

(* Delivery of one packet: into the ring that the table names, behind all  *)
(* packets of its bucket, or lost.                                         *)
LEMMA DeliverKept ==
    ASSUME Inductive, BufferInductive, DeliveryKept, NEW b \in Buckets, Deliver(b)
    PROVE  DeliveryKept'
  <1>0. PICK q \in Queues, p \in PacketRecord :
           q = table[b] /\ p = Packet(b, generated[b] + 1)
    <2>1. table[b] \in Queues /\ generated[b] \in Nat
      BY DEF Inductive, TypeOK, BufferInductive
    <2>2. Packet(b, generated[b] + 1) \in PacketRecord
      BY <2>1 DEF Packet, PacketRecord
    <2> QED
      BY <2>1, <2>2
  <1>1. /\ todo[b] > 0 /\ todo' = [todo EXCEPT ![b] = @ - 1]
        /\ generated' = [generated EXCEPT ![b] = @ + 1]
        /\ UNCHANGED <<vars, buffer, served>>
        /\ UNCHANGED <<phase, pending>>
    BY DEF Deliver, vars
  <1>2. /\ DeliveryType /\ Withheld /\ PacketsConserved
        /\ OrderedInRing /\ RingsBeforeBuffers /\ BuffersInOrder
    BY DEF DeliveryKept, NumbersInOrder
  <1>3. q \in Queues /\ generated[b] \in Nat /\ todo[b] \in Nat /\ lost[b] \in Nat
        /\ generated \in [Buckets -> Nat] /\ served \in [Buckets -> Nat]
    BY <1>2 DEF DeliveryType, Inductive, TypeOK, BufferInductive
  <1>4. phase = "bins" /\ b \notin DOMAIN pending /\ Len(buffer[b]) = 0
    BY <1>1, <1>2, DeliveredUnbuffered
  <1>5. p \in PacketRecord /\ p.bucket = b /\ p.num = generated[b] + 1
    BY <1>0 DEF Packet
  <1>6. Withheld'
    BY <1>1, <1>2, <1>4 DEF Withheld, DeliveryType
  <1>7. BuffersInOrder'
    <2> SUFFICES ASSUME NEW c \in Buckets
                 PROVE  /\ \A k \in 1..Len(buffer[c]) : buffer[c][k] <= generated'[c]
                        /\ \A k, l \in 1..Len(buffer[c]) : k < l => buffer[c][k] < buffer[c][l]
      BY <1>1 DEF BuffersInOrder
    <2>1. CASE c = b
      BY <1>4, <2>1
    <2>2. CASE c # b
      BY <1>1, <1>2, <1>3, <2>2 DEF BuffersInOrder
    <2> QED
      BY <2>1, <2>2
  <1>8. CASE /\ Len(ring[q]) < D_q
             /\ ring' = [ring EXCEPT ![q] = Append(@, p)]
             /\ UNCHANGED lost
    <2>1. /\ ring'[q] = Append(ring[q], p)
          /\ \A r \in Queues \ {q} : ring'[r] = ring[r]
          /\ DOMAIN ring' = Queues
      BY <1>2, <1>3, <1>8 DEF DeliveryType
    <2>2. /\ ring[q] \in Seq(PacketRecord) /\ Len(ring[q]) \in Nat
          /\ ring'[q] \in Seq(PacketRecord) /\ Len(ring'[q]) = Len(ring[q]) + 1
          /\ ring'[q][Len(ring[q]) + 1] = p
          /\ \A i \in 1..Len(ring[q]) : ring'[q][i] = ring[q][i]
      <3>1. ring[q] \in Seq(PacketRecord)
        BY <1>2, <1>3 DEF DeliveryType
      <3> QED
        BY <1>5, <2>1, <3>1, AppendProperties, LenProperties
    <2>3. DeliveryType'
      <3>1. ring' \in [Queues -> Seq(PacketRecord)]
        BY <1>2, <1>8, <2>2, <2>1 DEF DeliveryType
      <3>2. \A r \in Queues : Len(ring'[r]) <= D_q
        BY <1>2, <1>8, <2>1, <2>2, StatefulDeliveryAssumption DEF DeliveryType
      <3>3. todo' \in [Buckets -> Nat]
        BY <1>1, <1>2, <1>3 DEF DeliveryType
      <3> QED
        BY <1>1, <1>2, <1>8, <3>1, <3>2, <3>3 DEF DeliveryType
    <2>4. PacketsConserved'
      <3> SUFFICES ASSUME NEW c \in Buckets
                   PROVE  generated'[c] = served[c] + lost[c] + InRings(c)' + Len(buffer[c])
        BY <1>1, <1>8 DEF PacketsConserved
      <3>1. \A r \in Queues \ {q} : InRing(c, r)' = InRing(c, r)
        BY <2>1 DEF InRing
      <3>2. InRing(c, q)' = InRing(c, q) + (IF c = b THEN 1 ELSE 0)
        <4>1. Count(Append(ring[q], p), c) = Count(ring[q], c) + (IF p.bucket = c THEN 1 ELSE 0)
          BY <1>5, <2>2, CountAppend
        <4>2. InRing(c, q) = Count(ring[q], c) /\ InRing(c, q)' = Count(ring'[q], c)
          BY DEF InRing, Count, Places
        <4> QED
          BY <1>5, <2>1, <4>1, <4>2
      <3>3. InRings(c)' = InRings(c) + InRing(c, q)' - InRing(c, q)
        BY <1>2, <1>3, <2>3, <3>1, InRingsChanged
      <3>4. /\ InRings(c) \in Nat /\ InRing(c, q) \in Nat /\ served[c] \in Nat /\ lost[c] \in Nat
            /\ Len(buffer[c]) \in Nat
        BY <1>2, <1>3, InRingsNatural, InRingNatural, LenProperties
           DEF DeliveryType, BufferInductive
      <3>5. generated[c] = served[c] + lost[c] + InRings(c) + Len(buffer[c])
        BY <1>2 DEF PacketsConserved
      <3>6. generated'[c] = generated[c] + (IF c = b THEN 1 ELSE 0)
        BY <1>1, <1>3
      <3>7. PICK d \in Nat : d = IF c = b THEN 1 ELSE 0
        OBVIOUS
      <3>8. InRings(c)' = InRings(c) + d /\ generated'[c] = generated[c] + d
        BY <3>2, <3>3, <3>4, <3>6, <3>7
      <3>9. PICK s \in Nat, l \in Nat, r \in Nat, n \in Nat :
               /\ s = served[c] /\ l = lost[c] /\ r = InRings(c)
               /\ n = Len(buffer[c])
        BY <3>4
      <3>10. (s + l + r + n) + d = s + l + (r + d) + n
        OBVIOUS
      <3> QED
        BY <3>5, <3>8, <3>9, <3>10
    <2>5. ASSUME NEW r \in Queues, NEW i \in 1..Len(ring'[r])
          PROVE  \/ i \in 1..Len(ring[r]) /\ ring'[r][i] = ring[r][i]
                 \/ r = q /\ i = Len(ring[q]) + 1 /\ ring'[r][i] = p
      BY <2>1, <2>2, <2>5
    <2>6. OrderedInRing'
      <3> SUFFICES ASSUME NEW r \in Queues, NEW i \in 1..Len(ring'[r]),
                          NEW j \in 1..Len(ring'[r]), i < j,
                          ring'[r][i].bucket = ring'[r][j].bucket
                   PROVE  ring'[r][i].num < ring'[r][j].num
        BY DEF OrderedInRing
      <3>1. CASE j \in 1..Len(ring[r]) /\ ring'[r][j] = ring[r][j]
        <4>1. Len(ring[r]) \in Nat /\ Len(ring'[r]) \in Nat
          BY <1>2, <2>3, LenProperties DEF DeliveryType
        <4>2. i \in 1..Len(ring[r])
          BY <3>1, <4>1
        <4>3. ring'[r][i] = ring[r][i]
          BY <2>1, <2>2, <4>2
        <4> QED
          BY <1>2, <3>1, <4>2, <4>3 DEF OrderedInRing
      <3>2. CASE r = q /\ j = Len(ring[q]) + 1 /\ ring'[r][j] = p
        <4>1. i \in 1..Len(ring[q]) /\ ring'[r][i] = ring[q][i]
          BY <2>2, <3>2
        <4>2. ring[q][i].num <= generated[ring[q][i].bucket]
          BY <1>2, <1>3, <4>1 DEF RingsBeforeBuffers
        <4>3. ring[q][i].num \in Nat
          BY <1>2, <1>3, <4>1, InTheRing
        <4> QED
          BY <1>3, <1>5, <3>2, <4>1, <4>2, <4>3
      <3> QED
        BY <2>5, <3>1, <3>2
    <2>7. RingsBeforeBuffers'
      <3> SUFFICES ASSUME NEW r \in Queues, NEW i \in 1..Len(ring'[r])
                   PROVE  LET x == ring'[r][i]
                          IN  /\ x.num <= generated'[x.bucket]
                              /\ \A k \in 1..Len(buffer[x.bucket]) : x.num < buffer[x.bucket][k]
        BY <1>1 DEF RingsBeforeBuffers
      <3>1. CASE i \in 1..Len(ring[r]) /\ ring'[r][i] = ring[r][i]
        <4>1. ring[r][i].bucket \in Buckets /\ ring[r][i].num \in Nat
          BY <1>2, <3>1, InTheRing
        <4>2. generated[ring[r][i].bucket] <= generated'[ring[r][i].bucket]
          BY <1>1, <1>3, <4>1
        <4>3. generated[ring[r][i].bucket] \in Nat /\ generated'[ring[r][i].bucket] \in Nat
          BY <1>1, <1>3, <4>1
        <4>4. /\ ring[r][i].num <= generated[ring[r][i].bucket]
              /\ \A k \in 1..Len(buffer[ring[r][i].bucket]) :
                    ring[r][i].num < buffer[ring[r][i].bucket][k]
          BY <1>2, <3>1 DEF RingsBeforeBuffers
        <4> QED
          BY <3>1, <4>1, <4>2, <4>3, <4>4
      <3>2. CASE ring'[r][i] = p
        BY <1>1, <1>3, <1>4, <1>5, <3>2
      <3> QED
        BY <2>5, <3>1, <3>2
    <2> QED
      BY <1>6, <1>7, <2>3, <2>4, <2>6, <2>7 DEF DeliveryKept, NumbersInOrder
  <1>9. CASE lost' = [lost EXCEPT ![b] = @ + 1] /\ UNCHANGED ring
    <2>1. DeliveryType'
      BY <1>1, <1>2, <1>3, <1>9 DEF DeliveryType
    <2>2. PacketsConserved'
      <3> SUFFICES ASSUME NEW c \in Buckets
                   PROVE  generated'[c] = served[c] + lost'[c] + InRings(c)' + Len(buffer[c])
        BY <1>1, <1>9 DEF PacketsConserved
      <3>1. InRings(c)' = InRings(c)
        BY <1>9 DEF InRings, InRing
      <3>2. InRings(c) \in Nat /\ served[c] \in Nat /\ lost[c] \in Nat /\ Len(buffer[c]) \in Nat
        BY <1>2, <1>3, InRingsNatural, LenProperties DEF DeliveryType, BufferInductive
      <3>3. generated[c] = served[c] + lost[c] + InRings(c) + Len(buffer[c])
        BY <1>2 DEF PacketsConserved
      <3>4. /\ generated'[c] = generated[c] + (IF c = b THEN 1 ELSE 0)
            /\ lost'[c] = lost[c] + (IF c = b THEN 1 ELSE 0)
        BY <1>1, <1>2, <1>3, <1>9 DEF DeliveryType
      <3>5. PICK s \in Nat, l \in Nat, r \in Nat, n \in Nat, d \in Nat :
               /\ s = served[c] /\ l = lost[c] /\ r = InRings(c)
               /\ n = Len(buffer[c]) /\ d = IF c = b THEN 1 ELSE 0
        BY <3>2
      <3>6. generated'[c] = (s + l + r + n) + d /\ lost'[c] = l + d
        BY <3>3, <3>4, <3>5
      <3>7. (s + l + r + n) + d = s + (l + d) + r + n
        OBVIOUS
      <3> QED
        BY <3>1, <3>5, <3>6, <3>7
    <2>3. OrderedInRing'
      BY <1>2, <1>9 DEF OrderedInRing
    <2>4. RingsBeforeBuffers'
      <3> SUFFICES ASSUME NEW r \in Queues, NEW i \in 1..Len(ring[r])
                   PROVE  ring[r][i].num <= generated'[ring[r][i].bucket]
        BY <1>1, <1>2, <1>9 DEF RingsBeforeBuffers
      <3>1. ring[r][i].bucket \in Buckets /\ ring[r][i].num \in Nat
        BY <1>2, InTheRing
      <3>2. generated[ring[r][i].bucket] \in Nat
            /\ generated[ring[r][i].bucket] <= generated'[ring[r][i].bucket]
            /\ generated'[ring[r][i].bucket] \in Nat
        BY <1>1, <1>3, <3>1
      <3>3. ring[r][i].num <= generated[ring[r][i].bucket]
        BY <1>2 DEF RingsBeforeBuffers
      <3> QED
        BY <3>1, <3>2, <3>3
    <2> QED
      BY <1>6, <1>7, <2>1, <2>2, <2>3, <2>4 DEF DeliveryKept, NumbersInOrder
  <1> QED
    BY <1>0, <1>8, <1>9 DEF Deliver

(* Service takes the oldest packet of a ring.                              *)
LEMMA ServeKept ==
    ASSUME Inductive, BufferInductive, DeliveryKept, NEW q \in Queues, Serve(q)
    PROVE  DeliveryKept'
  <1>1. /\ phase = "bins" /\ ring[q] # << >>
        /\ ring' = [ring EXCEPT ![q] = Tail(@)]
        /\ served' = [served EXCEPT ![Head(ring[q]).bucket] = @ + 1]
        /\ UNCHANGED <<phase, pending, buffer, todo, generated, lost>>
    BY DEF Serve, vars
  <1>2. /\ DeliveryType /\ Withheld /\ PacketsConserved
        /\ OrderedInRing /\ RingsBeforeBuffers /\ BuffersInOrder
    BY DEF DeliveryKept, NumbersInOrder
  <1>3. /\ ring[q] \in Seq(PacketRecord) /\ Len(ring[q]) \in Nat \ {0}
        /\ Head(ring[q]) = ring[q][1]
        /\ Tail(ring[q]) \in Seq(PacketRecord) /\ Len(Tail(ring[q])) = Len(ring[q]) - 1
        /\ \A i \in 1..Len(Tail(ring[q])) : Tail(ring[q])[i] = ring[q][i + 1]
    <2>1. ring[q] \in Seq(PacketRecord)
      BY <1>2 DEF DeliveryType
    <2> QED
      BY <1>1, <2>1, HeadTailProperties, EmptySeq, LenProperties
  <1>4. PICK p \in PacketRecord : p = Head(ring[q]) /\ p.bucket \in Buckets
    <2>1. 1 \in 1..Len(ring[q])
      BY <1>3
    <2> QED
      BY <1>2, <1>3, <2>1, InTheRing
  <1>5. /\ ring'[q] = Tail(ring[q])
        /\ \A r \in Queues \ {q} : ring'[r] = ring[r]
        /\ DOMAIN ring' = Queues
    BY <1>1, <1>2 DEF DeliveryType
  <1>6. DeliveryType'
    <2>1. ring' \in [Queues -> Seq(PacketRecord)]
      BY <1>1, <1>2, <1>3 DEF DeliveryType
    <2>2. \A r \in Queues : Len(ring'[r]) <= D_q
      BY <1>2, <1>3, <1>5, StatefulDeliveryAssumption DEF DeliveryType
    <2>3. served' \in [Buckets -> Nat]
      BY <1>1, <1>2, <1>4 DEF DeliveryType
    <2> QED
      BY <1>1, <1>2, <2>1, <2>2, <2>3 DEF DeliveryType
  <1>7. Withheld'
    BY <1>1, <1>2 DEF Withheld, Delivered
  <1>8. PacketsConserved'
    <2> SUFFICES ASSUME NEW c \in Buckets
                 PROVE  generated[c] = served'[c] + lost[c] + InRings(c)' + Len(buffer[c])
      BY <1>1 DEF PacketsConserved
    <2>1. PICK d \in Nat : d = IF p.bucket = c THEN 1 ELSE 0
      OBVIOUS
    <2>2. \A r \in Queues \ {q} : InRing(c, r)' = InRing(c, r)
      BY <1>5 DEF InRing
    <2>3. InRing(c, q) = InRing(c, q)' + d
      <3>1. Count(ring[q], c) = Count(Tail(ring[q]), c) + d
        BY <1>1, <1>3, <1>4, <2>1, CountTail
      <3>2. InRing(c, q) = Count(ring[q], c) /\ InRing(c, q)' = Count(ring'[q], c)
        BY DEF InRing, Count, Places
      <3> QED
        BY <1>5, <3>1, <3>2
    <2>4. InRings(c)' = InRings(c) + InRing(c, q)' - InRing(c, q)
      BY <1>2, <1>6, <2>2, InRingsChanged
    <2>5. /\ InRings(c) \in Nat /\ InRing(c, q) \in Nat /\ InRing(c, q)' \in Nat
          /\ served[c] \in Nat /\ lost[c] \in Nat /\ Len(buffer[c]) \in Nat
      <3>1. InRing(c, q)' \in Nat
        <4>1. ring'[q] \in Seq(PacketRecord)
          BY <1>6 DEF DeliveryType
        <4> QED
          BY <4>1, PlacesFinite DEF InRing, Count, Places
      <3> QED
        BY <1>2, <3>1, InRingsNatural, InRingNatural, LenProperties
           DEF DeliveryType, BufferInductive
    <2>6. generated[c] = served[c] + lost[c] + InRings(c) + Len(buffer[c])
      BY <1>2 DEF PacketsConserved
    <2>7. served'[c] = served[c] + d
      BY <1>1, <1>2, <1>4, <2>1, <2>5 DEF DeliveryType
    <2>8. InRings(c) = InRings(c)' + d /\ InRings(c)' \in Int
      BY <2>1, <2>3, <2>4, <2>5
    <2>9. PICK s \in Nat, l \in Nat, r \in Int, n \in Nat :
             /\ s = served[c] /\ l = lost[c] /\ r = InRings(c)'
             /\ n = Len(buffer[c])
      BY <2>5, <2>8
    <2>10. s + l + (r + d) + n = (s + d) + l + r + n
      OBVIOUS
    <2> QED
      BY <2>6, <2>7, <2>8, <2>9, <2>10
  <1>9. ASSUME NEW r \in Queues, NEW i \in 1..Len(ring'[r])
        PROVE  \E k \in 1..Len(ring[r]) :
                  k = (IF r = q THEN i + 1 ELSE i) /\ ring'[r][i] = ring[r][k]
    <2>1. CASE r = q
      BY <1>3, <1>5, <1>9, <2>1
    <2>2. CASE r # q
      BY <1>5, <1>9, <2>2
    <2> QED
      BY <2>1, <2>2
  <1>10. OrderedInRing'
    <2> SUFFICES ASSUME NEW r \in Queues, NEW i \in 1..Len(ring'[r]),
                        NEW j \in 1..Len(ring'[r]), i < j,
                        ring'[r][i].bucket = ring'[r][j].bucket
                 PROVE  ring'[r][i].num < ring'[r][j].num
      BY DEF OrderedInRing
    <2>1. PICK k \in 1..Len(ring[r]) :
             k = (IF r = q THEN i + 1 ELSE i) /\ ring'[r][i] = ring[r][k]
      BY <1>9
    <2>2. PICK l \in 1..Len(ring[r]) :
             l = (IF r = q THEN j + 1 ELSE j) /\ ring'[r][j] = ring[r][l]
      BY <1>9
    <2>3. k < l
      BY <2>1, <2>2
    <2> QED
      BY <1>2, <2>1, <2>2, <2>3 DEF OrderedInRing
  <1>11. RingsBeforeBuffers'
    <2> SUFFICES ASSUME NEW r \in Queues, NEW i \in 1..Len(ring'[r])
                 PROVE  LET x == ring'[r][i]
                        IN  /\ x.num <= generated[x.bucket]
                            /\ \A k \in 1..Len(buffer[x.bucket]) : x.num < buffer[x.bucket][k]
      BY <1>1 DEF RingsBeforeBuffers
    <2>1. PICK k \in 1..Len(ring[r]) : ring'[r][i] = ring[r][k]
      BY <1>9
    <2> QED
      BY <1>2, <2>1 DEF RingsBeforeBuffers
  <1>12. BuffersInOrder'
    BY <1>1, <1>2 DEF BuffersInOrder
  <1> QED
    BY <1>6, <1>7, <1>8, <1>10, <1>11, <1>12 DEF DeliveryKept, NumbersInOrder

(* What changes neither the rings nor what waits for them.                 *)
LEMMA RingsUntouchedKept ==
    ASSUME DeliveryKept, UNCHANGED deliveryVars, Withheld'
    PROVE  DeliveryKept'
  <1>1. DeliveryType'
    BY DEF DeliveryKept, DeliveryType, deliveryVars
  <1>2. PacketsConserved'
    BY DEF DeliveryKept, PacketsConserved, deliveryVars, InRings, InRing
  <1>3. NumbersInOrder'
    BY DEF DeliveryKept, NumbersInOrder, OrderedInRing, RingsBeforeBuffers,
           BuffersInOrder, deliveryVars
  <1> QED
    BY <1>1, <1>2, <1>3 DEF DeliveryKept

(* The ticks and the classification leave the packets alone.               *)
LEMMA BoundaryBeginKept ==
    ASSUME Inductive, DeliveryKept, BoundaryBegin
    PROVE  DeliveryKept'
  <1>1. Delivered /\ UNCHANGED deliveryVars /\ DOMAIN pending' \subseteq Buckets
    <2>1. CASE tick_handoffs
      BY <2>1 DEF BoundaryBegin, tick_handoffs, Inductive, TypeOK
    <2>2. CASE step_begin
      BY <2>2 DEF BoundaryBegin, step_begin, Inductive, TypeOK
    <2> QED
      BY <2>1, <2>2 DEF BoundaryBegin
  <1>2. Withheld'
    BY <1>1 DEF Withheld, Delivered, deliveryVars
  <1> QED
    BY <1>1, <1>2, RingsUntouchedKept

(* So does a new handoff: its bucket has nothing left to deliver.          *)
LEMMA BoundaryIssueKept ==
    ASSUME Inductive, DeliveryKept, NEW b \in Buckets, NEW dst \in Queues,
           BoundaryIssue(b, dst)
    PROVE  DeliveryKept'
  <1>1. /\ phase = "loop" /\ Candidate(b, dst) /\ issue(b, newTable[b], dst)
        /\ UNCHANGED deliveryVars
    BY DEF BoundaryIssue, Issue
  <1>2. DOMAIN pending' \subseteq Buckets
    BY <1>1 DEF issue, Inductive, TypeOK
  <1>3. Delivered
    BY <1>1 DEF DeliveryKept, Withheld
  <1>4. Withheld'
    BY <1>1, <1>2, <1>3 DEF Withheld, Delivered, deliveryVars
  <1> QED
    BY <1>1, <1>4, RingsUntouchedKept

(* The start of a bin: the packets redirected are numbered after all that  *)
(* the rings and the buffer hold of their bucket.                          *)
LEMMA StartBinKept ==
    ASSUME Inductive, BufferInductive, DeliveryKept, StartBin
    PROVE  DeliveryKept'
  <1>1. PICK arrival \in [Buckets -> Loads] :
           LET fit == [b \in DOMAIN pending |->
                          Fitting(pending[b], arrival[b]).pkts]
           IN  /\ _apply_handoff_redirection(arrival)
               /\ buffer' = [b \in Buckets |->
                     IF b \in affected_buckets
                     THEN buffer[b] \o NextNumbers(b, fit[b]) ELSE buffer[b]]
               /\ lost' = [b \in Buckets |->
                     IF b \in affected_buckets
                     THEN lost[b] + arrival[b].pkts - fit[b] ELSE lost[b]]
               /\ generated' = [b \in Buckets |->
                     IF b \in affected_buckets
                     THEN generated[b] + arrival[b].pkts ELSE generated[b]]
               /\ todo' = [b \in Buckets |->
                     IF b \in affected_buckets THEN 0 ELSE arrival[b].pkts]
    BY DEF StartBin
  <1> DEFINE fit == [b \in DOMAIN pending |->
                        Fitting(pending[b], arrival[b]).pkts]
             new(b) == NextNumbers(b, fit[b])
  <1>2. phase = "bins" /\ phase' = phase /\ UNCHANGED <<ring, served>>
        /\ DOMAIN pending \subseteq Buckets /\ DOMAIN pending' = DOMAIN pending
    BY <1>1 DEF StartBin, _apply_handoff_redirection, Inductive, TypeOK
  <1>3. /\ DeliveryType /\ Withheld /\ PacketsConserved
        /\ OrderedInRing /\ RingsBeforeBuffers /\ BuffersInOrder
    BY DEF DeliveryKept, NumbersInOrder
  <1>4. \A b \in Buckets : /\ arrival[b].pkts \in Nat /\ generated[b] \in Nat
                           /\ buffer[b] \in Seq(Nat) /\ Len(buffer[b]) \in Nat
                           /\ lost[b] \in Nat /\ served[b] \in Nat
    BY <1>3, HandoffAssumption, LenProperties DEF BufferInductive, DeliveryType
  <1>5. \A b \in DOMAIN pending : fit[b] \in Nat /\ fit[b] <= arrival[b].pkts
    <2> SUFFICES ASSUME NEW b \in DOMAIN pending
                 PROVE  fit[b] \in Nat /\ fit[b] <= arrival[b].pkts
      OBVIOUS
    <2>1. b \in Buckets /\ pending[b] \in HandoffRecord
      BY DEF Inductive, TypeOK
    <2>2. arrival[b] \in [bytes : Nat, pkts : Nat]
      BY <2>1, HandoffAssumption
    <2>3. /\ Fitting(pending[b], arrival[b]) \in Traffic
          /\ MinusTraffic(arrival[b], Fitting(pending[b], arrival[b])) \in Traffic
      BY <2>1, <2>2, FittingBounded DEF Traffic, Inductive, BufferAccounted
    <2> QED
      BY <2>2, <2>3 DEF MinusTraffic, Traffic
  <1>6. \A b \in DOMAIN pending :
           /\ new(b) \in Seq(Nat) /\ Len(new(b)) = fit[b]
           /\ \A i \in 1..fit[b] : new(b)[i] = generated[b] + i
    <2> SUFFICES ASSUME NEW b \in DOMAIN pending
                 PROVE  /\ new(b) \in Seq(Nat) /\ Len(new(b)) = fit[b]
                        /\ \A i \in 1..fit[b] : new(b)[i] = generated[b] + i
      OBVIOUS
    <2>1. fit[b] \in Nat /\ generated[b] \in Nat
      BY <1>2, <1>4, <1>5
    <2>2. \A n \in Nat : /\ NextNumbers(b, n) \in Seq(Nat)
                         /\ Len(NextNumbers(b, n)) = n
                         /\ \A i \in 1..n : NextNumbers(b, n)[i] = generated[b] + i
      BY <2>1 DEF NextNumbers
    <2> HIDE DEF fit
    <2> QED
      BY <2>1, <2>2
  <1>7. \A b \in DOMAIN pending : buffer'[b] = buffer[b] \o new(b)
    BY <1>1, <1>2 DEF affected_buckets
  <1>8. \A b \in Buckets \ DOMAIN pending : buffer'[b] = buffer[b]
    BY <1>1 DEF affected_buckets
  <1>9. \A b \in DOMAIN pending : /\ lost'[b] = lost[b] + arrival[b].pkts - fit[b]
                                  /\ generated'[b] = generated[b] + arrival[b].pkts
    BY <1>1, <1>2 DEF affected_buckets
  <1>10. \A b \in Buckets \ DOMAIN pending : lost'[b] = lost[b] /\ generated'[b] = generated[b]
    BY <1>1 DEF affected_buckets
  <1>11. \A b \in Buckets : todo'[b] = IF b \in DOMAIN pending THEN 0 ELSE arrival[b].pkts
    BY <1>1 DEF affected_buckets
  <1>12. DOMAIN lost' = Buckets /\ DOMAIN todo' = Buckets /\ lost' = [b \in Buckets |-> lost'[b]]
         /\ todo' = [b \in Buckets |-> todo'[b]]
    BY <1>1
  <1> HIDE DEF fit, new
  <1>21. ASSUME NEW b \in DOMAIN pending
         PROVE  /\ Len(buffer'[b]) = Len(buffer[b]) + fit[b]
                /\ \A k \in 1..Len(buffer'[b]) :
                      buffer'[b][k] = IF k <= Len(buffer[b]) THEN buffer[b][k]
                                      ELSE new(b)[k - Len(buffer[b])]
    <2>1. buffer[b] \in Seq(Nat) /\ new(b) \in Seq(Nat)
      BY <1>2, <1>4, <1>6
    <2>2. /\ Len(buffer[b] \o new(b)) = Len(buffer[b]) + Len(new(b))
          /\ \A k \in 1..Len(buffer[b]) + Len(new(b)) :
                (buffer[b] \o new(b))[k] = IF k <= Len(buffer[b]) THEN buffer[b][k]
                                           ELSE new(b)[k - Len(buffer[b])]
      BY <2>1, ConcatProperties
    <2>3. Len(new(b)) = fit[b]
      BY <1>6
    <2> QED
      BY <1>7, <2>2, <2>3
  (* Where an entry of a buffer comes from.                                *)
  <1>13. ASSUME NEW b \in Buckets, NEW k \in 1..Len(buffer'[b])
         PROVE  \/ k \in 1..Len(buffer[b]) /\ buffer'[b][k] = buffer[b][k]
                \/ /\ b \in DOMAIN pending /\ k > Len(buffer[b])
                   /\ k - Len(buffer[b]) \in 1..fit[b]
                   /\ buffer'[b][k] = generated[b] + (k - Len(buffer[b]))
    <2>1. CASE b \in DOMAIN pending
      <3>1. /\ Len(buffer'[b]) = Len(buffer[b]) + fit[b]
            /\ buffer'[b][k] = IF k <= Len(buffer[b]) THEN buffer[b][k]
                               ELSE new(b)[k - Len(buffer[b])]
        BY <1>13, <1>21, <2>1
      <3>2. fit[b] \in Nat /\ Len(buffer[b]) \in Nat
        BY <1>4, <1>5, <2>1
      <3>3. CASE k <= Len(buffer[b])
        BY <1>13, <3>1, <3>2, <3>3
      <3>4. CASE k > Len(buffer[b])
        <4>1. k - Len(buffer[b]) \in 1..fit[b]
          BY <1>13, <3>1, <3>2, <3>4
        <4> QED
          BY <1>6, <2>1, <3>1, <3>2, <3>4, <4>1
      <3> QED
        BY <3>2, <3>3, <3>4, <1>13
    <2>2. CASE b \notin DOMAIN pending
      BY <1>8, <1>13, <2>2
    <2> QED
      BY <2>1, <2>2
  <1>14. DeliveryType'
    <2>1. \A b \in Buckets : lost'[b] \in Nat
      <3> SUFFICES ASSUME NEW b \in Buckets PROVE lost'[b] \in Nat
        OBVIOUS
      <3>1. CASE b \in DOMAIN pending
        BY <1>4, <1>5, <1>9, <3>1
      <3>2. CASE b \notin DOMAIN pending
        BY <1>4, <1>10, <3>2
      <3> QED
        BY <3>1, <3>2
    <2>2. \A b \in Buckets : todo'[b] \in Nat
      BY <1>4, <1>11
    <2>3. lost' \in [Buckets -> Nat] /\ todo' \in [Buckets -> Nat]
      BY <1>12, <2>1, <2>2
    <2> QED
      BY <1>2, <1>3, <2>3 DEF DeliveryType
  <1>15. Withheld'
    BY <1>2, <1>11 DEF Withheld
  <1>16. PacketsConserved'
    <2> SUFFICES ASSUME NEW b \in Buckets
                 PROVE  generated'[b] = served[b] + lost'[b] + InRings(b) + Len(buffer'[b])
      BY <1>2 DEF PacketsConserved, InRings, InRing
    <2>1. generated[b] = served[b] + lost[b] + InRings(b) + Len(buffer[b])
      BY <1>3 DEF PacketsConserved
    <2>2. InRings(b) \in Nat
      BY <1>3, InRingsNatural
    <2>3. CASE b \in DOMAIN pending
      <3>1. Len(buffer'[b]) = Len(buffer[b]) + fit[b]
        BY <1>21, <2>3
      <3>2. PICK a \in Nat, f \in Nat :
               a = arrival[b].pkts /\ f = fit[b] /\ f <= a
        BY <1>2, <1>4, <1>5, <2>3
      <3>3. PICK s \in Nat, l \in Nat, r \in Nat, n \in Nat :
               /\ s = served[b] /\ l = lost[b] /\ r = InRings(b)
               /\ n = Len(buffer[b])
        BY <1>4, <2>2
      <3>4. /\ generated'[b] = (s + l + r + n) + a /\ lost'[b] = l + a - f
            /\ Len(buffer'[b]) = n + f
        BY <1>9, <2>1, <2>3, <3>1, <3>2, <3>3
      <3>5. (s + l + r + n) + a = s + (l + a - f) + r + (n + f)
        OBVIOUS
      <3> QED
        BY <3>3, <3>4, <3>5
    <2>4. CASE b \notin DOMAIN pending
      BY <1>8, <1>10, <2>1, <2>4
    <2> QED
      BY <2>3, <2>4
  <1>17. \A b \in Buckets : generated'[b] \in Nat /\ generated[b] <= generated'[b]
    BY <1>4, <1>9, <1>10
  <1>18. RingsBeforeBuffers'
    <2> SUFFICES ASSUME NEW q \in Queues, NEW i \in 1..Len(ring[q])
                 PROVE  /\ ring[q][i].num <= generated'[ring[q][i].bucket]
                        /\ \A k \in 1..Len(buffer'[ring[q][i].bucket]) :
                              ring[q][i].num < buffer'[ring[q][i].bucket][k]
      BY <1>2 DEF RingsBeforeBuffers
    <2>1. PICK b \in Buckets, n \in Nat : b = ring[q][i].bucket /\ n = ring[q][i].num
      BY <1>3, InTheRing
    <2>2. n <= generated[b] /\ \A k \in 1..Len(buffer[b]) : n < buffer[b][k]
      BY <1>3, <2>1 DEF RingsBeforeBuffers
    <2>3. n <= generated'[b]
      BY <1>4, <1>17, <2>2
    <2>4. ASSUME NEW k \in 1..Len(buffer'[b]) PROVE n < buffer'[b][k]
      <3>1. CASE k \in 1..Len(buffer[b]) /\ buffer'[b][k] = buffer[b][k]
        BY <2>2, <3>1
      <3>2. CASE /\ b \in DOMAIN pending /\ k - Len(buffer[b]) \in 1..fit[b]
                 /\ buffer'[b][k] = generated[b] + (k - Len(buffer[b]))
        BY <1>4, <1>5, <2>2, <3>2
      <3> QED
        BY <1>13, <3>1, <3>2
    <2> QED
      BY <2>1, <2>3, <2>4
  <1>19. BuffersInOrder'
    <2> SUFFICES ASSUME NEW b \in Buckets
                 PROVE  /\ \A k \in 1..Len(buffer'[b]) : buffer'[b][k] <= generated'[b]
                        /\ \A k, l \in 1..Len(buffer'[b]) :
                              k < l => buffer'[b][k] < buffer'[b][l]
      BY DEF BuffersInOrder
    <2>1. \A k \in 1..Len(buffer[b]) : buffer[b][k] \in Nat /\ buffer[b][k] <= generated[b]
      BY <1>3, InTheBuffer DEF BuffersInOrder
    <2>2. ASSUME NEW k \in 1..Len(buffer'[b]) PROVE buffer'[b][k] <= generated'[b]
      <3>1. CASE k \in 1..Len(buffer[b]) /\ buffer'[b][k] = buffer[b][k]
        BY <1>4, <1>17, <2>1, <3>1
      <3>2. CASE /\ b \in DOMAIN pending /\ k - Len(buffer[b]) \in 1..fit[b]
                 /\ buffer'[b][k] = generated[b] + (k - Len(buffer[b]))
        BY <1>4, <1>5, <1>9, <3>2
      <3> QED
        BY <1>13, <3>1, <3>2
    <2>3. ASSUME NEW k \in 1..Len(buffer'[b]), NEW l \in 1..Len(buffer'[b]), k < l
          PROVE  buffer'[b][k] < buffer'[b][l]
      <3>1. CASE l \in 1..Len(buffer[b]) /\ buffer'[b][l] = buffer[b][l]
        <4>1. k \in 1..Len(buffer[b]) /\ buffer'[b][k] = buffer[b][k]
          BY <1>4, <1>13, <2>3, <3>1
        <4> QED
          BY <1>3, <2>3, <3>1, <4>1 DEF BuffersInOrder
      <3>2. CASE /\ b \in DOMAIN pending /\ l - Len(buffer[b]) \in 1..fit[b]
                 /\ buffer'[b][l] = generated[b] + (l - Len(buffer[b]))
        <4>1. CASE k \in 1..Len(buffer[b]) /\ buffer'[b][k] = buffer[b][k]
          BY <1>4, <1>5, <2>1, <3>2, <4>1
        <4>2. CASE buffer'[b][k] = generated[b] + (k - Len(buffer[b]))
          BY <1>4, <2>3, <3>2, <4>2
        <4> QED
          BY <1>13, <4>1, <4>2
      <3> QED
        BY <1>13, <3>1, <3>2
    <2> QED
      BY <2>2, <2>3
  <1>20. OrderedInRing'
    BY <1>2, <1>3 DEF OrderedInRing
  <1> QED
    BY <1>14, <1>15, <1>16, <1>18, <1>19, <1>20 DEF DeliveryKept, NumbersInOrder

(* What a release sends of a bucket: the first numbers of its buffer, as   *)
(* many as its destination has room for.                                   *)
LEMMA ReleasedFits ==
    ASSUME Inductive, BufferInductive, DeliveryType, NEW b \in DOMAIN finished
    PROVE  /\ Fits(b) \in Nat /\ Fits(b) <= Len(buffer[b])
           /\ Len(ring[finished[b].dst]) + Fits(b) <= D_q
           /\ Released(b) \in Seq(PacketRecord) /\ Len(Released(b)) = Fits(b)
           /\ \A i \in 1..Fits(b) : /\ i \in 1..Len(buffer[b])
                                    /\ Released(b)[i] = Packet(b, buffer[b][i])
                                    /\ Released(b)[i].bucket = b
                                    /\ Released(b)[i].num = buffer[b][i]
  <1>1. b \in Buckets /\ finished[b].dst \in Queues
    BY DEF Inductive, TypeOK, HandoffRecord
  <1>2. buffer[b] \in Seq(Nat) /\ Len(buffer[b]) \in Nat
    BY <1>1, LenProperties DEF BufferInductive
  <1>3. Len(ring[finished[b].dst]) \in Nat /\ Len(ring[finished[b].dst]) <= D_q
    BY <1>1, LenProperties DEF DeliveryType
  <1>4. /\ Fits(b) \in Nat /\ Fits(b) <= Len(buffer[b])
        /\ Len(ring[finished[b].dst]) + Fits(b) <= D_q
    <2> DEFINE n == Len(buffer[b])
               room == D_q - Len(ring[finished[b].dst])
    <2>1. n \in Nat /\ room \in Nat /\ Len(ring[finished[b].dst]) + room = D_q
      BY <1>2, <1>3, StatefulDeliveryAssumption
    <2>2. Fits(b) = IF n <= room THEN n ELSE room
      BY DEF Fits
    <2> HIDE DEF n, room
    <2>3. Fits(b) \in Nat /\ Fits(b) <= n /\ Fits(b) <= room
      BY <2>1, <2>2
    <2>4. Len(ring[finished[b].dst]) + Fits(b) <= D_q
      BY <1>3, <2>1, <2>3
    <2> QED
      BY <2>3, <2>4 DEF n
  <1>5. \A i \in 1..Fits(b) : i \in 1..Len(buffer[b]) /\ buffer[b][i] \in Nat
    BY <1>1, <1>2, <1>4, InTheBuffer
  <1>6. \A i \in 1..Fits(b) : Packet(b, buffer[b][i]) \in PacketRecord
    BY <1>1, <1>5 DEF Packet, PacketRecord
  <1>7. PICK n \in Nat : n = Fits(b)
    BY <1>4
  <1>8. Released(b) = [i \in 1..n |-> Packet(b, buffer[b][i])]
    BY <1>7 DEF Released
  <1>9. \A i \in 1..n : Packet(b, buffer[b][i]) \in PacketRecord
    BY <1>6, <1>7
  <1>10. Released(b) \in Seq(PacketRecord) /\ Len(Released(b)) = n
    <2> DEFINE P(i) == Packet(b, buffer[b][i])
    <2>1. \A i \in 1..n : P(i) \in PacketRecord
      BY <1>9
    <2>2. Released(b) = [i \in 1..n |-> P(i)]
      BY <1>8
    <2> HIDE DEF P
    <2> QED
      BY <2>1, <2>2
  <1>11. \A i \in 1..n : Released(b)[i] = Packet(b, buffer[b][i])
    BY <1>8
  <1> QED
    BY <1>4, <1>5, <1>7, <1>10, <1>11 DEF Packet

(* Each ring receives the release of at most one handoff.                  *)
LEMMA ReleaseByQueue ==
    ASSUME Inductive, SeparateReleases, release
    PROVE  /\ \A b \in DOMAIN finished :
                 ring'[finished[b].dst] = ring[finished[b].dst] \o Released(b)
           /\ \A q \in Queues : \/ ring'[q] = ring[q]
                                \/ \E b \in DOMAIN finished : finished[b].dst = q
           /\ \A b, c \in DOMAIN finished : finished[b].dst = finished[c].dst => b = c
  <1>1. \A b \in DOMAIN finished : finished[b].dst \in Queues
    BY DEF Inductive, TypeOK, HandoffRecord
  <1>2. \A b, c \in DOMAIN finished : finished[b].dst = finished[c].dst => b = c
    BY DEF SeparateReleases, Involved
  <1>3. ASSUME NEW b \in DOMAIN finished
        PROVE  ring'[finished[b].dst] = ring[finished[b].dst] \o Released(b)
    <2>1. ReleasedTo(finished[b].dst) = {b}
      BY <1>2 DEF ReleasedTo
    <2>2. (CHOOSE c \in ReleasedTo(finished[b].dst) : TRUE) = b
      BY <2>1
    <2> QED
      BY <1>1, <2>1, <2>2 DEF release
  <1>4. ASSUME NEW q \in Queues, ~ \E b \in DOMAIN finished : finished[b].dst = q
        PROVE  ring'[q] = ring[q]
    <2>1. ReleasedTo(q) = {}
      BY <1>4 DEF ReleasedTo
    <2> QED
      BY <2>1 DEF release
  <1> QED
    BY <1>2, <1>3, <1>4

(* The release: each finished handoff's buffer goes, in order, behind what *)
(* its destination's ring holds, as far as it fits; no other release meets *)
(* it there.                                                               *)
LEMMA BoundaryEndKept ==
    ASSUME Inductive, SeparateReleases, BufferInductive, DeliveryKept, BoundaryEnd
    PROVE  DeliveryKept'
  <1>1. /\ phase = "loop" /\ phase' = "bins" /\ UNCHANGED pending
        /\ release /\ UNCHANGED <<todo, generated, served>>
        /\ DOMAIN ring' = Queues /\ DOMAIN lost' = Buckets
        /\ ring' = [q \in Queues |-> ring'[q]] /\ lost' = [b \in Buckets |-> lost'[b]]
    BY DEF BoundaryEnd, _on_stateful_epoch_boundary_end, release
  <1>2. /\ DeliveryType /\ Withheld /\ PacketsConserved
        /\ OrderedInRing /\ RingsBeforeBuffers /\ BuffersInOrder
    BY DEF DeliveryKept, NumbersInOrder
  <1>3. /\ \A b \in DOMAIN finished :
              /\ b \in Buckets /\ finished[b].dst \in Queues
              /\ lost'[b] = lost[b] + Len(buffer[b]) - Fits(b)
              /\ buffer'[b] = << >>
        /\ \A b \in Buckets \ DOMAIN finished : lost'[b] = lost[b] /\ buffer'[b] = buffer[b]
    BY DEF BoundaryEnd, release, Inductive, TypeOK, HandoffRecord
  <1>4. \A q \in Queues : ring[q] \in Seq(PacketRecord) /\ Len(ring[q]) \in Nat
    BY <1>2, LenProperties DEF DeliveryType
  <1>5. \A b \in Buckets : /\ buffer[b] \in Seq(Nat) /\ Len(buffer[b]) \in Nat
                           /\ lost[b] \in Nat /\ served[b] \in Nat /\ generated[b] \in Nat
    BY <1>2, LenProperties DEF BufferInductive, DeliveryType
  (* What a queue that receives a release holds then.                      *)
  <1>6. ASSUME NEW b \in DOMAIN finished, NEW q \in Queues, q = finished[b].dst
        PROVE  /\ ring'[q] \in Seq(PacketRecord) /\ Len(ring'[q]) = Len(ring[q]) + Fits(b)
               /\ \A i \in 1..Len(ring'[q]) :
                     ring'[q][i] = IF i <= Len(ring[q]) THEN ring[q][i]
                                   ELSE Released(b)[i - Len(ring[q])]
               /\ Count(ring'[q], b) = Count(ring[q], b) + Fits(b)
               /\ \A c : c # b => Count(ring'[q], c) = Count(ring[q], c)
    <2>1. /\ Released(b) \in Seq(PacketRecord) /\ Len(Released(b)) = Fits(b)
          /\ \A i \in 1..Len(Released(b)) : Released(b)[i].bucket = b
      BY <1>2, ReleasedFits
    <2>2. ring'[q] = ring[q] \o Released(b)
      BY <1>1, <1>6, ReleaseByQueue
    <2>3. /\ ring[q] \o Released(b) \in Seq(PacketRecord)
          /\ Len(ring[q] \o Released(b)) = Len(ring[q]) + Len(Released(b))
          /\ \A i \in 1..Len(ring[q]) + Len(Released(b)) :
                (ring[q] \o Released(b))[i] = IF i <= Len(ring[q]) THEN ring[q][i]
                                              ELSE Released(b)[i - Len(ring[q])]
      BY <1>4, <2>1, ConcatProperties
    <2>4. PICK s \in Seq(PacketRecord), r \in Seq(PacketRecord) :
             s = ring[q] /\ r = Released(b)
      BY <1>4, <2>1
    <2>5. \A i \in 1..Len(r) : r[i].bucket = b
      BY <2>1, <2>4
    <2>6. Count(s \o r, b) = Count(s, b) + Len(r)
      BY <2>5, CountConcat
    <2>7. ASSUME NEW c, c # b PROVE Count(s \o r, c) = Count(s, c)
      BY <2>5, <2>7, CountConcatOther
    <2> QED
      BY <2>1, <2>2, <2>3, <2>4, <2>6, <2>7
  <1>7. DeliveryType'
    <2>1. \A q \in Queues : ring'[q] \in Seq(PacketRecord) /\ Len(ring'[q]) <= D_q
      <3> SUFFICES ASSUME NEW q \in Queues
                   PROVE  ring'[q] \in Seq(PacketRecord) /\ Len(ring'[q]) <= D_q
        OBVIOUS
      <3>1. CASE ring'[q] = ring[q]
        BY <1>2, <3>1 DEF DeliveryType
      <3>2. CASE \E b \in DOMAIN finished : finished[b].dst = q
        <4>1. PICK b \in DOMAIN finished : q = finished[b].dst
          BY <3>2
        <4>2. Len(ring[q]) + Fits(b) <= D_q
          BY <1>2, <4>1, ReleasedFits
        <4> QED
          BY <1>6, <4>1, <4>2
      <3> QED
        BY <1>1, <3>1, <3>2, ReleaseByQueue
    <2>2. \A b \in Buckets : lost'[b] \in Nat
      <3> SUFFICES ASSUME NEW b \in Buckets PROVE lost'[b] \in Nat
        OBVIOUS
      <3>1. CASE b \in DOMAIN finished
        <4>1. Fits(b) \in Nat /\ Fits(b) <= Len(buffer[b])
          BY <1>2, <3>1, ReleasedFits
        <4> QED
          BY <1>3, <1>5, <3>1, <4>1
      <3>2. CASE b \notin DOMAIN finished
        BY <1>3, <1>5, <3>2
      <3> QED
        BY <3>1, <3>2
    <2>3. ring' \in [Queues -> Seq(PacketRecord)] /\ lost' \in [Buckets -> Nat]
      BY <1>1, <2>1, <2>2
    <2> QED
      BY <1>1, <1>2, <2>1, <2>3 DEF DeliveryType
  <1>8. Withheld'
    BY <1>1, <1>2 DEF Withheld
  <1>9. \A c, q : InRing(c, q) = Count(ring[q], c) /\ InRing(c, q)' = Count(ring'[q], c)
    BY DEF InRing, Count, Places
  <1>10. PacketsConserved'
    <2> SUFFICES ASSUME NEW c \in Buckets
                 PROVE  generated[c] = served[c] + lost'[c] + InRings(c)' + Len(buffer'[c])
      BY <1>1 DEF PacketsConserved
    <2>1. generated[c] = served[c] + lost[c] + InRings(c) + Len(buffer[c])
      BY <1>2 DEF PacketsConserved
    <2>2. InRings(c) \in Nat
      BY <1>2, InRingsNatural
    <2>3. ASSUME NEW q \in Queues, ~(c \in DOMAIN finished /\ q = finished[c].dst)
          PROVE  InRing(c, q)' = InRing(c, q)
      <3>1. CASE ring'[q] = ring[q]
        BY <1>9, <3>1
      <3>2. CASE \E b \in DOMAIN finished : finished[b].dst = q
        <4>1. PICK b \in DOMAIN finished : q = finished[b].dst
          BY <3>2
        <4>2. c # b
          BY <2>3, <4>1
        <4>3. Count(ring'[q], c) = Count(ring[q], c)
          BY <1>6, <4>1, <4>2
        <4> QED
          BY <1>9, <4>3
      <3> QED
        BY <1>1, <3>1, <3>2, ReleaseByQueue
    <2>4. CASE c \notin DOMAIN finished
      <3>1. InRings(c)' = InRings(c)
        BY <1>2, <2>3, <2>4, InRingsSame
      <3> QED
        BY <1>3, <2>1, <2>4, <3>1
    <2>5. CASE c \in DOMAIN finished
      <3>1. PICK q \in Queues : q = finished[c].dst
        BY <1>3, <2>5
      <3>2. \A r \in Queues \ {q} : InRing(c, r)' = InRing(c, r)
        BY <2>3, <3>1
      <3>3. InRings(c)' = InRings(c) + InRing(c, q)' - InRing(c, q)
        BY <1>2, <1>7, <3>2, InRingsChanged
      <3>4. Fits(c) \in Nat /\ Fits(c) <= Len(buffer[c]) /\ InRing(c, q) \in Nat
        BY <1>2, <2>5, ReleasedFits, InRingNatural
      <3>5. InRing(c, q)' = InRing(c, q) + Fits(c)
        BY <1>6, <1>9, <2>5, <3>1
      <3>6. InRings(c)' = InRings(c) + Fits(c)
        BY <2>2, <3>3, <3>4, <3>5
      <3>7. Len(buffer'[c]) = 0 /\ lost'[c] = lost[c] + Len(buffer[c]) - Fits(c)
        BY <1>3, <2>5, EmptySeq
      <3>8. PICK s \in Nat, l \in Nat, r \in Nat, n \in Nat, f \in Nat :
               /\ s = served[c] /\ l = lost[c] /\ r = InRings(c)
               /\ n = Len(buffer[c]) /\ f = Fits(c)
        BY <1>5, <2>2, <3>4
      <3>9. s + l + r + n = s + (l + n - f) + (r + f) + 0
        OBVIOUS
      <3> QED
        BY <2>1, <3>6, <3>7, <3>8, <3>9
    <2> QED
      BY <2>4, <2>5
  (* Where an entry of a ring comes from.                                  *)
  <1>11. ASSUME NEW q \in Queues, NEW i \in 1..Len(ring'[q])
         PROVE  \/ i \in 1..Len(ring[q]) /\ ring'[q][i] = ring[q][i]
                \/ \E b \in DOMAIN finished :
                      /\ q = finished[b].dst
                      /\ i - Len(ring[q]) \in 1..Fits(b)
                      /\ ring'[q][i].bucket = b
                      /\ ring'[q][i].num = buffer[b][i - Len(ring[q])]
    <2>1. CASE ring'[q] = ring[q]
      BY <1>11, <2>1
    <2>2. CASE \E b \in DOMAIN finished : finished[b].dst = q
      <3>1. PICK b \in DOMAIN finished : q = finished[b].dst
        BY <2>2
      <3>2. /\ Len(ring'[q]) = Len(ring[q]) + Fits(b) /\ Fits(b) \in Nat /\ Len(ring[q]) \in Nat
            /\ ring'[q][i] = IF i <= Len(ring[q]) THEN ring[q][i]
                             ELSE Released(b)[i - Len(ring[q])]
        BY <1>2, <1>4, <1>6, <1>11, <3>1, ReleasedFits
      <3>3. CASE i <= Len(ring[q])
        BY <1>11, <3>2, <3>3
      <3>4. CASE i > Len(ring[q])
        <4>1. i - Len(ring[q]) \in 1..Fits(b)
          BY <1>11, <3>2, <3>4
        <4>2. ring'[q][i] = Released(b)[i - Len(ring[q])]
          BY <1>11, <3>2, <3>4
        <4>3. /\ Released(b)[i - Len(ring[q])].bucket = b
              /\ Released(b)[i - Len(ring[q])].num = buffer[b][i - Len(ring[q])]
          BY <1>2, <4>1, ReleasedFits
        <4> QED
          BY <3>1, <4>1, <4>2, <4>3
      <3> QED
        BY <1>11, <3>2, <3>3, <3>4
    <2> QED
      BY <1>1, <2>1, <2>2, ReleaseByQueue
  <1>12. RingsBeforeBuffers'
    <2> SUFFICES ASSUME NEW q \in Queues, NEW i \in 1..Len(ring'[q])
                 PROVE  /\ ring'[q][i].num <= generated[ring'[q][i].bucket]
                        /\ \A k \in 1..Len(buffer'[ring'[q][i].bucket]) :
                              ring'[q][i].num < buffer'[ring'[q][i].bucket][k]
      BY <1>1 DEF RingsBeforeBuffers
    <2>1. CASE i \in 1..Len(ring[q]) /\ ring'[q][i] = ring[q][i]
      <3>1. PICK c \in Buckets : c = ring[q][i].bucket
        BY <1>2, <2>1, InTheRing
      <3>2. /\ ring[q][i].num <= generated[c]
            /\ \A k \in 1..Len(buffer[c]) : ring[q][i].num < buffer[c][k]
        BY <1>2, <2>1, <3>1 DEF RingsBeforeBuffers
      <3>3. buffer'[c] = << >> \/ buffer'[c] = buffer[c]
        BY <1>3
      <3>4. \A k \in 1..Len(buffer'[c]) : buffer'[c] = buffer[c]
        BY <3>3, EmptySeq
      <3> QED
        BY <2>1, <3>1, <3>2, <3>4
    <2>2. ASSUME NEW b \in DOMAIN finished, i - Len(ring[q]) \in 1..Fits(b),
                 ring'[q][i].bucket = b, ring'[q][i].num = buffer[b][i - Len(ring[q])]
          PROVE  /\ ring'[q][i].num <= generated[b]
                 /\ \A k \in 1..Len(buffer'[b]) : ring'[q][i].num < buffer'[b][k]
      <3>1. i - Len(ring[q]) \in 1..Len(buffer[b])
        BY <1>2, <2>2, ReleasedFits
      <3>2. Len(buffer'[b]) = 0
        BY <1>3, EmptySeq
      <3> QED
        BY <1>2, <1>3, <2>2, <3>1, <3>2 DEF BuffersInOrder
    <2> QED
      BY <1>11, <2>1, <2>2
  <1>13. BuffersInOrder'
    <2> SUFFICES ASSUME NEW b \in Buckets
                 PROVE  /\ \A k \in 1..Len(buffer'[b]) : buffer'[b][k] <= generated[b]
                        /\ \A k, l \in 1..Len(buffer'[b]) :
                              k < l => buffer'[b][k] < buffer'[b][l]
      BY <1>1 DEF BuffersInOrder
    <2>1. CASE buffer'[b] = << >>
      BY <2>1, EmptySeq
    <2>2. CASE buffer'[b] = buffer[b]
      BY <1>2, <2>2 DEF BuffersInOrder
    <2> QED
      BY <1>3, <2>1, <2>2
  <1>14. OrderedInRing'
    <2> SUFFICES ASSUME NEW q \in Queues, NEW i \in 1..Len(ring'[q]),
                        NEW j \in 1..Len(ring'[q]), i < j,
                        ring'[q][i].bucket = ring'[q][j].bucket
                 PROVE  ring'[q][i].num < ring'[q][j].num
      BY DEF OrderedInRing
    <2>1. Len(ring[q]) \in Nat /\ Len(ring'[q]) \in Nat
      BY <1>4, <1>7, LenProperties DEF DeliveryType
    <2>2. CASE j \in 1..Len(ring[q]) /\ ring'[q][j] = ring[q][j]
      <3>1. i \in 1..Len(ring[q])
        BY <2>1, <2>2
      <3>2. ~ \E b \in DOMAIN finished : i - Len(ring[q]) \in 1..Fits(b)
        BY <2>1, <3>1, <1>2, ReleasedFits
      <3>3. ring'[q][i] = ring[q][i]
        BY <1>11, <3>2
      <3> QED
        BY <1>2, <2>2, <3>1, <3>3 DEF OrderedInRing
    <2>3. ASSUME NEW b \in DOMAIN finished, j - Len(ring[q]) \in 1..Fits(b),
                 ring'[q][j].bucket = b, ring'[q][j].num = buffer[b][j - Len(ring[q])]
          PROVE  ring'[q][i].num < ring'[q][j].num
      <3>1. b \in Buckets /\ j - Len(ring[q]) \in 1..Len(buffer[b])
        BY <1>2, <1>3, <2>3, ReleasedFits
      <3>2. CASE i \in 1..Len(ring[q]) /\ ring'[q][i] = ring[q][i]
        <4>1. \A k \in 1..Len(buffer[ring[q][i].bucket]) :
                 ring[q][i].num < buffer[ring[q][i].bucket][k]
          BY <1>2, <3>2 DEF RingsBeforeBuffers
        <4>2. ring[q][i].bucket = b
          BY <2>3, <3>2
        <4> QED
          BY <2>3, <3>1, <3>2, <4>1, <4>2
      <3>3. ASSUME NEW c \in DOMAIN finished, i - Len(ring[q]) \in 1..Fits(c),
                   ring'[q][i].bucket = c, ring'[q][i].num = buffer[c][i - Len(ring[q])]
            PROVE  ring'[q][i].num < ring'[q][j].num
        <4>1. c = b
          BY <2>3, <3>3
        <4>2. i - Len(ring[q]) \in 1..Len(buffer[b])
          BY <1>2, <3>3, <4>1, ReleasedFits
        <4>3. i - Len(ring[q]) < j - Len(ring[q])
          BY <2>1
        <4>4. buffer[b][i - Len(ring[q])] < buffer[b][j - Len(ring[q])]
          BY <1>2, <3>1, <4>2, <4>3 DEF BuffersInOrder
        <4> QED
          BY <2>3, <3>3, <4>1, <4>4
      <3> QED
        BY <1>11, <3>2, <3>3
    <2> QED
      BY <1>11, <2>2, <2>3
  <1> QED
    BY <1>7, <1>8, <1>10, <1>12, <1>13, <1>14 DEF DeliveryKept, NumbersInOrder

-----------------------------------------------------------------------------
(* Every step keeps the invariant of the packets.                          *)
LEMMA NextKept ==
    Inductive /\ SeparateReleases /\ BufferInductive /\ DeliveryKept
        /\ [NextDelivery]_allVars => DeliveryKept'
  <1> SUFFICES ASSUME Inductive, SeparateReleases, BufferInductive, DeliveryKept,
                      [NextDelivery]_allVars
               PROVE  DeliveryKept'
    OBVIOUS
  <1>1. ASSUME UNCHANGED <<phase, pending, deliveryVars>> PROVE DeliveryKept'
    <2>1. Withheld'
      BY <1>1 DEF DeliveryKept, Withheld, Delivered, deliveryVars
    <2> QED
      BY <1>1, <2>1, RingsUntouchedKept
  <1>2. CASE StartBin
    BY <1>2, StartBinKept
  <1>3. CASE \E b \in Buckets : Deliver(b)
    BY <1>3, DeliverKept
  <1>4. CASE \E q \in Queues : Serve(q)
    BY <1>4, ServeKept
  <1>5. CASE BoundaryBegin
    BY <1>5, BoundaryBeginKept
  <1>6. CASE \E b \in Buckets, dst \in Queues : BoundaryIssue(b, dst)
    BY <1>6, BoundaryIssueKept
  <1>7. CASE BoundaryEnd
    BY <1>7, BoundaryEndKept
  <1>8. CASE DeliveryDone
    BY <1>1, <1>8 DEF DeliveryDone, Done, vars
  <1>9. CASE UNCHANGED allVars
    BY <1>1, <1>9 DEF allVars, vars
  <1> QED
    BY <1>2, <1>3, <1>4, <1>5, <1>6, <1>7, <1>8, <1>9 DEF NextDelivery

(* The invariant of the composition.                                       *)
THEOREM DeliveryInductive ==
    SpecDelivery => [](BufferInductive /\ DeliveryKept)
  <1>1. InitDelivery => BufferInductive /\ DeliveryKept
    <2>1. InitDelivery => BufferInductive
      BY DEF InitDelivery, Init, BufferInductive, BufferMatchesHandoff, Counted,
             FreshReissue
    <2> QED
      BY <2>1, DeliveryInit DEF DeliveryKept
  <1>2. SpecDelivery => [](Inductive /\ SeparateReleases)
    BY ProtocolKept, ReleasesAlwaysSeparate, PTL
  <1>3. Inductive /\ SeparateReleases /\ BufferInductive /\ DeliveryKept
           /\ [NextDelivery]_allVars => BufferInductive' /\ DeliveryKept'
    BY BuffersStep, NextKept
  <1> QED
    BY <1>1, <1>2, <1>3, PTL DEF SpecDelivery

(* A buffer holds what its handoff counts, also across a boundary that     *)
(* finishes one handoff of a bucket and issues the next.                   *)
THEOREM BuffersMatch == SpecDelivery => []BufferMatchesHandoff
  <1>1. BufferInductive => BufferMatchesHandoff
    BY DEF BufferInductive
  <1> QED
    BY <1>1, DeliveryInductive, PTL

(* Every packet generated is served, lost, in a ring or buffered.          *)
THEOREM PacketsAlwaysConserved == SpecDelivery => []PacketsConserved
  <1>1. DeliveryKept => PacketsConserved
    BY DEF DeliveryKept
  <1> QED
    BY <1>1, DeliveryInductive, PTL

(* In every ring the packets of a bucket stand in arrival order.           *)
THEOREM RingsAlwaysInOrder == SpecDelivery => []OrderedInRing
  <1>1. DeliveryKept => OrderedInRing
    BY DEF DeliveryKept, NumbersInOrder
  <1> QED
    BY <1>1, DeliveryInductive, PTL

OnlyLeaves == phase = "bins" => \A b \in DOMAIN pending, q \in Queues :
                                   InRing(b, q)' <= InRing(b, q)

(* Between two boundaries the packets of a bucket in transition only leave *)
(* the rings.                                                              *)
THEOREM NoDeliveryWhileInTransition == SpecDelivery => NoDeliveryInTransition
  <1>1. Inductive /\ BufferInductive /\ DeliveryKept /\ [NextDelivery]_allVars
           => [OnlyLeaves]_allVars
    <2> SUFFICES ASSUME Inductive, BufferInductive, DeliveryKept, NextDelivery,
                        phase = "bins", NEW b \in DOMAIN pending, NEW q \in Queues
                 PROVE  InRing(b, q)' <= InRing(b, q)
      BY DEF OnlyLeaves
    <2>1. /\ b \in Buckets /\ todo[b] = 0 /\ ring[q] \in Seq(PacketRecord)
          /\ ring \in [Queues -> Seq(PacketRecord)]
      BY DEF Inductive, TypeOK, DeliveryKept, Withheld, DeliveryType
    <2>a. Count(ring[q], b) \in Nat
      BY <2>1, PlacesFinite
    <2>b. /\ InRing(b, q) = Count(ring[q], b) /\ InRing(b, q)' = Count(ring'[q], b)
      BY DEF InRing, Count, Places
    <2>2. PICK m \in Nat : m = Count(ring[q], b) /\ InRing(b, q) = m
      BY <2>a, <2>b
    <2>3. ASSUME ring'[q] = ring[q] PROVE InRing(b, q)' <= InRing(b, q)
      BY <2>2, <2>b, <2>3
    <2>4. CASE \E c \in Buckets : Deliver(c)
      <3>1. PICK c \in Buckets : Deliver(c)
        BY <2>4
      <3>2. c # b
        BY <2>1, <3>1 DEF Deliver
      <3>3. CASE UNCHANGED ring
        BY <2>3, <3>3
      <3>4. CASE ring' = [ring EXCEPT ![table[c]] =
                             Append(@, Packet(c, generated[c] + 1))]
        <4>1. PICK p \in PacketRecord : p = Packet(c, generated[c] + 1)
          <5>1. generated[c] + 1 \in Nat
            BY DEF BufferInductive
          <5>2. Packet(c, generated[c] + 1) \in PacketRecord
            BY <5>1 DEF Packet, PacketRecord
          <5> QED
            BY <5>2
        <4>2. p.bucket # b
          BY <3>2, <4>1 DEF Packet
        <4>3. ring'[q] = ring[q] \/ ring'[q] = Append(ring[q], p)
          BY <2>1, <3>4, <4>1
        <4>4. Count(Append(ring[q], p), b) = Count(ring[q], b) + 0
          BY <2>1, <4>2, CountAppend
        <4>5. CASE ring'[q] = Append(ring[q], p)
          <5>1. Count(ring'[q], b) = Count(ring[q], b)
            BY <2>2, <2>b, <4>4, <4>5
          <5> QED
            BY <2>2, <2>b, <5>1
        <4> QED
          BY <2>3, <4>3, <4>5
      <3> QED
        BY <3>1, <3>3, <3>4 DEF Deliver
    <2>5. CASE \E r \in Queues : Serve(r)
      <3>1. PICK r \in Queues : Serve(r)
        BY <2>5
      <3>2. CASE r # q
        BY <2>1, <2>3, <3>1, <3>2 DEF Serve
      <3>3. CASE r = q
        <4>1. ring[q] # << >> /\ ring'[q] = Tail(ring[q])
          BY <2>1, <3>1, <3>3 DEF Serve
        <4>2. Tail(ring[q]) \in Seq(PacketRecord)
          BY <2>1, <4>1, HeadTailProperties
        <4>3. Count(Tail(ring[q]), b) \in Nat
          BY <4>2, PlacesFinite
        <4>4. PICK d \in Nat : d = IF Head(ring[q]).bucket = b THEN 1 ELSE 0
          OBVIOUS
        <4>5. Count(ring[q], b) = Count(Tail(ring[q]), b) + d
          BY <2>1, <4>1, <4>4, CountTail
        <4> QED
          BY <2>2, <2>b, <4>1, <4>3, <4>5
      <3> QED
        BY <3>2, <3>3
    <2>6. CASE ~(\E c \in Buckets : Deliver(c)) /\ ~(\E r \in Queues : Serve(r))
      BY <2>3, <2>6 DEF NextDelivery, StartBin, BoundaryBegin, BoundaryIssue, Issue,
            BoundaryEnd, _on_stateful_epoch_boundary_end, DeliveryDone, deliveryVars
    <2> QED
      BY <2>4, <2>5, <2>6
  <1>2. SpecDelivery => []Inductive
    BY ProtocolKept, PTL
  <1> QED
    BY <1>1, <1>2, DeliveryInductive, PTL
       DEF SpecDelivery, NoDeliveryInTransition, OnlyLeaves

=============================================================================
