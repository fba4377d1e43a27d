------------------------ MODULE QueuePipelineProofs ------------------------
(***************************************************************************)
(* Proofs about QueuePipeline, for every ring depth and all times: its     *)
(* credits, its order of service, and that it implements Ring.             *)
(***************************************************************************)
EXTENDS QueuePipeline, FiniteSums, SequenceTheorems

(* advance_to pops credits that all fit: the clamp never binds.            *)
LEMMA AdvanceExact ==
    ASSUME TypeOK, CreditsConserved, NEW t \in Nat
    PROVE  /\ Due(t) \subseteq heap /\ IsFiniteSet(heap \ Due(t))
           /\ CreditsAt(t) = credits + Cardinality(Due(t))
           /\ CreditsAt(t) + Cardinality(heap \ Due(t)) = D_q
           /\ CreditsAt(t) \in 0..D_q
           /\ CreditsAt(t) - credits \in Nat
  <1>1. IsFiniteSet(heap) /\ Due(t) \subseteq heap
    BY DEF TypeOK, Due
  <1>2. /\ IsFiniteSet(Due(t)) /\ IsFiniteSet(heap \ Due(t))
        /\ heap \cap Due(t) = Due(t)
    BY <1>1, FS_Subset, FS_Difference
  <1>3. Cardinality(heap \ Due(t)) = Cardinality(heap) - Cardinality(Due(t))
    BY <1>1, <1>2, FS_Difference
  <1>4. /\ Cardinality(heap) \in Nat /\ Cardinality(Due(t)) \in Nat
        /\ Cardinality(heap \ Due(t)) \in Nat
    BY <1>1, <1>2, FS_CardinalityType
  <1>5. credits + Cardinality(Due(t)) <= D_q /\ credits \in Nat /\ D_q \in Nat
    BY <1>3, <1>4, QueuePipelineAssumption DEF CreditsConserved, TypeOK
  <1>6. CreditsAt(t) = credits + Cardinality(Due(t))
    BY <1>5 DEF CreditsAt
  <1> QED
    BY <1>1, <1>2, <1>3, <1>4, <1>5, <1>6 DEF CreditsConserved

(* The counters after advance_to.                                          *)
LEMMA StatsAtExact ==
    ASSUME TypeOK, CreditsConserved, NEW t \in Nat
    PROVE  /\ StatsAt(t) \in CounterRecord
           /\ StatsAt(t).returned = stats.returned + (CreditsAt(t) - credits)
           /\ StatsAt(t).adm = stats.adm
           /\ StatsAt(t).u_max = stats.u_max
  <1>1. CreditsAt(t) - credits \in Nat
    BY AdvanceExact
  <1>2. stats \in CounterRecord
    BY DEF TypeOK
  <1>3. stats.returned + (CreditsAt(t) - credits) \in Nat
    BY <1>1, <1>2 DEF CounterRecord
  <1> QED
    BY <1>2, <1>3 DEF StatsAt, CounterRecord

(* What is left in the heap after advance_to is not due, and in order.     *)
LEMMA HeapAfter ==
    ASSUME TypeOK, FifoService, NEW t \in Nat
    PROVE  LET rest == heap \ Due(t)
           IN  /\ rest \subseteq [id : Nat, back : Nat]
               /\ \A p \in rest : p.back > t
               /\ \A p, r \in rest : p.id < r.id => p.back < r.back
               /\ \A p \in rest : p.back <= next_free + TWb /\ p.id < admitted
  BY DEF Due, TypeOK, FifoService

(* The parts of the invariant a call on the queue can disturb.             *)
Core ==
    /\ credits \in 0..D_q
    /\ IsFiniteSet(heap)
    /\ heap \subseteq [id : Nat, back : Nat]
    /\ next_free \in Nat /\ now \in Nat
    /\ stats \in CounterRecord
    /\ admitted \in Nat
    /\ CreditsConserved
    /\ FifoService
    /\ NothingOverdue
    /\ credits = base + stats.returned - stats.adm

(* Dropping a packet, or ending a bin, only advances the queue.            *)
LEMMA AdvanceCore ==
    ASSUME Inductive, NEW t \in Nat,
           credits' = CreditsAt(t), heap' = heap \ Due(t), now' = t,
           stats' \in CounterRecord,
           stats'.returned = StatsAt(t).returned, stats'.adm = stats.adm,
           UNCHANGED <<next_free, admitted, base>>
    PROVE  Core'
  <1> USE DEF Inductive
  <1>1. /\ credits' \in 0..D_q
        /\ credits' + Cardinality(heap') = D_q
        /\ IsFiniteSet(heap')
    BY AdvanceExact
  <1>2. /\ heap' \subseteq [id : Nat, back : Nat]
        /\ \A p \in heap' : p.back > t
        /\ \A p, r \in heap' : p.id < r.id => p.back < r.back
        /\ \A p \in heap' : p.back <= next_free + TWb /\ p.id < admitted
    BY HeapAfter
  <1>3. credits' = base + stats'.returned - stats'.adm
    <2>1. stats'.returned = stats.returned + (CreditsAt(t) - credits)
      BY StatsAtExact
    <2>2. /\ credits \in Int /\ CreditsAt(t) \in Int /\ base \in Int
          /\ stats.returned \in Int /\ stats.adm \in Int
      <3>0. CreditsAt(t) \in 0..D_q
        BY AdvanceExact
      <3>1. CreditsAt(t) \in Int
        BY <3>0, QueuePipelineAssumption
      <3> QED
        BY <3>1 DEF TypeOK, CounterRecord
    <2>3. credits = base + stats.returned - stats.adm
      BY DEF BinBalance
    <2>4. credits' = CreditsAt(t) /\ stats'.adm = stats.adm
      OBVIOUS
    <2>5. stats'.returned = stats.returned + (CreditsAt(t) - credits)
      BY <2>1
    <2> HIDE DEF Inductive
    <2> QED
      BY <2>2, <2>3, <2>4, <2>5
  <1>4. next_free' \in Nat /\ now' \in Nat /\ admitted' \in Nat
    BY DEF TypeOK
  <1>5. CreditsConserved' /\ FifoService' /\ NothingOverdue'
    BY <1>1, <1>2 DEF CreditsConserved, FifoService, NothingOverdue
  <1> QED
    BY <1>1, <1>2, <1>3, <1>4, <1>5 DEF Core

(* A packet with a credit takes one descriptor and the core's next slot.   *)
LEMMA AdmitCore ==
    ASSUME Inductive, NEW t \in Nat, NEW transit \in TransitTimes,
           NEW service \in ServiceTimes, admit(t, t + transit, service),
           UNCHANGED base
    PROVE  Core'
  <1> USE DEF Inductive
  <1> DEFINE left == CreditsAt(t) - 1
             end  == ServiceEnd(t + transit, service)
             new  == [id |-> admitted, back |-> end + TWb]
             rest == heap \ Due(t)
  <1>1. /\ CreditsAt(t) > 0 /\ credits' = left /\ heap' = rest \cup {new}
        /\ next_free' = end /\ now' = t /\ admitted' = admitted + 1
        /\ stats' = [StatsAt(t) EXCEPT !.adm = @ + 1,
                                       !.u_max = Larger(@, D_q - left)]
    BY DEF admit
  <1>2. /\ end \in Nat /\ end > next_free /\ end > t
        /\ TWb \in Nat /\ admitted \in Nat /\ next_free \in Nat
    BY QueuePipelineAssumption DEF ServiceEnd, Larger, TypeOK
  <1>3. /\ rest \subseteq [id : Nat, back : Nat]
        /\ \A p \in rest : p.back > t
        /\ \A p, r \in rest : p.id < r.id => p.back < r.back
        /\ \A p \in rest : p.back <= next_free + TWb /\ p.id < admitted
    BY HeapAfter
  <1>4. /\ CreditsAt(t) \in 0..D_q /\ IsFiniteSet(rest)
        /\ CreditsAt(t) + Cardinality(rest) = D_q
    BY AdvanceExact
  <1>5. /\ StatsAt(t) \in CounterRecord
        /\ StatsAt(t).returned = stats.returned + (CreditsAt(t) - credits)
        /\ StatsAt(t).adm = stats.adm
    BY StatsAtExact
  <1>6. left \in 0..D_q /\ D_q - left \in 0..D_q
    BY <1>1, <1>4, QueuePipelineAssumption
  <1>7. Larger(StatsAt(t).u_max, D_q - left) \in 0..D_q
    BY <1>5, <1>6 DEF Larger, CounterRecord
  <1> HIDE DEF end, rest
  <1>8. new \in [id : Nat, back : Nat] /\ new.id = admitted /\ new.back = end + TWb
    BY <1>2
  <1> HIDE DEF new
  <1>9. new \notin rest
    BY <1>2, <1>3, <1>8
  <1>10. /\ IsFiniteSet(heap') /\ Cardinality(heap') = Cardinality(rest) + 1
         /\ Cardinality(rest) \in Nat
    BY <1>1, <1>4, <1>9, FS_AddElement, FS_CardinalityType
  <1>11. CreditsConserved'
    BY <1>1, <1>4, <1>10, QueuePipelineAssumption DEF CreditsConserved
  <1> HIDE DEF left
  <1>12. /\ stats' \in CounterRecord
         /\ stats'.returned = StatsAt(t).returned
         /\ stats'.adm = StatsAt(t).adm + 1
    <2>1. StatsAt(t).adm + 1 \in Nat
      BY <1>5 DEF CounterRecord
    <2> QED
      BY <1>1, <1>5, <1>7, <2>1 DEF CounterRecord
  <1>13. credits' = base + stats'.returned - stats'.adm
    <2>1. /\ credits \in Int /\ base \in Int /\ stats.returned \in Int
          /\ stats.adm \in Int /\ CreditsAt(t) \in Int
      BY <1>4 DEF TypeOK, CounterRecord
    <2> QED
      BY <1>1, <1>5, <1>12, <2>1 DEF BinBalance, left
  <1>14. FifoService'
    <2>1. \A p \in rest : /\ p.back \in Nat /\ p.id \in Nat
                          /\ p.back < end + TWb /\ p.id < admitted
      BY <1>2, <1>3
    <2>2. \A p, r \in heap' : p.id < r.id => p.back < r.back
      BY <1>1, <1>2, <1>3, <1>8, <2>1
    <2>3. \A p \in heap' : p.back <= end + TWb /\ p.id < admitted + 1
      BY <1>1, <1>2, <1>8, <2>1
    <2> QED
      BY <1>1, <2>2, <2>3, QueuePipelineAssumption DEF FifoService
  <1>15. NothingOverdue'
    BY <1>1, <1>2, <1>3, <1>8 DEF NothingOverdue
  <1> QED
    BY <1>1, <1>2, <1>3, <1>6, <1>8, <1>10, <1>11, <1>12, <1>13, <1>14, <1>15
       DEF Core

(* What a call on the queue leaves of the invariant follows from Core.     *)
LEMMA CoreSuffices ==
    ASSUME Inductive, Core', UNCHANGED <<bin, phase, row, base>>,
           released' \in 0..MaxRelease
    PROVE  Inductive'
  BY DEF Inductive, Core, TypeOK, BinBalance

LEMMA CreditDropCore ==
    ASSUME Inductive, NEW t \in Nat, credit_drop(t), UNCHANGED base
    PROVE  Core'
  <1>1. /\ StatsAt(t) \in CounterRecord /\ StatsAt(t).adm = stats.adm
    BY StatsAtExact DEF Inductive
  <1>2. /\ StatsAt(t).drop + 1 \in Nat /\ StatsAt(t).credit_drop + 1 \in Nat
    BY <1>1 DEF CounterRecord
  <1>3. /\ stats' \in CounterRecord
        /\ stats'.returned = StatsAt(t).returned /\ stats'.adm = stats.adm
    BY <1>1, <1>2 DEF credit_drop, CounterRecord
  <1> QED
    BY <1>3, AdvanceCore DEF credit_drop

LEMMA PcieDropCore ==
    ASSUME Inductive, NEW t \in Nat, record_pcie_drop(t), UNCHANGED base
    PROVE  Core'
  <1>1. /\ StatsAt(t) \in CounterRecord /\ StatsAt(t).adm = stats.adm
    BY StatsAtExact DEF Inductive
  <1>2. /\ StatsAt(t).drop + 1 \in Nat /\ StatsAt(t).pcie_drop + 1 \in Nat
    BY <1>1 DEF CounterRecord
  <1>3. /\ stats' \in CounterRecord
        /\ stats'.returned = StatsAt(t).returned /\ stats'.adm = stats.adm
    BY <1>1, <1>2 DEF record_pcie_drop, CounterRecord
  <1> QED
    BY <1>3, AdvanceCore DEF record_pcie_drop

(* The ends of a bin are times.                                            *)
LEMMA BinTimes ==
    ASSUME TypeOK
    PROVE  /\ BinStart \in Nat /\ BinEnd \in Nat /\ BinEnd - 1 \in Nat
  <1>1. bin \in Nat /\ BinNs \in Nat /\ BinNs > 0
    BY QueuePipelineAssumption DEF TypeOK
  <1>2. bin * BinNs \in Nat /\ (bin + 1) * BinNs = bin * BinNs + BinNs
    BY <1>1, SMT
  <1> QED
    BY <1>1, <1>2 DEF BinStart, BinEnd

LEMMA InitInductive == Init => Inductive
  <1> SUFFICES ASSUME Init PROVE Inductive
    OBVIOUS
  <1>1. /\ IsFiniteSet(heap) /\ Cardinality(heap) = 0
    BY FS_EmptySet DEF Init
  <1>2. NoStats \in CounterRecord
    BY QueuePipelineAssumption DEF NoStats, CounterRecord
  <1>3. TypeOK
    BY <1>1, <1>2, QueuePipelineAssumption DEF Init, TypeOK
  <1>4. CreditsConserved /\ BinBalance
    BY <1>1, QueuePipelineAssumption
       DEF Init, CreditsConserved, BinBalance, NoStats
  <1>5. FifoService /\ NothingOverdue
    BY DEF Init, FifoService, NothingOverdue
  <1> QED
    BY <1>3, <1>4, <1>5 DEF Init, Inductive

LEMMA NextInductive == Inductive /\ [Next]_vars => Inductive'
  <1> SUFFICES ASSUME Inductive, [Next]_vars PROVE Inductive'
    OBVIOUS
  <1>0. BinStart \in Nat /\ BinEnd \in Nat /\ BinEnd - 1 \in Nat
    BY BinTimes DEF Inductive
  <1>1. CASE Packet
    <2>1. PICK t \in BinStart..(BinEnd - 1) :
             \/ credit_drop(t)
             \/ record_pcie_drop(t)
             \/ \E transit \in TransitTimes, service \in ServiceTimes :
                   admit(t, t + transit, service)
      BY <1>1 DEF Packet
    <2>2. t \in Nat /\ UNCHANGED <<bin, phase, released, row, base>>
      BY <1>0, <1>1 DEF Packet
    <2>3. Core'
      BY <2>1, <2>2, CreditDropCore, PcieDropCore, AdmitCore
    <2> QED
      BY <2>2, <2>3, CoreSuffices DEF Inductive, TypeOK
  <1>2. CASE EndBin
    <2>1. /\ advance_to(BinEnd) /\ row' = stats' /\ phase' = "release"
          /\ bin < MaxBins
          /\ UNCHANGED <<next_free, bin, released, admitted, base>>
      BY <1>2 DEF EndBin
    <2>2. StatsAt(BinEnd) \in CounterRecord /\ StatsAt(BinEnd).adm = stats.adm
      BY <1>0, StatsAtExact DEF Inductive
    <2>3. Core'
      BY <1>0, <2>1, <2>2, AdvanceCore DEF advance_to
    <2> QED
      BY <2>1, <2>3 DEF Inductive, Core, TypeOK, BinBalance
  <1>3. CASE Release
    <2>1. /\ UNCHANGED <<bin, phase, row, base>>
          /\ released' \in 0..MaxRelease
      BY <1>3, QueuePipelineAssumption DEF Release, Inductive, TypeOK
    <2>2. Core'
      BY <1>0, <1>3, <2>1, CreditDropCore, AdmitCore DEF Release
    <2> QED
      BY <2>1, <2>2, CoreSuffices
  <1>4. CASE reset_bin_stats
    <2>1. NoStats \in CounterRecord
      BY QueuePipelineAssumption DEF NoStats, CounterRecord
    <2>2. /\ stats' = NoStats /\ base' = credits /\ bin' = bin + 1
          /\ phase' = "run" /\ released' = 0
          /\ UNCHANGED <<credits, heap, next_free, now, admitted, row>>
          /\ phase = "release"
      BY <1>4 DEF reset_bin_stats
    <2>3. TypeOK'
      BY <2>1, <2>2, QueuePipelineAssumption DEF Inductive, TypeOK
    <2>4. BinBalance'
      BY <2>2, QueuePipelineAssumption DEF BinBalance, NoStats, Inductive, TypeOK
    <2>5. CreditsConserved' /\ FifoService' /\ NothingOverdue'
      BY <2>2 DEF Inductive, CreditsConserved, FifoService, NothingOverdue
    <2> QED
      BY <2>2, <2>3, <2>4, <2>5 DEF Inductive
  <1>5. CASE Done \/ UNCHANGED vars
    BY <1>5 DEF Done, vars, Inductive, TypeOK, CreditsConserved, FifoService,
                NothingOverdue, BinBalance
  <1> QED
    BY <1>1, <1>2, <1>3, <1>4, <1>5 DEF Next

THEOREM InductiveHolds == Spec => []Inductive
  BY InitInductive, NextInductive, PTL DEF Spec

-----------------------------------------------------------------------------
(* No descriptor credit is ever lost or minted, whatever the service and   *)
(* transit times: the clamp in advance_to is never needed.                 *)
THEOREM CreditsAlwaysConserved == Spec => []CreditsConserved
  BY InductiveHolds, PTL DEF Inductive

(* The queue serves in order of admission.                                 *)
THEOREM AlwaysFifo == Spec => []FifoService
  BY InductiveHolds, PTL DEF Inductive

(* The credits the FPGA sees at a call are all that are back by then.      *)
THEOREM NeverOverdue == Spec => []NothingOverdue
  BY InductiveHolds, PTL DEF Inductive

(* A bin's counters explain the change in its credits.                     *)
THEOREM BinAlwaysBalanced == Spec => []BinBalance
  BY InductiveHolds, PTL DEF Inductive

-----------------------------------------------------------------------------
(* The refinement.  The packets in flight are the last ones admitted, none *)
(* missing between them: a call pops the oldest ones and adds the newest.  *)
Ids(S) == {p.id : p \in S}

Consecutive ==
    /\ \A p, r \in heap : p.id = r.id => p = r
    /\ Ids(heap) = (admitted - Cardinality(heap))..(admitted - 1)

(* As many packets as numbers.                                             *)
LEMMA IdsCounted ==
    ASSUME NEW S, IsFiniteSet(S), \A p, r \in S : p.id = r.id => p = r
    PROVE  IsFiniteSet(Ids(S)) /\ Cardinality(Ids(S)) = Cardinality(S)
  <1> DEFINE f == [p \in S |-> p.id]
  <1>1. f \in Bijection(S, Ids(S))
    BY DEF Bijection, Injection, Surjection, IsInjective, Ids
  <1>2. ExistsBijection(S, Ids(S))
    BY <1>1 DEF ExistsBijection
  <1> QED
    BY <1>2, FS_Bijection

(* A set of numbers below a bound that has no gaps up to it.               *)
LEMMA UpperInterval ==
    ASSUME NEW T \in SUBSET Nat, NEW top \in Nat, \A x \in T : x < top,
           \A x \in T, y \in Nat : x < y /\ y < top => y \in T
    PROVE  T = (top - Cardinality(T))..(top - 1)
  <1>1. CASE T = {}
    <2>1. Cardinality(T) = 0
      BY <1>1, FS_EmptySet
    <2> QED
      BY <1>1, <2>1
  <1>2. CASE T # {}
    <2>1. PICK x \in T : \A y \in T : x <= y
      BY <1>2, LeastElement
    <2>2. T = x..(top - 1)
      <3>1. ASSUME NEW y \in T PROVE y \in x..(top - 1)
        BY <2>1
      <3>2. ASSUME NEW y \in x..(top - 1) PROVE y \in T
        <4>1. x \in Nat /\ x \in T /\ y \in Nat /\ y < top
          BY <2>1
        <4> QED
          BY <3>2, <4>1
      <3> QED
        BY <3>1, <3>2
    <2>3. Cardinality(T) = top - x
      BY <2>1, <2>2, FS_Interval
    <2> QED
      BY <2>1, <2>2, <2>3
  <1> QED
    BY <1>1, <1>2

(* What advance_to leaves are again the last packets.                      *)
LEMMA AdvanceConsecutive ==
    ASSUME TypeOK, FifoService, Consecutive, NEW t \in Nat
    PROVE  LET rest == heap \ Due(t)
           IN  Ids(rest) = (admitted - Cardinality(rest))..(admitted - 1)
  <1> DEFINE rest == heap \ Due(t)
  <1>1. /\ IsFiniteSet(heap) /\ heap \subseteq [id : Nat, back : Nat]
        /\ admitted \in Nat /\ rest \subseteq heap
    BY DEF TypeOK
  <1>2. IsFiniteSet(rest) /\ \A p, r \in rest : p.id = r.id => p = r
    BY <1>1, FS_Subset DEF Consecutive
  <1>3. Cardinality(heap) \in Nat
    BY <1>1, FS_CardinalityType
  <1>4. Ids(rest) \in SUBSET Nat /\ \A x \in Ids(rest) : x < admitted
    BY <1>1 DEF Ids, FifoService
  <1>5. ASSUME NEW x \in Ids(rest), NEW y \in Nat, x < y, y < admitted
        PROVE  y \in Ids(rest)
    <2>1. PICK p \in rest : p.id = x
      BY DEF Ids
    <2>2. x \in Ids(heap)
      BY <1>1, <2>1 DEF Ids
    <2>3. y \in Ids(heap)
      BY <1>1, <1>3, <1>5, <2>2 DEF Consecutive
    <2>4. PICK r \in heap : r.id = y
      BY <2>3 DEF Ids
    <2>5. p.back < r.back /\ ~(p.back <= t)
      BY <1>5, <2>1, <2>4 DEF FifoService, Due
    <2>6. ~(r.back <= t)
      BY <1>1, <2>1, <2>4, <2>5
    <2> QED
      BY <2>4, <2>6 DEF Ids, Due
  <1>6. Ids(rest) = (admitted - Cardinality(Ids(rest)))..(admitted - 1)
    <2> HIDE DEF rest
    <2> QED
      BY <1>1, <1>4, <1>5, UpperInterval
  <1>7. Cardinality(Ids(rest)) = Cardinality(rest)
    <2> HIDE DEF rest
    <2> QED
      BY <1>2, IdsCounted
  <1> QED
    BY <1>6, <1>7

LEMMA InitConsecutive == Init => Consecutive
  <1> SUFFICES ASSUME Init PROVE Consecutive
    OBVIOUS
  <1>1. heap = {} /\ admitted = 0 /\ Cardinality(heap) = 0
    BY FS_EmptySet DEF Init
  <1> QED
    BY <1>1 DEF Consecutive, Ids

LEMMA NextConsecutive == Inductive /\ Consecutive /\ [Next]_vars => Consecutive'
  <1> SUFFICES ASSUME Inductive, Consecutive, [Next]_vars PROVE Consecutive'
    OBVIOUS
  <1> USE DEF Inductive
  <1>0. BinStart \in Nat /\ BinEnd \in Nat /\ BinEnd - 1 \in Nat
    BY BinTimes
  <1>1. ASSUME NEW t \in Nat, heap' = heap \ Due(t), UNCHANGED admitted
        PROVE  Consecutive'
    <2>1. Ids(heap') = (admitted - Cardinality(heap'))..(admitted - 1)
      BY <1>1, AdvanceConsecutive
    <2> QED
      BY <1>1, <2>1 DEF Consecutive
  <1>2. ASSUME NEW t \in Nat, NEW arrive, NEW service, admit(t, arrive, service)
        PROVE  Consecutive'
    <2> DEFINE rest == heap \ Due(t)
               new == [id |-> admitted, back |-> ServiceEnd(arrive, service) + TWb]
    <2>1. heap' = rest \cup {new} /\ admitted' = admitted + 1
      BY <1>2 DEF admit
    <2>2. /\ Ids(rest) = (admitted - Cardinality(rest))..(admitted - 1)
          /\ IsFiniteSet(rest) /\ admitted \in Nat
      BY AdvanceConsecutive, AdvanceExact DEF TypeOK
    <2>3. new.id = admitted
      OBVIOUS
    <2>4. \A p \in rest : p \in heap /\ p.id < admitted /\ p.id \in Nat
      BY DEF FifoService, TypeOK
    <2> HIDE DEF rest, new
    <2>5. Cardinality(heap') = Cardinality(rest) + 1 /\ Cardinality(rest) \in Nat
      <3>1. new \notin rest
        BY <2>2, <2>3, <2>4
      <3> QED
        BY <2>1, <2>2, <3>1, FS_AddElement, FS_CardinalityType
    <2>6. Ids(heap') = Ids(rest) \cup {admitted}
      BY <2>1, <2>3 DEF Ids
    <2>7. Ids(heap') = (admitted' - Cardinality(heap'))..(admitted' - 1)
      <3> DEFINE n == Cardinality(rest)
      <3>1. n \in Nat
        BY <2>5
      <3>2. Ids(heap') = ((admitted - n)..(admitted - 1)) \cup {admitted}
        BY <2>2, <2>6
      <3>3. admitted' - Cardinality(heap') = admitted - n /\ admitted' - 1 = admitted
        BY <2>1, <2>2, <2>5
      <3> HIDE DEF n
      <3>4. ((admitted - n)..(admitted - 1)) \cup {admitted} = (admitted - n)..admitted
        BY <2>2, <3>1
      <3> QED
        BY <3>2, <3>3, <3>4
    <2>8. \A p, r \in heap' : p.id = r.id => p = r
      BY <2>1, <2>3, <2>4, <2>2 DEF Consecutive
    <2> QED
      BY <2>7, <2>8 DEF Consecutive
  <1>3. CASE Packet
    <2>1. PICK t \in BinStart..(BinEnd - 1) :
             \/ credit_drop(t)
             \/ record_pcie_drop(t)
             \/ \E transit \in TransitTimes, service \in ServiceTimes :
                   admit(t, t + transit, service)
      BY <1>3 DEF Packet
    <2>2. t \in Nat
      BY <1>0
    <2> QED
      BY <1>1, <1>2, <2>1, <2>2 DEF credit_drop, record_pcie_drop
  <1>4. CASE EndBin
    BY <1>0, <1>1, <1>4 DEF EndBin, advance_to
  <1>5. CASE Release
    BY <1>0, <1>1, <1>2, <1>5 DEF Release, credit_drop
  <1>6. CASE reset_bin_stats \/ Done \/ UNCHANGED vars
    BY <1>6 DEF reset_bin_stats, Done, vars, Consecutive, Ids
  <1> QED
    BY <1>3, <1>4, <1>5, <1>6 DEF Next

(* The last n of the packets numbered below next.                          *)
Last(n, next) == [i \in 1..n |-> next - n + i - 1]

(* In the order in which the credits come back, the packets in flight are  *)
(* in the order of their numbers.                                          *)
LEMMA EarlierCounted ==
    ASSUME TypeOK, FifoService, Consecutive, NEW p \in heap
    PROVE  Cardinality(Earlier(p)) = p.id - (admitted - Cardinality(heap))
  <1> DEFINE low == admitted - Cardinality(heap)
  <1>1. /\ IsFiniteSet(heap) /\ heap \subseteq [id : Nat, back : Nat]
        /\ admitted \in Nat /\ Cardinality(heap) \in Nat
    BY FS_CardinalityType DEF TypeOK
  <1>2. low \in Int
    BY <1>1
  <1>3. /\ \A r, s \in heap : r.id = s.id => r = s
        /\ Ids(heap) = low..(admitted - 1)
    BY DEF Consecutive
  <1> HIDE DEF low
  <1>4. Earlier(p) = {r \in heap : r.id < p.id}
    <2> SUFFICES ASSUME NEW r \in heap PROVE r.back < p.back <=> r.id < p.id
      BY DEF Earlier
    <2>1. r.id \in Nat /\ p.id \in Nat /\ r.back \in Nat /\ p.back \in Nat
      BY <1>1
    <2>2. /\ r.id < p.id => r.back < p.back
          /\ p.id < r.id => p.back < r.back
          /\ r.id = p.id => r = p
      BY <1>3 DEF FifoService
    <2> QED
      BY <2>1, <2>2
  <1>5. IsFiniteSet(Earlier(p)) /\ \A r, s \in Earlier(p) : r.id = s.id => r = s
    BY <1>1, <1>3, <1>4, FS_Subset
  <1>6. Cardinality(Ids(Earlier(p))) = Cardinality(Earlier(p))
    BY <1>5, IdsCounted
  <1>7. p.id \in low..(admitted - 1) /\ p.id \in Nat
    BY <1>1, <1>3 DEF Ids
  <1>8. Ids(Earlier(p)) = low..(p.id - 1)
    <2>1. ASSUME NEW x \in Ids(Earlier(p)) PROVE x \in low..(p.id - 1)
      <3>1. PICK r \in Earlier(p) : r.id = x
        BY DEF Ids
      <3>2. x \in Ids(heap) /\ x < p.id
        BY <1>4, <3>1 DEF Ids
      <3> QED
        BY <1>1, <1>2, <1>3, <1>7, <3>2
    <2>2. ASSUME NEW x \in low..(p.id - 1) PROVE x \in Ids(Earlier(p))
      <3>1. x \in Ids(heap)
        BY <1>1, <1>2, <1>3, <1>7, <2>2
      <3>2. PICK r \in heap : r.id = x
        BY <3>1 DEF Ids
      <3>3. r \in Earlier(p)
        BY <1>2, <1>4, <1>7, <2>2, <3>2
      <3> QED
        BY <3>2, <3>3 DEF Ids
    <2> QED
      BY <2>1, <2>2
  <1>9. Cardinality(low..(p.id - 1)) = p.id - low
    BY <1>2, <1>7, FS_Interval
  <1> QED
    BY <1>6, <1>8, <1>9 DEF low

Numbered == InFlight = Last(Cardinality(heap), admitted)

LEMMA InFlightConsecutive == TypeOK /\ FifoService /\ Consecutive => Numbered
  <1> SUFFICES ASSUME TypeOK, FifoService, Consecutive PROVE Numbered
    OBVIOUS
  <1> DEFINE n == Cardinality(heap)
             low == admitted - n
  <1>1. n \in Nat /\ admitted \in Nat /\ low \in Int
    BY FS_CardinalityType DEF TypeOK
  <1>2. \A p \in heap : Cardinality(Earlier(p)) = p.id - low /\ p.id \in Nat
    BY EarlierCounted DEF TypeOK
  <1>3. Ids(heap) = low..(admitted - 1) /\ low = admitted - n
    BY DEF Consecutive
  <1> HIDE DEF n, low
  <1>4. ASSUME NEW i \in 1..n
        PROVE  (CHOOSE p \in heap : Cardinality(Earlier(p)) = i - 1).id = admitted - n + i - 1
    <2>1. low + i - 1 \in Ids(heap)
      BY <1>1, <1>3
    <2>2. PICK p \in heap : p.id = low + i - 1
      BY <2>1 DEF Ids
    <2>3. Cardinality(Earlier(p)) = i - 1
      BY <1>1, <1>2, <2>2
    <2> DEFINE q == CHOOSE r \in heap : Cardinality(Earlier(r)) = i - 1
    <2>4. q \in heap /\ Cardinality(Earlier(q)) = i - 1
      BY <2>3
    <2> HIDE DEF q
    <2>5. q.id = admitted - n + i - 1
      BY <1>1, <1>2, <1>3, <2>4
    <2> QED
      BY <2>5 DEF q
  <1> QED
    BY <1>4 DEF Numbered, InFlight, Last, n

LEMMA InFlightAfter == (TypeOK /\ FifoService /\ Consecutive)' => Numbered'
  BY InFlightConsecutive, PTL

(* Completing the oldest packets and admitting one, on sequences.          *)
LEMMA LastSeq ==
    ASSUME NEW n \in Nat, NEW next \in Int
    PROVE  /\ Last(n, next) \in Seq(Int) /\ Len(Last(n, next)) = n
           /\ \A i \in 1..n : Last(n, next)[i] = next - n + i - 1
  <1>1. \A i \in 1..n : next - n + i - 1 \in Int
    OBVIOUS
  <1>2. Last(n, next) \in [1..n -> Int]
    BY <1>1 DEF Last
  <1> QED
    BY <1>2 DEF Last

LEMMA LastCompleted ==
    ASSUME NEW n \in Nat, NEW next \in Int, NEW k \in 0..n, NEW s, s = Last(n, next)
    PROVE  SubSeq(s, k + 1, Len(s)) = Last(n - k, next)
  <1> DEFINE u == SubSeq(s, k + 1, n)
             v == Last(n - k, next)
  <1>1. /\ s \in Seq(Int) /\ Len(s) = n
        /\ \A i \in 1..n : s[i] = next - n + i - 1
    BY LastSeq
  <1>2. \A i \in (k + 1)..n : s[i] \in Int
    BY <1>1
  <1>3. /\ u \in Seq(Int) /\ Len(u) = n - k
        /\ \A i \in 1..(n - k) : u[i] = s[k + i]
    <2>1. /\ u \in Seq(Int)
          /\ Len(u) = IF k + 1 <= n THEN n - (k + 1) + 1 ELSE 0
          /\ \A i \in 1..(n - (k + 1) + 1) : u[i] = s[k + 1 + i - 1]
      BY <1>2, SubSeqProperties
    <2> QED
      BY <2>1
  <1>4. /\ v \in Seq(Int) /\ Len(v) = n - k
        /\ \A i \in 1..(n - k) : v[i] = next - (n - k) + i - 1
    <2>1. n - k \in Nat
      OBVIOUS
    <2> QED
      BY <2>1, LastSeq
  <1>5. \A i \in 1..(n - k) : u[i] = v[i]
    BY <1>1, <1>3, <1>4
  <1> HIDE DEF u, v
  <1>6. u = v
    BY <1>3, <1>4, <1>5, SeqEqual
  <1> QED
    BY <1>1, <1>6 DEF u, v

LEMMA LastAppended ==
    ASSUME NEW n \in Nat, NEW next \in Int
    PROVE  Append(Last(n, next), next) = Last(n + 1, next + 1)
  <1> DEFINE s == Last(n, next)
             u == Append(s, next)
             v == Last(n + 1, next + 1)
  <1>1. /\ s \in Seq(Int) /\ Len(s) = n
        /\ \A i \in 1..n : s[i] = next - n + i - 1
    BY LastSeq
  <1>2. /\ v \in Seq(Int) /\ Len(v) = n + 1
        /\ \A i \in 1..(n + 1) : v[i] = (next + 1) - (n + 1) + i - 1
    BY LastSeq
  <1> HIDE DEF s, v
  <1>3. /\ u \in Seq(Int) /\ Len(u) = n + 1
        /\ \A i \in 1..n : u[i] = s[i]
        /\ u[n + 1] = next
    BY <1>1, AppendProperties
  <1>4. \A i \in 1..(n + 1) : u[i] = v[i]
    BY <1>1, <1>2, <1>3
  <1> HIDE DEF u
  <1>5. u = v
    BY <1>2, <1>3, <1>4, SeqEqual
  <1> QED
    BY <1>5 DEF u, v, s

(* The credits that are due are some of those in the heap.                 *)
LEMMA DueCounted ==
    ASSUME TypeOK, NEW t \in Nat
    PROVE  /\ Cardinality(heap) \in Nat /\ Cardinality(Due(t)) \in 0..Cardinality(heap)
           /\ Cardinality(heap \ Due(t)) = Cardinality(heap) - Cardinality(Due(t))
  <1>1. IsFiniteSet(heap) /\ Due(t) \subseteq heap
    BY DEF TypeOK, Due
  <1>2. /\ IsFiniteSet(Due(t)) /\ IsFiniteSet(heap \ Due(t))
        /\ heap \cap Due(t) = Due(t)
    BY <1>1, FS_Subset, FS_Difference
  <1>3. Cardinality(heap \ Due(t)) = Cardinality(heap) - Cardinality(Due(t))
    BY <1>1, <1>2, FS_Difference
  <1>4. /\ Cardinality(heap) \in Nat /\ Cardinality(Due(t)) \in Nat
        /\ Cardinality(heap \ Due(t)) \in Nat
    BY <1>1, <1>2, FS_CardinalityType
  <1> QED
    BY <1>3, <1>4

(* A call that admits nothing completes the packets that are due.          *)
LEMMA AdvanceRefines ==
    ASSUME Inductive, Consecutive, Inductive', Consecutive', NEW t \in Nat,
           heap' = heap \ Due(t), UNCHANGED admitted
    PROVE  Abstract!Next
  <1> DEFINE n == Cardinality(heap)
             k == Cardinality(Due(t))
  <1>1. /\ n \in Nat /\ k \in 0..n /\ Cardinality(heap') = n - k
        /\ admitted \in Int
    BY DueCounted DEF Inductive, TypeOK
  <1>2. InFlight = Last(n, admitted)
    BY InFlightConsecutive DEF Inductive, Numbered
  <1>3. InFlight' = Last(n - k, admitted)
    <2>1. InFlight' = Last(Cardinality(heap'), admitted')
      BY InFlightAfter DEF Inductive, Numbered
    <2> QED
      BY <1>1, <2>1
  <1> HIDE DEF n, k
  <1>4. SubSeq(InFlight, k + 1, Len(InFlight)) = Last(n - k, admitted)
    BY <1>1, <1>2, LastCompleted
  <1>5. Len(InFlight) = n
    BY <1>1, <1>2, LastSeq
  <1>6. Abstract!Complete(k)
    BY <1>3, <1>4 DEF Abstract!Complete, Abstract!After
  <1> QED
    BY <1>1, <1>5, <1>6 DEF Abstract!Next

(* A call that admits a packet finds room for it after that.               *)
LEMMA AdmitRefines ==
    ASSUME Inductive, Consecutive, Inductive', Consecutive', NEW t \in Nat,
           NEW arrive, NEW service, admit(t, arrive, service)
    PROVE  Abstract!Next
  <1> DEFINE n == Cardinality(heap)
             k == Cardinality(Due(t))
  <1>1. /\ n \in Nat /\ k \in 0..n /\ Cardinality(heap \ Due(t)) = n - k
        /\ admitted \in Int
    BY DueCounted DEF Inductive, TypeOK
  <1>2. InFlight = Last(n, admitted)
    BY InFlightConsecutive DEF Inductive, Numbered
  <1>3. n - k < D_q
    <2>1. CreditsAt(t) + Cardinality(heap \ Due(t)) = D_q /\ CreditsAt(t) \in 0..D_q
      BY AdvanceExact DEF Inductive
    <2>2. CreditsAt(t) > 0
      BY DEF admit
    <2> QED
      BY <1>1, <2>1, <2>2, QueuePipelineAssumption
  <1>4. admitted' = admitted + 1
    BY DEF admit
  <1>5. Cardinality(heap') = n - k + 1
    <2>1. credits' + Cardinality(heap') = D_q /\ credits' = CreditsAt(t) - 1
      BY DEF Inductive, CreditsConserved, admit
    <2>2. CreditsAt(t) + Cardinality(heap \ Due(t)) = D_q /\ CreditsAt(t) \in 0..D_q
      BY AdvanceExact DEF Inductive
    <2>3. Cardinality(heap') \in Nat
      BY FS_CardinalityType DEF Inductive, TypeOK
    <2> QED
      BY <1>1, <2>1, <2>2, <2>3, QueuePipelineAssumption
  <1>6. InFlight' = Last((n - k) + 1, admitted + 1)
    <2>1. InFlight' = Last(Cardinality(heap'), admitted')
      BY InFlightAfter DEF Inductive, Numbered
    <2> QED
      BY <1>4, <1>5, <2>1
  <1> HIDE DEF n, k
  <1>7. SubSeq(InFlight, k + 1, Len(InFlight)) = Last(n - k, admitted)
    BY <1>1, <1>2, LastCompleted
  <1>8. n - k \in Nat
    BY <1>1
  <1>9. Len(Last(n - k, admitted)) < D_q
    BY <1>1, <1>3, <1>8, LastSeq
  <1>10. InFlight' = Append(Last(n - k, admitted), admitted)
    BY <1>1, <1>6, <1>8, LastAppended
  <1>11. Len(InFlight) = n
    BY <1>1, <1>2, LastSeq
  <1>12. Abstract!Admit(k)
    BY <1>4, <1>7, <1>9, <1>10 DEF Abstract!Admit, Abstract!After
  <1> QED
    BY <1>1, <1>11, <1>12 DEF Abstract!Next

(* The queue implements the bounded FIFO of Ring.                          *)
THEOREM QueueImplementsRing == Spec => ImplementsRing
  <1>1. Init => Abstract!Init
    <2> SUFFICES ASSUME Init PROVE Abstract!Init
      OBVIOUS
    <2>1. heap = {} /\ admitted = 0 /\ Cardinality(heap) = 0
      BY FS_EmptySet DEF Init
    <2>2. InFlight = << >>
      BY <2>1 DEF InFlight
    <2> QED
      BY <2>1, <2>2 DEF Abstract!Init
  <1>2. /\ Inductive /\ Consecutive /\ Inductive' /\ Consecutive' /\ [Next]_vars
        => [Abstract!Next]_<<InFlight, admitted>>
    <2> SUFFICES ASSUME Inductive, Consecutive, Inductive', Consecutive', [Next]_vars
                 PROVE  [Abstract!Next]_<<InFlight, admitted>>
      OBVIOUS
    <2>0. BinStart \in Nat /\ BinEnd \in Nat /\ BinEnd - 1 \in Nat
      BY BinTimes DEF Inductive
    <2>1. CASE Packet
      <3>1. PICK t \in BinStart..(BinEnd - 1) :
               \/ credit_drop(t)
               \/ record_pcie_drop(t)
               \/ \E transit \in TransitTimes, service \in ServiceTimes :
                     admit(t, t + transit, service)
        BY <2>1 DEF Packet
      <3>2. t \in Nat
        BY <2>0
      <3> QED
        BY <3>1, <3>2, AdvanceRefines, AdmitRefines DEF credit_drop, record_pcie_drop
    <2>2. CASE EndBin
      BY <2>0, <2>2, AdvanceRefines DEF EndBin, advance_to
    <2>3. CASE Release
      BY <2>0, <2>3, AdvanceRefines, AdmitRefines DEF Release, credit_drop
    <2>4. CASE reset_bin_stats \/ Done \/ UNCHANGED vars
      <3>1. heap' = heap /\ admitted' = admitted
        BY <2>4 DEF reset_bin_stats, Done, vars
      <3>2. InFlight' = InFlight
        BY <3>1 DEF InFlight, Earlier
      <3> QED
        BY <3>1, <3>2
    <2> QED
      BY <2>1, <2>2, <2>3, <2>4 DEF Next
  <1>3. Spec => []Consecutive
    BY InitConsecutive, NextConsecutive, InductiveHolds, PTL DEF Spec
  <1> QED
    BY <1>1, <1>2, <1>3, InductiveHolds, PTL DEF Spec, ImplementsRing, Abstract!Spec

=============================================================================
