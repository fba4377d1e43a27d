--------------------------- MODULE QueuePipeline ---------------------------
(***************************************************************************)
(* One queue of the host pipeline (QueuePipeline of                        *)
(* src/src/host_pipeline.py): descriptor credits at the FPGA, the heap of  *)
(* scheduled credit returns, the core that serves the ring, and the        *)
(* counters that are reset every bin; driven the way the simulator drives  *)
(* it (src/src/sim.py): the packets of a bin in timestamp order, the       *)
(* advance to the end of the bin, the telemetry record, the packets that a *)
(* finished handoff releases, the reset.                                   *)
(*                                                                         *)
(* Times are integers.  Sizes are not modelled: they only reach the queue  *)
(* as the time a packet takes to arrive and as byte counters that move     *)
(* with the packet counters.  The outcome of the PCIe link is open here.   *)
(***************************************************************************)
EXTENDS Integers, FiniteSets

CONSTANTS
    D_q,            \* descriptor ring depth
    ServiceTimes,   \* values of _t_app: mean, jitter, core share and lookup
    TransitTimes,   \* time from generation to arrival in the ring
    TWb,            \* t_wb_ns
    BinNs,          \* delta_bin_ns
    MaxBins,        \* bound: bins
    MaxPerBin,      \* bound: packets generated in one bin
    MaxRelease      \* bound: packets released at the end of one bin

ASSUME QueuePipelineAssumption ==
    /\ D_q \in Nat \ {0}
    /\ ServiceTimes \subseteq Nat \ {0}
    /\ TransitTimes \subseteq Nat
    /\ TWb \in Nat
    /\ BinNs \in Nat \ {0}
    /\ MaxBins \in Nat /\ MaxPerBin \in Nat /\ MaxRelease \in Nat

VARIABLES
    credits,     \* credits_at_fpga
    heap,        \* credit_return_heap: {[id, back]}, id counts admissions
    next_free,   \* next_service_free_ns
    now,         \* _last_advance_ns
    stats,       \* QueuePipelineStats, the packet counters
    bin,         \* the bin that is running
    phase,       \* "run": packets of the bin; "release": after its record
    released,    \* packets released since the record
    admitted,    \* packets admitted so far; not in the code
    row,         \* the counters the telemetry recorded last
    base         \* credits when the counters were last reset; not in the code

vars == <<credits, heap, next_free, now, stats, bin, phase, released,
          admitted, row, base>>

-----------------------------------------------------------------------------
NoStats == [adm |-> 0, drop |-> 0, credit_drop |-> 0, pcie_drop |-> 0,
            returned |-> 0, u_max |-> 0]

BinStart == bin * BinNs
BinEnd == (bin + 1) * BinNs

(* advance_to(t): pop every return that is due and give its credit back.   *)
Due(t) == {p \in heap : p.back <= t}

(* Mutants: all returns of a call give one credit; a return refills the    *)
(* ring.                                                                   *)
CreditsAt_One(t) == IF Due(t) = {} THEN credits ELSE credits + 1
CreditsAt_Refilled(t) == IF Due(t) = {} THEN credits ELSE D_q

CreditsAt(t) ==
    LET c == credits + Cardinality(Due(t))
    IN  IF c <= D_q THEN c ELSE D_q

(* Mutant: the difference is assigned, not added.                          *)
StatsAt_Assigned(t) == [stats EXCEPT !.returned = CreditsAt(t) - credits]

StatsAt(t) == [stats EXCEPT !.returned = @ + (CreditsAt(t) - credits)]

advance_to(t) ==
    /\ credits' = CreditsAt(t)
    /\ heap' = heap \ Due(t)
    /\ stats' = StatsAt(t)
    /\ now' = t

(* A packet for which there is no credit at its generation.                *)
credit_drop(t) ==
    /\ CreditsAt(t) <= 0
    /\ credits' = CreditsAt(t)
    /\ heap' = heap \ Due(t)
    /\ stats' = [StatsAt(t) EXCEPT !.drop = @ + 1, !.credit_drop = @ + 1]
    /\ now' = t
    /\ UNCHANGED <<next_free, admitted>>

(* A packet that has a credit but that the PCIe link refuses.              *)
record_pcie_drop(t) ==
    /\ CreditsAt(t) > 0
    /\ credits' = CreditsAt(t)
    /\ heap' = heap \ Due(t)
    /\ stats' = [StatsAt(t) EXCEPT !.drop = @ + 1, !.pcie_drop = @ + 1]
    /\ now' = t
    /\ UNCHANGED <<next_free, admitted>>

(* try_admit(t, ...) of a packet that reaches the ring at "arrive" and     *)
(* that the core then serves for "service".                                *)
Larger(x, y) == IF x >= y THEN x ELSE y

ServiceEnd(arrive, service) == Larger(arrive, next_free) + service

admit(t, arrive, service) ==
    LET left == CreditsAt(t) - 1
        end  == ServiceEnd(arrive, service)
    IN  /\ CreditsAt(t) > 0
        /\ credits' = left
        /\ heap' = (heap \ Due(t)) \cup {[id |-> admitted, back |-> end + TWb]}
        /\ next_free' = end
        /\ stats' = [StatsAt(t) EXCEPT !.adm = @ + 1,
                                       !.u_max = Larger(@, D_q - left)]
        /\ now' = t
        /\ admitted' = admitted + 1

-----------------------------------------------------------------------------
Init ==
    /\ credits = D_q /\ heap = {} /\ next_free = 0 /\ now = 0
    /\ stats = NoStats /\ base = D_q
    /\ bin = 0 /\ phase = "run" /\ released = 0
    /\ admitted = 0
    /\ row = NoStats

(* The per-packet loop of _process_bin_merged.                             *)
Packet ==
    /\ phase = "run" /\ bin < MaxBins
    /\ stats.adm + stats.drop < MaxPerBin
    /\ \E t \in BinStart..(BinEnd - 1) :
          /\ t >= now
          /\ \/ credit_drop(t)
             \/ record_pcie_drop(t)
             \/ \E transit \in TransitTimes, service \in ServiceTimes :
                   admit(t, t + transit, service)
    /\ UNCHANGED <<bin, phase, released, row, base>>

(* Steps 6 and 7 of _process_bin_merged.                                   *)
EndBin ==
    /\ phase = "run" /\ bin < MaxBins
    /\ advance_to(BinEnd)
    /\ row' = stats'
    /\ phase' = "release"
    /\ UNCHANGED <<next_free, bin, released, admitted, base>>

(* The epoch boundary releases one buffered packet, 1 ns before its end.   *)
Release ==
    /\ phase = "release" /\ released < MaxRelease
    /\ \/ credit_drop(BinEnd - 1)
       \/ \E transit \in TransitTimes, service \in ServiceTimes :
             admit(BinEnd - 1, BinEnd - 1 + transit, service)
    /\ released' = released + 1
    /\ UNCHANGED <<bin, phase, row, base>>

(* The next bin starts by resetting the counters.                          *)
reset_bin_stats ==
    /\ phase = "release"
    /\ stats' = NoStats /\ base' = credits
    /\ bin' = bin + 1 /\ phase' = "run" /\ released' = 0
    /\ UNCHANGED <<credits, heap, next_free, now, admitted, row>>

Done == phase = "run" /\ bin = MaxBins /\ UNCHANGED vars

Next == Packet \/ EndBin \/ Release \/ reset_bin_stats \/ Done

Spec == Init /\ [][Next]_vars

-----------------------------------------------------------------------------
CounterRecord == [adm : Nat, drop : Nat, credit_drop : Nat, pcie_drop : Nat,
                  returned : Nat, u_max : 0..D_q]

(* Every variable has its type.                                            *)
TypeOK ==
    /\ credits \in 0..D_q
    /\ IsFiniteSet(heap)
    /\ heap \subseteq [id : Nat, back : Nat]
    /\ next_free \in Nat /\ now \in Nat
    /\ stats \in CounterRecord
    /\ bin \in 0..MaxBins /\ phase \in {"run", "release"}
    /\ released \in 0..MaxRelease
    /\ admitted \in Nat
    /\ row \in CounterRecord
    /\ base \in 0..D_q

(* Every descriptor is either a credit at the FPGA or one scheduled        *)
(* return: no credit is lost or minted, so the clamp of advance_to never   *)
(* hides an over-return.                                                   *)
CreditsConserved == credits + Cardinality(heap) = D_q

(* The core serves the ring in order of admission, one packet at a time:   *)
(* a later packet's credit comes back strictly later, although returns are *)
(* popped by time and packets may arrive in the ring out of order.         *)
FifoService ==
    /\ \A p, r \in heap : p.id < r.id => p.back < r.back
    /\ \A p \in heap : p.back <= next_free + TWb /\ p.id < admitted

(* No return is overdue: what the FPGA sees as its credits at the time of  *)
(* the last call are all the credits that had come back by then.           *)
NothingOverdue == \A p \in heap : p.back > now

(* Between two resets the change in credits is what the bin reports: the   *)
(* credits returned minus the packets admitted, releases included.         *)
BinBalance == credits = base + stats.returned - stats.adm

(* The conjunction that one step preserves.                                *)
Inductive ==
    /\ TypeOK
    /\ CreditsConserved
    /\ FifoService
    /\ NothingOverdue
    /\ BinBalance
    /\ phase = "release" => bin < MaxBins

(* Every drop of a queue is counted in the telemetry that feeds L_q        *)
(* (README.md:96): when the counters of a bin are reset, what they hold    *)
(* has been recorded.                                                      *)
DropsReachTelemetry ==
    [][reset_bin_stats => stats.drop = row.drop]_vars

-----------------------------------------------------------------------------
(* The queue implements Ring: seen in the order in which their credits     *)
(* come back, the packets in flight are a FIFO of at most D_q.             *)
Earlier(p) == {r \in heap : r.back < p.back}

InFlight ==
    [i \in 1..Cardinality(heap) |->
        (CHOOSE p \in heap : Cardinality(Earlier(p)) = i - 1).id]

Abstract == INSTANCE Ring WITH Depth <- D_q, ring <- InFlight, next <- admitted

(* Every behaviour of the queue is one of a bounded FIFO ring.             *)
ImplementsRing == Abstract!Spec

=============================================================================
