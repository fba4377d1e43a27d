---------------------------- MODULE TracePackets ----------------------------
(***************************************************************************)
(* Packet timelines: how the trace generators of src/src/traces.py and     *)
(* src/src/hal_workload.py turn bytes and instants into packets.  A        *)
(* timeline is a sequence of packets [ts, sz], the two arrays of a         *)
(* FlowTrace; ts is in ns and sz in bytes, both integers.  Bytes and       *)
(* instants that are floats in the code are integers in units of 1/Grain   *)
(* of a byte or of a ns.                                                   *)
(***************************************************************************)
EXTENDS Sorting, SequencesExt

CONSTANTS
    Grain,      \* units per byte and per ns
    DeltaBin,   \* delta_bin_ns
    MyBins,     \* my_total_bins of _init_domain
    Mtu,        \* mtu_bytes
    MinBytes,   \* the smallest message: 64
    MaxBytes,   \* max_flow_bytes, and the 10 MB of a mouse
    NsPerByte   \* sending time of a byte at per_flow_rate_gbps, in 1/Grain ns

ASSUME TracePacketsAssumption ==
    /\ {Grain, DeltaBin, MyBins, Mtu, MinBytes, MaxBytes, NsPerByte}
          \subseteq Nat \ {0}
    /\ MinBytes <= Mtu /\ MinBytes <= MaxBytes

Least(x, y) == IF x <= y THEN x ELSE y

Greatest(x, y) == IF x >= y THEN x ELSE y

CeilDiv(x, y) == (x + y - 1) \div y

(* Python's round(): to the nearest byte, a half to the even one.          *)
Round(b) ==
    LET whole == b \div Grain
        part == 2 * (b % Grain)
    IN  IF part > Grain \/ (part = Grain /\ whole % 2 = 1) THEN whole + 1
                                                           ELSE whole

horizon_ns == DeltaBin * MyBins + 1

Packet(ts, sz) == [ts |-> ts, sz |-> sz]

(* Stable sort by timestamp: np.argsort(ts, kind="stable").                *)
InOrder(p) ==
    LET ts == [i \in DOMAIN p |-> p[i].ts]
    IN  [k \in DOMAIN p |-> p[Place(DOMAIN p, ts, k)]]

(* p[mask] of NumPy: SelectSeq, in a form that proofs can unfold.          *)
Picked(p, mask) ==
    [k \in 1..Cardinality(mask) |-> p[Place(mask, [i \in mask |-> i], k)]]

Masked(p, Test(_)) == Picked(p, {i \in DOMAIN p : Test(p[i])})

Clipped(size) ==
    Least(Greatest(size, MinBytes * Grain), MaxBytes * Grain)

(* A message of size bytes sent at t: full packets at the flow's rate and  *)
(* the remainder in a last one, up to the horizon.                         *)
Gap == Mtu * NsPerByte

Full(size) == size \div (Mtu * Grain)

Remainder(size) ==
    LET rem == (size - Full(size) * Mtu * Grain) \div Grain
    IN  IF Full(size) = 0 /\ rem < MinBytes THEN MinBytes ELSE rem

PacketCount(size) == Full(size) + (IF Remainder(size) > 0 THEN 1 ELSE 0)

Stamp(t, i) == (t + (i - 1) * Gap) \div Grain

(* Mutant: the last packet is as large as the others.                      *)
LastSize_Full(size) == Mtu

LastSize(size) == IF Remainder(size) > 0 THEN Remainder(size) ELSE Mtu

BackToBack(t, size) ==
    LET n == PacketCount(size)
        kept == Cardinality({i \in 1..n : Stamp(t, i) < horizon_ns})
    IN  [i \in 1..kept |->
            Packet(Stamp(t, i), IF i = n THEN LastSize(size) ELSE Mtu)]

(* Constant bit rate between two instants in ns, one packet an interval    *)
(* (in 1/Grain ns), each off its place by its jitter.                      *)
CbrCount(from, to, interval) ==
    IF to <= from THEN 0 ELSE ((to - from) * Grain) \div interval

Cbr(from, to, interval, jitter) ==
    LET base(i) == from * Grain + ((2 * i - 1) * interval) \div 2 + jitter[i]
        clip(x) == Least(Greatest(x, from * Grain), (to - 1) * Grain)
    IN  InOrder([i \in 1..CbrCount(from, to, interval) |->
                    Packet(clip(base(i)) \div Grain, Mtu)])

(* The timeline p of full packets cut to a budget of size bytes.           *)
Trimmed(p, size) ==
    LET over == {k \in DOMAIN p : k * Mtu * Grain > size}
        cut == CHOOSE k \in over : \A j \in over : k <= j
        rest == size - (cut - 1) * Mtu * Grain
    IN  IF over = {} THEN p
        ELSE IF rest > 0
        THEN [SubSeq(p, 1, cut) EXCEPT ![cut].sz = Greatest(1, Round(rest))]
        ELSE SubSeq(p, 1, cut - 1)

(* The packets of what a flow of the HAL workload sends in one window,     *)
(* spread over the window.                                                 *)
WindowPackets(e) ==
    LET n == CeilDiv(e.bytes, Mtu * Grain)
        ts(i) == (2 * n * e.from + (2 * i - 1) * (e.to - e.from)) \div (2 * n)
        kept == Cardinality({i \in 1..n : ts(i) < horizon_ns})
        rem == Round(e.bytes) - (kept - 1) * Mtu
    IN  [i \in 1..kept |->
            Packet(ts(i), IF i = kept /\ 0 < rem /\ rem < Mtu THEN rem ELSE Mtu)]

Bytes(p) == FoldLeft(LAMBDA sum, packet : sum + packet.sz, 0, p)

=============================================================================
