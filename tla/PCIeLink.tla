------------------------------ MODULE PCIeLink ------------------------------
(***************************************************************************)
(* The PCIe link both domains share (PCIeLink of src/src/pcie.py): a       *)
(* serialiser with a staging FIFO in front of it, represented by the one   *)
(* time at which the link becomes free.                                    *)
(*                                                                         *)
(* Time is counted in ticks such that a byte takes a whole number of       *)
(* ticks; quantities the code converts to bytes with the bandwidth are     *)
(* kept as ticks of link time.                                             *)
(***************************************************************************)
EXTENDS Integers, FiniteSets

CONSTANTS
    Domains,       \* "stateless", "stateful"
    Sizes,         \* packet sizes in bytes
    TicksPerByte,  \* _ns_per_byte()
    FifoBytes,     \* fifo_bytes
    Setup,         \* setup_ns
    MaxTime,       \* bound: the last tick at which a packet is generated
    MaxPkts        \* bound: packets offered to the link

ASSUME PCIeLinkAssumption ==
    /\ Sizes \subseteq Nat \ {0}
    /\ TicksPerByte \in Nat \ {0}
    /\ FifoBytes \in Nat
    /\ Setup \in Nat
    /\ MaxTime \in Nat /\ MaxPkts \in Nat

VARIABLES
    busy_until,  \* busy_until_ns
    now,         \* time of the last call; callers' times do not go back
    stats,       \* PCIeLinkStats
    wire,        \* accepted packets not yet complete: {[ready, end, bytes]}
    work,        \* link time of all accepted packets
    offered      \* packets offered so far
    \* wire, work and offered are not in the code

vars == <<busy_until, now, stats, wire, work, offered>>

-----------------------------------------------------------------------------
LinkTime(size) == size * TicksPerByte

Fifo == LinkTime(FifoBytes)

Later(x, y) == IF x >= y THEN x ELSE y

(* pending_bytes(t), as link time.                                         *)
pending(t) == IF busy_until <= t THEN 0 ELSE busy_until - t

NoStats == [accepted_pkts |-> 0, accepted |-> 0, dropped_pkts |-> 0,
            by_domain |-> [d \in Domains |-> 0], fifo_peak |-> 0]

(* Step past the packets that have completed by time t.                    *)
Outstanding(t) == {p \in wire : p.end > t}

drop(t, domain) ==
    /\ stats' = [stats EXCEPT !.dropped_pkts = @ + 1,
                              !.by_domain[domain] = @ + 1]
    /\ wire' = Outstanding(t)
    /\ UNCHANGED <<busy_until, work>>

accept(t, size) ==
    LET start    == Later(t + Setup, busy_until)
        complete == start + LinkTime(size)
        backlog  == IF complete <= t THEN 0 ELSE complete - t
    IN  /\ busy_until' = complete
        /\ stats' = [stats EXCEPT !.accepted_pkts = @ + 1,
                                  !.accepted = @ + LinkTime(size),
                                  !.fifo_peak = Later(@, backlog)]
        /\ wire' = Outstanding(t) \cup
                   {[ready |-> t, end |-> complete, bytes |-> size]}
        /\ work' = work + LinkTime(size)

(* Mutant: the FIFO is not checked.                                        *)
try_transmit_Unchecked(t, size, domain) == accept(t, size)

try_transmit(t, size, domain) ==
    IF pending(t) + LinkTime(size) > Fifo THEN drop(t, domain) ELSE accept(t, size)

-----------------------------------------------------------------------------
Init ==
    /\ busy_until = 0 /\ now = 0
    /\ stats = NoStats
    /\ wire = {} /\ work = 0 /\ offered = 0

Transmit ==
    /\ offered < MaxPkts
    /\ \E t \in now..MaxTime, size \in Sizes, domain \in Domains :
          /\ try_transmit(t, size, domain)
          /\ now' = t
    /\ offered' = offered + 1

(* Mutant: the link is idle from then on.                                 *)
advance_Idle(t) ==
    /\ busy_until' = t
    /\ wire' = Outstanding(t)
    /\ now' = t
    /\ UNCHANGED <<stats, work, offered>>

advance(t) ==
    /\ busy_until' = Later(busy_until, t)
    /\ wire' = Outstanding(t)
    /\ now' = t
    /\ UNCHANGED <<stats, work, offered>>

(* The end of a bin.                                                       *)
advance_to == \E t \in (now + 1)..MaxTime : advance(t)

(* The start of a bin.                                                     *)
reset_bin_stats ==
    /\ stats' = NoStats
    /\ UNCHANGED <<busy_until, now, wire, work, offered>>

Next == Transmit \/ advance_to \/ reset_bin_stats

Spec == Init /\ [][Next]_vars

-----------------------------------------------------------------------------
(* Every variable has its type.                                            *)
TypeOK ==
    /\ busy_until \in Nat /\ now \in Nat
    /\ stats \in [accepted_pkts : Nat, accepted : Nat, dropped_pkts : Nat,
                  by_domain : [Domains -> Nat], fifo_peak : Nat]
    /\ wire \subseteq [ready : Nat, end : Nat, bytes : Sizes]
    /\ work \in Nat /\ offered \in Nat

(* The packets on the wire never overlap: whatever the order of sizes and  *)
(* domains, each has the link for itself for its whole link time, no       *)
(* earlier than Setup after it was generated.                              *)
Start(p) == p.end - LinkTime(p.bytes)

SerialWire ==
    /\ \A p, r \in wire : p # r => p.end <= Start(r) \/ r.end <= Start(p)
    /\ \A p \in wire : p.ready + Setup <= Start(p) /\ p.end <= busy_until

(* What is pending when the link is asked never exceeds the FIFO by more   *)
(* than one setup, nor does the peak reported for the bin.                 *)
BacklogBounded ==
    /\ pending(now) <= Fifo + Setup
    /\ stats.fifo_peak <= Fifo + Setup

(* The link is a rate limiter: from the start of the run to any time, the  *)
(* bytes it has accepted are at most what the line can carry in that time, *)
(* plus one FIFO and one setup.                                            *)
LineRate == work <= now + Fifo + Setup

(* All of that together.                                                   *)
LinkSound == SerialWire /\ BacklogBounded /\ LineRate

(* What each step preserves: the accepted work fits before busy_until.     *)
Inductive ==
    /\ TypeOK
    /\ SerialWire
    /\ BacklogBounded
    /\ work <= busy_until

(* The clamp of advance_to is invisible: no later call sees another        *)
(* pending amount or another start than without it.                        *)
AdvanceInvisible ==
    [][advance_to => \A t \in now'..(MaxTime + 1) :
          /\ pending(t)' = pending(t)
          /\ Later(t + Setup, busy_until') = Later(t + Setup, busy_until)]_vars

=============================================================================
