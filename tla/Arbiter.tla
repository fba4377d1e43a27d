------------------------------ MODULE Arbiter ------------------------------
(***************************************************************************)
(* The arbiter that caps the bytes both domains may send in one bin        *)
(* (Arbiter of src/src/arbiter.py).                                        *)
(*                                                                         *)
(* Amounts are integers: bytes are multiplied by the sum of the two        *)
(* weights, so that a domain's part of the cap is whole.  The shares of a  *)
(* bin are numerators over one common denominator.                         *)
(***************************************************************************)
EXTENDS Integers

Egress == {"stateless", "stateful"}

ArbiterPolicies == {"wrr", "strict_priority_stateless", "strict_priority_stateful",
                    "drr", "random"}

Least(x, y) == IF x <= y THEN x ELSE y

Pair(s, t) == [stateless |-> s, stateful |-> t]

Both(x) == x["stateless"] + x["stateful"]

(* An arbiter a has the fields policy, w and cap.                          *)
Scaled(a, bytes) == bytes * Both(a.w)
Part(a, d) == a.cap * a.w[d]

Undivided(s, t) == [num |-> Pair(s, t), den |-> 1]

(* Each domain gets its part; what one leaves, the other may use.          *)
wrr(a, b) ==
    LET first == Least(b["stateful"], Part(a, "stateful"))
        s     == Least(b["stateless"], Scaled(a, a.cap) - first)
    IN  Undivided(s, Least(b["stateful"], Scaled(a, a.cap) - s))

strict_priority(a, d, b) ==
    LET e     == CHOOSE x \in Egress : x # d
        first == Least(b[d], Scaled(a, a.cap))
        rest  == Least(b[e], Scaled(a, a.cap) - first)
    IN  IF d = "stateless" THEN Undivided(first, rest) ELSE Undivided(rest, first)

(* Deficit round robin: every overloaded bin adds a domain's part to its   *)
(* deficit and charges what it is granted.                                 *)
Entitled(a, deficit, d) == deficit[d] + Part(a, d)

drr_share(a, deficit, b, d) == Least(b[d], Entitled(a, deficit, d))

(* Mutant: what is granted is not charged.                                 *)
drr_charge_Nothing(a, deficit, b) ==
    [d \in Egress |-> Entitled(a, deficit, d)]

drr_charge(a, deficit, b) ==
    [d \in Egress |-> Entitled(a, deficit, d) - drr_share(a, deficit, b, d)]

(* Shares that together exceed the cap are scaled down to it, after they   *)
(* were charged.  Mutant: they are not.                                    *)
drr_Unscaled(a, deficit, b) ==
    Undivided(drr_share(a, deficit, b, "stateless"),
              drr_share(a, deficit, b, "stateful"))

drr(a, deficit, b) ==
    LET s   == drr_share(a, deficit, b, "stateless")
        t   == drr_share(a, deficit, b, "stateful")
        cap == Scaled(a, a.cap)
    IN  IF s + t > cap THEN [num |-> Pair(s * cap, t * cap), den |-> s + t]
                       ELSE Undivided(s, t)

random(a, b) ==
    [num |-> Pair(b["stateless"] * Scaled(a, a.cap), b["stateful"] * Scaled(a, a.cap)),
     den |-> Both(b)]

Overloaded(a, bytes) == Both(bytes) > a.cap /\ Both(bytes) # 0

(* scale_factors(): the shares of the domains, times the denominator; a    *)
(* scale factor is a share over the bytes.                                 *)
shares(a, deficit, bytes) ==
    LET b == [d \in Egress |-> Scaled(a, bytes[d])]
    IN  CASE ~Overloaded(a, bytes) -> Undivided(b["stateless"], b["stateful"])
          [] Overloaded(a, bytes) /\ a.policy = "wrr" -> wrr(a, b)
          [] Overloaded(a, bytes) /\ a.policy = "strict_priority_stateless" ->
                strict_priority(a, "stateless", b)
          [] Overloaded(a, bytes) /\ a.policy = "strict_priority_stateful" ->
                strict_priority(a, "stateful", b)
          [] Overloaded(a, bytes) /\ a.policy = "drr" -> drr(a, deficit, b)
          [] Overloaded(a, bytes) /\ a.policy = "random" -> random(a, b)

(* _drr_s and _drr_t after a bin.                                          *)
deficits(a, deficit, bytes) ==
    IF Overloaded(a, bytes) /\ a.policy = "drr"
    THEN drr_charge(a, deficit, [d \in Egress |-> Scaled(a, bytes[d])])
    ELSE deficit

(* A packet is kept if a random number in [0, 1) is below the scale factor.*)
KeepsAll(sh, a, d, bytes) == sh.num[d] >= sh.den * Scaled(a, bytes[d])
KeepsNone(sh, d) == sh.num[d] = 0
=============================================================================
