--------------------------- MODULE FrontEndProofs ---------------------------
(***************************************************************************)
(* Proofs about FrontEnd: about the arbiter, for every cap, weights,       *)
(* deficits and loads, what a bin is granted and what deficit round robin  *)
(* owes; and about the layout of the domains, for every number of queues,  *)
(* buckets and cores and every table of measured round trips.              *)
(***************************************************************************)
EXTENDS FrontEnd, FiniteSums

(* The division rounds down: it never exceeds what it divides, scaled.     *)
LEMMA QuotientAtMost ==
    ASSUME NEW x \in Nat, NEW n \in Nat, NEW den \in Nat \ {0}, n <= den * x
    PROVE  n \div den \in Nat /\ n \div den <= x
<1>1. n \div den \in Nat
  OBVIOUS
<1>2. den * (n \div den) <= n
  OBVIOUS
<1>3. SUFFICES ASSUME x < n \div den PROVE FALSE
  BY <1>1
<1>4. x * den < (n \div den) * den
  BY <1>1, <1>3, StrictlyMonotone
<1>5. x * den = den * x /\ (n \div den) * den = den * (n \div den)
  BY <1>1
<1> QED
  BY <1>1, <1>2, <1>4, <1>5

-----------------------------------------------------------------------------
AnArbiter(a) == a.cap \in Nat \ {0} /\ a.w \in [Egress -> Nat \ {0}]

LEMMA PairAt ==
    ASSUME NEW s, NEW t
    PROVE  /\ Pair(s, t)["stateless"] = s
           /\ Pair(s, t)["stateful"] = t
           /\ DOMAIN Pair(s, t) = Egress
  BY DEF Pair, Egress

LEMMA LeastOf ==
    ASSUME NEW x \in Int, NEW y \in Int
    PROVE  Least(x, y) \in {x, y} /\ Least(x, y) <= x /\ Least(x, y) <= y
  BY DEF Least

(* The cap times the sum of the weights is what the parts sum to.          *)
LEMMA PartsMakeCap ==
    ASSUME NEW a, AnArbiter(a)
    PROVE  /\ Both(a.w) \in Nat \ {0}
           /\ \A d \in Egress : Part(a, d) \in Nat
           /\ Scaled(a, a.cap) = Part(a, "stateless") + Part(a, "stateful")
           /\ Scaled(a, a.cap) \in Nat \ {0, 1}
<1>1. /\ a.cap \in Nat /\ a.cap >= 1
      /\ a.w["stateless"] \in Nat /\ a.w["stateless"] >= 1
      /\ a.w["stateful"] \in Nat /\ a.w["stateful"] >= 1
  BY DEF AnArbiter, Egress
<1>2. Both(a.w) = a.w["stateless"] + a.w["stateful"]
  BY DEF Both
<1>3. /\ Part(a, "stateless") = a.cap * a.w["stateless"]
      /\ Part(a, "stateful") = a.cap * a.w["stateful"]
  BY DEF Part
<1>4. Scaled(a, a.cap) = a.cap * Both(a.w)
  BY DEF Scaled
<1>5. a.cap * (a.w["stateless"] + a.w["stateful"]) =
        a.cap * a.w["stateless"] + a.cap * a.w["stateful"]
  BY <1>1
<1>6. Part(a, "stateless") \in Nat /\ Part(a, "stateful") \in Nat
  BY <1>1, <1>3, NatProducts
<1>7. Both(a.w) \in Nat \ {0}
  BY <1>1, <1>2
<1>8. \A d \in Egress : Part(a, d) \in Nat
  BY <1>6 DEF Egress
<1>9. Scaled(a, a.cap) = Part(a, "stateless") + Part(a, "stateful")
  BY <1>2, <1>3, <1>4, <1>5
<1>10. Scaled(a, a.cap) \in Nat \ {0, 1}
  <2>1. 1 * Both(a.w) <= a.cap * Both(a.w)
    BY <1>1, <1>7, Monotone
  <2>2. Both(a.w) >= 2 /\ 1 * Both(a.w) = Both(a.w)
    BY <1>1, <1>2, <1>7
  <2>3. Scaled(a, a.cap) \in Nat
    BY <1>1, <1>4, <1>7, NatProducts
  <2>4. Scaled(a, a.cap) >= Both(a.w)
    BY <1>4, <2>1, <2>2
  <2> QED
    BY <1>7, <2>2, <2>3, <2>4
<1> QED
  BY <1>7, <1>8, <1>9, <1>10

(* The conclusion on the shares of an overloaded bin, domain by domain.    *)
LEMMA UndividedDivides ==
    ASSUME NEW b \in [Egress -> Nat], NEW cap \in Nat,
           NEW s \in Nat, NEW t \in Nat,
           s <= b["stateless"], t <= b["stateful"], s + t <= cap
    PROVE  /\ Divides(Undivided(s, t), b, cap)
           /\ Undivided(s, t).den = 1
           /\ Undivided(s, t).num["stateless"] = s /\ Undivided(s, t).num["stateful"] = t
           /\ Both(Undivided(s, t).num) = s + t
<1>1. Undivided(s, t).den = 1 /\ Undivided(s, t).num = Pair(s, t)
  BY DEF Undivided
<1>2. Both(Pair(s, t)) = s + t
  BY PairAt DEF Both
<1>3. b["stateless"] \in Nat /\ b["stateful"] \in Nat
  BY DEF Egress
<1>4. \A d \in Egress : Pair(s, t)[d] \in 0..(1 * b[d])
  <2>1. Pair(s, t)["stateless"] \in 0..(1 * b["stateless"])
    BY <1>3, PairAt
  <2>2. Pair(s, t)["stateful"] \in 0..(1 * b["stateful"])
    BY <1>3, PairAt
  <2> QED
    BY <2>1, <2>2 DEF Egress
<1>5. Both(Pair(s, t)) <= 1 * cap
  BY <1>2
<1> QED
  BY <1>1, <1>2, <1>4, <1>5, PairAt DEF Divides

-----------------------------------------------------------------------------
(* An overloaded bin, with bytes b in scaled units.                        *)
Overload(a, b) == b \in [Egress -> Nat] /\ Both(b) > Scaled(a, a.cap)

LEMMA WrrDivides ==
    ASSUME NEW a, NEW b, AnArbiter(a), Overload(a, b)
    PROVE  /\ Divides(wrr(a, b), b, Scaled(a, a.cap))
           /\ Both(wrr(a, b).num) = wrr(a, b).den * Scaled(a, a.cap)
           /\ \A d \in Egress : wrr(a, b).num[d] >= Least(b[d], Part(a, d))
<1> DEFINE ps == Part(a, "stateless")
           pt == Part(a, "stateful")
           bs == b["stateless"]
           bt == b["stateful"]
           cap == Scaled(a, a.cap)
           first == Least(bt, pt)
           s == Least(bs, cap - first)
           t == Least(bt, cap - s)
<1>1. ps \in Nat /\ pt \in Nat /\ cap = ps + pt /\ cap \in Nat
  BY PartsMakeCap DEF Egress
<1>2. bs \in Nat /\ bt \in Nat /\ bs + bt > cap
  BY DEF Overload, Both, Egress
<1>3. wrr(a, b) = Undivided(s, t)
  BY DEF wrr
<1> HIDE DEF ps, pt, bs, bt, cap
<1>4. /\ s \in Nat /\ t \in Nat /\ s <= bs /\ t <= bt /\ s + t = cap
      /\ s >= Least(bs, ps) /\ t >= Least(bt, pt)
  BY <1>1, <1>2 DEF Least
<1>5. b \in [Egress -> Nat] /\ s <= b["stateless"] /\ t <= b["stateful"]
  BY <1>4 DEF Overload, bs, bt
<1> HIDE DEF s, t, first
<1>6. /\ Divides(Undivided(s, t), b, cap)
      /\ Undivided(s, t).den = 1
      /\ Undivided(s, t).num["stateless"] = s /\ Undivided(s, t).num["stateful"] = t
      /\ Both(Undivided(s, t).num) = s + t
  <2>1. cap \in Nat /\ s \in Nat /\ t \in Nat /\ s + t <= cap
    BY <1>1, <1>4
  <2> QED
    BY <1>5, <2>1, UndividedDivides
<1>7. Both(Undivided(s, t).num) = Undivided(s, t).den * cap
  BY <1>1, <1>4, <1>6
<1>8. \A d \in Egress : Undivided(s, t).num[d] >= Least(b[d], Part(a, d))
  BY <1>4, <1>6 DEF Egress, bs, bt, ps, pt
<1> QED
  BY <1>3, <1>6, <1>7, <1>8 DEF cap

LEMMA StrictDivides ==
    ASSUME NEW a, NEW b, NEW d \in Egress, AnArbiter(a), Overload(a, b)
    PROVE  /\ Divides(strict_priority(a, d, b), b, Scaled(a, a.cap))
           /\ Both(strict_priority(a, d, b).num) =
                 strict_priority(a, d, b).den * Scaled(a, a.cap)
<1> DEFINE bs == b["stateless"]
           bt == b["stateful"]
           cap == Scaled(a, a.cap)
<1>1. cap \in Nat
  BY PartsMakeCap DEF Egress
<1>2. bs \in Nat /\ bt \in Nat /\ bs + bt > cap /\ b \in [Egress -> Nat]
  BY DEF Overload, Both, Egress
<1>3. \A s, t \in Nat :
         s <= bs /\ t <= bt /\ s + t = cap =>
            /\ Divides(Undivided(s, t), b, cap)
            /\ Both(Undivided(s, t).num) = Undivided(s, t).den * cap
  <2>1. SUFFICES ASSUME NEW s \in Nat, NEW t \in Nat, s <= bs, t <= bt, s + t = cap
                 PROVE  /\ Divides(Undivided(s, t), b, cap)
                        /\ Both(Undivided(s, t).num) = Undivided(s, t).den * cap
    OBVIOUS
  <2> HIDE DEF cap
  <2>2. s <= b["stateless"] /\ t <= b["stateful"] /\ s + t <= cap
    BY <1>1, <2>1
  <2>3. /\ Divides(Undivided(s, t), b, cap)
        /\ Undivided(s, t).den = 1
        /\ Both(Undivided(s, t).num) = s + t
    BY <1>1, <1>2, <2>2, UndividedDivides
  <2> QED
    BY <1>1, <2>1, <2>3
<1> HIDE DEF bs, bt, cap
<1>4. CASE d = "stateless"
  <2>1. (CHOOSE x \in Egress : x # d) = "stateful"
    BY <1>4 DEF Egress
  <2>2. strict_priority(a, d, b) = Undivided(Least(bs, cap), Least(bt, cap - Least(bs, cap)))
    BY <1>4, <2>1 DEF strict_priority, bs, bt, cap
  <2>3. /\ Least(bs, cap) \in Nat /\ Least(bt, cap - Least(bs, cap)) \in Nat
        /\ Least(bs, cap) <= bs /\ Least(bt, cap - Least(bs, cap)) <= bt
        /\ Least(bs, cap) + Least(bt, cap - Least(bs, cap)) = cap
    BY <1>1, <1>2 DEF Least
  <2> QED
    BY <1>3, <2>2, <2>3 DEF cap
<1>5. CASE d = "stateful"
  <2>1. (CHOOSE x \in Egress : x # d) = "stateless"
    BY <1>5 DEF Egress
  <2>2. strict_priority(a, d, b) = Undivided(Least(bs, cap - Least(bt, cap)), Least(bt, cap))
    BY <1>5, <2>1 DEF strict_priority, bs, bt, cap
  <2>3. /\ Least(bt, cap) \in Nat /\ Least(bs, cap - Least(bt, cap)) \in Nat
        /\ Least(bt, cap) <= bt /\ Least(bs, cap - Least(bt, cap)) <= bs
        /\ Least(bs, cap - Least(bt, cap)) + Least(bt, cap) = cap
    BY <1>1, <1>2 DEF Least
  <2> QED
    BY <1>3, <2>2, <2>3 DEF cap
<1> QED
  BY <1>4, <1>5 DEF Egress

(* Shares scaled down to a cap they exceed: s * cap over s + t.            *)
LEMMA ScaledDown ==
    ASSUME NEW s \in Nat, NEW t \in Nat, NEW cap \in Nat, cap < s + t,
           NEW b \in [Egress -> Nat], s <= b["stateless"], t <= b["stateful"],
           NEW sh, sh = [num |-> Pair(s * cap, t * cap), den |-> s + t]
    PROVE  /\ Divides(sh, b, cap)
           /\ Both(sh.num) = sh.den * cap
           /\ sh.num["stateless"] \in 0..(sh.den * s) /\ sh.num["stateful"] \in 0..(sh.den * t)
<1> DEFINE den == s + t
<1>1. den \in Nat \ {0} /\ cap <= den
  OBVIOUS
<1>2. sh.den = den /\ sh.num["stateless"] = s * cap /\ sh.num["stateful"] = t * cap
  BY PairAt
<1>3. s * cap + t * cap = den * cap
  OBVIOUS
<1> HIDE DEF den
<1>4. s * cap \in 0..(den * s) /\ t * cap \in 0..(den * t)
  <2>1. cap * s <= den * s /\ cap * t <= den * t
    BY <1>1, Monotone
  <2>2. cap * s = s * cap /\ cap * t = t * cap
    OBVIOUS
  <2>3. s * cap \in Nat /\ t * cap \in Nat /\ den * s \in Nat /\ den * t \in Nat
    BY <1>1, NatProducts
  <2> QED
    BY <2>1, <2>2, <2>3
<1>5. b["stateless"] \in Nat /\ b["stateful"] \in Nat
  BY DEF Egress
<1>6. /\ s * cap \in 0..(den * b["stateless"])
      /\ t * cap \in 0..(den * b["stateful"])
  <2>1. s * den <= b["stateless"] * den /\ t * den <= b["stateful"] * den
    BY <1>1, <1>5, Monotone
  <2>2. /\ s * den = den * s /\ t * den = den * t
        /\ b["stateless"] * den = den * b["stateless"]
        /\ b["stateful"] * den = den * b["stateful"]
    BY <1>1, <1>5
  <2>3. /\ den * s \in Nat /\ den * t \in Nat
        /\ den * b["stateless"] \in Nat /\ den * b["stateful"] \in Nat
    BY <1>1, <1>5, NatProducts
  <2> QED
    BY <1>4, <2>1, <2>2, <2>3
<1>7. Both(sh.num) = sh.den * cap
  BY <1>2, <1>3 DEF Both
<1>8. den * cap \in Nat
  BY <1>1, NatProducts
<1>9. Both(sh.num) <= sh.den * cap
  BY <1>2, <1>7, <1>8
<1>10. \A d \in Egress : sh.num[d] \in 0..(sh.den * b[d])
  BY <1>2, <1>6 DEF Egress
<1> QED
  BY <1>1, <1>2, <1>4, <1>7, <1>9, <1>10 DEF Divides

LEMMA RandomDivides ==
    ASSUME NEW a, NEW b, AnArbiter(a), Overload(a, b)
    PROVE  /\ Divides(random(a, b), b, Scaled(a, a.cap))
           /\ Both(random(a, b).num) = random(a, b).den * Scaled(a, a.cap)
<1> DEFINE bs == b["stateless"]
           bt == b["stateful"]
           cap == Scaled(a, a.cap)
<1>1. cap \in Nat
  BY PartsMakeCap DEF Egress
<1>2. bs \in Nat /\ bt \in Nat /\ cap < bs + bt /\ b \in [Egress -> Nat]
  BY <1>1 DEF Overload, Both, Egress
<1>3. random(a, b) = [num |-> Pair(bs * cap, bt * cap), den |-> bs + bt]
  BY DEF random, Both
<1>4. bs <= b["stateless"] /\ bt <= b["stateful"]
  BY <1>2
<1> HIDE DEF bs, bt, cap
<1>5. Divides(random(a, b), b, cap) /\ Both(random(a, b).num) = random(a, b).den * cap
  BY <1>1, <1>2, <1>3, <1>4, ScaledDown
<1> QED
  BY <1>5 DEF cap

(* Deficit round robin: what is charged is within the deficit, and what is *)
(* granted is at most that, less only if the shares are scaled down.       *)
LEMMA DrrDivides ==
    ASSUME NEW a, NEW b, NEW old \in [Egress -> Nat], AnArbiter(a), Overload(a, b)
    PROVE  /\ Divides(drr(a, old, b), b, Scaled(a, a.cap))
           /\ \A d \in Egress :
                 /\ drr_share(a, old, b, d) \in 0..Entitled(a, old, d)
                 /\ drr(a, old, b).num[d] \in
                       0..(drr(a, old, b).den * drr_share(a, old, b, d))
                 /\ drr(a, old, b).den = 1 =>
                       drr(a, old, b).num[d] = drr_share(a, old, b, d)
<1> DEFINE s == drr_share(a, old, b, "stateless")
           t == drr_share(a, old, b, "stateful")
           cap == Scaled(a, a.cap)
           sh == drr(a, old, b)
<1>1. cap \in Nat \ {0, 1} /\ \A d \in Egress : Part(a, d) \in Nat
  BY PartsMakeCap
<1>2. b \in [Egress -> Nat]
  BY DEF Overload
<1>3. \A d \in Egress : /\ drr_share(a, old, b, d) \in 0..Entitled(a, old, d)
                        /\ drr_share(a, old, b, d) <= b[d]
                        /\ drr_share(a, old, b, d) \in Nat
  <2>1. TAKE d \in Egress
  <2>2. Entitled(a, old, d) \in Nat /\ b[d] \in Nat
    BY <1>1, <1>2 DEF Entitled
  <2> QED
    BY <2>2 DEF drr_share, Least
<1>4. s \in Nat /\ t \in Nat /\ s <= b["stateless"] /\ t <= b["stateful"]
  BY <1>3 DEF Egress
<1>5. CASE s + t > cap
  <2>1. sh = [num |-> Pair(s * cap, t * cap), den |-> s + t]
    BY <1>5 DEF drr
  <2> HIDE DEF s, t, cap, sh
  <2>2. cap < s + t /\ cap \in Nat
    BY <1>1, <1>4, <1>5
  <2>3. /\ Divides(sh, b, cap)
        /\ sh.num["stateless"] \in 0..(sh.den * s) /\ sh.num["stateful"] \in 0..(sh.den * t)
    BY <1>2, <1>4, <2>1, <2>2, ScaledDown
  <2>4. sh.den # 1
    BY <1>1, <1>4, <1>5, <2>1
  <2>5. \A d \in Egress : sh.num[d] \in 0..(sh.den * drr_share(a, old, b, d))
    BY <2>3 DEF Egress, s, t
  <2> QED
    BY <1>3, <2>3, <2>4, <2>5 DEF cap, sh
<1>6. CASE ~(s + t > cap)
  <2>1. sh = Undivided(s, t)
    BY <1>6 DEF drr
  <2> HIDE DEF s, t, cap, sh
  <2>2. s + t <= cap /\ cap \in Nat
    BY <1>1, <1>4, <1>6
  <2>3. /\ Divides(sh, b, cap) /\ sh.den = 1
        /\ sh.num["stateless"] = s /\ sh.num["stateful"] = t
    BY <1>2, <1>4, <2>1, <2>2, UndividedDivides
  <2>4. \A d \in Egress : sh.num[d] = drr_share(a, old, b, d)
    BY <2>3 DEF Egress, s, t
  <2>5. \A d \in Egress : sh.num[d] \in 0..(sh.den * drr_share(a, old, b, d))
    <3>1. \A x \in Nat : x \in 0..(1 * x)
      OBVIOUS
    <3>2. \A x \in Nat : x \in 0..(sh.den * x)
      BY <2>3, <3>1
    <3> QED
      BY <1>3, <2>4, <3>2
  <2> QED
    BY <1>3, <2>3, <2>4, <2>5 DEF cap, sh
<1> QED
  BY <1>5, <1>6

-----------------------------------------------------------------------------
LEMMA OverloadScales ==
    ASSUME NEW a, AnArbiter(a), NEW bytes \in [Egress -> Nat]
    PROVE  /\ ScaledBytes(a, bytes) \in [Egress -> Nat]
           /\ Overloaded(a, bytes) => Overload(a, ScaledBytes(a, bytes))
<1> DEFINE W == Both(a.w)
<1>1. W \in Nat \ {0} /\ a.cap \in Nat
  BY PartsMakeCap DEF AnArbiter
<1> HIDE DEF W
<1>2. \A d \in Egress : Scaled(a, bytes[d]) = bytes[d] * W /\ bytes[d] * W \in Nat
  BY <1>1, NatProducts DEF Scaled, W
<1>3. ScaledBytes(a, bytes) \in [Egress -> Nat]
  BY <1>2 DEF ScaledBytes
<1>4. ASSUME Overloaded(a, bytes) PROVE Overload(a, ScaledBytes(a, bytes))
  <2> DEFINE x == bytes["stateless"]
             y == bytes["stateful"]
  <2>1. x \in Nat /\ y \in Nat
    BY DEF Egress
  <2>2. a.cap < x + y
    BY <1>1, <1>4, <2>1 DEF Overloaded, Both
  <2>3. a.cap * W < (x + y) * W
    BY <1>1, <2>1, <2>2, StrictlyMonotone
  <2>4. (x + y) * W = x * W + y * W
    BY <1>1, <2>1
  <2>5. Both(ScaledBytes(a, bytes)) = x * W + y * W
    BY <1>2 DEF Both, ScaledBytes, Egress
  <2>6. Scaled(a, a.cap) = a.cap * W
    BY DEF Scaled, W
  <2> QED
    BY <1>1, <1>3, <2>1, <2>3, <2>4, <2>5, <2>6, NatProducts DEF Overload
<1> QED
  BY <1>3, <1>4

(* Every policy divides the link within its cap.                           *)
LEMMA EveryPolicyDivides ==
    ASSUME NEW a, AnArbiter(a), a.policy \in ArbiterPolicies,
           NEW old \in [Egress -> Nat], NEW bytes \in [Egress -> Nat]
    PROVE  WithinCap(a, bytes, shares(a, old, bytes))
<1> DEFINE b == [d \in Egress |-> Scaled(a, bytes[d])]
           sh == shares(a, old, bytes)
           cap == Scaled(a, a.cap)
<1>1. b = ScaledBytes(a, bytes)
  BY DEF ScaledBytes
<1>2. CASE ~Overloaded(a, bytes)
  <2>1. sh = Undivided(b["stateless"], b["stateful"])
    BY <1>2 DEF shares
  <2>2. sh.den = 1 /\ \A d \in Egress : sh.num[d] = b[d]
    BY <2>1, PairAt DEF Undivided, Egress
  <2> QED
    BY <1>1, <1>2, <2>2 DEF WithinCap
<1>3. CASE Overloaded(a, bytes)
  <2>1. Overload(a, b)
    BY <1>1, <1>3, OverloadScales
  <2> HIDE DEF b
  <2>2. CASE a.policy = "wrr"
    <3>1. sh = wrr(a, b)
      BY <1>3, <2>2 DEF shares, b
    <3> QED
      BY <1>1, <1>3, <2>1, <2>2, <3>1, WrrDivides DEF WithinCap
  <2>3. CASE a.policy = "strict_priority_stateless"
    <3>1. sh = strict_priority(a, "stateless", b)
      BY <1>3, <2>3 DEF shares, b
    <3> QED
      BY <1>1, <1>3, <2>1, <2>3, <3>1, StrictDivides DEF WithinCap, Egress
  <2>4. CASE a.policy = "strict_priority_stateful"
    <3>1. sh = strict_priority(a, "stateful", b)
      BY <1>3, <2>4 DEF shares, b
    <3> QED
      BY <1>1, <1>3, <2>1, <2>4, <3>1, StrictDivides DEF WithinCap, Egress
  <2>5. CASE a.policy = "drr"
    <3>1. sh = drr(a, old, b)
      BY <1>3, <2>5 DEF shares, b
    <3> QED
      BY <1>1, <1>3, <2>1, <2>5, <3>1, DrrDivides DEF WithinCap
  <2>6. CASE a.policy = "random"
    <3>1. sh = random(a, b)
      BY <1>3, <2>6 DEF shares, b
    <3> QED
      BY <1>1, <1>3, <2>1, <2>6, <3>1, RandomDivides DEF WithinCap
  <2> QED
    BY <2>2, <2>3, <2>4, <2>5, <2>6 DEF ArbiterPolicies
<1> QED
  BY <1>2, <1>3

(* What a bin adds to a deficit and what it grants sum to a part.          *)
LEMMA DrrLedgerStep ==
    ASSUME NEW a, AnArbiter(a), a.policy = "drr",
           NEW old \in [Egress -> Nat], NEW bytes \in [Egress -> Nat],
           Overloaded(a, bytes), NEW d \in Egress
    PROVE  /\ shares(a, old, bytes).den \in Nat \ {0}
           /\ Whole_shares(shares(a, old, bytes))[d] \in Nat
           /\ deficits(a, old, bytes)[d] \in Nat
           /\ Whole_shares(shares(a, old, bytes))[d] + deficits(a, old, bytes)[d]
                 <= old[d] + Part(a, d)
           /\ shares(a, old, bytes).den = 1 =>
                 Whole_shares(shares(a, old, bytes))[d] + deficits(a, old, bytes)[d]
                    = old[d] + Part(a, d)
<1> DEFINE b == [e \in Egress |-> Scaled(a, bytes[e])]
           sh == shares(a, old, bytes)
           charge == drr_share(a, old, b, d)
<1>1. Overload(a, b)
  BY OverloadScales DEF ScaledBytes
<1>2. deficits(a, old, bytes)[d] = Entitled(a, old, d) - charge
  BY DEF deficits, drr_charge
<1> HIDE DEF b
<1>3. sh = drr(a, old, b)
  BY DEF shares, b
<1>4. Entitled(a, old, d) = old[d] + Part(a, d) /\ old[d] \in Nat /\ Part(a, d) \in Nat
  BY PartsMakeCap DEF Entitled
<1>5. /\ charge \in 0..Entitled(a, old, d)
      /\ sh.num[d] \in 0..(sh.den * charge)
      /\ sh.den = 1 => sh.num[d] = charge
      /\ sh.den \in Nat \ {0}
  BY <1>1, <1>3, DrrDivides DEF Divides
<1>6. Whole_shares(sh)[d] = sh.num[d] \div sh.den
  BY DEF Whole_shares
<1> HIDE DEF sh, charge
<1>7. charge \in Nat
  BY <1>4, <1>5
<1>8. sh.num[d] \in Nat /\ sh.num[d] <= sh.den * charge
  <2>1. sh.den * charge \in Nat
    BY <1>5, <1>7, NatProducts
  <2> QED
    BY <1>5, <2>1
<1>9. Whole_shares(sh)[d] \in Nat /\ Whole_shares(sh)[d] <= charge
  BY <1>5, <1>6, <1>7, <1>8, QuotientAtMost
<1>10. sh.den = 1 => Whole_shares(sh)[d] = charge
  <2>1. \A x \in Nat : x \div 1 = x
    OBVIOUS
  <2> QED
    BY <1>5, <1>6, <1>7, <2>1
<1> QED
  BY <1>2, <1>4, <1>5, <1>7, <1>9, <1>10 DEF sh

-----------------------------------------------------------------------------
(* The inductive invariant: the arbiter was checked before the first bin,  *)
(* no bin is counted before it, and every bin keeps the ledger.            *)
ArbiterInv ==
    /\ config \in Configs
    /\ phase = "run" => config.arbiter.policy \in ArbiterPolicies
    /\ phase # "run" => overloads = 0 /\ paid = [d \in Egress |-> 0]
    /\ deficit \in [Egress -> Nat]
    /\ overloads \in Nat
    /\ cut \in BOOLEAN
    /\ config.arbiter.policy = "drr" => paid \in [Egress -> Nat]

LEMMA ConfiguredArbiter ==
    ASSUME config \in Configs PROVE AnArbiter(config.arbiter)
  BY FrontEndAssumption DEF AnArbiter

LEMMA NothingGranted ==
    ASSUME NEW a, AnArbiter(a) PROVE WithinCap(a, [d \in Egress |-> 0], Undivided(0, 0))
<1> DEFINE none == [d \in Egress |-> 0]
<1>1. ~Overloaded(a, none)
  BY DEF Overloaded, Both, Egress
<1>2. \A d \in Egress : ScaledBytes(a, none)[d] = 0 * Both(a.w)
  BY DEF ScaledBytes, Scaled
<1>3. 0 * Both(a.w) = 0
  BY PartsMakeCap
<1>4. Undivided(0, 0).den = 1 /\ \A d \in Egress : Undivided(0, 0).num[d] = 0
  BY PairAt DEF Undivided, Egress
<1> QED
  BY <1>1, <1>2, <1>3, <1>4 DEF WithinCap

LEMMA NothingOwed ==
    ASSUME AnArbiter(config.arbiter), overloads = 0,
           deficit = [d \in Egress |-> 0], paid = [d \in Egress |-> 0]
    PROVE  DrrEntitlement
<1>1. \A d \in Egress : Part(config.arbiter, d) \in Nat
  BY PartsMakeCap
<1>2. \A x \in Nat : 0 * x = 0
  OBVIOUS
<1>3. \A d \in Egress : 0 * Part(config.arbiter, d) = 0
  BY <1>1, <1>2
<1>4. \A d \in Egress :
         /\ deficit[d] >= 0
         /\ paid[d] + deficit[d] = overloads * Part(config.arbiter, d)
         /\ paid[d] + deficit[d] <= overloads * Part(config.arbiter, d)
  <2>1. TAKE d \in Egress
  <2>2. deficit[d] = 0 /\ paid[d] = 0 /\ overloads * Part(config.arbiter, d) = 0
    BY <1>3
  <2> QED
    BY <2>2
<1> QED
  BY <1>4 DEF DrrEntitlement

LEMMA InitKeeps == Init => ArbiterInv /\ SharesWithinCap /\ DrrEntitlement
<1> SUFFICES ASSUME Init PROVE ArbiterInv /\ SharesWithinCap /\ DrrEntitlement
  OBVIOUS
<1>1. ArbiterInv
  BY DEF Init, ArbiterInv, Egress
<1>2. AnArbiter(config.arbiter)
  BY <1>1, ConfiguredArbiter DEF ArbiterInv
<1>3. SharesWithinCap
  BY <1>2, NothingGranted DEF Init, SharesWithinCap
<1>4. DrrEntitlement
  BY <1>2, NothingOwed DEF Init
<1> QED
  BY <1>1, <1>3, <1>4

(* The arbiter's variables are left alone.                                 *)
LEMMA ArbiterUntouched ==
    ASSUME ArbiterInv, SharesWithinCap, DrrEntitlement,
           UNCHANGED <<config, offered, granted, overloads, paid, cut>>,
           \/ UNCHANGED deficit
           \/ phase # "run" /\ deficit' = [d \in Egress |-> 0],
           phase' = "run" => \/ phase = "run"
                             \/ config.arbiter.policy \in ArbiterPolicies,
           phase = "run" => phase' = "run"
    PROVE  (ArbiterInv /\ SharesWithinCap /\ DrrEntitlement)'
<1>1. ArbiterInv'
  BY DEF ArbiterInv, Egress
<1>2. SharesWithinCap'
  BY DEF SharesWithinCap
<1>3. DrrEntitlement'
  <2>1. CASE UNCHANGED deficit
    BY <2>1 DEF DrrEntitlement
  <2>2. CASE phase # "run" /\ deficit' = [d \in Egress |-> 0]
    <3>1. AnArbiter(config'.arbiter)
      BY ConfiguredArbiter DEF ArbiterInv
    <3>2. paid' = [d \in Egress |-> 0] /\ overloads' = 0
      BY <2>2 DEF ArbiterInv
    <3>3. \A d \in Egress : Part(config'.arbiter, d) \in Nat
      BY <3>1, PartsMakeCap
    <3>4. \A x \in Nat : 0 * x = 0
      OBVIOUS
    <3>5. \A d \in Egress : 0 * Part(config'.arbiter, d) = 0
      BY <3>3, <3>4
    <3>6. \A d \in Egress : deficit'[d] = 0 /\ paid'[d] = 0 /\ overloads' = 0
      BY <2>2, <3>2
    <3> HIDE DEF Egress
    <3> QED
      BY <3>5, <3>6 DEF DrrEntitlement
  <2> QED
    BY <2>1, <2>2
<1> QED
  BY <1>1, <1>2, <1>3

LEMMA BinKeeps ==
    ASSUME ArbiterInv, SharesWithinCap, DrrEntitlement, Bin
    PROVE  (ArbiterInv /\ SharesWithinCap /\ DrrEntitlement)'
<1> DEFINE a == config.arbiter
<1>1. PICK bytes : bytes \in [Egress -> Nat] /\ Arbitrate(bytes)
  <2>1. PICK sl \in Brings("stateless"), sf \in Brings("stateful") : Arbitrate(Pair(sl, sf))
    BY DEF Bin
  <2>2. sl \in Nat /\ sf \in Nat
    BY FrontEndAssumption DEF Brings
  <2>3. Pair(sl, sf) \in [Egress -> Nat]
    BY <2>2 DEF Pair, Egress
  <2> QED
    BY <2>1, <2>3
<1>2. /\ AnArbiter(a) /\ a.policy \in ArbiterPolicies
      /\ config' = config /\ phase' = phase /\ phase = "run"
      /\ deficit \in [Egress -> Nat] /\ overloads \in Nat
      /\ a.policy = "drr" => paid \in [Egress -> Nat]
  BY ConfiguredArbiter DEF ArbiterInv, Bin
<1> HIDE DEF a
<1>3. /\ offered' = bytes
      /\ granted' = shares(a, deficit, bytes)
      /\ deficit' = deficits(a, deficit, bytes)
      /\ overloads' = IF Overloaded(a, bytes) THEN overloads + 1 ELSE overloads
      /\ paid' = IF Overloaded(a, bytes)
                 THEN [d \in Egress |->
                         paid[d] + Whole_shares(shares(a, deficit, bytes))[d]]
                 ELSE paid
      /\ cut' = IF shares(a, deficit, bytes).den > 1 THEN TRUE ELSE cut
  BY <1>1 DEF Arbitrate, a
<1>3a. cut' \in BOOLEAN
  <2>1. cut \in BOOLEAN
    BY DEF ArbiterInv
  <2>2. cut' = TRUE \/ cut' = cut
    BY <1>3
  <2> QED
    BY <2>1, <2>2
<1>3b. ~cut' => ~cut /\ ~(shares(a, deficit, bytes).den > 1)
  <2>1. cut' = IF shares(a, deficit, bytes).den > 1 THEN TRUE ELSE cut
    BY <1>3
  <2>2. CASE shares(a, deficit, bytes).den > 1
    BY <2>1, <2>2
  <2>3. CASE ~(shares(a, deficit, bytes).den > 1)
    BY <2>1, <2>3
  <2> QED
    BY <2>2, <2>3
<1>4. SharesWithinCap'
  BY <1>1, <1>2, <1>3, EveryPolicyDivides DEF SharesWithinCap, a
<1>5. CASE a.policy = "drr" /\ Overloaded(a, bytes)
  <2>1. /\ deficit' \in [Egress -> Nat]
        /\ paid' \in [Egress -> Nat]
        /\ overloads' = overloads + 1
    <3>1. \A d \in Egress :
             /\ Whole_shares(shares(a, deficit, bytes))[d] \in Nat
             /\ deficits(a, deficit, bytes)[d] \in Nat
      BY <1>1, <1>2, <1>5, DrrLedgerStep
    <3>2. deficit' = [d \in Egress |-> deficit'[d]]
      BY <1>3, <1>5 DEF deficits, drr_charge
    <3>3. deficit' \in [Egress -> Nat]
      BY <1>3, <3>1, <3>2
    <3>4. paid' = [d \in Egress |->
                     paid[d] + Whole_shares(shares(a, deficit, bytes))[d]]
      BY <1>3, <1>5
    <3>5. \A d \in Egress :
             paid[d] + Whole_shares(shares(a, deficit, bytes))[d] \in Nat
      BY <1>2, <1>5, <3>1
    <3>6. paid' \in [Egress -> Nat]
      BY <3>4, <3>5
    <3> QED
      BY <1>3, <1>5, <3>3, <3>6
  <2>2. ArbiterInv'
    BY <1>2, <1>3a, <2>1 DEF ArbiterInv, a
  <2>3. \A d \in Egress :
           /\ deficit'[d] >= 0
           /\ paid'[d] + deficit'[d] <= overloads' * Part(a, d)
           /\ ~cut' => paid'[d] + deficit'[d] = overloads' * Part(a, d)
    <3>1. TAKE d \in Egress
    <3> DEFINE w == Whole_shares(shares(a, deficit, bytes))[d]
               p == Part(a, d)
    <3>2. /\ w \in Nat /\ deficit'[d] \in Nat
          /\ w + deficit'[d] <= deficit[d] + p
          /\ shares(a, deficit, bytes).den = 1 => w + deficit'[d] = deficit[d] + p
          /\ shares(a, deficit, bytes).den \in Nat \ {0}
      BY <1>1, <1>2, <1>3, <1>5, DrrLedgerStep
    <3>3. /\ paid[d] + deficit[d] <= overloads * p
          /\ ~cut => paid[d] + deficit[d] = overloads * p
      BY <1>5 DEF DrrEntitlement, a
    <3>4. paid'[d] = paid[d] + w /\ paid[d] \in Nat /\ deficit[d] \in Nat
      BY <1>2, <1>3, <1>5
    <3>5. p \in Nat
      BY <1>2, PartsMakeCap
    <3>6. ~cut' => ~cut /\ shares(a, deficit, bytes).den = 1
      <4>1. \A x \in Nat \ {0} : ~(x > 1) => x = 1
        OBVIOUS
      <4>2. shares(a, deficit, bytes).den \in Nat \ {0}
        BY <3>2
      <4>3. ~(shares(a, deficit, bytes).den > 1) => shares(a, deficit, bytes).den = 1
        BY <4>1, <4>2
      <4> QED
        BY <1>3b, <4>3
    <3> HIDE DEF w, p
    <3>7. (overloads + 1) * p = overloads * p + p /\ overloads * p \in Nat
      BY <1>2, <3>5
    <3>8. paid'[d] + deficit'[d] <= overloads' * p
      BY <2>1, <3>2, <3>3, <3>4, <3>5, <3>7
    <3>9. ~cut' => paid'[d] + deficit'[d] = overloads' * p
      BY <2>1, <3>2, <3>3, <3>4, <3>5, <3>6, <3>7
    <3> QED
      BY <3>2, <3>8, <3>9 DEF p
  <2>4. DrrEntitlement'
    BY <1>2, <2>3 DEF DrrEntitlement, a
  <2> QED
    BY <1>4, <2>2, <2>4
<1>6. CASE ~(a.policy = "drr" /\ Overloaded(a, bytes))
  <2>1. deficit' = deficit
    BY <1>3, <1>6 DEF deficits
  <2>2. a.policy = "drr" => overloads' = overloads /\ paid' = paid
    BY <1>3, <1>6
  <2>3. overloads' \in Nat
    BY <1>2, <1>3
  <2>4. ArbiterInv'
    BY <1>2, <1>3a, <2>1, <2>2, <2>3 DEF ArbiterInv, a
  <2>5. ~cut' => ~cut
    BY <1>3b
  <2>6. DrrEntitlement'
    BY <1>2, <2>1, <2>2, <2>5 DEF DrrEntitlement, a
  <2> QED
    BY <1>4, <2>4, <2>6
<1> QED
  BY <1>5, <1>6

LEMMA NextKeeps ==
    ArbiterInv /\ SharesWithinCap /\ DrrEntitlement /\ [Next]_vars
        => (ArbiterInv /\ SharesWithinCap /\ DrrEntitlement)'
<1> SUFFICES ASSUME ArbiterInv, SharesWithinCap, DrrEntitlement, [Next]_vars
             PROVE  (ArbiterInv /\ SharesWithinCap /\ DrrEntitlement)'
  OBVIOUS
<1>1. CASE CheckConfig
  <2>1. phase # "run" /\ phase' # "run"
    BY <1>1 DEF CheckConfig
  <2> QED
    BY <1>1, <2>1, ArbiterUntouched DEF CheckConfig, arbiterVars
<1>2. ASSUME NEW d \in Egress, _init_domain(d)
      PROVE  (ArbiterInv /\ SharesWithinCap /\ DrrEntitlement)'
  <2>1. phase # "run" /\ phase' # "run"
    BY <1>2 DEF _init_domain, Egress
  <2>2. UNCHANGED <<config, arbiterVars>>
    BY <1>2 DEF _init_domain
  <2> QED
    BY <2>1, <2>2, ArbiterUntouched DEF arbiterVars
<1>3. ASSUME NEW d \in Egress, NameUnknown(d)
      PROVE  (ArbiterInv /\ SharesWithinCap /\ DrrEntitlement)'
  <2>1. phase # "run" /\ phase' # "run"
    BY <1>3 DEF NameUnknown, Egress
  <2> QED
    BY <1>3, <2>1, ArbiterUntouched DEF NameUnknown, arbiterVars
<1>4. CASE MakeArbiter
  <2>1. /\ phase # "run" /\ deficit' = [d \in Egress |-> 0]
        /\ phase' = "run" => config.arbiter.policy \in ArbiterPolicies
    BY <1>4 DEF MakeArbiter
  <2> QED
    BY <1>4, <2>1, ArbiterUntouched DEF MakeArbiter
<1>5. CASE Bin
  BY <1>5, BinKeeps
<1>6. CASE UNCHANGED vars
  BY <1>6, ArbiterUntouched DEF vars, arbiterVars
<1> QED
  BY <1>1, <1>2, <1>3, <1>4, <1>5, <1>6 DEF Next

(* In every bin the arbiter grants no domain more than it brings and both  *)
(* together no more than the cap, and leaves capacity unused only under    *)
(* drr.                                                                    *)
THEOREM SharesAlwaysWithinCap == Spec => []SharesWithinCap
<1> QED
  BY InitKeeps, NextKeeps, PTL DEF Spec

(* Over any number of overloaded bins deficit round robin grants a domain  *)
(* no more than its weight entitles it to.                                 *)
THEOREM EntitlementAlwaysKept == Spec => []DrrEntitlement
<1> QED
  BY InitKeeps, NextKeeps, PTL DEF Spec

-----------------------------------------------------------------------------
(* The remainders of successive numbers.                                   *)
LEMMA NextRemainder ==
    ASSUME NEW m \in Nat, NEW k \in Nat \ {0}
    PROVE  \/ /\ m % k < k - 1 /\ (m + 1) % k = (m % k) + 1
              /\ (m + 1) \div k = m \div k
           \/ /\ m % k = k - 1 /\ (m + 1) % k = 0
              /\ (m + 1) \div k = m \div k + 1
<1> DEFINE a == m \div k
           s == m % k
           b == (m + 1) \div k
           r == (m + 1) % k
<1>1. m = k * a + s /\ s \in 0..(k - 1) /\ a \in Nat
  BY DivMod
<1>2. m + 1 = k * b + r /\ r \in 0..(k - 1) /\ b \in Nat
  <2>1. m + 1 \in Nat
    OBVIOUS
  <2> QED
    BY <2>1, DivMod
<1> HIDE DEF a, s, b, r
<1>3. k * a \in Nat /\ k * (a + 1) = k * a + k
  BY <1>1
<1>4. CASE s < k - 1
  <2>1. k * a + (s + 1) = k * b + r /\ s + 1 \in 0..(k - 1)
    BY <1>1, <1>2, <1>3, <1>4
  <2>2. a = b /\ s + 1 = r
    BY <1>1, <1>2, <2>1, DivModUnique
  <2> QED
    BY <1>4, <2>2 DEF a, s, b, r
<1>5. CASE s = k - 1
  <2>1. k * (a + 1) + 0 = k * b + r /\ 0 \in 0..(k - 1) /\ a + 1 \in Nat
    BY <1>1, <1>2, <1>3, <1>5
  <2>2. a + 1 = b /\ 0 = r
    BY <1>2, <2>1, DivModUnique
  <2> QED
    BY <1>5, <2>2 DEF a, s, b, r
<1> QED
  BY <1>1, <1>4, <1>5

(* How many of the first m numbers have the remainder q.                   *)
LEMMA ResidueCount ==
    ASSUME NEW k \in Nat \ {0}, NEW m \in Nat, NEW q \in 0..(k - 1)
    PROVE  Cardinality({b \in 0..(m - 1) : b % k = q}) =
              IF q < m % k THEN m \div k + 1 ELSE m \div k
<1> DEFINE Class(n) == {b \in 0..(n - 1) : b % k = q}
           P == {n \in Nat : /\ IsFiniteSet(Class(n))
                             /\ Cardinality(Class(n)) =
                                  IF q < n % k THEN n \div k + 1 ELSE n \div k}
<1>1. 0 \in P
  <2>1. Class(0) = {}
    OBVIOUS
  <2>2. 0 % k = 0 /\ 0 \div k = 0
    <3>1. /\ 0 = k * (0 \div k) + (0 % k)
          /\ 0 % k \in 0..(k - 1) /\ 0 \div k \in Nat
      BY DivMod
    <3>2. 0 = k * 0 + 0 /\ 0 \in 0..(k - 1)
      OBVIOUS
    <3> QED
      BY <3>1, <3>2, DivModUnique
  <2> QED
    BY <2>1, <2>2, FS_EmptySet
<1>2. ASSUME NEW n \in Nat, n \in P PROVE n + 1 \in P
  <2>1. Class(n + 1) = IF n % k = q THEN Class(n) \cup {n} ELSE Class(n)
    <3>1. 0..((n + 1) - 1) = (0..(n - 1)) \cup {n}
      OBVIOUS
    <3> QED
      BY <3>1
  <2>2. n \notin Class(n)
    OBVIOUS
  <2>3. /\ IsFiniteSet(Class(n))
        /\ Cardinality(Class(n)) = IF q < n % k THEN n \div k + 1 ELSE n \div k
    BY <1>2
  <2>4. n \div k \in Nat /\ n % k \in 0..(k - 1)
    BY DivMod
  <2> HIDE DEF Class
  <2>5. /\ IsFiniteSet(Class(n + 1))
        /\ Cardinality(Class(n + 1)) =
              IF n % k = q THEN Cardinality(Class(n)) + 1 ELSE Cardinality(Class(n))
    BY <2>1, <2>2, <2>3, FS_AddElement
  <2>6. Cardinality(Class(n + 1)) =
           IF q < (n + 1) % k THEN (n + 1) \div k + 1 ELSE (n + 1) \div k
    <3>1. CASE n % k < k - 1 /\ (n + 1) % k = (n % k) + 1 /\ (n + 1) \div k = n \div k
      BY <2>3, <2>4, <2>5, <3>1
    <3>2. CASE n % k = k - 1 /\ (n + 1) % k = 0 /\ (n + 1) \div k = n \div k + 1
      BY <2>3, <2>4, <2>5, <3>2
    <3> QED
      BY <3>1, <3>2, NextRemainder
  <2> QED
    BY <2>5, <2>6
<1> HIDE DEF P
<1>3. Nat \subseteq P
  BY <1>1, <1>2, Induction
<1> QED
  BY <1>3 DEF P

LEMMA GreatestIs ==
    ASSUME NEW S \in SUBSET Int, NEW x \in S, \A y \in S : x >= y
    PROVE  Max(S) = x
<1>1. Max(S) \in S /\ \A y \in S : Max(S) >= y
  BY DEF Max
<1>2. Max(S) \in Int /\ x \in Int /\ Max(S) >= x /\ x >= Max(S)
  BY <1>1
<1> QED
  BY <1>2

LEMMA LeastIs ==
    ASSUME NEW S \in SUBSET Int, NEW x \in S, \A y \in S : x <= y
    PROVE  Min(S) = x
<1>1. Min(S) \in S /\ \A y \in S : Min(S) <= y
  BY DEF Min
<1>2. Min(S) \in Int /\ x \in Int /\ Min(S) <= x /\ x <= Min(S)
  BY <1>1
<1> QED
  BY <1>2

LEMMA MaxOfTwo ==
    ASSUME NEW x \in Int, NEW y \in Int
    PROVE  Max({x, y}) = IF x >= y THEN x ELSE y
<1>1. CASE x >= y
  BY <1>1, GreatestIs
<1>2. CASE ~(x >= y)
  BY <1>2, GreatestIs
<1> QED
  BY <1>1, <1>2

LEMMA MinOfTwo ==
    ASSUME NEW x \in Int, NEW y \in Int
    PROVE  Min({x, y}) = IF x <= y THEN x ELSE y
<1>1. CASE x <= y
  BY <1>1, LeastIs
<1>2. CASE ~(x <= y)
  BY <1>2, LeastIs
<1> QED
  BY <1>1, <1>2

-----------------------------------------------------------------------------
(* The quotient rounded up.                                                *)
LEMMA RoundedUp ==
    ASSUME NEW n \in Nat \ {0}, NEW k \in Nat \ {0}
    PROVE  /\ CeilDiv(n, k) \in Nat \ {0}
           /\ n <= k * CeilDiv(n, k)
           /\ n \div k <= CeilDiv(n, k)
           /\ n % k # 0 => n \div k + 1 <= CeilDiv(n, k)
<1> DEFINE u == CeilDiv(n, k)
           a == n \div k
           s == n % k
           x == n + k - 1
<1>1. x \in Nat /\ x = n + k - 1
  OBVIOUS
<1>2. u = x \div k
  BY DEF CeilDiv
<1> HIDE DEF x
<1>3. x = k * u + (x % k) /\ x % k \in 0..(k - 1) /\ u \in Nat
  BY <1>1, <1>2, DivMod
<1>4. n = k * a + s /\ s \in 0..(k - 1) /\ a \in Nat
  BY DivMod
<1> HIDE DEF u, a, s
<1>5. k * u \in Nat /\ k * a \in Nat
  BY <1>3, <1>4
<1>6. n <= k * u
  BY <1>1, <1>3, <1>5
<1>7. u # 0
  <2>1. u = 0 => k * u = 0
    OBVIOUS
  <2> QED
    BY <1>6, <2>1
<1>8. a <= u
  <2> SUFFICES ASSUME u + 1 <= a PROVE FALSE
    BY <1>3, <1>4
  <2>1. k * (u + 1) <= k * a /\ k * (u + 1) = k * u + k
    BY <1>3, <1>4, Times
  <2> QED
    BY <1>1, <1>3, <1>4, <1>5, <2>1
<1>9. ASSUME s # 0 PROVE a + 1 <= u
  <2> SUFFICES ASSUME u <= a PROVE FALSE
    BY <1>3, <1>4
  <2>1. k * u <= k * a
    BY <1>3, <1>4, Times
  <2> QED
    BY <1>1, <1>3, <1>4, <1>5, <1>9, <2>1
<1> QED
  BY <1>3, <1>6, <1>7, <1>8, <1>9 DEF u, a, s

(* Every policy lays the queues out evenly.                                *)
LEMMA QueuesSpread ==
    ASSUME NEW t, t.num_queues \in Nat \ {0}, t.num_cores \in Nat \ {0}, NEW policy
    PROVE  LET cores == build_queue_to_core(t.num_queues, t.num_cores, policy)
           IN  CoresBalanced(t, cores, core_share_factor(cores))
<1> DEFINE n == t.num_queues
           k == t.num_cores
           u == CeilDiv(n, k)
           cores == build_queue_to_core(n, k, policy)
<1>1. /\ u \in Nat \ {0} /\ n <= k * u /\ n \div k <= u
      /\ n % k # 0 => n \div k + 1 <= u
  BY RoundedUp
<1>2. per(n, k) = u
  <2>1. 1 \in Int /\ u \in Int /\ 1 <= u
    BY <1>1
  <2> HIDE DEF u, n, k
  <2>2. Max({1, u}) = u
    BY <2>1, MaxOfTwo
  <2> QED
    BY <2>2 DEF per, u
<1>3. n \in Nat \ {0} /\ k \in Nat \ {0}
  OBVIOUS
<1>4. cores = [q \in 0..(n - 1) |->
                 IF policy = "block" THEN Min({k - 1, q \div u}) ELSE q % k]
  BY <1>2 DEF build_queue_to_core
<1>5. DOMAIN cores = 0..(n - 1)
  BY <1>4
<1>6. CASE policy = "block"
  <2>1. ASSUME NEW q \in 0..(n - 1)
        PROVE  /\ cores[q] = Min({k - 1, q \div u})
               /\ q \div u \in Nat
               /\ q = u * (q \div u) + (q % u) /\ q % u \in 0..(u - 1)
               /\ cores[q] \in 0..(k - 1)
               /\ cores[q] = IF k - 1 <= q \div u THEN k - 1 ELSE q \div u
    <3>1. cores[q] = Min({k - 1, q \div u})
      BY <1>4, <1>6
    <3> HIDE DEF cores, u, n, k
    <3>2. /\ q \in Nat /\ q \div u \in Nat
          /\ q = u * (q \div u) + (q % u) /\ q % u \in 0..(u - 1)
      <4>1. q \in Nat /\ u \in Nat \ {0}
        BY <1>1, <1>3
      <4> QED
        BY <4>1, DivMod
    <3>3. k - 1 \in Nat
      BY <1>3
    <3>4. cores[q] = IF k - 1 <= q \div u THEN k - 1 ELSE q \div u
      BY <3>1, <3>2, <3>3, MinOfTwo
    <3> QED
      BY <3>1, <3>2, <3>3, <3>4
  <2>2. ASSUME NEW c \in 0..(k - 1)
        PROVE  {q \in 0..(n - 1) : cores[q] = c} \subseteq (u * c)..(u * c + u - 1)
    <3> SUFFICES ASSUME NEW q \in 0..(n - 1), cores[q] = c
                 PROVE  q \in (u * c)..(u * c + u - 1)
      OBVIOUS
    <3> DEFINE a == q \div u
               s == q % u
    <3>1. /\ a \in Nat /\ s \in 0..(u - 1) /\ q = u * a + s
          /\ c = IF k - 1 <= a THEN k - 1 ELSE a
      BY <2>1, <2>2
    <3> HIDE DEF a, s, cores, u, n, k
    <3>2. u * a \in Nat /\ u * c \in Nat /\ q \in Nat
      BY <1>1, <1>3, <3>1
    <3>3. CASE a < k - 1
      BY <1>1, <1>3, <3>1, <3>2, <3>3
    <3>4. CASE ~(a < k - 1)
      <4>1. c = k - 1 /\ c <= a /\ c \in Nat
        BY <1>3, <3>1, <3>4
      <4>2. u * c <= u * a
        BY <1>1, <3>1, <4>1, Times
      <4>3. k * u = u * c + u
        <5>1. k = c + 1 /\ (c + 1) * u = u * c + u
          BY <1>1, <1>3, <4>1
        <5> QED
          BY <5>1
      <4>4. q < u * c + u
        BY <1>1, <1>3, <3>2, <4>3
      <4> QED
        BY <1>1, <3>1, <3>2, <4>2, <4>4
    <3> QED
      BY <3>3, <3>4
  <2>3. ASSUME NEW q \in 0..(n - 1)
        PROVE  Cardinality({r \in 0..(n - 1) : cores[r] = cores[q]}) <= u
    <3> DEFINE c == cores[q]
               S == {r \in 0..(n - 1) : cores[r] = c}
    <3>1. c \in 0..(k - 1)
      BY <2>1
    <3>2. S \subseteq (u * c)..(u * c + u - 1)
      BY <2>2, <3>1
    <3> HIDE DEF S, c, u, cores, n, k
    <3>3. u * c \in Int /\ u * c + u - 1 \in Int
      BY <1>1, <1>3, <3>1
    <3>4. /\ IsFiniteSet((u * c)..(u * c + u - 1))
          /\ Cardinality((u * c)..(u * c + u - 1)) = u
      <4> DEFINE x == u * c
                 y == u * c + u - 1
      <4>0. x \in Int /\ y \in Int /\ ~(x > y) /\ y - x + 1 = u
        BY <1>1, <3>3
      <4> HIDE DEF x, y
      <4>1. IsFiniteSet(x..y) /\ Cardinality(x..y) = IF x > y THEN 0 ELSE y - x + 1
        BY <4>0, FS_Interval
      <4> QED
        BY <4>0, <4>1 DEF x, y
    <3>5. Cardinality(S) <= u
      BY <3>2, <3>4, FS_Subset
    <3> QED
      BY <3>5 DEF S, c
  <2> QED
    BY <1>5, <2>1, <2>3 DEF CoresBalanced, core_share_factor, core_load
<1>7. CASE policy # "block"
  <2>1. ASSUME NEW q \in 0..(n - 1)
        PROVE  /\ cores[q] = q % k
               /\ cores[q] \in 0..(k - 1)
    <3>1. cores[q] = q % k
      BY <1>4, <1>7
    <3> HIDE DEF cores, n, k
    <3>2. q \in Nat
      BY <1>3
    <3> QED
      BY <1>3, <3>1, <3>2, DivMod
  <2>2. ASSUME NEW q \in 0..(n - 1)
        PROVE  Cardinality({r \in 0..(n - 1) : cores[r] = cores[q]}) <= u
    <3> DEFINE c == cores[q]
    <3>1. {r \in 0..(n - 1) : cores[r] = c} = {r \in 0..(n - 1) : r % k = c}
      BY <2>1
    <3>2. c \in 0..(k - 1)
      BY <2>1
    <3> HIDE DEF c, cores, n, k, u
    <3>3. Cardinality({r \in 0..(n - 1) : r % k = c}) =
             IF c < n % k THEN n \div k + 1 ELSE n \div k
      BY <1>3, <3>2, ResidueCount
    <3>4. n % k \in 0..(k - 1)
      BY <1>3, DivMod
    <3>5. c < n % k => n % k # 0
      BY <3>2, <3>4
    <3> QED
      BY <1>1, <3>1, <3>3, <3>5 DEF c
  <2> QED
    BY <1>5, <2>1, <2>2 DEF CoresBalanced, core_share_factor, core_load
<1> QED
  BY <1>6, <1>7

-----------------------------------------------------------------------------
(* The tables: the rounding of their weights, its correction, and the     *)
(* buckets that the counts of the queues give them.                        *)

(* A rounded quotient is within a half of the exact one.                   *)
LEMMA Rounded ==
    ASSUME NEW num \in Nat, NEW den \in Nat \ {0}
    PROVE  /\ Round(num, den) \in Nat
           /\ 2 * (den * Round(num, den)) <= 2 * num + den
           /\ 2 * num <= 2 * (den * Round(num, den)) + den
           /\ RoundBelow(num, den) \in Nat
           /\ 2 * (den * RoundBelow(num, den)) < 2 * num + den
           /\ 2 * num <= 2 * (den * RoundBelow(num, den)) + den
<1> DEFINE q == num \div den
           r == num % den
<1>1. num = den * q + r /\ r \in 0..(den - 1) /\ q \in Nat
  BY DivMod
<1>2. \/ Round(num, den) = q + 1 /\ 2 * r >= den
      \/ Round(num, den) = q /\ 2 * r <= den
  <2> HIDE DEF q, r
  <2>1. /\ 2 * r > den => 2 * r >= den
        /\ 2 * r = den => 2 * r >= den /\ 2 * r <= den
        /\ ~(2 * r > den) => 2 * r <= den
    BY <1>1
  <2>2. Round(num, den) = IF 2 * r > den \/ (2 * r = den /\ q % 2 = 1) THEN q + 1 ELSE q
    BY DEF Round, q, r
  <2> QED
    BY <2>1, <2>2
<1>3. \/ RoundBelow(num, den) = q + 1 /\ 2 * r > den
      \/ RoundBelow(num, den) = q /\ 2 * r <= den
  <2>1. RoundBelow(num, den) = IF 2 * r > den THEN q + 1 ELSE q
    BY DEF RoundBelow
  <2> HIDE DEF q, r
  <2> QED
    BY <1>1, <2>1
<1> HIDE DEF q, r
<1>4. den * (q + 1) = den * q + den /\ den * q \in Nat
  BY <1>1
<1>5. /\ Round(num, den) \in Nat
      /\ 2 * (den * Round(num, den)) <= 2 * num + den
      /\ 2 * num <= 2 * (den * Round(num, den)) + den
  <2>1. CASE Round(num, den) = q + 1 /\ 2 * r >= den
    BY <1>1, <1>4, <2>1
  <2>2. CASE Round(num, den) = q /\ 2 * r <= den
    BY <1>1, <1>4, <2>2
  <2> QED
    BY <1>2, <2>1, <2>2
<1>6. /\ RoundBelow(num, den) \in Nat
      /\ 2 * (den * RoundBelow(num, den)) < 2 * num + den
      /\ 2 * num <= 2 * (den * RoundBelow(num, den)) + den
  <2>1. CASE RoundBelow(num, den) = q + 1 /\ 2 * r > den
    BY <1>1, <1>4, <2>1
  <2>2. CASE RoundBelow(num, den) = q /\ 2 * r <= den
    BY <1>1, <1>4, <2>2
  <2> QED
    BY <1>3, <2>1, <2>2
<1> QED
  BY <1>5, <1>6

(* The counts of the queues: the hottest queue is at least as large as any *)
(* other, also after it alone has been corrected.                          *)
Correctable(c, k, n) ==
    /\ c \in [0..(k - 1) -> Nat]
    /\ 0 <= c[0] + n - SumCounts(c)
    /\ \A q \in 0..(k - 1) : c[q] <= c[0]
    /\ \A q \in 1..(k - 1) : c[q] <= c[0] + n - SumCounts(c)

LEMMA CountsSum ==
    ASSUME NEW k \in Nat \ {0}, NEW c \in [0..(k - 1) -> Int]
    PROVE  /\ SumCounts(c) = SumFunctionOnSet(c, 0..(k - 1))
           /\ SumCounts(c) \in Int
<1>1. DOMAIN c = 0..(k - 1)
  OBVIOUS
<1>2. SumCounts(c) = SumFunctionOnSet(c, 0..(k - 1))
  BY <1>1 DEF SumCounts, FoldFunction, SumFunctionOnSet
<1>3. IsFiniteSet(0..(k - 1))
  BY FS_Interval
<1>4. SumFunctionOnSet(c, 0..(k - 1)) \in Int
  BY <1>3, SumInteger
<1> QED
  BY <1>2, <1>4

LEMMA HottestFirst ==
    ASSUME NEW k \in Nat \ {0}, NEW c \in [0..(k - 1) -> Nat],
           \A q \in 0..(k - 1) : c[q] <= c[0]
    PROVE  argmax(c) = 0
<1> DEFINE S == {q \in DOMAIN c : \A r \in DOMAIN c : c[r] <= c[q]}
<1>1. S \in SUBSET Int /\ 0 \in S /\ \A q \in S : 0 <= q
  OBVIOUS
<1> HIDE DEF S
<1>2. Min(S) = 0
  BY <1>1, LeastIs
<1> QED
  BY <1>2 DEF argmax, S

(* The recursion by which surplus buckets are taken away.                  *)
Lowerings(c, m, f) ==
    f = [i \in 0..m |->
            IF i = 0 THEN c ELSE [f[i - 1] EXCEPT ![argmax(f[i - 1])] = @ - 1]]

Lowered(c, i) == [c EXCEPT ![0] = @ - i]

LEMMA LoweredFromHottest ==
    ASSUME NEW k \in Nat \ {0}, NEW c \in [0..(k - 1) -> Nat], NEW m \in Nat,
           \A q \in 0..(k - 1) : c[q] <= c[0],
           \A q \in 1..(k - 1) : c[q] <= c[0] - m,
           m <= c[0]
    PROVE  /\ \E f : Lowerings(c, m, f)
           /\ \A f : Lowerings(c, m, f) => f[m] = Lowered(c, m)
<1>1. ASSUME NEW i \in Nat, i <= m
      PROVE  Lowered(c, i) \in [0..(k - 1) -> Nat] /\ Lowered(c, 0) = c
  <2>1. 0 \in 0..(k - 1) /\ c[0] \in Nat /\ c[0] - i \in Nat /\ c[0] - 0 = c[0]
    BY <1>1
  <2> QED
    BY <2>1 DEF Lowered
<1>2. ASSUME NEW i \in Nat, i + 1 <= m
      PROVE  [Lowered(c, i) EXCEPT ![argmax(Lowered(c, i))] = @ - 1] = Lowered(c, i + 1)
  <2> DEFINE d == Lowered(c, i)
  <2>1. /\ d \in [0..(k - 1) -> Nat] /\ 0 \in 0..(k - 1)
        /\ d[0] = c[0] - i
        /\ \A q \in 1..(k - 1) : d[q] = c[q]
    <3>1. d \in [0..(k - 1) -> Nat]
      BY <1>1, <1>2
    <3> QED
      BY <3>1 DEF Lowered
  <2>2. \A q \in 0..(k - 1) : d[q] <= d[0]
    <3>1. \A q \in 1..(k - 1) : c[q] \in Nat /\ c[q] <= c[0] - m
      OBVIOUS
    <3>2. c[0] \in Nat /\ c[0] - m <= c[0] - i
      BY <1>2
    <3> HIDE DEF d
    <3> QED
      BY <2>1, <3>1, <3>2
  <2> HIDE DEF d
  <2>3. argmax(d) = 0
    BY <2>1, <2>2, HottestFirst
  <2>4. [d EXCEPT ![0] = @ - 1] = Lowered(c, i + 1)
    <3>1. c[0] \in Nat /\ c[0] - i - 1 = c[0] - (i + 1)
      BY <1>2
    <3>2. [d EXCEPT ![0] = @ - 1] = [c EXCEPT ![0] = c[0] - i - 1]
      BY <2>1 DEF d, Lowered
    <3> QED
      BY <3>1, <3>2 DEF Lowered
  <2> QED
    BY <2>3, <2>4 DEF d
<1>3. \E f : Lowerings(c, m, f)
  <2> DEFINE f == [i \in 0..m |-> Lowered(c, i)]
  <2>1. ASSUME NEW i \in 0..m
        PROVE  f[i] = IF i = 0 THEN c
                      ELSE [f[i - 1] EXCEPT ![argmax(f[i - 1])] = @ - 1]
    <3>1. CASE i = 0
      BY <1>1, <3>1
    <3>2. CASE i # 0
      <4>1. i - 1 \in Nat /\ i - 1 \in 0..m /\ (i - 1) + 1 <= m /\ (i - 1) + 1 = i
        BY <3>2
      <4>2. f[i - 1] = Lowered(c, i - 1) /\ f[i] = Lowered(c, i)
        BY <4>1
      <4> HIDE DEF f
      <4>3. [Lowered(c, i - 1) EXCEPT ![argmax(Lowered(c, i - 1))] = @ - 1] = Lowered(c, i)
        BY <1>2, <4>1
      <4> QED
        BY <3>2, <4>2, <4>3
    <3> QED
      BY <3>1, <3>2
  <2>2. f = [i \in 0..m |-> f[i]]
    OBVIOUS
  <2> HIDE DEF f
  <2>3. f = [i \in 0..m |-> IF i = 0 THEN c
                ELSE [f[i - 1] EXCEPT ![argmax(f[i - 1])] = @ - 1]]
    BY <2>1, <2>2
  <2> QED
    BY <2>3 DEF Lowerings
<1>4. ASSUME NEW f, Lowerings(c, m, f) PROVE f[m] = Lowered(c, m)
  <2> DEFINE P == {i \in Nat : i <= m => f[i] = Lowered(c, i)}
  <2>1. \A i \in 0..m : f[i] = IF i = 0 THEN c
                ELSE [f[i - 1] EXCEPT ![argmax(f[i - 1])] = @ - 1]
    BY <1>4 DEF Lowerings
  <2>2. 0 \in P
    <3>1. 0 \in 0..m /\ 0 <= m
      OBVIOUS
    <3>2. Lowered(c, 0) = c
      BY <1>1, <3>1
    <3>3. f[0] = c
      BY <2>1, <3>1
    <3> QED
      BY <3>2, <3>3
  <2>3. ASSUME NEW i \in Nat, i \in P PROVE i + 1 \in P
    <3> SUFFICES ASSUME i + 1 <= m PROVE f[i + 1] = Lowered(c, i + 1)
      OBVIOUS
    <3>1. i + 1 \in 0..m /\ (i + 1) - 1 = i /\ i + 1 # 0 /\ i <= m
      OBVIOUS
    <3>2. f[i] = Lowered(c, i)
      BY <2>3, <3>1
    <3>3. f[i + 1] = [f[i] EXCEPT ![argmax(f[i])] = @ - 1]
      BY <2>1, <3>1
    <3> QED
      BY <1>2, <3>2, <3>3
  <2> HIDE DEF P
  <2>4. Nat \subseteq P
    BY <2>2, <2>3, Induction
  <2> QED
    BY <2>4 DEF P
<1> QED
  BY <1>3, <1>4

(* Whatever the rounding left over or took too much of, the hottest queue  *)
(* alone makes up for it.                                                  *)
LEMMA CorrectedAtHottest ==
    ASSUME NEW k \in Nat \ {0}, NEW c, NEW n \in Nat, Correctable(c, k, n)
    PROVE  /\ Corrected(c, n) = [c EXCEPT ![0] = @ + n - SumCounts(c)]
           /\ Corrected(c, n) \in [0..(k - 1) -> Nat]
           /\ SumCounts(Corrected(c, n)) = n
<1> DEFINE s == SumCounts(c)
           diff == n - s
           m == Max({0, -diff})
<1>1. /\ c \in [0..(k - 1) -> Nat] /\ 0 \in 0..(k - 1) /\ DOMAIN c = 0..(k - 1)
      /\ c[0] \in Nat /\ 0 <= c[0] + n - s
      /\ \A q \in 0..(k - 1) : c[q] <= c[0]
      /\ \A q \in 1..(k - 1) : c[q] \in Nat /\ c[q] <= c[0] + n - s
  BY DEF Correctable
<1>2. s \in Int /\ s = SumFunctionOnSet(c, 0..(k - 1))
  <2>1. c \in [0..(k - 1) -> Int]
    BY <1>1
  <2> QED
    BY <2>1, CountsSum
<1>3. Corrected(c, n) = IF diff > 0 THEN [c EXCEPT ![argmax(c)] = @ + diff]
                                    ELSE (CHOOSE f : Lowerings(c, m, f))[-diff]
  BY DEF Corrected, Lowerings
<1> HIDE DEF s
<1>4. Corrected(c, n) = [c EXCEPT ![0] = @ + n - s]
  <2>1. CASE diff > 0
    <3>1. argmax(c) = 0
      BY <1>1, HottestFirst
    <3>2. c[0] + diff = c[0] + n - s
      BY <1>1, <1>2
    <3>3. Corrected(c, n) = [c EXCEPT ![0] = @ + diff]
      BY <1>3, <2>1, <3>1
    <3> HIDE DEF diff, m
    <3> QED
      BY <1>1, <3>2, <3>3
  <2>2. CASE ~(diff > 0)
    <3>1. -diff \in Nat /\ m = -diff
      <4>1. -diff \in Nat
        BY <1>2, <2>2
      <4>2. -diff \in Int /\ 0 \in Int
        BY <4>1
      <4> HIDE DEF diff
      <4> QED
        BY <4>1, <4>2, MaxOfTwo
    <3>2. c[0] - m = c[0] + n - s
      BY <1>1, <1>2, <3>1
    <3>3. m \in Nat /\ m <= c[0]
      BY <1>1, <3>1, <3>2
    <3>4. Corrected(c, n) = (CHOOSE f : Lowerings(c, m, f))[m]
      BY <1>3, <2>2, <3>1
    <3> HIDE DEF diff, m
    <3>5. \A q \in 1..(k - 1) : c[q] <= c[0] - m
      BY <1>1, <3>2
    <3>6. /\ \E f : Lowerings(c, m, f)
          /\ \A f : Lowerings(c, m, f) => f[m] = Lowered(c, m)
      BY <1>1, <3>3, <3>5, LoweredFromHottest
    <3>7. Lowerings(c, m, CHOOSE f : Lowerings(c, m, f))
      BY <3>6
    <3>8. Corrected(c, n) = Lowered(c, m)
      BY <3>4, <3>6, <3>7
    <3> QED
      BY <1>1, <3>2, <3>8 DEF Lowered
  <2> QED
    BY <2>1, <2>2
<1> DEFINE d == Corrected(c, n)
<1>5. d \in [0..(k - 1) -> Nat] /\ d[0] = c[0] + n - s /\ \A q \in 1..(k - 1) : d[q] = c[q]
  <2>1. c[0] + n - s \in Nat
    BY <1>1, <1>2
  <2> QED
    BY <1>1, <1>4, <2>1
<1> HIDE DEF d
<1>6. SumCounts(d) = n
  <2> DEFINE S == 0..(k - 1)
  <2>1. IsFiniteSet(S)
    BY FS_Interval
  <2>2. /\ \A q \in S : c[q] \in Int /\ d[q] \in Int
        /\ \A q \in S \ {0} : d[q] = c[q]
        /\ 0 \in S /\ d \in [S -> Int]
    BY <1>1, <1>5
  <2>3. SumCounts(d) = SumFunctionOnSet(d, S)
    BY <2>2, CountsSum
  <2>4. s = SumFunctionOnSet(c, S)
    BY <1>2
  <2> HIDE DEF S
  <2>5. SumFunctionOnSet(d, S) = SumFunctionOnSet(c, S) + d[0] - c[0]
    <3>1. 0 \in S
      BY <2>2
    <3>2. \A q \in S : c[q] \in Int /\ d[q] \in Int
      BY <2>2
    <3>3. \A q \in S \ {0} : d[q] = c[q]
      BY <2>2
    <3>4. PICK x \in S : x = 0
      BY <3>1
    <3>5. \A q \in S \ {x} : d[q] = c[q]
      BY <3>3, <3>4
    <3>6. SumFunctionOnSet(d, S) = SumFunctionOnSet(c, S) + d[x] - c[x]
      BY <2>1, <3>2, <3>5, SumChanged
    <3> QED
      BY <3>4, <3>6
  <2> QED
    BY <1>1, <1>2, <1>5, <2>3, <2>4, <2>5
<1> QED
  BY <1>4, <1>5, <1>6 DEF d, s

(* B[q] is the first bucket of the run of queue q, and B[k] the end.       *)
Starts(k, c, B) ==
    /\ B[0] = 0
    /\ \A q \in 0..k : B[q] \in Nat
    /\ \A q \in 0..(k - 1) : c[q] \in Nat /\ B[q + 1] = B[q] + c[q]

SumsBelow(k, c, B) == \A q \in 0..k : B[q] = SumFunctionOnSet(c, 0..(q - 1))

LEMMA SumsAreStarts ==
    ASSUME NEW k \in Nat \ {0}, NEW c \in [0..(k - 1) -> Nat],
           NEW B, SumsBelow(k, c, B)
    PROVE  Starts(k, c, B)
<1>1. \A q \in 0..(k - 1) : c[q] \in Nat
  OBVIOUS
<1>2. \A q \in 0..k : B[q] \in Nat
  <2> TAKE q \in 0..k
  <2>1. IsFiniteSet(0..(q - 1)) /\ \A r \in 0..(q - 1) : c[r] \in Nat
    <3>1. 0 \in Int /\ q - 1 \in Int
      OBVIOUS
    <3>2. IsFiniteSet(0..(q - 1))
      BY <3>1, FS_Interval
    <3>3. 0..(q - 1) \subseteq 0..(k - 1)
      OBVIOUS
    <3> QED
      BY <1>1, <3>2, <3>3
  <2>2. SumFunctionOnSet(c, 0..(q - 1)) \in Nat
    BY <2>1, SumNatural
  <2> QED
    BY <2>2 DEF SumsBelow
<1>3. B[0] = 0
  <2>1. 0..(0 - 1) = {} /\ 0 \in 0..k
    OBVIOUS
  <2>2. B[0] = SumFunctionOnSet(c, 0..(0 - 1))
    BY <2>1 DEF SumsBelow
  <2> QED
    BY <2>1, <2>2, SumOverNothing
<1>4. \A q \in 0..(k - 1) : B[q + 1] = B[q] + c[q]
  <2> TAKE q \in 0..(k - 1)
  <2> DEFINE U == 0..q
  <2>1. IsFiniteSet(U)
    BY FS_Interval
  <2>2. q \in U /\ U \ {q} = 0..(q - 1) /\ \A r \in U : c[r] \in Int
    BY <1>1
  <2>3. q + 1 \in 0..k /\ q \in 0..k /\ 0..((q + 1) - 1) = U
    OBVIOUS
  <2>4. B[q + 1] = SumFunctionOnSet(c, U) /\ B[q] = SumFunctionOnSet(c, U \ {q})
    BY <2>2, <2>3 DEF SumsBelow
  <2> HIDE DEF U
  <2>5. SumFunctionOnSet(c, U) = c[q] + SumFunctionOnSet(c, U \ {q})
    BY <2>1, <2>2, SumRemove
  <2>6. B[q] \in Nat /\ c[q] \in Nat
    BY <1>1, <1>2, <2>3
  <2> QED
    BY <2>4, <2>5, <2>6
<1> QED
  BY <1>1, <1>2, <1>3, <1>4 DEF Starts

LEMMA RunsApart ==
    ASSUME NEW k \in Nat \ {0}, NEW c, NEW B, Starts(k, c, B),
           NEW q \in 0..(k - 1), NEW r \in 0..k, q < r
    PROVE  B[q] + c[q] <= B[r]
<1> DEFINE P == {i \in Nat : q + 1 + i <= k => B[q] + c[q] <= B[q + 1 + i]}
<1>1. /\ q \in 0..k /\ q + 1 \in 0..k /\ q + 1 + 0 = q + 1
  OBVIOUS
<1>2. B[q] \in Nat /\ c[q] \in Nat /\ B[q + 1] = B[q] + c[q]
  BY <1>1 DEF Starts
<1>3. 0 \in P
  BY <1>1, <1>2
<1>4. ASSUME NEW i \in Nat, i \in P PROVE i + 1 \in P
  <2> SUFFICES ASSUME q + 1 + (i + 1) <= k PROVE B[q] + c[q] <= B[q + 1 + (i + 1)]
    OBVIOUS
  <2> DEFINE j == q + 1 + i
  <2>1. j \in 0..(k - 1) /\ j \in 0..k /\ q + 1 + (i + 1) = j + 1
    OBVIOUS
  <2>2. B[q] + c[q] <= B[j]
    BY <1>4, <2>1
  <2> HIDE DEF j
  <2>3. B[j + 1] = B[j] + c[j] /\ B[j] \in Nat /\ c[j] \in Nat
    BY <2>1 DEF Starts
  <2>4. B[q] + c[q] <= B[j + 1]
    BY <1>2, <2>2, <2>3
  <2> QED
    BY <2>1, <2>4
<1> HIDE DEF P
<1>5. Nat \subseteq P
  BY <1>3, <1>4, Induction
<1>6. r - (q + 1) \in Nat /\ q + 1 + (r - (q + 1)) = r /\ r <= k
  OBVIOUS
<1>7. r - (q + 1) \in P
  BY <1>5, <1>6
<1> QED
  BY <1>6, <1>7 DEF P

InRun(c, B, q, b) == B[q] <= b /\ b < B[q] + c[q]

LEMMA OneRun ==
    ASSUME NEW k \in Nat \ {0}, NEW c, NEW B, Starts(k, c, B), NEW b \in 0..(B[k] - 1)
    PROVE  /\ \E q \in 0..(k - 1) : InRun(c, B, q, b)
           /\ \A q, r \in 0..(k - 1) : InRun(c, B, q, b) /\ InRun(c, B, r, b) => q = r
<1>0. B[k] \in Nat /\ b \in Nat /\ b < B[k]
  <2>1. k \in 0..k
    OBVIOUS
  <2>2. B[k] \in Nat
    BY <2>1 DEF Starts
  <2> QED
    BY <2>2
<1>1. \E q \in 0..(k - 1) : InRun(c, B, q, b)
  <2> DEFINE T == {q \in 0..k : b < B[q]}
  <2>1. k \in T /\ T \in SUBSET Nat
    BY <1>0
  <2>2. PICK x \in T : \A y \in T : x <= y
    BY <2>1, LeastElement
  <2>3. x \in 0..k /\ b < B[x]
    BY <2>2
  <2>4. x # 0
    BY <1>0, <2>3 DEF Starts
  <2>5. x - 1 \in 0..(k - 1) /\ x - 1 \in 0..k /\ (x - 1) + 1 = x /\ ~(x <= x - 1)
    BY <2>3, <2>4
  <2>6. ~(b < B[x - 1])
    BY <2>2, <2>5
  <2>7. B[x - 1] \in Nat /\ c[x - 1] \in Nat /\ B[x] = B[x - 1] + c[x - 1]
    BY <2>5 DEF Starts
  <2>8. B[x - 1] <= b /\ b < B[x - 1] + c[x - 1]
    BY <1>0, <2>3, <2>6, <2>7
  <2> QED
    BY <2>5, <2>8 DEF InRun
<1>2. ASSUME NEW q \in 0..(k - 1), NEW r \in 0..(k - 1),
             InRun(c, B, q, b), InRun(c, B, r, b), q < r
      PROVE  FALSE
  <2>1. r \in 0..k /\ q \in 0..k
    OBVIOUS
  <2>2. B[q] + c[q] <= B[r]
    BY <1>2, <2>1, RunsApart
  <2>3. B[q] \in Nat /\ B[r] \in Nat /\ c[q] \in Nat
    BY <2>1 DEF Starts
  <2>4. b < B[q] + c[q] /\ B[r] <= b
    BY <1>2 DEF InRun
  <2> QED
    BY <1>0, <2>2, <2>3, <2>4
<1>3. \A q, r \in 0..(k - 1) : q < r \/ r < q \/ q = r
  OBVIOUS
<1> QED
  BY <1>1, <1>2, <1>3

(* A run of buckets per queue: every bucket has a queue, and every queue   *)
(* as many buckets as its count.                                           *)
LEMMA RunsOfBuckets ==
    ASSUME NEW k \in Nat \ {0}, NEW c, NEW B, Starts(k, c, B), NEW table,
           \A b \in 0..(B[k] - 1) :
              table[b] = CHOOSE q \in 0..(k - 1) : InRun(c, B, q, b)
    PROVE  /\ \A b \in 0..(B[k] - 1) : table[b] \in 0..(k - 1)
           /\ \A q \in 0..(k - 1) :
                 Cardinality({b \in 0..(B[k] - 1) : table[b] = q}) = c[q]
<1> DEFINE Bs == 0..(B[k] - 1)
           Qs == 0..(k - 1)
<1>1. \A b \in Bs : table[b] \in Qs /\ InRun(c, B, table[b], b)
  <2> TAKE b \in Bs
  <2>1. \E q \in Qs : InRun(c, B, q, b)
    BY OneRun
  <2>2. table[b] = CHOOSE q \in Qs : InRun(c, B, q, b)
    OBVIOUS
  <2> HIDE DEF Qs, Bs
  <2> QED
    BY <2>1, <2>2
<1>2. ASSUME NEW q \in Qs PROVE Cardinality({b \in Bs : table[b] = q}) = c[q]
  <2> DEFINE x == B[q]
             y == B[q] + c[q] - 1
  <2>1. q \in 0..k /\ k \in 0..k /\ q < k
    OBVIOUS
  <2>2. B[q] \in Nat /\ c[q] \in Nat /\ B[k] \in Nat
    BY <2>1 DEF Starts
  <2>3. B[q] + c[q] <= B[k]
    BY <2>1, RunsApart
  <2>4. \A b \in Bs : table[b] = q <=> InRun(c, B, q, b)
    <3>1. \A b \in Bs : \A r \in Qs : InRun(c, B, q, b) /\ InRun(c, B, r, b) => q = r
      BY OneRun
    <3> HIDE DEF Bs, Qs
    <3> QED
      BY <1>1, <3>1
  <2>5. \A b : b \in Bs /\ InRun(c, B, q, b) <=> b \in x..y
    BY <2>2, <2>3 DEF InRun
  <2>6. {b \in Bs : table[b] = q} = x..y
    <3> HIDE DEF Bs, x, y, Qs
    <3> QED
      BY <2>4, <2>5
  <2>7. x \in Int /\ y \in Int /\ (IF x > y THEN 0 ELSE y - x + 1) = c[q]
    BY <2>2
  <2> HIDE DEF x, y
  <2>8. Cardinality(x..y) = IF x > y THEN 0 ELSE y - x + 1
    BY <2>7, FS_Interval
  <2> QED
    BY <2>6, <2>7, <2>8
<1> QED
  BY <1>1, <1>2

LEMMA HotAndTail ==
    ASSUME NEW k \in Nat \ {0, 1}, NEW c \in [0..(k - 1) -> Int], NEW w \in Int,
           \A q \in 2..(k - 1) : c[q] = w
    PROVE  SumCounts(c) = c[0] + c[1] + (k - 2) * w
<1> DEFINE S == 0..(k - 1)
           T == S \ {0}
           U == T \ {1}
<1>1. /\ U = 2..(k - 1) /\ 0 \in S /\ 1 \in T
      /\ \A q \in S : c[q] \in Int
      /\ \A q \in T : c[q] \in Int
      /\ 0 \in Int /\ k - 1 \in Int /\ 2 \in Int
  OBVIOUS
<1>2. SumCounts(c) = SumFunctionOnSet(c, S)
  BY CountsSum
<1>3. Cardinality(U) = k - 2
  <2> DEFINE y == k - 1
  <2>1. y \in Int /\ (IF 2 > y THEN 0 ELSE y - 2 + 1) = k - 2
    OBVIOUS
  <2> HIDE DEF y
  <2>2. Cardinality(2..y) = IF 2 > y THEN 0 ELSE y - 2 + 1
    BY <2>1, FS_Interval
  <2> QED
    BY <1>1, <2>1, <2>2 DEF y
<1>4. IsFiniteSet(S)
  BY <1>1, FS_Interval
<1> HIDE DEF S
<1>5. IsFiniteSet(T)
  BY <1>4, FS_Subset
<1> HIDE DEF T
<1>6. IsFiniteSet(U)
  BY <1>5, FS_Subset
<1>7. SumFunctionOnSet(c, S) = c[0] + SumFunctionOnSet(c, T)
  <2>1. PICK x \in S : x = 0
    BY <1>1
  <2>2. SumFunctionOnSet(c, S) = c[x] + SumFunctionOnSet(c, S \ {x})
    BY <1>1, <1>4, SumRemove
  <2> QED
    BY <2>1, <2>2 DEF T
<1>8. SumFunctionOnSet(c, T) = c[1] + SumFunctionOnSet(c, U)
  <2>1. PICK x \in T : x = 1
    BY <1>1
  <2>2. SumFunctionOnSet(c, T) = c[x] + SumFunctionOnSet(c, T \ {x})
    BY <1>1, <1>5, SumRemove
  <2> QED
    BY <2>1, <2>2
<1> HIDE DEF U
<1>9. SumFunctionOnSet(c, U) = (k - 2) * w
  <2>1. \A q \in U : c[q] = w
    BY <1>1
  <2> QED
    BY <1>3, <1>6, <2>1, SumConstant
<1>10. c[0] \in Int /\ c[1] \in Int /\ (k - 2) * w \in Int
  OBVIOUS
<1> QED
  BY <1>2, <1>7, <1>8, <1>9, <1>10

(* The even tail keeps less than its fifth and a half bucket per queue,    *)
(* and no more than the second hot queue has.                              *)
LEMMA TailSmall ==
    ASSUME NEW n \in Nat \ {0}, NEW m \in Nat \ {0}, NEW h \in Nat,
           6 * n <= 20 * h + 10
    PROVE  LET r == RoundBelow(2 * n, 10 * m)
           IN  /\ r \in Nat /\ m * r \in Nat
               /\ 10 * (m * r) < 4 * n
               /\ r <= h
<1> DEFINE r == RoundBelow(2 * n, 10 * m)
           x == m * r
<1>1. r \in Nat /\ 2 * ((10 * m) * r) < 2 * (2 * n) + 10 * m
  <2>1. 2 * n \in Nat /\ 10 * m \in Nat \ {0}
    OBVIOUS
  <2> QED
    BY <2>1, Rounded
<1> HIDE DEF r
<1>2. (10 * m) * r = 10 * x /\ x \in Nat
  BY <1>1
<1>3. 20 * x < 4 * n + 10 * m
  <2> HIDE DEF x
  <2> QED
    BY <1>1, <1>2
<1>4. 10 * x < 4 * n
  <2>1. CASE r = 0
    <3>1. x = 0
      BY <2>1
    <3> QED
      BY <3>1
  <2>2. CASE r # 0
    <3>1. m * 1 <= m * r
      BY <1>1, <2>2, Times
    <3>2. m <= x
      BY <3>1
    <3> HIDE DEF x
    <3> QED
      BY <1>2, <1>3, <3>2
  <2> QED
    BY <2>1, <2>2
<1>5. r <= h
  <2> SUFFICES ASSUME h + 1 <= r PROVE FALSE
    BY <1>1
  <2>1. m * (h + 1) <= x
    BY <1>1, Times
  <2>2. 1 * n <= m * n /\ m * n \in Nat
    BY Times
  <2>3. m * (h + 1) = m * h + m /\ m * h \in Nat
    OBVIOUS
  <2>4. m * (6 * n) <= m * (20 * h + 10)
    BY Times
  <2>5. m * (6 * n) = 6 * (m * n) /\ m * (20 * h + 10) = 20 * (m * h) + 10 * m
    OBVIOUS
  <2> DEFINE a == m * n
             b == m * h
  <2>6. /\ a \in Nat /\ b \in Nat /\ n <= a /\ b + m <= x
        /\ 6 * a <= 20 * b + 10 * m
    BY <2>1, <2>2, <2>3, <2>4, <2>5
  <2> HIDE DEF a, b, x
  <2> QED
    BY <1>2, <1>3, <2>6
<1> QED
  BY <1>1, <1>2, <1>4, <1>5 DEF r

(* The counts of a skewed table, whatever the rounding made of its         *)
(* weights.                                                                *)
HotLead(c, k, n) ==
    /\ 2 * (c[0] + c[1]) > n
    /\ c[0] >= c[1]
    /\ \A q, r \in 2..(k - 1) : c[q] = c[r] /\ c[q] <= c[1]

LEMMA SkewedCountsSound ==
    ASSUME NEW n \in Nat \ {0}, NEW k \in Nat \ {0}
    PROVE  LET c == SkewedCounts(n, k)
           IN  /\ c \in [0..(k - 1) -> Nat]
               /\ SumCounts(c) = n
               /\ k > 2 => HotLead(c, k, n)
<1> DEFINE w == _skewed_weights(n, k)
<1>1. CASE k = 1
  <2>1. w \in [0..(k - 1) -> Nat] /\ \A q \in 0..(k - 1) : w[q] = n
    BY <1>1 DEF _skewed_weights
  <2> HIDE DEF w
  <2>2. SumCounts(w) = n
    <3>1. w \in [0..(k - 1) -> Int] /\ 0..(k - 1) = 0..0
      BY <1>1, <2>1
    <3>2. SumCounts(w) = SumFunctionOnSet(w, 0..0)
      BY <3>1, CountsSum
    <3>3. IsFiniteSet(0..0) /\ Cardinality(0..0) = 1
      <4>1. 0..0 = {0}
        OBVIOUS
      <4>2. IsFiniteSet({0}) /\ Cardinality({0}) = 1
        BY FS_Singleton, Zenon
      <4> QED
        BY <4>1, <4>2
    <3>4. SumFunctionOnSet(w, 0..0) = 1 * n
      <4>1. \A q \in 0..0 : w[q] = n
        BY <2>1, <3>1
      <4> QED
        BY <3>3, <4>1, SumConstant
    <3> QED
      BY <3>2, <3>4
  <2>3. Correctable(w, k, n)
    BY <1>1, <2>1, <2>2 DEF Correctable
  <2> DEFINE c == Corrected(w, n)
  <2>4. c \in [0..(k - 1) -> Nat] /\ SumCounts(c) = n
    BY <2>3, CorrectedAtHottest
  <2> HIDE DEF c
  <2> QED
    BY <1>1, <2>4 DEF SkewedCounts, w, c
<1>2. CASE k = 2
  <2> DEFINE a == Round(7 * n, 10)
             b == Round(3 * n, 10)
  <2>1. /\ a \in Nat /\ 20 * a <= 14 * n + 10 /\ 14 * n <= 20 * a + 10
        /\ b \in Nat /\ 20 * b <= 6 * n + 10 /\ 6 * n <= 20 * b + 10
    <3>1. 7 * n \in Nat /\ 3 * n \in Nat /\ 10 \in Nat \ {0}
      OBVIOUS
    <3>2. a \in Nat /\ 2 * (10 * a) <= 2 * (7 * n) + 10 /\ 2 * (7 * n) <= 2 * (10 * a) + 10
      BY <3>1, Rounded
    <3>3. b \in Nat /\ 2 * (10 * b) <= 2 * (3 * n) + 10 /\ 2 * (3 * n) <= 2 * (10 * b) + 10
      BY <3>1, Rounded
    <3> HIDE DEF a, b
    <3> QED
      BY <3>2, <3>3
  <2>2. /\ w = [q \in 0..(k - 1) |-> IF q = 0 THEN a ELSE b]
        /\ w \in [0..(k - 1) -> Nat] /\ w \in [0..(k - 1) -> Int]
        /\ w[0] = a /\ w[1] = b
    <3>1. w = [q \in 0..(k - 1) |-> IF q = 0 THEN a ELSE b]
      BY <1>2 DEF _skewed_weights
    <3> HIDE DEF w, a, b
    <3> QED
      BY <1>2, <2>1, <3>1
  <2> HIDE DEF w, a, b
  <2>3. SumCounts(w) = a + b
    <3>1. \A q \in 2..(k - 1) : w[q] = 0
      BY <1>2
    <3>2. SumCounts(w) = w[0] + w[1] + (k - 2) * 0
      <4>1. k \in Nat \ {0, 1} /\ 0 \in Int
        BY <1>2
      <4>2. w \in [0..(k - 1) -> Int]
        BY <2>2
      <4> QED
        BY <3>1, <4>1, <4>2, HotAndTail
    <3> QED
      BY <1>2, <2>1, <2>2, <3>2
  <2>4. b <= a /\ 0 <= a + n - SumCounts(w) /\ b <= a + n - SumCounts(w)
    BY <2>1, <2>3
  <2>5. Correctable(w, k, n)
    <3>1. \A q \in 0..(k - 1) : w[q] <= w[0]
      BY <1>2, <2>1, <2>2, <2>4
    <3>2. \A q \in 1..(k - 1) : w[q] <= w[0] + n - SumCounts(w)
      <4>1. \A q \in 1..(k - 1) : w[q] = b
        BY <1>2, <2>2
      <4> QED
        BY <2>2, <2>4, <4>1
    <3> QED
      BY <2>2, <2>4, <3>1, <3>2 DEF Correctable
  <2> DEFINE c == Corrected(w, n)
  <2>6. c \in [0..(k - 1) -> Nat] /\ SumCounts(c) = n
    BY <2>5, CorrectedAtHottest
  <2> HIDE DEF c
  <2> QED
    BY <1>2, <2>6 DEF SkewedCounts, w, c
<1>3. CASE k > 2
  <2> DEFINE m == k - 2
             a == Round(5 * n, 10)
             b == Round(3 * n, 10)
             r == RoundBelow(2 * n, 10 * m)
             x == m * r
  <2>1. /\ a \in Nat /\ 20 * a <= 10 * n + 10 /\ 10 * n <= 20 * a + 10
        /\ b \in Nat /\ 20 * b <= 6 * n + 10 /\ 6 * n <= 20 * b + 10
    <3>1. 5 * n \in Nat /\ 3 * n \in Nat /\ 10 \in Nat \ {0}
      OBVIOUS
    <3>2. a \in Nat /\ 2 * (10 * a) <= 2 * (5 * n) + 10 /\ 2 * (5 * n) <= 2 * (10 * a) + 10
      BY <3>1, Rounded
    <3>3. b \in Nat /\ 2 * (10 * b) <= 2 * (3 * n) + 10 /\ 2 * (3 * n) <= 2 * (10 * b) + 10
      BY <3>1, Rounded
    <3> HIDE DEF a, b
    <3> QED
      BY <3>2, <3>3
  <2>2. r \in Nat /\ x \in Nat /\ 10 * x < 4 * n /\ r <= b
    <3>1. m \in Nat \ {0}
      BY <1>3
    <3> HIDE DEF m, b
    <3> QED
      BY <2>1, <3>1, TailSmall
  <2>3. /\ w \in [0..(k - 1) -> Nat] /\ w \in [0..(k - 1) -> Int]
        /\ w[0] = a /\ w[1] = b /\ \A q \in 2..(k - 1) : w[q] = r
        /\ 0 \in 0..(k - 1) /\ 1 \in 0..(k - 1)
    <3>1. w = [q \in 0..(k - 1) |-> IF q = 0 THEN a ELSE IF q = 1 THEN b ELSE r]
      BY <1>3 DEF _skewed_weights
    <3> HIDE DEF w, a, b, r
    <3> QED
      BY <1>3, <2>1, <2>2, <3>1
  <2> HIDE DEF w, a, b, r
  <2>4. SumCounts(w) = a + b + x
    <3>1. SumCounts(w) = w[0] + w[1] + (k - 2) * r
      BY <1>3, <2>2, <2>3, HotAndTail
    <3> QED
      BY <2>3, <3>1
  <2> HIDE DEF x, m
  <2>5. /\ b <= a /\ r <= a
        /\ 0 <= a + n - SumCounts(w) /\ b <= a + n - SumCounts(w)
        /\ r <= a + n - SumCounts(w)
        /\ 2 * ((a + n - SumCounts(w)) + b) > n
    <3>1. a + n - SumCounts(w) = n - b - x
      BY <2>1, <2>2, <2>4
    <3>2. 10 * x < 4 * n /\ x \in Nat /\ r \in Nat /\ r <= b
      BY <2>2
    <3>3. b <= n - b - x /\ 2 * ((n - b - x) + b) > n
      BY <2>1, <3>2
    <3>4. b <= a /\ r <= a
      BY <2>1, <3>2
    <3>5. 0 <= n - b - x /\ r <= n - b - x
      BY <2>1, <3>2, <3>3
    <3> QED
      BY <3>1, <3>3, <3>4, <3>5
  <2>6. Correctable(w, k, n)
    <3>1. \A q \in 0..(k - 1) : q = 0 \/ q = 1 \/ q \in 2..(k - 1)
      OBVIOUS
    <3>2. \A q \in 0..(k - 1) : w[q] <= w[0]
      <4>1. a <= a
        BY <2>1
      <4> QED
        BY <2>3, <2>5, <3>1, <4>1
    <3>3. \A q \in 1..(k - 1) : w[q] <= w[0] + n - SumCounts(w)
      <4>1. \A q \in 1..(k - 1) : q = 1 \/ q \in 2..(k - 1)
        OBVIOUS
      <4> QED
        BY <2>3, <2>5, <4>1
    <3> QED
      BY <2>3, <2>5, <3>2, <3>3 DEF Correctable
  <2> DEFINE c == Corrected(w, n)
  <2>7. /\ c = [w EXCEPT ![0] = @ + n - SumCounts(w)]
        /\ c \in [0..(k - 1) -> Nat]
        /\ SumCounts(c) = n
    BY <2>6, CorrectedAtHottest
  <2> HIDE DEF c
  <2>8. c[0] = a + n - SumCounts(w) /\ c[1] = b /\ \A q \in 2..(k - 1) : c[q] = r
    BY <2>3, <2>7
  <2>9. HotLead(c, k, n)
    <3>1. a + n - SumCounts(w) \in Int /\ b \in Int
      BY <2>1, <2>2, <2>4
    <3>2. c[0] >= c[1] /\ 2 * (c[0] + c[1]) > n
      BY <2>5, <2>8, <3>1
    <3> QED
      BY <2>2, <2>8, <3>2 DEF HotLead
  <2> QED
    BY <2>7, <2>9 DEF SkewedCounts, w, c
<1> QED
  BY <1>1, <1>2, <1>3

LEMMA ModuloSound ==
    ASSUME NEW t, t.num_queues \in Nat \ {0}, t.num_buckets \in Nat \ {0},
           t.initial_rss = "modulo",
           NEW table \in InitialTables(t.initial_rss, t.num_buckets, t.num_queues)
    PROVE  TableSound(t, table)
<1> DEFINE n == t.num_buckets
           k == t.num_queues
<1>1. table = [b \in 0..(n - 1) |-> b % k]
  BY DEF InitialTables
<1> HIDE DEF n, k
<1>2. n \in Nat /\ k \in Nat \ {0}
  BY DEF n, k
<1>3. DOMAIN table = 0..(n - 1) /\ \A b \in 0..(n - 1) : table[b] = b % k
  BY <1>1
<1>4. \A b \in 0..(n - 1) : table[b] \in 0..(k - 1)
  <2> TAKE b \in 0..(n - 1)
  <2>1. b \in Nat
    BY <1>2
  <2> QED
    BY <1>2, <1>3, <2>1, DivMod
<1>5. ASSUME NEW q \in 0..(k - 1)
      PROVE  CountOf(table, q) = IF q < n % k THEN n \div k + 1 ELSE n \div k
  <2>1. {b \in 0..(n - 1) : table[b] = q} = {b \in 0..(n - 1) : b % k = q}
    BY <1>3
  <2>2. Cardinality({b \in 0..(n - 1) : b % k = q}) =
           IF q < n % k THEN n \div k + 1 ELSE n \div k
    BY <1>2, ResidueCount
  <2> QED
    BY <1>3, <2>1, <2>2 DEF CountOf
<1>6. n \div k \in Nat /\ n % k \in 0..(k - 1)
  BY <1>2, DivMod
<1>7. \A q, r \in 0..(k - 1) : CountOf(table, q) <= CountOf(table, r) + 1
  <2> TAKE q, r \in 0..(k - 1)
  <2>1. \A p \in {q, r} : CountOf(table, p) \in {n \div k, n \div k + 1}
    BY <1>5
  <2> QED
    BY <1>6, <2>1
<1> QED
  BY <1>3, <1>4, <1>7 DEF TableSound, n, k

LEMMA RandomSound ==
    ASSUME NEW t, t.initial_rss = "random",
           NEW table \in InitialTables(t.initial_rss, t.num_buckets, t.num_queues)
    PROVE  TableSound(t, table)
<1>1. table \in [0..(t.num_buckets - 1) -> 0..(t.num_queues - 1)]
  BY DEF InitialTables
<1> QED
  BY <1>1 DEF TableSound

LEMMA SkewedSound ==
    ASSUME NEW t, t.num_queues \in Nat \ {0}, t.num_buckets \in Nat \ {0},
           t.initial_rss = "skewed",
           NEW table \in InitialTables(t.initial_rss, t.num_buckets, t.num_queues)
    PROVE  TableSound(t, table)
<1> DEFINE n == t.num_buckets
           k == t.num_queues
           c == SkewedCounts(n, k)
           B == [q \in 0..k |-> SumFunctionOnSet(c, 0..(q - 1))]
<1>0. n \in Nat \ {0} /\ k \in Nat \ {0}
  OBVIOUS
<1>1. table = _skewed_table(n, k)
  BY DEF InitialTables
<1> HIDE DEF n, k
<1>2. /\ c \in [0..(k - 1) -> Nat]
      /\ SumCounts(c) = n
      /\ k > 2 => HotLead(c, k, n)
  BY <1>0, SkewedCountsSound
<1>3. table = [b \in 0..(n - 1) |->
                 CHOOSE q \in 0..(k - 1) :
                    /\ SumFunctionOnSet(c, 0..(q - 1)) <= b
                    /\ b < SumFunctionOnSet(c, 0..(q - 1)) + c[q]]
  BY <1>1 DEF _skewed_table, SumFunctionOnSet
<1> HIDE DEF c
<1>4. SumsBelow(k, c, B)
  BY DEF SumsBelow
<1>5. B[k] = n
  <2>1. c \in [0..(k - 1) -> Int] /\ k \in 0..k
    BY <1>0, <1>2
  <2>2. SumCounts(c) = SumFunctionOnSet(c, 0..(k - 1))
    BY <1>0, <2>1, CountsSum
  <2> QED
    BY <1>2, <2>1, <2>2
<1>6. \A q \in 0..(k - 1) : B[q] = SumFunctionOnSet(c, 0..(q - 1))
  <2>1. \A q \in 0..(k - 1) : q \in 0..k
    BY <1>0
  <2> QED
    BY <2>1
<1> HIDE DEF B
<1>7. Starts(k, c, B)
  BY <1>0, <1>2, <1>4, SumsAreStarts
<1>8. DOMAIN table = 0..(n - 1)
  BY <1>3
<1>9. \A b \in 0..(n - 1) : table[b] = CHOOSE q \in 0..(k - 1) : InRun(c, B, q, b)
  <2> TAKE b \in 0..(n - 1)
  <2>1. table[b] = CHOOSE q \in 0..(k - 1) :
                    /\ SumFunctionOnSet(c, 0..(q - 1)) <= b
                    /\ b < SumFunctionOnSet(c, 0..(q - 1)) + c[q]
    BY <1>3
  <2>2. \A q \in 0..(k - 1) :
           InRun(c, B, q, b) <=>
                    /\ SumFunctionOnSet(c, 0..(q - 1)) <= b
                    /\ b < SumFunctionOnSet(c, 0..(q - 1)) + c[q]
    BY <1>6 DEF InRun
  <2>3. (CHOOSE q \in 0..(k - 1) : InRun(c, B, q, b)) =
        CHOOSE q \in 0..(k - 1) :
                    /\ SumFunctionOnSet(c, 0..(q - 1)) <= b
                    /\ b < SumFunctionOnSet(c, 0..(q - 1)) + c[q]
    BY <2>2
  <2> QED
    BY <2>1, <2>3
<1>10. /\ \A b \in 0..(n - 1) : table[b] \in 0..(k - 1)
       /\ \A q \in 0..(k - 1) : CountOf(table, q) = c[q]
  <2>1. \A b \in 0..(B[k] - 1) : table[b] = CHOOSE q \in 0..(k - 1) : InRun(c, B, q, b)
    BY <1>5, <1>9
  <2>2. /\ \A b \in 0..(B[k] - 1) : table[b] \in 0..(k - 1)
        /\ \A q \in 0..(k - 1) :
              Cardinality({b \in 0..(B[k] - 1) : table[b] = q}) = c[q]
    BY <1>0, <1>7, <2>1, RunsOfBuckets
  <2> QED
    BY <1>5, <1>8, <2>2 DEF CountOf
<1>11. ASSUME k > 2
       PROVE  /\ 2 * (CountOf(table, 0) + CountOf(table, 1)) > n
              /\ CountOf(table, 0) >= CountOf(table, 1)
              /\ \A q, r \in (0..(k - 1)) \ {0, 1} :
                    /\ CountOf(table, q) = CountOf(table, r)
                    /\ CountOf(table, q) <= CountOf(table, 1)
  <2>1. /\ 0 \in 0..(k - 1) /\ 1 \in 0..(k - 1)
        /\ \A q \in (0..(k - 1)) \ {0, 1} : q \in 0..(k - 1) /\ q \in 2..(k - 1)
    BY <1>0, <1>11
  <2> QED
    BY <1>2, <1>10, <1>11, <2>1 DEF HotLead
<1> QED
  BY <1>8, <1>10, <1>11 DEF TableSound, n, k

(* Every table a domain may start with is sound.                           *)
LEMMA TablesSound ==
    ASSUME NEW t, t.num_queues \in Nat \ {0}, t.num_buckets \in Nat \ {0},
           t.initial_rss \in RssInits,
           NEW table \in InitialTables(t.initial_rss, t.num_buckets, t.num_queues)
    PROVE  TableSound(t, table)
  BY ModuloSound, RandomSound, SkewedSound DEF RssInits

-----------------------------------------------------------------------------
(* Rows of measurements in the order of their sizes.                       *)
Rows(rows) ==
    /\ rows \in Seq([size : Nat, rtt : Nat])
    /\ rows # << >>
    /\ \A i, j \in DOMAIN rows : i < j => rows[i].size < rows[j].size

LEMMA RowsTyped ==
    ASSUME NEW rows, Rows(rows)
    PROVE  /\ Len(rows) \in Nat \ {0} /\ DOMAIN rows = 1..Len(rows)
           /\ \A i \in 1..Len(rows) : rows[i].size \in Nat /\ rows[i].rtt \in Nat
           /\ \A i, j \in 1..Len(rows) : i < j => rows[i].size < rows[j].size
<1>1. Len(rows) \in Nat \ {0} /\ DOMAIN rows = 1..Len(rows)
  BY DEF Rows
<1>2. \A i \in 1..Len(rows) : rows[i] \in [size : Nat, rtt : Nat]
  <2> DEFINE R == [size : Nat, rtt : Nat]
  <2>1. rows \in Seq(R)
    BY DEF Rows
  <2> HIDE DEF R
  <2>2. \A i \in 1..Len(rows) : rows[i] \in R
    BY <2>1
  <2> QED
    BY <2>2 DEF R
<1> QED
  BY <1>1, <1>2 DEF Rows

LEMMA LeftRow ==
    ASSUME NEW rows, Rows(rows), NEW s \in Nat
    PROVE  LET i == Left(rows, s)
           IN  /\ i \in 1..Len(rows)
               /\ i = 1 \/ rows[i].size <= s
               /\ \A j \in 1..Len(rows) : j > i => rows[j].size > s
<1> DEFINE n == Len(rows)
           T == {1} \cup {i \in DOMAIN rows : rows[i].size <= s}
<1>1. /\ n \in Nat \ {0} /\ DOMAIN rows = 1..n
      /\ \A i \in 1..n : rows[i].size \in Nat
  BY RowsTyped
<1> HIDE DEF n
<1>2. T \in SUBSET (1..n) /\ T # {} /\ T \in SUBSET Int
  BY <1>1
<1>3. PICK x \in T : \A y \in T : x >= y
  BY <1>1, <1>2, GreatestElement
<1>4. Left(rows, s) = x
  <2> HIDE DEF T
  <2>1. Max(T) = x
    BY <1>2, <1>3, GreatestIs
  <2> QED
    BY <2>1 DEF Left, T
<1>5. x \in 1..n /\ (x = 1 \/ rows[x].size <= s)
  BY <1>1, <1>2
<1>6. \A j \in 1..n : j > x => rows[j].size > s
  <2> SUFFICES ASSUME NEW j \in 1..n, j > x, ~(rows[j].size > s) PROVE FALSE
    OBVIOUS
  <2>1. rows[j].size <= s
    BY <1>1
  <2>2. j \in T
    BY <1>1, <2>1
  <2>3. x >= j
    BY <1>3, <2>2
  <2> QED
    BY <1>5, <2>3
<1> QED
  BY <1>4, <1>5, <1>6 DEF n

LEMMA LeftOfMeasured ==
    ASSUME NEW rows, Rows(rows), NEW i \in DOMAIN rows
    PROVE  Left(rows, rows[i].size) = i
<1> DEFINE n == Len(rows)
           j == Left(rows, rows[i].size)
<1>1. /\ n \in Nat \ {0} /\ DOMAIN rows = 1..n
      /\ \A k \in 1..n : rows[k].size \in Nat
      /\ \A k, l \in 1..n : k < l => rows[k].size < rows[l].size
  BY RowsTyped
<1>2. rows[i].size \in Nat /\ i \in 1..n
  BY <1>1
<1>3. /\ j \in 1..n /\ (j = 1 \/ rows[j].size <= rows[i].size)
      /\ \A k \in 1..n : k > j => rows[k].size > rows[i].size
  BY <1>2, LeftRow
<1> HIDE DEF n, j
<1>4. ~(j < i)
  BY <1>2, <1>3
<1>5. ~(i < j)
  <2> SUFFICES ASSUME i < j PROVE FALSE
    OBVIOUS
  <2>1. j # 1
    BY <1>2
  <2>2. rows[i].size < rows[j].size /\ rows[j].size \in Nat
    BY <1>1, <1>2, <1>3
  <2> QED
    BY <1>2, <1>3, <2>1, <2>2
<1> QED
  BY <1>2, <1>3, <1>4, <1>5 DEF j

LEMMA Interpolated ==
    ASSUME NEW rows, Rows(rows), NEW s \in Nat
    PROVE  LET i == Left(rows, s)
               l == rows[i]
               r == rows[i + 1]
           IN  \/ /\ s <= l.size \/ i = Len(rows)
                  /\ interp(rows, s) = [num |-> l.rtt, den |-> 1]
               \/ /\ s > l.size /\ i < Len(rows) /\ s < r.size
                  /\ interp(rows, s).num = l.rtt * (r.size - s) + r.rtt * (s - l.size)
                  /\ interp(rows, s).den = r.size - l.size
<1> DEFINE i == Left(rows, s)
           n == Len(rows)
<1>1. /\ i \in 1..n
      /\ \A j \in 1..n : j > i => rows[j].size > s
  BY LeftRow
<1>2. n \in Nat /\ \A j \in 1..n : rows[j].size \in Nat
  BY RowsTyped
<1>3. CASE s <= rows[i].size \/ i = n
  <2>1. interp(rows, s) = [num |-> rows[i].rtt, den |-> 1]
    BY <1>3 DEF interp, Whole
  <2> QED
    BY <1>3, <2>1
<1>4. CASE ~(s <= rows[i].size \/ i = n)
  <2> DEFINE l == rows[i]
             r == rows[i + 1]
             I == interp(rows, s)
  <2>1. I = [num |-> l.rtt * (r.size - s) + r.rtt * (s - l.size),
             den |-> r.size - l.size]
    BY <1>4 DEF interp
  <2>2. /\ I.num = l.rtt * (r.size - s) + r.rtt * (s - l.size)
        /\ I.den = r.size - l.size
    <3> HIDE DEF I, l, r
    <3> QED
      BY <2>1
  <2>3. i < n /\ i + 1 \in 1..n /\ i + 1 > i
    <3> HIDE DEF i, n
    <3> QED
      BY <1>1, <1>2, <1>4
  <2>4. r.size > s /\ r.size \in Nat
    BY <1>1, <1>2, <2>3
  <2>5. s > l.size /\ s < r.size
    <3>1. l.size \in Nat
      BY <1>1, <1>2
    <3> HIDE DEF l, r
    <3>2. ~(s <= l.size)
      BY <1>4 DEF l
    <3> QED
      BY <2>4, <3>1, <3>2
  <2> HIDE DEF I, l, r
  <2>6. /\ s > l.size /\ i < Len(rows) /\ s < r.size
        /\ interp(rows, s).num = l.rtt * (r.size - s) + r.rtt * (s - l.size)
        /\ interp(rows, s).den = r.size - l.size
    BY <2>2, <2>3, <2>5 DEF I
  <2> QED
    BY <2>6 DEF l, r
<1> QED
  BY <1>3, <1>4

(* What interpolation between two values needs.                            *)
LEMMA Between ==
    ASSUME NEW x \in Nat, NEW y \in Nat, x <= y, NEW a \in Nat, NEW b \in Nat
    PROVE  /\ x * a + y * b \in Nat
           /\ x * (a + b) <= x * a + y * b
           /\ x * a + y * b <= y * (a + b)
           /\ a >= 1 => x * a + y * b <= x * (a - 1) + y * (b + 1)
<1>1. x * a \in Nat /\ y * b \in Nat /\ x * b \in Nat /\ y * a \in Nat
  OBVIOUS
<1>2. x * a <= y * a /\ x * b <= y * b
  BY TimesInt
<1>3. x * (a + b) = x * a + x * b /\ y * (a + b) = y * a + y * b
  OBVIOUS
<1>4. x * (a - 1) = x * a - x /\ y * (b + 1) = y * b + y
  OBVIOUS
<1> QED
  BY <1>1, <1>2, <1>3, <1>4

(* The line through the measurements is a ratio, and does not fall if they *)
(* do not.                                                                 *)
LEMMA InterpolatedRatio ==
    ASSUME NEW rows, Rows(rows), NEW s \in Nat
    PROVE  interp(rows, s).num \in Nat /\ interp(rows, s).den \in Nat \ {0}
<1> DEFINE i == Left(rows, s)
           n == Len(rows)
           l == rows[i]
           r == rows[i + 1]
           I == interp(rows, s)
<1>1. /\ i \in 1..n /\ n \in Nat
      /\ \A j \in 1..n : rows[j].size \in Nat /\ rows[j].rtt \in Nat
  BY LeftRow, RowsTyped
<1>2. \/ I = [num |-> l.rtt, den |-> 1]
      \/ /\ s > l.size /\ i < n /\ s < r.size
         /\ I.num = l.rtt * (r.size - s) + r.rtt * (s - l.size)
         /\ I.den = r.size - l.size
  BY Interpolated
<1>3. l.rtt \in Nat /\ l.size \in Nat
  BY <1>1
<1>4. i < n => r.rtt \in Nat /\ r.size \in Nat
  <2>1. i < n => i + 1 \in 1..n
    BY <1>1
  <2> QED
    BY <1>1, <2>1
<1> HIDE DEF i, n, l, r, I
<1>5. CASE I = [num |-> l.rtt, den |-> 1]
  BY <1>3, <1>5 DEF I
<1>6. CASE /\ s > l.size /\ i < n /\ s < r.size
           /\ I.num = l.rtt * (r.size - s) + r.rtt * (s - l.size)
           /\ I.den = r.size - l.size
  <2>1. r.size - s \in Nat /\ s - l.size \in Nat /\ r.size - l.size \in Nat \ {0}
    BY <1>3, <1>4, <1>6
  <2>2. l.rtt * (r.size - s) \in Nat /\ r.rtt * (s - l.size) \in Nat
    BY <1>3, <1>4, <1>6, <2>1
  <2> QED
    BY <1>6, <2>1, <2>2 DEF I
<1> QED
  BY <1>2, <1>5, <1>6

LEMMA InterpolationGrows ==
    ASSUME NEW rows, Rows(rows), Grows(rows), NEW s \in Nat
    PROVE  interp(rows, s).num * interp(rows, s + 1).den
              <= interp(rows, s + 1).num * interp(rows, s).den
<1> DEFINE n == Len(rows)
           i == Left(rows, s)
           j == Left(rows, s + 1)
           I == interp(rows, s)
           J == interp(rows, s + 1)
           Sz(k) == rows[k].size
           Rt(k) == rows[k].rtt
<1>1. /\ n \in Nat \ {0}
      /\ \A k \in 1..n : Sz(k) \in Nat /\ Rt(k) \in Nat
      /\ \A k, m \in 1..n : k < m => Sz(k) < Sz(m)
      /\ \A k, m \in 1..n : k <= m => Rt(k) <= Rt(m)
  BY RowsTyped DEF Grows
<1>2. s + 1 \in Nat
  OBVIOUS
<1>3. /\ i \in 1..n /\ (i = 1 \/ Sz(i) <= s)
      /\ \A k \in 1..n : k > i => Sz(k) > s
  BY LeftRow
<1>4. /\ j \in 1..n /\ (j = 1 \/ Sz(j) <= s + 1)
      /\ \A k \in 1..n : k > j => Sz(k) > s + 1
  BY <1>2, LeftRow
<1>5. \/ (s <= Sz(i) \/ i = n) /\ I = [num |-> Rt(i), den |-> 1]
      \/ /\ s > Sz(i) /\ i < n /\ s < Sz(i + 1)
         /\ I.num = Rt(i) * (Sz(i + 1) - s) + Rt(i + 1) * (s - Sz(i))
         /\ I.den = Sz(i + 1) - Sz(i)
  BY Interpolated
<1>6. \/ (s + 1 <= Sz(j) \/ j = n) /\ J = [num |-> Rt(j), den |-> 1]
      \/ /\ s + 1 > Sz(j) /\ j < n /\ s + 1 < Sz(j + 1)
         /\ J.num = Rt(j) * (Sz(j + 1) - (s + 1)) + Rt(j + 1) * ((s + 1) - Sz(j))
         /\ J.den = Sz(j + 1) - Sz(j)
  BY <1>2, Interpolated
<1> HIDE DEF n, i, j, I, J, Sz, Rt
<1>7. j = i \/ j = i + 1
  <2>1. ~(j < i)
    <3> SUFFICES ASSUME j < i PROVE FALSE
      OBVIOUS
    <3>1. i # 1 /\ Sz(i) \in Nat /\ Sz(i) > s + 1
      BY <1>1, <1>3, <1>4
    <3> QED
      BY <1>3, <3>1
  <2>2. ~(j > i + 1)
    <3> SUFFICES ASSUME j > i + 1 PROVE FALSE
      OBVIOUS
    <3>1. i + 1 \in 1..n /\ i + 1 > i /\ j # 1
      BY <1>1, <1>3, <1>4
    <3>2. Sz(i + 1) > s /\ Sz(i + 1) < Sz(j) /\ Sz(j) <= s + 1
      BY <1>1, <1>3, <1>4, <3>1
    <3>3. Sz(i + 1) \in Nat /\ Sz(j) \in Nat
      BY <1>1, <1>4, <3>1
    <3> QED
      BY <3>2, <3>3
  <2> QED
    BY <1>3, <1>4, <2>1, <2>2
<1>8. /\ Sz(i) \in Nat /\ Rt(i) \in Nat
      /\ i < n => /\ Sz(i + 1) \in Nat /\ Rt(i + 1) \in Nat
                  /\ Sz(i) < Sz(i + 1) /\ Rt(i) <= Rt(i + 1) /\ Sz(i + 1) > s
  <2>1. i < n => i + 1 \in 1..n /\ i < i + 1 /\ i <= i + 1 /\ i + 1 > i
    BY <1>1, <1>3
  <2> QED
    BY <1>1, <1>3, <2>1
<1>9. CASE j = i
  <2>1. CASE I = [num |-> Rt(i), den |-> 1] /\ J = [num |-> Rt(i), den |-> 1]
    BY <1>8, <2>1 DEF I, J
  <2>2. CASE /\ (s <= Sz(i) \/ i = n) /\ I = [num |-> Rt(i), den |-> 1]
             /\ s + 1 > Sz(i) /\ i < n /\ s + 1 < Sz(i + 1)
             /\ J.num = Rt(i) * (Sz(i + 1) - (s + 1)) + Rt(i + 1) * ((s + 1) - Sz(i))
             /\ J.den = Sz(i + 1) - Sz(i)
    <3> DEFINE a == Sz(i + 1) - (s + 1)
               b == (s + 1) - Sz(i)
    <3>1. a \in Nat /\ b \in Nat /\ a + b = Sz(i + 1) - Sz(i)
      BY <1>1, <1>3, <1>8, <2>2
    <3>2. J.num = Rt(i) * a + Rt(i + 1) * b /\ J.den = a + b /\ I.num = Rt(i) /\ I.den = 1
      BY <2>2, <3>1
    <3> HIDE DEF a, b
    <3>3. Rt(i) * (a + b) <= Rt(i) * a + Rt(i + 1) * b /\ Rt(i) * a + Rt(i + 1) * b \in Nat
      BY <1>8, <2>2, <3>1, Between
    <3>4. (Rt(i) * a + Rt(i + 1) * b) * 1 = Rt(i) * a + Rt(i + 1) * b
      BY <3>3
    <3>5. I.num * J.den <= J.num * I.den
      BY <3>2, <3>3, <3>4
    <3> QED
      BY <3>5 DEF I, J
  <2>3. CASE /\ s > Sz(i) /\ i < n /\ s < Sz(i + 1)
             /\ I.num = Rt(i) * (Sz(i + 1) - s) + Rt(i + 1) * (s - Sz(i))
             /\ I.den = Sz(i + 1) - Sz(i)
             /\ s + 1 > Sz(i) /\ s + 1 < Sz(i + 1)
             /\ J.num = Rt(i) * (Sz(i + 1) - (s + 1)) + Rt(i + 1) * ((s + 1) - Sz(i))
             /\ J.den = Sz(i + 1) - Sz(i)
    <3> DEFINE a == Sz(i + 1) - s
               b == s - Sz(i)
               d == Sz(i + 1) - Sz(i)
    <3>1. /\ a \in Nat /\ b \in Nat /\ a >= 1 /\ d \in Nat
          /\ a - 1 = Sz(i + 1) - (s + 1) /\ b + 1 = (s + 1) - Sz(i)
      BY <1>8, <2>3
    <3>2. /\ I.num = Rt(i) * a + Rt(i + 1) * b /\ I.den = d
          /\ J.num = Rt(i) * (a - 1) + Rt(i + 1) * (b + 1) /\ J.den = d
      BY <2>3, <3>1
    <3> HIDE DEF a, b, d
    <3>3. I.num <= J.num /\ I.num \in Nat /\ J.num \in Nat
      <4>1. /\ Rt(i) * a + Rt(i + 1) * b <= Rt(i) * (a - 1) + Rt(i + 1) * (b + 1)
            /\ Rt(i) * a + Rt(i + 1) * b \in Nat
        BY <1>8, <2>3, <3>1, Between
      <4>2. a - 1 \in Nat /\ b + 1 \in Nat
        BY <3>1
      <4>3. Rt(i) * (a - 1) + Rt(i + 1) * (b + 1) \in Nat
        BY <1>8, <2>3, <4>2, Between
      <4> QED
        BY <3>2, <4>1, <4>3
    <3>4. I.num * d <= J.num * d
      BY <3>1, <3>3, TimesInt
    <3> QED
      BY <3>2, <3>4 DEF I, J
  <2>4. ~(s > Sz(i) /\ i < n /\ (s + 1 <= Sz(i) \/ i = n))
    BY <1>3, <1>8
  <2> QED
    BY <1>5, <1>6, <1>9, <2>1, <2>2, <2>3, <2>4
<1>10. CASE j = i + 1
  <2>1. i < n /\ Sz(j) = s + 1
    <3>1. i < n /\ j # 1
      BY <1>1, <1>3, <1>4, <1>10
    <3> QED
      BY <1>4, <1>8, <1>10, <3>1
  <2>2. J = [num |-> Rt(i + 1), den |-> 1]
    <3>1. ~(s + 1 > Sz(j))
      BY <2>1
    <3> QED
      BY <1>6, <1>10, <3>1
  <2>3. J.num = Rt(i + 1) /\ J.den = 1
    BY <2>2
  <2>4. CASE I = [num |-> Rt(i), den |-> 1]
    <3>1. I.num = Rt(i) /\ I.den = 1
      BY <2>4
    <3>2. I.num * J.den <= J.num * I.den
      BY <1>8, <2>1, <2>3, <3>1
    <3> QED
      BY <3>2 DEF I, J
  <2>5. CASE /\ s > Sz(i) /\ i < n /\ s < Sz(i + 1)
             /\ I.num = Rt(i) * (Sz(i + 1) - s) + Rt(i + 1) * (s - Sz(i))
             /\ I.den = Sz(i + 1) - Sz(i)
    <3> DEFINE a == Sz(i + 1) - s
               b == s - Sz(i)
    <3>1. a \in Nat /\ b \in Nat /\ a + b = Sz(i + 1) - Sz(i)
      <4>1. /\ s > Sz(i) /\ s < Sz(i + 1)
            /\ Sz(i) \in Nat /\ Sz(i + 1) \in Nat
        BY <1>8, <2>5
      <4> QED
        BY <4>1
    <3>2. I.num = Rt(i) * a + Rt(i + 1) * b /\ I.den = a + b
      BY <2>5, <3>1
    <3> HIDE DEF a, b
    <3>3. Rt(i) * a + Rt(i + 1) * b <= Rt(i + 1) * (a + b) /\ Rt(i) * a + Rt(i + 1) * b \in Nat
      BY <1>8, <2>1, <3>1, Between
    <3>4. (Rt(i) * a + Rt(i + 1) * b) * 1 = Rt(i) * a + Rt(i + 1) * b
      BY <3>3
    <3>5. I.num * J.den <= J.num * I.den
      BY <2>3, <3>2, <3>3, <3>4
    <3> QED
      BY <3>5 DEF I, J
  <2> QED
    BY <1>5, <2>4, <2>5
<1> QED
  BY <1>7, <1>9, <1>10

(* Ratios keep their order when the same is taken from both, and when both *)
(* are at least 100.                                                       *)
LEMMA AtLeastHundred ==
    ASSUME NEW p \in Nat, NEW q \in Nat, NEW d \in Nat \ {0}, NEW e \in Nat \ {0},
           NEW c \in Nat, p * e <= q * d
    PROVE  Max({100 * d, p - d * c}) * e <= Max({100 * e, q - e * c}) * d
<1> DEFINE x == p - d * c
           y == q - e * c
           u == Max({100 * d, x})
           v == Max({100 * e, y})
<1>1. d * c \in Nat /\ e * c \in Nat
  OBVIOUS
<1>2. x \in Int /\ y \in Int /\ 100 * d \in Int /\ 100 * e \in Int
  BY <1>1
<1>3. u = (IF 100 * d >= x THEN 100 * d ELSE x) /\ v = (IF 100 * e >= y THEN 100 * e ELSE y)
  <2> HIDE DEF x, y
  <2> QED
    BY <1>2, MaxOfTwo
<1>4. x * e <= y * d
  <2>1. (p - d * c) * e = p * e - (d * c) * e /\ (q - e * c) * d = q * d - (e * c) * d
    BY <1>1
  <2>2. (d * c) * e = (e * c) * d /\ (d * c) * e \in Nat /\ p * e \in Nat /\ q * d \in Nat
    BY <1>1
  <2> QED
    BY <2>1, <2>2
<1> HIDE DEF x, y, u, v
<1>5. v \in Int /\ v >= 100 * e /\ v >= y
  BY <1>2, <1>3
<1>6. (100 * e) * d <= v * d /\ y * d <= v * d
  BY <1>2, <1>5, TimesInt
<1>7. (100 * d) * e = (100 * e) * d
  OBVIOUS
<1>8. x * e \in Int /\ y * d \in Int /\ v * d \in Int /\ (100 * e) * d \in Int
  BY <1>2, <1>5
<1>9. u = 100 * d \/ u = x
  BY <1>3
<1>10. u * e <= v * d
  <2>1. CASE u = 100 * d
    BY <1>6, <1>7, <2>1
  <2>2. CASE u = x
    BY <1>4, <1>6, <1>8, <2>2
  <2> QED
    BY <1>9, <2>1, <2>2
<1> QED
  BY <1>10 DEF u, v, x, y

Calibrated(h) == h.t_app_base \in Nat /\ h.t_wb \in Nat /\ Rows(h.rtt_table)

LEMMA TransitOf ==
    ASSUME NEW h, Calibrated(h), NEW s \in Nat
    PROVE  /\ t_dma(h, s).den = interp(h.rtt_table, s).den
           /\ t_dma(h, s).num =
                Max({100 * interp(h.rtt_table, s).den,
                     interp(h.rtt_table, s).num
                        - interp(h.rtt_table, s).den * (h.t_app_base + h.t_wb)})
<1> DEFINE I == interp(h.rtt_table, s)
           x == Max({100 * I.den, I.num - I.den * (h.t_app_base + h.t_wb)})
<1>1. t_dma(h, s) = [I EXCEPT !.num = x]
  BY DEF t_dma
<1>2. \E num, den : I = [num |-> num, den |-> den]
  BY DEF interp, Whole
<1> HIDE DEF I, x
<1>3. t_dma(h, s).den = I.den /\ t_dma(h, s).num = x
  BY <1>1, <1>2
<1> QED
  BY <1>3 DEF I, x

LEMMA MeasuredAgain ==
    ASSUME NEW h, Calibrated(h), NEW i \in DOMAIN h.rtt_table,
           h.rtt_table[i].rtt - h.t_app_base - h.t_wb >= 100
    PROVE  LET t == t_dma(h, h.rtt_table[i].size)
           IN  RoundTrip(h, t) = t.den * 10 * h.rtt_table[i].rtt
<1> DEFINE rows == h.rtt_table
           s == rows[i].size
           r == rows[i].rtt
           b == h.t_app_base
           w == h.t_wb
           t == t_dma(h, s)
<1>1. s \in Nat /\ r \in Nat /\ b \in Nat /\ w \in Nat /\ Rows(rows)
  BY RowsTyped DEF Calibrated
<1>2. Left(rows, s) = i
  BY <1>1, LeftOfMeasured
<1>3. s <= rows[i].size
  BY <1>1
<1>4. interp(rows, s) = [num |-> r, den |-> 1]
  <2>1. \/ interp(rows, s) = [num |-> rows[i].rtt, den |-> 1]
        \/ s > rows[i].size
    BY <1>1, <1>2, Interpolated
  <2> QED
    BY <1>1, <1>3, <2>1
<1>5. interp(rows, s).num = r /\ interp(rows, s).den = 1
  BY <1>4
<1>6. /\ t.den = interp(rows, s).den
      /\ t.num = Max({100 * interp(rows, s).den,
                      interp(rows, s).num - interp(rows, s).den * (b + w)})
  BY <1>1, TransitOf
<1>7. _t_app(b, 0, 1, 0) = 10 * b
  <2> HIDE DEF b
  <2>1. b \in Int /\ 10 * (b + 0) \in Int /\ (b >= 10 * (b + 0) => b = 10 * (b + 0))
    BY <1>1
  <2>2. Max({b, 10 * (b + 0)}) = 10 * (b + 0)
    BY <2>1, MaxOfTwo
  <2> QED
    BY <1>1, <2>2 DEF _t_app
<1>8. RoundTrip(h, t) = t.num * 10 + t.den * (_t_app(b, 0, 1, 0) + 10 * w)
  BY DEF RoundTrip
<1>9. r - b - w >= 100
  OBVIOUS
<1> HIDE DEF rows, s, r, b, w, t
<1>10. t.den = 1 /\ t.num = r - b - w
  <2>1. t.num = Max({100, r - 1 * (b + w)})
    BY <1>5, <1>6
  <2> DEFINE x == r - 1 * (b + w)
  <2>2. x \in Int /\ x = r - b - w /\ 100 \in Int
    BY <1>1
  <2> HIDE DEF x
  <2>3. Max({100, x}) = IF 100 >= x THEN 100 ELSE x
    BY <2>2, MaxOfTwo
  <2> QED
    BY <1>5, <1>6, <1>9, <2>1, <2>2, <2>3 DEF x
<1>11. RoundTrip(h, t) = t.den * 10 * r
  BY <1>1, <1>7, <1>8, <1>10
<1> QED
  BY <1>11 DEF t, s, r, rows

(* The transits of every host are calibrated.                              *)
LEMMA HostCalibrated ==
    ASSUME NEW h, Calibrated(h)
    PROVE  TransitsCalibrated(h)
<1>1. ASSUME Grows(h.rtt_table), NEW s \in Nat
      PROVE  t_dma(h, s).num * t_dma(h, s + 1).den <= t_dma(h, s + 1).num * t_dma(h, s).den
  <2> DEFINE I == interp(h.rtt_table, s)
             J == interp(h.rtt_table, s + 1)
             c == h.t_app_base + h.t_wb
  <2>1. Rows(h.rtt_table) /\ c \in Nat /\ s + 1 \in Nat
    BY DEF Calibrated
  <2>2. I.num \in Nat /\ I.den \in Nat \ {0} /\ J.num \in Nat /\ J.den \in Nat \ {0}
    BY <2>1, InterpolatedRatio
  <2>3. I.num * J.den <= J.num * I.den
    BY <1>1, <2>1, InterpolationGrows
  <2>4. /\ t_dma(h, s).den = I.den /\ t_dma(h, s).num = Max({100 * I.den, I.num - I.den * c})
        /\ t_dma(h, s + 1).den = J.den
        /\ t_dma(h, s + 1).num = Max({100 * J.den, J.num - J.den * c})
    BY <2>1, TransitOf
  <2> HIDE DEF I, J, c
  <2>5. Max({100 * I.den, I.num - I.den * c}) * J.den
           <= Max({100 * J.den, J.num - J.den * c}) * I.den
    BY <2>1, <2>2, <2>3, AtLeastHundred
  <2> QED
    BY <2>4, <2>5
<1>2. \A s \in 0..Max(Measured(h.rtt_table)) : s \in Nat
  OBVIOUS
<1> QED
  BY <1>1, <1>2, MeasuredAgain DEF TransitsCalibrated

-----------------------------------------------------------------------------
(* A domain is laid out once its turn has come.                            *)
LaidOut(d) ==
    LET t == config.topology[d]
    IN  /\ NamesKnown(t)
        /\ rss[d] \in InitialTables(t.initial_rss, t.num_buckets, t.num_queues)
        /\ q2c[d] = build_queue_to_core(t.num_queues, t.num_cores, t.queue_to_core_map)
        /\ share[d] = core_share_factor(q2c[d])

Built == CASE phase = "stateful" -> {"stateless"}
           [] phase \in {"arbiter", "run"} -> Egress
           [] OTHER -> {}

LayoutInv ==
    /\ config \in Configs
    /\ DOMAIN rss = Egress /\ DOMAIN q2c = Egress /\ DOMAIN share = Egress
    /\ \A d \in Built : LaidOut(d)

LEMMA LayoutInit == Init => LayoutInv
<1> SUFFICES ASSUME Init PROVE LayoutInv
  OBVIOUS
<1>1. Built = {}
  BY DEF Init, Built
<1> QED
  BY <1>1 DEF Init, LayoutInv

LEMMA LayoutStep ==
    ASSUME LayoutInv, [Next]_vars
    PROVE  LayoutInv'
<1>1. ASSUME UNCHANGED <<config, layoutVars>>, Built' \subseteq Built
      PROVE  LayoutInv'
  <2>1. config' = config /\ rss' = rss /\ q2c' = q2c /\ share' = share
    BY <1>1 DEF layoutVars
  <2>2. \A d \in Built : LaidOut(d)'
    BY <2>1 DEF LayoutInv, LaidOut
  <2> QED
    BY <1>1, <2>1, <2>2 DEF LayoutInv
<1>2. CASE CheckConfig
  <2>1. Built' = {}
    BY <1>2 DEF CheckConfig, Built
  <2> QED
    BY <1>1, <1>2, <2>1 DEF CheckConfig
<1>3. ASSUME NEW d \in Egress, _init_domain(d) PROVE LayoutInv'
  <2> DEFINE t == config.topology[d]
  <2>1. PICK table \in InitialTables(t.initial_rss, t.num_buckets, t.num_queues) :
           rss' = [rss EXCEPT ![d] = table]
    BY <1>3 DEF _init_domain
  <2>2. /\ phase = d /\ NamesKnown(t) /\ config' = config
        /\ q2c' = [q2c EXCEPT ![d] =
                      build_queue_to_core(t.num_queues, t.num_cores, t.queue_to_core_map)]
        /\ share' = [share EXCEPT ![d] = core_share_factor(q2c'[d])]
        /\ phase' = IF d = "stateless" THEN "stateful" ELSE "arbiter"
    BY <1>3 DEF _init_domain
  <2>3. DOMAIN rss' = Egress /\ DOMAIN q2c' = Egress /\ DOMAIN share' = Egress
    BY <2>1, <2>2 DEF LayoutInv
  <2>4. LaidOut(d)'
    <3>1. rss'[d] = table
      BY <2>1 DEF LayoutInv
    <3>2. q2c'[d] = build_queue_to_core(t.num_queues, t.num_cores, t.queue_to_core_map)
      BY <2>2 DEF LayoutInv
    <3>3. share'[d] = core_share_factor(q2c'[d])
      BY <2>2 DEF LayoutInv
    <3> QED
      BY <2>1, <2>2, <3>1, <3>2, <3>3 DEF LaidOut
  <2>5. ASSUME NEW e \in Built, e # d PROVE LaidOut(e)'
    <3>1. rss'[e] = rss[e] /\ q2c'[e] = q2c[e] /\ share'[e] = share[e]
      <4>1. e \in Egress
        BY DEF Built, Egress
      <4> QED
        BY <2>1, <2>2, <2>5, <4>1 DEF LayoutInv
    <3>2. LaidOut(e)
      BY <2>5 DEF LayoutInv
    <3> QED
      BY <2>2, <3>1, <3>2 DEF LaidOut
  <2>6. Built' \subseteq Built \cup {d}
    BY <1>3, <2>2 DEF Built, Egress
  <2>7. config' \in Configs
    BY <2>2 DEF LayoutInv
  <2> QED
    BY <2>3, <2>4, <2>5, <2>6, <2>7 DEF LayoutInv
<1>4. ASSUME NEW d \in Egress, NameUnknown(d) PROVE LayoutInv'
  <2>1. Built' = {}
    BY <1>4 DEF NameUnknown, Built
  <2> QED
    BY <1>1, <1>4, <2>1 DEF NameUnknown
<1>5. CASE MakeArbiter
  <2>1. Built' \subseteq Built
    BY <1>5 DEF MakeArbiter, Built
  <2> QED
    BY <1>1, <1>5, <2>1 DEF MakeArbiter
<1>6. CASE Bin
  <2>1. UNCHANGED <<config, layoutVars>> /\ phase' = phase
    BY <1>6 DEF Bin
  <2>2. Built' = Built
    BY <2>1 DEF Built
  <2> QED
    BY <1>1, <2>1, <2>2
<1>7. CASE UNCHANGED vars
  <2>1. UNCHANGED <<config, layoutVars>> /\ phase' = phase
    BY <1>7 DEF vars
  <2>2. Built' = Built
    BY <2>1 DEF Built
  <2> QED
    BY <1>1, <2>1, <2>2
<1> QED
  BY <1>2, <1>3, <1>4, <1>5, <1>6, <1>7 DEF Next

LEMMA LayoutProvides == LayoutInv => DomainsProvisioned
<1> SUFFICES ASSUME LayoutInv, phase = "run" PROVE DomainsProvisioned
  BY DEF DomainsProvisioned
<1>1. config \in Configs /\ \A d \in Egress : LaidOut(d)
  BY DEF LayoutInv, Built
<1>2. ASSUME NEW d \in Egress
      PROVE  /\ TableSound(config.topology[d], rss[d])
             /\ CoresBalanced(config.topology[d], q2c[d], share[d])
  <2> DEFINE t == config.topology[d]
  <2>1. /\ t.num_queues \in Nat \ {0} /\ t.num_buckets \in Nat \ {0}
        /\ t.num_cores \in Nat \ {0}
    BY <1>1, TopologyAssumption
  <2>2. /\ t.initial_rss \in RssInits
        /\ rss[d] \in InitialTables(t.initial_rss, t.num_buckets, t.num_queues)
        /\ q2c[d] = build_queue_to_core(t.num_queues, t.num_cores, t.queue_to_core_map)
        /\ share[d] = core_share_factor(q2c[d])
    BY <1>1 DEF LaidOut, NamesKnown
  <2> HIDE DEF t
  <2>3. TableSound(t, rss[d])
    BY <2>1, <2>2, TablesSound
  <2>4. CoresBalanced(t, q2c[d], share[d])
    BY <2>1, <2>2, QueuesSpread
  <2> QED
    BY <2>3, <2>4 DEF t
<1>3. Calibrated(config.host)
  BY <1>1, HostAssumption DEF Calibrated, Rows
<1>4. TransitsCalibrated(config.host)
  BY <1>3, HostCalibrated
<1> QED
  BY <1>2, <1>4 DEF DomainsProvisioned

(* Whatever the numbers of queues, buckets and cores and whichever table   *)
(* and map are chosen, a domain starts with a table and cores that are as  *)
(* even, or as skewed, as they are meant to be, and transits that give the *)
(* measured round trips.                                                   *)
THEOREM DomainsAlwaysProvisioned == Spec => []DomainsProvisioned
<1> QED
  BY LayoutInit, LayoutStep, LayoutProvides, PTL DEF Spec

=============================================================================
