------------------------------ MODULE RssTable ------------------------------
(***************************************************************************)
(* The table a domain starts with, from buckets 0 .. n-1 to queues         *)
(* 0 .. k-1 (RSSIndirectionTable of src/src/rss.py).                       *)
(***************************************************************************)
EXTENDS Integers, FiniteSets, FiniteSetsExt, Functions

RssInits == {"modulo", "random", "skewed"}

(* num / den rounded, with a half to the even neighbour (np.round), and    *)
(* with a half down: the tail's weights lie just below 1/5 in binary.      *)
Round(num, den) ==
    LET q == num \div den
        r == 2 * (num % den)
    IN  IF r > den \/ (r = den /\ q % 2 = 1) THEN q + 1 ELSE q

RoundBelow(num, den) ==
    IF 2 * (num % den) > den THEN num \div den + 1 ELSE num \div den

(* np.round(_skewed_weights(k) * n): two hot queues and an even tail.      *)
_skewed_weights(n, k) ==
    LET hot == IF k = 2 THEN 7 ELSE 5
    IN  [q \in 0..(k - 1) |->
            IF k = 1 THEN n
            ELSE IF q = 0 THEN Round(hot * n, 10)
            ELSE IF q = 1 THEN Round(3 * n, 10)
            ELSE RoundBelow(2 * n, 10 * (k - 2))]

SumCounts(c) == FoldFunction(+, 0, c)

argmax(c) == Min({q \in DOMAIN c : \A r \in DOMAIN c : c[r] <= c[q]})

(* The counts of the queues, corrected until they sum to n.                *)
(* Mutant: only missing buckets are made up for.                           *)
Corrected_Up(c, n) == [c EXCEPT ![argmax(c)] = @ + Max({0, n - SumCounts(c)})]

Corrected(c, n) ==
    LET diff == n - SumCounts(c)
        less[i \in 0..Max({0, -diff})] ==
            IF i = 0 THEN c ELSE [less[i - 1] EXCEPT ![argmax(less[i - 1])] = @ - 1]
    IN  IF diff > 0 THEN [c EXCEPT ![argmax(c)] = @ + diff] ELSE less[-diff]

SkewedCounts(n, k) == Corrected(_skewed_weights(n, k), n)

(* A run of buckets per queue.                                             *)
_skewed_table(n, k) ==
    LET c == SkewedCounts(n, k)
        Below(q) == FoldFunctionOnSet(+, 0, c, 0..(q - 1))
    IN  [b \in 0..(n - 1) |->
            CHOOSE q \in 0..(k - 1) : Below(q) <= b /\ b < Below(q) + c[q]]

(* The tables a domain may start with.                                     *)
InitialTables(init, n, k) ==
    CASE init = "modulo" -> {[b \in 0..(n - 1) |-> b % k]}
      [] init = "random" -> [0..(n - 1) -> 0..(k - 1)]
      [] init = "skewed" -> {_skewed_table(n, k)}
=============================================================================
