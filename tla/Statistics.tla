----------------------------- MODULE Statistics -----------------------------
(***************************************************************************)
(* The order statistics the two latency tools report: which of the n       *)
(* sorted samples bench_endpoint() of the OSCORE client and report() of    *)
(* coap_latency.py print as the median and as the 95th and 99th            *)
(* percentile.  Both take the sample at position p/100 * (n - 1), rounded; *)
(* they differ in what rounding does with a half, and in the bound that    *)
(* report() puts on the position.  Double arithmetic is as good as exact   *)
(* here: for fewer than 10^5 samples the product of p/100 and n - 1 is a   *)
(* half in doubles whenever it is one in the reals.                        *)
(***************************************************************************)
EXTENDS Integers

Percent == {95, 99}

\* The position below p/100 * (n - 1), and whether that is half way to the next.
Below(p, n) == (p * (n - 1)) \div 100
Tie(p, n)   == (p * (n - 1)) % 100 = 50

\* Mutant: p percent of n, not of n - 1.
lround_of_n(p, n) == (p * n + 50) \div 100

\* C's lround(): a half goes up.
lround(p, n) == (p * (n - 1) + 50) \div 100

\* Python's round(): a half goes to the even neighbour.
round(p, n) ==
    IF Tie(p, n) /\ Below(p, n) % 2 = 0 THEN Below(p, n) ELSE lround(p, n)

\* bench_endpoint(): rtts[lround(p/100 * (n - 1))], with no bound.
bench_position(p, n) == lround(p, n)

\* report(): s[min(n - 1, round(p/100 * (n - 1)))].
report_position(p, n) == IF round(p, n) < n - 1 THEN round(p, n) ELSE n - 1

\* Mutant: an even number of samples is treated like an odd one.
bench_median_upper(n) == {n \div 2}

\* bench_endpoint(): the mean of the samples at these positions.
bench_median(n) == IF n % 2 = 1 THEN {n \div 2} ELSE {n \div 2 - 1, n \div 2}

-----------------------------------------------------------------------------
Distance(a, b) == IF a < b THEN b - a ELSE a - b

\* k is one of the n positions, and none is nearer to p percent of the way.
NearestRank(k, p, n) ==
    /\ k \in 0..(n - 1)
    /\ \A j \in 0..(n - 1) : Distance(100 * k, p * (n - 1)) <= Distance(100 * j, p * (n - 1))

=============================================================================
