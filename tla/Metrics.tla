------------------------------- MODULE Metrics -------------------------------
(***************************************************************************)
(* The 95th percentile that GET /metrics computes from its window of       *)
(* latencies (utils/metrics.py _latency_stats).                            *)
(***************************************************************************)
EXTENDS Integers

\* The place, from 1, of the value shown as p95 among n sorted samples:
\* max(0, int(n * 0.95) - 1) is an index from 0.
Rank95(n) == IF (95 * n) \div 100 = 0 THEN 1 ELSE (95 * n) \div 100

\* The nearest-rank definition: the first place with at least 95 % of the
\* samples up to it.
NearestRank(n) == CHOOSE k \in 1..n : 100 * k >= 95 * n /\ 100 * (k - 1) < 95 * n

\* Among n samples the figure shown is never above the percentile by nearest
\* rank, and at most one place below it; a number of samples that 20 divides, as
\* it does _MAX_SAMPLES, has exactly that percentile.
PercentileNear(n) ==
    /\ NearestRank(n) - Rank95(n) \in {0, 1}
    /\ n % 20 = 0 => Rank95(n) = NearestRank(n)
=============================================================================
