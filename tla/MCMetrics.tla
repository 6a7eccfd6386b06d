------------------------------ MODULE MCMetrics ------------------------------
(* Instances of Metrics for TLC. *)
EXTENDS Metrics, TLC

CONSTANTS r1, r2

MCRequests == {r1, r2}
Sym == Permutations(MCRequests)

(* The counters that are divided by one another, one code for all.           *)
MCScraped == {"cache_hit", "cache_miss", "orders_success", "orders_not_found",
              "http_404"}
=============================================================================
