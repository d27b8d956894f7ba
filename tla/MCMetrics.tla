------------------------------ MODULE MCMetrics ------------------------------
(***************************************************************************)
(* Instances of the metrics: requests to one site, a TTL of two ticks and  *)
(* a collector that comes every tick.                                      *)
(***************************************************************************)
EXTENDS Metrics

CONSTANTS w1, w2, s1

=============================================================================
