----------------------------- MODULE MCMetrics -----------------------------
(* Small instances of Metrics for TLC. *)
EXTENDS Metrics, TLC

MCSymmetry == Permutations(Requests) \cup Permutations(Threads)
=============================================================================
