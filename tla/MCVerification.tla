--------------------------- MODULE MCVerification ---------------------------
(* Small instances of Verification for TLC. *)
EXTENDS Verification, TLC

MCSymmetry == Permutations(Requests) \cup Permutations(Pids)
=============================================================================
