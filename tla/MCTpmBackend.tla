---------------------------- MODULE MCTpmBackend ----------------------------
(* Small instances of TpmBackend for TLC. *)
EXTENDS TpmBackend, TLC

\* Two challenges with the same zero-padded REPORTDATA.
MCBytes == {0, 1}
MCChallenges == {<<1>>, <<1, 0>>}

MCSymmetry == Permutations(Requests) \cup Permutations(Digests) \cup Permutations(Keys)
=============================================================================
