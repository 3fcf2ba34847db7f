--------------------------- MODULE MCOrphanedTool ---------------------------
(* A small instance of OrphanedTool for TLC. *)
EXTENDS OrphanedTool

MCBytes == {0, 1}
MCOneChallenge == {<<1>>}
=============================================================================
