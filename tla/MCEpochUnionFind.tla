-------------------------- MODULE MCEpochUnionFind --------------------------
(* Small instances of EpochUnionFind for TLC.                               *)
EXTENDS EpochUnionFind
=============================================================================
