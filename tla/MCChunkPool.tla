---------------------------- MODULE MCChunkPool ----------------------------
(* ChunkPool for TLC.                                                      *)
EXTENDS ChunkPool, TLC

Symmetry == Permutations(Conn)
=============================================================================
