---------------------------- MODULE MCChunkStore ----------------------------
(* Instances of ChunkStore for TLC. *)
EXTENDS ChunkStore

=============================================================================
