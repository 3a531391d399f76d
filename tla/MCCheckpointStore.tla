--------------------------- MODULE MCCheckpointStore ---------------------------
(***************************************************************************)
(* Small instances of CheckpointStore for TLC.                              *)
(***************************************************************************)
EXTENDS CheckpointStore, TLC

Interchangeable == Permutations(Process) \union Permutations(Scope) \union Permutations(Digest)
=============================================================================
