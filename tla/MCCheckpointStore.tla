------------------------- MODULE MCCheckpointStore -------------------------
(***************************************************************************)
(* Checkpoint store instances; publishers are interchangeable.             *)
(***************************************************************************)
EXTENDS CheckpointStore, TLC

Symmetric == Permutations(Publishers)

============================================================================
