------------------------- MODULE MCCheckpointStore -------------------------
(***************************************************************************)
(* Small instances of CheckpointStore.  File names, contents and           *)
(* checkpoint ids are interchangeable.                                     *)
(***************************************************************************)
EXTENDS CheckpointStore, TLC

Symmetry == Permutations(Files) \cup Permutations(Contents)
              \cup Permutations(Checkpoints)
=============================================================================
