-------------------------- MODULE MCOperationGate --------------------------
(***************************************************************************)
(* The operation gate for TLC.                                             *)
(***************************************************************************)
EXTENDS OperationGate, TLC

\* Operations, sessions and connections are interchangeable in every safety
\* property; the liveness run does not use this.
Symmetry == Permutations(Ops) \union Permutations(Sessions)
              \union Permutations(Clients)
=============================================================================
