--------------------------- MODULE MCActorReplay ---------------------------
(***************************************************************************)
(* A small instance of ActorReplay.                                        *)
(***************************************************************************)
EXTENDS ActorReplay, TLC

CONSTANTS c1, c2

Assertion(n, m, ch, k, from, to) ==
  [issuer |-> 1, nonce |-> n, message |-> m, challenge |-> ch,
   correlation |-> k, issued |-> from, expires |-> to]

(* The second answers the first's challenge again and may already be in   *)
(* the old database; the third repeats the first's nonce on the other     *)
(* challenge and may outlive that challenge; the fourth answers that      *)
(* challenge in time and repeats the first's correlation id.              *)
First == Assertion(1, 1, c1, 1, 1, 2)
Second == Assertion(2, 2, c1, 2, 1, 2)
Third == Assertion(1, 3, c2, 3, 3, 4)
Fourth == Assertion(4, 4, c2, 1, 2, 3)

MCClaims == {First, Second, Third, Fourth}
OldProofRows == {Second}

(* The callers are interchangeable in every property of the run.          *)
Symmetry == Permutations(Callers)
=============================================================================
