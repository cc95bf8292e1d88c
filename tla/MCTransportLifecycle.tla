------------------------ MODULE MCTransportLifecycle ------------------------
(* An instance of TransportLifecycle for TLC.                             *)
EXTENDS TransportLifecycle

(* The extremes of hash(attempt) % 1000: the shortest and the longest     *)
(* wait of every attempt.                                                 *)
JitterExtremes == {0, 999}
=============================================================================
