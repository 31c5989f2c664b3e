------------------------ MODULE MCAccumulatorHistory ------------------------
(* A small instance of AccumulatorHistory for TLC. *)
EXTENDS AccumulatorHistory, TLC

CONSTANTS d1, d2, d3, r1, r2

(* Deeds and receipts are interchangeable identities. *)
Symmetry == Permutations({d1, d2, d3}) \cup Permutations({r1, r2})
=============================================================================
