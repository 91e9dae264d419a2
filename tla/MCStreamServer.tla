--------------------------- MODULE MCStreamServer ---------------------------
(* StreamServer for TLC: a small set of interchangeable requests. *)
EXTENDS StreamServer, TLC

RequestSymmetry == Permutations(Requests)
=============================================================================
