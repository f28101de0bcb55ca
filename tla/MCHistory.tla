------------------------------- MODULE MCHistory -------------------------------
(* Two or three peers and a handful of hashes. *)
EXTENDS History

Symmetry == Permutations(Peer)

=============================================================================
