---------------------------- MODULE MCAllocator ----------------------------
(* TLC instance of NpuAllocator. *)
EXTENDS NpuAllocator, TLC

Symmetry == Permutations(Streams)

=============================================================================
