------------------------------ MODULE MCBcache ------------------------------
(* A few processes, buffers and blocks. *)
EXTENDS Bcache, TLC

Sym == Permutations(Procs) \cup Permutations(Bufs) \cup Permutations(Blocks) \cup Permutations(Data)
=============================================================================
