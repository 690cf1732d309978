------------------------------- MODULE MCPipe -------------------------------
(* A small pipe shared by a few processes. *)
EXTENDS Pipe, TLC

(* Processes are alike, and so are bytes. *)
Sym == Permutations(Procs) \cup Permutations(Byte)
=============================================================================
