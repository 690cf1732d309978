---------------------------- MODULE MCFileBlocks ----------------------------
(* The root directory with three entries, a file of one cell and an empty  *)
(* file; two processes.                                                    *)
EXTENDS FileBlocks, TLC

MCInodes == 1..3
MCFileOf == <<2, 3>>
MCLens == <<3, 1, 0>>
MCOps == <<{<<"write", 3>>, <<"trunc", 0>>, <<"open", 0>>, <<"read", 2>>}, {<<"write", 4>>, <<"trunc", 0>>}>>
MCSym == Permutations(Procs)

(* one file, written by both *)
SharedFileOf == <<2>>
SharedOps == <<{<<"write", 1>>}>>
=============================================================================
