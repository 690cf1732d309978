----------------------------- MODULE MCUserMem -----------------------------
(* Two processes on a machine with too few pages for both to grow. *)
EXTENDS UserMem, TLC

MCIncrements == {3, -3}
MCPrograms == {<< [vaddr |-> 0, memsz |-> 3, filesz |-> 2], [vaddr |-> 4, memsz |-> 1, filesz |-> 1] >>, <<>>}

(* one lost page is followed *)
Bound == lost <= 1
=============================================================================
