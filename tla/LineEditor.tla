----------------------------- MODULE LineEditor -----------------------------
(* What the console promises: typed characters are edited in the current   *)
(* line only; a line that is complete, or that fills the buffer, goes to   *)
(* the readers, in order and each character once; a read stays within one  *)
(* line.                                                                   *)
EXTENDS Integers, Sequences, SequencesExt

CONSTANTS SIZE, Chars
VARIABLES lines,    \* complete, and not yet read
          edit,     \* the line that is being typed
          log       \* what readers have got

Init == lines = <<>> /\ edit = <<>> /\ log = <<>>

Ends == {"\n", "^D"}

Kill == edit' = <<>> /\ UNCHANGED <<lines, log>>
Erase == edit # <<>> /\ edit' = Front(edit) /\ UNCHANGED <<lines, log>>

Type(c) ==
  /\ Len(lines) + Len(edit) < SIZE
  /\ LET new == Append(edit, c)
     IN IF c \in Ends \/ Len(lines) + Len(new) = SIZE
        THEN lines' = lines \o new /\ edit' = <<>>
        ELSE edit' = new /\ UNCHANGED lines
  /\ UNCHANGED log

Read ==
  \E k \in 1..Len(lines) :
    /\ \A j \in 1..(k - 1) : lines[j] \notin Ends
    /\ log' = log \o SubSeq(lines, 1, k) /\ lines' = SubSeq(lines, k + 1, Len(lines))
    /\ UNCHANGED edit

Next == Kill \/ Erase \/ Read \/ \E c \in Chars : Type(c)
Spec == Init /\ [][Next]_<<lines, edit, log>>
=============================================================================
