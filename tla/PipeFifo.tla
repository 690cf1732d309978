------------------------------ MODULE PipeFifo ------------------------------
(***************************************************************************)
(* What a pipe promises: a first-in first-out queue of at most Cap bytes   *)
(* with two ends, each of which can be closed once.                        *)
(***************************************************************************)
EXTENDS Naturals, Sequences

CONSTANTS Cap, Byte

VARIABLES q,      \* the bytes in the pipe, oldest first
          last,   \* the byte read last
          rend,   \* the read end is open
          wend    \* the write end is open

Init == q = <<>> /\ last \in Byte /\ ~rend /\ ~wend

Open == ~rend /\ ~wend /\ rend' /\ wend' /\ q' = <<>> /\ UNCHANGED last

(* Bytes go in only while somebody can read them. *)
Put(b) ==
  /\ rend /\ wend /\ Len(q) < Cap
  /\ q' = Append(q, b)
  /\ UNCHANGED <<last, rend, wend>>

(* What was written before the write end was closed can still be read. *)
Get ==
  /\ rend /\ q # <<>>
  /\ last' = Head(q) /\ q' = Tail(q)
  /\ UNCHANGED <<rend, wend>>

CloseRead == rend /\ ~rend' /\ UNCHANGED <<q, last, wend>>
CloseWrite == wend /\ ~wend' /\ UNCHANGED <<q, last, rend>>

Next == Open \/ (\E b \in Byte : Put(b)) \/ Get \/ CloseRead \/ CloseWrite

Spec == Init /\ [][Next]_<<q, last, rend, wend>>
=============================================================================
