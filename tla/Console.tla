------------------------------ MODULE Console ------------------------------
(***************************************************************************)
(* The console and the serial port below it (console.c, uart.c): the ring  *)
(* of typed characters between uartintr() and readers, and the ring of     *)
(* output between writers and the port.                                    *)
(*                                                                         *)
(* The indices r, w, e are unsigned and wrap at WRAP, a multiple of the    *)
(* size of the buffer as 2^32 is.  Of the output only the number of        *)
(* characters in the ring is kept, tx = uart_tx_w - uart_tx_r; thr says    *)
(* that the transmit holding register is full.  A handler runs under the   *)
(* lock of its ring and is one step; a character that arrives, or the end  *)
(* of a transmission, is one step with the interrupt that it raises.       *)
(* Buffers of users are mapped, so that copyin() and copyout() succeed.    *)
(***************************************************************************)
EXTENDS Integers, Sequences, FiniteSetsExt, SequencesExt

CONSTANTS Procs, INPUT_BUF_SIZE, WRAP, UART_TX_BUF_SIZE, Chars

ASSUME ConsoleAssumption == INPUT_BUF_SIZE \in Nat \ {0} /\ WRAP % INPUT_BUF_SIZE = 0 /\ WRAP > INPUT_BUF_SIZE /\ UART_TX_BUF_SIZE \in Nat \ {0}

VARIABLES
  cons,     \* struct cons: buf, r, w, e
  log,      \* history: the characters that readers got
  tx, thr,
  asleep    \* the channel a process sleeps on in the console: "in", "out" or ""
console == <<cons, log, tx, thr, asleep>>

ConsoleInit ==
  /\ cons = [buf |-> [i \in 0..(INPUT_BUF_SIZE - 1) |-> "nul"], r |-> 0, w |-> 0, e |-> 0]
  /\ log = <<>> /\ tx = 0 /\ thr = FALSE /\ asleep = [p \in Procs |-> ""]

Minus(a, b) == (a - b) % WRAP
Plus(a, b) == (a + b) % WRAP
At(cs, i) == cs.buf[i % INPUT_BUF_SIZE]

Wakeup(as, chan) == [p \in Procs |-> IF as[p] = chan THEN "" ELSE as[p]]

-----------------------------------------------------------------------------
(* Output *)

(* mutant: nobody is woken *)
UartstartQuiet(n, busy, as) ==
  IF n > 0 /\ ~busy THEN tx' = n - 1 /\ thr' = TRUE /\ asleep' = as
  ELSE tx' = n /\ thr' = busy /\ asleep' = as

(* uartstart() with n characters in the ring and as asleep *)
Uartstart(n, busy, as) ==
  IF n > 0 /\ ~busy THEN tx' = n - 1 /\ thr' = TRUE /\ asleep' = Wakeup(as, "out")
  ELSE tx' = n /\ thr' = busy /\ asleep' = as

Sleep(p, chan) == asleep' = [asleep EXCEPT ![p] = chan] /\ UNCHANGED <<tx, thr>>

(* uartputc() *)
UartFull(p) == tx = UART_TX_BUF_SIZE /\ Sleep(p, "out") /\ UNCHANGED <<cons, log>>
Uartputc(p) == tx < UART_TX_BUF_SIZE /\ Uartstart(tx + 1, thr, asleep) /\ UNCHANGED <<cons, log>>

(* the port has sent a character *)
TxDone == thr /\ Uartstart(tx, FALSE, asleep) /\ UNCHANGED <<cons, log>>

-----------------------------------------------------------------------------
(* Input *)

(* ^U: back to the start of the line *)
KillLine(cs) ==
  LET k == Max({n \in 0..Minus(cs.e, cs.w) : \A j \in 1..n : At(cs, Minus(cs.e, j)) # "\n"})
  IN [cs EXCEPT !.e = Minus(@, k)]

Backspace(cs) == IF cs.e # cs.w THEN [cs EXCEPT !.e = Minus(@, 1)] ELSE cs

(* mutant: a buffer that is full is not handed over *)
StoreFull(cs, c) ==
  LET d == IF c = "\r" THEN "\n" ELSE c
      new == [cs EXCEPT !.buf[cs.e % INPUT_BUF_SIZE] = d, !.e = Plus(@, 1)]
  IN IF Minus(cs.e, cs.r) >= INPUT_BUF_SIZE THEN cs
     ELSE IF d \in {"\n", "^D"} THEN [new EXCEPT !.w = new.e] ELSE new

Store(cs, c) ==
  LET d == IF c = "\r" THEN "\n" ELSE c
      new == [cs EXCEPT !.buf[cs.e % INPUT_BUF_SIZE] = d, !.e = Plus(@, 1)]
  IN IF Minus(cs.e, cs.r) >= INPUT_BUF_SIZE THEN cs
     ELSE IF d \in {"\n", "^D"} \/ Minus(new.e, cs.r) = INPUT_BUF_SIZE THEN [new EXCEPT !.w = new.e] ELSE new

Edited(c) == CASE c = "^P" -> cons [] c = "^U" -> KillLine(cons) [] c = "^H" -> Backspace(cons) [] OTHER -> Store(cons, c)

(* The echo: uartputc_sync() waits until the register is empty and fills   *)
(* it, so that it is full after a change of the line.                      *)
Echoed(cs) == thr \/ cs.e # cons.e

(* uartintr() for the character c *)
Uartintr(c) ==
  /\ cons' = Edited(c)
  /\ Uartstart(tx, Echoed(cons'), IF cons'.w # cons.w THEN Wakeup(asleep, "in") ELSE asleep)
  /\ UNCHANGED log

(* The loop of consoleread(): n more characters of target.  It ends at the *)
(* end of a line and of a file, and when n is 0; done is FALSE when it     *)
(* sleeps for more.                                                        *)
RECURSIVE Consoleread(_, _, _)
Consoleread(cs, n, target) ==
  LET c == At(cs, cs.r)
      next == [cs EXCEPT !.r = Plus(@, 1)]
      more == Consoleread(next, n - 1, target)
  IN IF n > 0 /\ cs.r = cs.w THEN [cons |-> cs, n |-> n, done |-> FALSE]
     ELSE IF n > 0 /\ c = "^D" THEN [cons |-> IF n < target THEN cs ELSE next, n |-> n, done |-> TRUE]
     ELSE IF n > 0 /\ c # "\n" THEN more
     ELSE [cons |-> IF n > 0 THEN next ELSE cs, n |-> IF n > 0 THEN n - 1 ELSE n, done |-> TRUE]

Span(cs, from, to) == [i \in 1..Minus(to, from) |-> At(cs, Plus(from, i - 1))]

(* a part of a read that gives rd *)
Got(p, rd) ==
  /\ cons' = rd.cons /\ log' = log \o Span(cons, cons.r, rd.cons.r)
  /\ UNCHANGED <<tx, thr>>
  /\ asleep' = IF rd.done THEN asleep ELSE [asleep EXCEPT ![p] = "in"]

-----------------------------------------------------------------------------
Line == INSTANCE LineEditor WITH SIZE <- INPUT_BUF_SIZE, lines <- Span(cons, cons.r, cons.w), edit <- Span(cons, cons.w, cons.e)

(* Whatever the order of keys and reads, the ring with its three indices   *)
(* is a line editor: consoleintr() edits the current line only and hands   *)
(* it over when it ends or fills the ring; consoleread() gives every       *)
(* character out once, in order, and never goes past the end of a line.    *)
LineSpec == Line!Spec
=============================================================================
