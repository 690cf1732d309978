-------------------------------- MODULE Pipe --------------------------------
(***************************************************************************)
(* A pipe (pipe.c) and the processes that share its two ends.              *)
(*                                                                         *)
(* The lock pi->lock is a spin lock: its owner is not interrupted and does *)
(* not lose the CPU before it releases the lock, in sleep() or at the end  *)
(* (module Proc).  So acquire() never waits, and one variable says who is  *)
(* inside.  Each turn of the copying loops is a step of its own.           *)
(*                                                                         *)
(* A process has a reference to an end when one of its descriptors points  *)
(* to the end's struct file; the end is closed with the last of them.      *)
(* killed() is false throughout: only a process in user mode is marked,    *)
(* and it exits before it makes another system call (NoKilledCall of       *)
(* module Proc).                                                           *)
(***************************************************************************)
EXTENDS Naturals, Sequences, FiniteSets

CONSTANTS Procs,      \* the processes that use the pipe
          PIPESIZE,
          Wrap,       \* rd and wt are counted modulo Wrap: 2^32 in the code
          Byte,
          MaxN,       \* bound: the largest count passed to read() and write()
          NoOwner

ASSUME PipeAssumption ==
  /\ PIPESIZE \in Nat \ {0} /\ MaxN \in Nat
  /\ \E k \in 2..Wrap : Wrap = k * PIPESIZE
  /\ NoOwner \notin Procs

VARIABLES
  alloc,                        \* the page of the pipe is allocated
  readable, writable, rd, wt, buf,
  lock,                         \* the owner of pi->lock
  rref, wref,                   \* the processes with a reference to each end
  pc, n, i,                     \* per process: its point and its locals
  ch                            \* the byte that was read last

pipe == <<alloc, readable, writable, rd, wt, buf>>
refs == <<rref, wref>>
vars == <<pipe, lock, refs, pc, n, i, ch>>

Labels == {"idle", "r_test", "r_sleep", "r_woken", "r_copy", "r_done",
           "w_loop", "w_sleep", "w_woken", "w_done"}

Init ==
  /\ alloc = FALSE /\ readable = FALSE /\ writable = FALSE
  /\ rd = 0 /\ wt = 0 /\ buf \in [0..PIPESIZE-1 -> Byte]
  /\ lock = NoOwner
  /\ rref = {} /\ wref = {}
  /\ pc = [p \in Procs |-> "idle"]
  /\ n = [p \in Procs |-> 0] /\ i = [p \in Procs |-> 0]
  /\ ch \in Byte

-----------------------------------------------------------------------------
Inc(x) == (x + 1) % Wrap
Empty == rd = wt

(* a full test that is one byte late *)
FullLate == wt = (rd + PIPESIZE + 1) % Wrap

Full == wt = (rd + PIPESIZE) % Wrap

Goto(p, b) == pc' = [pc EXCEPT ![p] = b]

(* wakeup(&pi->rd) and wakeup(&pi->wt): from -> to in the points f *)
WakeReaders(f) == [p \in Procs |-> IF f[p] = "r_sleep" THEN "r_woken" ELSE f[p]]
WakeWriters(f) == [p \in Procs |-> IF f[p] = "w_sleep" THEN "w_woken" ELSE f[p]]

Inside(p, a) == lock = p /\ pc[p] = a
Enter(p, b) == lock = NoOwner /\ pc[p] = "idle" /\ lock' = p /\ Goto(p, b)

-----------------------------------------------------------------------------
(* pipealloc(), called by sys_pipe() *)
PipeAlloc(p) ==
  /\ ~alloc /\ lock = NoOwner /\ pc[p] = "idle"
  /\ alloc' = TRUE /\ readable' = TRUE /\ writable' = TRUE
  /\ rd' = 0 /\ wt' = 0
  /\ rref' = {p} /\ wref' = {p}
  /\ UNCHANGED <<buf, lock, pc, n, i, ch>>

(* fork(): filedup() for every open descriptor of the parent *)
Fork(p, c) ==
  /\ lock = NoOwner /\ pc[p] = "idle" /\ pc[c] = "idle"
  /\ p \in rref \cup wref /\ c \notin rref \cup wref
  /\ rref' = IF p \in rref THEN rref \cup {c} ELSE rref
  /\ wref' = IF p \in wref THEN wref \cup {c} ELSE wref
  /\ UNCHANGED <<pipe, lock, pc, n, i, ch>>

(* pipeclose() that frees the page with the first end *)
PipeCloseFirst(w) ==
  /\ writable' = (writable /\ ~w) /\ readable' = (readable /\ w)
  /\ pc' = IF w THEN WakeReaders(pc) ELSE WakeWriters(pc)
  /\ alloc' = FALSE
  /\ UNCHANGED <<rd, wt, buf, lock, n, i, ch>>

(* pipeclose(pi, w) *)
PipeClose(w) ==
  /\ writable' = (writable /\ ~w) /\ readable' = (readable /\ w)
  /\ pc' = IF w THEN WakeReaders(pc) ELSE WakeWriters(pc)
  /\ alloc' = (readable' \/ writable')
  /\ UNCHANGED <<rd, wt, buf, lock, n, i, ch>>

(* fileclose(): the last reference closes the end *)
CloseRead(p) ==
  /\ lock = NoOwner /\ pc[p] = "idle" /\ p \in rref
  /\ rref' = rref \ {p} /\ UNCHANGED wref
  /\ IF rref' = {} THEN PipeClose(FALSE) ELSE UNCHANGED <<pipe, lock, pc, n, i, ch>>

CloseWrite(p) ==
  /\ lock = NoOwner /\ pc[p] = "idle" /\ p \in wref
  /\ wref' = wref \ {p} /\ UNCHANGED rref
  /\ IF wref' = {} THEN PipeClose(TRUE) ELSE UNCHANGED <<pipe, lock, pc, n, i, ch>>

-----------------------------------------------------------------------------
(* sleep() returns with the lock held, into the loop that called it. *)

(* a reader that does not test again *)
AwakeOnce(p) ==
  /\ lock = NoOwner /\ pc[p] \in {"r_woken", "w_woken"}
  /\ lock' = p /\ Goto(p, IF pc[p] = "r_woken" THEN "r_copy" ELSE "w_loop")
  /\ UNCHANGED <<pipe, refs, n, i, ch>>

Awake(p) ==
  /\ lock = NoOwner /\ pc[p] \in {"r_woken", "w_woken"}
  /\ lock' = p /\ Goto(p, IF pc[p] = "r_woken" THEN "r_test" ELSE "w_loop")
  /\ UNCHANGED <<pipe, refs, n, i, ch>>

(* piperead() *)
ReadEnter(p) ==
  /\ p \in rref /\ Enter(p, "r_test")
  /\ \E k \in 0..MaxN : n' = [n EXCEPT ![p] = k]
  /\ UNCHANGED <<pipe, refs, i, ch>>

ReadSleep(p) ==
  /\ Inside(p, "r_test") /\ Empty /\ writable
  /\ lock' = NoOwner /\ Goto(p, "r_sleep")
  /\ UNCHANGED <<pipe, refs, n, i, ch>>

ReadReady(p) ==
  /\ Inside(p, "r_test") /\ ~(Empty /\ writable)
  /\ Goto(p, "r_copy")
  /\ UNCHANGED <<pipe, lock, refs, n, i, ch>>

(* One byte; rd has moved on even when copyout() fails. *)
ReadByte(p) ==
  /\ Inside(p, "r_copy") /\ i[p] < n[p] /\ ~Empty
  /\ ch' = buf[rd % PIPESIZE] /\ rd' = Inc(rd)
  /\ \/ i' = [i EXCEPT ![p] = @ + 1] /\ UNCHANGED pc
     \/ Goto(p, "r_done") /\ UNCHANGED i
  /\ UNCHANGED <<alloc, readable, writable, wt, buf, lock, refs, n>>

(* Return: the call's locals are gone. *)
Leave(p, f) ==
  /\ pc' = [f EXCEPT ![p] = "idle"] /\ lock' = NoOwner
  /\ n' = [n EXCEPT ![p] = 0] /\ i' = [i EXCEPT ![p] = 0]
  /\ UNCHANGED <<pipe, refs, ch>>

ReadDone(p) ==
  /\ Inside(p, "r_done") \/ (Inside(p, "r_copy") /\ (i[p] = n[p] \/ Empty))
  /\ Leave(p, WakeWriters(pc))

(* pipewrite() *)
WriteEnter(p) ==
  /\ p \in wref /\ Enter(p, "w_loop")
  /\ \E k \in 0..MaxN : n' = [n EXCEPT ![p] = k]
  /\ UNCHANGED <<pipe, refs, i, ch>>

WriteClosed(p) ==
  /\ Inside(p, "w_loop") /\ i[p] < n[p] /\ ~readable
  /\ Leave(p, pc)

(* a writer that sleeps on a full pipe without waking the readers *)
WriteFullQuiet(p) ==
  /\ Inside(p, "w_loop") /\ i[p] < n[p] /\ readable /\ Full
  /\ Goto(p, "w_sleep") /\ lock' = NoOwner
  /\ UNCHANGED <<pipe, refs, n, i, ch>>

WriteFull(p) ==
  /\ Inside(p, "w_loop") /\ i[p] < n[p] /\ readable /\ Full
  /\ pc' = [WakeReaders(pc) EXCEPT ![p] = "w_sleep"] /\ lock' = NoOwner
  /\ UNCHANGED <<pipe, refs, n, i, ch>>

WriteByte(p) ==
  /\ Inside(p, "w_loop") /\ i[p] < n[p] /\ readable /\ ~Full
  /\ \E b \in Byte : buf' = [buf EXCEPT ![wt % PIPESIZE] = b]
  /\ wt' = Inc(wt)
  /\ i' = [i EXCEPT ![p] = @ + 1]
  /\ UNCHANGED <<alloc, readable, writable, rd, lock, refs, pc, n, ch>>

(* copyin() fails *)
WriteBadAddr(p) ==
  /\ Inside(p, "w_loop") /\ i[p] < n[p] /\ readable /\ ~Full
  /\ Goto(p, "w_done")
  /\ UNCHANGED <<pipe, lock, refs, n, i, ch>>

WriteDone(p) ==
  /\ Inside(p, "w_done") \/ (Inside(p, "w_loop") /\ i[p] = n[p])
  /\ Leave(p, WakeReaders(pc))

-----------------------------------------------------------------------------
(* A process in a call that is not asleep goes on. *)
InCall(p) ==
  \/ Awake(p) \/ ReadSleep(p) \/ ReadReady(p) \/ ReadByte(p) \/ ReadDone(p)
  \/ WriteClosed(p) \/ WriteFull(p) \/ WriteByte(p) \/ WriteBadAddr(p) \/ WriteDone(p)

Next ==
  \E p \in Procs :
    \/ InCall(p) \/ ReadEnter(p) \/ WriteEnter(p)
    \/ PipeAlloc(p) \/ CloseRead(p) \/ CloseWrite(p)
    \/ \E c \in Procs : Fork(p, c)

Spec == Init /\ [][Next]_vars

-----------------------------------------------------------------------------
(* A reader sleeps only while the pipe is empty and the write end is open, *)
(* a writer only while it is full and the read end is open: piperead(),    *)
(* pipewrite() and pipeclose() leave no sleeper behind that could go on,   *)
(* and both sides never wait for each other.                               *)
SleepersWait ==
  lock = NoOwner =>
    \A p \in Procs :
      /\ pc[p] = "r_sleep" => Empty /\ writable
      /\ pc[p] = "w_sleep" => Full /\ readable

(* pipeclose() frees the page only when no process is in a call on it or   *)
(* could start one.                                                        *)
NoUseAfterFree ==
  ~alloc => rref = {} /\ wref = {} /\ \A p \in Procs : pc[p] = "idle"

(* A read of at least one byte returns 0, end of file, only when the pipe  *)
(* is empty and its write end is closed.                                   *)
EofOnlyAtEnd ==
  [][\A p \in Procs :
       pc[p] = "r_copy" /\ pc'[p] = "idle" /\ i[p] = 0 /\ n[p] > 0 => Empty /\ ~writable]_vars

(* The bytes between rd and wt, oldest first. *)
Count == (wt + Wrap - rd) % Wrap
Queue == [k \in 1..Count |-> buf[(rd + k - 1) % PIPESIZE]]

Fifo == INSTANCE PipeFifo WITH Cap <- PIPESIZE, q <- Queue, last <- ch,
                               rend <- readable, wend <- writable

(* The ring of PIPESIZE bytes, with counters that wrap, is a queue: no     *)
(* byte is lost, repeated, overwritten or reordered, and none goes in when *)
(* nobody can read it.                                                     *)
FifoSpec == Fifo!Spec
=============================================================================
