----------------------------- MODULE PipeProofs -----------------------------
(***************************************************************************)
(* Proofs about Pipe, for any number of processes and any size.            *)
(***************************************************************************)
EXTENDS Pipe, TLAPS

Reading == {"r_test", "r_sleep", "r_woken", "r_copy", "r_done"}
Writing == {"w_loop", "w_sleep", "w_woken", "w_done"}
Locked == {"r_test", "r_copy", "r_done", "w_loop", "w_done"}

Typed ==
  /\ alloc \in BOOLEAN /\ readable \in BOOLEAN /\ writable \in BOOLEAN
  /\ lock \in Procs \cup {NoOwner}
  /\ rref \in SUBSET Procs /\ wref \in SUBSET Procs
  /\ pc \in [Procs -> Labels] /\ n \in [Procs -> Nat] /\ i \in [Procs -> Nat]

(* pi->lock is held at the points where the code holds it. *)
Owned == \A p \in Procs : pc[p] \in Locked <=> lock = p

(* An end is open while somebody has a reference to it. *)
Ends ==
  /\ readable <=> rref # {}
  /\ writable <=> wref # {}
  /\ alloc <=> readable \/ writable

(* Who is in a call has a reference. *)
Callers ==
  \A p \in Procs : /\ pc[p] \in Reading => p \in rref
                   /\ pc[p] \in Writing => p \in wref

(* A reader that sleeps has nothing to do, unless a writer is inside, who  *)
(* will wake it; and the same for a writer that sleeps.                    *)
Sleepers ==
  \A p \in Procs :
    /\ pc[p] = "r_sleep" => (Empty /\ writable) \/ \E q \in Procs : pc[q] \in {"w_loop", "w_done"}
    /\ pc[p] = "w_sleep" => (Full /\ readable) \/ \E q \in Procs : pc[q] \in {"r_copy", "r_done"}

(* A reader that has not copied yet has something to copy, or is at the    *)
(* end of the file.                                                        *)
Fresh == \A p \in Procs : pc[p] = "r_copy" /\ i[p] = 0 => ~(Empty /\ writable)

PInv == Typed /\ Owned /\ Ends /\ Callers /\ Sleepers /\ Fresh

-----------------------------------------------------------------------------
(* One lemma per action. *)

(* sleep() returns, with the lock. *)
LEMMA AwakeStep == ASSUME PInv, NEW p \in Procs, Awake(p) PROVE PInv'
<1> USE PipeAssumption DEF PInv, Typed
<1>1. Typed'
  BY DEF Awake, Goto, pipe, refs, Labels
<1>2. Owned' /\ Ends'
  BY DEF Awake, Goto, pipe, refs, Owned, Ends, Locked
<1>3. Callers'
  BY DEF Awake, Goto, pipe, refs, Callers, Reading, Writing
<1>4. Sleepers' /\ Fresh'
  BY DEF Awake, Goto, pipe, refs, Sleepers, Fresh, Owned, Ends, Callers, Reading, Writing, Locked, Empty, Full
<1> QED BY <1>1, <1>2, <1>3, <1>4

(* piperead() begins. *)
LEMMA ReadEnterStep == ASSUME PInv, NEW p \in Procs, ReadEnter(p) PROVE PInv'
<1> USE PipeAssumption DEF PInv, Typed
<1>1. Typed'
  BY DEF ReadEnter, Enter, Goto, pipe, refs, Labels
<1>2. Owned' /\ Ends'
  BY DEF ReadEnter, Enter, Goto, pipe, refs, Owned, Ends, Locked
<1>3. Callers'
  BY DEF ReadEnter, Enter, Goto, pipe, refs, Callers, Reading, Writing
<1>4. Sleepers' /\ Fresh'
  BY DEF ReadEnter, Enter, Goto, pipe, refs, Sleepers, Fresh, Owned, Ends, Callers, Reading, Writing, Locked, Empty, Full
<1> QED BY <1>1, <1>2, <1>3, <1>4

(* pipewrite() begins. *)
LEMMA WriteEnterStep == ASSUME PInv, NEW p \in Procs, WriteEnter(p) PROVE PInv'
<1> USE PipeAssumption DEF PInv, Typed
<1>1. Typed'
  BY DEF WriteEnter, Enter, Goto, pipe, refs, Labels
<1>2. Owned' /\ Ends'
  BY DEF WriteEnter, Enter, Goto, pipe, refs, Owned, Ends, Locked
<1>3. Callers'
  BY DEF WriteEnter, Enter, Goto, pipe, refs, Callers, Reading, Writing
<1>4. Sleepers' /\ Fresh'
  BY DEF WriteEnter, Enter, Goto, pipe, refs, Sleepers, Fresh, Owned, Ends, Callers, Reading, Writing, Locked, Empty, Full
<1> QED BY <1>1, <1>2, <1>3, <1>4

(* A reader falls asleep on an empty pipe. *)
LEMMA ReadSleepStep == ASSUME PInv, NEW p \in Procs, ReadSleep(p) PROVE PInv'
<1> USE PipeAssumption DEF PInv, Typed
<1>1. Typed'
  BY DEF ReadSleep, Inside, Goto, pipe, refs, Labels
<1>2. Owned' /\ Ends'
  BY DEF ReadSleep, Inside, Goto, pipe, refs, Owned, Ends, Locked
<1>3. Callers'
  BY DEF ReadSleep, Inside, Goto, pipe, refs, Callers, Reading, Writing
<1>4. Sleepers' /\ Fresh'
  BY DEF ReadSleep, Inside, Goto, pipe, refs, Sleepers, Fresh, Owned, Ends, Callers, Reading, Writing, Locked, Empty, Full
<1> QED BY <1>1, <1>2, <1>3, <1>4

(* A reader leaves the waiting loop. *)
LEMMA ReadReadyStep == ASSUME PInv, NEW p \in Procs, ReadReady(p) PROVE PInv'
<1> USE PipeAssumption DEF PInv, Typed
<1>1. Typed'
  BY DEF ReadReady, Inside, Goto, pipe, refs, Labels
<1>2. Owned' /\ Ends'
  BY DEF ReadReady, Inside, Goto, pipe, refs, Owned, Ends, Locked
<1>3. Callers'
  BY DEF ReadReady, Inside, Goto, pipe, refs, Callers, Reading, Writing
<1>4. Sleepers' /\ Fresh'
  BY DEF ReadReady, Inside, Goto, pipe, refs, Sleepers, Fresh, Owned, Ends, Callers, Reading, Writing, Locked, Empty, Full
<1> QED BY <1>1, <1>2, <1>3, <1>4

(* A byte is read: the pipe was not empty, so no reader was asleep. *)
LEMMA ReadByteStep == ASSUME PInv, NEW p \in Procs, ReadByte(p) PROVE PInv'
<1> USE PipeAssumption DEF PInv, Typed
<1>1. Typed'
  BY DEF ReadByte, Inside, Goto, refs, Labels
<1>2. Owned' /\ Ends'
  BY DEF ReadByte, Inside, Goto, refs, Owned, Ends, Locked
<1>3. Callers'
  BY DEF ReadByte, Inside, Goto, refs, Callers, Reading, Writing
<1>4. Sleepers' /\ Fresh'
  BY DEF ReadByte, Inside, Goto, refs, Sleepers, Fresh, Owned, Ends, Callers, Reading, Writing, Locked, Empty, Full
<1> QED BY <1>1, <1>2, <1>3, <1>4

(* piperead() returns and wakes the writers. *)
LEMMA ReadDoneStep == ASSUME PInv, NEW p \in Procs, ReadDone(p) PROVE PInv'
<1> USE PipeAssumption DEF PInv, Typed
<1>1. Typed'
  BY DEF ReadDone, Inside, Leave, WakeWriters, pipe, refs, Labels
<1>2. Owned' /\ Ends'
  BY DEF ReadDone, Inside, Leave, WakeWriters, pipe, refs, Owned, Ends, Locked
<1>3. Callers'
  BY DEF ReadDone, Inside, Leave, WakeWriters, pipe, refs, Callers, Reading, Writing
<1>4. Sleepers' /\ Fresh'
  BY DEF ReadDone, Inside, Leave, WakeWriters, pipe, refs, Sleepers, Fresh, Owned, Ends, Callers, Reading, Writing, Locked, Empty, Full
<1> QED BY <1>1, <1>2, <1>3, <1>4

(* pipewrite() returns without a wakeup: no reader is left to wake. *)
LEMMA WriteClosedStep == ASSUME PInv, NEW p \in Procs, WriteClosed(p) PROVE PInv'
<1> USE PipeAssumption DEF PInv, Typed
<1>1. Typed'
  BY DEF WriteClosed, Inside, Leave, pipe, refs, Labels
<1>2. Owned' /\ Ends'
  BY DEF WriteClosed, Inside, Leave, pipe, refs, Owned, Ends, Locked
<1>3. Callers'
  BY DEF WriteClosed, Inside, Leave, pipe, refs, Callers, Reading, Writing
<1>4. Sleepers' /\ Fresh'
  BY DEF WriteClosed, Inside, Leave, pipe, refs, Sleepers, Fresh, Owned, Ends, Callers, Reading, Writing, Locked, Empty, Full
<1> QED BY <1>1, <1>2, <1>3, <1>4

(* A writer wakes the readers and falls asleep. *)
LEMMA WriteFullStep == ASSUME PInv, NEW p \in Procs, WriteFull(p) PROVE PInv'
<1> USE PipeAssumption DEF PInv, Typed
<1>1. Typed'
  BY DEF WriteFull, Inside, WakeReaders, pipe, refs, Labels
<1>2. Owned' /\ Ends'
  BY DEF WriteFull, Inside, WakeReaders, pipe, refs, Owned, Ends, Locked
<1>3. Callers'
  BY DEF WriteFull, Inside, WakeReaders, pipe, refs, Callers, Reading, Writing
<1>4. Sleepers' /\ Fresh'
  BY DEF WriteFull, Inside, WakeReaders, pipe, refs, Sleepers, Fresh, Owned, Ends, Callers, Reading, Writing, Locked, Empty, Full
<1> QED BY <1>1, <1>2, <1>3, <1>4

(* A byte is written: the pipe was not full, so no writer was asleep. *)
LEMMA WriteByteStep == ASSUME PInv, NEW p \in Procs, WriteByte(p) PROVE PInv'
<1> USE PipeAssumption DEF PInv, Typed
<1>1. Typed'
  BY DEF WriteByte, Inside, refs, Labels
<1>2. Owned' /\ Ends'
  BY DEF WriteByte, Inside, refs, Owned, Ends, Locked
<1>3. Callers'
  BY DEF WriteByte, Inside, refs, Callers, Reading, Writing
<1>4. Sleepers' /\ Fresh'
  BY DEF WriteByte, Inside, refs, Sleepers, Fresh, Owned, Ends, Callers, Reading, Writing, Locked, Empty, Full
<1> QED BY <1>1, <1>2, <1>3, <1>4

(* copyin() fails. *)
LEMMA WriteBadAddrStep == ASSUME PInv, NEW p \in Procs, WriteBadAddr(p) PROVE PInv'
<1> USE PipeAssumption DEF PInv, Typed
<1>1. Typed'
  BY DEF WriteBadAddr, Inside, Goto, pipe, refs, Labels
<1>2. Owned' /\ Ends'
  BY DEF WriteBadAddr, Inside, Goto, pipe, refs, Owned, Ends, Locked
<1>3. Callers'
  BY DEF WriteBadAddr, Inside, Goto, pipe, refs, Callers, Reading, Writing
<1>4. Sleepers' /\ Fresh'
  BY DEF WriteBadAddr, Inside, Goto, pipe, refs, Sleepers, Fresh, Owned, Ends, Callers, Reading, Writing, Locked, Empty, Full
<1> QED BY <1>1, <1>2, <1>3, <1>4

(* pipewrite() returns and wakes the readers. *)
LEMMA WriteDoneStep == ASSUME PInv, NEW p \in Procs, WriteDone(p) PROVE PInv'
<1> USE PipeAssumption DEF PInv, Typed
<1>1. Typed'
  BY DEF WriteDone, Inside, Leave, WakeReaders, pipe, refs, Labels
<1>2. Owned' /\ Ends'
  BY DEF WriteDone, Inside, Leave, WakeReaders, pipe, refs, Owned, Ends, Locked
<1>3. Callers'
  BY DEF WriteDone, Inside, Leave, WakeReaders, pipe, refs, Callers, Reading, Writing
<1>4. Sleepers' /\ Fresh'
  BY DEF WriteDone, Inside, Leave, WakeReaders, pipe, refs, Sleepers, Fresh, Owned, Ends, Callers, Reading, Writing, Locked, Empty, Full
<1> QED BY <1>1, <1>2, <1>3, <1>4

(* A new pipe. *)
LEMMA PipeAllocStep == ASSUME PInv, NEW p \in Procs, PipeAlloc(p) PROVE PInv'
<1> USE PipeAssumption DEF PInv, Typed
<1>1. Typed'
  BY DEF PipeAlloc, Labels
<1>2. Owned' /\ Ends'
  BY DEF PipeAlloc, Owned, Ends, Locked
<1>3. Callers'
  BY DEF PipeAlloc, Callers, Reading, Writing, Ends, Labels
<1>4. Sleepers' /\ Fresh'
  BY DEF PipeAlloc, Sleepers, Fresh, Owned, Ends, Callers, Reading, Writing, Locked, Empty, Full
<1> QED BY <1>1, <1>2, <1>3, <1>4

(* The read end loses a reference; the last one wakes the writers. *)
LEMMA CloseReadStep == ASSUME PInv, NEW p \in Procs, CloseRead(p) PROVE PInv'
<1> USE PipeAssumption DEF PInv, Typed
<1>1. Typed'
  BY DEF CloseRead, PipeClose, WakeWriters, pipe, Labels
<1>2. Owned' /\ Ends'
  BY DEF CloseRead, PipeClose, WakeWriters, pipe, Owned, Ends, Locked
<1>3. Callers'
  BY DEF CloseRead, PipeClose, WakeWriters, pipe, Callers, Reading, Writing
<1>4. Sleepers' /\ Fresh'
  BY DEF CloseRead, PipeClose, WakeWriters, pipe, Sleepers, Fresh, Owned, Ends, Callers, Reading, Writing, Locked, Empty, Full
<1> QED BY <1>1, <1>2, <1>3, <1>4

(* The write end loses a reference; the last one wakes the readers. *)
LEMMA CloseWriteStep == ASSUME PInv, NEW p \in Procs, CloseWrite(p) PROVE PInv'
<1> USE PipeAssumption DEF PInv, Typed
<1>1. Typed'
  BY DEF CloseWrite, PipeClose, WakeReaders, pipe, Labels
<1>2. Owned' /\ Ends'
  BY DEF CloseWrite, PipeClose, WakeReaders, pipe, Owned, Ends, Locked
<1>3. Callers'
  BY DEF CloseWrite, PipeClose, WakeReaders, pipe, Callers, Reading, Writing
<1>4. Sleepers' /\ Fresh'
  BY DEF CloseWrite, PipeClose, WakeReaders, pipe, Sleepers, Fresh, Owned, Ends, Callers, Reading, Writing, Locked, Empty, Full
<1> QED BY <1>1, <1>2, <1>3, <1>4

(* A child shares the ends. *)
LEMMA ForkStep == ASSUME PInv, NEW p \in Procs, NEW c \in Procs, Fork(p, c) PROVE PInv'
<1> USE PipeAssumption DEF PInv, Typed
<1>1. Typed'
  BY DEF Fork, pipe, Labels
<1>2. Owned' /\ Ends'
  BY DEF Fork, pipe, Owned, Ends, Locked
<1>3. Callers'
  BY DEF Fork, pipe, Callers, Reading, Writing
<1>4. Sleepers' /\ Fresh'
  BY DEF Fork, pipe, Sleepers, Fresh, Owned, Ends, Callers, Reading, Writing, Locked, Empty, Full
<1> QED BY <1>1, <1>2, <1>3, <1>4

LEMMA StutterPInv == ASSUME PInv, UNCHANGED vars PROVE PInv'
BY DEF vars, pipe, refs, PInv, Typed, Owned, Ends, Callers, Sleepers, Fresh, Empty, Full

-----------------------------------------------------------------------------
(* PInv is an inductive invariant of the pipe. *)
THEOREM PipeInvariance == Spec => []PInv
<1>1. Init => PInv
  <2> SUFFICES ASSUME Init PROVE PInv
    OBVIOUS
  <2>1. Typed
    BY DEF Init, Typed, Labels
  <2>2. Owned /\ Callers /\ Sleepers /\ Fresh
    BY PipeAssumption DEF Init, Owned, Callers, Sleepers, Fresh, Locked, Reading, Writing
  <2>3. Ends
    BY DEF Init, Ends
  <2> QED BY <2>1, <2>2, <2>3 DEF PInv
<1>2. PInv /\ [Next]_vars => PInv'
  <2> SUFFICES ASSUME PInv, [Next]_vars PROVE PInv'
    OBVIOUS
  <2>1. ASSUME NEW p \in Procs, InCall(p) PROVE PInv'
    BY <2>1, AwakeStep, ReadSleepStep, ReadReadyStep, ReadByteStep, ReadDoneStep, WriteClosedStep,
       WriteFullStep, WriteByteStep, WriteBadAddrStep, WriteDoneStep DEF InCall
  <2>2. CASE Next
    BY <2>1, <2>2, ReadEnterStep, WriteEnterStep, PipeAllocStep, CloseReadStep, CloseWriteStep, ForkStep DEF Next
  <2> QED BY <2>2, StutterPInv
<1> QED BY <1>1, <1>2, PTL DEF Spec

(* Whenever the lock is free, whoever sleeps in piperead() or pipewrite()  *)
(* has nothing to do: no wakeup is lost, and the sides never wait for each *)
(* other.                                                                  *)
THEOREM NoSleeperLeft == Spec => []SleepersWait
<1>1. PInv => SleepersWait
  BY PipeAssumption DEF PInv, Typed, Owned, Sleepers, SleepersWait, Locked
<1> QED BY <1>1, PipeInvariance, PTL

(* pipeclose() frees the page only when nobody is in a call or could start *)
(* one.                                                                    *)
THEOREM FreedUnused == Spec => []NoUseAfterFree
<1>1. PInv => NoUseAfterFree
  BY DEF PInv, Typed, Ends, Callers, NoUseAfterFree, Labels, Reading, Writing
<1> QED BY <1>1, PipeInvariance, PTL

(* A step that ends a read of at least one byte with nothing copied. *)
EofStep ==
  \A p \in Procs :
    pc[p] = "r_copy" /\ pc'[p] = "idle" /\ i[p] = 0 /\ n[p] > 0 => Empty /\ ~writable

(* piperead() reports end of file only when the pipe is empty and its      *)
(* write end is closed.                                                    *)
THEOREM EofTrue == Spec => EofOnlyAtEnd
<1>1. PInv /\ [Next]_vars => [EofStep]_vars
  <2> SUFFICES ASSUME PInv, Next, NEW p \in Procs,
                      pc[p] = "r_copy", pc'[p] = "idle", i[p] = 0, n[p] > 0
               PROVE  Empty /\ ~writable
    BY DEF EofStep
  <2>1. lock = p /\ lock # NoOwner
    BY PipeAssumption DEF PInv, Owned, Locked
  <2>2. PICK q \in Procs : InCall(q)
    BY <2>1 DEF Next, ReadEnter, WriteEnter, Enter, PipeAlloc, CloseRead, CloseWrite, Fork
  <2>3. q = p
    BY <2>1, <2>2 DEF InCall, Awake, ReadSleep, ReadReady, ReadByte, ReadDone, WriteClosed, WriteFull,
                      WriteByte, WriteBadAddr, WriteDone, Inside
  <2>4. ReadByte(p) \/ ReadDone(p)
    BY <2>1, <2>2, <2>3 DEF InCall, Awake, ReadSleep, ReadReady, WriteClosed, WriteFull, WriteByte,
                            WriteBadAddr, WriteDone, Inside
  <2>5. ~ReadByte(p)
    BY DEF ReadByte, Goto, PInv, Typed
  <2>6. Empty
    BY <2>4, <2>5 DEF ReadDone, Inside
  <2> QED BY <2>6 DEF PInv, Fresh, Typed
<1>2. Spec => [][EofStep]_vars
  BY <1>1, PipeInvariance, PTL DEF Spec
<1> QED BY <1>2 DEF EofOnlyAtEnd, EofStep
=============================================================================
