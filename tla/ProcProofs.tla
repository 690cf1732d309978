----------------------------- MODULE ProcProofs -----------------------------
(***************************************************************************)
(* Proofs about Proc, for any number of processes.                         *)
(***************************************************************************)
EXTENDS ProcInv, FiniteSetTheorems, TLAPS

(* The locks are distinct. *)
LEMMA LockFacts ==
  /\ initproc \in Procs /\ NoProc \notin Procs
  /\ Procs \subseteq Locks /\ WaitLock \in Locks /\ DiskLock \in Locks
  /\ WaitLock \notin Procs /\ DiskLock \notin Procs /\ WaitLock # DiskLock
BY ProcAssumption DEF initproc, Procs, Locks, WaitLock, DiskLock, NoProc

(* The channels are distinct. *)
LEMMA ChanFacts ==
  ASSUME NEW p \in Procs
  PROVE  /\ {NoChan, TickChan, ProcChan(p), BufChan(p)} \subseteq Chans
         /\ ProcChan(p) # BufChan(p) /\ ProcChan(p) # TickChan /\ BufChan(p) # TickChan
BY DEF Chans, NoChan, TickChan, ProcChan, BufChan

(* Which loops call sleep() with a lock. *)
LEMMA SleepLockFacts ==
  /\ SleepLock("wait_scan") = {WaitLock} /\ SleepLock("wait_scan") # {}
  /\ SleepLock("io_wait") = {DiskLock} /\ SleepLock("io_wait") # {}
  /\ SleepLock("tick_test") = {}
BY DEF SleepLock

(* What acquire() and release() do to the types of the CPU's state. *)
LEMMA LockTypes ==
  ASSUME TypeOK, NEW l \in Locks, Acquire(l) \/ Release(l)
  PROVE  /\ held' \in SUBSET Locks /\ noff' \in Nat
         /\ intena' \in BOOLEAN /\ sie' \in BOOLEAN
<1>1. held' \in SUBSET Locks /\ noff' \in Nat
  BY DEF TypeOK, Acquire, Release
<1>2. intena' \in BOOLEAN /\ sie' \in BOOLEAN
  BY DEF TypeOK, Acquire, Release, PushOff, PopOff
<1> QED BY <1>1, <1>2

(* There are finitely many spin locks, so they can be counted. *)
LEMMA FiniteLocks == IsFiniteSet(Locks)
BY FS_Interval, ProcAssumption DEF Locks

(* acquire() and release() keep noff equal to the number of locks held. *)
LEMMA Counting ==
  ASSUME TypeOK, LockCount, NEW l \in Locks, Acquire(l) \/ Release(l)
  PROVE  LockCount'
<1>1. IsFiniteSet(held)
  BY FiniteLocks, FS_Subset DEF TypeOK
<1>2. CASE Acquire(l)
  BY <1>1, <1>2, FS_AddElement DEF Acquire, LockCount
<1>3. CASE Release(l)
  BY <1>1, <1>3, FS_RemoveElement DEF Release, LockCount
<1> QED BY <1>2, <1>3

(* release() turns interrupts on only when it drops the last lock. *)
LEMMA LastRelease ==
  ASSUME TypeOK, LockCount, NEW l \in Locks, Release(l)
  PROVE  sie' => held' = {}
<1> SUFFICES ASSUME sie' PROVE held' = {}
  OBVIOUS
<1>1. noff' = 0 /\ LockCount'
  BY Counting DEF Release, PopOff, TypeOK
<1>2. IsFiniteSet(held')
  BY FiniteLocks, FS_Subset, LockTypes
<1> QED BY <1>1, <1>2, FS_EmptySet DEF LockCount

-----------------------------------------------------------------------------
(* Every step keeps the types. *)
LEMMA TypeStep ==
  ASSUME TypeOK, ControlInv, Next
  PROVE  TypeOK'
<1> USE LockFacts DEF TypeOK, Move, On, Goto, table, locals, saved, cpu, sch, dev, rest,
                      Status, Labels
<1>1. CASE Scheduler
  <2>1. CASE SchedIntrOn BY <2>1 DEF SchedIntrOn
  <2>2. CASE SchedAcquire BY <2>2, LockTypes DEF SchedAcquire
  <2>3. CASE SchedSkip BY <2>3 DEF SchedSkip
  <2>4. CASE SchedRun BY <2>4 DEF SchedRun
  <2>5. CASE SchedBack BY <2>5 DEF SchedBack
  <2>6. CASE SchedRelease
    <3>1. si' \in Procs BY <2>6, ProcAssumption DEF SchedRelease, Procs
    <3> QED BY <2>6, <3>1, LockTypes DEF SchedRelease
  <2> HIDE DEF TypeOK
  <2> QED BY <1>1, <2>1, <2>2, <2>3, <2>4, <2>5, <2>6 DEF Scheduler
<1>2. ASSUME NEW p \in Procs, Switching(p) PROVE TypeOK'
  <2>1. CASE Sched(p) BY <2>1 DEF Sched
  <2>2. CASE Resched(p) BY <2>2 DEF Resched
  <2>3. CASE Yield(p) BY <2>3, LockTypes DEF Yield
  <2>4. CASE YieldDone(p) BY <2>4, LockTypes DEF YieldDone
  <2>5. CASE Sleep(p) BY <2>5, LockTypes, ChanFacts DEF Sleep, SleepChan
  <2>6. CASE SleepRel(p) BY <2>6, LockTypes DEF SleepRel, SleepLock
  <2>7. CASE SleepBack(p) BY <2>7, LockTypes DEF SleepBack, SleepLock
  <2>8. CASE SleepDone(p) BY <2>8, LockTypes, ChanFacts DEF SleepDone, ControlInv, Asleep
  <2> HIDE DEF TypeOK
  <2> QED BY <1>2, <2>1, <2>2, <2>3, <2>4, <2>5, <2>6, <2>7, <2>8 DEF Switching
<1>3. ASSUME NEW p \in Procs, Io(p) PROVE TypeOK'
  BY <1>3, LockTypes DEF Io, IoSubmit, IoWait, IoDone, ControlInv
<1>4. ASSUME NEW p \in Procs, User(p) PROVE TypeOK'
  <2>1. CASE SysFork(p) BY <2>1 DEF SysFork, Ecall
  <2>2. CASE SysWait(p) BY <2>2 DEF SysWait, Ecall
  <2>3. CASE SysExit(p) BY <2>3 DEF SysExit, Ecall
  <2>4. CASE SysSleep(p) BY <2>4 DEF SysSleep, Ecall
  <2>5. CASE SysIo(p) BY <2>5 DEF SysIo, Ecall
  <2>6. CASE Fault(p) BY <2>6 DEF Fault
  <2> HIDE DEF TypeOK
  <2> QED BY <1>4, <2>1, <2>2, <2>3, <2>4, <2>5, <2>6 DEF User
<1>5. ASSUME NEW p \in Procs, Trap(p) PROVE TypeOK'
  <2>1. CASE SysRet(p) BY <2>1 DEF SysRet
  <2>2. CASE UserTrapRet(p) BY <2>2 DEF UserTrapRet
  <2>3. CASE TickTest(p) BY <2>3 DEF TickTest
  <2>4. CASE ForkRet(p) BY <2>4, LockTypes DEF ForkRet
  <2> HIDE DEF TypeOK
  <2> QED BY <1>5, <2>1, <2>2, <2>3, <2>4 DEF Trap
<1>6. ASSUME NEW p \in Procs, Fork(p) PROVE TypeOK'
  <2>1. CASE ForkFull(p) \/ ForkLink(p) \/ ForkRun(p)
    BY <2>1 DEF ForkFull, ForkLink, ForkRun, Section, PushOff
  <2>2. CASE ForkAlloc(p) BY <2>2, LockTypes DEF ForkAlloc
  <2>3. CASE ForkAbort(p) BY <2>3, LockTypes DEF ForkAbort, FreeProc, ControlInv, Forking
  <2>4. CASE ForkCopy(p) BY <2>4, LockTypes DEF ForkCopy, ControlInv, Forking
  <2> HIDE DEF TypeOK
  <2> QED BY <1>6, <2>1, <2>2, <2>3, <2>4 DEF Fork
<1>7. ASSUME NEW p \in Procs, Exit(p) PROVE TypeOK'
  BY <1>7, LockTypes
  DEF Exit, ExitFiles, ExitLock, ExitNotify, ExitZombie, ExitUnlock, WakeUp, Reparent, Section, PushOff
<1>8. ASSUME NEW p \in Procs, WaitCall(p) PROVE TypeOK'
  <2>1. CASE Wait(p) \/ WaitBadAddr(p) \/ WaitNone(p) BY <2>1, LockTypes DEF Wait, WaitBadAddr, WaitNone
  <2>2. CASE WaitReap(p) BY <2>2, LockTypes DEF WaitReap, FreeProc
  <2>3. CASE WaitSleep(p) BY <2>3 DEF WaitSleep
  <2> HIDE DEF TypeOK
  <2> QED BY <1>8, <2>1, <2>2, <2>3 DEF WaitCall
<1>9. ASSUME ClockIntr, sie' \in BOOLEAN, pc' \in [Procs -> Labels] PROVE TypeOK'
  <2>1. tleft' \in [Procs -> 0..MaxSleep] BY <1>9, ProcAssumption DEF ClockIntr, Ticked
  <2>2. status' \in [Procs -> Status] BY <1>9 DEF ClockIntr, WakeUp, TickWakes
  <2> QED BY <1>9, <2>1, <2>2 DEF ClockIntr, Handler
<1>10. ASSUME NEW p \in Procs, UserTick(p) PROVE TypeOK'
  BY <1>9, <1>10 DEF UserTick, AfterTick
<1>11. CASE KernelTick
  BY <1>9, <1>11 DEF KernelTick
<1>12. ASSUME NEW S \in SUBSET Procs, DiskIntr(S) PROVE TypeOK'
  BY <1>12 DEF DiskIntr, WakeUp, Handler
<1> HIDE DEF TypeOK
<1> QED BY <1>1, <1>2, <1>3, <1>4, <1>5, <1>6, <1>7, <1>8, <1>10, <1>11, <1>12
        DEF Next, CpuStep, Kernel

(* The points and the locals stay consistent. *)
LEMMA ControlStep ==
  ASSUME TypeOK, ControlInv, StatusInv, Next
  PROVE  ControlInv'
<1> USE LockFacts DEF TypeOK, ControlInv, StatusInv, Running, Asleep, Forking, Switches,
           Move, On, Goto, table, locals, saved, cpu, sch, dev, rest
<1>1. CASE Scheduler
  BY <1>1 DEF Scheduler, SchedIntrOn, SchedAcquire, SchedSkip, SchedRun, SchedBack, SchedRelease
<1>2. ASSUME NEW p \in Procs, Switching(p) PROVE ControlInv'
  <2>1. CASE Sched(p) BY <2>1 DEF Sched
  <2>2. CASE Resched(p) BY <2>2 DEF Resched
  <2>3. CASE Yield(p) BY <2>3 DEF Yield
  <2>4. CASE YieldDone(p) BY <2>4 DEF YieldDone
  <2>5. CASE Sleep(p) BY <2>5, SleepLockFacts DEF Sleep
  <2>6. CASE SleepRel(p) BY <2>6 DEF SleepRel
  <2>7. CASE SleepBack(p) BY <2>7 DEF SleepBack
  <2>8. CASE SleepDone(p) BY <2>8 DEF SleepDone
  <2> HIDE DEF TypeOK, ControlInv, StatusInv
  <2> QED BY <1>2, <2>1, <2>2, <2>3, <2>4, <2>5, <2>6, <2>7, <2>8 DEF Switching
<1>3. ASSUME NEW p \in Procs, Io(p) PROVE ControlInv'
  BY <1>3 DEF Io, IoSubmit, IoWait, IoDone
<1>4. ASSUME NEW p \in Procs, User(p) PROVE ControlInv'
  BY <1>4 DEF User, Ecall, SysFork, SysWait, SysExit, SysSleep, SysIo, Fault
<1>5. ASSUME NEW p \in Procs, Trap(p) PROVE ControlInv'
  BY <1>5 DEF Trap, SysRet, UserTrapRet, ForkRet, TickTest
<1>6. ASSUME NEW p \in Procs, Fork(p) PROVE ControlInv'
  BY <1>6 DEF Fork, ForkFull, ForkAlloc, ForkAbort, ForkCopy, ForkLink, ForkRun, FreeProc, Unused, First
<1>7. ASSUME NEW p \in Procs, Exit(p) PROVE ControlInv'
  BY <1>7 DEF Exit, ExitFiles, ExitLock, ExitNotify, ExitZombie, ExitUnlock, WakeUp, ExitWakes, Reparent, Kids
<1>8. ASSUME NEW p \in Procs, WaitCall(p) PROVE ControlInv'
  BY <1>8 DEF WaitCall, Wait, WaitReap, WaitBadAddr, WaitNone, WaitSleep, FreeProc, Kids, ZombieKids, First
<1>9. ASSUME NEW p \in Procs, UserTick(p) PROVE ControlInv'
  BY <1>9 DEF UserTick, AfterTick, ClockIntr, WakeUp, TickWakes
<1>10. CASE KernelTick
  BY <1>10 DEF KernelTick, ClockIntr, WakeUp, TickWakes
<1>11. ASSUME NEW S \in SUBSET Procs, DiskIntr(S) PROVE ControlInv'
  BY <1>11 DEF DiskIntr, WakeUp, DiskWakes
<1> HIDE DEF TypeOK, ControlInv, StatusInv
<1> QED BY <1>1, <1>2, <1>3, <1>4, <1>5, <1>6, <1>7, <1>8, <1>9, <1>10, <1>11
        DEF Next, CpuStep, Kernel

(* The locks held are those of the point reached. *)
LEMMA LocksStep ==
  ASSUME TypeOK, ControlInv, LocksInv, StatusInv, Next
  PROVE  LocksInv'
<1> USE LockFacts DEF TypeOK, ControlInv, LocksInv, StatusInv, Running, Asleep, HeldBy,
           Acquire, Release, Section, Handler,
           Move, On, Goto, table, locals, saved, cpu, sch, dev, rest
<1>1. CASE Scheduler
  BY <1>1 DEF Scheduler, SchedIntrOn, SchedAcquire, SchedSkip, SchedRun, SchedBack, SchedRelease
<1>2. ASSUME NEW p \in Procs, Switching(p) PROVE LocksInv'
  <2>1. CASE Sched(p) BY <2>1 DEF Sched
  <2>2. CASE Resched(p) BY <2>2, SleepLockFacts DEF Resched
  <2>3. CASE Yield(p) BY <2>3 DEF Yield
  <2>4. CASE YieldDone(p) BY <2>4 DEF YieldDone
  <2>5. CASE Sleep(p) BY <2>5, SleepLockFacts DEF Sleep
  <2>6. CASE SleepRel(p) BY <2>6, SleepLockFacts DEF SleepRel
  <2>7. CASE SleepBack(p) BY <2>7, SleepLockFacts DEF SleepBack
  <2>8. CASE SleepDone(p) BY <2>8, SleepLockFacts DEF SleepDone
  <2> HIDE DEF TypeOK, ControlInv, LocksInv, StatusInv
  <2> QED BY <1>2, <2>1, <2>2, <2>3, <2>4, <2>5, <2>6, <2>7, <2>8 DEF Switching
<1>3. ASSUME NEW p \in Procs, Io(p) PROVE LocksInv'
  BY <1>3 DEF Io, IoSubmit, IoWait, IoDone, SleepLock
<1>4. ASSUME NEW p \in Procs, User(p) PROVE LocksInv'
  <2>1. CASE SysFork(p) \/ SysWait(p) \/ SysExit(p) BY <2>1 DEF SysFork, Ecall, SysWait, SysExit
  <2>2. CASE SysSleep(p) \/ SysIo(p) \/ Fault(p) BY <2>2 DEF SysSleep, Ecall, SysIo, Fault
  <2> HIDE DEF TypeOK, ControlInv, LocksInv, StatusInv
  <2> QED BY <1>4, <2>1, <2>2 DEF User
<1>5. ASSUME NEW p \in Procs, Trap(p) PROVE LocksInv'
  BY <1>5 DEF Trap, SysRet, UserTrapRet, ForkRet, TickTest, SleepLock
<1>6. ASSUME NEW p \in Procs, Fork(p) PROVE LocksInv'
  <2>1. CASE ForkFull(p) BY <2>1 DEF ForkFull, Unused
  <2>2. CASE ForkAlloc(p) BY <2>2 DEF ForkAlloc, Unused, First
  <2>3. CASE ForkAbort(p) BY <2>3 DEF ForkAbort, FreeProc
  <2>4. CASE ForkCopy(p) BY <2>4 DEF ForkCopy
  <2>5. CASE ForkLink(p) BY <2>5 DEF ForkLink
  <2>6. CASE ForkRun(p) BY <2>6 DEF ForkRun
  <2> HIDE DEF TypeOK, ControlInv, LocksInv, StatusInv
  <2> QED BY <1>6, <2>1, <2>2, <2>3, <2>4, <2>5, <2>6 DEF Fork
<1>7. ASSUME NEW p \in Procs, Exit(p) PROVE LocksInv'
  <2>1. CASE ExitFiles(p) BY <2>1 DEF ExitFiles
  <2>2. CASE ExitLock(p) BY <2>2 DEF ExitLock
  <2>3. CASE ExitNotify(p) BY <2>3 DEF ExitNotify, WakeUp, ExitWakes, Reparent, Kids
  <2>4. CASE ExitZombie(p) BY <2>4 DEF ExitZombie
  <2>5. CASE ExitUnlock(p) BY <2>5 DEF ExitUnlock
  <2> HIDE DEF TypeOK, ControlInv, LocksInv, StatusInv
  <2> QED BY <1>7, <2>1, <2>2, <2>3, <2>4, <2>5 DEF Exit
<1>8. ASSUME NEW p \in Procs, WaitCall(p) PROVE LocksInv'
  <2>1. CASE Wait(p) BY <2>1 DEF Wait, SleepLock
  <2>2. CASE WaitReap(p) BY <2>2 DEF WaitReap, FreeProc, Kids, ZombieKids, First, SleepLock
  <2>3. CASE WaitBadAddr(p) BY <2>3 DEF WaitBadAddr, ZombieKids, Kids, SleepLock
  <2>4. CASE WaitNone(p) BY <2>4 DEF WaitNone, ZombieKids, Kids, SleepLock
  <2>5. CASE WaitSleep(p) BY <2>5 DEF WaitSleep, ZombieKids, Kids, SleepLock
  <2> HIDE DEF TypeOK, ControlInv, LocksInv, StatusInv
  <2> QED BY <1>8, <2>1, <2>2, <2>3, <2>4, <2>5 DEF WaitCall
<1>9. ASSUME NEW p \in Procs, UserTick(p) PROVE LocksInv'
  BY <1>9 DEF UserTick, AfterTick, ClockIntr, WakeUp, TickWakes
<1>10. CASE KernelTick
  BY <1>10 DEF KernelTick, ClockIntr, WakeUp, TickWakes
<1>11. ASSUME NEW S \in SUBSET Procs, DiskIntr(S) PROVE LocksInv'
  BY <1>11 DEF DiskIntr, WakeUp, DiskWakes
<1> HIDE DEF TypeOK, ControlInv, LocksInv, StatusInv
<1> QED BY <1>1, <1>2, <1>3, <1>4, <1>5, <1>6, <1>7, <1>8, <1>9, <1>10, <1>11
        DEF Next, CpuStep, Kernel

(* The depth that is saved across a switch is 1. *)
LEMMA SavedStep ==
  ASSUME TypeOK, ControlInv, LocksInv, SavedInv, LockCount, Next
  PROVE  SavedInv'
<1> USE LockFacts DEF TypeOK, ControlInv, SavedInv, Running,
           Move, On, Goto, table, locals, saved, cpu, sch, dev, rest
<1>1. CASE Scheduler
  <2>1. Cardinality({si}) = 1 BY FS_Singleton
  <2>2. CASE SchedRun BY <2>1, <2>2 DEF SchedRun, LocksInv, LockCount, HeldBy
  <2>3. CASE SchedBack \/ SchedRelease BY <2>3 DEF SchedBack, SchedRelease
  <2>4. CASE SchedIntrOn \/ SchedAcquire \/ SchedSkip BY <2>4 DEF SchedIntrOn, SchedAcquire, SchedSkip
  <2> HIDE DEF TypeOK, ControlInv, SavedInv
  <2> QED BY <1>1, <2>2, <2>3, <2>4 DEF Scheduler
<1>2. ASSUME NEW p \in Procs, Switching(p) PROVE SavedInv'
  <2>1. CASE Sched(p)
    <3>1. Cardinality({p}) = 1 BY FS_Singleton
    <3> QED BY <2>1, <3>1 DEF Sched, LocksInv, LockCount, HeldBy
  <2>2. CASE Resched(p) BY <2>2 DEF Resched
  <2>3. CASE Yield(p) BY <2>3 DEF Yield
  <2>4. CASE YieldDone(p) BY <2>4 DEF YieldDone
  <2>5. CASE Sleep(p) BY <2>5 DEF Sleep
  <2>6. CASE SleepRel(p) BY <2>6 DEF SleepRel
  <2>7. CASE SleepBack(p) BY <2>7 DEF SleepBack
  <2>8. CASE SleepDone(p) BY <2>8 DEF SleepDone
  <2> HIDE DEF TypeOK, ControlInv, SavedInv
  <2> QED BY <1>2, <2>1, <2>2, <2>3, <2>4, <2>5, <2>6, <2>7, <2>8 DEF Switching
<1>3. ASSUME NEW p \in Procs, Io(p) PROVE SavedInv'
  BY <1>3 DEF Io, IoSubmit, IoWait, IoDone
<1>4. ASSUME NEW p \in Procs, User(p) PROVE SavedInv'
  <2>1. CASE SysFork(p) \/ SysWait(p) \/ SysExit(p) BY <2>1 DEF SysFork, Ecall, SysWait, SysExit
  <2>2. CASE SysSleep(p) \/ SysIo(p) \/ Fault(p) BY <2>2 DEF SysSleep, Ecall, SysIo, Fault
  <2> HIDE DEF TypeOK, ControlInv, SavedInv
  <2> QED BY <1>4, <2>1, <2>2 DEF User
<1>5. ASSUME NEW p \in Procs, Trap(p) PROVE SavedInv'
  BY <1>5 DEF Trap, SysRet, UserTrapRet, ForkRet, TickTest
<1>6. ASSUME NEW p \in Procs, Fork(p) PROVE SavedInv'
  <2>1. CASE ForkFull(p) BY <2>1 DEF ForkFull, Unused
  <2>2. CASE ForkAlloc(p) BY <2>2 DEF ForkAlloc, Unused, First
  <2>3. CASE ForkAbort(p) BY <2>3 DEF ForkAbort, FreeProc
  <2>4. CASE ForkCopy(p) BY <2>4 DEF ForkCopy
  <2>5. CASE ForkLink(p) BY <2>5 DEF ForkLink
  <2>6. CASE ForkRun(p) BY <2>6 DEF ForkRun
  <2> HIDE DEF TypeOK, ControlInv, SavedInv
  <2> QED BY <1>6, <2>1, <2>2, <2>3, <2>4, <2>5, <2>6 DEF Fork
<1>7. ASSUME NEW p \in Procs, Exit(p) PROVE SavedInv'
  <2>1. CASE ExitFiles(p) BY <2>1 DEF ExitFiles
  <2>2. CASE ExitLock(p) BY <2>2 DEF ExitLock
  <2>3. CASE ExitNotify(p) BY <2>3 DEF ExitNotify, WakeUp, ExitWakes, Reparent, Kids
  <2>4. CASE ExitZombie(p) BY <2>4 DEF ExitZombie
  <2>5. CASE ExitUnlock(p) BY <2>5 DEF ExitUnlock
  <2> HIDE DEF TypeOK, ControlInv, SavedInv
  <2> QED BY <1>7, <2>1, <2>2, <2>3, <2>4, <2>5 DEF Exit
<1>8. ASSUME NEW p \in Procs, WaitCall(p) PROVE SavedInv'
  <2>1. CASE Wait(p) BY <2>1 DEF Wait
  <2>2. CASE WaitReap(p) BY <2>2 DEF WaitReap, FreeProc, Kids, ZombieKids, First
  <2>3. CASE WaitBadAddr(p) BY <2>3 DEF WaitBadAddr, ZombieKids, Kids
  <2>4. CASE WaitNone(p) BY <2>4 DEF WaitNone, ZombieKids, Kids
  <2>5. CASE WaitSleep(p) BY <2>5 DEF WaitSleep, ZombieKids, Kids
  <2> HIDE DEF TypeOK, ControlInv, SavedInv
  <2> QED BY <1>8, <2>1, <2>2, <2>3, <2>4, <2>5 DEF WaitCall
<1>9. ASSUME NEW p \in Procs, UserTick(p) PROVE SavedInv'
  BY <1>9 DEF UserTick, AfterTick, ClockIntr, WakeUp, TickWakes
<1>10. CASE KernelTick
  BY <1>10 DEF KernelTick, ClockIntr, WakeUp, TickWakes
<1>11. ASSUME NEW S \in SUBSET Procs, DiskIntr(S) PROVE SavedInv'
  BY <1>11 DEF DiskIntr, WakeUp, DiskWakes
<1> HIDE DEF TypeOK, ControlInv, SavedInv
<1> QED BY <1>1, <1>2, <1>3, <1>4, <1>5, <1>6, <1>7, <1>8, <1>9, <1>10, <1>11
        DEF Next, CpuStep, Kernel

(* The status follows the points. *)
LEMMA StatusStep ==
  ASSUME TypeOK, ControlInv, StatusInv, Next
  PROVE  StatusInv'
<1> USE LockFacts DEF TypeOK, ControlInv, StatusInv, Asleep, Forking, Switches, SleepChan, Running,
           Move, On, Goto, table, locals, saved, cpu, sch, dev, rest
<1>1. CASE Scheduler
  BY <1>1 DEF Scheduler, SchedIntrOn, SchedAcquire, SchedSkip, SchedRun, SchedBack, SchedRelease
<1>2. ASSUME NEW p \in Procs, Switching(p) PROVE StatusInv'
  <2>1. CASE Sched(p) BY <2>1 DEF Sched
  <2>2. CASE Resched(p) BY <2>2 DEF Resched
  <2>3. CASE Yield(p) BY <2>3 DEF Yield
  <2>4. CASE YieldDone(p) BY <2>4 DEF YieldDone
  <2>5. CASE Sleep(p) BY <2>5 DEF Sleep
  <2>6. CASE SleepRel(p) BY <2>6 DEF SleepRel
  <2>7. CASE SleepBack(p) BY <2>7 DEF SleepBack
  <2>8. CASE SleepDone(p) BY <2>8 DEF SleepDone
  <2> HIDE DEF TypeOK, ControlInv, StatusInv
  <2> QED BY <1>2, <2>1, <2>2, <2>3, <2>4, <2>5, <2>6, <2>7, <2>8 DEF Switching
<1>3. ASSUME NEW p \in Procs, Io(p) PROVE StatusInv'
  BY <1>3 DEF Io, IoSubmit, IoWait, IoDone
<1>4. ASSUME NEW p \in Procs, User(p) PROVE StatusInv'
  BY <1>4 DEF User, Ecall, SysFork, SysWait, SysExit, SysSleep, SysIo, Fault
<1>5. ASSUME NEW p \in Procs, Trap(p) PROVE StatusInv'
  BY <1>5 DEF Trap, SysRet, UserTrapRet, ForkRet, TickTest
<1>6. ASSUME NEW p \in Procs, Fork(p) PROVE StatusInv'
  BY <1>6 DEF Fork, ForkFull, ForkAlloc, ForkAbort, ForkCopy, ForkLink, ForkRun, FreeProc, Unused, First
<1>7. ASSUME NEW p \in Procs, Exit(p) PROVE StatusInv'
  BY <1>7 DEF Exit, ExitFiles, ExitLock, ExitNotify, ExitZombie, ExitUnlock, WakeUp, ExitWakes, Reparent, Kids
<1>8. ASSUME NEW p \in Procs, WaitCall(p) PROVE StatusInv'
  BY <1>8 DEF WaitCall, Wait, WaitReap, WaitBadAddr, WaitNone, WaitSleep, FreeProc, Kids, ZombieKids, First
<1>9. ASSUME NEW p \in Procs, UserTick(p) PROVE StatusInv'
  BY <1>9 DEF UserTick, AfterTick, ClockIntr, WakeUp, TickWakes
<1>10. CASE KernelTick
  BY <1>10 DEF KernelTick, ClockIntr, WakeUp, TickWakes
<1>11. ASSUME NEW S \in SUBSET Procs, DiskIntr(S) PROVE StatusInv'
  BY <1>11 DEF DiskIntr, WakeUp, DiskWakes
<1> HIDE DEF TypeOK, ControlInv, StatusInv
<1> QED BY <1>1, <1>2, <1>3, <1>4, <1>5, <1>6, <1>7, <1>8, <1>9, <1>10, <1>11
        DEF Next, CpuStep, Kernel

(* A free slot has no kill mark. *)
LEMMA NewbornStep ==
  ASSUME TypeOK, ControlInv, StatusInv, NewbornClean, Next
  PROVE  NewbornClean'
<1> USE LockFacts DEF TypeOK, ControlInv, StatusInv, NewbornClean, Forking, Running,
           Move, On, Goto, table, locals, saved, cpu, sch, dev, rest
<1>1. CASE Scheduler
  BY <1>1 DEF Scheduler, SchedIntrOn, SchedAcquire, SchedSkip, SchedRun, SchedBack, SchedRelease
<1>2. ASSUME NEW p \in Procs, Switching(p) PROVE NewbornClean'
  <2>1. CASE Sched(p) BY <2>1 DEF Sched
  <2>2. CASE Resched(p) BY <2>2 DEF Resched
  <2>3. CASE Yield(p) BY <2>3 DEF Yield
  <2>4. CASE YieldDone(p) BY <2>4 DEF YieldDone
  <2>5. CASE Sleep(p) BY <2>5 DEF Sleep
  <2>6. CASE SleepRel(p) BY <2>6 DEF SleepRel
  <2>7. CASE SleepBack(p) BY <2>7 DEF SleepBack
  <2>8. CASE SleepDone(p) BY <2>8 DEF SleepDone
  <2> HIDE DEF TypeOK, ControlInv, StatusInv, NewbornClean
  <2> QED BY <1>2, <2>1, <2>2, <2>3, <2>4, <2>5, <2>6, <2>7, <2>8 DEF Switching
<1>3. ASSUME NEW p \in Procs, Io(p) PROVE NewbornClean'
  BY <1>3 DEF Io, IoSubmit, IoWait, IoDone
<1>4. ASSUME NEW p \in Procs, User(p) PROVE NewbornClean'
  <2>1. CASE SysFork(p) \/ SysWait(p) \/ SysExit(p) BY <2>1 DEF SysFork, Ecall, SysWait, SysExit
  <2>2. CASE SysSleep(p) \/ SysIo(p) \/ Fault(p) BY <2>2 DEF SysSleep, Ecall, SysIo, Fault
  <2> HIDE DEF TypeOK, ControlInv, StatusInv, NewbornClean
  <2> QED BY <1>4, <2>1, <2>2 DEF User
<1>5. ASSUME NEW p \in Procs, Trap(p) PROVE NewbornClean'
  BY <1>5 DEF Trap, SysRet, UserTrapRet, ForkRet, TickTest
<1>6. ASSUME NEW p \in Procs, Fork(p) PROVE NewbornClean'
  BY <1>6 DEF Fork, ForkFull, ForkAlloc, ForkAbort, ForkCopy, ForkLink, ForkRun, FreeProc, Unused, First
<1>7. ASSUME NEW p \in Procs, Exit(p) PROVE NewbornClean'
  BY <1>7 DEF Exit, ExitFiles, ExitLock, ExitNotify, ExitZombie, ExitUnlock, WakeUp, ExitWakes, Reparent, Kids
<1>8. ASSUME NEW p \in Procs, WaitCall(p) PROVE NewbornClean'
  BY <1>8 DEF WaitCall, Wait, WaitReap, WaitBadAddr, WaitNone, WaitSleep, FreeProc, Kids, ZombieKids, First
<1>9. ASSUME NEW p \in Procs, UserTick(p) PROVE NewbornClean'
  BY <1>9 DEF UserTick, AfterTick, ClockIntr, WakeUp, TickWakes
<1>10. CASE KernelTick
  BY <1>10 DEF KernelTick, ClockIntr, WakeUp, TickWakes
<1>11. ASSUME NEW S \in SUBSET Procs, DiskIntr(S) PROVE NewbornClean'
  BY <1>11 DEF DiskIntr, WakeUp, DiskWakes
<1> HIDE DEF TypeOK, ControlInv, StatusInv, NewbornClean
<1> QED BY <1>1, <1>2, <1>3, <1>4, <1>5, <1>6, <1>7, <1>8, <1>9, <1>10, <1>11
        DEF Next, CpuStep, Kernel

(* fork() and exit() keep the family consistent between their steps. *)
LEMMA FamilyStep ==
  ASSUME TypeOK, ControlInv, StatusInv, FamilyInv, ParentAlive, Next
  PROVE  FamilyInv'
<1> USE LockFacts DEF TypeOK, ControlInv, StatusInv, FamilyInv, ParentAlive, ZombieKids, Kids,
           Asleep, Forking, Running,
           Move, On, Goto, table, locals, saved, cpu, sch, dev, rest
<1>1. CASE Scheduler
  BY <1>1 DEF Scheduler, SchedIntrOn, SchedAcquire, SchedSkip, SchedRun, SchedBack, SchedRelease
<1>2. ASSUME NEW p \in Procs, Switching(p) PROVE FamilyInv'
  <2>1. CASE Sched(p) BY <2>1 DEF Sched
  <2>2. CASE Resched(p) BY <2>2 DEF Resched
  <2>3. CASE Yield(p) BY <2>3 DEF Yield
  <2>4. CASE YieldDone(p) BY <2>4 DEF YieldDone
  <2>5. CASE Sleep(p) BY <2>5 DEF Sleep
  <2>6. CASE SleepRel(p) BY <2>6 DEF SleepRel
  <2>7. CASE SleepBack(p) BY <2>7 DEF SleepBack
  <2>8. CASE SleepDone(p) BY <2>8 DEF SleepDone
  <2> HIDE DEF TypeOK, ControlInv, StatusInv, FamilyInv, ParentAlive
  <2> QED BY <1>2, <2>1, <2>2, <2>3, <2>4, <2>5, <2>6, <2>7, <2>8 DEF Switching
<1>3. ASSUME NEW p \in Procs, Io(p) PROVE FamilyInv'
  BY <1>3 DEF Io, IoSubmit, IoWait, IoDone
<1>4. ASSUME NEW p \in Procs, User(p) PROVE FamilyInv'
  <2>1. CASE SysFork(p) \/ SysWait(p) \/ SysExit(p) BY <2>1 DEF SysFork, Ecall, SysWait, SysExit
  <2>2. CASE SysSleep(p) \/ SysIo(p) \/ Fault(p) BY <2>2 DEF SysSleep, Ecall, SysIo, Fault
  <2> HIDE DEF TypeOK, ControlInv, StatusInv, FamilyInv, ParentAlive
  <2> QED BY <1>4, <2>1, <2>2 DEF User
<1>5. ASSUME NEW p \in Procs, Trap(p) PROVE FamilyInv'
  BY <1>5 DEF Trap, SysRet, UserTrapRet, ForkRet, TickTest
<1>6. ASSUME NEW p \in Procs, Fork(p) PROVE FamilyInv'
  <2>1. CASE ForkFull(p) BY <2>1 DEF ForkFull, Unused
  <2>2. CASE ForkAlloc(p) BY <2>2 DEF ForkAlloc, Unused, First
  <2>3. CASE ForkAbort(p) BY <2>3 DEF ForkAbort, FreeProc
  <2>4. CASE ForkCopy(p) BY <2>4 DEF ForkCopy
  <2>5. CASE ForkLink(p) BY <2>5 DEF ForkLink
  <2>6. CASE ForkRun(p) BY <2>6 DEF ForkRun
  <2> HIDE DEF TypeOK, ControlInv, StatusInv, FamilyInv, ParentAlive
  <2> QED BY <1>6, <2>1, <2>2, <2>3, <2>4, <2>5, <2>6 DEF Fork
<1>7. ASSUME NEW p \in Procs, Exit(p) PROVE FamilyInv'
  BY <1>7 DEF Exit, ExitFiles, ExitLock, ExitNotify, ExitZombie, ExitUnlock, WakeUp, ExitWakes, Reparent, Kids
<1>8. ASSUME NEW p \in Procs, WaitCall(p) PROVE FamilyInv'
  BY <1>8 DEF WaitCall, Wait, WaitReap, WaitBadAddr, WaitNone, WaitSleep, FreeProc, Kids, ZombieKids, First
<1>9. ASSUME NEW p \in Procs, UserTick(p) PROVE FamilyInv'
  BY <1>9 DEF UserTick, AfterTick, ClockIntr, WakeUp, TickWakes
<1>10. CASE KernelTick
  BY <1>10 DEF KernelTick, ClockIntr, WakeUp, TickWakes
<1>11. ASSUME NEW S \in SUBSET Procs, DiskIntr(S) PROVE FamilyInv'
  BY <1>11 DEF DiskIntr, WakeUp, DiskWakes
<1> HIDE DEF TypeOK, ControlInv, StatusInv, FamilyInv, ParentAlive
<1> QED BY <1>1, <1>2, <1>3, <1>4, <1>5, <1>6, <1>7, <1>8, <1>9, <1>10, <1>11
        DEF Next, CpuStep, Kernel

(* Parents stay alive. *)
LEMMA ParentStep ==
  ASSUME TypeOK, ControlInv, StatusInv, FamilyInv, ParentAlive, Next
  PROVE  ParentAlive'
<1> USE LockFacts DEF TypeOK, ControlInv, StatusInv, FamilyInv, ParentAlive, Forking, Running,
           Move, On, Goto, table, locals, saved, cpu, sch, dev, rest
<1>1. CASE Scheduler
  BY <1>1 DEF Scheduler, SchedIntrOn, SchedAcquire, SchedSkip, SchedRun, SchedBack, SchedRelease
<1>2. ASSUME NEW p \in Procs, Switching(p) PROVE ParentAlive'
  <2>1. CASE Sched(p) BY <2>1 DEF Sched
  <2>2. CASE Resched(p) BY <2>2 DEF Resched
  <2>3. CASE Yield(p) BY <2>3 DEF Yield
  <2>4. CASE YieldDone(p) BY <2>4 DEF YieldDone
  <2>5. CASE Sleep(p) BY <2>5 DEF Sleep
  <2>6. CASE SleepRel(p) BY <2>6 DEF SleepRel
  <2>7. CASE SleepBack(p) BY <2>7 DEF SleepBack
  <2>8. CASE SleepDone(p) BY <2>8 DEF SleepDone
  <2> HIDE DEF TypeOK, ControlInv, StatusInv, FamilyInv, ParentAlive
  <2> QED BY <1>2, <2>1, <2>2, <2>3, <2>4, <2>5, <2>6, <2>7, <2>8 DEF Switching
<1>3. ASSUME NEW p \in Procs, Io(p) PROVE ParentAlive'
  BY <1>3 DEF Io, IoSubmit, IoWait, IoDone
<1>4. ASSUME NEW p \in Procs, User(p) PROVE ParentAlive'
  BY <1>4 DEF User, Ecall, SysFork, SysWait, SysExit, SysSleep, SysIo, Fault
<1>5. ASSUME NEW p \in Procs, Trap(p) PROVE ParentAlive'
  BY <1>5 DEF Trap, SysRet, UserTrapRet, ForkRet, TickTest
<1>6. ASSUME NEW p \in Procs, Fork(p) PROVE ParentAlive'
  <2>1. CASE ForkFull(p) BY <2>1 DEF ForkFull, Unused
  <2>2. CASE ForkAlloc(p) BY <2>2 DEF ForkAlloc, Unused, First
  <2>3. CASE ForkAbort(p) BY <2>3 DEF ForkAbort, FreeProc
  <2>4. CASE ForkCopy(p) BY <2>4 DEF ForkCopy
  <2>5. CASE ForkLink(p) BY <2>5 DEF ForkLink
  <2>6. CASE ForkRun(p) BY <2>6 DEF ForkRun
  <2> HIDE DEF TypeOK, ControlInv, StatusInv, FamilyInv, ParentAlive
  <2> QED BY <1>6, <2>1, <2>2, <2>3, <2>4, <2>5, <2>6 DEF Fork
<1>7. ASSUME NEW p \in Procs, Exit(p) PROVE ParentAlive'
  <2>1. CASE ExitFiles(p) BY <2>1 DEF ExitFiles
  <2>2. CASE ExitLock(p) BY <2>2 DEF ExitLock
  <2>3. CASE ExitNotify(p) BY <2>3 DEF ExitNotify, WakeUp, ExitWakes, Reparent, Kids
  <2>4. CASE ExitZombie(p) BY <2>4 DEF ExitZombie
  <2>5. CASE ExitUnlock(p) BY <2>5 DEF ExitUnlock
  <2> HIDE DEF TypeOK, ControlInv, StatusInv, FamilyInv, ParentAlive
  <2> QED BY <1>7, <2>1, <2>2, <2>3, <2>4, <2>5 DEF Exit
<1>8. ASSUME NEW p \in Procs, WaitCall(p) PROVE ParentAlive'
  BY <1>8 DEF WaitCall, Wait, WaitReap, WaitBadAddr, WaitNone, WaitSleep, FreeProc, Kids, ZombieKids, First
<1>9. ASSUME NEW p \in Procs, UserTick(p) PROVE ParentAlive'
  BY <1>9 DEF UserTick, AfterTick, ClockIntr, WakeUp, TickWakes
<1>10. CASE KernelTick
  BY <1>10 DEF KernelTick, ClockIntr, WakeUp, TickWakes
<1>11. ASSUME NEW S \in SUBSET Procs, DiskIntr(S) PROVE ParentAlive'
  BY <1>11 DEF DiskIntr, WakeUp, DiskWakes
<1> HIDE DEF TypeOK, ControlInv, StatusInv, FamilyInv, ParentAlive
<1> QED BY <1>1, <1>2, <1>3, <1>4, <1>5, <1>6, <1>7, <1>8, <1>9, <1>10, <1>11
        DEF Next, CpuStep, Kernel

(* No zombie is missed. *)
LEMMA ZombieStep ==
  ASSUME TypeOK, ControlInv, StatusInv, FamilyInv, ParentAlive, ZombieNotMissed, Next
  PROVE  ZombieNotMissed'
<1> USE LockFacts DEF TypeOK, ControlInv, StatusInv, FamilyInv, ParentAlive, ZombieNotMissed,
           Asleep, SleepChan, ProcChan, BufChan, TickChan, NoChan, Running,
           Move, On, Goto, table, locals, saved, cpu, sch, dev, rest
<1>1. CASE Scheduler
  <2>1. CASE SchedIntrOn BY <2>1 DEF SchedIntrOn
  <2>2. CASE SchedAcquire BY <2>2 DEF SchedAcquire
  <2>3. CASE SchedSkip BY <2>3 DEF SchedSkip
  <2>4. CASE SchedRun BY <2>4 DEF SchedRun
  <2>5. CASE SchedBack BY <2>5 DEF SchedBack
  <2>6. CASE SchedRelease BY <2>6 DEF SchedRelease
  <2> HIDE DEF TypeOK, ControlInv, StatusInv, FamilyInv, ParentAlive, ZombieNotMissed
  <2> QED BY <1>1, <2>1, <2>2, <2>3, <2>4, <2>5, <2>6 DEF Scheduler
<1>2. ASSUME NEW p \in Procs, Switching(p) PROVE ZombieNotMissed'
  <2>1. CASE Sched(p) BY <2>1 DEF Sched
  <2>2. CASE Resched(p) BY <2>2 DEF Resched
  <2>3. CASE Yield(p) BY <2>3 DEF Yield
  <2>4. CASE YieldDone(p) BY <2>4 DEF YieldDone
  <2>5. CASE Sleep(p) BY <2>5 DEF Sleep, ZombieKids, Kids
  <2>6. CASE SleepRel(p) BY <2>6 DEF SleepRel
  <2>7. CASE SleepBack(p) BY <2>7 DEF SleepBack
  <2>8. CASE SleepDone(p) BY <2>8 DEF SleepDone
  <2> HIDE DEF TypeOK, ControlInv, StatusInv, FamilyInv, ParentAlive, ZombieNotMissed
  <2> QED BY <1>2, <2>1, <2>2, <2>3, <2>4, <2>5, <2>6, <2>7, <2>8 DEF Switching
<1>3. ASSUME NEW p \in Procs, Io(p) PROVE ZombieNotMissed'
  BY <1>3 DEF Io, IoSubmit, IoWait, IoDone
<1>4. ASSUME NEW p \in Procs, User(p) PROVE ZombieNotMissed'
  <2>1. CASE SysFork(p) \/ SysWait(p) \/ SysExit(p) BY <2>1 DEF SysFork, Ecall, SysWait, SysExit
  <2>2. CASE SysSleep(p) \/ SysIo(p) \/ Fault(p) BY <2>2 DEF SysSleep, Ecall, SysIo, Fault
  <2> HIDE DEF TypeOK, ControlInv, StatusInv, FamilyInv, ParentAlive, ZombieNotMissed
  <2> QED BY <1>4, <2>1, <2>2 DEF User
<1>5. ASSUME NEW p \in Procs, Trap(p) PROVE ZombieNotMissed'
  <2>1. CASE SysRet(p) BY <2>1 DEF SysRet
  <2>2. CASE UserTrapRet(p) BY <2>2 DEF UserTrapRet
  <2>3. CASE ForkRet(p) BY <2>3 DEF ForkRet
  <2>4. CASE TickTest(p) BY <2>4 DEF TickTest
  <2> HIDE DEF TypeOK, ControlInv, StatusInv, FamilyInv, ParentAlive, ZombieNotMissed
  <2> QED BY <1>5, <2>1, <2>2, <2>3, <2>4 DEF Trap
<1>6. ASSUME NEW p \in Procs, Fork(p) PROVE ZombieNotMissed'
  <2>1. CASE ForkFull(p) BY <2>1 DEF ForkFull, Unused
  <2>2. CASE ForkAlloc(p) BY <2>2 DEF ForkAlloc, Unused, First
  <2>3. CASE ForkAbort(p) BY <2>3 DEF ForkAbort, FreeProc
  <2>4. CASE ForkCopy(p) BY <2>4 DEF ForkCopy
  <2>5. CASE ForkLink(p) BY <2>5 DEF ForkLink
  <2>6. CASE ForkRun(p) BY <2>6 DEF ForkRun
  <2> HIDE DEF TypeOK, ControlInv, StatusInv, FamilyInv, ParentAlive, ZombieNotMissed
  <2> QED BY <1>6, <2>1, <2>2, <2>3, <2>4, <2>5, <2>6 DEF Fork
<1>7. ASSUME NEW p \in Procs, Exit(p) PROVE ZombieNotMissed'
  <2>1. CASE ExitFiles(p) BY <2>1 DEF ExitFiles
  <2>2. CASE ExitLock(p) BY <2>2 DEF ExitLock
  <2>3. CASE ExitNotify(p) BY <2>3 DEF ExitNotify, WakeUp, ExitWakes, Reparent, Kids
  <2>4. CASE ExitZombie(p) BY <2>4 DEF ExitZombie
  <2>5. CASE ExitUnlock(p) BY <2>5 DEF ExitUnlock
  <2> HIDE DEF TypeOK, ControlInv, StatusInv, FamilyInv, ParentAlive, ZombieNotMissed
  <2> QED BY <1>7, <2>1, <2>2, <2>3, <2>4, <2>5 DEF Exit
<1>8. ASSUME NEW p \in Procs, WaitCall(p) PROVE ZombieNotMissed'
  <2>1. CASE Wait(p) BY <2>1 DEF Wait
  <2>2. CASE WaitReap(p) BY <2>2 DEF WaitReap, FreeProc, Kids, ZombieKids, First
  <2>3. CASE WaitBadAddr(p) BY <2>3 DEF WaitBadAddr, ZombieKids, Kids
  <2>4. CASE WaitNone(p) BY <2>4 DEF WaitNone, ZombieKids, Kids
  <2>5. CASE WaitSleep(p) BY <2>5 DEF WaitSleep, ZombieKids, Kids
  <2> HIDE DEF TypeOK, ControlInv, StatusInv, FamilyInv, ParentAlive, ZombieNotMissed
  <2> QED BY <1>8, <2>1, <2>2, <2>3, <2>4, <2>5 DEF WaitCall
<1>9. ASSUME NEW p \in Procs, UserTick(p) PROVE ZombieNotMissed'
  BY <1>9 DEF UserTick, AfterTick, ClockIntr, WakeUp, TickWakes
<1>10. CASE KernelTick
  BY <1>10 DEF KernelTick, ClockIntr, WakeUp, TickWakes
<1>11. ASSUME NEW S \in SUBSET Procs, DiskIntr(S) PROVE ZombieNotMissed'
  BY <1>11 DEF DiskIntr, WakeUp, DiskWakes
<1> HIDE DEF TypeOK, ControlInv, StatusInv, FamilyInv, ParentAlive, ZombieNotMissed
<1> QED BY <1>1, <1>2, <1>3, <1>4, <1>5, <1>6, <1>7, <1>8, <1>9, <1>10, <1>11
        DEF Next, CpuStep, Kernel

(* A request about to be slept for is in flight. *)
LEMMA DiskStep ==
  ASSUME TypeOK, ControlInv, LocksInv, IntrSafe, DiskInv, Next
  PROVE  DiskInv'
<1> USE LockFacts DEF TypeOK, ControlInv, SleepLock, DiskInv, Running,
           Move, On, Goto, table, locals, saved, cpu, sch, dev, rest
<1>1. CASE Scheduler
  BY <1>1 DEF Scheduler, SchedIntrOn, SchedAcquire, SchedSkip, SchedRun, SchedBack, SchedRelease
<1>2. ASSUME NEW p \in Procs, Switching(p) PROVE DiskInv'
  <2>1. CASE Sched(p) BY <2>1 DEF Sched
  <2>2. CASE Resched(p) BY <2>2 DEF Resched
  <2>3. CASE Yield(p) BY <2>3 DEF Yield
  <2>4. CASE YieldDone(p) BY <2>4 DEF YieldDone
  <2>5. CASE Sleep(p) BY <2>5 DEF Sleep
  <2>6. CASE SleepRel(p) BY <2>6 DEF SleepRel
  <2>7. CASE SleepBack(p) BY <2>7 DEF SleepBack
  <2>8. CASE SleepDone(p) BY <2>8 DEF SleepDone
  <2> HIDE DEF TypeOK, ControlInv, DiskInv
  <2> QED BY <1>2, <2>1, <2>2, <2>3, <2>4, <2>5, <2>6, <2>7, <2>8 DEF Switching
<1>3. ASSUME NEW p \in Procs, Io(p) PROVE DiskInv'
  BY <1>3 DEF Io, IoSubmit, IoWait, IoDone
<1>4. ASSUME NEW p \in Procs, User(p) PROVE DiskInv'
  <2>1. CASE SysFork(p) \/ SysWait(p) \/ SysExit(p) BY <2>1 DEF SysFork, Ecall, SysWait, SysExit
  <2>2. CASE SysSleep(p) \/ SysIo(p) \/ Fault(p) BY <2>2 DEF SysSleep, Ecall, SysIo, Fault
  <2> HIDE DEF TypeOK, ControlInv, DiskInv
  <2> QED BY <1>4, <2>1, <2>2 DEF User
<1>5. ASSUME NEW p \in Procs, Trap(p) PROVE DiskInv'
  <2>1. CASE SysRet(p) BY <2>1 DEF SysRet
  <2>2. CASE UserTrapRet(p) BY <2>2 DEF UserTrapRet
  <2>3. CASE ForkRet(p) BY <2>3 DEF ForkRet
  <2>4. CASE TickTest(p) BY <2>4 DEF TickTest
  <2> HIDE DEF TypeOK, ControlInv, DiskInv
  <2> QED BY <1>5, <2>1, <2>2, <2>3, <2>4 DEF Trap
<1>6. ASSUME NEW p \in Procs, Fork(p) PROVE DiskInv'
  <2>1. CASE ForkFull(p) BY <2>1 DEF ForkFull, Unused
  <2>2. CASE ForkAlloc(p) BY <2>2 DEF ForkAlloc, Unused, First
  <2>3. CASE ForkAbort(p) BY <2>3 DEF ForkAbort, FreeProc
  <2>4. CASE ForkCopy(p) BY <2>4 DEF ForkCopy
  <2>5. CASE ForkLink(p) BY <2>5 DEF ForkLink
  <2>6. CASE ForkRun(p) BY <2>6 DEF ForkRun
  <2> HIDE DEF TypeOK, ControlInv, DiskInv
  <2> QED BY <1>6, <2>1, <2>2, <2>3, <2>4, <2>5, <2>6 DEF Fork
<1>7. ASSUME NEW p \in Procs, Exit(p) PROVE DiskInv'
  <2>1. CASE ExitFiles(p) BY <2>1 DEF ExitFiles
  <2>2. CASE ExitLock(p) BY <2>2 DEF ExitLock
  <2>3. CASE ExitNotify(p) BY <2>3 DEF ExitNotify, WakeUp, ExitWakes, Reparent, Kids
  <2>4. CASE ExitZombie(p) BY <2>4 DEF ExitZombie
  <2>5. CASE ExitUnlock(p) BY <2>5 DEF ExitUnlock
  <2> HIDE DEF TypeOK, ControlInv, DiskInv
  <2> QED BY <1>7, <2>1, <2>2, <2>3, <2>4, <2>5 DEF Exit
<1>8. ASSUME NEW p \in Procs, WaitCall(p) PROVE DiskInv'
  <2>1. CASE Wait(p) BY <2>1 DEF Wait
  <2>2. CASE WaitReap(p) BY <2>2 DEF WaitReap, FreeProc, Kids, ZombieKids, First
  <2>3. CASE WaitBadAddr(p) BY <2>3 DEF WaitBadAddr, ZombieKids, Kids
  <2>4. CASE WaitNone(p) BY <2>4 DEF WaitNone, ZombieKids, Kids
  <2>5. CASE WaitSleep(p) BY <2>5 DEF WaitSleep, ZombieKids, Kids
  <2> HIDE DEF TypeOK, ControlInv, DiskInv
  <2> QED BY <1>8, <2>1, <2>2, <2>3, <2>4, <2>5 DEF WaitCall
<1>9. ASSUME NEW p \in Procs, UserTick(p) PROVE DiskInv'
  BY <1>9 DEF UserTick, AfterTick, ClockIntr, WakeUp, TickWakes
<1>10. CASE KernelTick
  BY <1>10 DEF LocksInv, IntrSafe, HeldBy, KernelTick, ClockIntr, WakeUp, TickWakes
<1>11. ASSUME NEW S \in SUBSET Procs, DiskIntr(S) PROVE DiskInv'
  BY <1>11 DEF LocksInv, IntrSafe, HeldBy, DiskIntr, WakeUp, DiskWakes
<1> HIDE DEF TypeOK, ControlInv, DiskInv
<1> QED BY <1>1, <1>2, <1>3, <1>4, <1>5, <1>6, <1>7, <1>8, <1>9, <1>10, <1>11
        DEF Next, CpuStep, Kernel

(* No completion is missed. *)
LEMMA DiskWakeStep ==
  ASSUME TypeOK, ControlInv, LocksInv, IntrSafe, StatusInv, DiskInv, DiskWakeNotLost, Next
  PROVE  DiskWakeNotLost'
<1> USE LockFacts DEF TypeOK, ControlInv, StatusInv, DiskInv, DiskWakeNotLost,
           SleepChan, ProcChan, BufChan, TickChan, NoChan, Running,
           Move, On, Goto, table, locals, saved, cpu, sch, dev, rest
<1>1. CASE Scheduler
  <2>1. CASE SchedIntrOn BY <2>1 DEF SchedIntrOn
  <2>2. CASE SchedAcquire BY <2>2 DEF SchedAcquire
  <2>3. CASE SchedSkip BY <2>3 DEF SchedSkip
  <2>4. CASE SchedRun BY <2>4 DEF SchedRun
  <2>5. CASE SchedBack BY <2>5 DEF SchedBack
  <2>6. CASE SchedRelease BY <2>6 DEF SchedRelease
  <2> HIDE DEF TypeOK, ControlInv, StatusInv, DiskInv, DiskWakeNotLost
  <2> QED BY <1>1, <2>1, <2>2, <2>3, <2>4, <2>5, <2>6 DEF Scheduler
<1>2. ASSUME NEW p \in Procs, Switching(p) PROVE DiskWakeNotLost'
  <2>1. CASE Sched(p) BY <2>1 DEF Sched
  <2>2. CASE Resched(p) BY <2>2 DEF Resched
  <2>3. CASE Yield(p) BY <2>3 DEF Yield
  <2>4. CASE YieldDone(p) BY <2>4 DEF YieldDone
  <2>5. CASE Sleep(p) BY <2>5 DEF Sleep
  <2>6. CASE SleepRel(p) BY <2>6 DEF SleepRel
  <2>7. CASE SleepBack(p) BY <2>7 DEF SleepBack
  <2>8. CASE SleepDone(p) BY <2>8 DEF SleepDone
  <2> HIDE DEF TypeOK, ControlInv, StatusInv, DiskInv, DiskWakeNotLost
  <2> QED BY <1>2, <2>1, <2>2, <2>3, <2>4, <2>5, <2>6, <2>7, <2>8 DEF Switching
<1>3. ASSUME NEW p \in Procs, Io(p) PROVE DiskWakeNotLost'
  BY <1>3 DEF Io, IoSubmit, IoWait, IoDone
<1>4. ASSUME NEW p \in Procs, User(p) PROVE DiskWakeNotLost'
  <2>1. CASE SysFork(p) \/ SysWait(p) \/ SysExit(p) BY <2>1 DEF SysFork, Ecall, SysWait, SysExit
  <2>2. CASE SysSleep(p) \/ SysIo(p) \/ Fault(p) BY <2>2 DEF SysSleep, Ecall, SysIo, Fault
  <2> HIDE DEF TypeOK, ControlInv, StatusInv, DiskInv, DiskWakeNotLost
  <2> QED BY <1>4, <2>1, <2>2 DEF User
<1>5. ASSUME NEW p \in Procs, Trap(p) PROVE DiskWakeNotLost'
  <2>1. CASE SysRet(p) BY <2>1 DEF SysRet
  <2>2. CASE UserTrapRet(p) BY <2>2 DEF UserTrapRet
  <2>3. CASE ForkRet(p) BY <2>3 DEF ForkRet
  <2>4. CASE TickTest(p) BY <2>4 DEF TickTest
  <2> HIDE DEF TypeOK, ControlInv, StatusInv, DiskInv, DiskWakeNotLost
  <2> QED BY <1>5, <2>1, <2>2, <2>3, <2>4 DEF Trap
<1>6. ASSUME NEW p \in Procs, Fork(p) PROVE DiskWakeNotLost'
  <2>1. CASE ForkFull(p) BY <2>1 DEF ForkFull, Unused
  <2>2. CASE ForkAlloc(p) BY <2>2 DEF ForkAlloc, Unused, First
  <2>3. CASE ForkAbort(p) BY <2>3 DEF ForkAbort, FreeProc
  <2>4. CASE ForkCopy(p) BY <2>4 DEF ForkCopy
  <2>5. CASE ForkLink(p) BY <2>5 DEF ForkLink
  <2>6. CASE ForkRun(p) BY <2>6 DEF ForkRun
  <2> HIDE DEF TypeOK, ControlInv, StatusInv, DiskInv, DiskWakeNotLost
  <2> QED BY <1>6, <2>1, <2>2, <2>3, <2>4, <2>5, <2>6 DEF Fork
<1>7. ASSUME NEW p \in Procs, Exit(p) PROVE DiskWakeNotLost'
  <2>1. CASE ExitFiles(p) BY <2>1 DEF ExitFiles
  <2>2. CASE ExitLock(p) BY <2>2 DEF ExitLock
  <2>3. CASE ExitNotify(p) BY <2>3 DEF ExitNotify, WakeUp, ExitWakes, Reparent, Kids
  <2>4. CASE ExitZombie(p) BY <2>4 DEF ExitZombie
  <2>5. CASE ExitUnlock(p) BY <2>5 DEF ExitUnlock
  <2> HIDE DEF TypeOK, ControlInv, StatusInv, DiskInv, DiskWakeNotLost
  <2> QED BY <1>7, <2>1, <2>2, <2>3, <2>4, <2>5 DEF Exit
<1>8. ASSUME NEW p \in Procs, WaitCall(p) PROVE DiskWakeNotLost'
  <2>1. CASE Wait(p) BY <2>1 DEF Wait
  <2>2. CASE WaitReap(p) BY <2>2 DEF WaitReap, FreeProc, Kids, ZombieKids, First
  <2>3. CASE WaitBadAddr(p) BY <2>3 DEF WaitBadAddr, ZombieKids, Kids
  <2>4. CASE WaitNone(p) BY <2>4 DEF WaitNone, ZombieKids, Kids
  <2>5. CASE WaitSleep(p) BY <2>5 DEF WaitSleep, ZombieKids, Kids
  <2> HIDE DEF TypeOK, ControlInv, StatusInv, DiskInv, DiskWakeNotLost
  <2> QED BY <1>8, <2>1, <2>2, <2>3, <2>4, <2>5 DEF WaitCall
<1>9. ASSUME NEW p \in Procs, UserTick(p) PROVE DiskWakeNotLost'
  BY <1>9 DEF UserTick, AfterTick, ClockIntr, WakeUp, TickWakes
<1>10. CASE KernelTick
  BY <1>10 DEF LocksInv, IntrSafe, HeldBy, KernelTick, ClockIntr, WakeUp, TickWakes
<1>11. ASSUME NEW S \in SUBSET Procs, DiskIntr(S) PROVE DiskWakeNotLost'
  <2>1. cproc \in Procs => status[cproc] # "SLEEPING"
    <3>1. held = {} BY <1>11 DEF DiskIntr, IntrSafe
    <3>2. cproc \in Procs => spc = "away" BY <3>1 DEF LocksInv, HeldBy
    <3> QED BY <3>1, <3>2 DEF LocksInv, HeldBy
  <2> QED BY <1>11, <2>1 DEF DiskIntr, WakeUp, DiskWakes
<1> HIDE DEF TypeOK, ControlInv, StatusInv, DiskInv, DiskWakeNotLost
<1> QED BY <1>1, <1>2, <1>3, <1>4, <1>5, <1>6, <1>7, <1>8, <1>9, <1>10, <1>11
        DEF Next, CpuStep, Kernel

(* The nesting depth is right after every step. *)
LEMMA CountStep ==
  ASSUME TypeOK, ControlInv, LocksInv, SavedInv, LockCount, Next
  PROVE  LockCount'
<1> USE LockFacts, Counting
    DEF Section, Handler, Move, On, Goto, table, locals, saved, cpu, sch, dev, rest
<1>0. UNCHANGED <<held, noff>> => LockCount'
  BY DEF LockCount
<1>1. CASE Scheduler
  <2>1. CASE SchedBack
    <3>1. Cardinality({si}) = 1 BY FS_Singleton
    <3> QED BY <2>1, <3>1 DEF SchedBack, LocksInv, SavedInv, LockCount
  <2>2. CASE SchedIntrOn \/ SchedSkip \/ SchedRun
    BY <1>0, <2>2 DEF SchedIntrOn, SchedSkip, SchedRun
  <2>3. CASE SchedAcquire \/ SchedRelease
    BY <2>3 DEF SchedAcquire, SchedRelease, TypeOK
  <2> QED BY <1>1, <2>1, <2>2, <2>3 DEF Scheduler
<1>2. ASSUME NEW p \in Procs, Switching(p) PROVE LockCount'
  <2>1. CASE Resched(p)
    <3>1. Cardinality({p}) = 1 BY FS_Singleton
    <3>2. held = {p} BY <2>1 DEF Resched, LocksInv, HeldBy
    <3> QED BY <2>1, <3>1, <3>2 DEF Resched, SavedInv, LockCount
  <2>2. CASE Sched(p) BY <1>0, <2>2 DEF Sched
  <2>3. CASE Yield(p) \/ YieldDone(p) \/ Sleep(p) \/ SleepDone(p)
    BY <2>3 DEF Yield, YieldDone, Sleep, SleepDone
  <2>4. CASE SleepRel(p) \/ SleepBack(p) BY <2>4 DEF SleepRel, SleepBack, SleepLock
  <2> QED BY <1>2, <2>1, <2>2, <2>3, <2>4 DEF Switching
<1>3. ASSUME NEW p \in Procs, Io(p) PROVE LockCount'
  BY <1>0, <1>3 DEF Io, IoSubmit, IoWait, IoDone
<1>4. ASSUME NEW p \in Procs, User(p) PROVE LockCount'
  BY <1>0, <1>4 DEF User, Ecall, SysFork, SysWait, SysExit, SysSleep, SysIo, Fault
<1>5. ASSUME NEW p \in Procs, Trap(p) PROVE LockCount'
  BY <1>0, <1>5 DEF Trap, SysRet, UserTrapRet, ForkRet, TickTest
<1>6. ASSUME NEW p \in Procs, Fork(p) PROVE LockCount'
  BY <1>0, <1>6
  DEF Fork, ForkFull, ForkAlloc, ForkAbort, ForkCopy, ForkLink, ForkRun, ControlInv, Forking
<1>7. ASSUME NEW p \in Procs, Exit(p) PROVE LockCount'
  BY <1>0, <1>7 DEF Exit, ExitFiles, ExitLock, ExitNotify, ExitZombie, ExitUnlock
<1>8. ASSUME NEW p \in Procs, WaitCall(p) PROVE LockCount'
  BY <1>0, <1>8 DEF WaitCall, Wait, WaitReap, WaitBadAddr, WaitNone, WaitSleep
<1>9. ASSUME NEW p \in Procs, UserTick(p) PROVE LockCount'
  BY <1>0, <1>9 DEF UserTick, AfterTick, ClockIntr
<1>10. CASE KernelTick
  BY <1>0, <1>10 DEF KernelTick, ClockIntr
<1>11. ASSUME NEW S \in SUBSET Procs, DiskIntr(S) PROVE LockCount'
  BY <1>0, <1>11 DEF DiskIntr
<1> QED BY <1>1, <1>2, <1>3, <1>4, <1>5, <1>6, <1>7, <1>8, <1>9, <1>10, <1>11
        DEF Next, CpuStep, Kernel

(* Interrupts come on only where no lock is held. *)
LEMMA IntrStep ==
  ASSUME TypeOK, ControlInv, LocksInv, LockCount, IntrSafe, Next
  PROVE  IntrSafe'
<1> USE LockFacts, LastRelease
    DEF IntrSafe, Section, Handler, Move, On, Goto, table, locals, saved, cpu, sch, dev, rest
<1>0. ASSUME NEW l, Acquire(l) PROVE IntrSafe'
  BY <1>0 DEF Acquire
<1>1. CASE Scheduler
  BY <1>0, <1>1
  DEF Scheduler, SchedIntrOn, SchedAcquire, SchedSkip, SchedRun, SchedBack, SchedRelease,
      TypeOK, LocksInv
<1>2. ASSUME NEW p \in Procs, Switching(p) PROVE IntrSafe'
  <2>1. CASE Sched(p) \/ Resched(p) BY <2>1 DEF Sched, Resched
  <2>2. CASE Yield(p) \/ Sleep(p) BY <1>0, <2>2 DEF Yield, Sleep
  <2>3. CASE YieldDone(p) \/ SleepDone(p) BY <2>3 DEF YieldDone, SleepDone
  <2>4. CASE SleepRel(p) BY <2>4 DEF SleepRel, SleepLock
  <2>5. CASE SleepBack(p) BY <1>0, <2>5 DEF SleepBack
  <2> HIDE DEF IntrSafe
  <2> QED BY <1>2, <2>1, <2>2, <2>3, <2>4, <2>5 DEF Switching
<1>3. ASSUME NEW p \in Procs, Io(p) PROVE IntrSafe'
  BY <1>0, <1>3 DEF Io, IoSubmit, IoWait, IoDone
<1>4. ASSUME NEW p \in Procs, User(p) PROVE IntrSafe'
  BY <1>4 DEF User, Ecall, SysFork, SysWait, SysExit, SysSleep, SysIo, Fault, LocksInv, HeldBy
<1>5. ASSUME NEW p \in Procs, Trap(p) PROVE IntrSafe'
  BY <1>5 DEF Trap, SysRet, UserTrapRet, ForkRet, TickTest, LocksInv, HeldBy
<1>6. ASSUME NEW p \in Procs, Fork(p) PROVE IntrSafe'
  BY <1>0, <1>6
  DEF Fork, ForkFull, ForkAlloc, ForkAbort, ForkCopy, ForkLink, ForkRun, ControlInv, Forking
<1>7. ASSUME NEW p \in Procs, Exit(p) PROVE IntrSafe'
  BY <1>0, <1>7 DEF Exit, ExitFiles, ExitLock, ExitNotify, ExitZombie, ExitUnlock
<1>8. ASSUME NEW p \in Procs, WaitCall(p) PROVE IntrSafe'
  BY <1>0, <1>8 DEF WaitCall, Wait, WaitReap, WaitBadAddr, WaitNone, WaitSleep
<1>9. ASSUME NEW p \in Procs, UserTick(p) PROVE IntrSafe'
  BY <1>9 DEF UserTick, AfterTick, ClockIntr
<1>10. CASE KernelTick
  BY <1>10 DEF KernelTick, ClockIntr
<1>11. ASSUME NEW S \in SUBSET Procs, DiskIntr(S) PROVE IntrSafe'
  BY <1>11 DEF DiskIntr
<1> HIDE DEF IntrSafe
<1> QED BY <1>1, <1>2, <1>3, <1>4, <1>5, <1>6, <1>7, <1>8, <1>9, <1>10, <1>11
        DEF Next, CpuStep, Kernel

-----------------------------------------------------------------------------
(* The state in which main() enters scheduler() satisfies the invariant. *)
LEMMA InitInv ==
  Init => IInv
<1> SUFFICES ASSUME Init PROVE IInv
  OBVIOUS
<1> USE LockFacts, ProcAssumption DEF Init
<1>1. TypeOK
  <2>1. NoChan \in Chans BY ChanFacts
  <2>2. 1 \in Procs /\ 0 \in 0..MaxSleep BY DEF Procs
  <2> QED BY <2>1, <2>2 DEF TypeOK, Status, Labels
<1>2. ControlInv /\ LocksInv /\ SavedInv /\ IntrSafe
  BY DEF ControlInv, LocksInv, SavedInv, IntrSafe, Running, Forking
<1>3. LockCount
  BY FS_EmptySet DEF LockCount
<1>4. StatusInv
  BY DEF StatusInv, Running, Forking, Asleep
<1>5. NewbornClean /\ ParentAlive
  BY DEF NewbornClean, ParentAlive
<1>6. FamilyInv /\ ZombieNotMissed /\ DiskInv /\ DiskWakeNotLost
  BY DEF FamilyInv, ZombieNotMissed, DiskInv, DiskWakeNotLost
<1> QED BY <1>1, <1>2, <1>3, <1>4, <1>5, <1>6 DEF IInv

(* A step that changes nothing keeps the invariant. *)
LEMMA StutterInv ==
  IInv /\ UNCHANGED vars => IInv'
BY DEF IInv, vars, table, locals, saved, cpu, sch, dev, rest,
   TypeOK, ControlInv, LocksInv, SavedInv, LockCount, IntrSafe, StatusInv, NewbornClean,
   FamilyInv, ParentAlive, ZombieNotMissed, DiskInv, DiskWakeNotLost,
   Running, HeldBy, SleepLock, SleepChan, ZombieKids, Kids

(* IInv holds in every reachable state. *)
THEOREM Invariance == Spec => []IInv
<1>1. IInv /\ Next => IInv'
  BY TypeStep, ControlStep, LocksStep, SavedStep, CountStep, IntrStep, StatusStep, NewbornStep,
     FamilyStep, ParentStep, ZombieStep, DiskStep, DiskWakeStep
  DEF IInv
<1> QED BY <1>1, InitInv, StutterInv, PTL DEF Spec

(* Every variable of the process layer keeps its type. *)
THEOREM TypeCorrect == Spec => []TypeOK
BY Invariance, PTL DEF IInv

(* Interrupts are on only when no spin lock is held. *)
THEOREM InterruptsSafe == Spec => []IntrSafe
BY Invariance, PTL DEF IInv

(* mycpu()->noff counts the locks held, across all switches. *)
THEOREM DepthCorrect == Spec => []LockCount
BY Invariance, PTL DEF IInv

(* acquire() never spins on the single CPU. *)
THEOREM NeverSpins == Spec => []NoSpin
<1>1. IInv => NoSpin
  <2> SUFFICES ASSUME IInv PROVE NoSpin
    OBVIOUS
  <2> USE LockFacts DEF IInv
  <2>1. spc = "acquire" => si \notin held
    BY DEF LocksInv
  <2>2. ASSUME NEW p \in Procs, Running(p) PROVE Wants(p) \cap held = {}
    <3>1. held = HeldBy(p) /\ pc[p] \in Labels
      BY <2>2 DEF LocksInv, Running, TypeOK
    <3>2. CASE pc[p] \in {"sleep", "sleep_back"}
      BY <3>1, <3>2, SleepLockFacts DEF ControlInv, Asleep, HeldBy, Wants
    <3>3. CASE pc[p] \in {"exit_notify", "exit_zombie", "wait_scan"}
      BY <3>1, <3>3 DEF HeldBy, Wants, Others, Kids
    <3>4. CASE pc[p] \notin {"sleep", "sleep_back", "exit_notify", "exit_zombie", "wait_scan"}
      BY <3>1, <3>4 DEF HeldBy, Wants
    <3> QED BY <3>2, <3>3, <3>4
  <2> QED BY <2>1, <2>2 DEF NoSpin
<1> QED BY <1>1, Invariance, PTL

(* None of the panics of the process layer is reached. *)
THEOREM NeverPanics == Spec => []NoPanic
<1>1. IInv => NoPanic
  <2> SUFFICES ASSUME IInv PROVE NoPanic
    OBVIOUS
  <2> USE LockFacts DEF IInv
  <2>1. held # {} => noff >= 1 /\ ~sie
    <3>1. IsFiniteSet(held)
      BY FiniteLocks, FS_Subset DEF TypeOK
    <3> QED BY <3>1, FS_EmptySet DEF LockCount, IntrSafe, TypeOK
  <2>2. spc = "release" => si \in held
    BY DEF LocksInv
  <2>3. ASSUME NEW p \in Procs, Running(p)
        PROVE  /\ pc[p] = "sched" => status[p] # "RUNNING"
               /\ pc[p] = "resched" => ret[p] # "zombie"
               /\ pc[p] = "exit" => p # initproc
    BY <2>3 DEF StatusInv, ControlInv
  <2>4. ASSUME NEW p \in Procs, Running(p)
        PROVE  /\ pc[p] \in {"sleep_done", "yield_done", "forkret"} => p \in held
               /\ pc[p] = "sleep_rel" => SleepLock(ret[p]) \subseteq held
               /\ pc[p] = "fork_copy" => child[p] \in held
               /\ pc[p] \in {"exit_unlock", "wait_scan"} => WaitLock \in held
               /\ pc[p] = "io_wait" => DiskLock \in held
    BY <2>4 DEF LocksInv, HeldBy, Running
  <2> QED BY <2>1, <2>2, <2>3, <2>4 DEF NoPanic
<1> QED BY <1>1, Invariance, PTL

(* No zombie child is missed by a sleeping wait(). *)
THEOREM NoLostExit == Spec => []ZombieNotMissed
BY Invariance, PTL DEF IInv

(* No disk completion is missed by a sleeping virtio_disk_rw(). *)
THEOREM NoLostCompletion == Spec => []DiskWakeNotLost
BY Invariance, PTL DEF IInv

(* Every process but init has a living parent. *)
THEOREM ParentsLive == Spec => []ParentAlive
BY Invariance, PTL DEF IInv

(* A slot is handed out without a kill mark. *)
THEOREM NewbornsClean == Spec => []NewbornClean
BY Invariance, PTL DEF IInv

-----------------------------------------------------------------------------
(* Every step of Proc is a step of ProcTree or leaves the tree alone. *)
LEMMA TreeStep ==
  ASSUME TypeOK, ControlInv, StatusInv, FamilyInv, Next
  PROVE  Tree!Next \/ UNCHANGED <<Life, Par>>
<1> USE LockFacts DEF TypeOK, ControlInv, StatusInv, Forking, Running, Life, Par, Move, On, Goto, table, locals, saved, cpu, sch, dev, rest
<1>1. CASE Scheduler
  BY <1>1 DEF Scheduler, SchedIntrOn, SchedAcquire, SchedSkip, SchedRun, SchedBack, SchedRelease
<1>2. ASSUME NEW p \in Procs, Switching(p) PROVE UNCHANGED <<Life, Par>>
  <2>1. CASE Sched(p) BY <2>1 DEF Sched
  <2>2. CASE Resched(p) BY <2>2 DEF Resched
  <2>3. CASE Yield(p) BY <2>3 DEF Yield
  <2>4. CASE YieldDone(p) BY <2>4 DEF YieldDone
  <2>5. CASE Sleep(p) BY <2>5 DEF Sleep
  <2>6. CASE SleepRel(p) BY <2>6 DEF SleepRel
  <2>7. CASE SleepBack(p) BY <2>7 DEF SleepBack
  <2>8. CASE SleepDone(p) BY <2>8 DEF SleepDone, Asleep
  <2> HIDE DEF TypeOK, ControlInv, StatusInv, Life, Par
  <2> QED BY <1>2, <2>1, <2>2, <2>3, <2>4, <2>5, <2>6, <2>7, <2>8 DEF Switching
<1>3. ASSUME NEW p \in Procs, Io(p) PROVE UNCHANGED <<Life, Par>>
  BY <1>3 DEF Io, IoSubmit, IoWait, IoDone
<1>4. ASSUME NEW p \in Procs, User(p) PROVE UNCHANGED <<Life, Par>>
  <2>1. CASE SysFork(p) \/ SysWait(p) \/ SysExit(p) BY <2>1 DEF SysFork, Ecall, SysWait, SysExit
  <2>2. CASE SysSleep(p) \/ SysIo(p) \/ Fault(p) BY <2>2 DEF SysSleep, Ecall, SysIo, Fault
  <2> HIDE DEF TypeOK, ControlInv, StatusInv, Life, Par
  <2> QED BY <1>4, <2>1, <2>2 DEF User
<1>5. ASSUME NEW p \in Procs, Trap(p) PROVE UNCHANGED <<Life, Par>>
  BY <1>5 DEF Trap, SysRet, UserTrapRet, ForkRet, TickTest
<1>6. ASSUME NEW p \in Procs, Fork(p) PROVE Tree!Next \/ UNCHANGED <<Life, Par>>
  <2>1. CASE ForkRun(p)
    <3>1. PICK q \in Procs : q = child[p] /\ q # p /\ status[q] = "USED" /\ parent[q] = p
      BY <2>1 DEF ForkRun, FamilyInv
    <3>2. status' = [status EXCEPT ![q] = "RUNNABLE"] /\ parent' = parent
      BY <2>1, <3>1 DEF ForkRun
    <3>3. pc' = [pc EXCEPT ![p] = "sysret"] /\ pc[p] = "fork_run" /\ pc[q] = "forkret"
      BY <2>1, <3>1 DEF ForkRun
    <3>4. Life[p] = "live" /\ Life[q] = "free"
      BY <2>1, <3>1 DEF ForkRun
    <3>5. Life' = [Life EXCEPT ![q] = "live"]
      <4>1. ASSUME NEW r \in Procs PROVE Life'[r] = [Life EXCEPT ![q] = "live"][r]
        BY <3>1, <3>2, <3>3
      <4> QED BY <4>1
    <3>6. Par' = [Par EXCEPT ![q] = p]
      <4>1. ASSUME NEW r \in Procs PROVE Par'[r] = [Par EXCEPT ![q] = p][r]
        BY <3>1, <3>2
      <4> QED BY <4>1
    <3>7. Tree!Fork(p, q)
      BY <3>4, <3>5, <3>6 DEF Tree!Fork
    <3> QED BY <3>7 DEF Tree!Next
  <2>2. CASE ForkFull(p) \/ ForkCopy(p) BY <2>2 DEF ForkFull, ForkCopy
  <2>3. CASE ForkAlloc(p) BY <2>3 DEF ForkAlloc, Unused, First
  <2>4. CASE ForkAbort(p) BY <2>4 DEF ForkAbort, FreeProc
  <2>5. CASE ForkLink(p) BY <2>5 DEF ForkLink
  <2> HIDE DEF TypeOK, ControlInv, StatusInv, Life, Par
  <2> QED BY <1>6, <2>1, <2>2, <2>3, <2>4, <2>5 DEF Fork
<1>7. ASSUME NEW p \in Procs, Exit(p) PROVE Tree!Next \/ UNCHANGED <<Life, Par>>
  <2>1. CASE ExitNotify(p)
    <3>1. p # initproc /\ Life[p] = "live"
      BY <2>1 DEF ExitNotify
    <3>2. Life' = [Life EXCEPT ![p] = "zombie"]
      BY <2>1 DEF ExitNotify, WakeUp
    <3>3. Par' = [q \in Procs |-> IF Par[q] = p THEN initproc ELSE Par[q]]
      BY <2>1 DEF ExitNotify, WakeUp, Reparent
    <3>4. Tree!Exit(p)
      BY <3>1, <3>2, <3>3 DEF Tree!Exit
    <3> QED BY <3>4 DEF Tree!Next
  <2>2. CASE ExitFiles(p) \/ ExitLock(p) BY <2>2 DEF ExitFiles, ExitLock
  <2>3. CASE ExitZombie(p) BY <2>3 DEF ExitZombie
  <2>4. CASE ExitUnlock(p) BY <2>4 DEF ExitUnlock
  <2> HIDE DEF TypeOK, ControlInv, StatusInv, Life, Par
  <2> QED BY <1>7, <2>1, <2>2, <2>3, <2>4 DEF Exit
<1>8. ASSUME NEW p \in Procs, WaitCall(p) PROVE Tree!Next \/ UNCHANGED <<Life, Par>>
  <2>1. CASE WaitReap(p)
    <3>1. PICK q \in ZombieKids(p) : FreeProc(q)
      BY <2>1 DEF WaitReap, First
    <3>2. q \in Procs /\ status[q] = "ZOMBIE" /\ parent[q] = p
      BY <3>1 DEF ZombieKids, Kids
    <3>3. Life[p] = "live" /\ Life[q] = "zombie" /\ Par[q] = p
      BY <2>1, <3>2 DEF WaitReap
    <3>4. Life' = [Life EXCEPT ![q] = "free"]
      <4>1. ASSUME NEW r \in Procs PROVE Life'[r] = [Life EXCEPT ![q] = "free"][r]
        BY <2>1, <3>1, <3>2 DEF WaitReap, FreeProc
      <4> QED BY <4>1
    <3>5. Par' = [Par EXCEPT ![q] = NoProc]
      BY <3>1, <3>2 DEF FreeProc
    <3>6. Tree!Wait(p, q)
      BY <3>3, <3>4, <3>5 DEF Tree!Wait
    <3> QED BY <3>2, <3>6 DEF Tree!Next
  <2>2. CASE Wait(p) \/ WaitBadAddr(p) \/ WaitNone(p) \/ WaitSleep(p)
    BY <2>2 DEF Wait, WaitBadAddr, WaitNone, WaitSleep
  <2> HIDE DEF TypeOK, ControlInv, StatusInv, Life, Par
  <2> QED BY <1>8, <2>1, <2>2 DEF WaitCall
<1>9. ASSUME NEW p \in Procs, UserTick(p) PROVE UNCHANGED <<Life, Par>>
  BY <1>9 DEF UserTick, AfterTick, ClockIntr, WakeUp, TickWakes
<1>10. CASE KernelTick
  BY <1>10 DEF KernelTick, ClockIntr, WakeUp, TickWakes
<1>11. ASSUME NEW S \in SUBSET Procs, DiskIntr(S) PROVE UNCHANGED <<Life, Par>>
  BY <1>11 DEF DiskIntr, WakeUp
<1> HIDE DEF TypeOK, ControlInv, StatusInv, Life, Par
<1> QED BY <1>1, <1>2, <1>3, <1>4, <1>5, <1>6, <1>7, <1>8, <1>9, <1>10, <1>11
        DEF Next, CpuStep, Kernel

(* fork(), exit() and wait() act on the family of processes as the single  *)
(* steps of ProcTree.                                                      *)
THEOREM FamilyRefinement == Spec => TreeSpec
<1>1. Init => Tree!Init
  BY LockFacts DEF Init, Tree!Init, Life, Par
<1>2. IInv /\ [Next]_vars => [Tree!Next]_<<Life, Par>>
  <2>1. UNCHANGED vars => UNCHANGED <<Life, Par>>
    BY DEF vars, table, Life, Par
  <2> QED BY <2>1, TreeStep DEF IInv
<1> QED BY <1>1, <1>2, Invariance, PTL DEF Spec, TreeSpec, Tree!Spec
=============================================================================
