-------------------------------- MODULE Proc --------------------------------
(***************************************************************************)
(* The process layer of the kernel: kernel/proc.c with the parts of        *)
(* spinlock.c, trap.c, syscall.c and virtio_disk.c it runs on.             *)
(*                                                                         *)
(* There is one CPU (N_CPU = 1) and the kernel is not preempted: control   *)
(* leaves a process only in sched().  Kernel code is interrupted by        *)
(* handlers whenever SIE is set; a handler runs to its end with SIE clear. *)
(* A stretch of code with SIE clear could be one step; the steps below are *)
(* cut finer, at every nested acquire() and release(), so that the lock    *)
(* discipline itself is part of the model.                                 *)
(***************************************************************************)
EXTENDS Integers, FiniteSets

CONSTANTS
  NPROC,      \* N_PROC: slots of the process table
  MaxSleep,   \* largest argument passed to the sleep system call
  Calls       \* what user programs do: system calls ("io" is any that reaches
              \* the disk) and exceptions

ASSUME ProcAssumption ==
  /\ NPROC \in Nat \ {0} /\ MaxSleep \in Nat \ {0}
  /\ Calls \subseteq {"fork", "wait", "exit", "sleep", "io", "fault"}

Procs    == 1..NPROC
NoProc   == 0
initproc == 1        \* userinit() runs first and is given the first slot

(* Spin locks: procs[p].lock is p; wait_lock and disk.vdisk_lock.          *)
WaitLock == 0
DiskLock == -1
Locks    == -1..NPROC

(* Sleep channels are addresses: the process itself (wait), the buffer it  *)
(* is reading (virtio_disk_rw), the tick counter (sys_sleep).              *)
NoChan      == <<"null", 0>>
TickChan    == <<"ticks", 0>>
ProcChan(p) == <<"proc", p>>
BufChan(p)  == <<"buf", p>>
Chans == {NoChan, TickChan} \cup {ProcChan(p) : p \in Procs} \cup {BufChan(p) : p \in Procs}

Status == {"UNUSED", "USED", "RUNNABLE", "RUNNING", "SLEEPING", "ZOMBIE"}

(* Where a process is: "user" is user mode, the others are points of the   *)
(* kernel functions they are named after.                                  *)
Labels == {"user", "sysret", "trapret", "forkret",
           "fork", "fork_copy", "fork_link", "fork_run",
           "exit", "exit_lock", "exit_notify", "exit_zombie", "exit_unlock",
           "wait", "wait_scan", "tick_test", "io_submit", "io_wait",
           "sleep", "sleep_rel", "sleep_back", "sleep_done",
           "yield", "yield_done", "sched", "resched"}

VARIABLES
  status, parent, chan, killed,   \* struct proc
  pc, ret, ioret, child,          \* kernel stack: point, return points, fork's np
  svnoff, svintena,               \* kernel stack: locals of sched()
  held,                           \* the spin locks with locked = 1
  noff, intena, sie,              \* struct cpu; the SIE bit of sstatus
  spc, si, snoff, sintena,        \* scheduler(): point and locals
  cproc,                          \* mycpu()->proc
  tleft,                          \* ticks still to pass for a process in sys_sleep
  disk,                           \* processes whose disk request is in flight (b->disk = 1)
  first                           \* forkret() has not run yet

table  == <<status, parent, chan, killed>>
locals == <<ret, ioret, child>>
saved  == <<svnoff, svintena>>
cpu    == <<held, noff, intena, sie>>
sch    == <<spc, si, snoff, sintena, cproc>>
dev    == <<tleft, disk, first>>
rest   == <<saved, sch, dev>>
vars   == <<table, pc, locals, cpu, rest>>

(* Every variable has its type.  A local that is out of scope is "none",   *)
(* NoProc, 0 or FALSE.                                                     *)
TypeOK ==
  /\ status \in [Procs -> Status]
  /\ parent \in [Procs -> Procs \cup {NoProc}]
  /\ chan \in [Procs -> Chans]
  /\ killed \in [Procs -> BOOLEAN]
  /\ pc \in [Procs -> Labels]
  /\ ret \in [Procs -> {"none", "wait_scan", "tick_test", "io_wait", "yield_done", "zombie"}]
  /\ ioret \in [Procs -> {"none", "sysret", "exit_lock", "trapret"}]
  /\ child \in [Procs -> Procs \cup {NoProc}]
  /\ svnoff \in [Procs -> Nat] /\ svintena \in [Procs -> BOOLEAN]
  /\ held \in SUBSET Locks
  /\ noff \in Nat /\ intena \in BOOLEAN /\ sie \in BOOLEAN
  /\ spc \in {"intr_on", "acquire", "check", "away", "back", "release"}
  /\ si \in Procs /\ snoff \in Nat /\ sintena \in BOOLEAN
  /\ cproc \in Procs \cup {NoProc}
  /\ tleft \in [Procs -> 0..MaxSleep]
  /\ disk \in SUBSET Procs
  /\ first \in BOOLEAN

-----------------------------------------------------------------------------
(* spinlock.c.  acquire() of a lock that is held spins for ever: there is  *)
(* no other CPU to release it.  release() of a lock that is not held is a  *)
(* panic.  Neither is a step; NoSpin and NoPanic say they never happen.    *)

(* push_off(): the outermost one records SIE *)
PushOff == IF noff = 0 THEN sie ELSE intena

Acquire(l) ==
  /\ l \notin held
  /\ held' = held \cup {l}
  /\ noff' = noff + 1
  /\ intena' = PushOff
  /\ sie' = FALSE

(* pop_off() that does not look at the nesting *)
PopOffEarly == intena

(* pop_off(): SIE comes back when the outermost lock is released *)
PopOff == noff = 1 /\ intena

Release(l) ==
  /\ l \in held /\ noff >= 1 /\ ~sie
  /\ held' = held \ {l}
  /\ noff' = noff - 1
  /\ sie' = PopOff
  /\ UNCHANGED intena

(* acquire() and release() of the locks L, one after the other *)
Section(L) ==
  /\ L \cap held = {}
  /\ intena' = PushOff
  /\ UNCHANGED <<held, noff, sie>>

(* wakeup(): every process but the current one that sleeps on a channel of C *)
WakeUp(C) ==
  status' = [p \in Procs |-> IF p # cproc /\ status[p] = "SLEEPING" /\ chan[p] \in C
                             THEN "RUNNABLE" ELSE status[p]]
Others == Procs \ {cproc}

-----------------------------------------------------------------------------
(* scheduler() *)

SchedIntrOn ==
  /\ spc = "intr_on"
  /\ sie' = TRUE
  /\ spc' = "acquire"
  /\ UNCHANGED <<table, pc, locals, held, noff, intena, saved, si, snoff, sintena, cproc, dev>>

SchedAcquire ==
  /\ spc = "acquire"
  /\ Acquire(si)
  /\ spc' = "check"
  /\ UNCHANGED <<table, pc, locals, saved, si, snoff, sintena, cproc, dev>>

SchedSkip ==
  /\ spc = "check" /\ status[si] # "RUNNABLE"
  /\ spc' = "release"
  /\ UNCHANGED <<table, pc, locals, cpu, saved, si, snoff, sintena, cproc, dev>>

SchedRun ==
  /\ spc = "check" /\ status[si] = "RUNNABLE"
  /\ status' = [status EXCEPT ![si] = "RUNNING"]
  /\ cproc' = si
  /\ snoff' = noff /\ sintena' = intena
  /\ spc' = "away"
  /\ UNCHANGED <<parent, chan, killed, pc, locals, cpu, saved, si, dev>>

(* back from swtch() *)
SchedBack ==
  /\ spc = "back"
  /\ noff' = snoff /\ intena' = sintena
  /\ snoff' = 0 /\ sintena' = FALSE
  /\ cproc' = NoProc
  /\ spc' = "release"
  /\ UNCHANGED <<table, pc, locals, held, sie, saved, si, dev>>

SchedRelease ==
  /\ spc = "release"
  /\ Release(si)
  /\ si' = IF si < NPROC THEN si + 1 ELSE 1
  /\ spc' = IF si < NPROC THEN "acquire" ELSE "intr_on"
  /\ UNCHANGED <<table, pc, locals, saved, snoff, sintena, cproc, dev>>

Scheduler == SchedIntrOn \/ SchedAcquire \/ SchedSkip \/ SchedRun \/ SchedBack \/ SchedRelease

-----------------------------------------------------------------------------
(* Process p, which has the CPU, goes from point a to point b. *)
On(p, a) == spc = "away" /\ cproc = p /\ pc[p] = a
Goto(p, b) == pc' = [pc EXCEPT ![p] = b]
Move(p, a, b) == On(p, a) /\ Goto(p, b)

(* sched(): give the CPU to scheduler(), and come back from it. *)
Sched(p) ==
  /\ Move(p, "sched", "resched")
  /\ status[p] # "RUNNING"
  /\ svnoff' = [svnoff EXCEPT ![p] = noff]
  /\ svintena' = [svintena EXCEPT ![p] = intena]
  /\ spc' = "back"
  /\ UNCHANGED <<table, locals, cpu, si, snoff, sintena, cproc, dev>>

(* the lock that sleep() was given: none for sys_sleep *)
SleepLock(r) == CASE r = "wait_scan" -> {WaitLock}
                  [] r = "io_wait"   -> {DiskLock}
                  [] OTHER           -> {}

Resched(p) ==
  /\ Move(p, "resched", CASE ret[p] = "yield_done" -> "yield_done"
                          [] ret[p] = "tick_test"  -> "sleep_done"
                          [] OTHER                 -> "sleep_back")
  /\ ret[p] # "zombie"
  /\ noff' = svnoff[p] /\ svnoff' = [svnoff EXCEPT ![p] = 0]
  /\ intena' = svintena[p] /\ svintena' = [svintena EXCEPT ![p] = FALSE]
  /\ UNCHANGED <<table, locals, held, sie, sch, dev>>

(* yield() that leaves the process RUNNING *)
YieldRunning(p) ==
  /\ Move(p, "yield", "sched")
  /\ Acquire(p)
  /\ ret' = [ret EXCEPT ![p] = "yield_done"]
  /\ UNCHANGED <<table, ioret, child, rest>>

Yield(p) ==
  /\ Move(p, "yield", "sched")
  /\ Acquire(p)
  /\ status' = [status EXCEPT ![p] = "RUNNABLE"]
  /\ ret' = [ret EXCEPT ![p] = "yield_done"]
  /\ UNCHANGED <<parent, chan, killed, ioret, child, rest>>

YieldDone(p) ==
  /\ Move(p, "yield_done", "trapret")
  /\ Release(p)
  /\ ret' = [ret EXCEPT ![p] = "none"]
  /\ UNCHANGED <<table, ioret, child, rest>>

(* sleep(chan, lk): called from the loop that ret names *)
SleepChan(p) == CASE ret[p] = "wait_scan" -> ProcChan(p)
                  [] ret[p] = "io_wait"   -> BufChan(p)
                  [] OTHER                -> TickChan

Sleep(p) ==
  /\ Move(p, "sleep", IF SleepLock(ret[p]) = {} THEN "sched" ELSE "sleep_rel")
  /\ Acquire(p)
  /\ chan' = [chan EXCEPT ![p] = SleepChan(p)]
  /\ status' = [status EXCEPT ![p] = "SLEEPING"]
  /\ UNCHANGED <<parent, killed, locals, rest>>

SleepRel(p) ==
  /\ Move(p, "sleep_rel", "sched")
  /\ \E l \in SleepLock(ret[p]) : Release(l)
  /\ UNCHANGED <<table, locals, rest>>

SleepBack(p) ==
  /\ Move(p, "sleep_back", "sleep_done")
  /\ \E l \in SleepLock(ret[p]) : Acquire(l)
  /\ UNCHANGED <<table, locals, rest>>

SleepDone(p) ==
  /\ Move(p, "sleep_done", ret[p])
  /\ ret' = [ret EXCEPT ![p] = "none"]
  /\ chan' = [chan EXCEPT ![p] = NoChan]
  /\ Release(p)
  /\ UNCHANGED <<status, parent, killed, ioret, child, rest>>

Switching(p) == Sched(p) \/ Resched(p) \/ Yield(p) \/ YieldDone(p)
                \/ Sleep(p) \/ SleepRel(p) \/ SleepBack(p) \/ SleepDone(p)

-----------------------------------------------------------------------------
(* virtio_disk_rw(), the descriptor rings left out *)

IoSubmit(p) ==
  /\ Move(p, "io_submit", "io_wait")
  /\ Acquire(DiskLock)
  /\ disk' = disk \cup {p}
  /\ UNCHANGED <<table, locals, saved, sch, tleft, first>>

IoWait(p) ==
  /\ Move(p, "io_wait", "sleep") /\ p \in disk
  /\ ret' = [ret EXCEPT ![p] = "io_wait"]
  /\ UNCHANGED <<table, ioret, child, cpu, rest>>

IoDone(p) ==
  /\ Move(p, "io_wait", ioret[p]) /\ p \notin disk
  /\ Release(DiskLock)
  /\ ioret' = [ioret EXCEPT ![p] = "none"]
  /\ UNCHANGED <<table, ret, child, rest>>

Io(p) == IoSubmit(p) \/ IoWait(p) \/ IoDone(p)

-----------------------------------------------------------------------------
(* usertrap() on a system call or an exception, and the way back *)

Ecall(p, l) ==
  /\ Move(p, "user", IF killed[p] THEN "exit" ELSE l)
  /\ sie' = ~killed[p]
  /\ UNCHANGED <<table, ret, child, held, noff, intena, saved, sch, disk, first>>

SysFork(p) == "fork" \in Calls /\ Ecall(p, "fork") /\ UNCHANGED <<ioret, tleft>>
SysWait(p) == "wait" \in Calls /\ Ecall(p, "wait") /\ UNCHANGED <<ioret, tleft>>
SysExit(p) == "exit" \in Calls /\ p # initproc /\ Ecall(p, "exit") /\ UNCHANGED <<ioret, tleft>>
SysSleep(p) ==
  /\ "sleep" \in Calls /\ Ecall(p, "tick_test")
  /\ \E n \in 0..MaxSleep : tleft' = [tleft EXCEPT ![p] = n]
  /\ UNCHANGED ioret
SysIo(p) ==
  /\ "io" \in Calls /\ Ecall(p, "io_submit")
  /\ ioret' = [ioret EXCEPT ![p] = "sysret"]
  /\ UNCHANGED tleft

(* a trap that marks the process and lets it go on *)
FaultReturns(p) ==
  /\ "fault" \in Calls /\ p # initproc
  /\ Move(p, "user", "trapret")
  /\ killed' = [killed EXCEPT ![p] = TRUE]
  /\ sie' = FALSE
  /\ UNCHANGED <<status, parent, chan, locals, held, noff, intena, rest>>

(* setkilled(), then exit(-1) *)
Fault(p) ==
  /\ "fault" \in Calls /\ p # initproc
  /\ Move(p, "user", "exit")
  /\ killed' = [killed EXCEPT ![p] = TRUE]
  /\ sie' = FALSE
  /\ UNCHANGED <<status, parent, chan, locals, held, noff, intena, rest>>

User(p) == SysFork(p) \/ SysWait(p) \/ SysExit(p) \/ SysSleep(p) \/ SysIo(p) \/ Fault(p)

(* The end of usertrap(), and usertrapret(); sret sets SIE from SPIE. *)
SysRet(p) ==
  /\ Move(p, "sysret", IF killed[p] THEN "exit" ELSE "trapret")
  /\ UNCHANGED <<table, locals, cpu, rest>>

UserTrapRet(p) ==
  /\ Move(p, "trapret", "user")
  /\ sie' = TRUE
  /\ UNCHANGED <<table, locals, held, noff, intena, rest>>

(* forkret(): a new process starts here, holding its lock; the first one   *)
(* reads the super block.                                                  *)
ForkRet(p) ==
  /\ Move(p, "forkret", IF first THEN "io_submit" ELSE "trapret")
  /\ Release(p)
  /\ first' = FALSE
  /\ ioret' = [ioret EXCEPT ![p] = IF first THEN "trapret" ELSE "none"]
  /\ UNCHANGED <<table, ret, child, saved, sch, tleft, disk>>

(* the loop of sys_sleep(): the test is not under a lock *)
TickTest(p) ==
  LET done == tleft[p] = 0 \/ killed[p]
  IN  /\ Move(p, "tick_test", IF done THEN "sysret" ELSE "sleep")
      /\ ret' = [ret EXCEPT ![p] = IF done THEN "none" ELSE "tick_test"]
      /\ UNCHANGED <<table, ioret, child, cpu, rest>>

Trap(p) == SysRet(p) \/ UserTrapRet(p) \/ ForkRet(p) \/ TickTest(p)

-----------------------------------------------------------------------------
(* fork() and allocproc() *)

Unused == {q \in Procs : status[q] = "UNUSED"}
First(q, S) == q \in S /\ \A r \in S : q <= r

ForkFull(p) ==
  /\ Move(p, "fork", "sysret") /\ Unused = {}
  /\ Section(Procs)
  /\ UNCHANGED <<table, locals, rest>>

(* allocproc() up to the allocations that can fail *)
ForkAlloc(p) ==
  \E q \in Procs :
    /\ On(p, "fork") /\ First(q, Unused)
    /\ 1..q \cap held = {}
    /\ Acquire(q)
    /\ status' = [status EXCEPT ![q] = "USED"]
    /\ child' = [child EXCEPT ![p] = q]
    /\ pc' = [pc EXCEPT ![p] = "fork_copy", ![q] = "forkret"]
    /\ ret' = [ret EXCEPT ![q] = "none"]
    /\ svnoff' = [svnoff EXCEPT ![q] = 0] /\ svintena' = [svintena EXCEPT ![q] = FALSE]
    /\ UNCHANGED <<parent, chan, killed, ioret, sch, dev>>

(* freeproc() that forgets the kill mark *)
FreeProcKilled(q) ==
  /\ status' = [status EXCEPT ![q] = "UNUSED"]
  /\ UNCHANGED <<parent, chan, killed>>

(* freeproc(): parent and chan stay as they were *)
FreeProc(q) ==
  /\ status' = [status EXCEPT ![q] = "UNUSED"]
  /\ killed' = [killed EXCEPT ![q] = FALSE]
  /\ UNCHANGED <<parent, chan>>

(* no memory for the trap frame, the page table or the copy of user memory *)
ForkAbort(p) ==
  /\ Move(p, "fork_copy", "sysret")
  /\ FreeProc(child[p])
  /\ Release(child[p])
  /\ child' = [child EXCEPT ![p] = NoProc]
  /\ UNCHANGED <<ret, ioret, rest>>

ForkCopy(p) ==
  /\ Move(p, "fork_copy", "fork_link")
  /\ Release(child[p])
  /\ UNCHANGED <<table, locals, rest>>

(* fork() that does not record the parent *)
ForkNoLink(p) ==
  /\ Move(p, "fork_link", "fork_run")
  /\ Section({WaitLock})
  /\ UNCHANGED <<table, locals, rest>>

ForkLink(p) ==
  /\ Move(p, "fork_link", "fork_run")
  /\ Section({WaitLock})
  /\ parent' = [parent EXCEPT ![child[p]] = p]
  /\ UNCHANGED <<status, chan, killed, locals, rest>>

ForkRun(p) ==
  /\ Move(p, "fork_run", "sysret")
  /\ Section({child[p]})
  /\ status' = [status EXCEPT ![child[p]] = "RUNNABLE"]
  /\ child' = [child EXCEPT ![p] = NoProc]
  /\ UNCHANGED <<parent, chan, killed, ret, ioret, rest>>

Fork(p) == ForkFull(p) \/ ForkAlloc(p) \/ ForkAbort(p) \/ ForkCopy(p) \/ ForkLink(p) \/ ForkRun(p)

-----------------------------------------------------------------------------
(* exit() *)

(* Closing the files and the working directory may access the disk. *)
ExitFiles(p) ==
  /\ p # initproc
  /\ \E io \in {b \in BOOLEAN : b => "io" \in Calls} :
       /\ Move(p, "exit", IF io THEN "io_submit" ELSE "exit_lock")
       /\ ioret' = [ioret EXCEPT ![p] = IF io THEN "exit_lock" ELSE "none"]
  /\ UNCHANGED <<table, ret, child, cpu, rest>>

ExitLock(p) ==
  /\ Move(p, "exit_lock", "exit_notify")
  /\ Acquire(WaitLock)
  /\ UNCHANGED <<table, locals, rest>>

Kids(p) == {q \in Procs : parent[q] = p}

(* reparent() that leaves zombies with the dying parent *)
ReparentLive(p) ==
  [q \in Procs |-> IF parent[q] = p /\ status[q] # "ZOMBIE" THEN initproc ELSE parent[q]]

(* reparent(): the new parents; free slots whose last parent was p move too *)
Reparent(p) == [q \in Procs |-> IF parent[q] = p THEN initproc ELSE parent[q]]

(* exit() that forgets its own parent *)
WakesInitOnly(p) == {ProcChan(initproc) : q \in Kids(p)}

(* the channels that reparent() and exit() wake *)
ExitWakes(p) == {ProcChan(initproc) : q \in Kids(p)} \cup {ProcChan(parent[p])}

ExitNotify(p) ==
  /\ Move(p, "exit_notify", "exit_zombie")
  /\ parent' = Reparent(p)
  /\ WakeUp(ExitWakes(p))
  /\ Section(Others)
  /\ UNCHANGED <<chan, killed, locals, rest>>

ExitZombie(p) ==
  /\ Move(p, "exit_zombie", "exit_unlock")
  /\ Acquire(p)
  /\ status' = [status EXCEPT ![p] = "ZOMBIE"]
  /\ UNCHANGED <<parent, chan, killed, locals, rest>>

ExitUnlock(p) ==
  /\ Move(p, "exit_unlock", "sched")
  /\ Release(WaitLock)
  /\ ret' = [ret EXCEPT ![p] = "zombie"]
  /\ UNCHANGED <<table, ioret, child, rest>>

Exit(p) == ExitFiles(p) \/ ExitLock(p) \/ ExitNotify(p) \/ ExitZombie(p) \/ ExitUnlock(p)

-----------------------------------------------------------------------------
(* wait() *)

Wait(p) ==
  /\ Move(p, "wait", "wait_scan")
  /\ Acquire(WaitLock)
  /\ UNCHANGED <<table, locals, rest>>

ZombieKids(p) == {q \in Kids(p) : status[q] = "ZOMBIE"}

WaitReap(p) ==
  /\ Move(p, "wait_scan", "sysret")
  /\ Kids(p) \cap held = {}
  /\ \E q \in Procs : First(q, ZombieKids(p)) /\ FreeProc(q)
  /\ Release(WaitLock)
  /\ UNCHANGED <<locals, rest>>

(* the error path without release(&wait_lock) *)
WaitBadAddrLocked(p) ==
  /\ Move(p, "wait_scan", "sysret")
  /\ Kids(p) \cap held = {}
  /\ ZombieKids(p) # {} /\ p # initproc
  /\ UNCHANGED <<table, locals, cpu, rest>>

(* copyout() of the exit status fails: the child stays a zombie.  init      *)
(* passes a null address, for which nothing is copied.                     *)
WaitBadAddr(p) ==
  /\ Move(p, "wait_scan", "sysret")
  /\ Kids(p) \cap held = {}
  /\ ZombieKids(p) # {} /\ p # initproc
  /\ Release(WaitLock)
  /\ UNCHANGED <<table, locals, rest>>

WaitNone(p) ==
  /\ Move(p, "wait_scan", "sysret")
  /\ ZombieKids(p) = {} /\ ~(Kids(p) # {} /\ ~killed[p])
  /\ Release(WaitLock)
  /\ UNCHANGED <<table, locals, rest>>

WaitSleep(p) ==
  /\ Move(p, "wait_scan", "sleep")
  /\ ZombieKids(p) = {} /\ Kids(p) # {} /\ ~killed[p]
  /\ Kids(p) \cap held = {}
  /\ ret' = [ret EXCEPT ![p] = "wait_scan"]
  /\ UNCHANGED <<table, ioret, child, cpu, rest>>

WaitCall(p) == Wait(p) \/ WaitReap(p) \/ WaitBadAddr(p) \/ WaitNone(p) \/ WaitSleep(p)

-----------------------------------------------------------------------------
(* Interrupts: devintr() from usertrap() or from kerneltrap().  SIE is     *)
(* clear in a handler, so that is what its first acquire() records.        *)

Handler(L) ==
  /\ L \cap held = {}
  /\ intena' = IF noff = 0 THEN FALSE ELSE intena
  /\ UNCHANGED <<held, noff>>

(* ticks++, as seen by a process that waits for n more *)
Ticked(n) == IF n > 0 THEN n - 1 ELSE 0

(* clockintr() that wakes nobody *)
NoTickWakes == {}

(* wakeup(&ticks) *)
TickWakes == {TickChan}

ClockIntr ==
  /\ tleft' = [p \in Procs |-> Ticked(tleft[p])]
  /\ WakeUp(TickWakes)
  /\ Handler(Others)
  /\ UNCHANGED <<parent, chan, killed, locals, saved, sch, disk, first>>

(* usertrap() that returns at once *)
TickReturns(p) == IF killed[p] THEN "exit" ELSE "trapret"

(* From user mode the tick ends in yield(). *)
AfterTick(p) == IF killed[p] THEN "exit" ELSE "yield"

UserTick(p) ==
  /\ Move(p, "user", AfterTick(p))
  /\ ClockIntr
  /\ sie' = FALSE

InUser == spc = "away" /\ pc[cproc] = "user"

(* kerneltrap() does not yield: the call is commented out. *)
KernelTick ==
  /\ sie /\ ~InUser
  /\ ClockIntr
  /\ UNCHANGED <<sie, pc>>

(* virtio_disk_intr() that only wakes the first reader *)
DiskWakesOne(S) == {BufChan(p) : p \in {q \in S : First(q, S)}}

(* the channels virtio_disk_intr() wakes when the requests of S are done *)
DiskWakes(S) == {BufChan(p) : p \in S}

DiskIntr(S) ==
  /\ sie /\ S # {} /\ S \subseteq disk
  /\ disk' = disk \ S
  /\ WakeUp(DiskWakes(S))
  /\ Handler(Others \cup {DiskLock})
  /\ UNCHANGED <<parent, chan, killed, pc, locals, saved, sie, sch, tleft, first>>

-----------------------------------------------------------------------------
(* The state in which main() calls scheduler(), after userinit(). *)
Init ==
  /\ status = [p \in Procs |-> IF p = initproc THEN "RUNNABLE" ELSE "UNUSED"]
  /\ parent = [p \in Procs |-> NoProc]
  /\ chan = [p \in Procs |-> NoChan]
  /\ killed = [p \in Procs |-> FALSE]
  /\ pc = [p \in Procs |-> "forkret"]
  /\ ret = [p \in Procs |-> "none"] /\ ioret = [p \in Procs |-> "none"]
  /\ child = [p \in Procs |-> NoProc]
  /\ svnoff = [p \in Procs |-> 0] /\ svintena = [p \in Procs |-> FALSE]
  /\ held = {} /\ noff = 0 /\ intena = FALSE /\ sie = FALSE
  /\ spc = "intr_on" /\ si = 1 /\ snoff = 0 /\ sintena = FALSE /\ cproc = NoProc
  /\ tleft = [p \in Procs |-> 0] /\ disk = {} /\ first = TRUE

(* what the CPU does by itself in the kernel *)
Kernel(p) == Switching(p) \/ Io(p) \/ Trap(p) \/ Fork(p) \/ Exit(p) \/ WaitCall(p)
CpuStep == Scheduler \/ \E p \in Procs : Kernel(p)

Next ==
  \/ CpuStep
  \/ \E p \in Procs : User(p) \/ UserTick(p)
  \/ KernelTick
  \/ \E S \in SUBSET Procs : DiskIntr(S)

Spec == Init /\ [][Next]_vars

(* Fairness.  The CPU executes instructions; ticks keep arriving, and a    *)
(* process in user mode is again and again the one they hit; the device    *)
(* answers each request; init (user/init.c) calls wait() in a loop.        *)
FairSpec ==
  /\ Spec
  /\ WF_vars(CpuStep)
  /\ SF_vars(KernelTick)
  /\ \A p \in Procs : SF_vars(UserTick(p))
  /\ \A p \in Procs : SF_vars(\E S \in SUBSET Procs : p \in S /\ DiskIntr(S))
  /\ SF_vars(SysWait(initproc))

-----------------------------------------------------------------------------
(* Properties *)

Running(p) == spc = "away" /\ cproc = p

(* The locks the next step of p takes. *)
Wants(p) ==
  CASE pc[p] \in {"sleep", "yield", "exit_zombie"}   -> {p}
    [] pc[p] = "sleep_back"                          -> SleepLock(ret[p])
    [] pc[p] = "io_submit"                           -> {DiskLock}
    [] pc[p] \in {"wait", "exit_lock", "fork_link"}  -> {WaitLock}
    [] pc[p] = "fork"                                -> Procs
    [] pc[p] = "fork_run"                            -> {child[p]}
    [] pc[p] = "exit_notify"                         -> Others
    [] pc[p] = "wait_scan"                           -> Kids(p)
    [] OTHER                                         -> {}

(* No interrupt handler can find a lock taken: interrupts are on only when *)
(* no spin lock is held, whatever nesting of acquire() and release(), and  *)
(* whatever switches through sched(), led there (push_off/pop_off).        *)
IntrSafe == sie => held = {}

(* The nesting depth in mycpu()->noff is the number of locks held, at      *)
(* every moment at which the kernel reads it, although sched() and         *)
(* scheduler() carry it across swtch() in their locals.                    *)
LockCount == noff = Cardinality(held)

(* acquire() never finds its lock taken: on the only CPU it would spin     *)
(* for ever with interrupts off.                                           *)
NoSpin ==
  /\ spc = "acquire" => si \notin held
  /\ \A p \in Procs : Running(p) => Wants(p) \cap held = {}

(* None of the panics of this layer is reached: release() of a lock not    *)
(* held, pop_off() with interrupts on, sched() of a RUNNING process, a     *)
(* zombie scheduled again, init exiting.                                   *)
NoPanic ==
  /\ held # {} => noff >= 1 /\ ~sie
  /\ spc = "release" => si \in held
  /\ \A p \in Procs : Running(p) =>
       /\ pc[p] = "sched" => status[p] # "RUNNING"
       /\ pc[p] = "resched" => ret[p] # "zombie"
       /\ pc[p] = "exit" => p # initproc
       /\ pc[p] \in {"sleep_done", "yield_done", "forkret"} => p \in held
       /\ pc[p] = "sleep_rel" => SleepLock(ret[p]) \subseteq held
       /\ pc[p] = "fork_copy" => child[p] \in held
       /\ pc[p] \in {"exit_unlock", "wait_scan"} => WaitLock \in held
       /\ pc[p] = "io_wait" => DiskLock \in held

(* No wakeup of a waiting parent is lost: a process asleep in wait() has   *)
(* no child that is already a zombie (wait_lock covers test and sleep).    *)
ZombieNotMissed ==
  \A p, q \in Procs :
    /\ status[p] = "SLEEPING" /\ chan[p] = ProcChan(p)
    /\ status[q] = "ZOMBIE"
    => parent[q] # p

(* No wakeup of a disk reader is lost: a process asleep in                 *)
(* virtio_disk_rw() still has its request in flight (vdisk_lock).          *)
DiskWakeNotLost ==
  \A p \in Procs : status[p] = "SLEEPING" /\ chan[p] = BufChan(p) => p \in disk

(* Every process except init has a parent that can still reap it:          *)
(* reparent() leaves no child with a dead or recycled parent.              *)
ParentAlive ==
  \A p \in Procs \ {initproc} :
    status[p] \notin {"UNUSED", "USED"} =>
      /\ parent[p] \in Procs \ {p}
      /\ status[parent[p]] \in {"RUNNABLE", "RUNNING", "SLEEPING"}

(* A slot that is used again does not start with the kill mark of the      *)
(* process that had it before (freeproc clears it).                        *)
NewbornClean ==
  \A p \in Procs : status[p] \in {"UNUSED", "USED"} => ~killed[p]

(* A process with the kill mark is on its way out: no system call other    *)
(* than the closing of its files ever finds killed() true, so the tests of *)
(* it in wait(), sys_sleep(), pipes and the console decide nothing.        *)
NoKilledCall ==
  \A p \in Procs : killed[p] =>
    \/ pc[p] \in {"exit", "exit_lock", "exit_notify", "exit_zombie", "exit_unlock"}
    \/ ioret[p] = "exit_lock" \/ ret[p] = "zombie"

(* A runnable process is run: scheduler() goes round the table and user    *)
(* code gives way at a timer interrupt.                                    *)
RunnableRuns == \A p \in Procs : status[p] = "RUNNABLE" ~> status[p] = "RUNNING"

(* The zombies that belong to init are reaped: the wakeup() of init in     *)
(* reparent() or in exit() leads to a wait() that frees the zombie or one  *)
(* in a lower slot (wait() takes the lowest, so p may be overtaken by a    *)
(* slot that is used again and again).                                     *)
OrphanReaped ==
  \A p \in Procs :
    status[p] = "ZOMBIE" /\ parent[p] = initproc ~> \E q \in 1..p : status[q] = "UNUSED"

(* A sleep system call comes back to user mode, although its test of ticks *)
(* and its sleep() are not covered by a lock: a tick lost in between only  *)
(* delays it.                                                              *)
SleepEnds == \A p \in Procs : pc[p] = "tick_test" ~> pc[p] = "user"
=============================================================================
