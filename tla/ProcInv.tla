------------------------------ MODULE ProcInv -------------------------------
(***************************************************************************)
(* The inductive invariant of Proc, and the refinement of ProcTree.        *)
(***************************************************************************)
EXTENDS Proc

Asleep == {"wait_scan", "tick_test", "io_wait"}   \* the loops that call sleep()
Switches == {"sleep", "sleep_rel", "sched", "resched", "sleep_back", "sleep_done", "yield_done"}
Forking == {"fork_copy", "fork_link", "fork_run"}

(* Which points go together: a process without the CPU is in sched() or    *)
(* has not started, and the locals a point reads have been set.            *)
ControlInv ==
  /\ spc \in {"away", "back"} => cproc = si
  /\ spc \notin {"away", "back"} => cproc = NoProc
  /\ \A p \in Procs :
       /\ ~Running(p) => pc[p] \in {"forkret", "resched"}
       /\ pc[p] \in {"sleep", "sleep_done"} => ret[p] \in Asleep
       /\ pc[p] \in {"sleep_rel", "sleep_back"} => ret[p] \in {"wait_scan", "io_wait"}
       /\ pc[p] \in {"sched", "resched"} => ret[p] # "none"
       /\ ret[p] # "none" => pc[p] \in Switches
       /\ pc[p] \in {"io_submit", "io_wait"} \/ ret[p] = "io_wait" => ioret[p] # "none"
       /\ pc[p] \in Forking => child[p] \in Procs \ {p}
  /\ pc[initproc] \notin {"exit", "exit_lock", "exit_notify", "exit_zombie", "exit_unlock"}
  /\ ioret[initproc] # "exit_lock" /\ ret[initproc] # "zombie" /\ ~killed[initproc]

(* The locks that are held at each point. *)
HeldBy(p) ==
  CASE pc[p] = "fork_copy"                                       -> {child[p]}
    [] pc[p] \in {"exit_notify", "exit_zombie", "wait_scan"}     -> {WaitLock}
    [] pc[p] = "exit_unlock"                                     -> {WaitLock, p}
    [] pc[p] = "io_wait"                                         -> {DiskLock}
    [] pc[p] = "sleep"                                           -> SleepLock(ret[p])
    [] pc[p] \in {"sleep_rel", "sleep_done"}                     -> {p} \cup SleepLock(ret[p])
    [] pc[p] \in {"sleep_back", "sched", "resched", "yield_done", "forkret"} -> {p}
    [] OTHER                                                     -> {}

LocksInv ==
  /\ spc \in {"intr_on", "acquire"} => held = {}
  /\ spc \in {"check", "back", "release"} => held = {si}
  /\ spc = "away" => held = HeldBy(cproc)

(* What sched() and scheduler() saved is what they find when they return. *)
SavedInv ==
  /\ spc \in {"away", "back"} => snoff = 1
  /\ \A p \in Procs : pc[p] = "resched" => svnoff[p] = 1

(* The status of a process, from its point and from who has the CPU. *)
StatusInv ==
  \A p \in Procs :
    /\ Running(p) =>
         CASE pc[p] = "sleep_rel"   -> status[p] = "SLEEPING"
           [] pc[p] = "exit_unlock" -> status[p] = "ZOMBIE"
           [] pc[p] = "sched"       -> \/ ret[p] \in Asleep /\ status[p] = "SLEEPING"
                                       \/ ret[p] = "yield_done" /\ status[p] = "RUNNABLE"
                                       \/ ret[p] = "zombie" /\ status[p] = "ZOMBIE"
           [] OTHER                 -> status[p] = "RUNNING"
    /\ ~Running(p) =>
         CASE pc[p] = "forkret"      -> status[p] \in {"UNUSED", "USED", "RUNNABLE"}
           [] ret[p] \in Asleep      -> status[p] \in {"SLEEPING", "RUNNABLE"}
           [] ret[p] = "yield_done"  -> status[p] = "RUNNABLE"
           [] OTHER                  -> status[p] \in {"ZOMBIE", "UNUSED"}
    /\ Running(p) /\ pc[p] = "resched" => ret[p] # "zombie"
    /\ status[p] = "SLEEPING" => chan[p] = SleepChan(p)
    /\ status[p] = "USED" => \E q \in Procs : Running(q) /\ pc[q] \in Forking /\ child[q] = p
    /\ pc[p] \in Forking => status[child[p]] = "USED"
  /\ status[initproc] \notin {"UNUSED", "USED", "ZOMBIE"}

(* Between the steps of fork() and of exit(), which no other process can   *)
(* see, the family is as the next step needs it.                           *)
FamilyInv ==
  \A p \in Procs :
    /\ pc[p] = "fork_run" => parent[child[p]] = p
    /\ pc[p] = "exit_zombie" => \A q \in Procs : parent[q] # p
    /\ pc[p] = "exit_zombie" =>
         ~(status[parent[p]] = "SLEEPING" /\ chan[parent[p]] = ProcChan(parent[p]))
    /\ pc[p] \in {"sleep", "sleep_rel"} /\ ret[p] = "wait_scan" => ZombieKids(p) = {}

(* A request that a process is about to sleep for is still in flight. *)
DiskInv ==
  \A p \in Procs : pc[p] = "sleep" /\ ret[p] = "io_wait" => p \in disk

(* The inductive invariant. *)
IInv ==
  /\ TypeOK /\ ControlInv
  /\ LocksInv /\ SavedInv /\ LockCount /\ IntrSafe
  /\ StatusInv /\ NewbornClean
  /\ FamilyInv /\ ParentAlive /\ ZombieNotMissed
  /\ DiskInv /\ DiskWakeNotLost

-----------------------------------------------------------------------------
(* Proc implements ProcTree.  exit() takes effect when reparent() has run, *)
(* fork() when the child becomes RUNNABLE; the parent field of a free slot *)
(* is not part of the tree.                                                *)

Life == [p \in Procs |->
  CASE status[p] \in {"UNUSED", "USED"}                   -> "free"
    [] status[p] = "ZOMBIE" \/ pc[p] = "exit_zombie"      -> "zombie"
    [] OTHER                                              -> "live"]

Par == [p \in Procs |-> IF status[p] \in {"UNUSED", "USED"} THEN NoProc ELSE parent[p]]

Tree == INSTANCE ProcTree WITH root <- initproc, life <- Life, par <- Par

(* fork(), exit() and wait(), cut into their locked sections and           *)
(* interleaved with interrupts and other processes, act on the family of   *)
(* processes as single steps: nobody is orphaned, lost or reaped twice.    *)
TreeSpec == Tree!Spec
=============================================================================
