------------------------------- MODULE Bcache -------------------------------
(***************************************************************************)
(* The buffer cache (bio.c) and the sleep locks of its buffers             *)
(* (sleeplock.c).                                                          *)
(*                                                                         *)
(* A section under bcache.lock, or under the spin lock inside a sleep      *)
(* lock, is one step (module Proc).  Processes lose the CPU in             *)
(* acquiresleep() and while the disk works.  virtio_disk_rw() is the       *)
(* transfer of module BlockDisk.                                           *)
(*                                                                         *)
(* The callers are those of fs.c: a process has at most MaxHeld buffers,   *)
(* two at most in the code (bmap() holds the indirect block while balloc() *)
(* reads the bitmap), never asks for a block it has, and calls bwrite()    *)
(* before brelse() when it has changed the data.  One caller does not do   *)
(* the last: writei(), when either_copyin() fails half way.                *)
(***************************************************************************)
EXTENDS Integers, Sequences, FiniteSets

CONSTANTS Procs, Bufs, Blocks, Data,
          MaxHeld,
          Null

ASSUME BcacheAssumption ==
  /\ IsFiniteSet(Procs) /\ IsFiniteSet(Bufs)
  /\ MaxHeld \in Nat /\ Cardinality(Bufs) >= MaxHeld * Cardinality(Procs)
  /\ Null \notin Procs \cup Bufs \cup Blocks \cup Data

VARIABLES
  lru,                  \* the list of all buffers: head.next first
  blk, refcnt, valid,   \* b->blockno, b->refcnt, b->valid
  data,                 \* b->data; Null is a mixture of two contents
  torn,                 \* history: writei() failed on b and did not write it
  locked, owner,        \* b->lock.locked, b->lock.pid
  lk,                   \* who holds the spin lock b->lock.lock between steps
  hold,                 \* the buffers that a process has, locked
  pc, cur,              \* per process: its point, and the buffer it is about
  store,                \* the disk
  hung                  \* the CPU spins with interrupts off

cache == <<lru, blk, refcnt, valid>>
locks == <<locked, owner, lk>>
vars == <<cache, data, torn, locks, hold, pc, cur, store, hung>>

(* Nobody else runs while a process holds a spin lock, and nobody at all   *)
(* once the CPU spins.                                                     *)
CanRun(p) == ~hung /\ \A b \in Bufs : lk[b] \in {Null, p}

Goto(p, l) == pc' = [pc EXCEPT ![p] = l]

(* binit(): the blocks that the empty buffers name are of no device *)
Init ==
  /\ lru \in {s \in [1..Cardinality(Bufs) -> Bufs] : \A b \in Bufs : \E i \in DOMAIN s : s[i] = b}
  /\ blk = [b \in Bufs |-> Null] /\ refcnt = [b \in Bufs |-> 0]
  /\ valid = [b \in Bufs |-> FALSE] /\ \E d \in Data : data = [b \in Bufs |-> d]
  /\ torn = [b \in Bufs |-> FALSE]
  /\ locked = [b \in Bufs |-> FALSE] /\ owner = [b \in Bufs |-> Null]
  /\ lk = [b \in Bufs |-> Null]
  /\ hold = [p \in Procs |-> {}]
  /\ pc = [p \in Procs |-> "run"] /\ cur = [p \in Procs |-> Null]
  /\ store \in [Blocks -> Data] /\ hung = FALSE

-----------------------------------------------------------------------------
(* bget() *)

MayGet(p) == CanRun(p) /\ pc[p] = "run" /\ Cardinality(hold[p]) < MaxHeld
Cached(k) == {b \in Bufs : blk[b] = k}

BgetHit(p, k) ==
  /\ MayGet(p) /\ \A b \in hold[p] : blk[b] # k
  /\ \E b \in Cached(k) :
       /\ refcnt' = [refcnt EXCEPT ![b] = @ + 1]
       /\ cur' = [cur EXCEPT ![p] = b]
  /\ Goto(p, "lock")
  /\ UNCHANGED <<lru, blk, valid, data, torn, locks, hold, store, hung>>

(* a recycled buffer that keeps its valid flag *)
RecycleValid(b, k) ==
  /\ blk' = [blk EXCEPT ![b] = k]
  /\ refcnt' = [refcnt EXCEPT ![b] = 1]
  /\ torn' = [torn EXCEPT ![b] = FALSE]
  /\ UNCHANGED valid

Recycle(b, k) ==
  /\ blk' = [blk EXCEPT ![b] = k]
  /\ valid' = [valid EXCEPT ![b] = FALSE]
  /\ refcnt' = [refcnt EXCEPT ![b] = 1]
  /\ torn' = [torn EXCEPT ![b] = FALSE]

(* the least recently used of the buffers that nobody uses *)
Oldest(b) ==
  \E i \in DOMAIN lru :
    /\ lru[i] = b /\ refcnt[b] = 0
    /\ \A j \in DOMAIN lru : j > i => refcnt[lru[j]] > 0

(* a bget() that does not look for the block first *)
BgetMissBlind(p, k) ==
  /\ MayGet(p) /\ \A b \in hold[p] : blk[b] # k
  /\ \E b \in Bufs : Oldest(b) /\ Recycle(b, k) /\ cur' = [cur EXCEPT ![p] = b]
  /\ Goto(p, "lock")
  /\ UNCHANGED <<lru, data, locks, hold, store, hung>>

BgetMiss(p, k) ==
  /\ MayGet(p) /\ Cached(k) = {}
  /\ \E b \in Bufs : Oldest(b) /\ Recycle(b, k) /\ cur' = [cur EXCEPT ![p] = b]
  /\ Goto(p, "lock")
  /\ UNCHANGED <<lru, data, locks, hold, store, hung>>

-----------------------------------------------------------------------------
(* acquiresleep() *)

(* a loop that does not look at lk->locked *)
AcquireSleepBlind(p) ==
  LET b == cur[p]
  IN  /\ CanRun(p) /\ pc[p] = "lock" /\ lk[b] = Null
      /\ locked' = [locked EXCEPT ![b] = TRUE]
      /\ owner' = [owner EXCEPT ![b] = p]
      /\ hold' = [hold EXCEPT ![p] = @ \cup {b}]
      /\ Goto(p, IF valid[b] THEN "run" ELSE "read")
      /\ cur' = [cur EXCEPT ![p] = IF valid[b] THEN Null ELSE b]
      /\ UNCHANGED <<cache, data, torn, lk, store, hung>>

(* One turn of the loop.  acquire() spins for ever on a lock that is held, *)
(* since its holder cannot run.                                            *)
AcquireSleep(p) ==
  LET b == cur[p]
  IN  /\ CanRun(p) /\ pc[p] = "lock"
      /\ IF lk[b] # Null
         THEN hung' = TRUE /\ UNCHANGED <<locked, owner, hold, pc, cur>>
         ELSE /\ IF locked[b]
                 THEN Goto(p, "sleep") /\ UNCHANGED <<locked, owner, hold, cur>>
                 ELSE /\ locked' = [locked EXCEPT ![b] = TRUE]
                      /\ owner' = [owner EXCEPT ![b] = p]
                      /\ hold' = [hold EXCEPT ![p] = @ \cup {b}]
                      /\ Goto(p, IF valid[b] THEN "run" ELSE "read")
                      /\ cur' = [cur EXCEPT ![p] = IF valid[b] THEN Null ELSE b]
              /\ UNCHANGED hung
      /\ UNCHANGED <<cache, data, torn, lk, store>>

(* sleep(lk, &lk->lock) returns with lk->lock held. *)
SleepReturn(p) ==
  /\ CanRun(p) /\ pc[p] = "woken"
  /\ lk' = [lk EXCEPT ![cur[p]] = p]
  /\ Goto(p, "lock")
  /\ UNCHANGED <<cache, data, torn, locked, owner, hold, cur, store, hung>>

(* the end of bread() *)
Bread(p) ==
  /\ CanRun(p) /\ pc[p] = "read"
  /\ data' = [data EXCEPT ![cur[p]] = store[blk[cur[p]]]]
  /\ valid' = [valid EXCEPT ![cur[p]] = TRUE]
  /\ Goto(p, "run") /\ cur' = [cur EXCEPT ![p] = Null]
  /\ UNCHANGED <<lru, blk, refcnt, torn, locks, hold, store, hung>>

(* The caller changes the data and calls bwrite(). *)
Bwrite(p, b) ==
  /\ CanRun(p) /\ pc[p] = "run" /\ b \in hold[p]
  /\ \E d \in Data : data' = [data EXCEPT ![b] = d]
  /\ torn' = [torn EXCEPT ![b] = FALSE]
  /\ Goto(p, "write") /\ cur' = [cur EXCEPT ![p] = b]
  /\ UNCHANGED <<cache, locks, hold, store, hung>>

BwriteDone(p) ==
  /\ CanRun(p) /\ pc[p] = "write"
  /\ store' = [store EXCEPT ![blk[cur[p]]] = data[cur[p]]]
  /\ Goto(p, "run") /\ cur' = [cur EXCEPT ![p] = Null]
  /\ UNCHANGED <<cache, data, torn, locks, hold, hung>>

(* a brelse() that forgets the processes that wait *)
CountZero(b) == [refcnt EXCEPT ![b] = 0]

(* a brelse() that keeps the reference *)
CountKept(b) == refcnt

Count(b) == [refcnt EXCEPT ![b] = @ - 1]

(* brelse(): releasesleep(), then the reference; a buffer that nobody uses *)
(* or waits for goes to the front.                                         *)
Drop(p, b) ==
  /\ CanRun(p) /\ pc[p] = "run" /\ b \in hold[p]
  /\ locked' = [locked EXCEPT ![b] = FALSE] /\ owner' = [owner EXCEPT ![b] = Null]
  /\ hold' = [hold EXCEPT ![p] = @ \ {b}]
  /\ pc' = [q \in Procs |-> IF pc[q] = "sleep" /\ cur[q] = b THEN "woken" ELSE pc[q]]
  /\ refcnt' = Count(b)
  /\ lru' = IF refcnt'[b] = 0 THEN <<b>> \o SelectSeq(lru, LAMBDA x : x # b) ELSE lru
  /\ UNCHANGED <<blk, valid, lk, cur, store, hung>>

Brelse(p, b) == Drop(p, b) /\ UNCHANGED <<data, torn>>

(* writei(): either_copyin() has copied a page and fails on the next one;  *)
(* brelse() without bwrite().                                              *)
WriteiFault(p, b) ==
  /\ Drop(p, b)
  /\ data' = [data EXCEPT ![b] = Null]
  /\ torn' = [torn EXCEPT ![b] = TRUE]

-----------------------------------------------------------------------------
Next ==
  \E p \in Procs :
    \/ \E k \in Blocks : BgetHit(p, k) \/ BgetMiss(p, k)
    \/ AcquireSleep(p) \/ SleepReturn(p) \/ Bread(p) \/ BwriteDone(p)
    \/ \E b \in Bufs : Bwrite(p, b) \/ Brelse(p, b) \/ WriteiFault(p, b)

Spec == Init /\ [][Next]_vars

-----------------------------------------------------------------------------
(* A block has one buffer at most: bget() finds the copy that others use,  *)
(* and recycles only when there is none.                                   *)
OneCopy == \A b, c \in Bufs : blk[b] = blk[c] /\ blk[b] # Null => b = c

(* The processes that have b, or wait for it. *)
Users(b) == {p \in Procs : b \in hold[p] \/ (cur[p] = b /\ pc[p] \in {"lock", "sleep", "woken"})}

(* b->refcnt counts the processes between bget() and brelse(): a buffer is *)
(* not recycled under a process that sleeps in acquiresleep().             *)
RefsCounted == \A b \in Bufs : refcnt[b] = Cardinality(Users(b))

(* Only one process at a time has a buffer, and the sleep lock says which: *)
(* holdingsleep() is true in bwrite() and brelse(), which never panic.     *)
OneUser ==
  \A b \in Bufs : /\ locked[b] <=> \E p \in Procs : b \in hold[p]
                  /\ \A p \in Procs : b \in hold[p] => owner[b] = p

(* b is in step with the disk, or its owner is writing it. *)
InStep(b) == data[b] = store[blk[b]] \/ \E p \in Procs : pc[p] = "write" /\ cur[p] = b

(* A buffer with valid data has what is on the disk, unless its owner is   *)
(* writing it or writei() failed on it: through recycling and contention   *)
(* bread() returns no block that is out of date.                           *)
Coherent == \A b \in Bufs : valid[b] /\ ~torn[b] => InStep(b)

(* The list has every buffer once; a process that calls bget() finds one   *)
(* that is unused, so the panic of bget() is not reached.                  *)
BufferLeft ==
  /\ \A b \in Bufs : \E i \in DOMAIN lru : lru[i] = b
  /\ (\E p \in Procs : MayGet(p)) => \E b \in Bufs : refcnt[b] = 0

(* bget() returns a locked buffer "in either case" (bio.c): it does not    *)
(* stop the machine.                                                       *)
NeverHung == ~hung
=============================================================================
