----------------------------- MODULE VirtioDisk -----------------------------
(***************************************************************************)
(* The disk driver (virtio_disk.c) and the device it drives.               *)
(*                                                                         *)
(* What a process does under vdisk_lock, up to the sleep() that gives the  *)
(* lock up, is one step: interrupts are off and the CPU is not taken away  *)
(* (module Proc).  The device runs in parallel and sees only the queue in  *)
(* memory.  It takes requests in order and completes them in any order.    *)
(* The interrupt handler is a step per turn of its loop, because the       *)
(* device may complete more requests while it runs.                        *)
(*                                                                         *)
(* A caller holds the sleep lock of its buffer, so a buffer is named by    *)
(* the process that owns it, and no two callers have the same block.       *)
(***************************************************************************)
EXTENDS Naturals, FiniteSets, FiniteSetsExt

CONSTANTS Procs,
          NUM,        \* descriptors, and entries of each ring
          Wrap,       \* ring indices are counted modulo Wrap: 2^16 in the code
          Blocks, Data,
          MaxCalls,   \* bound: the calls that each process makes
          Start,      \* the number of earlier requests, modulo Wrap
          Null

ASSUME DiskAssumption ==
  /\ NUM \in Nat /\ NUM >= 3 /\ MaxCalls \in Nat
  /\ Start \in 0..Wrap-1 /\ \E k \in 1..Wrap : Wrap = k * NUM
  /\ Null \notin Procs

Idx == 0..NUM-1

VARIABLES
  free,            \* disk.free[]: the free descriptors
  desc,            \* the descriptors: what each points to, and the next one
  ops,             \* disk.ops[]: the request headers
  info,            \* disk.info[]: the buffer and the status of each request
  avail, availIdx, \* the ring of requests, and the driver's index in it
  used, usedIdx,   \* the ring of completions, and the device's index in it
  seenIdx,         \* disk.used_idx: how far the handler has looked
  bdisk,           \* b->disk of each buffer
  data, blk, wr,   \* each buffer and the arguments of its call
  head,            \* idx[0] of each call
  pc, calls,
  handler,         \* the point of virtio_disk_intr()
  pending,         \* the device's interrupt status
  takenIdx, work,  \* the device: how far it has read, what it works on
  store            \* the device: the blocks

queue == <<free, desc, ops, info, avail, availIdx>>
device == <<used, usedIdx, takenIdx, work, store>>
caller == <<blk, wr, head, calls>>
vars == <<queue, device, caller, seenIdx, bdisk, data, pc, handler, pending>>

NoDesc == [to |-> "none", i |-> 0, more |-> FALSE, next |-> 0]

Inc(x) == (x + 1) % Wrap

(* A moment at which no request is in flight: after virtio_disk_init() if  *)
(* Start is 0, later otherwise.                                            *)
Init ==
  /\ free = Idx /\ desc = [i \in Idx |-> NoDesc]
  /\ ops = [i \in Idx |-> [out |-> FALSE, sector |-> Null]]
  /\ info = [i \in Idx |-> [b |-> Null, ok |-> FALSE]]
  /\ avail = [i \in Idx |-> 0] /\ availIdx = Start
  /\ used = [i \in Idx |-> 0] /\ usedIdx = Start /\ seenIdx = Start
  /\ bdisk = [p \in Procs |-> FALSE]
  /\ store \in [Blocks -> Data] /\ data \in [Procs -> Data]
  /\ blk \in [Procs -> Blocks] /\ wr = [p \in Procs |-> FALSE]
  /\ head = [p \in Procs |-> 0]
  /\ pc = [p \in Procs |-> "idle"] /\ calls = [p \in Procs |-> 0]
  /\ handler = "off" /\ pending = FALSE
  /\ takenIdx = Start /\ work = {}

Unlocked == handler = "off"
WakeAlloc(f) == [p \in Procs |-> IF f[p] = "want" THEN "alloc" ELSE f[p]]

-----------------------------------------------------------------------------
(* virtio_disk_rw() *)

Rw(p) ==
  /\ Unlocked /\ pc[p] = "idle" /\ calls[p] < MaxCalls
  /\ pc' = [pc EXCEPT ![p] = "alloc"] /\ calls' = [calls EXCEPT ![p] = @ + 1]
  /\ \E k \in Blocks :
       /\ \A q \in Procs \ {p} : pc[q] = "idle" \/ blk[q] # k
       /\ blk' = [blk EXCEPT ![p] = k]
  /\ \E w \in BOOLEAN : wr' = [wr EXCEPT ![p] = w]
  /\ \E d \in Data : data' = [data EXCEPT ![p] = IF wr'[p] THEN d ELSE @]
  /\ UNCHANGED <<queue, device, head, seenIdx, bdisk, handler, pending>>

(* an alloc3_desc() that keeps what it took when it fails *)
AllocFailKeeps(p) ==
  /\ Unlocked /\ pc[p] = "alloc" /\ Cardinality(free) < 3
  /\ free' = {} /\ pc' = [pc EXCEPT ![p] = "want"]
  /\ UNCHANGED <<desc, ops, info, avail, availIdx, device, caller, seenIdx, bdisk, data, handler, pending>>

(* alloc3_desc() fails: what it took it frees again, and free_desc() wakes *)
(* the others that wait; then sleep(&disk.free[0]).                        *)
AllocFail(p) ==
  /\ Unlocked /\ pc[p] = "alloc" /\ Cardinality(free) < 3
  /\ pc' = [(IF free = {} THEN pc ELSE WakeAlloc(pc)) EXCEPT ![p] = "want"]
  /\ UNCHANGED <<queue, device, caller, seenIdx, bdisk, data, handler, pending>>

Slot(x) == x % NUM

(* alloc3_desc() succeeds: format the chain, put it in the avail ring, and *)
(* sleep(b).                                                               *)
Submit(p) ==
  LET a == Min(free)
      b == Min(free \ {a})
      c == Min(free \ {a, b})
  IN  /\ Unlocked /\ pc[p] = "alloc" /\ Cardinality(free) >= 3
      /\ free' = free \ {a, b, c}
      /\ ops' = [ops EXCEPT ![a] = [out |-> wr[p], sector |-> blk[p]]]
      /\ desc' = [desc EXCEPT ![a] = [to |-> "op", i |-> a, more |-> TRUE, next |-> b],
                              ![b] = [to |-> "data", i |-> p, more |-> TRUE, next |-> c],
                              ![c] = [to |-> "status", i |-> a, more |-> FALSE, next |-> 0]]
      /\ info' = [info EXCEPT ![a] = [b |-> p, ok |-> FALSE]]
      /\ bdisk' = [bdisk EXCEPT ![p] = TRUE]
      /\ avail' = [avail EXCEPT ![Slot(availIdx)] = a] /\ availIdx' = Inc(availIdx)
      /\ head' = [head EXCEPT ![p] = a]
      /\ pc' = [pc EXCEPT ![p] = "iowait"]
      /\ UNCHANGED <<device, blk, wr, calls, seenIdx, data, handler, pending>>

(* The descriptors that free_chain(i) frees. *)
Chain(i) ==
  LET j == desc[i].next
  IN  {i} \cup IF ~desc[i].more THEN {}
               ELSE {j} \cup IF desc[j].more THEN {desc[j].next} ELSE {}

(* a free_chain() that wakes nobody *)
FinishQuiet(p) ==
  /\ Unlocked /\ pc[p] = "iowoken" /\ ~bdisk[p]
  /\ info' = [info EXCEPT ![head[p]].b = Null]
  /\ free' = free \cup Chain(head[p])
  /\ desc' = [i \in Idx |-> IF i \in Chain(head[p]) THEN NoDesc ELSE desc[i]]
  /\ head' = [head EXCEPT ![p] = 0]
  /\ pc' = [pc EXCEPT ![p] = "idle"]
  /\ UNCHANGED <<ops, avail, availIdx, device, blk, wr, calls, seenIdx, bdisk, data, handler, pending>>

(* The end of virtio_disk_rw(), after virtio_disk_intr() has cleared       *)
(* b->disk and sleep(b) has returned.                                      *)
Finish(p) ==
  /\ Unlocked /\ pc[p] = "iowoken"
  /\ IF bdisk[p]
     THEN pc' = [pc EXCEPT ![p] = "iowait"] /\ UNCHANGED <<info, free, desc, head>>
     ELSE /\ info' = [info EXCEPT ![head[p]].b = Null]
          /\ free' = free \cup Chain(head[p])
          /\ desc' = [i \in Idx |-> IF i \in Chain(head[p]) THEN NoDesc ELSE desc[i]]
          /\ head' = [head EXCEPT ![p] = 0]
          /\ pc' = [WakeAlloc(pc) EXCEPT ![p] = "idle"]
  /\ UNCHANGED <<ops, avail, availIdx, device, blk, wr, calls, seenIdx, bdisk, data, handler, pending>>

-----------------------------------------------------------------------------
(* virtio_disk_intr() *)

IntrEnter ==
  /\ Unlocked /\ pending
  /\ handler' = "loop" /\ pending' = FALSE
  /\ UNCHANGED <<queue, device, caller, seenIdx, bdisk, data, pc>>

(* a handler that looks at the entry after the one that is new *)
IntrStepAhead ==
  LET b == info[used[Slot(Inc(seenIdx))]].b
  IN  /\ handler = "loop" /\ seenIdx # usedIdx
      /\ seenIdx' = Inc(seenIdx)
      /\ bdisk' = [bdisk EXCEPT ![b] = FALSE]
      /\ pc' = [pc EXCEPT ![b] = IF @ = "iowait" THEN "iowoken" ELSE @]
      /\ UNCHANGED <<queue, device, caller, data, handler, pending>>

(* a handler that takes one completion per interrupt *)
IntrStepOne ==
  LET b == info[used[Slot(seenIdx)]].b
  IN  /\ handler = "loop" /\ seenIdx # usedIdx
      /\ seenIdx' = Inc(seenIdx) /\ handler' = "off"
      /\ bdisk' = [bdisk EXCEPT ![b] = FALSE]
      /\ pc' = [pc EXCEPT ![b] = IF @ = "iowait" THEN "iowoken" ELSE @]
      /\ UNCHANGED <<queue, device, caller, data, pending>>

IntrStep ==
  LET id == used[Slot(seenIdx)]
      b == info[id].b
  IN  /\ handler = "loop" /\ seenIdx # usedIdx
      /\ seenIdx' = Inc(seenIdx)
      /\ bdisk' = [bdisk EXCEPT ![b] = FALSE]
      /\ pc' = [pc EXCEPT ![b] = IF @ = "iowait" THEN "iowoken" ELSE @]
      /\ UNCHANGED <<queue, device, caller, data, handler, pending>>

IntrExit ==
  /\ handler = "loop" /\ seenIdx = usedIdx
  /\ handler' = "off"
  /\ UNCHANGED <<queue, device, caller, seenIdx, bdisk, data, pc, pending>>

-----------------------------------------------------------------------------
(* The device, as the driver relies on it. *)

DevTake ==
  /\ takenIdx # availIdx
  /\ work' = work \cup {avail[Slot(takenIdx)]}
  /\ takenIdx' = Inc(takenIdx)
  /\ UNCHANGED <<queue, caller, used, usedIdx, store, seenIdx, bdisk, data, pc, handler, pending>>

(* The device follows the chain from descriptor h, moves the data, writes  *)
(* the status and the used entry, and raises its interrupt.                *)
DevComplete(h) ==
  LET op == ops[desc[h].i]
      d  == desc[desc[h].next]
      s  == desc[d.next]
  IN  /\ h \in work /\ work' = work \ {h}
      /\ IF op.out THEN store' = [store EXCEPT ![op.sector] = data[d.i]] /\ UNCHANGED data
                   ELSE data' = [data EXCEPT ![d.i] = store[op.sector]] /\ UNCHANGED store
      /\ info' = [info EXCEPT ![s.i].ok = TRUE]
      /\ used' = [used EXCEPT ![Slot(usedIdx)] = h] /\ usedIdx' = Inc(usedIdx)
      /\ pending' = TRUE
      /\ UNCHANGED <<free, desc, ops, avail, availIdx, caller, takenIdx, seenIdx, bdisk, pc, handler>>

-----------------------------------------------------------------------------
Driver(p) == AllocFail(p) \/ Submit(p) \/ Finish(p)
Intr == IntrEnter \/ IntrStep \/ IntrExit

Next ==
  \/ \E p \in Procs : Rw(p) \/ Driver(p)
  \/ Intr
  \/ DevTake \/ \E h \in Idx : DevComplete(h)

Spec == Init /\ [][Next]_vars

(* Fairness: a runnable process gets the CPU (RunnableRuns of module       *)
(* Proc), a raised interrupt is delivered and its handler runs, and the    *)
(* device works on what it is given.                                       *)
Fairness ==
  /\ \A p \in Procs : WF_vars(Driver(p))
  /\ WF_vars(Intr)
  /\ WF_vars(DevTake) /\ \A h \in Idx : WF_vars(DevComplete(h))

-----------------------------------------------------------------------------
(* The requests between submission and the end of virtio_disk_rw(). *)
Active == {p \in Procs : pc[p] \in {"iowait", "iowoken"}}

(* Every descriptor is free or in the chain of exactly one request, and a  *)
(* chain has three: none leaks, none is used twice, and free_desc() never  *)
(* panics.                                                                 *)
DescsAccounted ==
  /\ free \cup UNION {Chain(head[p]) : p \in Active} = Idx
  /\ \A p \in Active :
       /\ Cardinality(Chain(head[p])) = 3 /\ Chain(head[p]) \cap free = {}
       /\ \A q \in Active \ {p} : Chain(head[p]) \cap Chain(head[q]) = {}

(* The entries of the used ring that the handler has not looked at. *)
Unseen == {(seenIdx + k) % Wrap : k \in 0..((usedIdx + Wrap - seenIdx) % Wrap) - 1}

(* A completion that the handler has not seen has an interrupt pending or  *)
(* a handler that is about to look: acknowledging before the loop loses    *)
(* none.                                                                   *)
IntrNotLost == seenIdx # usedIdx => pending \/ handler = "loop"

(* The requests that nobody has served yet. *)
Served(p) == p \in Active /\ (~bdisk[p] \/ \E x \in Unseen : used[Slot(x)] = head[p])

BD == INSTANCE BlockDisk WITH
        state <- [p \in Procs |-> IF pc[p] = "idle" THEN "idle"
                                  ELSE IF Served(p) THEN "served" ELSE "called"]

(* Through descriptors that are reused, rings that wrap and completions    *)
(* out of order, each call moves its own block, once, before it returns.   *)
DiskSpec == BD!Spec

(* Every call of virtio_disk_rw() returns, although the processes that     *)
(* wait for descriptors can wake each other in vain.                       *)
CallsReturn == \A p \in Procs : pc[p] # "idle" ~> pc[p] = "idle"
=============================================================================
