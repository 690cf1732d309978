----------------------------- MODULE BlockDisk ------------------------------
(***************************************************************************)
(* What the disk driver promises to the buffer cache: a call of            *)
(* virtio_disk_rw() transfers one block between the disk and the caller's  *)
(* buffer, once, at some moment between the call and its return.           *)
(***************************************************************************)
CONSTANTS Procs, Blocks, Data

VARIABLES store,   \* the blocks on the disk
          data,    \* the buffer of each process
          state,   \* "idle", "called" or "served"
          blk, wr  \* the arguments of the call

vars == <<store, data, state, blk, wr>>

Init ==
  /\ store \in [Blocks -> Data] /\ data \in [Procs -> Data]
  /\ state = [p \in Procs |-> "idle"]
  /\ blk \in [Procs -> Blocks] /\ wr \in [Procs -> BOOLEAN]

(* A caller that writes has filled its buffer. *)
Call(p) ==
  /\ state[p] = "idle" /\ state' = [state EXCEPT ![p] = "called"]
  /\ \E k \in Blocks : blk' = [blk EXCEPT ![p] = k]
  /\ \E w \in BOOLEAN : wr' = [wr EXCEPT ![p] = w]
  /\ \E d \in Data : data' = [data EXCEPT ![p] = d]
  /\ UNCHANGED store

Serve(p) ==
  /\ state[p] = "called" /\ state' = [state EXCEPT ![p] = "served"]
  /\ IF wr[p] THEN store' = [store EXCEPT ![blk[p]] = data[p]] /\ UNCHANGED data
              ELSE data' = [data EXCEPT ![p] = store[blk[p]]] /\ UNCHANGED store
  /\ UNCHANGED <<blk, wr>>

Return(p) ==
  /\ state[p] = "served" /\ state' = [state EXCEPT ![p] = "idle"]
  /\ UNCHANGED <<store, data, blk, wr>>

Next == \E p \in Procs : Call(p) \/ Serve(p) \/ Return(p)

Spec == Init /\ [][Next]_vars
=============================================================================
