---------------------------- MODULE BcacheProofs ----------------------------
(***************************************************************************)
(* Proofs about Bcache, for any number of processes, buffers and blocks.   *)
(***************************************************************************)
EXTENDS Bcache, FiniteSetTheorems, TLAPS

Waiting == {"lock", "sleep", "woken"}

Typed ==
  /\ blk \in [Bufs -> Blocks \cup {Null}]
  /\ refcnt \in [Bufs -> Int]
  /\ valid \in [Bufs -> BOOLEAN] /\ torn \in [Bufs -> BOOLEAN]
  /\ locked \in [Bufs -> BOOLEAN] /\ owner \in [Bufs -> Procs \cup {Null}]
  /\ data \in [Bufs -> Data \cup {Null}] /\ store \in [Blocks -> Data \cup {Null}]
  /\ hold \in [Procs -> SUBSET Bufs]
  /\ pc \in [Procs -> {"run", "read", "write"} \cup Waiting]
  /\ cur \in [Procs -> Bufs \cup {Null}]

(* A process that reads or writes has the buffer; one that waits has not. *)
Points ==
  \A p \in Procs :
    /\ pc[p] # "run" => cur[p] \in Bufs
    /\ pc[p] \in {"read", "write"} => cur[p] \in hold[p]
    /\ pc[p] \in Waiting => cur[p] \notin hold[p]

(* A buffer that is used or waited for stands for a block. *)
Named == \A b \in Bufs : \A p \in Users(b) : blk[b] # Null

BInv == Typed /\ Points /\ Named /\ OneCopy /\ OneUser /\ RefsCounted /\ Coherent

-----------------------------------------------------------------------------
(* Who uses a buffer, before and after a step. *)

LEMMA UsersFinite == \A b : IsFiniteSet(Users(b)) /\ IsFiniteSet(Users(b)')
<1> TAKE b
<1>1. Users(b) \in SUBSET Procs /\ Users(b)' \in SUBSET Procs
  BY DEF Users
<1> QED BY <1>1, FS_Subset, BcacheAssumption

(* A buffer with the count 0 has no user: it may be recycled. *)
LEMMA Unused ==
  ASSUME RefsCounted, NEW b \in Bufs, refcnt[b] = 0
  PROVE  Users(b) = {}
BY UsersFinite, FS_EmptySet DEF RefsCounted

(* bget() that hits adds the caller to the users of one buffer. *)
LEMMA HitUsers ==
  ASSUME Typed, NEW p \in Procs, NEW k \in Blocks, BgetHit(p, k)
  PROVE  \E b \in Bufs :
           /\ blk[b] = k /\ b \notin hold[p]
           /\ cur' = [cur EXCEPT ![p] = b] /\ refcnt' = [refcnt EXCEPT ![b] = @ + 1]
           /\ p \notin Users(b) /\ Users(b)' = Users(b) \cup {p}
           /\ \A c \in Bufs \ {b} : Users(c)' = Users(c)
<1>1. PICK b \in Cached(k) : /\ refcnt' = [refcnt EXCEPT ![b] = @ + 1]
                             /\ cur' = [cur EXCEPT ![p] = b]
  BY DEF BgetHit
<1>2. b \in Bufs /\ blk[b] = k /\ b \notin hold[p] /\ pc[p] = "run"
  BY DEF Cached, BgetHit, MayGet
<1>3. hold' = hold /\ pc' = [pc EXCEPT ![p] = "lock"]
  BY DEF BgetHit, Goto
<1>4. p \notin Users(b)
  BY <1>2 DEF Users
<1>5. \A c \in Bufs, q \in Procs : q \in Users(c)' <=> q \in Users(c) \/ (c = b /\ q = p)
  BY <1>1, <1>2, <1>3 DEF Users, Typed
<1>6. \A c : Users(c) \subseteq Procs /\ Users(c)' \subseteq Procs
  BY DEF Users
<1>7. Users(b)' = Users(b) \cup {p}
  BY <1>2, <1>5, <1>6
<1>8. \A c \in Bufs \ {b} : Users(c)' = Users(c)
  BY <1>5, <1>6
<1> QED BY <1>1, <1>2, <1>4, <1>7, <1>8

(* bget() that misses takes a buffer without users. *)
LEMMA MissUsers ==
  ASSUME Typed, RefsCounted, NEW p \in Procs, NEW k \in Blocks, BgetMiss(p, k)
  PROVE  \E b \in Bufs :
           /\ Recycle(b, k) /\ cur' = [cur EXCEPT ![p] = b]
           /\ Users(b) = {} /\ Users(b)' = {p}
           /\ \A c \in Bufs \ {b} : Users(c)' = Users(c)
<1>1. PICK b \in Bufs : Oldest(b) /\ Recycle(b, k) /\ cur' = [cur EXCEPT ![p] = b]
  BY DEF BgetMiss
<1>2. Users(b) = {}
  BY <1>1, Unused DEF Oldest
<1>3. hold' = hold /\ pc' = [pc EXCEPT ![p] = "lock"] /\ pc[p] = "run"
  BY DEF BgetMiss, Goto, MayGet
<1>4. \A c \in Bufs, q \in Procs : q \in Users(c)' <=> q \in Users(c) \/ (c = b /\ q = p)
  BY <1>1, <1>3 DEF Users, Typed
<1>5. \A c : Users(c) \subseteq Procs /\ Users(c)' \subseteq Procs
  BY DEF Users
<1>6. Users(b)' = {p}
  BY <1>2, <1>4, <1>5
<1>7. \A c \in Bufs \ {b} : Users(c)' = Users(c)
  BY <1>4, <1>5
<1> QED BY <1>1, <1>2, <1>6, <1>7

(* brelse() takes the caller from the users of the buffer, wakes the ones  *)
(* that sleep, and leaves them users.                                      *)
LEMMA DropUsers ==
  ASSUME Typed, Points, NEW p \in Procs, NEW b \in Bufs, Drop(p, b)
  PROVE  /\ p \in Users(b) /\ Users(b)' = Users(b) \ {p}
         /\ \A c \in Bufs \ {b} : Users(c)' = Users(c)
<1>1. pc[p] = "run" /\ b \in hold[p] /\ cur' = cur /\ hold' = [hold EXCEPT ![p] = @ \ {b}]
  BY DEF Drop
<1>2. \A q \in Procs : pc'[q] = IF pc[q] = "sleep" /\ cur[q] = b THEN "woken" ELSE pc[q]
  BY DEF Drop
<1>3. p \in Users(b)
  BY <1>1 DEF Users
<1>4. \A c \in Bufs, q \in Procs : q \in Users(c)' <=> q \in Users(c) /\ ~(c = b /\ q = p)
  BY <1>1, <1>2 DEF Users, Typed
<1>5. \A c : Users(c) \subseteq Procs /\ Users(c)' \subseteq Procs
  BY DEF Users
<1> QED BY <1>3, <1>4, <1>5

(* The other steps. *)
Quiet(p) ==
  AcquireSleep(p) \/ SleepReturn(p) \/ Bread(p) \/ BwriteDone(p) \/ \E b \in Bufs : Bwrite(p, b)

(* They change nobody's use of a buffer, and no count. *)
LEMMA QuietUsers ==
  ASSUME Typed, Points, NEW p \in Procs, Quiet(p)
  PROVE  /\ \A c \in Bufs : Users(c)' = Users(c)
         /\ refcnt' = refcnt /\ blk' = blk
<1>1. refcnt' = refcnt /\ blk' = blk
  BY DEF Quiet, AcquireSleep, SleepReturn, Bread, BwriteDone, Bwrite, cache
<1>2. SUFFICES \A c \in Bufs, q \in Procs : q \in Users(c)' <=> q \in Users(c)
  BY <1>1 DEF Users
<1>3. CASE AcquireSleep(p)
  BY <1>3 DEF AcquireSleep, Goto, Users, Typed, Points, Waiting
<1>4. CASE SleepReturn(p)
  BY <1>4 DEF SleepReturn, Goto, Users, Typed
<1>5. CASE Bread(p)
  BY <1>5 DEF Bread, Goto, Users, Typed, Points
<1>6. CASE BwriteDone(p)
  BY <1>6 DEF BwriteDone, Goto, Users, Typed, Points
<1>7. ASSUME NEW b \in Bufs, Bwrite(p, b) PROVE \A c \in Bufs, q \in Procs : q \in Users(c)' <=> q \in Users(c)
  BY <1>7 DEF Bwrite, Goto, Users, Typed, Points
<1> QED BY <1>3, <1>4, <1>5, <1>6, <1>7 DEF Quiet

-----------------------------------------------------------------------------
(* One lemma per conjunct of BInv, one case per action. *)

LEMMA InitBInv == Init => BInv
<1> SUFFICES ASSUME Init PROVE BInv
  OBVIOUS
<1>1. Typed /\ Points
  BY DEF Init, Typed, Points, Waiting
<1>2. \A b : Users(b) = {}
  BY DEF Init, Users
<1>3. RefsCounted
  BY <1>2, FS_EmptySet DEF Init, RefsCounted
<1>4. Named /\ OneCopy /\ OneUser /\ Coherent
  BY <1>2 DEF Init, Named, OneCopy, OneUser, Coherent
<1> QED BY <1>1, <1>3, <1>4 DEF BInv

(* The five kinds of steps. *)
LEMMA Steps ==
  ASSUME Next
  PROVE  \E p \in Procs :
           \/ \E k \in Blocks : BgetHit(p, k)
           \/ \E k \in Blocks : BgetMiss(p, k)
           \/ Quiet(p)
           \/ \E b \in Bufs : Drop(p, b) /\ (Brelse(p, b) \/ WriteiFault(p, b))
BY DEF Next, Quiet, Brelse, WriteiFault

LEMMA TypedStep == ASSUME Typed, Points, Named, Next PROVE Typed'
<1>1. ASSUME NEW p \in Procs, NEW k \in Blocks, BgetHit(p, k) PROVE Typed'
  BY <1>1 DEF BgetHit, Cached, Goto, locks, Typed, Waiting
<1>2. ASSUME NEW p \in Procs, NEW k \in Blocks, BgetMiss(p, k) PROVE Typed'
  BY <1>2 DEF BgetMiss, Recycle, Goto, locks, Typed, Waiting
<1>3. ASSUME NEW p \in Procs, Quiet(p) PROVE Typed'
  <2>1. CASE AcquireSleep(p)
    <3>1. cur[p] \in Bufs
      BY <2>1 DEF AcquireSleep, Points
    <3>2. UNCHANGED <<blk, refcnt, valid, torn, data, store>>
      BY <2>1 DEF AcquireSleep, cache
    <3>3. /\ locked' = locked \/ locked' = [locked EXCEPT ![cur[p]] = TRUE]
          /\ owner' = owner \/ owner' = [owner EXCEPT ![cur[p]] = p]
          /\ hold' = hold \/ hold' = [hold EXCEPT ![p] = @ \cup {cur[p]}]
          /\ cur' = cur \/ cur' = [cur EXCEPT ![p] = Null] \/ cur' = [cur EXCEPT ![p] = cur[p]]
      BY <2>1 DEF AcquireSleep
    <3>4. pc' = pc \/ \E l \in {"run", "read", "sleep"} : pc' = [pc EXCEPT ![p] = l]
      BY <2>1 DEF AcquireSleep, Goto
    <3>a. locked' \in [Bufs -> BOOLEAN]
      <4>1. locked \in [Bufs -> BOOLEAN]
        BY DEF Typed
      <4>2. CASE locked' = locked
        BY <4>1, <4>2
      <4>3. CASE locked' = [locked EXCEPT ![cur[p]] = TRUE]
        BY <4>1, <4>3
      <4> QED BY <3>3, <4>2, <4>3
    <3>b. owner' \in [Bufs -> Procs \cup {Null}]
      BY <3>1, <3>3 DEF Typed
    <3>5. locked' \in [Bufs -> BOOLEAN] /\ owner' \in [Bufs -> Procs \cup {Null}]
      BY <3>a, <3>b
    <3>6. hold' \in [Procs -> SUBSET Bufs] /\ cur' \in [Procs -> Bufs \cup {Null}]
      BY <3>1, <3>3 DEF Typed
    <3>7. pc' \in [Procs -> {"run", "read", "write"} \cup Waiting]
      BY <3>4 DEF Typed, Waiting
    <3> QED BY <3>2, <3>5, <3>6, <3>7 DEF Typed
  <2>2. CASE SleepReturn(p)
    BY <2>2 DEF SleepReturn, Goto, cache, Typed, Waiting
  <2>3. CASE Bread(p) \/ BwriteDone(p)
    <3>1. cur[p] \in Bufs /\ cur[p] \in hold[p]
      BY <2>3 DEF Bread, BwriteDone, Points
    <3>2. blk[cur[p]] \in Blocks
      BY <3>1 DEF Named, Users, Typed
    <3>3. pc' \in [Procs -> {"run", "read", "write"} \cup Waiting] /\ cur' \in [Procs -> Bufs \cup {Null}]
      BY <2>3 DEF Bread, BwriteDone, Goto, Typed
    <3>4. UNCHANGED <<blk, refcnt, torn, locked, owner, hold>>
      BY <2>3 DEF Bread, BwriteDone, cache, locks
    <3>5. data' \in [Bufs -> Data \cup {Null}] /\ store' \in [Blocks -> Data \cup {Null}]
      BY <2>3, <3>1, <3>2 DEF Bread, BwriteDone, Typed
    <3>6. valid' \in [Bufs -> BOOLEAN]
      BY <2>3 DEF Bread, BwriteDone, cache, Typed
    <3> QED BY <3>3, <3>4, <3>5, <3>6 DEF Typed
  <2>4. ASSUME NEW b \in Bufs, Bwrite(p, b) PROVE Typed'
    BY <2>4 DEF Bwrite, Goto, cache, locks, Typed, Waiting
  <2> QED BY <1>3, <2>1, <2>2, <2>3, <2>4 DEF Quiet
<1>4. ASSUME NEW p \in Procs, NEW b \in Bufs, Drop(p, b), Brelse(p, b) \/ WriteiFault(p, b) PROVE Typed'
  <2>1. UNCHANGED <<blk, valid, cur, store>> /\ refcnt' \in [Bufs -> Int]
    BY <1>4 DEF Drop, Count, Typed
  <2>2. /\ locked' \in [Bufs -> BOOLEAN] /\ owner' \in [Bufs -> Procs \cup {Null}]
        /\ hold' \in [Procs -> SUBSET Bufs]
    BY <1>4 DEF Drop, Typed
  <2>3. pc' \in [Procs -> {"run", "read", "write"} \cup Waiting]
    BY <1>4 DEF Drop, Typed, Waiting
  <2>4. data' \in [Bufs -> Data \cup {Null}] /\ torn' \in [Bufs -> BOOLEAN]
    BY <1>4 DEF Brelse, WriteiFault, Typed
  <2> QED BY <2>1, <2>2, <2>3, <2>4 DEF Typed
<1> QED BY <1>1, <1>2, <1>3, <1>4, Steps

LEMMA PointsStep == ASSUME Typed, Points, OneUser, RefsCounted, Next PROVE Points'
<1>1. ASSUME NEW p \in Procs, NEW k \in Blocks, BgetHit(p, k) PROVE Points'
  <2>1. PICK b \in Bufs : b \notin hold[p] /\ cur' = [cur EXCEPT ![p] = b]
    BY <1>1, HitUsers
  <2> QED BY <1>1, <2>1 DEF BgetHit, Goto, Typed, Points, Waiting
<1>2. ASSUME NEW p \in Procs, NEW k \in Blocks, BgetMiss(p, k) PROVE Points'
  <2>1. PICK b \in Bufs : cur' = [cur EXCEPT ![p] = b] /\ Users(b) = {}
    BY <1>2, MissUsers
  <2>2. b \notin hold[p]
    BY <2>1 DEF Users
  <2> QED BY <1>2, <2>1, <2>2 DEF BgetMiss, Goto, Typed, Points, Waiting
<1>3. ASSUME NEW p \in Procs, Quiet(p) PROVE Points'
  <2>1. CASE AcquireSleep(p)
    BY <2>1 DEF AcquireSleep, Goto, Typed, Points, Waiting
  <2>2. CASE SleepReturn(p)
    BY <2>2 DEF SleepReturn, Goto, Typed, Points, Waiting
  <2>3. CASE Bread(p) \/ BwriteDone(p)
    BY <2>3 DEF Bread, BwriteDone, Goto, Typed, Points, Waiting
  <2>4. ASSUME NEW b \in Bufs, Bwrite(p, b) PROVE Points'
    BY <2>4 DEF Bwrite, Goto, Typed, Points, Waiting
  <2> QED BY <1>3, <2>1, <2>2, <2>3, <2>4 DEF Quiet
<1>4. ASSUME NEW p \in Procs, NEW b \in Bufs, Drop(p, b) PROVE Points'
  BY <1>4 DEF Drop, Typed, Points, Waiting
<1> QED BY <1>1, <1>2, <1>3, <1>4, Steps

LEMMA NamedStep == ASSUME Typed, Points, Named, RefsCounted, Next PROVE Named'
<1>1. ASSUME NEW p \in Procs, NEW k \in Blocks, BgetHit(p, k) PROVE Named'
  <2>1. k # Null /\ blk' = blk
    BY <1>1, BcacheAssumption DEF BgetHit
  <2> QED BY <1>1, <2>1, HitUsers DEF Named
<1>2. ASSUME NEW p \in Procs, NEW k \in Blocks, BgetMiss(p, k) PROVE Named'
  <2>1. PICK b \in Bufs : Recycle(b, k) /\ \A c \in Bufs \ {b} : Users(c)' = Users(c)
    BY <1>2, MissUsers
  <2>2. k # Null /\ blk' = [blk EXCEPT ![b] = k]
    BY <2>1, BcacheAssumption DEF Recycle
  <2> QED BY <2>1, <2>2 DEF Named, Typed
<1>3. ASSUME NEW p \in Procs, Quiet(p) PROVE Named'
  BY <1>3, QuietUsers DEF Named
<1>4. ASSUME NEW p \in Procs, NEW b \in Bufs, Drop(p, b) PROVE Named'
  <2>1. blk' = blk
    BY <1>4 DEF Drop
  <2> QED BY <1>4, <2>1, DropUsers DEF Named
<1> QED BY <1>1, <1>2, <1>3, <1>4, Steps

LEMMA OneCopyStep == ASSUME Typed, Points, OneCopy, Next PROVE OneCopy'
<1>1. ASSUME NEW p \in Procs, NEW k \in Blocks, BgetMiss(p, k) PROVE OneCopy'
  <2>1. PICK b \in Bufs : Recycle(b, k)
    BY <1>1 DEF BgetMiss
  <2>2. \A c \in Bufs : blk[c] # k
    BY <1>1 DEF BgetMiss, Cached
  <2> QED BY <2>1, <2>2 DEF Recycle, OneCopy, Typed
<1>2. ASSUME blk' = blk PROVE OneCopy'
  BY <1>2 DEF OneCopy
<1> QED BY <1>1, <1>2, Steps, QuietUsers DEF BgetHit, Drop

LEMMA OneUserStep == ASSUME Typed, Points, OneUser, Next PROVE OneUser'
<1>1. ASSUME UNCHANGED <<locked, owner, hold>> PROVE OneUser'
  BY <1>1 DEF OneUser
<1>2. ASSUME NEW p \in Procs, AcquireSleep(p) PROVE OneUser'
  <2>1. CASE UNCHANGED <<locked, owner, hold>>
    BY <1>1, <2>1
  <2>2. CASE ~ UNCHANGED <<locked, owner, hold>>
    <3>1. cur[p] \in Bufs
      BY <1>2 DEF AcquireSleep, Points
    <3>2. /\ ~locked[cur[p]]
          /\ locked' = [locked EXCEPT ![cur[p]] = TRUE] /\ owner' = [owner EXCEPT ![cur[p]] = p]
          /\ hold' = [hold EXCEPT ![p] = @ \cup {cur[p]}]
      BY <1>2, <2>2 DEF AcquireSleep
    <3>3. \A q \in Procs : cur[p] \notin hold[q]
      BY <3>1, <3>2 DEF OneUser
    <3> QED BY <3>1, <3>2, <3>3 DEF OneUser, Typed
  <2> QED BY <2>1, <2>2
<1>3. ASSUME NEW p \in Procs, NEW b \in Bufs, Drop(p, b) PROVE OneUser'
  <2>1. /\ b \in hold[p] /\ hold' = [hold EXCEPT ![p] = @ \ {b}]
        /\ locked' = [locked EXCEPT ![b] = FALSE] /\ owner' = [owner EXCEPT ![b] = Null]
    BY <1>3 DEF Drop
  <2>2. \A q \in Procs : b \in hold[q] => q = p
    BY <2>1 DEF OneUser
  <2> QED BY <2>1, <2>2 DEF OneUser, Typed
<1>4. \A p \in Procs, k \in Blocks : BgetHit(p, k) \/ BgetMiss(p, k) => UNCHANGED <<locked, owner, hold>>
  BY DEF BgetHit, BgetMiss, locks
<1>5. \A p \in Procs : Quiet(p) => AcquireSleep(p) \/ UNCHANGED <<locked, owner, hold>>
  BY DEF Quiet, SleepReturn, Bread, BwriteDone, Bwrite, locks
<1> QED BY <1>1, <1>2, <1>3, <1>4, <1>5, Steps

LEMMA RefsStep == ASSUME Typed, Points, RefsCounted, Next PROVE RefsCounted'
<1> USE UsersFinite
<1>1. ASSUME NEW p \in Procs, NEW k \in Blocks, BgetHit(p, k) PROVE RefsCounted'
  <2>1. PICK b \in Bufs : /\ refcnt' = [refcnt EXCEPT ![b] = @ + 1]
                          /\ p \notin Users(b) /\ Users(b)' = Users(b) \cup {p}
                          /\ \A c \in Bufs \ {b} : Users(c)' = Users(c)
    BY <1>1, HitUsers
  <2>2. Cardinality(Users(b)') = Cardinality(Users(b)) + 1
    BY <2>1, FS_AddElement
  <2> QED BY <2>1, <2>2 DEF RefsCounted, Typed
<1>2. ASSUME NEW p \in Procs, NEW k \in Blocks, BgetMiss(p, k) PROVE RefsCounted'
  <2>1. PICK b \in Bufs : /\ Recycle(b, k) /\ Users(b)' = {p}
                          /\ \A c \in Bufs \ {b} : Users(c)' = Users(c)
    BY <1>2, MissUsers
  <2>2. Cardinality(Users(b)') = 1 /\ refcnt' = [refcnt EXCEPT ![b] = 1]
    BY <2>1, FS_Singleton DEF Recycle
  <2> QED BY <2>1, <2>2 DEF RefsCounted, Typed
<1>3. ASSUME NEW p \in Procs, Quiet(p) PROVE RefsCounted'
  BY <1>3, QuietUsers DEF RefsCounted
<1>4. ASSUME NEW p \in Procs, NEW b \in Bufs, Drop(p, b) PROVE RefsCounted'
  <2>1. Cardinality(Users(b)') = Cardinality(Users(b)) - 1
    BY <1>4, DropUsers, FS_RemoveElement
  <2>2. refcnt' = [refcnt EXCEPT ![b] = @ - 1]
    BY <1>4 DEF Drop, Count
  <2> QED BY <1>4, <2>1, <2>2, DropUsers DEF RefsCounted, Typed
<1> QED BY <1>1, <1>2, <1>3, <1>4, Steps

LEMMA CoherentStep == ASSUME BInv, Next PROVE Coherent'
<1> USE DEF BInv
<1>1. ASSUME NEW p \in Procs, NEW k \in Blocks, BgetHit(p, k) PROVE Coherent'
  <2>1. UNCHANGED <<blk, valid, torn, data, store>> /\ pc[p] = "run"
    BY <1>1 DEF BgetHit, MayGet
  <2>2. \A q \in Procs \ {p} : pc'[q] = pc[q] /\ cur'[q] = cur[q]
    BY <1>1 DEF BgetHit, Goto, Typed
  <2> QED BY <2>1, <2>2 DEF Coherent, InStep
<1>2. ASSUME NEW p \in Procs, NEW k \in Blocks, BgetMiss(p, k) PROVE Coherent'
  <2>1. PICK b \in Bufs : Recycle(b, k) /\ cur' = [cur EXCEPT ![p] = b]
    BY <1>2 DEF BgetMiss
  <2>2. UNCHANGED <<data, store>> /\ pc[p] = "run"
    BY <1>2 DEF BgetMiss, MayGet
  <2>3. \A q \in Procs \ {p} : pc'[q] = pc[q] /\ cur'[q] = cur[q]
    BY <1>2, <2>1 DEF BgetMiss, Goto, Typed
  <2>4. ~valid'[b] /\ \A c \in Bufs \ {b} : blk'[c] = blk[c] /\ valid'[c] = valid[c] /\ torn'[c] = torn[c]
    BY <2>1 DEF Recycle, Typed
  <2> QED BY <2>2, <2>3, <2>4 DEF Coherent, InStep
<1>3. ASSUME NEW p \in Procs, AcquireSleep(p) \/ SleepReturn(p) PROVE Coherent'
  <2>1. UNCHANGED <<blk, valid, torn, data, store>> /\ pc[p] # "write"
    BY <1>3 DEF AcquireSleep, SleepReturn, cache
  <2>2. \A q \in Procs \ {p} : pc'[q] = pc[q] /\ cur'[q] = cur[q]
    BY <1>3 DEF AcquireSleep, SleepReturn, Goto, Typed
  <2> QED BY <2>1, <2>2 DEF Coherent, InStep
<1>4. ASSUME NEW p \in Procs, Bread(p) PROVE Coherent'
  <2>1. UNCHANGED <<blk, torn, store>> /\ pc[p] = "read" /\ cur[p] \in Bufs
    BY <1>4 DEF Bread, Points
  <2>2. \A q \in Procs \ {p} : pc'[q] = pc[q] /\ cur'[q] = cur[q]
    BY <1>4 DEF Bread, Goto, Typed
  <2>3. /\ data'[cur[p]] = store[blk[cur[p]]]
        /\ \A c \in Bufs \ {cur[p]} : data'[c] = data[c] /\ valid'[c] = valid[c]
    BY <1>4, <2>1 DEF Bread, Typed
  <2> QED BY <2>1, <2>2, <2>3 DEF Coherent, InStep
<1>5. ASSUME NEW p \in Procs, BwriteDone(p) PROVE Coherent'
  <2>1. UNCHANGED <<blk, valid, torn, data>> /\ pc[p] = "write" /\ cur[p] \in Bufs /\ cur[p] \in hold[p]
    BY <1>5 DEF BwriteDone, cache, Points
  <2>2. \A q \in Procs \ {p} : pc'[q] = pc[q] /\ cur'[q] = cur[q]
    BY <1>5 DEF BwriteDone, Goto, Typed
  <2>3. blk[cur[p]] \in Blocks /\ blk[cur[p]] # Null
    BY <2>1 DEF Named, Users, Typed
  <2>4. \A c \in Bufs \ {cur[p]} : blk[c] # blk[cur[p]]
    BY <2>1, <2>3 DEF OneCopy
  <2>5. store' = [store EXCEPT ![blk[cur[p]]] = data[cur[p]]]
    BY <1>5 DEF BwriteDone
  <2>6. store'[blk[cur[p]]] = data[cur[p]] /\ \A c \in Bufs \ {cur[p]} : store'[blk[c]] = store[blk[c]]
    BY <2>3, <2>4, <2>5 DEF Typed
  <2> QED BY <2>1, <2>2, <2>6 DEF Coherent, InStep
<1>6. ASSUME NEW p \in Procs, NEW b \in Bufs, Bwrite(p, b) PROVE Coherent'
  <2>1. UNCHANGED <<blk, valid, store>> /\ pc[p] = "run" /\ pc'[p] = "write" /\ cur'[p] = b
    BY <1>6 DEF Bwrite, Goto, cache, Typed
  <2>2. \A q \in Procs \ {p} : pc'[q] = pc[q] /\ cur'[q] = cur[q]
    BY <1>6 DEF Bwrite, Goto, Typed
  <2>3. \A c \in Bufs \ {b} : data'[c] = data[c] /\ torn'[c] = torn[c]
    BY <1>6 DEF Bwrite, Typed
  <2> QED BY <2>1, <2>2, <2>3 DEF Coherent, InStep
<1>7. ASSUME NEW p \in Procs, NEW b \in Bufs, Drop(p, b), Brelse(p, b) \/ WriteiFault(p, b) PROVE Coherent'
  <2>1. UNCHANGED <<blk, valid, store, cur>>
    BY <1>7 DEF Drop
  <2>2. \A q \in Procs : pc[q] = "write" => pc'[q] = "write"
    BY <1>7 DEF Drop
  <2>3. /\ torn'[b] \/ (torn'[b] = torn[b] /\ data'[b] = data[b])
        /\ \A c \in Bufs \ {b} : data'[c] = data[c] /\ torn'[c] = torn[c]
    BY <1>7 DEF Brelse, WriteiFault, Typed
  <2> QED BY <2>1, <2>2, <2>3 DEF Coherent, InStep
<1> QED BY <1>1, <1>2, <1>3, <1>4, <1>5, <1>6, <1>7, Steps DEF Quiet

-----------------------------------------------------------------------------
(* A buffer that a process has, or waits for, stands for the same block    *)
(* after every step: bget() recycles no buffer under its users.            *)
BlockKept == \A b \in Bufs : Users(b) # {} => blk'[b] = blk[b]

LEMMA KeptStep == ASSUME BInv, Next PROVE BlockKept
<1> USE DEF BInv
<1>1. ASSUME NEW p \in Procs, NEW k \in Blocks, BgetMiss(p, k) PROVE BlockKept
  <2>1. PICK b \in Bufs : Recycle(b, k) /\ Users(b) = {}
    BY <1>1, MissUsers
  <2> QED BY <2>1 DEF Recycle, BlockKept, Typed
<1>2. ASSUME blk' = blk PROVE BlockKept
  BY <1>2 DEF BlockKept
<1> QED BY <1>1, <1>2, Steps, QuietUsers DEF BgetHit, Drop

LEMMA StutterBInv == ASSUME BInv, UNCHANGED vars PROVE BInv'
<1>1. UNCHANGED <<blk, refcnt, valid, data, torn, locked, owner, hold, pc, cur, store>>
  BY DEF vars, cache, locks
<1>2. \A b : Users(b)' = Users(b)
  BY <1>1 DEF Users
<1> QED BY <1>1, <1>2 DEF BInv, Typed, Points, Named, OneCopy, OneUser, RefsCounted, Coherent, InStep

(* BInv is an inductive invariant of the buffer cache. *)
THEOREM CacheInvariance == Spec => []BInv
<1>1. Init => BInv
  BY InitBInv
<1>2. BInv /\ [Next]_vars => BInv'
  <2> SUFFICES ASSUME BInv, [Next]_vars PROVE BInv'
    OBVIOUS
  <2>1. CASE Next
    BY <2>1, TypedStep, PointsStep, NamedStep, OneCopyStep, OneUserStep, RefsStep, CoherentStep DEF BInv
  <2>2. CASE UNCHANGED vars
    BY <2>2, StutterBInv
  <2> QED BY <2>1, <2>2
<1> QED BY <1>1, <1>2, PTL DEF Spec

(* A block has one buffer at most: bget() recycles a buffer only when no   *)
(* other stands for the block.                                             *)
THEOREM OneCopyOnly == Spec => []OneCopy
BY CacheInvariance, PTL DEF BInv

(* The sleep lock of a buffer names the only process that has it, so the   *)
(* tests of holdingsleep() in bwrite() and brelse() succeed.               *)
THEOREM ExclusiveUse == Spec => []OneUser
BY CacheInvariance, PTL DEF BInv

(* b->refcnt is the number of processes between bget() and brelse(). *)
THEOREM CountsExact == Spec => []RefsCounted
BY CacheInvariance, PTL DEF BInv

(* Valid data is what is on the disk, unless its owner is writing it or    *)
(* writei() failed on it.                                                  *)
THEOREM CacheCoherent == Spec => []Coherent
BY CacheInvariance, PTL DEF BInv

(* No buffer is recycled under a process that has it or sleeps for it in   *)
(* acquiresleep().                                                         *)
THEOREM NotRecycled == Spec => [][BlockKept]_vars
<1>1. BInv /\ [Next]_vars => [BlockKept]_vars
  BY KeptStep
<1> QED BY <1>1, CacheInvariance, PTL DEF Spec
=============================================================================
