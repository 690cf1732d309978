----------------------------- MODULE DiskProofs -----------------------------
(***************************************************************************)
(* Proofs about VirtioDisk, for any number of processes and descriptors.   *)
(***************************************************************************)
EXTENDS VirtioDisk, FiniteSetTheorems, WellFoundedInduction, TLAPS

(* A set of natural numbers that is not empty has a least element, which   *)
(* is the descriptor that alloc_desc() takes.                              *)
LEMMA MinIn ==
  ASSUME NEW S \in SUBSET Nat, S # {}
  PROVE  Min(S) \in S
<1> DEFINE R == {ss \in Nat \X Nat : ss[1] < ss[2]}
<1>1. \E x \in S : \A y \in S : ~ (<<y, x>> \in R)
  <2>1. IsWellFoundedOn(R, Nat)
    BY NatLessThanWellFounded, Zenon DEF OpToRel
  <2> HIDE DEF R
  <2> QED BY <2>1, WFMin
<1>2. \A x, y \in Nat : y < x => <<y, x>> \in R
  OBVIOUS
<1> HIDE DEF R
<1>3. \E x \in S : \A y \in S : x =< y
  <2>1. PICK x \in S : \A y \in S : ~ (<<y, x>> \in R)
    BY <1>1
  <2>2. \A y \in S : ~ (y < x)
    BY <1>2, <2>1
  <2> QED BY <2>2
<1> QED BY <1>3 DEF Min

(* The three descriptors that a successful alloc3_desc() takes. *)
LEMMA ThreeFree ==
  ASSUME free \in SUBSET Idx, Cardinality(free) >= 3,
         NEW a, a = Min(free), NEW b, b = Min(free \ {a}), NEW c, c = Min(free \ {a, b})
  PROVE  {a, b, c} \subseteq free /\ a # b /\ a # c /\ b # c
<1>1. free \in SUBSET Nat /\ IsFiniteSet(free)
  <2>1. IsFiniteSet(Idx)
    BY FS_Interval, DiskAssumption DEF Idx
  <2>2. IsFiniteSet(free)
    BY <2>1, FS_Subset
  <2>3. Idx \subseteq Nat
    BY DiskAssumption DEF Idx
  <2> QED BY <2>2, <2>3
<1>2. Cardinality(free) \in Nat
  BY <1>1, FS_CardinalityType
<1>3. free # {} /\ a \in free
  <2>1. free # {}
    BY FS_EmptySet
  <2> QED BY <1>1, <2>1, MinIn
<1> DEFINE S == free \ {a}
           T == S \ {b}
<1>4. IsFiniteSet(S) /\ Cardinality(S) = Cardinality(free) - 1
  BY <1>1, <1>3, FS_RemoveElement
<1>5. b \in S
  <2>1. S # {}
    BY <1>2, <1>4, FS_EmptySet
  <2> QED BY <1>1, <2>1, MinIn
<1>6. IsFiniteSet(T) /\ Cardinality(T) = Cardinality(S) - 1
  <2> HIDE DEF S
  <2> QED BY <1>4, <1>5, FS_RemoveElement
<1>7. c \in T
  <2>1. Cardinality(T) # 0
    <3> HIDE DEF S, T
    <3> QED BY <1>2, <1>4, <1>6
  <2>2. T # {}
    BY <2>1, FS_EmptySet
  <2>3. T = free \ {a, b}
    OBVIOUS
  <2> QED BY <1>1, <2>2, <2>3, MinIn
<1> QED BY <1>3, <1>5, <1>7

-----------------------------------------------------------------------------
(* The descriptors of a call, in the order of its chain. *)
First(p) == head[p]
Second(p) == desc[First(p)].next
Third(p) == desc[Second(p)].next
Three(p) == {First(p), Second(p), Third(p)}

Typed ==
  /\ free \in SUBSET Idx
  /\ desc \in [Idx -> [to : {"none", "op", "data", "status"}, i : Idx \cup Procs, more : BOOLEAN, next : Idx]]
  /\ head \in [Procs -> Idx]
  /\ pc \in [Procs -> {"idle", "alloc", "want", "iowait", "iowoken"}]

(* The chain of a request in flight has three different descriptors, none  *)
(* of them free.                                                           *)
Chained ==
  \A p \in Active :
    /\ desc[First(p)].more /\ desc[Second(p)].more
    /\ First(p) # Second(p) /\ First(p) # Third(p) /\ Second(p) # Third(p)
    /\ Three(p) \cap free = {}

(* No two requests share a descriptor. *)
Apart == \A p, q \in Active : p # q => Three(p) \cap Three(q) = {}

(* No descriptor is lost. *)
Covered == \A j \in Idx : j \in free \/ \E p \in Active : j \in Three(p)

DInv == Typed /\ Chained /\ Apart /\ Covered

LEMMA ChainIsThree ==
  ASSUME Typed, Chained, NEW p \in Active
  PROVE  Chain(head[p]) = Three(p)
BY DEF Chained, Chain, Three, First, Second, Third

(* A step that leaves descriptors and requests alone. *)
LEMMA SameChains ==
  ASSUME DInv, Typed', free' = free, desc' = desc, head' = head, Active' = Active
  PROVE  DInv'
<1>1. \A p : First(p)' = First(p) /\ Second(p)' = Second(p) /\ Third(p)' = Third(p) /\ Three(p)' = Three(p)
  BY DEF First, Second, Third, Three
<1> QED BY <1>1 DEF DInv, Chained, Apart, Covered

(* virtio_disk_rw() puts a request in the queue. *)
LEMMA SubmitStep == ASSUME DInv, NEW p \in Procs, Submit(p) PROVE DInv'
<1> DEFINE a == Min(free)
           b == Min(free \ {a})
           c == Min(free \ {a, b})
<1>1. {a, b, c} \subseteq free /\ a # b /\ a # c /\ b # c
  BY ThreeFree DEF DInv, Typed, Submit
<1>2. /\ free' = free \ {a, b, c}
      /\ desc' = [desc EXCEPT ![a] = [to |-> "op", i |-> a, more |-> TRUE, next |-> b],
                              ![b] = [to |-> "data", i |-> p, more |-> TRUE, next |-> c],
                              ![c] = [to |-> "status", i |-> a, more |-> FALSE, next |-> 0]]
      /\ head' = [head EXCEPT ![p] = a]
      /\ pc' = [pc EXCEPT ![p] = "iowait"] /\ pc[p] = "alloc"
  BY DEF Submit
<1> HIDE DEF a, b, c
<1>3. a \in Idx /\ b \in Idx /\ c \in Idx /\ 0 \in Idx
  <2>1. 0 \in Idx
    BY DiskAssumption DEF Idx
  <2> QED BY <1>1, <2>1 DEF DInv, Typed
<1>4. Typed'
  BY <1>2, <1>3 DEF DInv, Typed
<1>5. Active' = Active \cup {p} /\ p \notin Active
  BY <1>2 DEF Active, DInv, Typed
<1>6. desc'[a].more /\ desc'[a].next = b /\ desc'[b].more /\ desc'[b].next = c
  BY <1>1, <1>2, <1>3 DEF DInv, Typed
<1>7. First(p)' = a /\ Second(p)' = b /\ Third(p)' = c
  BY <1>2, <1>6 DEF First, Second, Third, DInv, Typed
<1>8. \A q \in Active : /\ First(q)' = First(q) /\ Second(q)' = Second(q) /\ Third(q)' = Third(q)
                         /\ desc'[First(q)] = desc[First(q)] /\ desc'[Second(q)] = desc[Second(q)]
  <2> TAKE q \in Active
  <2>1. q \in Procs /\ q # p /\ First(q) \in Idx /\ Second(q) \in Idx
    BY <1>5 DEF Active, DInv, Typed, First, Second
  <2>2. First(q) \notin {a, b, c} /\ Second(q) \notin {a, b, c}
    BY <1>1 DEF DInv, Chained, Three
  <2>3. \A j \in Idx \ {a, b, c} : desc'[j] = desc[j]
    BY <1>2 DEF DInv, Typed
  <2>4. head'[q] = head[q]
    BY <1>2, <2>1 DEF DInv, Typed
  <2> QED BY <2>1, <2>2, <2>3, <2>4 DEF First, Second, Third
<1>9. Three(p)' = {a, b, c} /\ \A q \in Active : Three(q)' = Three(q)
  BY <1>7, <1>8 DEF Three
<1>10. Chained'
  <2> SUFFICES ASSUME NEW q \in Active' PROVE
        /\ desc'[First(q)'].more /\ desc'[Second(q)'].more
        /\ First(q)' # Second(q)' /\ First(q)' # Third(q)' /\ Second(q)' # Third(q)'
        /\ Three(q)' \cap free' = {}
    BY DEF Chained
  <2>1. CASE q = p
    BY <1>1, <1>2, <1>6, <1>7, <1>9, <2>1
  <2>2. CASE q \in Active
    BY <1>2, <1>8, <1>9, <2>2 DEF DInv, Chained
  <2> QED BY <1>5, <2>1, <2>2
<1>11. Apart'
  <2>1. \A q \in Active : Three(q) \cap {a, b, c} = {}
    BY <1>1 DEF DInv, Chained
  <2> QED BY <1>5, <1>9, <2>1 DEF DInv, Apart
<1>12. Covered'
  BY <1>2, <1>5, <1>9 DEF DInv, Covered
<1> QED BY <1>4, <1>10, <1>11, <1>12 DEF DInv

(* virtio_disk_rw() returns: free_chain() frees its three descriptors. *)
LEMMA FinishStep == ASSUME DInv, NEW p \in Procs, Finish(p) PROVE DInv'
<1>1. CASE bdisk[p]
  <2>1. free' = free /\ desc' = desc /\ head' = head /\ pc' = [pc EXCEPT ![p] = "iowait"] /\ pc[p] = "iowoken"
    BY <1>1 DEF Finish
  <2>2. Typed' /\ Active' = Active
    BY <2>1 DEF DInv, Typed, Active
  <2> QED BY <2>1, <2>2, SameChains
<1>2. CASE ~bdisk[p]
  <2>1. p \in Active /\ pc[p] = "iowoken"
    BY DEF Finish, Active
  <2>2. Chain(head[p]) = Three(p)
    BY <2>1, ChainIsThree DEF DInv
  <2>3. /\ free' = free \cup Three(p)
        /\ desc' = [j \in Idx |-> IF j \in Three(p) THEN NoDesc ELSE desc[j]]
        /\ head' = [head EXCEPT ![p] = 0]
        /\ pc' = [WakeAlloc(pc) EXCEPT ![p] = "idle"]
    BY <1>2, <2>2 DEF Finish
  <2>4. Three(p) \subseteq Idx /\ 0 \in Idx
    <3>1. 0 \in Idx
      BY DiskAssumption DEF Idx
    <3> QED BY <3>1 DEF Three, First, Second, Third, DInv, Typed
  <2>5. NoDesc \in [to : {"none", "op", "data", "status"}, i : Idx \cup Procs, more : BOOLEAN, next : Idx]
    BY <2>4 DEF NoDesc
  <2>6. Typed'
    BY <2>3, <2>4, <2>5 DEF DInv, Typed, WakeAlloc
  <2>7. Active' = Active \ {p}
    BY <2>3 DEF Active, DInv, Typed, WakeAlloc
  <2>8. \A q \in Active \ {p} :
          /\ First(q)' = First(q) /\ Second(q)' = Second(q) /\ Third(q)' = Third(q)
          /\ desc'[First(q)] = desc[First(q)] /\ desc'[Second(q)] = desc[Second(q)]
    <3> TAKE q \in Active \ {p}
    <3>1. q \in Procs /\ First(q) \in Idx /\ Second(q) \in Idx
      BY DEF Active, DInv, Typed, First, Second
    <3>2. First(q) \notin Three(p) /\ Second(q) \notin Three(p)
      <4>1. Three(q) \cap Three(p) = {}
        BY <2>1 DEF DInv, Apart
      <4>2. First(q) \in Three(q) /\ Second(q) \in Three(q)
        BY DEF Three
      <4> QED BY <4>1, <4>2
    <3>3. head'[q] = head[q]
      BY <2>3, <3>1 DEF DInv, Typed
    <3>4. \A j \in Idx : j \notin Three(p) => desc'[j] = desc[j]
      BY <2>3
    <3> QED BY <3>1, <3>2, <3>3, <3>4 DEF First, Second, Third
  <2>9. \A q \in Active \ {p} : Three(q)' = Three(q) /\ Three(q) \cap Three(p) = {}
    BY <2>1, <2>8 DEF Three, DInv, Apart
  <2>10. Chained'
    <3> SUFFICES ASSUME NEW q \in Active \ {p} PROVE
          /\ desc'[First(q)'].more /\ desc'[Second(q)'].more
          /\ First(q)' # Second(q)' /\ First(q)' # Third(q)' /\ Second(q)' # Third(q)'
          /\ Three(q)' \cap free' = {}
      BY <2>7 DEF Chained
    <3> QED BY <2>3, <2>8, <2>9 DEF DInv, Chained
  <2>11. Apart'
    BY <2>7, <2>9 DEF DInv, Apart
  <2>12. Covered'
    BY <2>3, <2>7, <2>9 DEF DInv, Covered
  <2> QED BY <2>6, <2>10, <2>11, <2>12 DEF DInv
<1> QED BY <1>1, <1>2

(* The steps that only move processes between points. *)
LEMMA OtherSteps ==
  ASSUME DInv, \/ \E p \in Procs : Rw(p) \/ AllocFail(p)
               \/ Intr \/ DevTake \/ \E h \in Idx : DevComplete(h)
  PROVE  DInv'
<1>1. free' = free /\ desc' = desc /\ head' = head
  BY DEF Rw, AllocFail, Intr, IntrEnter, IntrStep, IntrExit, DevTake, DevComplete, queue, caller
<1>2. SUFFICES Typed' /\ Active' = Active
  BY <1>1, SameChains
<1>3. ASSUME NEW p \in Procs, Rw(p) \/ AllocFail(p) PROVE Typed' /\ Active' = Active
  BY <1>1, <1>3 DEF Rw, AllocFail, WakeAlloc, Active, DInv, Typed
<1>4. CASE IntrStep
  <2>1. PICK b : pc' = [pc EXCEPT ![b] = IF @ = "iowait" THEN "iowoken" ELSE @]
    BY <1>4 DEF IntrStep
  <2> QED BY <1>1, <2>1 DEF Active, DInv, Typed
<1>5. CASE IntrEnter \/ IntrExit \/ DevTake \/ \E h \in Idx : DevComplete(h)
  <2>1. pc' = pc
    BY <1>5 DEF IntrEnter, IntrExit, DevTake, DevComplete
  <2> QED BY <1>1, <2>1 DEF Active, DInv, Typed
<1> QED BY <1>3, <1>4, <1>5 DEF Intr

-----------------------------------------------------------------------------
(* DInv is an inductive invariant of the driver. *)
THEOREM DiskInvariance == Spec => []DInv
<1>1. Init => DInv
  <2> SUFFICES ASSUME Init PROVE DInv
    OBVIOUS
  <2>1. 0 \in Idx
    BY DiskAssumption DEF Idx
  <2>2. Typed
    BY <2>1 DEF Init, Typed, NoDesc
  <2>3. Active = {}
    BY DEF Init, Active
  <2> QED BY <2>2, <2>3 DEF Init, DInv, Chained, Apart, Covered
<1>2. DInv /\ [Next]_vars => DInv'
  <2> SUFFICES ASSUME DInv, [Next]_vars PROVE DInv'
    OBVIOUS
  <2>1. CASE Next
    BY <2>1, SubmitStep, FinishStep, OtherSteps DEF Next, Driver
  <2>2. CASE UNCHANGED vars
    <3>1. free' = free /\ desc' = desc /\ head' = head /\ pc' = pc
      BY <2>2 DEF vars, queue, caller
    <3>2. Typed' /\ Active' = Active
      BY <3>1 DEF DInv, Typed, Active
    <3> QED BY <3>1, <3>2, SameChains
  <2> QED BY <2>1, <2>2
<1> QED BY <1>1, <1>2, PTL DEF Spec

(* Every descriptor is free or in the chain of exactly one request of      *)
(* three: alloc3_desc() and free_chain() leak none and share none.         *)
THEOREM NoDescLost == Spec => []DescsAccounted
<1>1. DInv => DescsAccounted
  <2> SUFFICES ASSUME DInv PROVE DescsAccounted
    OBVIOUS
  <2>1. \A p \in Active : Chain(head[p]) = Three(p)
    BY ChainIsThree DEF DInv
  <2>2. \A p \in Active : Three(p) \subseteq Idx
    BY DEF Active, Three, First, Second, Third, DInv, Typed
  <2>3. free \cup UNION {Chain(head[p]) : p \in Active} = Idx
    BY <2>1, <2>2 DEF DInv, Typed, Covered
  <2>4. ASSUME NEW p \in Active PROVE Cardinality(Three(p)) = 3
    <3> DEFINE A == {First(p)}
               B == A \cup {Second(p)}
    <3>1. IsFiniteSet(A) /\ Cardinality(A) = 1
      BY FS_Singleton
    <3>2. Second(p) \notin A /\ Third(p) \notin B /\ Three(p) = B \cup {Third(p)}
      BY <2>4 DEF DInv, Chained, Three
    <3> HIDE DEF A
    <3>3. IsFiniteSet(B) /\ Cardinality(B) = 2
      BY <3>1, <3>2, FS_AddElement
    <3> HIDE DEF B
    <3>4. Cardinality(B \cup {Third(p)}) = 2 + 1
      BY <3>2, <3>3, FS_AddElement
    <3> QED BY <3>2, <3>4
  <2>5. \A p \in Active : Chain(head[p]) \cap free = {}
    BY <2>1 DEF DInv, Chained
  <2>6. \A p \in Active : \A q \in Active \ {p} : Chain(head[p]) \cap Chain(head[q]) = {}
    BY <2>1 DEF DInv, Apart
  <2> QED BY <2>1, <2>3, <2>4, <2>5, <2>6 DEF DescsAccounted
<1> QED BY <1>1, DiskInvariance, PTL

(* A completion that the handler has not seen has an interrupt pending or  *)
(* a handler that is about to look: virtio_disk_intr() acknowledges before *)
(* it reads the index of the ring.                                         *)
THEOREM NoIntrLost == Spec => []IntrNotLost
<1>1. Init => IntrNotLost
  BY DEF Init, IntrNotLost
<1>2. IntrNotLost /\ [Next]_vars => IntrNotLost'
  <2> SUFFICES ASSUME IntrNotLost, [Next]_vars PROVE IntrNotLost'
    OBVIOUS
  <2>1. CASE UNCHANGED <<seenIdx, usedIdx, pending, handler>>
    BY <2>1 DEF IntrNotLost
  <2>2. CASE Intr
    BY <2>2 DEF Intr, IntrEnter, IntrStep, IntrExit, IntrNotLost, device
  <2>3. ASSUME NEW h \in Idx, DevComplete(h) PROVE IntrNotLost'
    BY <2>3 DEF DevComplete, IntrNotLost
  <2>4. CASE DevTake \/ UNCHANGED vars \/ \E p \in Procs : Rw(p) \/ Driver(p)
    <3>1. UNCHANGED <<seenIdx, usedIdx, pending, handler>>
      BY <2>4 DEF DevTake, vars, Rw, Driver, AllocFail, Submit, Finish, device
    <3> QED BY <2>1, <3>1
  <2> QED BY <2>2, <2>3, <2>4 DEF Next
<1> QED BY <1>1, <1>2, PTL DEF Spec
=============================================================================
