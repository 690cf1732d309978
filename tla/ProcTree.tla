------------------------------ MODULE ProcTree ------------------------------
(***************************************************************************)
(* What fork(), exit() and wait() promise: a tree of processes rooted at   *)
(* init.  fork() adds a leaf, exit() turns a process into a zombie and     *)
(* hands all its children to init, wait() removes a zombie child of the    *)
(* caller.  Each is one step, whatever the process table goes through.     *)
(***************************************************************************)
CONSTANTS Procs, root, NoProc

VARIABLES
  life,    \* "free", "live" or "zombie"
  par      \* the parent; NoProc for a free slot and for the root

Init ==
  /\ life = [p \in Procs |-> IF p = root THEN "live" ELSE "free"]
  /\ par = [p \in Procs |-> NoProc]

Fork(p, q) ==
  /\ life[p] = "live" /\ life[q] = "free"
  /\ life' = [life EXCEPT ![q] = "live"]
  /\ par' = [par EXCEPT ![q] = p]

Exit(p) ==
  /\ p # root /\ life[p] = "live"
  /\ life' = [life EXCEPT ![p] = "zombie"]
  /\ par' = [q \in Procs |-> IF par[q] = p THEN root ELSE par[q]]

Wait(p, q) ==
  /\ life[p] = "live" /\ life[q] = "zombie" /\ par[q] = p
  /\ life' = [life EXCEPT ![q] = "free"]
  /\ par' = [par EXCEPT ![q] = NoProc]

Next == \E p \in Procs : Exit(p) \/ \E q \in Procs : Fork(p, q) \/ Wait(p, q)

Spec == Init /\ [][Next]_<<life, par>>
=============================================================================
