---------------------------- MODULE MCVirtioDisk ----------------------------
(* Three processes, and descriptors for two requests.  Processes and       *)
(* blocks are alike, so the first call may be taken to be that of First,   *)
(* for block Block; liveness keeps TLC from using the symmetry itself.  At *)
(* the start every block holds Old and every buffer something else.        *)
EXTENDS VirtioDisk

CONSTANTS First, Block, Old

Start0 ==
  /\ Init
  /\ store = [k \in Blocks |-> Old] /\ \A p \in Procs : data[p] # Old
  /\ blk = [p \in Procs |-> Block]

FirstCall == (\A p \in Procs : calls[p] = 0) => calls'[First] = 1 /\ blk'[First] = Block

MCSpec == Start0 /\ [][Next /\ FirstCall]_vars /\ Fairness
=============================================================================
