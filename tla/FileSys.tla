------------------------------ MODULE FileSys ------------------------------
(***************************************************************************)
(* Inodes, directories and path names (fs.c), and the system calls that    *)
(* change the name space (syscall.c): open, mkdir, mknod, link, unlink,    *)
(* chdir, close and fstat.                                                 *)
(*                                                                         *)
(* The kernel is not preemptive: a process loses the CPU only in bread()   *)
(* and bwrite(), while it has the buffer of one block locked, and in an    *)
(* acquiresleep() that finds its lock taken.  A system call is the list of *)
(* steps it has still to do, todo[p]; a step <<f, r>> is the call f on the *)
(* inode that the local variable r points to.  A step that reads or writes *)
(* a block starts with Begin, which locks the buffer and gives up the CPU, *)
(* and has its effect when it releases the buffer: nobody else can look    *)
(* into the block in between.                                              *)
(*                                                                         *)
(* A contended sleep lock is never acquired: when it is released, its      *)
(* waiter takes the spin lock inside it twice and the machine hangs        *)
(* (module Bcache).                                                        *)
(*                                                                         *)
(* Contents, sizes and addresses of files are the matter of FileBlocks.    *)
(* Space is exhausted by choice: Dirlink and Dots may fail, and so may     *)
(* filealloc() and fdalloc() in Opened.                                    *)
(***************************************************************************)
EXTENDS Integers, Sequences, FiniteSets, FiniteSetsExt

CONSTANTS Procs, NoProc,
          NINODE,        \* entries of itable
          NINUM,         \* inodes on the disk; 1 is ROOTINO
          Names,         \* names in directories, without "." and ".."
          Calls          \* the system calls that a process makes: <<name, path, second path>>;
                         \* a path is a sequence of names, and starts with "/" if absolute

ASSUME FileSysAssumption ==
  /\ NINODE \in Nat \ {0} /\ NINUM \in Nat \ {0} /\ NoProc \notin Procs
  /\ \A p \in Procs : \A c \in Calls[p] : c[2] \in Seq(Names \cup {"/", ".", ".."}) /\ c[3] \in Seq(Names \cup {"/", ".", ".."})

Slots == 1..NINODE
Inums == 1..NINUM
Dir == 1
File == 2
Device == 3
AllNames == Names \cup {".", ".."}

(* the sleep locks: those of the inodes, and those of the buffers of the   *)
(* inode block, of the bitmap and of the data of directory n               *)
InodeBlk == NINODE + 1
BitmapBlk == NINODE + 2
DirBlk(n) == NINODE + 2 + n
Locks == 1..(NINODE + 2 + NINUM)

VARIABLES
  itab,      \* itable: inum, ref, valid, and the cached type and nlink
  disk,      \* struct dinode of every inode: type and nlink
  ents,      \* the entries of every directory, 0 for none
  lk,        \* who holds a sleep lock
  wait,      \* the sleep lock that a process sleeps for, or 0
  cpu,       \* the process that runs inside the kernel
  todo,      \* the steps that a process has still to do
  reg,       \* its variables of type struct inode *, 0 for null
  arg,       \* its call, its paths and where it goes on after an error
  machine,   \* "runs", "hung" or "panic"
  marks      \* history: "stale" when create() got an inode of another type,
             \* "orphans" when a directory was freed with entries

tables == <<itab, disk, ents>>
locks == <<lk, wait>>
vars == <<tables, locks, cpu, todo, reg, arg, machine, marks>>

NoEnts == [n \in AllNames |-> 0]
Idle == [call |-> "none", path |-> <<>>, new |-> <<>>, bad |-> <<>>]

(* After mkfs and userinit(): the root directory is everybody's cwd. *)
Init ==
  /\ itab = [s \in Slots |-> IF s = 1 THEN [inum |-> 1, ref |-> Cardinality(Procs), valid |-> FALSE, type |-> 0, nlink |-> 0]
                                      ELSE [inum |-> 0, ref |-> 0, valid |-> FALSE, type |-> 0, nlink |-> 0]]
  /\ disk = [n \in Inums |-> IF n = 1 THEN [type |-> Dir, nlink |-> 1] ELSE [type |-> 0, nlink |-> 0]]
  /\ ents = [n \in Inums |-> IF n = 1 THEN [NoEnts EXCEPT !["."] = 1, ![".."] = 1] ELSE NoEnts]
  /\ lk = [l \in Locks |-> NoProc] /\ wait = [p \in Procs |-> 0] /\ cpu = NoProc
  /\ todo = [p \in Procs |-> <<>>]
  /\ reg = [p \in Procs |-> [ip |-> 0, dp |-> 0, next |-> 0, f |-> 0, cwd |-> 1]]
  /\ arg = [p \in Procs |-> Idle]
  /\ machine = "runs" /\ marks = {}

-----------------------------------------------------------------------------
(* Steps *)

CanRun(p) == machine = "runs" /\ cpu \in {p, NoProc} /\ wait[p] = 0
At(p, f) == CanRun(p) /\ todo[p] # <<>> /\ Head(todo[p])[1] = f
R(p) == Head(todo[p])[2]
Slot(p) == reg[p][R(p)]
Ip(p) == itab[Slot(p)]
Rest(p) == Tail(todo[p])
Name(p) == Head(arg[p].path)

(* p goes on with steps t, and returns to user space after the last one *)
Go(p, t) ==
  /\ todo' = [todo EXCEPT ![p] = IF t = <<>> THEN << <<"return", "ip">> >> ELSE t]
  /\ cpu' = p

Unlockput(r) == << <<"iunlockput", r>> >>

(* releasesleep(): a process that waits for the lock is woken and hangs *)
Release(l) ==
  /\ lk' = [lk EXCEPT ![l] = NoProc] /\ UNCHANGED wait
  /\ machine' = IF \E q \in Procs : wait[q] = l THEN "hung" ELSE "runs"

(* acquiresleep() on a lock that is taken *)
Contend(p, l) ==
  /\ lk[l] # NoProc
  /\ wait' = [wait EXCEPT ![p] = l] /\ cpu' = NoProc
  /\ UNCHANGED <<tables, lk, todo, reg, arg, machine, marks>>

(* the block that a step reads or writes, or 0 *)
BlockOf(p) ==
  LET f == Head(todo[p])[1]
  IN CASE f \in {"load", "iupdate", "ialloc"} -> InodeBlk
       [] f \in {"dirlookup", "dirlink", "dots", "clear", "isdirempty"} -> DirBlk(Ip(p).inum)
       [] f = "bfree" -> BitmapBlk
       [] OTHER -> 0

(* bread(): the process sleeps with the buffer locked *)
Begin(p) ==
  /\ CanRun(p) /\ todo[p] # <<>>
  /\ LET b == BlockOf(p)
     IN /\ b # 0 /\ lk[b] # p
        /\ \/ Contend(p, b)
           \/ /\ lk[b] = NoProc
              /\ lk' = [lk EXCEPT ![b] = p] /\ cpu' = NoProc
              /\ UNCHANGED <<tables, wait, todo, reg, arg, machine, marks>>

(* the step f has its buffer *)
Has(p, f) == At(p, f) /\ lk[BlockOf(p)] = p
-----------------------------------------------------------------------------
(* The inode table *)

(* The entry that iget() returns: one with this number, whatever its       *)
(* reference count, else the first that is not referenced; 0 if none is.   *)
IgetSlot(n) ==
  LET cached == {s \in Slots : itab[s].inum = n}
      empty == {s \in Slots : itab[s].ref = 0}
  IN IF cached # {} THEN Min(cached) ELSE IF empty # {} THEN Min(empty) ELSE 0

IgetTab(n) ==
  [itab EXCEPT ![IgetSlot(n)] =
     IF @.inum = n THEN [@ EXCEPT !.ref = @ + 1]
     ELSE [inum |-> n, ref |-> 1, valid |-> FALSE, type |-> 0, nlink |-> 0]]

(* r = iget(n), then steps t; a full table is a panic *)
Iget(p, r, n, t) ==
  /\ IgetSlot(n) # 0
  /\ itab' = IgetTab(n)
  /\ reg' = [reg EXCEPT ![p][r] = IgetSlot(n)]
  /\ Go(p, t)

(* acquiresleep() in ilock(), which then reads the inode from the disk the *)
(* first time, and in iput()                                               *)
Acquire(p, f, t) ==
  /\ At(p, f)
  /\ \/ Contend(p, Slot(p))
     \/ /\ lk[Slot(p)] = NoProc
        /\ lk' = [lk EXCEPT ![Slot(p)] = p]
        /\ Go(p, t \o Rest(p))
        /\ UNCHANGED <<tables, wait, reg, arg, machine, marks>>

Ilock(p) == Acquire(p, "ilock", IF Ip(p).valid THEN <<>> ELSE << <<"load", R(p)>> >>)

Load(p) ==
  /\ Has(p, "load")
  /\ LET d == disk[Ip(p).inum]
     IN /\ d.type # 0
        /\ itab' = [itab EXCEPT ![Slot(p)].valid = TRUE, ![Slot(p)].type = d.type, ![Slot(p)].nlink = d.nlink]
  /\ Release(InodeBlk) /\ Go(p, Rest(p))
  /\ UNCHANGED <<disk, ents, reg, arg, marks>>

Iunlock(p) ==
  /\ At(p, "iunlock")
  /\ Release(Slot(p)) /\ Go(p, Rest(p))
  /\ UNCHANGED <<tables, reg, arg, marks>>

(* iput() and iunlockput(): the last reference to an inode without links   *)
(* frees it.  The entry stays valid.  itrunc() ends with an iupdate() of   *)
(* its own; it frees blocks if the inode has any.                          *)
IputLast(p) == Ip(p).ref = 1 /\ Ip(p).valid /\ Ip(p).nlink = 0

Iput(p) ==
  /\ \/ At(p, "iput") /\ UNCHANGED <<locks, machine>>
     \/ At(p, "iunlockput") /\ Release(Slot(p))
  /\ IF IputLast(p)
     THEN Go(p, << <<"ifree", R(p)>>, <<"deref", R(p)>> >> \o Rest(p)) /\ UNCHANGED <<itab, reg>>
     ELSE /\ itab' = [itab EXCEPT ![Slot(p)].ref = @ - 1]
          /\ reg' = [reg EXCEPT ![p][R(p)] = 0] /\ Go(p, Rest(p))
  /\ UNCHANGED <<disk, ents, arg, marks>>

Ifree(p) == Acquire(p, "ifree", << <<"free", R(p)>>, <<"iupdate", R(p)>>, <<"iunlock", R(p)>> >>)

Free(p) ==
  /\ At(p, "free")
  /\ itab' = [itab EXCEPT ![Slot(p)].type = 0]
  /\ \E t \in {<< <<"itrunc", R(p)>> >>, << <<"bfree", R(p)>>, <<"itrunc", R(p)>> >>} : Go(p, t \o Rest(p))
  /\ UNCHANGED <<disk, ents, locks, reg, arg, machine, marks>>

Deref(p) ==
  /\ At(p, "deref")
  /\ itab' = [itab EXCEPT ![Slot(p)].ref = @ - 1]
  /\ reg' = [reg EXCEPT ![p][R(p)] = 0] /\ Go(p, Rest(p))
  /\ UNCHANGED <<disk, ents, locks, arg, machine, marks>>

Bfree(p) ==
  /\ Has(p, "bfree")
  /\ Release(BitmapBlk) /\ Go(p, Rest(p))
  /\ UNCHANGED <<tables, reg, arg, marks>>

(* itrunc(): the size is 0 in memory before iupdate() *)
Itrunc(p) ==
  /\ At(p, "itrunc")
  /\ ents' = [ents EXCEPT ![Ip(p).inum] = NoEnts]
  /\ marks' = IF \E n \in Names : ents[Ip(p).inum][n] # 0 THEN marks \cup {"orphans"} ELSE marks
  /\ Go(p, << <<"iupdate", R(p)>> >> \o Rest(p))
  /\ UNCHANGED <<itab, disk, locks, reg, arg, machine>>

Iupdate(p) ==
  /\ Has(p, "iupdate")
  /\ disk' = [disk EXCEPT ![Ip(p).inum] = [type |-> Ip(p).type, nlink |-> Ip(p).nlink]]
  /\ Release(InodeBlk) /\ Go(p, Rest(p))
  /\ UNCHANGED <<itab, ents, reg, arg, marks>>

-----------------------------------------------------------------------------
(* Directories and paths *)

(* dirlookup(): next is the inode found, or 0 *)
Dirlookup(p) ==
  /\ Has(p, "dirlookup") /\ Ip(p).type = Dir
  /\ LET n == ents[Ip(p).inum][Name(p)]
     IN \/ /\ n # 0
           /\ Iget(p, "next", n, Rest(p))
           /\ Release(BlockOf(p)) /\ UNCHANGED <<disk, ents, arg, marks>>
        \/ /\ n = 0
           /\ Release(BlockOf(p)) /\ Go(p, Rest(p)) /\ UNCHANGED <<tables, reg, arg, marks>>

Bad(p) == arg[p].bad

(* namex(): r = namei(path) for r = "ip", nameiparent(path) for r = "dp" *)
Namex(p) ==
  /\ At(p, "namex")
  /\ LET path == arg[p].path
         walk == << <<"walk", R(p)>> >> \o Rest(p)
     IN \/ /\ Head(path) = "/"
           /\ Iget(p, R(p), 1, walk)
           /\ arg' = [arg EXCEPT ![p].path = Tail(path)]
           /\ UNCHANGED <<disk, ents, locks, machine, marks>>
        \/ /\ Head(path) # "/"
           /\ itab' = [itab EXCEPT ![reg[p].cwd].ref = @ + 1]
           /\ reg' = [reg EXCEPT ![p][R(p)] = reg[p].cwd]
           /\ Go(p, walk)
           /\ UNCHANGED <<disk, ents, locks, arg, machine, marks>>

Walk(p) ==
  /\ At(p, "walk")
  /\ Go(p, CASE arg[p].path # <<>> -> << <<"ilock", R(p)>>, <<"enter", R(p)>> >> \o Rest(p)
             [] arg[p].path = <<>> /\ R(p) = "ip" -> Rest(p)
             [] arg[p].path = <<>> /\ R(p) = "dp" -> << <<"iput", "dp">> >> \o Bad(p))
  /\ UNCHANGED <<tables, locks, reg, arg, machine, marks>>

Enter(p) ==
  /\ At(p, "enter")
  /\ Go(p, CASE Ip(p).type # Dir -> Unlockput(R(p)) \o Bad(p)
             [] Ip(p).type = Dir /\ R(p) = "dp" /\ Len(arg[p].path) = 1 -> << <<"iunlock", "dp">> >> \o Rest(p)
             [] OTHER -> << <<"dirlookup", R(p)>>, <<"iunlockput", R(p)>>, <<"descend", R(p)>> >> \o Rest(p))
  /\ UNCHANGED <<tables, locks, reg, arg, machine, marks>>

(* ip = next, or namex() fails *)
Descend(p) ==
  /\ At(p, "descend")
  /\ IF reg[p].next = 0
     THEN Go(p, Bad(p)) /\ UNCHANGED <<reg, arg>>
     ELSE /\ reg' = [reg EXCEPT ![p][R(p)] = reg[p].next, ![p].next = 0]
          /\ arg' = [arg EXCEPT ![p].path = Tail(@)]
          /\ Go(p, << <<"walk", R(p)>> >> \o Rest(p))
  /\ UNCHANGED <<tables, locks, machine, marks>>

(* where a call goes on when dirlink() fails *)
DirlinkBad(p) == (IF arg[p].call = "link" THEN Unlockput("dp") ELSE <<>>) \o Bad(p)

(* mutant: the inode of the entry found is not put *)
DirlinkNoPut(p) ==
  /\ Has(p, "dirlink") /\ Ip(p).type = Dir
  /\ \/ /\ ents[Ip(p).inum][Name(p)] # 0
        /\ Iget(p, "next", ents[Ip(p).inum][Name(p)], DirlinkBad(p))
        /\ Release(BlockOf(p)) /\ UNCHANGED <<disk, ents, arg, marks>>
     \/ /\ ents[Ip(p).inum][Name(p)] = 0
        /\ ents' = [ents EXCEPT ![Ip(p).inum][Name(p)] = itab[reg[p].ip].inum]
        /\ Go(p, << <<"iupdate", "dp">> >> \o Rest(p))
        /\ Release(BlockOf(p)) /\ UNCHANGED <<itab, disk, reg, arg, marks>>

(* dirlink(dp, name, ip->inum): writei() ends with iupdate() even when     *)
(* there is no block for the entry                                         *)
Dirlink(p) ==
  /\ Has(p, "dirlink") /\ Ip(p).type = Dir
  /\ LET n == ents[Ip(p).inum][Name(p)]
     IN \/ /\ n # 0
           /\ Iget(p, "next", n, << <<"iput", "next">> >> \o DirlinkBad(p))
           /\ Release(BlockOf(p)) /\ UNCHANGED <<disk, ents, arg, marks>>
        \/ /\ n = 0
           /\ ents' = [ents EXCEPT ![Ip(p).inum][Name(p)] = itab[reg[p].ip].inum]
           /\ Go(p, << <<"iupdate", "dp">> >> \o Rest(p))
           /\ Release(BlockOf(p)) /\ UNCHANGED <<itab, disk, reg, arg, marks>>
        \/ /\ n = 0
           /\ Go(p, << <<"iupdate", "dp">> >> \o DirlinkBad(p))
           /\ Release(BlockOf(p)) /\ UNCHANGED <<tables, reg, arg, marks>>

-----------------------------------------------------------------------------
(* System calls *)

Set(p, r, field, v) == itab' = [itab EXCEPT ![reg[p][r]] = [@ EXCEPT ![field] = v]]
Quiet == UNCHANGED <<disk, ents, locks, machine>>

(* sys_link(): the count goes up before the entry is made *)
LinkUndo == << <<"ilock", "ip">>, <<"unlinked", "ip">>, <<"iupdate", "ip">> >> \o Unlockput("ip")

(* mutant: the inode is written after the entry *)
LinkIpLate(p) ==
  /\ At(p, "link")
  /\ IF Ip(p).type = Dir
     THEN Go(p, Unlockput("ip")) /\ UNCHANGED <<itab, arg>>
     ELSE /\ Set(p, "ip", "nlink", Ip(p).nlink + 1)
          /\ arg' = [arg EXCEPT ![p].path = arg[p].new, ![p].bad = LinkUndo]
          /\ Go(p, << <<"iunlock", "ip">>, <<"namex", "dp">>, <<"ilock", "dp">>, <<"dirlink", "dp">> >>
                   \o Unlockput("dp") \o << <<"iupdate", "ip">>, <<"iput", "ip">> >>)
  /\ Quiet /\ UNCHANGED <<reg, marks>>

LinkIp(p) ==
  /\ At(p, "link")
  /\ IF Ip(p).type = Dir
     THEN Go(p, Unlockput("ip")) /\ UNCHANGED <<itab, arg>>
     ELSE /\ Set(p, "ip", "nlink", Ip(p).nlink + 1)
          /\ arg' = [arg EXCEPT ![p].path = arg[p].new, ![p].bad = LinkUndo]
          /\ Go(p, << <<"iupdate", "ip">>, <<"iunlock", "ip">>, <<"namex", "dp">>, <<"ilock", "dp">>, <<"dirlink", "dp">> >>
                   \o Unlockput("dp") \o << <<"iput", "ip">> >>)
  /\ Quiet /\ UNCHANGED <<reg, marks>>

(* ip->nlink--, or ip->nlink = 0 where create() fails *)
Unlinked(p) ==
  /\ At(p, "unlinked")
  /\ Set(p, R(p), "nlink", IF arg[p].call \in {"link", "unlink"} THEN Ip(p).nlink - 1 ELSE 0)
  /\ Go(p, Rest(p))
  /\ Quiet /\ UNCHANGED <<reg, arg, marks>>

(* sys_unlink() up to ilock(ip) *)
Unlink(p) ==
  /\ At(p, "unlink")
  /\ IF reg[p].next = 0
     THEN Go(p, Unlockput("dp")) /\ UNCHANGED reg
     ELSE /\ reg' = [reg EXCEPT ![p].ip = reg[p].next, ![p].next = 0]
          /\ Go(p, << <<"ilock", "ip">>, <<"unlink2", "ip">> >>)
  /\ Quiet /\ UNCHANGED <<itab, arg, marks>>

(* mutant: the parent keeps its link for ".." *)
UnlinkRestKeep(isdir) ==
  << <<"clear", "dp">>, <<"iupdate", "dp">> >>
  \o Unlockput("dp") \o << <<"unlinked", "ip">>, <<"iupdate", "ip">> >> \o Unlockput("ip")

(* the entry is cleared and dp released before ip->nlink goes down *)
UnlinkRest(isdir) ==
  << <<"clear", "dp">>, <<"iupdate", "dp">> >>
  \o (IF isdir THEN << <<"unlinked", "dp">>, <<"iupdate", "dp">> >> ELSE <<>>)
  \o Unlockput("dp") \o << <<"unlinked", "ip">>, <<"iupdate", "ip">> >> \o Unlockput("ip")

Unlink2(p) ==
  /\ At(p, "unlink2")
  /\ Ip(p).nlink >= 1
  /\ Go(p, IF Ip(p).type = Dir THEN << <<"isdirempty", "ip">> >> ELSE UnlinkRest(FALSE))
  /\ Quiet /\ UNCHANGED <<itab, reg, arg, marks>>

Isdirempty(p) ==
  /\ Has(p, "isdirempty")
  /\ Go(p, IF \E n \in Names : ents[Ip(p).inum][n] # 0 THEN Unlockput("ip") \o Unlockput("dp") ELSE UnlinkRest(TRUE))
  /\ Release(BlockOf(p)) /\ UNCHANGED <<tables, reg, arg, marks>>

Clear(p) ==
  /\ Has(p, "clear")
  /\ ents' = [ents EXCEPT ![Ip(p).inum][Name(p)] = 0]
  /\ Release(BlockOf(p)) /\ Go(p, Rest(p)) /\ UNCHANGED <<itab, disk, reg, arg, marks>>

(* create() after nameiparent() and ilock(dp); the caller goes on with     *)
(* Then(p) when it returns an inode, which is locked                       *)
Type(p) == CASE arg[p].call = "mkdir" -> Dir [] arg[p].call = "mknod" -> Device [] OTHER -> File
Then(p) == IF arg[p].call \in {"mkdir", "mknod"} THEN Unlockput("ip") ELSE << <<"opened", "ip">> >>
CreateFail == << <<"unlinked", "ip">>, <<"iupdate", "ip">> >> \o Unlockput("ip") \o Unlockput("dp")

Create(p) ==
  /\ At(p, "create")
  /\ IF reg[p].next # 0
     THEN /\ reg' = [reg EXCEPT ![p].ip = reg[p].next, ![p].next = 0]
          /\ Go(p, Unlockput("dp") \o << <<"ilock", "ip">>, <<"exists", "ip">> >>)
     ELSE Go(p, << <<"ialloc", "ip">> >>) /\ UNCHANGED reg
  /\ Quiet /\ UNCHANGED <<itab, arg, marks>>

(* mutant: the inode of another type is put and stays locked *)
ExistsLocked(p) ==
  /\ At(p, "exists")
  /\ Go(p, IF Type(p) = File /\ Ip(p).type \in {File, Device} THEN Then(p) ELSE << <<"iput", "ip">> >>)
  /\ Quiet /\ UNCHANGED <<itab, reg, arg, marks>>

Exists(p) ==
  /\ At(p, "exists")
  /\ Go(p, IF Type(p) = File /\ Ip(p).type \in {File, Device} THEN Then(p) ELSE Unlockput("ip"))
  /\ Quiet /\ UNCHANGED <<itab, reg, arg, marks>>

(* ialloc(): the first inode that is free on the disk *)
Ialloc(p) ==
  /\ Has(p, "ialloc")
  /\ LET free == {n \in Inums : disk[n].type = 0}
     IN \/ /\ free # {}
           /\ disk' = [disk EXCEPT ![Min(free)] = [type |-> Type(p), nlink |-> 0]]
           /\ ents' = [ents EXCEPT ![Min(free)] = NoEnts]
           /\ Iget(p, "ip", Min(free), << <<"ilock", "ip">>, <<"newinode", "ip">> >>)
           /\ Release(InodeBlk) /\ UNCHANGED <<arg, marks>>
        \/ /\ free = {}
           /\ Go(p, Unlockput("dp"))
           /\ Release(InodeBlk) /\ UNCHANGED <<tables, reg, arg, marks>>

NewInode(p) ==
  /\ At(p, "newinode")
  /\ Set(p, "ip", "nlink", 1)
  /\ marks' = IF Ip(p).type # Type(p) THEN marks \cup {"stale"} ELSE marks
  /\ arg' = [arg EXCEPT ![p].bad = CreateFail]
  /\ LET isdir == Type(p) = Dir
     IN Go(p, << <<"iupdate", "ip">> >>
              \o (IF isdir THEN << <<"dots", "ip">> >> ELSE <<>>)
              \o << <<"dirlink", "dp">> >>
              \o (IF isdir THEN << <<"linked", "dp">>, <<"iupdate", "dp">> >> ELSE <<>>)
              \o Unlockput("dp") \o Then(p))
  /\ Quiet /\ UNCHANGED reg

(* dirlink(ip, "."), dirlink(ip, "..") *)
Dots(p) ==
  /\ Has(p, "dots")
  /\ Ip(p).type = Dir
  /\ \/ /\ ents' = [ents EXCEPT ![Ip(p).inum] = [NoEnts EXCEPT !["."] = Ip(p).inum, ![".."] = itab[reg[p].dp].inum]]
        /\ Go(p, << <<"iupdate", "ip">> >> \o Rest(p))
        /\ Release(BlockOf(p)) /\ UNCHANGED <<itab, disk, reg, arg, marks>>
     \/ /\ Go(p, << <<"iupdate", "ip">> >> \o Bad(p))
        /\ Release(BlockOf(p)) /\ UNCHANGED <<tables, reg, arg, marks>>

(* dp->nlink++, for ".." *)
Linked(p) ==
  /\ At(p, "linked")
  /\ Set(p, R(p), "nlink", Ip(p).nlink + 1)
  /\ Go(p, Rest(p))
  /\ Quiet /\ UNCHANGED <<reg, arg, marks>>

(* sys_open() with the inode locked: it may have no file or descriptor     *)
(* left, refuses to write a directory, and truncates a file if O_TRUNC is  *)
(* set.  The file takes over the reference.                                *)
Opened(p) ==
  /\ At(p, "opened")
  /\ \E t \in {Unlockput("ip"), << <<"iunlock", "ip">>, <<"file", "ip">> >>}
             \cup IF Ip(p).type = File
                  THEN {<< <<"itrunc", "ip">>, <<"iunlock", "ip">>, <<"file", "ip">> >>,
                        << <<"bfree", "ip">>, <<"itrunc", "ip">>, <<"iunlock", "ip">>, <<"file", "ip">> >>}
                  ELSE {} :
       Go(p, t)
  /\ Quiet /\ UNCHANGED <<itab, reg, arg, marks>>

FileIp(p) ==
  /\ At(p, "file")
  /\ reg' = [reg EXCEPT ![p].f = reg[p].ip, ![p].ip = 0]
  /\ Go(p, Rest(p))
  /\ Quiet /\ UNCHANGED <<itab, arg, marks>>

(* sys_chdir() with the inode locked *)
Chdir(p) ==
  /\ At(p, "chdir")
  /\ Go(p, IF Ip(p).type # Dir THEN Unlockput("ip")
           ELSE << <<"iunlock", "ip">>, <<"iput", "cwd">>, <<"cwd", "ip">> >>)
  /\ Quiet /\ UNCHANGED <<itab, reg, arg, marks>>

SetCwd(p) ==
  /\ At(p, "cwd")
  /\ reg' = [reg EXCEPT ![p].cwd = reg[p].ip, ![p].ip = 0]
  /\ Go(p, Rest(p))
  /\ Quiet /\ UNCHANGED <<itab, arg, marks>>

(* sys_unlink() with dp locked *)
Undot(p) ==
  /\ At(p, "undot")
  /\ Go(p, IF Name(p) \in {".", ".."} THEN Unlockput("dp")
           ELSE << <<"dirlookup", "dp">>, <<"unlink", "dp">> >>)
  /\ Quiet /\ UNCHANGED <<itab, reg, arg, marks>>

-----------------------------------------------------------------------------
(* the first steps of a system call *)
SysOpen == << <<"namex", "ip">>, <<"ilock", "ip">>, <<"opened", "ip">> >>
CreateStart == << <<"namex", "dp">>, <<"ilock", "dp">>, <<"dirlookup", "dp">>, <<"create", "dp">> >>
SysLink == << <<"namex", "ip">>, <<"ilock", "ip">>, <<"link", "ip">> >>
SysUnlink == << <<"namex", "dp">>, <<"ilock", "dp">>, <<"undot", "dp">> >>
SysChdir == << <<"namex", "ip">>, <<"ilock", "ip">>, <<"chdir", "ip">> >>
SysClose == << <<"iput", "f">> >>
SysFstat == << <<"ilock", "f">>, <<"iunlock", "f">> >>

Steps ==
  [open |-> SysOpen, openc |-> CreateStart, mkdir |-> CreateStart, mknod |-> CreateStart, link |-> SysLink,
   unlink |-> SysUnlink, chdir |-> SysChdir, close |-> SysClose, fstat |-> SysFstat]

Syscall(p, c) ==
  /\ machine = "runs" /\ cpu = NoProc /\ wait[p] = 0 /\ todo[p] = <<>>
  /\ c[1] \in {"close", "fstat"} => reg[p].f # 0
  /\ c[1] \in {"open", "openc"} => reg[p].f = 0
  /\ Go(p, Steps[c[1]])
  /\ arg' = [arg EXCEPT ![p] = [call |-> c[1], path |-> c[2], new |-> c[3], bad |-> <<>>]]
  /\ Quiet /\ UNCHANGED <<itab, reg, marks>>

(* panic(): the inode that ilock() read is free, dirlookup() is called on  *)
(* an inode that is no directory, sys_unlink() finds no link to take, and  *)
(* iget() finds no entry of itable                                         *)
Lost(p) ==
  \/ Has(p, "load") /\ disk[Ip(p).inum].type = 0
  \/ (Has(p, "dirlookup") \/ Has(p, "dots") \/ Has(p, "dirlink")) /\ Ip(p).type # Dir
  \/ At(p, "unlink2") /\ Ip(p).nlink < 1
  \/ (Has(p, "dirlookup") \/ Has(p, "dirlink")) /\ ents[Ip(p).inum][Name(p)] # 0 /\ IgetSlot(ents[Ip(p).inum][Name(p)]) = 0
  \/ At(p, "namex") /\ Head(arg[p].path) = "/" /\ IgetSlot(1) = 0
  \/ Has(p, "ialloc") /\ \E n \in Inums : disk[n].type = 0 /\ IgetSlot(n) = 0 /\ \A m \in 1..(n-1) : disk[m].type # 0

Panic(p) ==
  /\ Lost(p)
  /\ machine' = "panic" /\ UNCHANGED <<tables, locks, cpu, todo, reg, arg, marks>>

Return(p) ==
  /\ At(p, "return")
  /\ todo' = [todo EXCEPT ![p] = <<>>] /\ cpu' = NoProc
  /\ arg' = [arg EXCEPT ![p] = Idle]
  /\ Quiet /\ UNCHANGED <<itab, reg, marks>>

Step(p) ==
  \/ Begin(p) \/ Ilock(p) \/ Load(p) \/ Iunlock(p) \/ Iput(p) \/ Ifree(p) \/ Free(p) \/ Deref(p) \/ Bfree(p) \/ Itrunc(p) \/ Iupdate(p)
  \/ Dirlookup(p) \/ Namex(p) \/ Walk(p) \/ Enter(p) \/ Descend(p) \/ Dirlink(p)
  \/ LinkIp(p) \/ Unlinked(p) \/ Undot(p) \/ Unlink(p) \/ Unlink2(p) \/ Isdirempty(p) \/ Clear(p)
  \/ Create(p) \/ Exists(p) \/ Ialloc(p) \/ NewInode(p) \/ Dots(p) \/ Linked(p)
  \/ Opened(p) \/ FileIp(p) \/ Chdir(p) \/ SetCwd(p) \/ Return(p) \/ Panic(p)

Next ==
  \E p \in Procs :
    \/ Step(p)
    \/ \E c \in Calls[p] : Syscall(p, c)

Spec == Init /\ [][Next]_vars

-----------------------------------------------------------------------------
(* Properties *)

(* Every path through the system calls, error paths included, keeps        *)
(* ip->ref equal to the number of pointers to the entry: local variables   *)
(* of calls in progress, open files and working directories.               *)
InodeRefs ==
  machine # "panic" =>
    \A s \in Slots : itab[s].ref = Cardinality({x \in Procs \X {"ip", "dp", "next", "f", "cwd"} : reg[x[1]][x[2]] = s})

(* the entries that name inode n, "." and ".." aside *)
Entries(n) == {x \in Inums \X Names : ents[x[1]][x[2]] = n}

(* At any moment, in the middle of every call, the disk itself holds no    *)
(* entry for a free inode, and no fewer links than entries: create() and   *)
(* sys_link() write the inode before the entry, sys_unlink() after it.  A  *)
(* machine that stops leaves a file system whose names can be used.        *)
LinksCovered ==
  "stale" \notin marks =>
    \A n \in Inums : Entries(n) # {} => disk[n].type # 0 /\ disk[n].nlink >= Cardinality(Entries(n))

(* When no call is in progress the cached inodes are those of the disk,    *)
(* and links are exact: a file has as many as it has entries, a directory  *)
(* one for its entry and one for each subdirectory.                        *)
LinksExact ==
  machine = "runs" /\ marks = {} /\ (\A p \in Procs : todo[p] = <<>>) =>
    /\ \A s \in Slots : itab[s].ref > 0 /\ itab[s].valid =>
         disk[itab[s].inum] = [type |-> itab[s].type, nlink |-> itab[s].nlink]
    /\ \A n \in Inums : disk[n].type \in {File, Device} => disk[n].nlink = Cardinality(Entries(n))
    /\ \A n \in Inums : disk[n].type = Dir /\ (n = 1 \/ Entries(n) # {}) =>
         disk[n].nlink = 1 + Cardinality({m \in Names : ents[n][m] # 0 /\ disk[ents[n][m]].type = Dir})

(* Every call gives back the inode and buffer locks that it took. *)
LocksReturned ==
  machine = "runs" => \A p \in Procs : todo[p] = <<>> => \A l \in Locks : lk[l] # p

(* create() returns an inode of the type that it was asked for. *)
FreshType == "stale" \notin marks

=============================================================================
