----------------------------- MODULE FileBlocks -----------------------------
(***************************************************************************)
(* The blocks of files: balloc(), bfree(), bmap(), itrunc(), readi() and   *)
(* writei() of fs.c, fileread() and filewrite() of file.c, on an image     *)
(* that mkfs made.                                                         *)
(*                                                                         *)
(* Processes interleave as in FileSys: one gives up the CPU when it has    *)
(* locked a buffer (Begin), and never gets a lock that it had to wait for. *)
(* fileread() and filewrite() do not lock the inode, so that calls on one  *)
(* inode may overlap; with Shared = FALSE no two processes use an inode at *)
(* the same time.                                                          *)
(*                                                                         *)
(* A block has BSIZE cells; a cell is a number of bytes of data or an      *)
(* address, and NINDIRECT = BSIZE.  Data is the number of the inode it was *)
(* written to.                                                             *)
(***************************************************************************)
EXTENDS Integers, Sequences, FiniteSets, SequencesExt

CONSTANTS Procs, NoProc,
          NBLOCK,     \* data blocks
          NDIRECT, BSIZE,
          MAXW,       \* cells that filewrite() passes to writei() at once
          Inodes,     \* 1..n; 1 is the root directory
          FileOf,     \* open files: FileOf[f] is f->ip
          Lens,       \* what mkfs appends to the inodes
          Ops,        \* the calls that are made: <<"write", n>>, <<"read", n>>, <<"trunc", 0>>
          Shared

ASSUME FileBlocksAssumption ==
  /\ NBLOCK \in Nat /\ NDIRECT \in Nat /\ BSIZE \in Nat \ {0} /\ MAXW \in Nat \ {0}
  /\ Len(Lens) = Cardinality(Inodes) /\ NoProc \notin Procs /\ Shared \in BOOLEAN

Blocks == 1..NBLOCK
Bitmap == NBLOCK + 1
InodeBlk == NBLOCK + 2
MAXFILE == NDIRECT + BSIZE
Lesser(a, b) == IF a < b THEN a ELSE b

VARIABLES
  used,      \* the bitmap
  blk,       \* the contents of the blocks
  inode,     \* addrs and size in memory
  dinode,    \* and on the disk
  off,       \* f->off
  lk, wait, cpu,
  t,         \* the call that a process is in
  machine
disk == <<used, blk, dinode>>
vars == <<disk, inode, off, lk, wait, cpu, t, machine>>

-----------------------------------------------------------------------------
(* mkfs: one more cell of inode i.  Blocks are handed out in order; the    *)
(* blocks below freeblock are marked at the end.                           *)
Iappend(img, i) ==
  LET ip == img.inode[i]
      fbn == ip.size \div BSIZE
      top == IF fbn < NDIRECT THEN fbn ELSE NDIRECT
      fb1 == IF ip.addrs[top] = 0 THEN img.free + 1 ELSE img.free
      a == IF ip.addrs[top] = 0 THEN img.free ELSE ip.addrs[top]
      new == fbn >= NDIRECT /\ img.blk[a][fbn - NDIRECT] = 0
      x == IF fbn < NDIRECT THEN a ELSE IF new THEN fb1 ELSE img.blk[a][fbn - NDIRECT]
      blk1 == IF new THEN [img.blk EXCEPT ![a][fbn - NDIRECT] = x] ELSE img.blk
  IN [inode |-> [img.inode EXCEPT ![i] = [addrs |-> [ip.addrs EXCEPT ![top] = a], size |-> ip.size + 1]],
      blk |-> [blk1 EXCEPT ![x][ip.size % BSIZE] = i],
      free |-> IF new THEN fb1 + 1 ELSE fb1]

NewImage ==
  [inode |-> [i \in Inodes |-> [addrs |-> [n \in 0..NDIRECT |-> 0], size |-> 0]],
   blk |-> [b \in Blocks |-> [c \in 0..(BSIZE - 1) |-> 0]],
   free |-> 1]

(* main(): the root directory and the files, cell by cell, then the size   *)
(* of the root directory is rounded up to whole blocks                     *)
Mkfs ==
  LET cells == FlattenSeq([i \in 1..Len(Lens) |-> [c \in 1..Lens[i] |-> i]])
      img == FoldLeft(Iappend, NewImage, cells)
  IN [img EXCEPT !.inode[1].size = (@ \div BSIZE + 1) * BSIZE]

Idle == [pc |-> "idle", op |-> "", f |-> CHOOSE f \in DOMAIN FileOf : TRUE, off |-> 0, n |-> 0, r |-> 0, left |-> 0,
         bn |-> 0, addr |-> 0, ret |-> "", todo |-> <<>>]

Init ==
  /\ used = 1..(Mkfs.free - 1) /\ blk = Mkfs.blk /\ dinode = Mkfs.inode /\ inode = Mkfs.inode
  /\ off = [f \in DOMAIN FileOf |-> 0]
  /\ lk = [b \in 1..InodeBlk |-> NoProc] /\ wait = [p \in Procs |-> 0] /\ cpu = NoProc
  /\ t = [p \in Procs |-> Idle] /\ machine = "runs"

-----------------------------------------------------------------------------
(* Steps and buffers *)

At(p, pc) == machine = "runs" /\ cpu \in {p, NoProc} /\ wait[p] = 0 /\ t[p].pc = pc
Inum(p) == FileOf[t[p].f]
Ip(p) == inode[Inum(p)]
Indirect(p) == Ip(p).addrs[NDIRECT]
Bn(p) == t[p].off \div BSIZE

Go(p, new) == t' = [t EXCEPT ![p] = new] /\ cpu' = p
Goto(p, pc) == Go(p, [t[p] EXCEPT !.pc = pc])

(* brelse(): somebody who waits for the buffer hangs the machine *)
Brelse(b) ==
  /\ lk' = [lk EXCEPT ![b] = NoProc] /\ UNCHANGED wait
  /\ machine' = IF \E q \in Procs : wait[q] = b THEN "hung" ELSE machine
Same == UNCHANGED <<lk, wait, machine>>

(* the buffer that the step at pc works in *)
BlockOf(p) ==
  CASE t[p].pc \in {"balloc", "bfree"} -> Bitmap
    [] t[p].pc \in {"bzero", "data"} -> t[p].addr
    [] t[p].pc \in {"bmap", "tindir"} -> Indirect(p)
    [] t[p].pc = "iupdate" -> InodeBlk
    [] OTHER -> 0

Begin(p) ==
  LET b == BlockOf(p)
  IN /\ At(p, t[p].pc) /\ b # 0 /\ lk[b] # p
     /\ cpu' = NoProc
     /\ \/ lk[b] = NoProc /\ lk' = [lk EXCEPT ![b] = p] /\ UNCHANGED wait
        \/ lk[b] # NoProc /\ wait' = [wait EXCEPT ![p] = b] /\ UNCHANGED lk
     /\ UNCHANGED <<disk, inode, off, t, machine>>

Has(p, pc) == At(p, pc) /\ lk[BlockOf(p)] = p

-----------------------------------------------------------------------------
(* Allocation *)

(* balloc(): with no free block, bmap() returns 0 and the loop ends *)
Balloc(p) ==
  /\ Has(p, "balloc")
  /\ LET free == {b \in Blocks : b \notin used}
     IN \/ /\ free # {}
           /\ \E b \in free : /\ \A c \in free : b <= c
                              /\ used' = used \cup {b}
                              /\ Go(p, [t[p] EXCEPT !.pc = "bzero", !.addr = b])
           /\ Brelse(Bitmap)
        \/ /\ free = {} /\ UNCHANGED used
           /\ lk' = [lk EXCEPT ![Bitmap] = NoProc, ![IF t[p].ret = "entry" THEN Indirect(p) ELSE Bitmap] = NoProc]
           /\ machine' = IF \E q \in Procs : wait[q] # 0 /\ lk[wait[q]] = p THEN "hung" ELSE machine
           /\ UNCHANGED wait /\ Goto(p, "done")
  /\ UNCHANGED <<blk, dinode, inode, off>>

(* bzero(), and bmap() stores the address that balloc() returned *)
Bzero(p) ==
  /\ Has(p, "bzero")
  /\ LET b == t[p].addr
         zero == [blk EXCEPT ![b] = [c \in 0..(BSIZE - 1) |-> 0]]
     IN \/ /\ t[p].ret = "direct"
           /\ blk' = zero /\ Brelse(b)
           /\ inode' = [inode EXCEPT ![Inum(p)].addrs[Bn(p)] = b] /\ Goto(p, "data")
        \/ /\ t[p].ret = "indirect"
           /\ blk' = zero /\ Brelse(b)
           /\ inode' = [inode EXCEPT ![Inum(p)].addrs[NDIRECT] = b] /\ Goto(p, "bmap")
        \/ /\ t[p].ret = "entry"
           /\ blk' = zero /\ Brelse(b)
           /\ Goto(p, "entry") /\ UNCHANGED inode
  /\ UNCHANGED <<used, dinode, off>>

(* bmap() with the indirect block locked *)
BmapIndirect(p) ==
  /\ Has(p, "bmap")
  /\ LET a == blk[Indirect(p)][Bn(p) - NDIRECT]
     IN IF a # 0 THEN Brelse(Indirect(p)) /\ Go(p, [t[p] EXCEPT !.pc = "data", !.addr = a])
                 ELSE Same /\ Go(p, [t[p] EXCEPT !.pc = "balloc", !.ret = "entry"])
  /\ UNCHANGED <<disk, inode, off>>

BmapEntry(p) ==
  /\ At(p, "entry")
  /\ blk' = [blk EXCEPT ![Indirect(p)][Bn(p) - NDIRECT] = t[p].addr]
  /\ Brelse(Indirect(p)) /\ Goto(p, "data")
  /\ UNCHANGED <<used, dinode, inode, off>>

(* The loop of readi() and writei(), and bmap() up to its first buffer *)
Loop(p) ==
  /\ At(p, "loop")
  /\ LET a == Ip(p).addrs[IF Bn(p) < NDIRECT THEN Bn(p) ELSE NDIRECT]
     IN Go(p, CASE t[p].n = 0 -> [t[p] EXCEPT !.pc = "done"]
                [] t[p].n > 0 /\ Bn(p) < NDIRECT /\ a # 0 -> [t[p] EXCEPT !.pc = "data", !.addr = a]
                [] t[p].n > 0 /\ Bn(p) < NDIRECT /\ a = 0 -> [t[p] EXCEPT !.pc = "balloc", !.ret = "direct"]
                [] t[p].n > 0 /\ Bn(p) >= NDIRECT /\ a # 0 -> [t[p] EXCEPT !.pc = "bmap"]
                [] t[p].n > 0 /\ Bn(p) >= NDIRECT /\ a = 0 -> [t[p] EXCEPT !.pc = "balloc", !.ret = "indirect"])
  /\ Same /\ UNCHANGED <<disk, inode, off>>

(* block b with m cells written from cell c on by p *)
Copied(p, b, c, m) == [blk EXCEPT ![b] = [x \in 0..(BSIZE - 1) |-> IF x \in c..(c + m - 1) THEN Inum(p) ELSE @[x]]]

(* The copy to or from user space.  It may fail, and r becomes -1: then    *)
(* copyin() has changed the first k cells of the buffer.                   *)
Data(p) ==
  /\ Has(p, "data")
  /\ LET c == t[p].off % BSIZE
         m == Lesser(t[p].n, BSIZE - c)
     IN \/ /\ blk' = IF t[p].op = "write" THEN Copied(p, t[p].addr, c, m) ELSE blk
           /\ Go(p, [t[p] EXCEPT !.pc = "loop", !.off = @ + m, !.n = @ - m, !.r = @ + m])
        \/ \E k \in 0..(m - 1) :
             /\ blk' = IF t[p].op = "write" THEN Copied(p, t[p].addr, c, k) ELSE blk
             /\ Go(p, [t[p] EXCEPT !.pc = "done", !.r = -1])
  /\ Brelse(t[p].addr)
  /\ UNCHANGED <<used, dinode, inode, off>>

(* f->off += r if r > 0; filewrite() goes on after a whole chunk *)
Advance(p) ==
  /\ off' = [off EXCEPT ![t[p].f] = IF t[p].r > 0 THEN @ + t[p].r ELSE @]
  /\ t' = [t EXCEPT ![p] = IF t[p].op = "write" /\ t[p].n = 0 /\ t[p].r >= 0 /\ t[p].left > 0
                           THEN [Idle EXCEPT !.pc = "writei", !.op = "write", !.f = t[p].f, !.left = t[p].left] ELSE Idle]
  /\ cpu' = IF t'[p] = Idle THEN NoProc ELSE p

(* mutant: the inode is written only if the file has grown *)
DoneGrown(p) ==
  /\ At(p, "done")
  /\ \/ (t[p].op = "read" \/ t[p].off <= Ip(p).size) /\ Advance(p) /\ UNCHANGED inode
     \/ /\ t[p].op = "write" /\ t[p].off > Ip(p).size
        /\ inode' = [inode EXCEPT ![Inum(p)].size = t[p].off]
        /\ Goto(p, "iupdate") /\ UNCHANGED off
  /\ Same /\ UNCHANGED disk

(* the end of readi(); writei() grows the size, whatever it wrote *)
Done(p) ==
  /\ At(p, "done")
  /\ \/ t[p].op = "read" /\ Advance(p) /\ UNCHANGED inode
     \/ /\ t[p].op = "write"
        /\ inode' = [inode EXCEPT ![Inum(p)].size = IF t[p].off > @ THEN t[p].off ELSE @]
        /\ Goto(p, "iupdate") /\ UNCHANGED off
  /\ Same /\ UNCHANGED disk

Iupdate(p) ==
  /\ Has(p, "iupdate")
  /\ dinode' = [dinode EXCEPT ![Inum(p)] = Ip(p)]
  /\ Brelse(InodeBlk) /\ Advance(p)
  /\ UNCHANGED <<used, blk, inode>>

(* mutant: a write may start beyond the end *)
WriteiAnywhere(p) ==
  /\ At(p, "writei")
  /\ LET o == off[t[p].f]
         n == Lesser(t[p].left, MAXW)
     IN IF o + n > MAXFILE * BSIZE
        THEN t' = [t EXCEPT ![p] = Idle] /\ cpu' = NoProc
        ELSE Go(p, [t[p] EXCEPT !.pc = "loop", !.off = o, !.n = n, !.left = @ - n])
  /\ Same /\ UNCHANGED <<disk, inode, off>>

(* writei() is called for the next MAXW cells: it refuses an offset beyond *)
(* the end and a file that would get too long                              *)
Writei(p) ==
  /\ At(p, "writei")
  /\ LET o == off[t[p].f]
         n == Lesser(t[p].left, MAXW)
     IN IF o > Ip(p).size \/ o + n > MAXFILE * BSIZE
        THEN t' = [t EXCEPT ![p] = Idle] /\ cpu' = NoProc
        ELSE Go(p, [t[p] EXCEPT !.pc = "loop", !.off = o, !.n = n, !.left = @ - n])
  /\ Same /\ UNCHANGED <<disk, inode, off>>

-----------------------------------------------------------------------------
(* itrunc(): direct blocks, then the entries of the indirect block, which  *)
(* stays locked meanwhile, then the indirect block itself                  *)
Itrunc(p) ==
  /\ At(p, "itrunc")
  /\ LET i == t[p].bn
     IN \/ /\ i < NDIRECT
           /\ Go(p, IF Ip(p).addrs[i] # 0 THEN [t[p] EXCEPT !.pc = "bfree", !.addr = Ip(p).addrs[i]] ELSE [t[p] EXCEPT !.bn = i + 1])
           /\ UNCHANGED inode
        \/ /\ i = NDIRECT /\ Indirect(p) # 0
           /\ Goto(p, "tindir") /\ UNCHANGED inode
        \/ /\ i > NDIRECT \/ (i = NDIRECT /\ Indirect(p) = 0)
           /\ inode' = [inode EXCEPT ![Inum(p)].size = 0]
           /\ Goto(p, "iupdate")
  /\ Same /\ UNCHANGED <<disk, off>>

TruncIndirect(p) ==
  /\ Has(p, "tindir")
  /\ LET a == blk[Indirect(p)]
     IN Go(p, [t[p] EXCEPT !.pc = "tentry", !.todo = SelectSeq([j \in 1..BSIZE |-> a[j - 1]], LAMBDA x : x # 0)])
  /\ Same /\ UNCHANGED <<disk, inode, off>>

(* mutant: the indirect block itself is not freed *)
TruncEntryKeep(p) ==
  /\ At(p, "tentry")
  /\ IF t[p].todo # <<>>
     THEN /\ Same /\ UNCHANGED inode
          /\ Go(p, [t[p] EXCEPT !.pc = "bfree", !.addr = Head(t[p].todo), !.todo = Tail(@), !.ret = "tentry"])
     ELSE /\ Brelse(Indirect(p))
          /\ inode' = [inode EXCEPT ![Inum(p)].addrs[NDIRECT] = 0]
          /\ Go(p, [t[p] EXCEPT !.pc = "itrunc", !.bn = @ + 1, !.ret = ""])
  /\ UNCHANGED <<disk, off>>

TruncEntry(p) ==
  /\ At(p, "tentry")
  /\ IF t[p].todo # <<>>
     THEN Same /\ Go(p, [t[p] EXCEPT !.pc = "bfree", !.addr = Head(t[p].todo), !.todo = Tail(@), !.ret = "tentry"])
     ELSE Brelse(Indirect(p)) /\ Go(p, [t[p] EXCEPT !.pc = "bfree", !.addr = Indirect(p), !.ret = "itrunc"])
  /\ UNCHANGED <<disk, inode, off>>

(* bfree(), and itrunc() forgets the address; a block that is free is a    *)
(* panic                                                                   *)
Bfree(p) ==
  /\ Has(p, "bfree")
  /\ IF t[p].addr \notin used
     THEN machine' = "panic" /\ UNCHANGED <<used, inode, lk, wait, cpu, t>>
     ELSE /\ used' = used \ {t[p].addr}
          /\ IF t[p].ret = "tentry"
             THEN Goto(p, "tentry") /\ UNCHANGED inode
             ELSE /\ inode' = [inode EXCEPT ![Inum(p)].addrs[t[p].bn] = 0]
                  /\ Go(p, [t[p] EXCEPT !.pc = "itrunc", !.bn = @ + 1, !.ret = ""])
          /\ Brelse(Bitmap)
  /\ UNCHANGED <<blk, dinode, off>>

-----------------------------------------------------------------------------
(* readi() reads up to the end *)
Readi(new, o, n, size) == [new EXCEPT !.pc = "loop", !.off = o, !.n = Lesser(n, size - o)]

(* read(f), write(f), and sys_open(): "open" is followed by calls on f,    *)
(* "trunc" opens the file with O_TRUNC once more, so that f->off stays     *)
Call(p, f, op) ==
  /\ At(p, "idle") /\ cpu = NoProc
  /\ Shared \/ \A q \in Procs : t[q].pc # "idle" => Inum(q) # FileOf[f]
  /\ LET new == [Idle EXCEPT !.op = op[1], !.f = f]
         size == inode[FileOf[f]].size
     IN \/ /\ op[1] = "write"
           /\ Go(p, [new EXCEPT !.pc = "writei", !.left = op[2]]) /\ UNCHANGED off
        \/ /\ op[1] = "read" /\ off[f] <= size
           /\ Go(p, Readi(new, off[f], op[2], size)) /\ UNCHANGED off
        \/ /\ op[1] = "trunc"
           /\ Go(p, [new EXCEPT !.pc = "itrunc"]) /\ UNCHANGED off
        \/ /\ op[1] = "open"
           /\ off' = [off EXCEPT ![f] = 0] /\ UNCHANGED <<t, cpu>>
  /\ Same /\ UNCHANGED <<disk, inode>>

Step(p) ==
  \/ Begin(p) \/ Balloc(p) \/ Bzero(p) \/ BmapIndirect(p) \/ BmapEntry(p) \/ Loop(p) \/ Data(p) \/ Done(p) \/ Iupdate(p)
  \/ Writei(p) \/ Itrunc(p) \/ TruncIndirect(p) \/ TruncEntry(p) \/ Bfree(p)

Next == \E p \in Procs : Step(p) \/ \E f \in DOMAIN FileOf : \E op \in Ops[f] : Call(p, f, op)

Spec == Init /\ [][Next]_vars

-----------------------------------------------------------------------------
(* Properties *)

(* the blocks of an inode, with the indirect block *)
Direct(ip) == {<<i>> : i \in {j \in 0..NDIRECT : ip.addrs[j] # 0}}
Entries(ip) == IF ip.addrs[NDIRECT] = 0 THEN {} ELSE {<<NDIRECT, j>> : j \in {c \in 0..(BSIZE - 1) : blk[ip.addrs[NDIRECT]][c] # 0}}
BlockAt(ip, x) == IF Len(x) = 1 THEN ip.addrs[x[1]] ELSE blk[ip.addrs[NDIRECT]][x[2]]
Places(ip) == Direct(ip) \cup Entries(ip)
BlocksOf(ip) == {BlockAt(ip, x) : x \in Places(ip)}
Truncating(i) == \E p \in Procs : t[p].op = "trunc" /\ Inum(p) = i

(* A block belongs to one place in one file, whoever allocates and frees   *)
(* at the same time, and the bitmap has exactly the blocks that belong to  *)
(* a file or to a balloc() in progress: none is lost and none is handed    *)
(* out twice, also when the disk fills up in the middle of a write.        *)
BlocksOwned ==
  /\ machine # "panic"
  /\ \A i \in Inodes : Cardinality(Places(inode[i])) = Cardinality(BlocksOf(inode[i])) \/ Truncating(i)
  /\ \A i, j \in Inodes : i # j => BlocksOf(inode[i]) \cap BlocksOf(inode[j]) \subseteq IF Truncating(i) \/ Truncating(j) THEN Blocks ELSE {}
  /\ used \subseteq UNION {BlocksOf(inode[i]) : i \in Inodes}
                    \cup {t[p].addr : p \in {q \in Procs : t[q].pc \in {"bzero", "entry", "bfree"}}}
  /\ \A i \in Inodes : BlocksOf(inode[i]) \subseteq used \/ Truncating(i)

(* What the disk says at any moment can be used after the machine stops:   *)
(* the blocks of the inodes on the disk are marked and are those of one    *)
(* file, except while that file is truncated; and no call leaves an inode  *)
(* in memory that differs from the one on the disk.                        *)
DiskCovered ==
  \A i \in Inodes :
    /\ ~Truncating(i) => BlocksOf(dinode[i]) \subseteq used
    /\ ~Truncating(i) => \A j \in Inodes \ {i} : Truncating(j) \/ BlocksOf(dinode[i]) \cap BlocksOf(dinode[j]) = {}
    /\ (\A p \in Procs : t[p].pc = "idle" \/ Inum(p) # i) => inode[i] = dinode[i]

(* the cell at offset o *)
Cell(ip, o) ==
  LET n == o \div BSIZE
      b == IF n < NDIRECT THEN ip.addrs[n] ELSE IF ip.addrs[NDIRECT] = 0 THEN 0 ELSE blk[ip.addrs[NDIRECT]][n - NDIRECT]
  IN IF b = 0 THEN 0 ELSE blk[b][o % BSIZE]

(* A file holds what was written to it: every cell below the size is its   *)
(* own data, in memory and for the inode on the disk, while other files    *)
(* grow, shrink and reuse blocks, and when a write failed half way.        *)
OwnData ==
  \A i \in Inodes : ~Truncating(i) =>
    \A ip \in {inode[i], dinode[i]} : \A o \in 0..(ip.size - 1) :
      Cell(ip, o) = i \/ (i = 1 /\ o >= Lens[1] /\ Cell(ip, o) = 0)

(* Two processes that write through one open file append: the offset that  *)
(* they share never gets past the end of the file.                         *)
SharedOffset ==
  (\A p \in Procs : t[p].pc = "idle") => \A f \in DOMAIN FileOf : off[f] <= inode[FileOf[f]].size
=============================================================================
