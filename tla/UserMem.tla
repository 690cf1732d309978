------------------------------ MODULE UserMem ------------------------------
(***************************************************************************)
(* Who owns the pages of the machine and the open files: kalloc() and      *)
(* kfree() (kmem.c), page tables (vm.c), fork(), exit(), sbrk() and exec() *)
(* (proc.c, exec.c), descriptors, dup(), close() and pipe() (syscall.c,    *)
(* file.c, pipe.c).                                                        *)
(*                                                                         *)
(* Everything but exec() runs without a sleep and is one step; exec()      *)
(* sleeps for the disk before it makes the page table and between          *)
(* segments, and other processes take and return pages meanwhile.          *)
(*                                                                         *)
(* An address space is a page table with two interior pages for the top    *)
(* (trampoline and trapframe) and two for the bottom (the program), the    *)
(* set of mapped pages at the bottom, and the size.  Of a page only the    *)
(* owner matters, so free counts the pages of the free list.               *)
(***************************************************************************)
EXTENDS Integers, FiniteSets, FiniteSetsExt, Sequences

CONSTANTS Procs, init,
          NPAGE,       \* pages that kinit() puts on the list
          PGSIZE,
          Increments,  \* arguments of sbrk()
          Programs,    \* the segments of the programs: [vaddr, memsz, filesz]
          MaxArgs,     \* arguments of exec()
          NFILE, NOFILE

ASSUME UserMemAssumption == init \in Procs /\ NPAGE \in Nat /\ PGSIZE \in Nat \ {0} /\ NFILE \in Nat /\ NOFILE \in Nat

Files == 1..NFILE
Fds == 1..NOFILE
Up(n) == (n + PGSIZE - 1) \div PGSIZE      \* PGROUNDUP(n) / PGSIZE
Least(a, b) == IF a < b THEN a ELSE b

VARIABLES
  free,      \* length of klist
  st,        \* "unused", "live" or "zombie"
  frame,     \* the process has a trapframe
  as,        \* p->pagetable and p->sz
  ex,        \* exec() in progress: its page table and size, its argument pages, the segments left
  ofile,     \* descriptors, 0 for none
  file,      \* ftable: references and type
  lost,      \* pages that nobody can free any more
  machine    \* "runs", or the panic

mem == <<free, st, frame, as, lost>>
files == <<ofile, file>>
vars == <<mem, ex, files, machine>>

NoTable == [root |-> 0, hi |-> 0, lo |-> 0, pages |-> {}, sz |-> 0]
NoExec == [at |-> "no", as |-> NoTable, args |-> 0, segs |-> <<>>]
NoFile == [ref |-> 0, type |-> "none", pipe |-> 0]

(* userinit(): the first process has one page *)
Init ==
  /\ st = [p \in Procs |-> IF p = init THEN "live" ELSE "unused"]
  /\ frame = [p \in Procs |-> p = init]
  /\ as = [p \in Procs |-> IF p = init THEN [root |-> 1, hi |-> 2, lo |-> 2, pages |-> {0}, sz |-> PGSIZE] ELSE NoTable]
  /\ free = NPAGE - 7
  /\ ex = [p \in Procs |-> NoExec]
  /\ ofile = [p \in Procs |-> [d \in Fds |-> 0]] /\ file = [f \in Files |-> NoFile]
  /\ lost = 0 /\ machine = "runs"

-----------------------------------------------------------------------------
(* Page tables.  A result is [free, as, ok] and sometimes more.            *)

PagesOf(a) == a.root + a.hi + a.lo + Cardinality(a.pages)

(* walk() with alloc, after kalloc() has taken one of n free pages: the    *)
(* interior pages it takes, and keeps although they may not be enough      *)
Walk(n, a) == Least(2 - a.lo, n - 1)

(* The loop of uvmalloc() and uvmcopy(): kalloc() a page for every page    *)
(* number of from..to-1 and mappages() it; a page that cannot be mapped is *)
(* freed                                                                   *)
Mappages(n, a, from, to) ==
  LET got == Walk(n, a)
      k == IF a.lo + got < 2 THEN 0 ELSE Least(to - from, n - got)
  IN IF to <= from THEN [free |-> n, as |-> a, to |-> to]
     ELSE IF n = 0 THEN [free |-> n, as |-> a, to |-> from]
     ELSE [free |-> n - got - k, as |-> [a EXCEPT !.lo = @ + got, !.pages = @ \cup from..(from + k - 1)], to |-> from + k]

(* mutant: the size asked for is returned, however far the loop came *)
UvmallocAsked(n, a, old, new) ==
  LET m == Mappages(n, a, Up(old), Up(new))
  IN [free |-> m.free, as |-> m.as, sz |-> IF Up(old) = Up(new) THEN old ELSE new]

(* uvmalloc(): returns the size, the old one if no page is needed *)
Uvmalloc(n, a, old, new) ==
  LET m == Mappages(n, a, Up(old), Up(new))
  IN IF Up(old) = Up(new) THEN [free |-> n, as |-> a, sz |-> old]
     ELSE [free |-> m.free, as |-> m.as, sz |-> PGSIZE * (IF Up(new) < Up(old) THEN Up(old) ELSE m.to)]

(* uvmunmap() with dofree; a page that is not mapped is a panic *)
Uvmunmap(n, a, from, to) ==
  [free |-> n + Cardinality(from..(to - 1)), as |-> [a EXCEPT !.pages = @ \ from..(to - 1)], ok |-> from..(to - 1) \subseteq a.pages]

Uvmdealloc(n, a, new) == [Uvmunmap(n, a, Up(new), Up(a.sz)) EXCEPT !.as.sz = new]

(* uvmcopy(): a failure unmaps what was copied; the interior pages go with *)
(* the page table                                                          *)
Uvmcopy(n, old, a) ==
  LET m == Mappages(n, a, 0, Up(old.sz))
      u == Uvmunmap(m.free, m.as, 0, m.to)
  IN IF m.to = Up(old.sz) THEN [free |-> m.free, as |-> [m.as EXCEPT !.sz = old.sz], ok |-> TRUE]
     ELSE [free |-> u.free, as |-> u.as, ok |-> FALSE]

(* freewalk(): the interior pages; a page that is left over is a panic *)
Freewalk(n, a) == [free |-> n + a.root + a.hi + a.lo, ok |-> a.pages = {}]

(* uvmfree() in proc_freepagetable() *)
FreeTable(n, a) ==
  LET m == Uvmunmap(n, a, 0, Up(a.sz))
      w == Freewalk(m.free, m.as)
  IN [free |-> w.free, ok |-> m.ok /\ w.ok]

(* proc_pagetable(): without a page for the root the kernel writes to      *)
(* address 0; when an interior page is missing only the root is freed      *)
ProcPagetable(n) ==
  CASE n = 0 -> [free |-> 0, as |-> NoTable, ok |-> FALSE, lost |-> 0, crash |-> TRUE]
    [] n \in {1, 2} -> [free |-> 1, as |-> NoTable, ok |-> FALSE, lost |-> n - 1, crash |-> FALSE]
    [] OTHER -> [free |-> n - 3, as |-> [NoTable EXCEPT !.root = 1, !.hi = 2], ok |-> TRUE, lost |-> 0, crash |-> FALSE]

User(p) == machine = "runs" /\ st[p] = "live" /\ ex[p].at = "no"
Panic(why) == machine' = why /\ UNCHANGED <<mem, ex, files>>
Keep == UNCHANGED <<ex, files, machine>>

-----------------------------------------------------------------------------
(* sbrk() *)
Sbrk(p, n) ==
  /\ User(p)
  /\ LET a == as[p]
         up == Uvmalloc(free, a, a.sz, a.sz + n)
         down == Uvmdealloc(free, a, a.sz + n)
     IN \/ /\ n > 0
           /\ free' = up.free /\ as' = [as EXCEPT ![p] = [up.as EXCEPT !.sz = up.sz]]
           /\ Keep /\ UNCHANGED <<st, frame, lost>>
        \/ /\ n < 0 /\ a.sz + n >= 0 /\ down.ok
           /\ free' = down.free /\ as' = [as EXCEPT ![p] = down.as]
           /\ Keep /\ UNCHANGED <<st, frame, lost>>

(* allocproc(): a trapframe and a page table; freeproc() takes back the    *)
(* trapframe when there is no page table                                   *)
Allocproc(n) ==
  LET t == ProcPagetable(n - 1)
  IN IF n = 0 THEN [free |-> 0, as |-> NoTable, ok |-> FALSE, lost |-> 0, crash |-> FALSE]
     ELSE IF t.ok \/ t.crash THEN t
     ELSE [t EXCEPT !.free = @ + 1]

(* freeproc(): the trapframe and the page table *)
Freeproc(n, a) == FreeTable(n + 1, a)

ForkFail(n, lose) == free' = n /\ lost' = lost + lose /\ Keep /\ UNCHANGED <<st, frame, as>>

Fork(p, q) ==
  /\ User(p) /\ st[q] = "unused"
  /\ LET t == Allocproc(free)
         m == Uvmcopy(t.free, as[p], t.as)
     IN \/ t.crash /\ Panic("null table")
        \/ ~t.ok /\ ~t.crash /\ ForkFail(t.free, t.lost)
        \/ t.ok /\ ~m.ok /\ Freeproc(m.free, m.as).ok /\ ForkFail(Freeproc(m.free, m.as).free, 0)
        \/ /\ t.ok /\ m.ok
           /\ 0..(Up(as[p].sz) - 1) \subseteq as[p].pages
           /\ free' = m.free /\ as' = [as EXCEPT ![q] = m.as]
           /\ st' = [st EXCEPT ![q] = "live"] /\ frame' = [frame EXCEPT ![q] = TRUE]
           /\ ofile' = [ofile EXCEPT ![q] = ofile[p]]
           /\ file' = [f \in Files |-> [file[f] EXCEPT !.ref = @ + Cardinality({d \in Fds : ofile[p][d] = f})]]
           /\ UNCHANGED <<ex, lost, machine>>

(* wait(): freeproc() of a zombie *)
Wait(p, q) ==
  /\ User(p) /\ st[q] = "zombie"
  /\ LET m == Freeproc(free, as[q])
     IN /\ m.ok
        /\ free' = m.free /\ as' = [as EXCEPT ![q] = NoTable]
        /\ st' = [st EXCEPT ![q] = "unused"] /\ frame' = [frame EXCEPT ![q] = FALSE]
  /\ Keep /\ UNCHANGED lost
-----------------------------------------------------------------------------
(* exec() *)

(* sys_exec(): a page for every argument *)
ExecArgs(p, k, segs) ==
  /\ User(p) /\ k <= free
  /\ free' = free - k
  /\ ex' = [ex EXCEPT ![p] = [NoExec EXCEPT !.at = "table", !.args = k, !.segs = segs]]
  /\ UNCHANGED <<st, frame, as, lost, files, machine>>

(* mutant: the arguments are not freed *)
ExecBadArgs(p) ==
  /\ machine = "runs" /\ ex[p].at # "no"
  /\ LET m == FreeTable(free, ex[p].as)
     IN m.ok /\ free' = m.free
  /\ ex' = [ex EXCEPT ![p] = NoExec]
  /\ UNCHANGED <<st, frame, as, lost, files, machine>>

(* bad: the new page table and the arguments are freed, the old image stays *)
ExecBad(p) ==
  /\ machine = "runs" /\ ex[p].at # "no"
  /\ LET m == FreeTable(free, ex[p].as)
     IN m.ok /\ free' = m.free + ex[p].args
  /\ ex' = [ex EXCEPT ![p] = NoExec]
  /\ UNCHANGED <<st, frame, as, lost, files, machine>>

ExecTable(p) ==
  /\ machine = "runs" /\ ex[p].at = "table"
  /\ LET t == ProcPagetable(free)
     IN \/ t.crash /\ Panic("null table")
        \/ /\ ~t.crash
           /\ free' = t.free + (IF t.ok THEN 0 ELSE ex[p].args) /\ lost' = lost + t.lost
           /\ ex' = [ex EXCEPT ![p] = IF t.ok THEN [@ EXCEPT !.at = "seg", !.as = t.as] ELSE NoExec]
           /\ UNCHANGED <<st, frame, as, files, machine>>

(* uvmalloc() for a segment: 0 is the only failure that is noticed *)
ExecSeg(p) ==
  /\ machine = "runs" /\ ex[p].at = "seg" /\ ex[p].segs # <<>>
  /\ LET e == ex[p]
         m == Uvmalloc(free, e.as, e.as.sz, Head(e.segs).vaddr + Head(e.segs).memsz)
     IN /\ free' = m.free
        /\ ex' = [ex EXCEPT ![p].at = IF m.sz = 0 THEN "bad" ELSE "load", ![p].as = [m.as EXCEPT !.sz = m.sz]]
  /\ UNCHANGED <<st, frame, as, lost, files, machine>>

(* loadseg() *)
ExecLoad(p) ==
  /\ machine = "runs" /\ ex[p].at = "load"
  /\ LET s == Head(ex[p].segs)
         pages == {s.vaddr \div PGSIZE + i : i \in 0..(Up(s.filesz) - 1)}
     IN IF pages \subseteq ex[p].as.pages
        THEN ex' = [ex EXCEPT ![p].at = "seg", ![p].segs = Tail(@)] /\ UNCHANGED <<mem, files, machine>>
        ELSE Panic("loadseg")

(* the stack, and the commit; uvmclear() panics if there is no page        *)
ExecCommit(p) ==
  /\ machine = "runs" /\ ex[p].at = "seg" /\ ex[p].segs = <<>>
  /\ LET e == ex[p]
         sz == PGSIZE * Up(e.as.sz)
         m == Uvmalloc(free, e.as, sz, sz + 2 * PGSIZE)
         old == FreeTable(m.free, as[p])
     IN \/ m.sz = 0 /\ free' = m.free /\ ex' = [ex EXCEPT ![p].at = "bad", ![p].as = [m.as EXCEPT !.sz = sz]]
           /\ UNCHANGED <<st, frame, as, lost, files, machine>>
        \/ m.sz # 0 /\ m.sz < 2 * PGSIZE /\ Panic("uvmclear")
        \/ /\ m.sz >= 2 * PGSIZE /\ old.ok
           /\ free' = old.free + e.args
           /\ as' = [as EXCEPT ![p] = [m.as EXCEPT !.sz = m.sz]]
           /\ ex' = [ex EXCEPT ![p] = NoExec]
           /\ UNCHANGED <<st, frame, lost, files, machine>>
        \/ /\ m.sz >= 2 * PGSIZE      \* the arguments do not fit
           /\ free' = m.free
           /\ ex' = [ex EXCEPT ![p].at = "bad", ![p].as = [m.as EXCEPT !.sz = m.sz]]
           /\ UNCHANGED <<st, frame, as, lost, files, machine>>

-----------------------------------------------------------------------------
(* Files *)

FreeFiles == {f \in Files : file[f].ref = 0}
FreeFds(p) == {d \in Fds : ofile[p][d] = 0}
Pipes(fs) == {fs[f].pipe : f \in Files} \ {0}
FileKeep == UNCHANGED <<st, frame, as, ex, lost, machine>>

(* fileclose(), cnt[f] times: the last one closes an end of a pipe, and    *)
(* the page of the pipe is freed with the second end                       *)
Closed(fs, cnt) == [f \in Files |-> IF fs[f].ref > cnt[f] THEN [fs[f] EXCEPT !.ref = @ - cnt[f]] ELSE NoFile]

Fileclose(cnt) ==
  /\ file' = Closed(file, cnt)
  /\ free' = free + Cardinality(Pipes(file)) - Cardinality(Pipes(file'))

(* filealloc() and fdalloc() in sys_open() *)
Open(p) ==
  /\ User(p) /\ FreeFiles # {} /\ FreeFds(p) # {}
  /\ file' = [file EXCEPT ![Min(FreeFiles)] = [ref |-> 1, type |-> "inode", pipe |-> 0]]
  /\ ofile' = [ofile EXCEPT ![p][Min(FreeFds(p))] = Min(FreeFiles)]
  /\ FileKeep /\ UNCHANGED free

Dup(p, d) ==
  /\ User(p) /\ ofile[p][d] # 0 /\ FreeFds(p) # {}
  /\ ofile' = [ofile EXCEPT ![p][Min(FreeFds(p))] = ofile[p][d]]
  /\ file' = [file EXCEPT ![ofile[p][d]].ref = @ + 1]
  /\ FileKeep /\ UNCHANGED free

(* mutant: the descriptor of a file that others share is closed for them  *)
(* too                                                                     *)
CloseAll(p, d) ==
  /\ User(p) /\ ofile[p][d] # 0
  /\ ofile' = [ofile EXCEPT ![p][d] = 0]
  /\ Fileclose([f \in Files |-> IF f = ofile[p][d] THEN file[f].ref ELSE 0])
  /\ FileKeep

Close(p, d) ==
  /\ User(p) /\ ofile[p][d] # 0
  /\ ofile' = [ofile EXCEPT ![p][d] = 0]
  /\ Fileclose([f \in Files |-> IF f = ofile[p][d] THEN 1 ELSE 0])
  /\ FileKeep

(* pipealloc(): files r and w for the ends of a new pipe *)
Pipealloc(r, w) ==
  LET id == Min(Files \ Pipes(file))
  IN [file EXCEPT ![r] = [ref |-> 1, type |-> "read", pipe |-> id], ![w] = [ref |-> 1, type |-> "write", pipe |-> id]]

(* sys_pipe(): when fdalloc() or copyout() fails both files are closed *)
Pipe(p) ==
  /\ User(p) /\ Cardinality(FreeFiles) >= 2 /\ free > 0
  /\ LET r == Min(FreeFiles)
         w == Min(FreeFiles \ {r})
         new == Pipealloc(r, w)
         old == Closed(new, [f \in Files |-> IF f \in {r, w} THEN 1 ELSE 0])
     IN \/ /\ Cardinality(FreeFds(p)) >= 2
           /\ LET d == Min(FreeFds(p))
                  e == Min(FreeFds(p) \ {d})
              IN ofile' = [ofile EXCEPT ![p][d] = r, ![p][e] = w]
           /\ file' = new /\ free' = free - 1
        \/ /\ file' = old /\ free' = free - 1 + Cardinality(Pipes(new)) - Cardinality(Pipes(old))
           /\ UNCHANGED ofile
  /\ FileKeep

(* exit(): the files are closed, memory is left to wait() *)
Exit(p) ==
  /\ User(p) /\ p # init
  /\ Fileclose([f \in Files |-> Cardinality({d \in Fds : ofile[p][d] = f})])
  /\ ofile' = [ofile EXCEPT ![p] = [d \in Fds |-> 0]]
  /\ st' = [st EXCEPT ![p] = "zombie"]
  /\ UNCHANGED <<frame, as, ex, lost, machine>>

Next ==
  \E p \in Procs :
    \/ \E n \in Increments : Sbrk(p, n)
    \/ \E q \in Procs : Fork(p, q) \/ Wait(p, q)
    \/ \E k \in 0..MaxArgs, segs \in Programs : ExecArgs(p, k, segs)
    \/ ExecTable(p) \/ ExecSeg(p) \/ ExecLoad(p) \/ ExecCommit(p) \/ ExecBad(p)
    \/ Open(p) \/ Pipe(p) \/ Exit(p) \/ \E d \in Fds : Dup(p, d) \/ Close(p, d)

Spec == Init /\ [][Next]_vars

-----------------------------------------------------------------------------
(* Properties *)

(* Every page is on the free list or has one owner that will free it: a    *)
(* page table, a trapframe, an exec() in progress or a pipe.  The only     *)
(* pages ever lost are those that proc_pagetable() drops.                  *)
PagesAccounted ==
  NPAGE = free + lost + Cardinality(Pipes(file)) + Cardinality({p \in Procs : frame[p]})
          + MapThenSumSet(LAMBDA p : PagesOf(as[p]) + PagesOf(ex[p].as) + ex[p].args, Procs)

(* The pages of a process, and of a new image in exec(), are exactly those *)
(* below its size, whatever failed half way: so uvmcopy(), uvmunmap() and  *)
(* freewalk() never meet a page that is missing or left over.              *)
MappedBelow ==
  \A p \in Procs : \A a \in {as[p], ex[p].as} : a.pages = 0..(Up(a.sz) - 1) /\ (a.sz > 0 => a.lo = 2 /\ a.root = 1)

(* f->ref is the number of descriptors, in all processes, that lead to the *)
(* file, and a pipe has exactly one file for each end that is open: an end *)
(* is closed when the last descriptor goes, and not before.                *)
FileRefs ==
  /\ \A f \in Files : file[f].ref = Cardinality({x \in Procs \X Fds : ofile[x[1]][x[2]] = f})
  /\ \A f, g \in Files : f # g /\ file[f].pipe # 0 /\ file[f].pipe = file[g].pipe => {file[f].type, file[g].type} = {"read", "write"}
=============================================================================
