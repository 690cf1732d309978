------------------------------ MODULE Terminal ------------------------------
(***************************************************************************)
(* A session at the terminal: a user types a script; init, the shell and   *)
(* the commands it starts (user/init.c, sh.c, echo.c, cat.c, gets() of     *)
(* ulib.c) run on the console of module Console and parse with ShParse.    *)
(*                                                                         *)
(* A process is a list of steps still to do; the head of the list is the   *)
(* system call, or the piece of user code, that it does next.  Of a        *)
(* message or a string that is written one character stands for all (two   *)
(* for the prompt), of the contents of a pipe the number of characters     *)
(* counts.  Of the kernel below, what a program sees is modelled: the      *)
(* first free slot and descriptor are taken, fork() fails when there is no *)
(* slot, pipe() and open() may fail, a pipe ends when its last writer is   *)
(* gone, the children of a process that exits go to init.  A file fits in  *)
(* one buffer of cat.  Programs are started by a name of one character:    *)
(* "e" is echo, "c" is cat, no other exists.  malloc() succeeds, no process  *)
(* is killed, and init finds its shell.                                    *)
(***************************************************************************)
EXTENDS Console, ShParse

CONSTANTS Scripts,    \* what the user may type, each a sequence of characters
          NBUF, CATBUF, NOFILE, NPIPE, PIPESIZE

VARIABLES typed,      \* what is still to be typed
          pr,         \* the processes; 1 is init
          pipes       \* the number of characters in each pipe
vars == <<cons, log, tx, thr, asleep, typed, pr, pipes>>

init == 1
Fds == 0..(NOFILE - 1)
None == <<"none", 0>>
Tty == <<"cons", 0>>
File == <<"file", 0>>
Std == [d \in Fds |-> IF d <= 2 THEN Tty ELSE None]

Unused == [st |-> "unused", par |-> 0, fd |-> [d \in Fds |-> None], todo |-> <<>>, buf |-> <<>>]

-----------------------------------------------------------------------------
(* The programs, as lists of steps *)
Say(d) == << <<"puts", d, 1>> >>
Die == << <<"puts", 2, 1>>, <<"exit">> >>              \* a message and exit(), also panic() of sh.c
Wait == << <<"wait">> >>
Fork(child) == << <<"fork", child>> >>
Run(cmd) == << <<"run", cmd>> >>

getcmd == << <<"puts", 2, 1>>, <<"puts", 2, 1>>, <<"gets">> >>
ShMain == << <<"console">> >> \o getcmd
InitMain == Say(1) \o Fork(ShMain) \o << <<"initwait", 0>> >>

Echo(argc) == FlattenSeq([i \in 1..(2 * (argc - 1)) |-> Say(1)]) \o << <<"exit">> >>
Cat(argc) ==
  IF argc <= 1 THEN << <<"cat", 0, CATBUF>>, <<"exit">> >>
  ELSE [i \in 1..(argc - 1) |-> <<"catfile">>] \o << <<"exit">> >>

(* mutant: the right side keeps the end of the pipe that is written *)
PlumbKeep(end, pair) ==
  << <<"close", end>>, <<"dup", pair[end + 1]>>, <<"close", pair[1]>> >>
  \o (IF end = 1 THEN << <<"close", pair[2]>> >> ELSE <<>>)

(* a side of a pipeline puts its end of the pipe in place of descriptor end *)
Plumb(end, pair) ==
  << <<"close", end>>, <<"dup", pair[end + 1]>>, <<"close", pair[1]>>, <<"close", pair[2]>> >>

Pipeline(cmd, pair) ==
  Fork(Plumb(1, pair) \o Run(cmd.left)) \o Fork(Plumb(0, pair) \o Run(cmd.right))
  \o << <<"close", pair[1]>>, <<"close", pair[2]>> >> \o Wait \o Wait \o << <<"exit">> >>

-----------------------------------------------------------------------------
Init ==
  /\ ConsoleInit
  /\ typed \in Scripts
  /\ pr = [p \in Procs |-> IF p = init THEN [Unused EXCEPT !.st = "run", !.fd = Std, !.todo = InitMain] ELSE Unused]
  /\ pipes = [i \in 1..NPIPE |-> 0]

Op(p) == pr[p].todo[1][1]
Arg(p, i) == pr[p].todo[1][i + 1]
Rest(p) == Tail(pr[p].todo)
Runs(p, op) == pr[p].st = "run" /\ asleep[p] = "" /\ Op(p) = op
Go(p, steps) == pr' = [pr EXCEPT ![p].todo = steps]
GoFd(p, fd, steps) == pr' = [pr EXCEPT ![p].todo = steps, ![p].fd = fd]

Fdalloc(fd) == Min({d \in Fds : fd[d] = None})
Open(fd, f) == [fd EXCEPT ![Fdalloc(fd)] = f]
Ends(f) == \E p \in Procs, d \in Fds : pr[p].fd[d] = f
Quiet == UNCHANGED <<console, typed>>

(* a character arrives; a character is sent *)
Key == typed # <<>> /\ typed' = Tail(typed) /\ Uartintr(Head(typed)) /\ UNCHANGED <<pr, pipes>>
Sent == TxDone /\ UNCHANGED <<typed, pr, pipes>>

(* write() of one character; after an error cat gives up and echo goes on  *)
Puts(p) ==
  LET f == pr[p].fd[Arg(p, 1)]
      failed == IF Rest(p)[1][1] = "cat" THEN Die ELSE Rest(p)
  IN /\ Runs(p, "puts")
     /\ \/ f = Tty /\ UartFull(p) /\ UNCHANGED <<typed, pr, pipes>>
        \/ f = Tty /\ Uartputc(p) /\ Go(p, Rest(p)) /\ UNCHANGED <<typed, pipes>>
        \/ f = File /\ Go(p, Rest(p)) /\ UNCHANGED pipes /\ Quiet
        \/ /\ f[1] = "w" /\ Ends(<<"r", f[2]>>) /\ pipes[f[2]] < PIPESIZE
           /\ pipes' = [pipes EXCEPT ![f[2]] = @ + 1] /\ Go(p, Rest(p)) /\ Quiet
        \/ f[1] = "w" /\ ~Ends(<<"r", f[2]>>) /\ Go(p, failed) /\ UNCHANGED pipes /\ Quiet

(* gets() of the shell: one character with each read() *)
Gets(p) ==
  LET rd == Consoleread(cons, 1, 1)
      c == At(cons, cons.r)
      full == Len(pr[p].buf) + 1 >= NBUF
      ended == rd.n = 1 \/ c \in {"\n", "\r"}
  IN /\ Runs(p, "gets")
     /\ \/ full /\ Go(p, << <<"line">> >>) /\ UNCHANGED console
        \/ ~full /\ ~rd.done /\ Got(p, rd) /\ UNCHANGED pr
        \/ /\ ~full /\ rd.done /\ Got(p, rd)
           /\ pr' = [pr EXCEPT ![p].buf = IF rd.n = 1 THEN @ ELSE Append(@, c), ![p].todo = IF ended THEN << <<"line">> >> ELSE @]
     /\ UNCHANGED <<typed, pipes>>

(* what main() of the shell does with a line; getcmd() clears the buffer *)
ShLine(p) ==
  LET b == pr[p].buf
      cd == Len(b) > 2 /\ SubSeq(b, 1, 3) = <<"c", "d", " ">>
  IN /\ Runs(p, "line")
     /\ \/ b = <<>> /\ Go(p, << <<"exit">> >>)
        \/ cd /\ pr' = [pr EXCEPT ![p].buf = <<>>, ![p].todo = getcmd]
        \/ cd /\ pr' = [pr EXCEPT ![p].buf = <<>>, ![p].todo = Say(2) \o getcmd]
        \/ b # <<>> /\ ~cd /\ pr' = [pr EXCEPT ![p].buf = <<>>, ![p].todo = Fork(<< <<"parse", b>> >>) \o Wait \o getcmd]
     /\ UNCHANGED pipes /\ Quiet

Parse(p) ==
  LET r == parsecmd(Arg(p, 1))
  IN /\ Runs(p, "parse")
     /\ IF r.panic # "" THEN Go(p, Die)
        ELSE pr' = [pr EXCEPT ![p].todo = Run(r.cmd), ![p].buf = nulterminate(Arg(p, 1), r.cmd)]
     /\ UNCHANGED pipes /\ Quiet

(* runcmd() *)
Exec(p, argv) ==
  LET name == Str(pr[p].buf, argv[1][1])
  IN IF argv = <<>> THEN Go(p, << <<"exit">> >>)
     ELSE IF name \in {<<"e">>, <<"c">>} THEN pr' = [pr EXCEPT ![p].todo = << <<"main", name[1], Len(argv)>> >>, ![p].buf = <<>>]
     ELSE Go(p, Die)

Redir(p, cmd) ==
  LET closed == [pr[p].fd EXCEPT ![cmd.fd] = None]
  IN \/ GoFd(p, Open(closed, File), Run(cmd.cmd))
     \/ GoFd(p, closed, Die)

PipeCmd(p, cmd) ==
  \/ \E i \in 1..NPIPE :
       LET fd == pr[p].fd
           r == Fdalloc(fd)
           w == Fdalloc(Open(fd, <<"r", i>>))
       IN /\ i = Min({j \in 1..NPIPE : ~Ends(<<"r", j>>) /\ ~Ends(<<"w", j>>)})
          /\ GoFd(p, [fd EXCEPT ![r] = <<"r", i>>, ![w] = <<"w", i>>], Pipeline(cmd, <<r, w>>))
          /\ pipes' = [pipes EXCEPT ![i] = 0]
  \/ Go(p, Die) /\ UNCHANGED pipes

Runcmd(p) ==
  LET cmd == Arg(p, 1)
  IN /\ Runs(p, "run")
     /\ \/ cmd.type = "EXEC" /\ Exec(p, cmd.argv) /\ UNCHANGED pipes
        \/ cmd.type = "REDIR" /\ Redir(p, cmd) /\ UNCHANGED pipes
        \/ cmd.type = "LIST" /\ Go(p, Fork(Run(cmd.left)) \o Wait \o Run(cmd.right)) /\ UNCHANGED pipes
        \/ cmd.type = "PIPE" /\ PipeCmd(p, cmd)
        \/ cmd.type = "BACK" /\ Go(p, Fork(Run(cmd.cmd)) \o << <<"exit">> >>) /\ UNCHANGED pipes
     /\ Quiet

(* main() of echo and of cat *)
Main(p) ==
  /\ Runs(p, "main")
  /\ Go(p, IF Arg(p, 1) = "e" THEN Echo(Arg(p, 2)) ELSE Cat(Arg(p, 2)))
  /\ UNCHANGED pipes /\ Quiet

(* cat() on a descriptor: n of the buffer is left in this read *)
CatLoop(p) ==
  LET d == Arg(p, 1)
      f == pr[p].fd[d]
      rd == Consoleread(cons, Arg(p, 2), CATBUF)
      again == Say(1) \o << <<"cat", d, CATBUF>> >> \o Rest(p)
  IN /\ Runs(p, "cat")
     /\ \/ /\ f = Tty /\ Got(p, rd) /\ UNCHANGED <<typed, pipes>>
           /\ Go(p, IF ~rd.done THEN << <<"cat", d, rd.n>> >> \o Rest(p) ELSE IF rd.n = CATBUF THEN Rest(p) ELSE again)
        \/ f = File /\ (Go(p, Rest(p)) \/ Go(p, Say(1) \o Rest(p))) /\ UNCHANGED pipes /\ Quiet
        \/ f[1] = "r" /\ pipes[f[2]] > 0 /\ pipes' = [pipes EXCEPT ![f[2]] = 0] /\ Go(p, again) /\ Quiet
        \/ f[1] = "r" /\ pipes[f[2]] = 0 /\ ~Ends(<<"w", f[2]>>) /\ Go(p, Rest(p)) /\ UNCHANGED pipes /\ Quiet

CatFile(p) ==
  LET d == Fdalloc(pr[p].fd)
  IN /\ Runs(p, "catfile")
     /\ \/ GoFd(p, Open(pr[p].fd, File), << <<"cat", d, CATBUF>>, <<"close", d>> >> \o Rest(p))
        \/ Go(p, Die)
     /\ UNCHANGED pipes /\ Quiet

(* the shell opens the console until three descriptors are open *)
OpenConsole(p) ==
  /\ Runs(p, "console")
  /\ GoFd(p, [d \in Fds |-> IF d <= 2 /\ pr[p].fd[d] = None THEN Tty ELSE pr[p].fd[d]], Rest(p))
  /\ UNCHANGED pipes /\ Quiet

Close(p) == Runs(p, "close") /\ GoFd(p, [pr[p].fd EXCEPT ![Arg(p, 1)] = None], Rest(p)) /\ UNCHANGED pipes /\ Quiet
Dup(p) == Runs(p, "dup") /\ GoFd(p, Open(pr[p].fd, pr[p].fd[Arg(p, 1)]), Rest(p)) /\ UNCHANGED pipes /\ Quiet

(* fork(); fork1() panics when it fails *)
DoFork(p) ==
  LET free == {q \in Procs : pr[q].st = "unused"}
      q == Min(free)
      child == [pr[p] EXCEPT !.par = p, !.todo = Arg(p, 1)]
      next == IF p = init THEN << <<"initwait", q>> >> ELSE Rest(p)
  IN /\ Runs(p, "fork")
     /\ \/ free # {} /\ pr' = [pr EXCEPT ![q] = child, ![p].todo = next]
        \/ free = {} /\ Go(p, Die)
     /\ UNCHANGED pipes /\ Quiet

(* wait() finds a child that has exited *)
DoWait(p) ==
  /\ Runs(p, "wait")
  /\ \E z \in Procs : pr[z].st = "zombie" /\ pr[z].par = p /\ pr' = [pr EXCEPT ![z] = Unused, ![p].todo = Rest(p)]
  /\ UNCHANGED pipes /\ Quiet

(* init restarts the shell when it is the one that exited *)
InitWait(p) ==
  /\ Runs(p, "initwait")
  /\ \E z \in Procs :
       /\ pr[z].st = "zombie" /\ pr[z].par = p
       /\ pr' = [pr EXCEPT ![z] = Unused, ![p].todo = IF z = Arg(p, 1) THEN InitMain ELSE @]
  /\ UNCHANGED pipes /\ Quiet

Exit(p) ==
  /\ Runs(p, "exit") /\ p # init
  /\ pr' = [q \in Procs |-> IF q = p THEN [Unused EXCEPT !.st = "zombie", !.par = pr[p].par]
                            ELSE IF pr[q].par = p THEN [pr[q] EXCEPT !.par = init] ELSE pr[q]]
  /\ UNCHANGED pipes /\ Quiet

Step(p) ==
  \/ Puts(p) \/ Gets(p) \/ ShLine(p) \/ Parse(p) \/ Runcmd(p) \/ Main(p) \/ CatLoop(p) \/ CatFile(p)
  \/ OpenConsole(p) \/ Close(p) \/ Dup(p) \/ DoFork(p) \/ DoWait(p) \/ InitWait(p) \/ Exit(p)

Next == Key \/ Sent \/ \E p \in Procs : Step(p)
Spec == Init /\ [][Next]_vars /\ WF_vars(Next)

-----------------------------------------------------------------------------
(* Whatever line the shell reads, parsecmd() finds the one meaning that    *)
(* the grammar gives it or panics when there is none, and nulterminate()   *)
(* leaves every word readable.                                             *)
ParseExact ==
  \A p \in Procs : pr[p].st = "run" /\ Op(p) = "parse" => Exact(Arg(p, 1)) /\ Readable(Arg(p, 1))

(* A program starts with descriptors 0, 1 and 2 open and no other: no end  *)
(* of a pipe is left over from the pipelines it is part of.                *)
OnlyStdio ==
  \A p \in Procs : pr[p].st = "run" /\ Op(p) = "main" => {d \in Fds : pr[p].fd[d] # None} = 0..2

(* those a process that is blocked in wait() or on a pipe waits for *)
Holders(f) == {q \in Procs : \E d \in Fds : pr[q].fd[d] = f}
WaitsFor(p) ==
  LET f == pr[p].fd[Arg(p, 1)]
  IN CASE Op(p) \in {"wait", "initwait"} -> {q \in Procs : pr[q].st = "run" /\ pr[q].par = p}
       [] Op(p) = "cat" /\ f[1] = "r" -> Holders(<<"w", f[2]>>)
       [] Op(p) = "puts" /\ f[1] = "w" -> Holders(<<"r", f[2]>>)
       [] OTHER -> {}

(* When the user has typed everything, the terminal comes to rest: nothing *)
(* is being sent, no zombie is left, every process sleeps for input that   *)
(* has not come or waits for a process, and no processes wait only for one *)
(* another: no end of a pipe that the shell forgot, and no lost wakeup of  *)
(* the console, keeps a command from ending.                               *)
AtRest ==
  LET live == {p \in Procs : pr[p].st = "run"}
      readers == {p \in live : asleep[p] = "in"}
  IN /\ typed = <<>> /\ ~thr /\ tx = 0
     /\ readers # {} /\ cons.r = cons.w
     /\ \A p \in Procs : pr[p].st # "zombie"
     /\ \A S \in SUBSET (live \ readers) \ {{}} : \E p \in S : ~(WaitsFor(p) \subseteq S)
Settles == <>[]AtRest
=============================================================================
