------------------------------ MODULE ShParse ------------------------------
(***************************************************************************)
(* The parser of the shell (user/sh.c), as functions of the line, and the  *)
(* grammar that it is to follow.                                           *)
(*                                                                         *)
(* A line is a sequence of characters; es, the end of it, is the position  *)
(* behind the last one, where the NUL is.  A word is the pair <<q, eq>> of *)
(* its first position and the position behind it.  A parse function        *)
(* returns the command, the position it got to and the panic, if any.      *)
(***************************************************************************)
EXTENDS Integers, Sequences, FiniteSets, FiniteSetsExt, SequencesExt

CONSTANT MAXARGS

NUL == "nul"
whitespace == {" ", "\t", "\r", "\n"}
symbols == {"<", "|", ">", "&", ";", "(", ")"}

(* F(v): TLC evaluates v once, and not wherever F uses it *)
Once(v, F(_)) == CHOOSE y \in {F(x) : x \in {v}} : TRUE

Ch(s, i) == IF i <= Len(s) THEN s[i] ELSE NUL
Skip(s, i) == Min({j \in i..(Len(s) + 1) : Ch(s, j) \notin whitespace})
WordEnd(s, i) == Min({j \in i..(Len(s) + 1) : j > Len(s) \/ s[j] \in whitespace \cup symbols})

-----------------------------------------------------------------------------
(* Constructors *)
execcmd(argv) == [type |-> "EXEC", argv |-> argv]
redircmd(cmd, file, mode, fd) == [type |-> "REDIR", cmd |-> cmd, file |-> file, mode |-> mode, fd |-> fd]
pipecmd(left, right) == [type |-> "PIPE", left |-> left, right |-> right]
listcmd(left, right) == [type |-> "LIST", left |-> left, right |-> right]
backcmd(cmd) == [type |-> "BACK", cmd |-> cmd]

(* the commands of the redirections rs around cmd *)
Redirect(cmd, rs) ==
  FoldLeft(LAMBDA c, r : CASE r[1] = "<" -> redircmd(c, r[2], "rdonly", 0)
                           [] r[1] = ">" -> redircmd(c, r[2], "trunc", 1)
                           [] r[1] = "+" -> redircmd(c, r[2], "wronly", 1), cmd, rs)

-----------------------------------------------------------------------------
(* Tokens *)

Token(s, q) ==
  LET c == Ch(s, q)
      twice == c = ">" /\ Ch(s, q + 1) = ">"
  IN CASE c = NUL -> <<NUL, q>>
       [] twice -> <<"+", q + 2>>
       [] c \in symbols /\ ~twice -> <<c, q + 1>>
       [] OTHER -> <<"a", WordEnd(s, q)>>

gettoken(s, i) ==
  Once(Skip(s, i), LAMBDA q : Once(Token(s, q), LAMBDA t : [tok |-> t[1], word |-> <<q, t[2]>>, at |-> Skip(s, t[2])]))

peek(s, i, toks) == Ch(s, Skip(s, i)) \in toks

-----------------------------------------------------------------------------
(* Commands *)
RECURSIVE parseline(_, _), parsepipe(_, _), parseexec(_, _), parseredirs(_, _, _), Args(_, _, _, _)

Panic(why) == [cmd |-> execcmd(<<>>), at |-> 0, panic |-> why]
Parsed(cmd, i) == [cmd |-> cmd, at |-> i, panic |-> ""]

(* r, unless it is a panic, and then F(r) *)
Then(v, F(_)) == Once(v, LAMBDA r : IF r.panic # "" THEN Panic(r.panic) ELSE F(r))

(* the position behind the token at i *)
Past(s, i) == gettoken(s, i).at

RECURSIVE Backs(_, _)
Backs(s, r) == IF peek(s, r.at, {"&"}) THEN Once(Parsed(backcmd(r.cmd), Past(s, r.at)), LAMBDA b : Backs(s, b)) ELSE r

parseline(s, i) ==
  Then(parsepipe(s, i), LAMBDA p :
    Once(Backs(s, p), LAMBDA b :
      IF ~peek(s, b.at, {";"}) THEN b
      ELSE Then(parseline(s, Past(s, b.at)), LAMBDA rest : Parsed(listcmd(b.cmd, rest.cmd), rest.at))))

(* mutant: what follows "|" is one command *)
parsepipeTwo(s, i) ==
  Then(parseexec(s, i), LAMBDA e :
    IF ~peek(s, e.at, {"|"}) THEN e
    ELSE Then(parseexec(s, Past(s, e.at)), LAMBDA rest : Parsed(pipecmd(e.cmd, rest.cmd), rest.at)))

parsepipe(s, i) ==
  Then(parseexec(s, i), LAMBDA e :
    IF ~peek(s, e.at, {"|"}) THEN e
    ELSE Then(parsepipe(s, Past(s, e.at)), LAMBDA rest : Parsed(pipecmd(e.cmd, rest.cmd), rest.at)))

(* the redirections from i on, after rs: they are put around the command   *)
(* when it is complete                                                     *)
parseredirs(s, i, rs) ==
  IF ~peek(s, i, {"<", ">"}) THEN [rs |-> rs, at |-> i, panic |-> ""]
  ELSE Once(gettoken(s, i), LAMBDA t :
    Once(gettoken(s, t.at), LAMBDA file :
      IF file.tok # "a" THEN Panic("missing file for redirection")
      ELSE Once(Append(rs, <<t.tok, file.word>>), LAMBDA more : parseredirs(s, file.at, more))))

parseblock(s, i) ==
  Then(parseline(s, Past(s, i)), LAMBDA l :
    IF ~peek(s, l.at, {")"}) THEN Panic("syntax - missing )")
    ELSE Then(parseredirs(s, Past(s, l.at), <<>>), LAMBDA r : Parsed(Redirect(l.cmd, r.rs), r.at)))

(* the loop of parseexec() *)
Args(s, i, argv, rs) ==
  Once(gettoken(s, i), LAMBDA t :
    IF peek(s, i, {"|", ")", "&", ";"}) \/ t.tok = NUL THEN Parsed(Redirect(execcmd(argv), rs), t.word[1])
    ELSE IF t.tok # "a" THEN Panic("syntax")
    ELSE IF Len(argv) + 1 >= MAXARGS THEN Panic("too many args")
    ELSE Then(parseredirs(s, t.at, rs), LAMBDA r : Once(Append(argv, t.word), LAMBDA more : Args(s, r.at, more, r.rs))))

parseexec(s, i) ==
  IF peek(s, i, {"("}) THEN parseblock(s, i)
  ELSE Then(parseredirs(s, i, <<>>), LAMBDA r : Args(s, r.at, <<>>, r.rs))

parsecmd(s) ==
  Then(parseline(s, 1), LAMBDA r : IF Skip(s, r.at) # Len(s) + 1 THEN Panic("syntax") ELSE r)

(* nulterminate(): the words of a command, each of which gets its NUL *)
RECURSIVE Words(_)
Words(cmd) ==
  CASE cmd.type = "EXEC" -> ToSet(cmd.argv)
    [] cmd.type = "REDIR" -> Words(cmd.cmd) \cup {cmd.file}
    [] cmd.type \in {"PIPE", "LIST"} -> Words(cmd.left) \cup Words(cmd.right)
    [] cmd.type = "BACK" -> Words(cmd.cmd)

nulterminate(s, cmd) == [i \in DOMAIN s |-> IF \E w \in Words(cmd) : w[2] = i THEN NUL ELSE s[i]]

(* the string at q *)
Str(s, q) == SubSeq(s, q, Min({j \in q..(Len(s) + 1) : Ch(s, j) = NUL}) - 1)

-----------------------------------------------------------------------------
(* The grammar, as the set of all commands that a sequence of tokens can   *)
(* be read as:                                                             *)
(*   line ::= pipe &* [; line]      pipe ::= exec [| pipe]                 *)
(*   exec ::= ( line ) redir*  |  (word | redir)*                          *)
RECURSIVE LineOf(_), PipeOf(_), TokensOf(_, _)

TokensOf(s, i) ==
  LET t == gettoken(s, i)
  IN IF t.tok = NUL THEN <<>> ELSE << <<t.tok, t.word>> >> \o TokensOf(s, t.at)

Toks(ts) == {ts[i][1] : i \in DOMAIN ts}
Cut(ts, tok) == {i \in DOMAIN ts : ts[i][1] = tok}
Before(ts, i) == SubSeq(ts, 1, i - 1)
After(ts, i) == SubSeq(ts, i + 1, Len(ts))

(* words and redirections: every redirection sign is followed by its file *)
Signs == {"<", ">", "+"}
Flat(ts) == Toks(ts) \subseteq Signs \cup {"a"} /\ \A i \in DOMAIN ts : ts[i][1] \in Signs => i < Len(ts) /\ ts[i + 1][1] = "a"
FileAt(ts, i) == i > 1 /\ ts[i - 1][1] \in Signs
ArgsIn(ts) == LET is == SetToSortSeq({i \in Cut(ts, "a") : ~FileAt(ts, i)}, <) IN [j \in DOMAIN is |-> ts[is[j]][2]]
RedirsIn(ts) == LET is == SetToSortSeq({i \in Cut(ts, "a") : FileAt(ts, i)}, <) IN [j \in DOMAIN is |-> <<ts[is[j] - 1][1], ts[is[j]][2]>>]

ExecOf(ts) ==
  (IF Flat(ts) /\ Len(ArgsIn(ts)) < MAXARGS THEN {Redirect(execcmd(ArgsIn(ts)), RedirsIn(ts))} ELSE {})
  \cup UNION {{Redirect(c, RedirsIn(After(ts, i))) : c \in LineOf(SubSeq(ts, 2, i - 1))} :
              i \in {j \in Cut(ts, ")") : ts[1][1] = "(" /\ Flat(After(ts, j)) /\ ArgsIn(After(ts, j)) = <<>>}}

PipeOf(ts) ==
  ExecOf(ts) \cup UNION {{pipecmd(l, r) : l \in ExecOf(Before(ts, i)), r \in PipeOf(After(ts, i))} : i \in Cut(ts, "|")}

BackOf(ts) ==
  PipeOf(ts) \cup UNION {{FoldLeft(LAMBDA c, x : backcmd(c), b, After(ts, i - 1)) : b \in PipeOf(Before(ts, i))} :
                         i \in {j \in Cut(ts, "&") : Toks(After(ts, j)) \subseteq {"&"}}}

LineOf(ts) ==
  BackOf(ts) \cup UNION {{listcmd(l, r) : l \in BackOf(Before(ts, i)), r \in LineOf(After(ts, i))} : i \in Cut(ts, ";")}

(* The grammar gives a line one meaning or none; parsecmd() finds it, and  *)
(* panics when there is none.                                              *)
Exact(s) ==
  LET r == parsecmd(s)
      meanings == LineOf(TokensOf(s, 1))
  IN IF r.panic = "" THEN meanings = {r.cmd} ELSE meanings = {}

(* Every word of the command can still be read after nulterminate() has    *)
(* put the NULs.                                                           *)
Readable(s) ==
  LET r == parsecmd(s)
  IN r.panic = "" => \A w \in Words(r.cmd) : Str(nulterminate(s, r.cmd), w[1]) = SubSeq(s, w[1], w[2] - 1)
=============================================================================
