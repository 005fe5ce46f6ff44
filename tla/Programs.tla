------------------------------ MODULE Programs ------------------------------
(***************************************************************************)
(* The programs of user/ besides the tests: init, the shell with its       *)
(* parser, and the commands.  A line of input is a sequence of tokens; a   *)
(* word of text is one unit, and so are the blanks between words.          *)
(***************************************************************************)
EXTENDS UserCode

CONSTANTS MAXARG, PGSIZE

CONSOLE == 1
U(n) == [j \in 1 .. n |-> "x"]
Shut(fd) == Ignored(Close(fd))
Ok == <<Exit(0)>>
Say(units) == Ignored(Write("1", units))
console == <<"console">>

-----------------------------------------------------------------------------
(* init.c *)

init ==
  << If(Open(console, RDWR), <<>>,
        <<Ignored(Mknod(console, CONSOLE)), Ignored(Open(console, RDWR))>>),
     Ignored(Dup("0")), Ignored(Dup("0")), Continue([prog |-> "restart"]) >>
(* A new shell when the shell has exited; orphans are waited for as well. *)
restart == << Into("pid", Fork(<<Ignored(Exec(<<"sh">>, <<"sh">>)), Exit(1)>>)),
              Continue([prog |-> "reap"]) >>
reap == << Into("wpid", Wait), Continue([prog |-> "reaped"]) >>
reaped(var) == IF var.wpid = var.pid THEN restart ELSE reap

-----------------------------------------------------------------------------
(* sh.c: the parser.  What is parsed is a command and the tokens left over; *)
(* a syntax error is a command of type "panic", which spoils all it is in.  *)

MAXARGS == 10
symbols == {"<", "|", ">", ">>", "&", ";", "(", ")"}
execcmd(argv) == [type |-> "EXEC", argv |-> argv]
redircmd(cmd, file, mode, fd) ==
  [type |-> "REDIR", cmd |-> cmd, file |-> file, mode |-> mode, fd |-> fd]
pipecmd(left, right) == [type |-> "PIPE", left |-> left, right |-> right]
listcmd(left, right) == [type |-> "LIST", left |-> left, right |-> right]
backcmd(cmd) == [type |-> "BACK", cmd |-> cmd]
panic == [type |-> "panic"]
Parsed(cmd, s) == [cmd |-> cmd, s |-> s]
peek(s, toks) == s # <<>> /\ Head(s) \in toks
Mode(tok) == CASE tok = "<" -> RDONLY
               [] tok = ">" -> CREAT(WRONLY \cup TRUNC)
               [] tok = ">>" -> CREAT(WRONLY)

(* The redirections at the head of s, as a list. *)
RECURSIVE parseredirs(_)
parseredirs(s) ==
  LET rest == parseredirs(Tail(Tail(s)))
  IN IF ~peek(s, {"<", ">", ">>"}) THEN [redirs |-> <<>>, s |-> s, ok |-> TRUE]
     ELSE IF Len(s) < 2 \/ s[2] \in symbols
     THEN [redirs |-> <<>>, s |-> s, ok |-> FALSE]
     ELSE [rest EXCEPT !.redirs = <<<<s[1], s[2]>>>> \o @]
(* The first of them is the innermost command. *)
Redirect(cmd, redirs) ==
  LET Add(c, r) ==
        redircmd(c, r[2], Mode(r[1]), IF r[1] = "<" THEN "0" ELSE "1")
  IN FoldLeft(Add, cmd, redirs)

RECURSIVE parsewords(_, _, _)
parsewords(s, argv, redirs) ==
  LET r == parseredirs(s)
      all == redirs \o r.redirs
  IN IF ~r.ok THEN Parsed(panic, s)
     ELSE IF r.s = <<>> \/ peek(r.s, {"|", ")", "&", ";"})
     THEN Parsed(Redirect(execcmd(argv), all), r.s)
     ELSE IF Head(r.s) \in symbols \/ Len(argv) + 1 >= MAXARGS
     THEN Parsed(panic, r.s)
     ELSE parsewords(Tail(r.s), Append(argv, Head(r.s)), all)

RECURSIVE parseline(_), parsepipe(_), Backs(_)
parseblock(s) ==
  LET line == parseline(Tail(s))
      r == parseredirs(Tail(line.s))
  IN IF ~peek(line.s, {")"}) \/ ~r.ok THEN Parsed(panic, line.s)
     ELSE Parsed(Redirect(line.cmd, r.redirs), r.s)
parseexec(s) ==
  IF peek(s, {"("}) THEN parseblock(s) ELSE parsewords(s, <<>>, <<>>)
parsepipe(s) ==
  LET left == parseexec(s)
      right == parsepipe(Tail(left.s))
  IN IF ~peek(left.s, {"|"}) THEN left
     ELSE Parsed(pipecmd(left.cmd, right.cmd), right.s)
Backs(c) == IF ~peek(c.s, {"&"}) THEN c
            ELSE Backs(Parsed(backcmd(c.cmd), Tail(c.s)))
parseline(s) ==
  LET left == Backs(parsepipe(s))
      right == parseline(Tail(left.s))
  IN IF ~peek(left.s, {";"}) THEN left
     ELSE Parsed(listcmd(left.cmd, right.cmd), right.s)

RECURSIVE Broken(_)
Broken(c) == CASE c.type = "panic" -> TRUE
               [] c.type = "EXEC" -> FALSE
               [] c.type \in {"REDIR", "BACK"} -> Broken(c.cmd)
               [] OTHER -> Broken(c.left) \/ Broken(c.right)
parsecmd(s) ==
  LET line == parseline(s)
  IN IF line.s # <<>> \/ Broken(line.cmd) THEN panic ELSE line.cmd

-----------------------------------------------------------------------------
(* sh.c: running a command, and reading lines. *)

fork1(code) == Fork(code)      \* panic(), which is exit(1), when it fails

RECURSIVE runcmd(_)
runcmd(c) ==
  LET End(old, close, side) ==
        << Shut(old), Ignored(Dup(side)), Shut("p0"), Shut("p1") >>
  IN CASE c.type = "panic" -> <<Exit(1)>>
       [] c.type = "EXEC" ->
            IF c.argv = <<>> THEN <<Exit(1)>>
            ELSE <<Ignored(Exec(Path(Head(c.argv)), c.argv)), Exit(0)>>
       [] c.type = "REDIR" ->
            << Shut(c.fd), Open(Path(c.file), c.mode) >> \o runcmd(c.cmd)
       [] c.type = "LIST" ->
            << fork1(runcmd(c.left)), Ignored(Wait) >> \o runcmd(c.right)
       [] c.type = "PIPE" ->
            << Pipe("p0", "p1"),
               fork1(End("1", "p0", "p1") \o runcmd(c.left)),
               fork1(End("0", "p1", "p0") \o runcmd(c.right)),
               Shut("p0"), Shut("p1"), Ignored(Wait), Ignored(Wait), Exit(0) >>
       [] c.type = "BACK" -> << fork1(runcmd(c.cmd)), Exit(0) >>

getcmd == << [Read("0", 1) EXCEPT !.want = {1}, !.no = Ok],
             Continue([prog |-> "sh"]) >>
sh == << While([Into("fd", Open(console, RDWR)) EXCEPT !.want = 0 .. 2], <<>>),
         Shut("fd") >> \o getcmd
(* The child needs memory to parse in, and faults when there is none. *)
ShellLine(cmd) ==
  LET malloc == If(Sbrk(PGSIZE), <<>>, <<Store(Abs(0))>>)
  IN CASE cmd = <<>> -> getcmd
       [] cmd # <<>> /\ Head(cmd) = "cd" ->
            << Ignored(Chdir(Path(cmd[2]))) >> \o getcmd
       [] OTHER -> << fork1(<<malloc>> \o runcmd(parsecmd(cmd))),
                      Ignored(Wait) >> \o getcmd

-----------------------------------------------------------------------------
(* The commands. *)

Args(argv) == Tail(argv)
Usage(argv, n) == IF Len(argv) < n THEN <<Exit(1)>> ELSE <<>>
(* For each file named, or else for standard input. *)
EachFile(argv, Body(_)) ==
  IF Len(argv) <= 1 THEN Body("0") \o Ok
  ELSE For(Args(argv), LAMBDA name :
             <<Into("fd", Open(Path(name), RDONLY))>> \o Body("fd")
             \o <<Shut("fd")>>) \o Ok
CatFd(fd) == << Loop(Into("n", Read(fd, 2)), <<WriteBack("1")>>),
                AtLeast(At("n", 0), Abs(0)) >>
cat(argv) == EachFile(argv, CatFd)
WcFd(fd) == << Loop(Into("n", Read(fd, 2)), <<>>), AtLeast(At("n", 0), Abs(0)),
               Say(<<"count">>) >>
wc(argv) == EachFile(argv, WcFd)
echo(argv) ==
  For([j \in 1 .. Len(argv) - 1 |-> j + 1], LAMBDA j :
    <<Say(<<argv[j]>>), Say(<<IF j < Len(argv) THEN " " ELSE "\n">>)>>) \o Ok

(* The rest is left when one fails, and that is no failure. *)
Until(names, Call(_)) ==
  FoldRight(LAMBDA name, rest : <<If(Call(Path(name)), rest, Ok)>>, names, Ok)
rm(argv) == Usage(argv, 2) \o Until(Args(argv), Unlink)
mkdir(argv) == Usage(argv, 2) \o Until(Args(argv), Mkdir)
ln(argv) == (IF Len(argv) # 3 THEN <<Exit(1)>>
             ELSE <<Ignored(Link(Path(argv[2]), Path(argv[3])))>>) \o Ok
kill(argv) ==
  Usage(argv, 2) \o For(Args(argv), LAMBDA v : <<Ignored(Kill(v))>>) \o Ok

Look(path) ==
  << If(Into("fd", Open(path, RDONLY)),
        << If(Into("t", Fstat("fd", "dir")),
              << Loop(Read("fd", 1),
                      <<Continue([prog |-> "ls", dir |-> path])>>) >>,
              <<>>), Shut("fd") >>, <<>>) >>
(* stat(): a file that is gone by now is not listed. *)
LsEntry(dir, entry) ==
  IF entry[2] = 0 THEN <<>>
  ELSE << If(Into("st", Open(Append(dir, entry[1]), RDONLY)),
             <<Ignored(Fstat("st", "")), Shut("st")>>, <<>>) >>
ls(argv) == (IF Len(argv) < 2 THEN Look(<<".">>)
             ELSE For(Args(argv), LAMBDA name : Look(Path(name)))) \o Ok

(* The lines, here words, that match; match() compares the word. *)
GrepFd(pattern, fd) ==
  << Loop(Read(fd, 2), <<Continue([prog |-> "grep", pattern |-> pattern])>>) >>
Matching(pattern, units) ==
  For(SelectSeq(units, LAMBDA u : u = pattern), LAMBDA u : <<Say(<<u>>)>>)
grep(argv) ==
  Usage(argv, 2) \o EachFile(Tail(argv), LAMBDA fd : GrepFd(argv[2], fd))

(* Words from standard input become arguments, as many as fit, or one at a *)
(* time with -n.  cur holds the arguments so far, word one not ended yet.   *)
XargsRun(cur) ==
  << If(Fork(<<Ignored(Exec(Path(Head(cur)), cur)), Exit(1)>>),
        <<Ignored(Wait)>>, <<Ignored(Wait)>>) >>
XargsMore(x) == << Ignored(Into("n", Read("0", 1))), Continue(x) >>
xargs(argv) ==
  LET one == Len(argv) > 3 /\ argv[2] = "-n"
      fixed == SubSeq(argv, IF one THEN 4 ELSE 2, Len(argv))
  IN Usage(argv, 2) \o
     XargsMore([prog |-> "xargs", one |-> one, fixed |-> fixed, cur |-> fixed,
                word |-> ""])
XargsGot(x, units, n) ==
  LET more == IF x.word = "" THEN x.cur ELSE Append(x.cur, x.word)
      next == [x EXCEPT !.word = "", !.cur = more]
  IN IF n <= 0
     THEN (IF Len(more) > Len(x.fixed) THEN XargsRun(more) ELSE <<>>) \o Ok
     ELSE IF units[1] \notin {" ", "\n"}
     THEN XargsMore([x EXCEPT !.word = @ \o units[1]])
     ELSE IF x.word # "" /\ (x.one \/ Len(more) >= MAXARG - 1)
     THEN XargsRun(more) \o XargsMore([next EXCEPT !.cur = x.fixed])
     ELSE XargsMore(next)

exec(argv) ==
  Usage(argv, 2) \o
  << Fork(<<Ignored(Exec(Path(argv[2]), Args(argv))), Exit(1)>>),
     Ignored(Wait) >> \o Ok
sleep(argv) == (IF Len(argv) # 2 THEN <<Exit(1)>> ELSE <<Pause>>) \o Ok
zombie == << If(Fork(Ok), <<Pause>>, <<>>) >> \o Ok

(* A file, and a directory, in use without a name. *)
forphan ==
  << Into("fd", Open(<<"file0">>, CREAT(WRONLY))), Fstat("fd", ""),
     Unlink(<<"file0">>), Fails(Open(<<"file0">>, RDONLY)), Forever(Pause) >>
dorphan ==
  << Mkdir(<<"dd">>), Chdir(<<"dd">>), Unlink(<<"..", "dd">>), Forever(Pause) >>

(* Several processes write files that are larger than a transaction. *)
logstress(argv) ==
  For(Args(argv), LAMBDA name :
    << Fork(<<Into("fd", Open(Path(name), CREAT(RDWR))), Write("fd", U(6)),
              Exit(0)>>) >>) \o
  For(Args(argv), LAMBDA name : <<WaitFor({0})>>) \o Ok

(* A chain of children, each with a file of its own. *)
stressfs ==
  LET path(i) == <<"stressfs" \o ToString(i)>>
      body(i) ==
        << Into("fd", Ignored(Open(path(i), CREAT(RDWR)))),
           Ignored(Write("fd", U(2))), Ignored(Write("fd", U(2))), Shut("fd"),
           Into("fd", Ignored(Open(path(i), RDONLY))),
           Ignored(Read("fd", 2)), Ignored(Read("fd", 2)), Shut("fd"),
           Ignored(Wait) >> \o Ok
      chain[i \in 0 .. 2] ==
        IF i = 2 THEN body(2)
        ELSE << If(Fork(chain[i + 1]), body(i), chain[i + 1]) >>
  IN chain[0]

(* fork() until there is no room, as many children as that, and no more. *)
forks[n \in 0 .. 20] ==
  IF n = 0 THEN <<Exit(1)>>
  ELSE <<If(Fork(Ok), forks[n - 1] \o <<Wait>>, <<>>)>>
forktest == forks[20] \o << Fails(Wait) >> \o Ok

-----------------------------------------------------------------------------
(* main() of a program, and how one goes on after Continue(then). *)
Main(name, argv) ==
  CASE name = "init" -> init [] name = "sh" -> sh [] name = "cat" -> cat(argv)
    [] name = "wc" -> wc(argv) [] name = "echo" -> echo(argv)
    [] name = "rm" -> rm(argv) [] name = "mkdir" -> mkdir(argv)
    [] name = "ln" -> ln(argv) [] name = "kill" -> kill(argv)
    [] name = "ls" -> ls(argv) [] name = "grep" -> grep(argv)
    [] name = "xargs" -> xargs(argv) [] name = "exec" -> exec(argv)
    [] name = "sleep" -> sleep(argv) [] name = "zombie" -> zombie
    [] name = "forphan" -> forphan [] name = "dorphan" -> dorphan
    [] name = "logstress" -> logstress(argv) [] name = "stressfs" -> stressfs
    [] name = "forktest" -> forktest
Then(x, units, var) ==
  CASE x.prog = "restart" -> restart [] x.prog = "reap" -> reap
    [] x.prog = "reaped" -> reaped(var) [] x.prog = "sh" -> ShellLine(units[1])
    [] x.prog = "ls" -> LsEntry(x.dir, units[1])
    [] x.prog = "grep" -> Matching(x.pattern, units)
    [] x.prog = "xargs" -> XargsGot(x, units, var.n)
=============================================================================
