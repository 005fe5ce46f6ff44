------------------------------- MODULE MCUnix -------------------------------
EXTENDS Unix

CONSTANTS KERNBASE, FILLS, Rounds, Tests, Grinds1, Grinds2

T == INSTANCE Usertests
S == INSTANCE Programs
G == INSTANCE Grind WITH Whats <- <<Grinds1, Grinds2>>
(* A program at the end of user memory: it takes m units of memory at once *)
(* and the rest up to two pages below its trapframe lazily; then it grows  *)
(* and shrinks, touches, forks, writes and executes in any order, below,   *)
(* in and above the pages of the kernel.                                   *)
Base == MAXVA * PGSIZE - 12
Places == {Abs(Base + 1), Abs(Base + 7), Abs(Base + 13)}
Child == <<Either({<<>>, <<Ignored(SbrkLazy(2))>>, <<Ignored(SbrkLazy(15))>>}),
           Either({<<>>, <<Store(Abs(Base + 1))>>, <<Ignored(Exec(<<"/echo">>, <<>>))>>}),
           Exit(0)>>
Moves ==
  {<<Ignored(SbrkLazy(n))>> : n \in {2, 8, 15}} \cup
  {<<Ignored(Sbrk(n))>> : n \in {-14, -5, 2, 15}} \cup
  {<<Ignored(From(a, WriteBack("f")))>> : a \in Places} \cup
  {<<Ignored(Pipe("r", "w")), Ignored(From(a, WriteBack("w"))),
     Ignored(Close("r")), Ignored(Close("w"))>> : a \in Places} \cup
  {<<Load(a)>> : a \in Places} \cup
  {<<Ignored(Fork(Child)), Ignored(Wait)>>, <<Ignored(Exec(<<"/echo">>, <<"HIGH">>))>>}
Grow ==
  <<Into("f", Open(<<"README">>, RDWR)), Ignored(Read("f", 3)),
    Either({<<Ignored(Sbrk(m)), Ignored(SbrkLazy(Base - ImagePages * PGSIZE - m))>> :
              m \in {0, 12, 21}}),
    Either(Moves), Either(Moves), Either(Moves), Exit(0)>>

MCProgram(name, argv) == CASE name = "usertests" -> T!main(argv)
                           [] name = "grind" -> G!main
                           [] name = "grow" -> Grow
                           [] OTHER -> S!Main(name, argv)
MCResume(then, units, var) == S!Then(then, units, var)

(* Enough memory for all processes; fewer forkers keep forkforkfork small. *)
Pages(t) == IF t = "forkforkfork" THEN 52 ELSE 72
Line(l, files) == [lines |-> l, files |-> files, pages |-> 72]
ShellScripts ==
  { Line(<<<<"echo", "a", "b", "|", "cat">>, <<"cat", "README", "|", "wc">>>>,
         <<"echo", "cat", "wc">>),
    Line(<<<<"(", "echo", "x", ">", "f", ";", "cat", "<", "f", ")", "&">>,
           <<"ls">>>>, <<"echo", "cat", "ls">>),
    Line(<<<<"mkdir", "a">>, <<"cd", "a">>, <<"/echo", "y", ">>", "g">>,
           <<"/ln", "g", "h">>, <<"cd", "..">>, <<"rm", "a/g", "a/h", "a">>>>,
         <<"mkdir", "echo", "ln", "rm">>),
    Line(<<<<"cat", "README", "|", "xargs", "echo">>,
           <<"xargs", "-n", "1", "echo", "<", "README">>>>,
         <<"cat", "xargs", "echo">>),
    Line(<<<<"zombie">>, <<>>, <<"sleep", "1">>, <<"exec", "echo", "hi">>,
           <<"grep", "me", "README">>>>,
         <<"zombie", "sleep", "exec", "echo", "grep">>),
    Line(<<<<"forphan", "&">>, <<"kill", "4">>, <<"ls", ".">>>>,
         <<"forphan", "kill", "ls">>),
    Line(<<<<"dorphan", "&">>, <<"mkdir", "dd", "ee">>, <<"kill", "4">>,
           <<"rm", "ee", "dd">>>>,
         <<"dorphan", "kill", "mkdir", "rm">>),
    Line(<<<<"logstress", "f", "g">>, <<"rm", "f", "g">>>>,
         <<"logstress", "rm">>),
    Line(<<<<"stressfs">>>>, <<"stressfs">>),
    Line(<<<<"forktest">>>>, <<"forktest">>),
    Line(<<<<"nosuch">>, <<"echo", ">">>, <<"(", "echo">>, <<";">>, <<"&">>,
           <<"cat", "nosuch">>, <<"echo", "|">>>>, <<"echo", "cat">>) }
MCScripts ==
  {[lines |-> <<<<"usertests", t>>>>, pages |-> Pages(t),
    files |-> <<"usertests", "echo">>] : t \in Tests}
  \cup {[lines |-> <<<<"grind">>>>, pages |-> 100,
         files |-> <<"grind", "echo", "cat">>]}
  \cup {[lines |-> <<<<"grow">>>>, pages |-> n, files |-> <<"grow", "echo">>] :
           n \in {34, 72}}
  \cup ShellScripts
=============================================================================
