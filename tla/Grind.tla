-------------------------------- MODULE Grind --------------------------------
(***************************************************************************)
(* user/grind.c: two processes do whatever comes to their minds, on the    *)
(* same few files.  What they do next is free here; the loop, which is     *)
(* endless, is cut to Rounds rounds of choices from Whats.                 *)
(***************************************************************************)
EXTENDS UserCode

CONSTANTS PGSIZE, Rounds,
          Whats     \* for each of the two, the numbers it chooses from

Shut(fd) == Ignored(Close(fd))
Make(path, mode) == Into("t", Ignored(Open(Path(path), mode)))
Touch(path) == << Make(path, CREAT(RDWR)), Shut("t") >>
Rm(path) == Ignored(Unlink(Path(path)))
Ln(old, new) == Ignored(Link(Path(old), Path(new)))
Child(body) == Fork(body \o <<Exit(0)>>)
Reopen(path) ==
  << Shut("fd"), Into("fd", Ignored(Open(Path(path), CREAT(RDWR)))) >>
BUFSZ == [j \in 1 .. 2 |-> "x"]

(* echo hi | cat, with the output read by the parent. *)
Pipeline ==
  LET Std(fd, end) == << Shut(fd), Returns(atoi(fd), Dup(end)), Shut(end) >>
  IN << Pipe("aa0", "aa1"), Pipe("bb0", "bb1"),
        Fork(<< Shut("bb0"), Shut("bb1"), Shut("aa0") >> \o Std("1", "aa1") \o
             << Ignored(Exec(Path("grindir/../echo"), <<"echo", "hi">>)),
                Exit(2) >>),
        Fork(<< Shut("aa1"), Shut("bb0") >> \o Std("0", "aa0") \o
             Std("1", "bb1") \o
             << Ignored(Exec(Path("/cat"), <<"cat">>)), Exit(6) >>),
        Shut("aa0"), Shut("aa1"), Shut("bb1"),
        ReadSees("bb0", 1, <<"hi">>), ReadSees("bb0", 1, <<"\n">>),
        Returns(0, Read("bb0", 1)), Shut("bb0"), WaitFor({0}), WaitFor({0}) >>

What(n) ==
  CASE n = 1 -> Touch("grindir/../a")
    [] n = 2 -> Touch("grindir/../grindir/../b")
    [] n = 3 -> << Rm("grindir/../a") >>
    [] n = 4 -> << Chdir(Path("grindir")), Rm("../b"),
                   Ignored(Chdir(Path("/"))) >>
    [] n = 5 -> Reopen("/grindir/../a")
    [] n = 6 -> Reopen("/./grindir/./../b")
    [] n = 7 -> << Ignored(Write("fd", BUFSZ)) >>
    [] n = 8 -> << Ignored(Read("fd", 2)) >>
    [] n = 9 -> << Ignored(Mkdir(Path("grindir/../a"))) >>
                \o Touch("a/../a/./a") \o << Rm("a/a") >>
    [] n = 10 -> << Ignored(Mkdir(Path("/../b"))) >> \o Touch("grindir/../b/b")
                 \o << Rm("b/b") >>
    [] n = 11 -> << Rm("b"), Ln("../grindir/./../a", "../b") >>
    [] n = 12 -> << Rm("../grindir/../a"), Ln(".././b", "/grindir/../a") >>
    [] n = 13 -> << Child(<<>>), Ignored(Wait) >>
    [] n = 14 -> << Child(<<Ignored(Child(<<>>)), Ignored(Child(<<>>))>>),
                    Ignored(Wait) >>
    [] n = 15 -> << Ignored(Sbrk(PGSIZE + 1)) >>
    [] n = 16 -> << Ignored(SbrkTo(At("break0", 0))) >>
    [] n = 17 -> << Into("pid", Child(Touch("a"))),
                    Chdir(Path("../grindir/..")),
                    Ignored(Kill("pid")), Ignored(Wait) >>
    [] n = 18 -> << Child(<<Into("me", Getpid), Ignored(Kill("me"))>>),
                    Ignored(Wait) >>
    [] n = 19 -> << Pipe("p0", "p1"),
                    Child(<< Ignored(Child(<<Ignored(Write("p1", <<"x">>)),
                                             Ignored(Read("p0", 1))>>)),
                             Ignored(Write("p1", <<"x">>)),
                             Ignored(Read("p0", 1)) >>),
                    Shut("p0"), Shut("p1"), Ignored(Wait) >>
    [] n = 20 -> << Child(<<Rm("a"), Ignored(Mkdir(Path("a"))),
                            Ignored(Chdir(Path("a"))), Rm("../a"),
                            Make("x", CREAT(RDWR)), Rm("x")>>), Ignored(Wait) >>
    [] n = 21 -> << Rm("c"), Into("fd1", Open(Path("c"), CREAT(RDWR))),
                    Write("fd1", <<"x">>), Fstat("fd1", "file"), Shut("fd1"),
                    Rm("c") >>
    [] n = 22 -> Pipeline

go(which) ==
  << Into("fd", Ignored(Close("20"))), Into("break0", Sbrk(0)),
     Ignored(Mkdir(Path("grindir"))), Chdir(Path("grindir")),
     Ignored(Chdir(Path("/"))) >> \o
  Times(Rounds, <<Either({What(n) : n \in Whats[which]})>>) \o << Exit(0) >>

iter ==
  << Rm("a"), Rm("b"), Into("go1", Fork(go(1))), Into("go2", Fork(go(2))),
     If(WaitFor({0}), <<>>, <<Ignored(Kill("go1")), Ignored(Kill("go2"))>>),
     Ignored(Wait), Exit(0) >>

main == << If(Fork(iter), <<Ignored(Wait)>>, <<>>), Pause, Exit(0) >>
=============================================================================
