------------------------------ MODULE Usertests ------------------------------
(***************************************************************************)
(* user/usertests.c, test by test: which calls a test makes, in which      *)
(* processes, and what it expects of each.  Data is scaled with the file   *)
(* system (a block is two units, a file four blocks) and a loop that does  *)
(* the same again is cut to the one to three rounds that differ; a test's  *)
(* own arithmetic and its messages are left out.                           *)
(***************************************************************************)
EXTENDS UserCode

CONSTANTS KERNBASE, TRAPFRAME, MAXVA,   \* pages
          NPROC, NINODE, NINODES, MAXFILE, MAXARG, BSIZE, PGSIZE,
          FILLS         \* more files, of a block each, than fit on the disk

P(name) == <<name>>
In(dir, name) == <<dir, name>>
Root == <<"/">>
U(n) == [j \in 1 .. n |-> "x"]
Str(n) == ToString(n)
Rm(path) == Ignored(Unlink(path))
Shut(fd) == Ignored(Close(fd))
AtMost0(i) == [i EXCEPT !.want = {-1, 0}]
Ok == <<Exit(0)>>
(* Addresses that are no user's: the kernel's memory, the two pages at the *)
(* top of user space, and beyond.                                          *)
BadAddrs == [j \in 1 .. 5 |-> Abs(PGSIZE * <<KERNBASE, TRAPFRAME, TRAPFRAME + 1,
                                             MAXVA, MAXVA + 8>>[j])]
Child(body) == Fork(body \o Ok)
(* wait(&xstatus); exit(xstatus) *)
ExitAsChild == <<WaitFor({0}), Exit(0)>>

copyin ==
  For(BadAddrs, LAMBDA a :
    << Into("fd", Open(P("copyin1"), CREAT(WRONLY))),
       Fails(From(a, Write("fd", U(4)))), Shut("fd"), Rm(P("copyin1")),
       AtMost0(From(a, Write("1", U(4)))),
       Pipe("r", "w"), AtMost0(From(a, Write("w", U(4)))),
       Shut("r"), Shut("w") >>)

copyout ==
  For(<<Abs(0)>> \o BadAddrs, LAMBDA a :
    << Into("fd", Open(P("README"), RDONLY)),
       AtMost0(From(a, Read("fd", 4))), Shut("fd"),
       Pipe("r", "w"), Write("w", U(1)),
       AtMost0(From(a, Read("r", 4))), Shut("r"), Shut("w") >>)

copyinstr1 ==
  For(BadAddrs, LAMBDA a : <<Fails(From(a, Open(P("f"), CREAT(WRONLY))))>>)

(* No string may be as long as the buffer it is copied into. *)
Long == P("xxxxxxxxxxxxxxxxxxxxxxxx")
LongNames == << Fails(Unlink(Long)), Fails(Open(Long, CREAT(WRONLY))),
                Fails(Link(Long, Long)), Fails(Exec(Long, <<"xx">>)) >>
copyinstr2 ==
  LongNames \o
  << Fork(<<Fails(Exec(P("echo"), <<"BIG", "BIG", "BIG">>)), Exit(747)>>),
     WaitFor({747}) >>

(* A string that runs over the end of the process. *)
copyinstr3 ==
  LET Edge(i) == Fails(From(At("top", 0), i))
  IN << Sbrk(PGSIZE), Into("top", Sbrk(0)), Store(At("top", -1)),
        Edge(Unlink(P("x"))), Edge(Open(P("x"), CREAT(WRONLY))),
        Edge(Link(P("x"), P("x"))), Edge(Exec(P("x"), <<"xx">>)) >>

rwsbrk ==
  << Into("a", Sbrk(4)), Sbrk(-4),
     Into("fd", Open(P("rwsbrk"), CREAT(WRONLY))),
     Fails(From(At("a", PGSIZE), Write("fd", U(1)))),
     Shut("fd"), Rm(P("rwsbrk")),
     Into("fd", Open(P("README"), RDONLY)),
     Fails(From(At("a", PGSIZE), Read("fd", 1))), Shut("fd"), Exit(0) >>

truncfile == P("truncfile")

truncate1 ==
  << Rm(truncfile), Into("fd1", Open(truncfile, CREAT(WRONLY \cup TRUNC))),
     Write("fd1", U(4)), Shut("fd1"),
     Into("fd2", Open(truncfile, RDONLY)), Returns(4, Read("fd2", 8)),
     Into("fd1", Open(truncfile, WRONLY \cup TRUNC)),
     Into("fd3", Open(truncfile, RDONLY)), Returns(0, Read("fd3", 8)),
     Returns(0, Read("fd2", 8)), Write("fd1", U(6)),
     Returns(6, Read("fd3", 8)), Returns(2, Read("fd2", 8)),
     Rm(truncfile), Shut("fd1"), Shut("fd2"), Shut("fd3") >>

(* The file is cut behind the back of a writer: its offset is beyond the end. *)
truncate2 ==
  << Rm(truncfile), Into("fd1", Open(truncfile, CREAT(WRONLY \cup TRUNC))),
     Write("fd1", U(4)), Into("fd2", Open(truncfile, WRONLY \cup TRUNC)),
     Fails(Write("fd1", U(1))), Rm(truncfile), Shut("fd1"), Shut("fd2") >>

truncate3 ==
  << Into("fd", Open(truncfile, CREAT(WRONLY \cup TRUNC))), Shut("fd"),
     Child(Times(2,
       << Into("fd", Open(truncfile, WRONLY)), Write("fd", U(3)), Shut("fd"),
          Into("fd", Open(truncfile, RDONLY)), Ignored(Read("fd", 8)),
          Shut("fd") >>)) >> \o
  Times(2, << Into("fd", Open(truncfile, CREAT(WRONLY \cup TRUNC))),
              Write("fd", U(1)), Shut("fd") >>) \o
  << WaitFor({0}), Rm(truncfile), Exit(0) >>

(* The last reference to a directory without a name is a current directory. *)
Orphan == << Mkdir(P("iputdir")), Chdir(P("iputdir")),
             Unlink(In("..", "iputdir")) >>
iputtest == Orphan \o <<Chdir(Root)>>
exitiputtest == <<Child(Orphan)>> \o ExitAsChild
openiputtest ==
  << Mkdir(P("oidir")), Child(<<Fails(Open(P("oidir"), RDWR))>>), Pause,
     Returns(0, Unlink(P("oidir"))) >> \o ExitAsChild

opentest ==
  << Into("fd", Open(P("echo"), RDONLY)), Shut("fd"),
     Fails(Open(P("doesnotexist"), RDONLY)) >>

writetest ==
  << Into("fd", Open(P("small"), CREAT(RDWR))) >> \o
  Times(2, <<Write("fd", <<"a">>), Write("fd", <<"b">>)>>) \o
  << Shut("fd"), Into("fd", Open(P("small"), RDONLY)),
     ReadSees("fd", 4, <<"a", "b", "a", "b">>), Shut("fd"),
     Unlink(P("small")) >>

(* A file of MAXFILE blocks, each with its number. *)
writebig ==
  LET block(n) == [j \in 1 .. BSIZE |-> Str(n)]
  IN << Into("fd", Open(P("big"), CREAT(RDWR))) >> \o
     For(Seq1(MAXFILE), LAMBDA n : <<Write("fd", block(n))>>) \o
     << Shut("fd"), Into("fd", Open(P("big"), RDONLY)) >> \o
     For(Seq1(MAXFILE), LAMBDA n : <<ReadSees("fd", BSIZE, block(n))>>) \o
     << Returns(0, Read("fd", BSIZE)), Shut("fd"), Unlink(P("big")) >>

createtest ==
  LET names == <<"a0", "a1", "a2">>
  IN For(names, LAMBDA n : <<Into("fd", Open(P(n), CREAT(RDWR))), Shut("fd")>>)
     \o For(names, LAMBDA n : <<Rm(P(n))>>)

dirtest == << Mkdir(P("dir0")), Chdir(P("dir0")), Chdir(P("..")),
              Unlink(P("dir0")) >>

exectest ==
  << Rm(P("echo-ok")),
     Fork(<< Shut("1"), Returns(1, Open(P("echo-ok"), CREAT(WRONLY))),
             Exec(P("echo"), <<"echo", "OK">>) >>),
     WaitFor({0}), Into("fd", Open(P("echo-ok"), RDONLY)),
     ReadSees("fd", 1, <<"OK">>), Rm(P("echo-ok")), Exit(0) >>

(* The bytes arrive in order; reads are of one unit. *)
pipe1 ==
  << Pipe("r", "w"),
     Child(<<Shut("r"), Write("w", <<"1", "2", "3", "4">>),
             Write("w", <<"5", "6", "7", "8">>)>>), Shut("w") >> \o
  For(Seq1(8), LAMBDA n : <<ReadSees("r", 1, <<Str(n)>>)>>) \o
  << Returns(0, Read("r", 1)), Shut("r") >> \o ExitAsChild

killstatus ==
  << Into("pid", Fork(<<Forever(Getpid)>>)), Pause, Ignored(Kill("pid")),
     WaitFor({-1}), Exit(0) >>

preempt ==
  << Into("pid1", Fork(<<Forever(Pause)>>)),
     Into("pid2", Fork(<<Forever(Pause)>>)), Pipe("r", "w"),
     Into("pid3", Fork(<<Shut("r"), Write("w", U(1)), Shut("w"),
                         Forever(Pause)>>)),
     Shut("w"), Returns(1, Read("r", 2)), Shut("r"),
     Ignored(Kill("pid1")), Ignored(Kill("pid2")), Ignored(Kill("pid3")),
     Wait, Wait, Wait >>

exitwait == For(<<0, 2, 5>>, LAMBDA i : <<Fork(<<Exit(i)>>), WaitFor({i})>>)

reparent ==
  << Into("master", Getpid) >> \o
  Times(2, << Fork(<<If(Child(<<>>), Ok, <<Kill("master"), Exit(1)>>)>>),
              Wait >>) \o Ok

twochildren == Times(2, <<Child(<<>>), Child(<<>>), Wait, Wait>>)

forkfork ==
  Times(2, <<Child(Times(2, <<Child(<<>>), Wait>>))>>) \o
  Times(2, <<WaitFor({0})>>)

(* Every process forks until one fork fails; the flag file ends them all.   *)
stopforking == P("stopforking")
RaiseFlag == << Into("fd", Ignored(Open(stopforking, CREAT(RDWR)))),
                Shut("fd") >>
forker[n \in 0 .. NPROC] ==
  << While(Fails(Open(stopforking, RDONLY)),
           <<If(Fork(IF n = 0 THEN Ok ELSE forker[n - 1]), <<>>,
                RaiseFlag)>>) >> \o Ok
forkforkfork ==
  << Rm(stopforking), Fork(forker[NPROC]), Pause >> \o RaiseFlag
  \o << Wait, Pause >>

reparent2 ==
  Times(2, << Child(<<Ignored(Child(<<>>)), Ignored(Child(<<>>))>>), Wait >>)
  \o Ok

(* All memory, through malloc(). *)
mem ==
  << Child(<<Into("m", Sbrk(0)),
             While(Into("m", Sbrk(2)), <<Store(At("m", 0))>>)>>),
     WaitFor({0, -1}), Exit(0) >>

(* The offset is shared: nobody overwrites what the other wrote. *)
sharedfd ==
  LET all == Times(2, <<Write("fd", U(2))>>)
      f == P("sharedfd")
  IN << Rm(f), Into("fd", Open(f, CREAT(RDWR))), Fork(all \o Ok) >> \o all \o
     << WaitFor({0}), Shut("fd"), Into("fd", Open(f, RDONLY)),
        Returns(8, Read("fd", 8)), Returns(0, Read("fd", 1)), Shut("fd"),
        Rm(f), Exit(0) >>

fourfiles ==
  LET names == <<"f0", "f1">>
      block(n) == <<n, n, n>>
  IN For(names, LAMBDA n :
       << Rm(P(n)), Child(<<Into("fd", Open(P(n), CREAT(RDWR)))>> \o
                          Times(2, <<Write("fd", block(n))>>)) >>) \o
     For(names, LAMBDA n : <<WaitFor({0})>>) \o
     For(names, LAMBDA n :
       << Into("fd", Open(P(n), RDONLY)),
          ReadSees("fd", 8, block(n) \o block(n)), Shut("fd"), Rm(P(n)) >>)

createdelete ==
  LET name(c, i) == P(c \o Str(i))
      New(c, i) == << Into("fd", Open(name(c, i), CREAT(RDWR))), Shut("fd") >>
      Old(c, i) == << Into("fd", Open(name(c, i), RDONLY)), Shut("fd") >>
      both == <<"p", "q">>
  IN For(both, LAMBDA c :
       << Child(New(c, 0) \o New(c, 1) \o New(c, 2) \o
                <<Unlink(name(c, 1))>>) >>)
     \o For(both, LAMBDA c : <<WaitFor({0})>>)
     \o For(both, LAMBDA c :
          Old(c, 0) \o Old(c, 2) \o <<Fails(Open(name(c, 1), RDONLY))>>)
     \o For(both, LAMBDA c : <<Rm(name(c, 0)), Rm(name(c, 1)), Rm(name(c, 2))>>)

(* A file without a name lives on while it is open. *)
unlinkread ==
  LET f == P("unlinkread")
      hello == <<"h", "e", "l", "l">>
  IN << Into("fd", Open(f, CREAT(RDWR))), Ignored(Write("fd", hello)),
        Shut("fd"), Into("fd", Open(f, RDWR)), Returns(0, Unlink(f)),
        Into("fd1", Open(f, CREAT(RDWR))), Ignored(Write("fd1", <<"y", "y">>)),
        Shut("fd1"), ReadSees("fd", 8, hello), Write("fd", U(6)), Shut("fd"),
        Rm(f) >>

linktest ==
  LET lf1 == P("lf1")  lf2 == P("lf2")
  IN << Rm(lf1), Rm(lf2), Into("fd", Open(lf1, CREAT(RDWR))), Write("fd", U(4)),
        Shut("fd"), Link(lf1, lf2), Rm(lf1), Fails(Open(lf1, RDONLY)),
        Into("fd", Open(lf2, RDONLY)), Returns(4, Read("fd", 8)), Shut("fd"),
        Fails(Link(lf2, lf2)), Rm(lf2), Fails(Link(lf2, lf1)),
        Fails(Link(P("."), lf1)) >>

(* Parent and child make the same name, by create or by link, then open and *)
(* remove it at the same time.                                              *)
concreate ==
  LET file(i) == P("C" \o Str(i))
      rounds == <<0, 1, 2, 4, 6>>
      Make(i, link) ==
        IF link THEN << Ignored(Link(P("C0"), file(i))) >>
        ELSE << Into("fd", Open(file(i), CREAT(RDWR))), Shut("fd") >>
      Look(i) == << Into("fd", Ignored(Open(file(i), RDONLY))), Shut("fd") >>
      Use(i, look) == Times(2, IF look THEN Look(i) ELSE <<Rm(file(i))>>)
  IN For(rounds, LAMBDA i :
       << Rm(file(i)), Child(Make(i, i % 5 = 1)) >> \o Make(i, i % 3 = 1)
       \o << WaitFor({0}) >>)
     \o << Into("fd", Open(P("."), RDONLY)), While(
              [Read("fd", 1) EXCEPT !.want = {1}], <<>>), Shut("fd") >>
     \o For(rounds, LAMBDA i :
          << Into("fd", Open(file(i), RDONLY)), Shut("fd") >>)
     \o For(rounds, LAMBDA i :
          << Child(Use(i, i % 3 = 0)) >> \o Use(i, i % 3 = 1) \o << Wait >>)

(* Two processes create, link and remove one name, in any order. *)
linkunlink ==
  LET any == Either({ << Into("fd", Open(P("x"), CREAT(RDWR))), Shut("fd") >>,
                      << Ignored(Link(P("cat"), P("x"))) >>, << Rm(P("x")) >> })
      work == <<any, any>>
  IN << Rm(P("x")), Fork(work \o Ok) >> \o work \o << Wait >>

subdir ==
  LET dd(name) == <<"dd", name>>
      dddd(name) == <<"dd", "dd", name>>
      ff == <<"f", "f">>  FF == <<"F", "F">>
  IN << Rm(P("ff")), Returns(0, Mkdir(P("dd"))),
        Into("fd", Open(dd("ff"), CREAT(RDWR))), Ignored(Write("fd", ff)),
        Shut("fd"), Fails(Unlink(P("dd"))),
        Returns(0, Mkdir(<<"/", "dd", "dd">>)),
        Into("fd", Open(dddd("ff"), CREAT(RDWR))), Ignored(Write("fd", FF)),
        Shut("fd"), Into("fd", Open(<<"dd", "dd", "..", "ff">>, RDONLY)),
        ReadSees("fd", 8, ff), Shut("fd"),
        Returns(0, Link(dddd("ff"), dddd("ffff"))),
        Returns(0, Unlink(dddd("ff"))), Fails(Open(dddd("ff"), RDONLY)),
        Returns(0, Chdir(P("dd"))),
        Returns(0, Chdir(<<"dd", "..", "..", "dd">>)),
        Returns(0, Chdir(<<"dd", "..", "..", "..", "dd">>)),
        Returns(0, Chdir(<<".", "..">>)),
        Into("fd", Open(dddd("ffff"), RDONLY)), ReadSees("fd", 8, FF),
        Shut("fd"), Fails(Open(dddd("ff"), RDONLY)) >> \o
     For(<<"ff", "xx">>, LAMBDA d :     \* no directory, and no entry at all
       << Fails(Open(<<"dd", d, "ff">>, CREAT(RDWR))),
          Fails(Link(<<"dd", d, "ff">>, dddd("xx"))),
          Fails(Mkdir(<<"dd", d, "ff">>)), Fails(Unlink(<<"dd", d, "ff">>)),
          Fails(Chdir(dd(d))) >>) \o
     For(<<CREATE, RDWR, WRONLY>>,
         LAMBDA mode : <<Fails(Open(P("dd"), mode))>>) \o
     << Fails(Link(dd("ff"), dddd("ffff"))), Fails(Mkdir(dddd("ffff"))),
        Returns(0, Unlink(dddd("ffff"))), Returns(0, Unlink(dd("ff"))),
        Fails(Unlink(P("dd"))), Unlink(dd("dd")), Unlink(P("dd")) >>

(* Twice each size, up to more than a transaction may write. *)
bigwrite ==
  LET f == P("bigwrite")
  IN << Rm(f) >> \o For(<<1, 3, 5>>, LAMBDA sz :
       << Into("fd", Open(f, CREAT(RDWR))), Write("fd", U(sz)),
          Write("fd", U(sz)), Shut("fd"), Rm(f) >>)

bigfile ==
  LET f == P("bigfile.dat")
      nums == Seq1(3)
  IN << Rm(f), Into("fd", Open(f, CREAT(RDWR))) >> \o
     For(nums, LAMBDA n : <<Write("fd", <<Str(n), Str(n)>>)>>) \o
     << Shut("fd"), Into("fd", Open(f, RDONLY)) >> \o
     For(nums, LAMBDA n : Times(2, <<ReadSees("fd", 1, <<Str(n)>>)>>)) \o
     << Returns(0, Read("fd", 1)), Shut("fd"), Rm(f) >>

(* Only DIRSIZ characters of a name count. *)
fourteen ==
  LET a == "12345678901234"
      b == "123456789012345"
  IN << Mkdir(<<a>>), Mkdir(<<a, b>>), Into("fd", Open(<<b, b, b>>, CREATE)),
        Shut("fd"), Into("fd", Open(<<a, a, a>>, RDONLY)), Shut("fd"),
        Fails(Mkdir(<<a, a>>)), Fails(Mkdir(<<b, a>>)),
        Rm(<<b, a>>), Rm(<<a, a>>), Rm(<<a, a, a>>), Rm(<<b, b, b>>),
        Rm(<<a, b>>), Rm(<<a>>) >>

rmdot ==
  << Mkdir(P("dots")), Chdir(P("dots")), Fails(Unlink(P("."))),
     Fails(Unlink(P(".."))), Chdir(Root), Fails(Unlink(In("dots", "."))),
     Fails(Unlink(In("dots", ".."))), Unlink(P("dots")) >>

dirfile ==
  LET xx == In("dirfile", "xx")
  IN << Into("fd", Open(P("dirfile"), CREATE)), Shut("fd"),
        Fails(Chdir(P("dirfile"))), Fails(Open(xx, RDONLY)),
        Fails(Open(xx, CREATE)), Fails(Mkdir(xx)), Fails(Unlink(xx)),
        Fails(Link(P("README"), xx)), Unlink(P("dirfile")),
        Fails(Open(P("."), RDWR)), Into("fd", Open(P("."), RDONLY)),
        Fails(Write("fd", U(1))), Shut("fd") >>

(* Empty names, at more directories than the inode table holds. *)
iref ==
  LET Try(path) ==
        << If(Into("fd", Open(path, CREATE)), <<Shut("fd")>>, <<>>) >>
  IN Times(NINODE + 1,
       << Mkdir(P("irefd")), Chdir(P("irefd")), Ignored(Mkdir(<<>>)),
          Ignored(Link(P("README"), <<>>)) >> \o Try(<<>>) \o Try(P("xx")) \o
       << Rm(P("xx")) >>) \o
     Times(NINODE + 1, << Ignored(Chdir(P(".."))), Rm(P("irefd")) >>) \o
     << Ignored(Chdir(Root)) >>

forktest ==
  LET more[n \in 0 .. NPROC] ==
        << If(Child(<<>>),
              IF n = 0 THEN <<Exit(1)>> ELSE more[n - 1] \o <<Wait>>,
              IF n = NPROC THEN <<Exit(1)>> ELSE <<>>) >>
  IN more[NPROC] \o << Fails(Wait) >>

TOOMUCH == 99
BIGBRK == 30
sbrkbasic ==
  LET touch == For(Seq1(TOOMUCH \div PGSIZE), LAMBDA j :
                     <<Store(At("a", PGSIZE * (j - 1)))>>)
      after == << Sbrk(1), Into("c", Sbrk(1)) >> \o Same(At("c", 0), At("a", 5))
  IN << Fork(<<If(Into("a", Sbrk(TOOMUCH)), touch, Ok), Exit(1)>>),
        WaitFor({-1, 0}), Into("a", Sbrk(0)) >> \o
     For(Seq1(4), LAMBDA j :
       << Into("b", Sbrk(1)) >> \o Same(At("b", 0), At("a", j - 1)) \o
       << Store(At("b", 0)) >>) \o
     << Fork(after \o Ok) >> \o after \o ExitAsChild

sbrkmuch ==
  LET now(v) == Into(v, Sbrk(0))
      last == BIGBRK - PGSIZE
  IN << now("old"), Into("p", SbrkTo(Abs(BIGBRK))) >> \o
     Same(At("p", 0), At("old", 0)) \o
     << Store(Abs(BIGBRK - 1)), Sbrk(-PGSIZE), now("c") >> \o
     Same(At("c", 0), Abs(last)) \o << Into("c", Sbrk(PGSIZE)), now("d") >> \o
     Same(At("c", 0), Abs(last)) \o Same(At("d", 0), Abs(BIGBRK)) \o
     << Load(Abs(BIGBRK - 1)), Into("c", SbrkTo(At("old", 0))) >> \o
     Same(At("c", 0), Abs(BIGBRK))

(* The kernel kills who touches what is not his. *)
Dies(access) == << Fork(<<access, Exit(1)>>), WaitFor({-1}) >>
kernmem == For(SubSeq(BadAddrs, 1, 1), LAMBDA a : Dies(Load(a)))
MAXVAplus == For(SubSeq(BadAddrs, 4, 5), LAMBDA a : Dies(Store(a)))
stacktest == Dies(Load(Abs(4 * PGSIZE))) \o Ok
nowrite == For(<<Abs(0)>> \o BadAddrs, LAMBDA a : Dies(Store(a))) \o Ok

(* What a failed sbrk had taken is there for the next one. *)
sbrkfail ==
  LET pids == <<"pid1", "pid2", "pid3">>
  IN << Pipe("r", "w") >> \o
     For(pids, LAMBDA v :
       << If(Into(v, Fork(<<If(SbrkTo(Abs(BIGBRK)),
                               <<Ignored(Write("w", <<"1">>))>>,
                               <<Ignored(Write("w", <<"0">>))>>),
                            Forever(Pause)>>)),
             <<Ignored(Read("r", 1))>>, <<>>) >>) \o
     << Into("c", Ignored(Sbrk(PGSIZE))) >> \o
     For(pids, LAMBDA v :
       << If(AtLeast(At(v, 0), Abs(0)), <<Ignored(Kill(v)), Ignored(Wait)>>,
             <<>>) >>) \o
     << AtLeast(At("c", 0), Abs(0)), Fork(<<Fails(Sbrk(TOOMUCH)), Exit(0)>>),
        WaitFor({0}) >>

sbrkarg ==
  << Into("a", Sbrk(PGSIZE)), Into("fd", Open(P("sbrk"), CREAT(WRONLY))),
     Rm(P("sbrk")), From(At("a", 0), Write("fd", U(PGSIZE))), Shut("fd"),
     Into("a", Sbrk(PGSIZE)), From(At("a", 0), Pipe("r", "w")) >>

validatetest ==
  For(<<0, 1, 3, 4, 5, 6, 8>>, LAMBDA page :
    << Fails(From(Abs(PGSIZE * page), Link(P("nosuchfile"), P("x")))) >>)

bigargtest ==
  LET ok == P("bigarg-ok")
  IN << Rm(ok),
        Child(<<Ignored(Exec(P("echo"), [j \in 1 .. MAXARG - 1 |-> "LONG"])),
                Into("fd", Ignored(Open(ok, CREATE))), Shut("fd")>>),
        WaitFor({0}), Into("fd", Open(ok, RDONLY)), Shut("fd") >>

argptest ==
  << Into("fd", Open(P("init"), RDONLY)), Into("top", Sbrk(0)),
     Ignored(From(At("top", -1), Read("fd", 99))), Shut("fd") >>

pgbug ==
  << Ignored(From(Abs(PGSIZE * (MAXVA + 8)), Exec(P("x"), <<>>))),
     Ignored(From(Abs(PGSIZE * (MAXVA + 8)), Pipe("r", "w"))) >> \o Ok

(* To no memory at all, into the first page, and a little inside a page. *)
sbrkbugs ==
  LET stack == Abs(5 * PGSIZE)
  IN << Child(<<SbrkTo(Abs(0)), Load(Abs(0))>>), Wait,
        Child(<<SbrkTo(Abs(PGSIZE - 1)), Load(Abs(0)), Load(stack)>>), Wait,
        Child(<<SbrkTo(Abs(10 * PGSIZE + 2)), Sbrk(-1)>>), Wait >> \o Ok

sbrklast ==
  LET p == At("top", -1)
      x == P("x")
  IN << Sbrk(PGSIZE), Sbrk(1), Sbrk(-2), Into("top", Sbrk(0)), Store(p),
        Into("fd", From(p, Ignored(Open(x, CREAT(RDWR))))),
        Ignored(From(p, Write("fd", U(1)))), Shut("fd"),
        Into("fd", From(p, Ignored(Open(x, RDWR)))), Store(p),
        From(p, ReadSees("fd", 1, U(1))) >>

sbrk8000 ==
  << Ignored(Sbrk(-50)), Into("top", Sbrk(0)), Load(At("top", -1)),
     Store(At("top", -1)) >>

badarg == Times(2, <<Ignored(Exec(P("echo"), <<"BAD">>))>>) \o Ok

REGION == 30
Touched == <<PGSIZE, 5 * PGSIZE>>
lazy_alloc ==
  << Into("e", SbrkLazy(REGION)) >> \o
  For(Touched, LAMBDA j : <<Store(At("e", j))>>) \o
  For(Touched, LAMBDA j : <<Load(At("e", j))>>) \o Ok

lazy_unmap ==
  << Into("e", SbrkLazy(REGION)) >> \o
  For(Touched, LAMBDA j : <<Store(At("e", j))>>) \o
  For(Touched, LAMBDA j :
    << Child(<<Ignored(SbrkLazy(-REGION)), Store(At("e", j))>>),
       WaitFor({-1}) >>) \o Ok

lazy_copy ==
  << Into("p", Sbrk(0)), SbrkLazy(4 * PGSIZE),
     Ignored(From(At("p", 2 * PGSIZE), Open(P("x"), RDONLY))),
     Into("xx", Sbrk(0)), Into("ret", SbrkTo(Abs(-1))) >> \o
  Same(At("ret", 0), At("xx", 0)) \o
  For(<<TRAPFRAME - 1, TRAPFRAME, TRAPFRAME + 1, MAXVA, MAXVA + 8>>,
    LAMBDA page :
    LET a == Abs(PGSIZE * page)
    IN << Into("fd", Open(P("README"), RDONLY)), Fails(From(a, Read("fd", 1))),
          Shut("fd"), Into("fd", Open(P("junk"), CREAT(RDWR \cup TRUNC))),
          Fails(From(a, Write("fd", U(1)))), Shut("fd") >>) \o Ok

-----------------------------------------------------------------------------
(* The slow tests. *)

bigdir ==
  LET names == <<"x0", "x1", "x2">>
  IN << Rm(P("bd")), Into("fd", Open(P("bd"), CREATE)), Shut("fd") >> \o
     For(names, LAMBDA n : <<Link(P("bd"), P(n))>>) \o << Rm(P("bd")) >> \o
     For(names, LAMBDA n : <<Unlink(P(n))>>)

manywrites ==
  For(<<1, 2>>, LAMBDA c :
    LET f == P("b" \o Str(c))
    IN << Child(<<Rm(f)>> \o
                Times(c, <<Into("fd", Open(f, CREAT(RDWR))), Write("fd", U(6)),
                           Shut("fd")>>) \o
                <<Rm(f), Rm(f)>>) >>) \o
  << WaitFor({0}), WaitFor({0}) >> \o Ok

badwrite ==
  LET f == P("junk")
      open == Into("fd", Open(f, CREAT(WRONLY)))
  IN << Rm(f) >> \o
     Times(3, << open, Ignored(From(Abs(PGSIZE * MAXVA), Write("fd", U(1)))),
                 Shut("fd"), Rm(f) >>) \o
     << open, Write("fd", U(1)), Shut("fd"), Rm(f) >> \o Ok

(* exec with 0, 1, 2 ... pages left. *)
execout ==
  For([j \in 1 .. 8 |-> j - 1], LAMBDA avail :
    << Child(<<While(Into("a", Sbrk(PGSIZE)),
                     <<Store(At("a", PGSIZE - 1))>>)>> \o
             Times(avail, <<Ignored(Sbrk(-PGSIZE))>>) \o
             <<Shut("1"), Ignored(Exec(P("echo"), <<"echo", "x">>))>>),
       Ignored(Wait) >>) \o Ok

(* Files until one cannot be made, each of at most blocks blocks, and then *)
(* what follows.                                                           *)
Fill(names, blocks) ==
  LET full == << Shut("fd"), Shut("fd") >>
      fill[j \in 1 .. Len(names) * (blocks + 1) + 1] ==
        LET n == (j - 1) \div (blocks + 1) + 1
        IN IF n > Len(names) THEN <<>>
           ELSE IF (j - 1) % (blocks + 1) = 0
           THEN << Rm(P(names[n])),
                   If(Into("fd", Open(P(names[n]), CREAT(RDWR \cup TRUNC))),
                      (IF blocks = 0 THEN <<Shut("fd")>> ELSE <<>>)
                      \o fill[j + 1],
                      <<>>) >>
           ELSE << If(Write("fd", U(BSIZE)),
                      (IF (j - 1) % (blocks + 1) = blocks THEN <<Shut("fd")>>
                       ELSE <<>>) \o fill[j + 1], full) >>
  IN fill[1]
RmAll(names) == For(names, LAMBDA n : <<Rm(P(n))>>)
Many(c, n) == [j \in 1 .. n |-> c \o Str(j)]

diskfull ==
  LET bigs == Many("big", FILLS)
      zzs == Many("zz", NINODES)
  IN << Rm(P("diskfulldir")) >> \o Fill(bigs, MAXFILE) \o Fill(zzs, 0) \o
     << Ignored(Mkdir(P("diskfulldir"))), Rm(P("diskfulldir")) >> \o
     RmAll(zzs) \o RmAll(bigs)

outofinodes ==
  LET zzs == Many("zz", NINODES) IN Fill(zzs, 0) \o RmAll(zzs)

-----------------------------------------------------------------------------
quicktests ==
  [copyin |-> copyin, copyout |-> copyout, copyinstr1 |-> copyinstr1,
   copyinstr2 |-> copyinstr2, copyinstr3 |-> copyinstr3, rwsbrk |-> rwsbrk,
   truncate1 |-> truncate1, truncate2 |-> truncate2, truncate3 |-> truncate3,
   openiput |-> openiputtest, exitiput |-> exitiputtest, iput |-> iputtest,
   opentest |-> opentest, writetest |-> writetest, writebig |-> writebig,
   createtest |-> createtest, dirtest |-> dirtest, exectest |-> exectest,
   pipe1 |-> pipe1, killstatus |-> killstatus, preempt |-> preempt,
   exitwait |-> exitwait, reparent |-> reparent, twochildren |-> twochildren,
   forkfork |-> forkfork, forkforkfork |-> forkforkfork,
   reparent2 |-> reparent2, mem |-> mem, sharedfd |-> sharedfd,
   fourfiles |-> fourfiles, createdelete |-> createdelete,
   unlinkread |-> unlinkread, linktest |-> linktest, concreate |-> concreate,
   linkunlink |-> linkunlink, subdir |-> subdir, bigwrite |-> bigwrite,
   bigfile |-> bigfile, fourteen |-> fourteen, rmdot |-> rmdot,
   dirfile |-> dirfile, iref |-> iref, forktest |-> forktest,
   sbrkbasic |-> sbrkbasic, sbrkmuch |-> sbrkmuch, kernmem |-> kernmem,
   MAXVAplus |-> MAXVAplus, sbrkfail |-> sbrkfail, sbrkarg |-> sbrkarg,
   validatetest |-> validatetest, bigargtest |-> bigargtest,
   argptest |-> argptest, stacktest |-> stacktest, nowrite |-> nowrite,
   pgbug |-> pgbug, sbrkbugs |-> sbrkbugs, sbrklast |-> sbrklast,
   sbrk8000 |-> sbrk8000, badarg |-> badarg, lazy_alloc |-> lazy_alloc,
   lazy_unmap |-> lazy_unmap, lazy_copy |-> lazy_copy]
slowtests ==
  [bigdir |-> bigdir, manywrites |-> manywrites, badwrite |-> badwrite,
   execout |-> execout, diskfull |-> diskfull, outofinodes |-> outofinodes]
tests == quicktests @@ slowtests

(* Every test runs in a process of its own. *)
run(f) == << Fork(f \o Ok), WaitFor({0}) >>

(* Grows until it cannot; as both counts start from the same size, where   *)
(* it got tells how many pages were free.                                  *)
countfree(top) ==
  << Into("sz0", Sbrk(0)), While(Sbrk(PGSIZE), <<>>), Into(top, Sbrk(0)),
     SbrkTo(At("sz0", 0)) >>

drivetests(justone) ==
  IF justone \in DOMAIN tests
  THEN countfree("free0") \o run(tests[justone]) \o countfree("free1") \o
       << AtLeast(At("free1", 0), At("free0", 0)) >>
  ELSE << Exit(1) >>

main(args) == drivetests(args[2]) \o << Exit(0) >>
=============================================================================
