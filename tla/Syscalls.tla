------------------------------ MODULE Syscalls ------------------------------
(***************************************************************************)
(* The whole kernel, one system call per step: processes, user memory,     *)
(* descriptors, pipes and files together, and the user programs of         *)
(* UserCode that call them in any order.  Calls that wait (wait, and read  *)
(* and write of pipes and the console) are steps that are not enabled, or  *)
(* several steps; a large write is a step per transaction.                 *)
(*                                                                         *)
(* Besides the fields of Files the kernel state k has                      *)
(*   k.proc[p]   the process table: st, pid, parent (a slot), killed,      *)
(*               xstate, fd (descriptor -> file, 0 none), cwd, sz, pt,     *)
(*               and of the user side code (what is left of the program),  *)
(*               var (its variables), done (units an unfinished write has  *)
(*               written), buf (what was read last)                        *)
(*   k.nextpid   next pid                                                  *)
(*   k.tty       lines typed at the console and not read yet, each the     *)
(*               sequence of its tokens                                    *)
(***************************************************************************)
EXTENDS Memory, Files, UserCode

CONSTANTS NPROC,          \* slots of the process table
          PIPESIZE, MaxWrite,   \* units in a pipe, in one transaction
          MAXARG, MAXPATH,
          Program(_, _),  \* the code of a user program, by name and arguments
          Resume(_, _, _) \* its code after Continue(then), given what it read
                          \* and its variables

ASSUME SyscallsAssumption ==
  /\ NPROC \in Nat \ {0} /\ {PIPESIZE, MaxWrite, MAXARG} \subseteq Nat
  /\ TRAPFRAME >= 6     \* the image of a program fits

VARIABLE k

InitProc == 1
Slots == 1 .. NPROC
CONSOLE == 1
NDEV == 10
(* A program's pages: text 0, data up to DataEnd, stack guard, stack. *)
DataEnd == 4
ImagePages == DataEnd + 2
NoProc == [st |-> "unused", pid |-> 0, parent |-> 0, killed |-> FALSE,
           xstate |-> 0, fd |-> [d \in 0 .. NOFILE - 1 |-> 0], cwd |-> 0,
           sz |-> 0, pt |-> <<>>, code |-> <<>>, var |-> <<>>, done |-> 0,
           buf |-> <<>>]

-----------------------------------------------------------------------------
(* Between kernel and user. *)

Mem(s, p) == [free |-> s.free, sz |-> s.proc[p].sz, pt |-> s.proc[p].pt]
SetMem(s, p, m) == [s EXCEPT !.free = m.free, !.proc[p].sz = m.sz,
                             !.proc[p].pt = m.pt]
Call(p) == Head(k.proc[p].code)
Value(s, p, v) == IF v \in Numerals THEN atoi(v) ELSE s.proc[p].var[v]
Address(s, p, a) == Value(s, p, a.base) + a.off

(* The call of p returns r, and its program goes on as it says. *)
Return(s, p, r) ==
  LET i == Head(s.proc[p].code)
      wanted == r \in i.want
      next == IF wanted /\ i.again THEN s.proc[p].code ELSE Tail(s.proc[p].code)
      set == IF i.to = "" THEN s.proc[p].var ELSE (i.to :> r) @@ s.proc[p].var
  IN [s EXCEPT !.proc[p].code = (IF wanted THEN i.ok ELSE i.no) \o next,
               !.proc[p].var = set, !.proc[p].done = 0]
SetVar(s, p, v, r) == [s EXCEPT !.proc[p].var = (v :> r) @@ @]

(* argstr(): the string must be there, and not longer than fits. *)
argstr(s, p, path) ==
  /\ copyinstr(Mem(s, p), Address(s, p, Head(s.proc[p].code).addr), 1)
  /\ \A j \in DOMAIN path : Len(path[j]) < MAXPATH

(* argfd(): the file of a descriptor, or 0. *)
argfd(s, p, v) ==
  LET d == Value(s, p, v)
  IN IF d \in DOMAIN s.proc[p].fd THEN s.proc[p].fd[d] ELSE 0

-----------------------------------------------------------------------------
(* Processes: proc.c. *)

(* allocproc(): a slot, a pid, a trapframe page and an empty page table.   *)
allocproc(s) ==
  LET unused == {q \in Slots : s.proc[q].st = "unused"}
      q == Min(unused)
      m == uvmcreate(s.free - 1)
      taken == [s EXCEPT !.nextpid = @ + 1]
  IN IF unused = {} THEN [k |-> s, np |-> 0]
     ELSE IF s.free < 2 THEN [k |-> [taken EXCEPT !.proc[q] = NoProc], np |-> 0]
     ELSE [k |-> [SetMem(taken, q, m) EXCEPT !.proc[q].pid = s.nextpid],
           np |-> q]

(* uvmunmap() goes to the size, and walk() panics if that is too far;      *)
(* freewalk() panics when a page is left; the table's root goes last.      *)
proc_freepagetable(s, m, sz) ==
  LET left == uvmfree(m, sz)
      s1 == IF PGROUNDUP(sz) > MAXVA THEN Panic(s, "walk")
            ELSE IF FreewalkPanics(left) THEN Panic(s, "freewalk: leaf") ELSE s
  IN [s1 EXCEPT !.free = left.free]

(* freeproc(): the trapframe, the memory and the slot. *)
freeproc(s, q) ==
  LET s1 == proc_freepagetable(s, Mem(s, q), s.proc[q].sz)
  IN [s1 EXCEPT !.free = @ + 1, !.proc[q] = NoProc]

(* A mark that kill(0) left on the free slot stays on the child. *)
kfork(s, p, child) ==
  LET a == allocproc(s)
      np == a.np
      c == uvmcopy(Mem(a.k, np), s.proc[p].pt, s.proc[p].sz)
      s1 == SetMem(a.k, np, c.mem)
      fds == s.proc[p].fd
      file == [f \in 1 .. NFILE |-> [s.file[f] EXCEPT   \* filedup() of each
                 !.ref = @ + Cardinality({d \in DOMAIN fds : fds[d] = f})]]
      s2 == idup([s1 EXCEPT !.file = file], s.proc[p].cwd)
  IN IF np = 0 THEN [k |-> a.k, ret |-> -1]
     ELSE IF ~c.ok THEN [k |-> freeproc(s1, np), ret |-> -1]
     ELSE IF Overlaps(s.proc[p].sz)
     THEN [k |-> Panic(s, "mappages: remap"), ret |-> -1]
     ELSE [k |-> [s2 EXCEPT !.proc[np] = [s.proc[p] EXCEPT
                    !.pid = s.nextpid, !.parent = p, !.pt = c.mem.pt,
                    !.killed = s.proc[np].killed, !.code = child]],
           ret |-> s.nextpid]

reparent(s, p) ==
  [s EXCEPT !.proc = [q \in Slots |->
     IF s.proc[q].st # "unused" /\ s.proc[q].parent = p
     THEN [s.proc[q] EXCEPT !.parent = InitProc] ELSE s.proc[q]]]

kexit(s, p, status) ==
  LET fds == s.proc[p].fd
      closed[d \in 0 .. NOFILE] ==      \* the first d descriptors
        IF d = 0 THEN s
        ELSE LET acc == closed[d - 1]
             IN IF fds[d - 1] = 0 THEN acc
                ELSE fileclose([acc EXCEPT !.proc[p].fd[d - 1] = 0],
                               fds[d - 1])
      left == reparent(iput(closed[NOFILE], s.proc[p].cwd), p)
  IN IF p = InitProc THEN Panic(s, "init exiting")
     ELSE [left EXCEPT !.proc[p] = [NoProc EXCEPT
             !.st = "zombie", !.xstate = status, !.pid = s.proc[p].pid,
             !.parent = s.proc[p].parent, !.killed = s.proc[p].killed,
             !.sz = s.proc[p].sz, !.pt = s.proc[p].pt]]

Children(s, p) ==
  {q \in Slots : s.proc[q].st # "unused" /\ s.proc[q].parent = p}
Zombies(s, p) == {q \in Children(s, p) : s.proc[q].st = "zombie"}

(* kwait() of a process that has no children, or a zombie among them. *)
kwait(s, p, i) ==
  LET q == Min(Zombies(s, p))
      out == copyout(Mem(s, p), Address(s, p, i.addr), 1)
      s1 == IF i.status = {} THEN s ELSE SetMem(s, p, out.mem)
      wrong == i.status # {} /\ s.proc[q].xstate \notin i.status
      pid == s.proc[q].pid
  IN IF Children(s, p) = {} THEN [k |-> s, ret |-> -1]
     ELSE IF i.status # {} /\ ~out.go
     THEN [k |-> s1, ret |-> -1]
     ELSE [k |-> freeproc(s1, q), ret |-> IF wrong THEN -2 ELSE pid]

(* kkill() looks at every slot, the free ones too; it wakes the victim,    *)
(* which here is always able to see that it was killed.                    *)
kkill(s, pid) ==
  LET victims == {q \in Slots : s.proc[q].pid = pid}
  IN IF victims = {} THEN [k |-> s, ret |-> -1]
     ELSE [k |-> [s EXCEPT !.proc[Min(victims)].killed = TRUE], ret |-> 0]

-----------------------------------------------------------------------------
(* exec.c and sys_exec(). *)

(* What the arguments take of the stack, and whether each can be fetched:  *)
(* "LONG" is a third of a page, "BIG" more than one, "BAD" not there, and  *)
(* of "HIGH" the pointer is in memory promised beyond MAXVA.               *)
ArgUnits(args) == Len(SelectSeq(args, LAMBDA a : a = "LONG"))
Unfit(args) == SelectInSeq(args, LAMBDA a : a \in {"BIG", "BAD", "HIGH"})
(* fetchaddr(), whose copyin() panics, comes to it if memory lasts. *)
FetchPanics(s, p, i) ==
  LET bad == Unfit(i.args)
  IN /\ argstr(s, p, i.path)
     /\ bad \in 1 .. MAXARG /\ s.free >= bad - 1
     /\ i.args[bad] = "HIGH" /\ s.proc[p].sz > MAXVA * PGSIZE

(* The segments of a program and its stack, one after the other, in an     *)
(* empty memory; when one of them fails, sz says how far it came.          *)
loadseg(m0) ==
  LET text == uvmalloc(m0, 0, PGSIZE, "rx")
      data == uvmalloc(text.mem, PGSIZE, DataEnd * PGSIZE, "rw")
      all == uvmalloc(data.mem, DataEnd * PGSIZE, ImagePages * PGSIZE, "rw")
  IN IF text.sz = 0 THEN [mem |-> text.mem, sz |-> 0, ok |-> FALSE]
     ELSE IF data.sz = 0 THEN [mem |-> data.mem, sz |-> text.sz, ok |-> FALSE]
     ELSE IF all.sz = 0 THEN [mem |-> all.mem, sz |-> data.sz, ok |-> FALSE]
     ELSE [mem |-> uvmclear(all.mem, DataEnd), sz |-> all.sz, ok |-> TRUE]

(* A new page table with the program at ip, its stack and arguments; when  *)
(* any of it fails the new one is freed and the old one stays.             *)
kexec(s, p, ip, args) ==
  LET elf == readi(s, ip, 0, 1) = <<"ELF">>
      name == readi(s, ip, 1, 1)
      new == loadseg(uvmcreate(s.free))
      image == [new.mem EXCEPT !.sz = new.sz]
      good == new.ok /\ Len(args) <= MAXARG /\ ArgUnits(args) < PGSIZE
      old == proc_freepagetable(s, [Mem(s, p) EXCEPT !.free = image.free],
                                s.proc[p].sz)
  IN IF ~elf \/ s.free = 0 THEN [k |-> s, ok |-> FALSE]
     ELSE IF ~good \/ name = <<>>
     THEN [k |-> proc_freepagetable(s, image, image.sz), ok |-> FALSE]
     ELSE [k |-> [SetMem(old, p, [image EXCEPT !.free = old.free]) EXCEPT
                    !.proc[p].code = Program(name[1], args),
                    !.proc[p].var = <<>>, !.proc[p].buf = <<>>],
           ok |-> TRUE]

(* Each argument is copied into a page of its own first; all these pages   *)
(* are given back, whether it goes well or not.                            *)
ExecFetched(s, p, i) ==
  LET n == Len(i.args)
      bad == Unfit(i.args)
      took == Min({s.free, MAXARG, IF bad = 0 THEN n ELSE bad})
      f == namei([s EXCEPT !.free = @ - took], s.proc[p].cwd, i.path)
      e == kexec(ilock(f.k, f.ip), p, f.ip, i.args)
      Back(s1) == [s1 EXCEPT !.free = @ + took]
  IN IF ~argstr(s, p, i.path) \/ took < n \/ bad # 0 \/ n >= MAXARG
     THEN Return(Back([s EXCEPT !.free = @ - took]), p, -1)
     ELSE IF f.ip = 0 THEN Return(Back(f.k), p, -1)
     ELSE IF e.ok THEN Back(iput(e.k, f.ip))
     ELSE Return(Back(iput(e.k, f.ip)), p, -1)
sys_exec(s, p, i) ==
  IF FetchPanics(s, p, i) THEN Panic(s, "walk") ELSE ExecFetched(s, p, i)

-----------------------------------------------------------------------------
(* sysfile.c *)

OpenFile(mode, ip, d) ==
  [NoFile EXCEPT !.ref = 1, !.ip = ip, !.r = "w" \notin mode,
                 !.w = mode \cap {"w", "rw"} # {},
                 !.type = IF d.type = "device" THEN "device" ELSE "inode",
                 !.major = IF d.type = "device" THEN d.major ELSE 0]

(* The file and the first descriptor that is free, both or none. *)
sys_open(s, p, i) ==
  LET cwd == s.proc[p].cwd
      o == IF "create" \in i.mode THEN create(s, cwd, i.path, "file", 0)
           ELSE namei(s, cwd, i.path)
      s1 == ilock(o.k, o.ip)
      d == s1.ino[o.ip]
      f == filealloc(s1)
      fd == FirstFd(s.proc[p].fd)
      s2 == [s1 EXCEPT !.file[f] = OpenFile(i.mode, o.ip, d),
                       !.proc[p].fd[fd] = f]
      s3 == IF "trunc" \in i.mode /\ d.type = "file" THEN itrunc(s2, o.ip)
            ELSE s2
      No(s4) == Return(s4, p, -1)
  IN IF ~argstr(s, p, i.path) THEN No(s)
     ELSE IF o.ip = 0 THEN No(o.k)
     ELSE IF \/ d.type = "dir" /\ i.mode # RDONLY
             \/ d.type = "device" /\ d.major \notin 0 .. NDEV - 1
             \/ f = 0 \/ fd = -1
     THEN No(iput(s1, o.ip))
     ELSE Return(s3, p, fd)

(* sys_mkdir(), sys_mknod() *)
Make(s, p, i, type, major) ==
  LET c == create(s, s.proc[p].cwd, i.path, type, major)
  IN IF ~argstr(s, p, i.path) THEN Return(s, p, -1)
     ELSE IF c.ip = 0 THEN Return(c.k, p, -1)
     ELSE Return(iput(c.k, c.ip), p, 0)
sys_mkdir(s, p, i) == Make(s, p, i, "dir", 0)
sys_mknod(s, p, i) == Make(s, p, i, "device", i.major)

sys_link(s, p, i) ==
  LET l == DoLink(s, s.proc[p].cwd, i.path, i.new)
  IN IF argstr(s, p, i.path) THEN Return(l.k, p, l.ret) ELSE Return(s, p, -1)
sys_unlink(s, p, i) ==
  LET u == DoUnlink(s, s.proc[p].cwd, i.path)
  IN IF argstr(s, p, i.path) THEN Return(u.k, p, u.ret) ELSE Return(s, p, -1)

sys_chdir(s, p, i) ==
  LET d == namei(s, s.proc[p].cwd, i.path)
      s1 == ilock(d.k, d.ip)
  IN IF ~argstr(s, p, i.path) THEN Return(s, p, -1)
     ELSE IF d.ip = 0 THEN Return(d.k, p, -1)
     ELSE IF ~IsDir(s1, d.ip) THEN Return(iput(s1, d.ip), p, -1)
     ELSE Return([iput(s1, s.proc[p].cwd) EXCEPT !.proc[p].cwd = d.ip], p, 0)

sys_dup(s, p, i) ==
  LET f == argfd(s, p, i.fd)
      fd == FirstFd(s.proc[p].fd)
  IN IF f = 0 \/ fd = -1 THEN Return(s, p, -1)
     ELSE Return(filedup([s EXCEPT !.proc[p].fd[fd] = f], f), p, fd)

sys_close(s, p, i) ==
  LET f == argfd(s, p, i.fd)
      fd == Value(s, p, i.fd)
  IN IF f = 0 THEN Return(s, p, -1)
     ELSE Return(fileclose([s EXCEPT !.proc[p].fd[fd] = 0], f), p, 0)

(* Two descriptors and their numbers in user memory, or nothing. *)
sys_pipe(s, p, i) ==
  LET a == pipealloc(s)
      fd0 == FirstFd(s.proc[p].fd)
      fds == [s.proc[p].fd EXCEPT ![fd0] = a.rf]
      fd1 == FirstFd(fds)
      s1 == [a.k EXCEPT !.proc[p].fd = [fds EXCEPT ![fd1] = a.wf]]
      out == copyout(Mem(s1, p), Address(s, p, i.addr), 1)
      Undo(s2) == Return(fileclose(fileclose(s2, a.rf), a.wf), p, -1)
  IN IF a.rf = 0 THEN Return(s, p, -1)
     ELSE IF fd0 = -1 \/ fd1 = -1 THEN Undo(a.k)
     ELSE IF ~out.go THEN Undo(SetMem(a.k, p, out.mem))
     ELSE Return(SetVar(SetVar(SetMem(s1, p, out.mem), p, i.rto, fd0),
                        p, i.wto, fd1), p, 0)

(* type says what the program wants to see of the inode, "" nothing. *)
sys_fstat(s, p, i) ==
  LET f == argfd(s, p, i.fd)
      out == copyout(Mem(s, p), Address(s, p, i.addr), 1)
      type == s.ino[s.file[f].ip].type
  IN IF f = 0 THEN Return(s, p, -1)
     ELSE IF s.file[f].type \notin {"inode", "device"} \/ ~out.go
     THEN Return(s, p, -1)
     ELSE Return(SetMem(s, p, out.mem), p,
                 IF i.type \in {"", type} THEN 0 ELSE -2)

(* What was read, seen by the program; n is the result of the call. *)
Seen(s, p, i, units, n) ==
  Return([s EXCEPT !.proc[p].buf = units], p,
         IF n >= 0 /\ i.sees # <<>> /\ units # i.sees THEN -2 ELSE n)

(* fileread(), piperead(), consoleread().  A byte that was taken from a    *)
(* pipe or the console and could not be delivered is lost.                 *)
sys_read(s, p, i) ==
  LET f == argfd(s, p, i.fd)
      file == s.file[f]
      q == s.pipe[file.pipe]
      a == Address(s, p, i.addr)
      data == CASE file.type = "pipe" ->
                     SubSeq(q.data, 1, Min({i.n, Len(q.data)}))
                [] file.type = "device" -> SubSeq(s.tty, 1, Min({i.n, 1}))
                [] OTHER -> readi(s, file.ip, file.off, i.n)
      n == Len(data)
      out == copyout(Mem(s, p), a, n)
      s1 == SetMem(s, p, out.mem)
      good == SubSeq(data, 1, out.n)
      taken == IF out.go THEN n ELSE out.n + 1
  IN IF f = 0 THEN Return(s, p, -1)
     ELSE IF ~file.r THEN Return(s, p, -1)
     ELSE CASE file.type = "pipe" ->
                 Seen([s1 EXCEPT !.pipe[file.pipe].data =
                                   SubSeq(@, taken + 1, Len(@))],
                      p, i, good, out.n)
            [] file.type = "device" ->
                 IF file.major # CONSOLE THEN Return(s, p, -1)
                 ELSE Seen([s1 EXCEPT !.tty = SubSeq(@, taken + 1, Len(@))],
                           p, i, good, out.n)
            [] OTHER ->
                 IF ~out.go THEN Return(s1, p, -1)
                 ELSE Seen([s1 EXCEPT !.file[f].off = @ + n], p, i, data, n)

(* A read waits for somebody to write to the pipe, however little it asks  *)
(* for, or to type a line.                                                 *)
ReadWaits(s, p, i) ==
  LET f == argfd(s, p, i.fd)
      file == s.file[f]
  IN /\ f # 0 /\ file.r
     /\ \/ /\ file.type = "pipe"
           /\ s.pipe[file.pipe].data = <<>> /\ s.pipe[file.pipe].writeopen
        \/ file.type = "device" /\ file.major = CONSOLE /\ s.tty = <<>> /\ i.n > 0

(* filewrite(), pipewrite(), consolewrite(): as far as one transaction, or *)
(* the room in the pipe, goes.                                             *)
filewrite(s, p, i) ==
  LET f == argfd(s, p, i.fd)
      file == s.file[f]
      done == s.proc[p].done
      all == IF i.copy THEN s.proc[p].buf ELSE i.units
      left == Len(all) - done
      n == CASE file.type = "pipe" ->
                  Min({left, PIPESIZE - Len(s.pipe[file.pipe].data)})
             [] file.type = "device" -> left
             [] OTHER -> Min({left, MaxWrite})
      units == SubSeq(all, done + 1, done + n)
      in == copyin(Mem(s, p), Address(s, p, i.addr) + done, n)
      s1 == SetMem(s, p, in.mem)
      w == writei(s1, file.ip, file.off, units, in.n)
      More(s2) == IF done + n = Len(all) THEN Return(s2, p, done + n)
                  ELSE [s2 EXCEPT !.proc[p].done = done + n]
  IN IF f = 0 THEN Return(s, p, -1)
     ELSE IF ~file.w THEN Return(s, p, -1)
     ELSE CASE file.type = "pipe" ->
                 LET s2 == [s1 EXCEPT !.pipe[file.pipe].data =
                                        @ \o SubSeq(units, 1, in.n)]
                 IN IF left > 0 /\ ~s.pipe[file.pipe].readopen
                    THEN Return(s, p, -1)
                    ELSE IF in.go THEN More(s2)
                    ELSE Return(s2, p, done + in.n)
            [] file.type = "device" ->
                 Return(s1, p, IF file.major = CONSOLE THEN in.n ELSE -1)
            [] OTHER ->
                 LET s2 == IF w.n > 0 THEN [w.k EXCEPT !.file[f].off = @ + w.n]
                           ELSE w.k
                 IN IF w.n = n THEN More(s2) ELSE Return(s2, p, -1)

(* They come to copyin(), which may panic, only if there is a reader, or a *)
(* block for what is written.                                              *)
WritePanics(s, p, i) ==
  LET f == argfd(s, p, i.fd)
      file == s.file[f]
      left == Len(IF i.copy THEN s.proc[p].buf ELSE i.units) - s.proc[p].done
      Faults(n) == copyinPanics(Mem(s, p), Address(s, p, i.addr) + s.proc[p].done, n)
  IN /\ f # 0 /\ file.w
     /\ CASE file.type = "pipe" ->
               s.pipe[file.pipe].readopen /\
               Faults(Min({left, PIPESIZE - Len(s.pipe[file.pipe].data)}))
          [] file.type = "device" -> file.major = CONSOLE /\ Faults(left)
          [] OTHER ->
               LET n == Min({left, MaxWrite})
               IN /\ Faults(n) /\ file.off <= Len(s.ino[file.ip].data)
                  /\ file.off + n <= MAXFILE * BSIZE
                  /\ bmap(s, file.ip, file.off \div BSIZE).ok
sys_write(s, p, i) ==
  IF WritePanics(s, p, i) THEN Panic(s, "walk") ELSE filewrite(s, p, i)

(* A write waits for room in the pipe while somebody may still read. *)
WriteWaits(s, p, i) ==
  LET f == argfd(s, p, i.fd)
      q == s.pipe[s.file[f].pipe]
  IN /\ f # 0 /\ s.file[f].type = "pipe" /\ s.file[f].w
     /\ Len(IF i.copy THEN s.proc[p].buf ELSE i.units) > s.proc[p].done
     /\ q.readopen /\ Len(q.data) = PIPESIZE

-----------------------------------------------------------------------------
(* sysproc.c, and what a program does to memory by itself. *)

(* What is asked for, or -- sbrk(a - sbrk(0)) -- the way to an address. *)
Grows(s, p, i) == IF i.by.base = "brk" THEN i.by.off
                  ELSE Address(s, p, i.by) - s.proc[p].sz

(* Lazy growth only moves the size; vmfault() does the rest. *)
sys_sbrk(s, p, i) ==
  LET sz == s.proc[p].sz
      n == Grows(s, p, i)
      g == growproc(Mem(s, p), n)
      why == growprocPanics(Mem(s, p), n)
  IN IF i.lazy /\ n >= 0 THEN Return([s EXCEPT !.proc[p].sz = @ + n], p, sz)
     ELSE IF why # "" THEN Panic(s, why)
     ELSE Return(SetMem(s, p, g.mem), p, IF g.ok THEN sz ELSE -1)

(* usertrap() of a load or store: a page that is missing is faulted in, a  *)
(* wrong access kills the process.                                         *)
Access(s, p, i, write) ==
  LET a == Address(s, p, i.addr)
      v == Page(a)
      m == IF v \in DOMAIN s.proc[p].pt THEN Mem(s, p)
           ELSE vmfault(Mem(s, p), a)
  IN IF vmfaultPanics(Mem(s, p), a) THEN Panic(s, "walk")
     ELSE IF walkaddr(m, v) /\ (write => m.pt[v] = "rw")
     THEN Return(SetMem(s, p, m), p, 0)
     ELSE [s EXCEPT !.proc[p].killed = TRUE]

-----------------------------------------------------------------------------
(* The steps of a process. *)

(* What a program passes: addresses are numbers, strings and buffers are    *)
(* sequences, and counts are not negative.                                  *)
IsSeq(s) == s \in Seq(ToSet(s))
WellTyped(s, p, i) ==
  /\ i.op \in {"read", "write", "pipe", "fstat", "wait"} =>
       Address(s, p, i.addr) \in Int
  /\ i.op \in {"exec", "open", "mkdir", "mknod", "link", "unlink", "chdir"} =>
       IsSeq(i.path)
  /\ i.op = "link" => IsSeq(i.new)
  /\ i.op = "exec" => IsSeq(i.args)
  /\ i.op = "write" => IsSeq(i.units)
  /\ i.op = "read" => i.n \in Nat
  /\ i.op = "sbrk" => Grows(s, p, i) \in Int

Midway(p) == /\ k.proc[p].done > 0
             /\ k.file[argfd(k, p, Call(p).fd)].type = "inode"

(* p calls op; a killed process only ends a write to a file. *)
Runs(p, op) ==
  /\ k.panic = "" /\ k.proc[p].st = "used" /\ k.proc[p].code # <<>>
  /\ Call(p).op = op /\ WellTyped(k, p, Call(p))
  /\ k.proc[p].killed => Midway(p)

Does(p, op, Handler(_, _, _)) == Runs(p, op) /\ k' = Handler(k, p, Call(p))

FromRet(p, r) == k' = Return(r.k, p, r.ret)

ForkCall(p) == Runs(p, "fork") /\ FromRet(p, kfork(k, p, Call(p).child))
ExitCall(p) == Runs(p, "exit") /\ k' = kexit(k, p, Call(p).status)
WaitCall(p) ==
  /\ Runs(p, "wait")
  /\ Children(k, p) = {} \/ Zombies(k, p) # {}
  /\ FromRet(p, kwait(k, p, Call(p)))
KillCall(p) ==
  /\ Runs(p, "kill")
  /\ FromRet(p, kkill(k, Value(k, p, Call(p).pid)))
ExecCall(p) == Does(p, "exec", sys_exec)
OpenCall(p) == Does(p, "open", sys_open)
MkdirCall(p) == Does(p, "mkdir", sys_mkdir)
MknodCall(p) == Does(p, "mknod", sys_mknod)
LinkCall(p) == Does(p, "link", sys_link)
UnlinkCall(p) == Does(p, "unlink", sys_unlink)
ChdirCall(p) == Does(p, "chdir", sys_chdir)
DupCall(p) == Does(p, "dup", sys_dup)
CloseCall(p) == Does(p, "close", sys_close)
PipeCall(p) == Does(p, "pipe", sys_pipe)
FstatCall(p) == Does(p, "fstat", sys_fstat)
ReadCall(p) == Runs(p, "read") /\ ~ReadWaits(k, p, Call(p))
               /\ k' = sys_read(k, p, Call(p))
WriteCall(p) == Runs(p, "write") /\ ~WriteWaits(k, p, Call(p))
                /\ k' = sys_write(k, p, Call(p))
SbrkCall(p) == Does(p, "sbrk", sys_sbrk)
GetpidCall(p) == Runs(p, "getpid") /\ k' = Return(k, p, k.proc[p].pid)
(* How long a pause takes is the subject of module Terminal. *)
PauseCall(p) == Runs(p, "pause") /\ k' = Return(k, p, 0)

LoadAt(p) == Runs(p, "load") /\ k' = Access(k, p, Call(p), FALSE)
StoreAt(p) == Runs(p, "store") /\ k' = Access(k, p, Call(p), TRUE)
Compare(p) ==
  /\ Runs(p, "compare")
  /\ LET i == Call(p)
     IN k' = Return(k, p, IF Address(k, p, i.left) >= Address(k, p, i.right)
                          THEN 0 ELSE -1)
Choose(p) ==
  /\ Runs(p, "either")
  /\ \E b \in Call(p).branches :
       k' = [k EXCEPT !.proc[p].code = b \o Tail(@)]
ContinueAs(p) ==
  /\ Runs(p, "continue")
  /\ LET q == k.proc[p]
     IN k' = [k EXCEPT !.proc[p].code =
                          Resume(Call(p).then, q.buf, q.var) \o Tail(@)]

(* usertrap(): a killed process exits at its next trap. *)
Killed(p) ==
  /\ k.panic = "" /\ k.proc[p].st = "used" /\ k.proc[p].killed
  /\ k.proc[p].code # <<>> => ~Midway(p)
  /\ k' = kexit(k, p, -1)

Step(p) ==
  \/ ForkCall(p) \/ ExitCall(p) \/ WaitCall(p) \/ KillCall(p) \/ ExecCall(p)
  \/ OpenCall(p) \/ MkdirCall(p) \/ MknodCall(p) \/ LinkCall(p)
  \/ UnlinkCall(p) \/ ChdirCall(p) \/ DupCall(p) \/ CloseCall(p)
  \/ PipeCall(p) \/ FstatCall(p) \/ ReadCall(p) \/ WriteCall(p)
  \/ SbrkCall(p) \/ GetpidCall(p) \/ PauseCall(p) \/ LoadAt(p) \/ StoreAt(p)
  \/ Compare(p) \/ Choose(p) \/ ContinueAs(p) \/ Killed(p)
=============================================================================
