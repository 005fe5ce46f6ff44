------------------------------ MODULE UserCode ------------------------------
(***************************************************************************)
(* User programs as data.  A program is a sequence of instructions, each   *)
(* a system call with its arguments or a look at memory, together with     *)
(* what the program does with the result: an instruction whose result is   *)
(* in want goes on with the code ok, another with the code no.  When       *)
(* nothing is said a result is wanted that is not negative, and the        *)
(* program gives up with exit(1) otherwise, as nearly all calls in user/   *)
(* do.  Module Syscalls executes these programs.                           *)
(*                                                                         *)
(* Names of variables stand for the values in them, "3" for 3.  An address *)
(* is a variable and an offset, At("a", 2); Data is an address in the data *)
(* page of every program.  A path is a sequence of names, with "/" first   *)
(* when it is absolute.                                                    *)
(***************************************************************************)
EXTENDS Integers, Sequences, SequencesExt, TLC

Good == 0 .. 299
Bad == {-1}
AnyResult == -2 .. 299
At(base, off) == [base |-> base, off |-> off]
Abs(a) == At("0", a)
Numerals == {ToString(n) : n \in 0 .. 20}
atoi(v) == CHOOSE n \in 0 .. 20 : ToString(n) = v

(* skipelem(): the names of a path, however many slashes are between them. *)
Path(string) ==
  LET Char(j) == SubSeq(string, j, j)
      Add(names, j) == IF Char(j) = "/" THEN Append(names, "")
                       ELSE [names EXCEPT ![Len(names)] = @ \o Char(j)]
      names == FoldLeft(Add, <<"">>, [j \in 1 .. Len(string) |-> j])
  IN (IF string # "" /\ Char(1) = "/" THEN <<"/">> ELSE <<>>) \o
     SelectSeq(names, LAMBDA name : name # "")
Data == Abs(3)

Exit(status) == [op |-> "exit", status |-> status]
Do(op, args) ==
  args @@ [op |-> op, want |-> Good, ok |-> <<>>, no |-> <<Exit(1)>>,
           again |-> FALSE, to |-> ""]

(* What is done with a result. *)
Into(v, i) == [i EXCEPT !.to = v]
Returns(n, i) == [i EXCEPT !.want = {n}]
Fails(i) == [i EXCEPT !.want = Bad]
Ignored(i) == [i EXCEPT !.want = AnyResult]
If(i, ok, no) == [i EXCEPT !.ok = ok, !.no = no]
While(i, body) == [i EXCEPT !.ok = body, !.no = <<>>, !.again = TRUE]
For(s, Body(_)) == FlattenSeq([j \in DOMAIN s |-> Body(s[j])])
Times(n, body) == FlattenSeq([j \in 1 .. n |-> body])
Seq1(n) == [j \in 1 .. n |-> j]

(* The system calls; paths are sequences of names, units what is written. *)
Fork(child) == Do("fork", [child |-> child])
Wait == Do("wait", [status |-> {}, addr |-> Data])
WaitFor(statuses) == Do("wait", [status |-> statuses, addr |-> Data])
WaitAt(a) == Do("wait", [status |-> {0}, addr |-> a])
Pipe(r, w) == Do("pipe", [addr |-> Data, rto |-> r, wto |-> w])
Kill(v) == Do("kill", [pid |-> v])
Exec(path, args) == Do("exec", [path |-> path, args |-> args, addr |-> Data])
Dup(fd) == Do("dup", [fd |-> fd])
Close(fd) == Do("close", [fd |-> fd])
Getpid == Do("getpid", <<>>)
Pause == Do("pause", <<>>)
Sbrk(n) == Do("sbrk", [by |-> At("brk", n), lazy |-> FALSE])
SbrkTo(a) == Do("sbrk", [by |-> a, lazy |-> FALSE])   \* sbrk(a - sbrk(0))
SbrkLazy(n) == Do("sbrk", [by |-> At("brk", n), lazy |-> TRUE])
Open(path, mode) == Do("open", [path |-> path, mode |-> mode, addr |-> Data])
Mkdir(path) == Do("mkdir", [path |-> path, addr |-> Data])
Mknod(path, major) ==
  Do("mknod", [path |-> path, major |-> major, addr |-> Data])
Chdir(path) == Do("chdir", [path |-> path, addr |-> Data])
Unlink(path) == Do("unlink", [path |-> path, addr |-> Data])
Link(old, new) == Do("link", [path |-> old, new |-> new, addr |-> Data])
Fstat(fd, type) == Do("fstat", [fd |-> fd, type |-> type, addr |-> Data])
Read(fd, n) ==
  Do("read", [fd |-> fd, n |-> n, sees |-> <<>>, addr |-> Data])
ReadSees(fd, n, sees) == [Read(fd, n) EXCEPT !.sees = sees]
Loop(i, body) == While([i EXCEPT !.want = 1 .. 299], body)
Write(fd, units) ==
  Returns(Len(units), Do("write", [fd |-> fd, units |-> units, copy |-> FALSE,
                                   addr |-> Data]))
(* Writes what was read last. *)
WriteBack(fd) == [Write(fd, <<>>) EXCEPT !.want = Good, !.copy = TRUE]
From(a, i) == [i EXCEPT !.addr = a]

(* Memory accesses, comparisons and choices of the program itself. *)
Load(a) == Do("load", [addr |-> a])
Store(a) == Do("store", [addr |-> a])
AtLeast(a, b) == Do("compare", [left |-> a, right |-> b])
Same(a, b) == <<AtLeast(a, b), AtLeast(b, a)>>
Either(branches) == [op |-> "either", branches |-> branches]
Forever(i) == [Ignored(i) EXCEPT !.again = TRUE]
(* What comes next depends on what was read and on variables. *)
Continue(then) == [op |-> "continue", then |-> then]

RDONLY == {}
WRONLY == {"w"}
RDWR == {"rw"}
CREATE == {"create"}
TRUNC == {"trunc"}
CREAT(mode) == CREATE \cup mode
=============================================================================
