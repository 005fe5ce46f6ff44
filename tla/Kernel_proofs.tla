---------------------------- MODULE Kernel_proofs ----------------------------
(***************************************************************************)
(* The inductive invariant of Unix, and the lemmas about the tables of the *)
(* kernel that its proof rests on: the disk and its inodes, the memory of  *)
(* a process, the open files and the pipes; with them the system calls     *)
(* that work on nothing else.                                              *)
(*                                                                         *)
(* UnixInv says that every count is the number of its uses: what an        *)
(* inode's ref counts is current directories and open files, what a file's *)
(* ref counts is descriptors, a pipe's end is open as long as there is a   *)
(* file of it, the blocks of the inodes and the free ones are all the      *)
(* blocks, and the pages of the processes and pipes and the free ones are  *)
(* all the pages. In the middle of a system call this is not so: namei()   *)
(* has returned an inode that nothing refers to yet, pipealloc() a file    *)
(* that is in no descriptor, kalloc() a page that is mapped nowhere. The   *)
(* lemmas are therefore about Fine(s, x, y, t): state s is right when x[i] *)
(* references to inode i, y[f] references to file f and t pages are in     *)
(* hand. Idle(s) is Fine with nothing in hand, and Ready(s, p) that it is  *)
(* so and process p runs.                                                  *)
(*                                                                         *)
(* Names end in what a lemma says: ...Is, what an operator returns or      *)
(* which fields it changes; ...Fs, that it keeps FsOk, the part of Fine    *)
(* about the file system, and gives back or takes a reference; ...Mem,     *)
(* that it keeps the pages of an address space; ...Fine, that it leads     *)
(* from a Fine state to a Fine one, with what is in hand changed as        *)
(* stated; ...Idle, that a whole call leaves nothing in hand. Operators    *)
(* named ...Result, ...Tree or ...Unfold say what a call returns in parts  *)
(* that have names.                                                        *)
(***************************************************************************)
EXTENDS Unix, FiniteSetTheorems, SequenceTheorems, TLAPS

-----------------------------------------------------------------------------
(* Numbers, and the walk of namex() along the elements of a path.          *)

(* A set of numbers that is not empty has a least one.                     *)
LEMMA LeastIsIn ==
  ASSUME NEW S \in SUBSET Nat, S # {}
  PROVE  \E d \in S : \A e \in S : d <= e
<1> DEFINE T == {0 .. d : d \in S}
<1>1. T \subseteq FiniteSubsetsOf(Nat) /\ T # {}
  <2>1. \A d \in S : IsFiniteSet(0 .. d) /\ 0 .. d \in SUBSET Nat
    BY FS_Interval
  <2> QED BY <2>1 DEF FiniteSubsetsOf
<1>2. PICK x \in T : \A y \in T : <<y, x>> \notin StrictSubsetOrdering(Nat)
  <2> HIDE DEF T
  <2> QED BY <1>1, FS_StrictSubsetOrderingWellFounded, WFMin
<1>3. PICK d \in S : x = 0 .. d
  OBVIOUS
<1>4. ASSUME NEW e \in S, e < d
      PROVE  FALSE
  <2>1. 0 .. e \in T /\ 0 .. e # 0 .. d /\ 0 .. e \subseteq 0 .. d
    BY <1>4
  <2>2. 0 .. e \in SUBSET Nat /\ 0 .. d \in SUBSET Nat
    OBVIOUS
  <2>3. <<0 .. e, 0 .. d>> \in StrictSubsetOrdering(Nat)
    BY <2>1, <2>2 DEF StrictSubsetOrdering
  <2> HIDE DEF T
  <2> QED BY <1>2, <1>3, <2>1, <2>3
<1> QED BY <1>4

(* Step by step from a to b.                                               *)
LEMMA Climb ==
  ASSUME NEW a \in Int, NEW b \in Int, NEW S, a \in S,
         \A j \in a .. b - 1 : j \in S => j + 1 \in S
  PROVE  a .. b \subseteq S
<1> DEFINE Missed == {d \in Nat : a + d <= b /\ a + d \notin S}
<1>1. SUFFICES ASSUME Missed # {} PROVE FALSE
  <2>1. ASSUME NEW j \in a .. b, j \notin S, Missed = {}
        PROVE  FALSE
    <3>1. j - a \in Nat /\ a + (j - a) = j /\ j <= b
      OBVIOUS
    <3>2. j - a \in Missed
      BY <2>1, <3>1
    <3> QED BY <2>1, <3>2
  <2> QED BY <2>1
<1>2. PICK d \in Missed : \A e \in Missed : d <= e
  <2>1. Missed \in SUBSET Nat
    OBVIOUS
  <2> HIDE DEF Missed
  <2> QED BY <1>1, <2>1, LeastIsIn
<1>3. d # 0
  BY <1>2
<1>4. d - 1 \in Nat /\ a + (d - 1) <= b - 1 /\ a + (d - 1) >= a /\ a + (d - 1) + 1 = a + d
  BY <1>2, <1>3
<1>5. a + (d - 1) \in S
  BY <1>2, <1>4
<1> QED BY <1>2, <1>4, <1>5

(* The walk is a sequence of states, one for each element of the path.     *)
LEMMA NamexIs ==
  ASSUME NEW start, NEW names, NEW n \in Nat
  PROVE  \E at : /\ at[0] = start
                 /\ \A j \in 1 .. n : at[j] = Follow(at[j - 1], names[j])
                 /\ namex(start, names, n) = at[n]
<1> DEFINE Fn(f, m) == [j \in 0 .. m |->
                          IF j = 0 THEN start ELSE Follow(f[j - 1], names[j])]
           S == {m \in 0 .. n : \E f : f = Fn(f, m)}
<1>1. 0 \in S
  <2>1. [j \in 0 .. 0 |-> start] = Fn([j \in 0 .. 0 |-> start], 0)
    OBVIOUS
  <2>2. \E f : f = Fn(f, 0)
    BY <2>1
  <2> QED BY <2>2
<1>2. ASSUME NEW m \in 0 .. n - 1, m \in S
      PROVE  m + 1 \in S
  <2>1. PICK f : f = Fn(f, m)
    BY <1>2
  <2> DEFINE g == [j \in 0 .. m + 1 |-> IF j = m + 1 THEN Follow(f[m], names[m + 1]) ELSE f[j]]
  <2>2. g = Fn(g, m + 1) /\ m + 1 \in 0 .. n
    <3>1. ASSUME NEW j \in 0 .. m + 1
          PROVE  g[j] = IF j = 0 THEN start ELSE Follow(g[j - 1], names[j])
      <4>1. CASE j = m + 1
        BY <4>1
      <4>2. CASE j \in 0 .. m
        <5>1. f[j] = IF j = 0 THEN start ELSE Follow(f[j - 1], names[j])
          BY <2>1, <4>2
        <5>2. g[j] = f[j] /\ (j # 0 => g[j - 1] = f[j - 1])
          BY <4>2
        <5> QED BY <5>1, <5>2
      <4> QED BY <4>1, <4>2
    <3> HIDE DEF g
    <3>2. g = [j \in 0 .. m + 1 |-> g[j]]
      BY DEF g
    <3>3. g = Fn(g, m + 1)
      BY <3>1, <3>2
    <3> QED BY <3>3
  <2>3. \E h : h = Fn(h, m + 1)
    <3> HIDE DEF g
    <3> QED BY <2>2
  <2> QED BY <2>2, <2>3
<1>3. n \in S
  <2> HIDE DEF S
  <2>1. 0 .. n \subseteq S
    BY <1>1, <1>2, Climb
  <2> QED BY <2>1
<1> DEFINE at == CHOOSE f : f = Fn(f, n)
<1>4. at = Fn(at, n)
  BY <1>3
<1>5. namex(start, names, n) = at[n]
  BY DEF namex
<1>6. at[0] = start /\ \A j \in 1 .. n : at[j] = Follow(at[j - 1], names[j])
  <2> HIDE DEF at
  <2> QED BY <1>4
<1> HIDE DEF at
<1> QED BY <1>5, <1>6

-----------------------------------------------------------------------------
(* The invariant.                                                          *)

Inums == 1 .. NINODES
Filenums == 1 .. NFILE
Fds == 0 .. NOFILE - 1

(* The shapes of a kernel state and of the entries of its tables.          *)
IsK(s) ==
  s = [ino |-> s.ino, ref |-> s.ref, bfree |-> s.bfree, file |-> s.file,
       pipe |-> s.pipe, pages |-> s.pages, free |-> s.free,
       panic |-> s.panic, proc |-> s.proc, nextpid |-> s.nextpid,
       tty |-> s.tty]
IsInode(d) ==
  /\ d = [type |-> d.type, nlink |-> d.nlink, major |-> d.major,
          data |-> d.data, nblk |-> d.nblk, ind |-> d.ind]
  /\ d.nblk \in Nat /\ d.ind \in BOOLEAN /\ IsSeq(d.data)
FileFields == {"ref", "type", "r", "w", "ip", "off", "pipe", "major"}
IsFile(f) ==
  /\ f = [n \in FileFields |-> f[n]]
  /\ f.ref \in Nat /\ f.off \in Nat /\ f.w \in BOOLEAN
  /\ f.type \in {"none", "pipe", "inode", "device"}
  /\ f.type = "none" => ~f.r /\ ~f.w
PipeFields == {"data", "readopen", "writeopen"}
IsPipe(q) ==
  /\ q = [n \in PipeFields |-> q[n]]
  /\ IsSeq(q.data) /\ Len(q.data) <= PIPESIZE
  /\ q.readopen \in BOOLEAN /\ q.writeopen \in BOOLEAN
ProcFields == {"st", "pid", "parent", "killed", "xstate", "fd", "cwd", "sz",
               "pt", "code", "var", "done", "buf"}
IsProc(r) ==
  /\ r = [n \in ProcFields |-> r[n]]
  /\ r.sz \in Nat /\ r.done \in Nat /\ IsSeq(r.buf)
  /\ r.done > 0 => LET i == Head(r.code)
                   IN /\ i.op = "write"
                      /\ r.done <= Len(IF i.copy THEN r.buf ELSE i.units)
  /\ r.fd \in [Fds -> 0 .. NFILE]

(* An inode: the indirect block is there when there are more blocks than   *)
(* direct ones; a free one has no blocks, and a directory names inodes.    *)
InodeOk(d) ==
  /\ IsInode(d)
  /\ ~d.ind => d.nblk <= NDIRECT
  /\ d.type = "free" => d.nblk = 0 /\ ~d.ind
  /\ d.type = "dir" => \A j \in 1 .. Len(d.data) : d.data[j][2] \in 0 .. NINODES
Disk(ino, bfree) ==
  /\ ino = [i \in Inums |-> ino[i]] /\ \A i \in Inums : InodeOk(ino[i])
  /\ bfree \in Nat /\ bfree + Blocks(ino) = NBLOCKS

(* References: x[i] of inode i are in hand, neither a current directory    *)
(* nor in a file.                                                          *)
Cwds(proc, i) == {p \in Slots : proc[p].st = "used" /\ proc[p].cwd = i}
Opened(file, i) ==
  {f \in Filenums : file[f].type \in {"inode", "device"} /\ file[f].ip = i}
Refs(ref, proc, file, x) ==
  /\ ref \in [Inums -> Nat]
  /\ \A i \in Inums :
       ref[i] = Cardinality(Cwds(proc, i)) + Cardinality(Opened(file, i)) + x[i]
InUseOnly(ino, proc, file) ==
  /\ \A p \in Slots : proc[p].st = "used" =>
       proc[p].cwd \in Inums /\ ino[proc[p].cwd].type # "free"
  /\ \A f \in Filenums : file[f].type \in {"inode", "device"} =>
       /\ file[f].ip \in Inums /\ ino[file[f].ip].type # "free"
       /\ file[f].type = "inode" /\ file[f].w =>
            ino[file[f].ip].type # "dir"

(* Descriptors: y[f] references to file f are in hand.                     *)
Descriptors(proc, f) ==
  {d \in Slots \X Fds : proc[d[1]].fd[d[2]] = f}
Files0(file, proc, y) ==
  /\ file = [f \in Filenums |-> file[f]]
  /\ \A f \in Filenums :
       /\ IsFile(file[f])
       /\ file[f].ref = Cardinality(Descriptors(proc, f)) + y[f]
       /\ file[f].ref = 0 => file[f].type = "none"

(* Pipes: an end is open as long as there is a file of it, and there is    *)
(* only one.                                                               *)
EndFiles(file, q, w) ==
  {f \in Filenums : file[f].type = "pipe" /\ file[f].pipe = q /\ file[f].w = w}
Pipes(file, pipe) ==
  /\ DOMAIN pipe \subseteq Filenums
  /\ \A q \in DOMAIN pipe :
       /\ IsPipe(pipe[q]) /\ (pipe[q].readopen \/ pipe[q].writeopen)
       /\ pipe[q].readopen = (EndFiles(file, q, FALSE) # {})
       /\ pipe[q].writeopen = (EndFiles(file, q, TRUE) # {})
  /\ \A f \in Filenums : file[f].type = "pipe" => file[f].pipe \in DOMAIN pipe
  /\ \A f, g \in Filenums :
       file[f].type = "pipe" /\ file[g].type = "pipe" /\
       file[f].pipe = file[g].pipe /\ file[f].w = file[g].w => f = g

(* Pages: t of them are in hand.                                           *)
Taken(proc) == {p \in Slots : proc[p].st # "unused"}
Mapped(proc) == UNION {{p} \X DOMAIN proc[p].pt : p \in Slots}
Pages0(free, proc, pipe, pages, t) ==
  /\ free \in Nat
  /\ free + t + Cardinality(DOMAIN pipe) + 2 * Cardinality(Taken(proc)) +
       Cardinality(Mapped(proc)) = pages

Procs0(proc) ==
  /\ proc = [p \in Slots |-> proc[p]]
  /\ \A p \in Slots :
       /\ IsProc(proc[p])
       /\ DOMAIN proc[p].pt \subseteq 0 .. PGROUNDUP(proc[p].sz) - 1
       /\ proc[p].st = "unused" => DOMAIN proc[p].pt = {}
       /\ proc[p].st # "used" => \A d \in Fds : proc[p].fd[d] = 0

Good1(s, x, y, t) ==
  /\ IsK(s) /\ s.panic = "" /\ IsSeq(s.tty)
  /\ Disk(s.ino, s.bfree)
  /\ Refs(s.ref, s.proc, s.file, x)
  /\ InUseOnly(s.ino, s.proc, s.file)
  /\ Files0(s.file, s.proc, y)
  /\ Pipes(s.file, s.pipe)
  /\ Pages0(s.free, s.proc, s.pipe, s.pages, t)
  /\ Procs0(s.proc)

UnixInv == /\ KnownPanics
           /\ k.panic = "" => Good1(k, [i \in Inums |-> 0], [f \in Filenums |-> 0], 0)

-----------------------------------------------------------------------------
(* Sizes of sets: what one element more or less changes.                   *)

(* The tables are finite.                                                  *)
LEMMA SetsFinite ==
  /\ IsFiniteSet(Slots) /\ IsFiniteSet(Inums) /\ IsFiniteSet(Filenums)
  /\ IsFiniteSet(Fds) /\ Cardinality(Filenums) = NFILE
<1>1. NPROC \in Nat /\ NINODES \in Nat /\ NFILE \in Nat /\ NOFILE - 1 \in Int
      /\ 0 \in Int /\ 1 \in Int
  BY FilesAssumption, SyscallsAssumption
<1>2. IsFiniteSet(1 .. NPROC) /\ IsFiniteSet(1 .. NINODES)
      /\ IsFiniteSet(0 .. NOFILE - 1)
  BY <1>1, FS_Interval
<1>3. IsFiniteSet(1 .. NFILE) /\ Cardinality(1 .. NFILE) = NFILE
  BY <1>1, FS_Interval
<1> QED BY <1>2, <1>3 DEF Slots, Inums, Filenums, Fds

(* Two sets that differ in one element at most.                            *)
LEMMA OnePoint ==
  ASSUME NEW S, NEW T, NEW a, IsFiniteSet(S), S \ {a} = T \ {a}
  PROVE  /\ IsFiniteSet(T) /\ Cardinality(S) \in Nat /\ Cardinality(T) \in Nat
         /\ Cardinality(T) + (IF a \in S THEN 1 ELSE 0) =
              Cardinality(S) + (IF a \in T THEN 1 ELSE 0)
         /\ a \in S => Cardinality(S) > 0
<1>1. IsFiniteSet(S \ {a}) /\ Cardinality(S \ {a}) = IF a \in S THEN Cardinality(S) - 1 ELSE Cardinality(S)
  BY FS_RemoveElement
<1>2. IsFiniteSet(T)
  <2>1. IsFiniteSet((T \ {a}) \cup {a})
    BY <1>1, FS_AddElement
  <2>2. T \in SUBSET ((T \ {a}) \cup {a})
    OBVIOUS
  <2> QED BY <2>1, <2>2, FS_Subset
<1>3. Cardinality(T \ {a}) = IF a \in T THEN Cardinality(T) - 1 ELSE Cardinality(T)
  BY <1>2, FS_RemoveElement
<1>4. Cardinality(S) \in Nat /\ Cardinality(T) \in Nat /\ Cardinality(S \ {a}) \in Nat
  BY <1>1, <1>2, FS_CardinalityType
<1> QED BY <1>1, <1>2, <1>3, <1>4, SMTT(40)

(* Pairs with the same first component.                                    *)
LEMMA SameSize ==
  ASSUME NEW a, NEW D, IsFiniteSet(D)
  PROVE  /\ IsFiniteSet({a} \X D) /\ Cardinality({a} \X D) = Cardinality(D)
         /\ Cardinality(D) \in Nat
<1>1. IsFiniteSet({a}) /\ Cardinality({a}) = 1
  BY FS_Singleton
<1>2. Cardinality(D) \in Nat
  BY FS_CardinalityType
<1>3. IsFiniteSet({a} \X D) /\ Cardinality({a} \X D) = Cardinality({a}) * Cardinality(D)
  BY <1>1, FS_Product
<1> QED BY <1>1, <1>2, <1>3

(* The pairs of a member of S and an element of its set.                   *)
Pairs(S, g) == UNION {{q} \X g[q] : q \in S}

(* Finitely many pairs, if each first component has finitely many          *)
(* partners.                                                               *)
LEMMA PairsFinite ==
  ASSUME NEW S, IsFiniteSet(S), NEW g, \A q \in S : IsFiniteSet(g[q])
  PROVE  IsFiniteSet(Pairs(S, g)) /\ Cardinality(Pairs(S, g)) \in Nat
<1> DEFINE F == [q \in S |-> {q} \X g[q]]
           T == {{q} \X g[q] : q \in S}
<1>1. F \in Surjection(S, T)
  <2>1. F \in [S -> T] /\ \A u \in T : \E q \in S : F[q] = u
    OBVIOUS
  <2> HIDE DEF F, T
  <2> QED BY <2>1 DEF Surjection
<1>2. IsFiniteSet(T)
  <2> HIDE DEF F, T
  <2> QED BY <1>1, FS_Surjection
<1>3. ASSUME NEW u \in T PROVE IsFiniteSet(u)
  <2>1. PICK q \in S : u = {q} \X g[q]
    OBVIOUS
  <2>2. IsFiniteSet(g[q])
    OBVIOUS
  <2> HIDE DEF T
  <2> QED BY <2>1, <2>2, SameSize
<1>4. IsFiniteSet(UNION T)
  <2> HIDE DEF T
  <2> QED BY <1>2, <1>3, FS_UNION
<1> QED BY <1>4, FS_CardinalityType DEF Pairs

(* Pairs, split by one first component.                                    *)
LEMMA PairsSplit ==
  ASSUME NEW S, IsFiniteSet(S), NEW g, \A q \in S : IsFiniteSet(g[q]),
         NEW p \in S
  PROVE  /\ Cardinality(Pairs(S, g)) =
              Cardinality(Pairs(S \ {p}, g)) + Cardinality(g[p])
         /\ Cardinality(Pairs(S \ {p}, g)) \in Nat
         /\ Cardinality(Pairs(S, g)) \in Nat
         /\ Cardinality(g[p]) \in Nat
<1> DEFINE R == Pairs(S \ {p}, g)
           P == {p} \X g[p]
<1>1. IsFiniteSet(S \ {p})
  BY FS_RemoveElement
<1>2. IsFiniteSet(R) /\ Cardinality(R) \in Nat
  BY <1>1, PairsFinite
<1>3. IsFiniteSet(P) /\ Cardinality(P) = Cardinality(g[p]) /\ Cardinality(g[p]) \in Nat
  BY SameSize
<1>4. Pairs(S, g) = R \cup P /\ R \cap P = {}
  BY DEF Pairs
<1>5. Cardinality(R \cup P) = Cardinality(R) + Cardinality(P) - Cardinality(R \cap P)
  BY <1>2, <1>3, FS_Union
<1>6. Cardinality(R \cap P) = 0
  BY <1>4, FS_EmptySet
<1> HIDE DEF R, P
<1>7. Cardinality(Pairs(S, g)) = Cardinality(R) + Cardinality(g[p])
  BY <1>2, <1>3, <1>4, <1>5, <1>6
<1> QED BY <1>2, <1>3, <1>7 DEF R

(* One set changes.                                                        *)
LEMMA PairsChange ==
  ASSUME NEW S, IsFiniteSet(S), NEW g, \A q \in S : IsFiniteSet(g[q]),
         NEW h, NEW p \in S, IsFiniteSet(h[p]),
         \A q \in S : q # p => h[q] = g[q]
  PROVE  /\ Cardinality(Pairs(S, h)) + Cardinality(g[p]) =
              Cardinality(Pairs(S, g)) + Cardinality(h[p])
         /\ Cardinality(Pairs(S, h)) \in Nat /\ Cardinality(Pairs(S, g)) \in Nat
         /\ Cardinality(g[p]) \in Nat /\ Cardinality(h[p]) \in Nat
<1>1. Pairs(S \ {p}, g) = Pairs(S \ {p}, h)
  BY DEF Pairs
<1>2. \A q \in S : IsFiniteSet(h[q])
  OBVIOUS
<1>3. /\ Cardinality(Pairs(S, g)) = Cardinality(Pairs(S \ {p}, g)) + Cardinality(g[p])
      /\ Cardinality(Pairs(S \ {p}, g)) \in Nat
      /\ Cardinality(Pairs(S, g)) \in Nat
      /\ Cardinality(g[p]) \in Nat
  BY PairsSplit
<1>4. /\ Cardinality(Pairs(S, h)) = Cardinality(Pairs(S \ {p}, h)) + Cardinality(h[p])
      /\ Cardinality(Pairs(S, h)) \in Nat
      /\ Cardinality(h[p]) \in Nat
  BY <1>2, PairsSplit
<1> QED BY <1>1, <1>3, <1>4

-----------------------------------------------------------------------------
(* Updates of the disk and of the state, field by field.                   *)

(* What an inode holds is a number of blocks.                              *)
LEMMA HeldIs ==
  ASSUME NEW d, IsInode(d)
  PROVE  /\ Held(d) \in Nat /\ IsFiniteSet(1 .. Held(d))
         /\ Cardinality(1 .. Held(d)) = Held(d)
         /\ Held(d) = d.nblk + (IF d.ind THEN 1 ELSE 0)
<1>1. Held(d) \in Nat /\ Held(d) = d.nblk + (IF d.ind THEN 1 ELSE 0)
  BY DEF Held, IsInode
<1>2. IsFiniteSet(1 .. Held(d)) /\ Cardinality(1 .. Held(d)) = IF 1 > Held(d) THEN 0 ELSE Held(d) - 1 + 1
  BY <1>1, FS_Interval
<1> QED BY <1>1, <1>2

(* An inode changes, and the bitmap with it.                               *)
LEMMA DiskUpdate ==
  ASSUME NEW ino, NEW bfree, Disk(ino, bfree), NEW i \in Inums, NEW d,
         InodeOk(d), NEW c \in Nat, c + Held(d) = bfree + Held(ino[i])
  PROVE  Disk([ino EXCEPT ![i] = d], c)
<1> DEFINE new == [ino EXCEPT ![i] = d]
           g == [j \in Inums |-> 1 .. Held(ino[j])]
           h == [j \in Inums |-> 1 .. Held(new[j])]
<1>1. ino = [j \in Inums |-> ino[j]] /\ \A j \in Inums : InodeOk(ino[j])
  BY DEF Disk
<1>2. new = [j \in Inums |-> new[j]] /\ new[i] = d
      /\ \A j \in Inums : j # i => new[j] = ino[j]
  BY <1>1
<1>3. \A j \in Inums : InodeOk(new[j])
  BY <1>1, <1>2
<1>4. \A j \in Inums : IsFiniteSet(g[j])
  <2> SUFFICES ASSUME NEW j \in Inums PROVE IsFiniteSet(g[j])
    OBVIOUS
  <2>1. IsInode(ino[j])
    BY <1>1 DEF InodeOk
  <2> QED BY <2>1, HeldIs
<1>5. IsInode(d) /\ IsInode(ino[i])
  BY <1>1 DEF InodeOk
<1>6. /\ IsFiniteSet(h[i]) /\ Cardinality(h[i]) = Held(d)
      /\ Cardinality(g[i]) = Held(ino[i]) /\ Held(d) \in Nat /\ Held(ino[i]) \in Nat
  BY <1>2, <1>5, HeldIs
<1>7. \A j \in Inums : j # i => h[j] = g[j]
  BY <1>2
<1>8. /\ Cardinality(Pairs(Inums, h)) + Cardinality(g[i]) =
           Cardinality(Pairs(Inums, g)) + Cardinality(h[i])
      /\ Cardinality(Pairs(Inums, h)) \in Nat
      /\ Cardinality(Pairs(Inums, g)) \in Nat
  <2> HIDE DEF g, h, new
  <2> QED BY <1>4, <1>6, <1>7, SetsFinite, PairsChange
<1>9. Blocks(ino) = Cardinality(Pairs(Inums, g))
  <2>1. DOMAIN ino = Inums
    BY <1>1
  <2> QED BY <2>1 DEF Blocks, Pairs
<1>10. Blocks(new) = Cardinality(Pairs(Inums, h))
  <2>1. DOMAIN new = Inums
    BY <1>2
  <2> QED BY <2>1 DEF Blocks, Pairs
<1>11. bfree \in Nat /\ bfree + Blocks(ino) = NBLOCKS
  BY DEF Disk
<1> HIDE DEF g, h, new
<1>12. c + Blocks(new) = NBLOCKS
  <2>1. PICK B \in Nat, C \in Nat, H \in Nat, G \in Nat, e \in Nat, f \in Nat :
          /\ B = Blocks(ino) /\ C = Blocks(new) /\ H = Held(d)
          /\ G = Held(ino[i]) /\ e = bfree /\ f = c
          /\ C + G = B + H /\ f + H = e + G
    BY <1>6, <1>8, <1>9, <1>10, <1>11
  <2>2. f + C = e + B
    BY ONLY <2>1
  <2> QED BY <1>11, <2>1, <2>2
<1> QED BY <1>2, <1>3, <1>12 DEF Disk, new


(* What the file system leaves alone.                                      *)
Rest(s, r) ==
  /\ r.file = s.file /\ r.pipe = s.pipe /\ r.pages = s.pages
  /\ r.free = s.free /\ r.proc = s.proc /\ r.nextpid = s.nextpid
  /\ r.tty = s.tty

(* The state with other inodes.                                            *)
LEMMA SetIno ==
  ASSUME NEW s, IsK(s), NEW v
  PROVE  LET r == [s EXCEPT !.ino = v]
         IN IsK(r) /\ r.ino = v /\ r.bfree = s.bfree /\ r.ref = s.ref
            /\ r.panic = s.panic /\ Rest(s, r)
BY DEF IsK, Rest

(* The state with other free blocks.                                       *)
LEMMA SetBfree ==
  ASSUME NEW s, IsK(s), NEW v
  PROVE  LET r == [s EXCEPT !.bfree = v]
         IN IsK(r) /\ r.ino = s.ino /\ r.bfree = v /\ r.ref = s.ref
            /\ r.panic = s.panic /\ Rest(s, r)
BY DEF IsK, Rest

(* The state with another disk.                                            *)
LEMMA SetDisk ==
  ASSUME NEW s, IsK(s), NEW v, NEW b
  PROVE  LET r == [s EXCEPT !.ino = v, !.bfree = b]
         IN IsK(r) /\ r.ino = v /\ r.bfree = b /\ r.ref = s.ref
            /\ r.panic = s.panic /\ Rest(s, r)
<1> DEFINE q == [s EXCEPT !.ino = v]
<1>1. IsK(q) /\ q.ino = v /\ q.bfree = s.bfree /\ q.ref = s.ref
      /\ q.panic = s.panic /\ Rest(s, q)
  BY SetIno
<1> HIDE DEF q
<1> DEFINE r == [q EXCEPT !.bfree = b]
<1>2. IsK(r) /\ r.ino = q.ino /\ r.bfree = b /\ r.ref = q.ref
      /\ r.panic = q.panic /\ Rest(q, r)
  BY <1>1, SetBfree
<1> HIDE DEF r
<1>3. IsK(r) /\ r.ino = v /\ r.bfree = b /\ r.ref = s.ref
      /\ r.panic = s.panic /\ Rest(s, r)
  BY <1>1, <1>2 DEF Rest
<1> QED BY <1>3 DEF r, q

(* The state with other counts of inodes.                                  *)
LEMMA SetRef ==
  ASSUME NEW s, IsK(s), NEW v
  PROVE  LET r == [s EXCEPT !.ref = v]
         IN IsK(r) /\ r.ino = s.ino /\ r.bfree = s.bfree /\ r.ref = v
            /\ r.panic = s.panic /\ Rest(s, r)
BY DEF IsK, Rest

(* The state after a panic.                                                *)
LEMMA SetPanic ==
  ASSUME NEW s, IsK(s), NEW v
  PROVE  LET r == Panic(s, v)
         IN IsK(r) /\ r.ino = s.ino /\ r.bfree = s.bfree /\ r.ref = s.ref
            /\ r.panic = (IF s.panic = "" THEN v ELSE s.panic) /\ Rest(s, r)
<1> DEFINE w == IF s.panic = "" THEN v ELSE s.panic
           r == [s EXCEPT !.panic = w]
<1>1. Panic(s, v) = r
  BY DEF Panic
<1>2. IsK(r) /\ r.ino = s.ino /\ r.bfree = s.bfree /\ r.ref = s.ref
      /\ r.panic = w /\ Rest(s, r)
  <2> HIDE DEF w
  <2> QED BY DEF IsK, Rest
<1> HIDE DEF r
<1> QED BY <1>1, <1>2

(* Two steps that leave the rest alone.                                    *)
LEMMA RestTwice ==
  ASSUME NEW s, NEW r, NEW u, Rest(s, r), Rest(r, u)
  PROVE  Rest(s, u)
BY DEF Rest

(* Of an inode that gets blocks the contents and the rest stay the same.   *)
SameButBlocks(d, e) ==
  /\ e.type = d.type /\ e.nlink = d.nlink /\ e.major = d.major
  /\ e.data = d.data
(* r differs from s in the blocks of inode i, which come from the bitmap.  *)
Grown(s, r, i) ==
  /\ IsK(r) /\ Rest(s, r) /\ r.panic = s.panic /\ r.ref = s.ref
  /\ r.ino = [s.ino EXCEPT ![i] = r.ino[i]]
  /\ SameButBlocks(s.ino[i], r.ino[i]) /\ InodeOk(r.ino[i])
  /\ r.bfree \in Nat
  /\ r.bfree + Held(r.ino[i]) = s.bfree + Held(s.ino[i])

(* Growing by nothing.                                                     *)
LEMMA GrownSelf ==
  ASSUME NEW s, IsK(s), NEW i \in Inums, Disk(s.ino, s.bfree)
  PROVE  Grown(s, s, i)
<1>1. s.ino = [j \in Inums |-> s.ino[j]] /\ InodeOk(s.ino[i]) /\ s.bfree \in Nat
  BY DEF Disk
<1>2. [s.ino EXCEPT ![i] = s.ino[i]] = s.ino
  BY <1>1
<1> QED BY <1>1, <1>2 DEF Grown, SameButBlocks, Rest

(* What growing leaves alone.                                              *)
LEMMA GrownFields ==
  ASSUME NEW s, NEW r, IsK(s), NEW i \in Inums, Disk(s.ino, s.bfree),
         Grown(s, r, i)
  PROVE  Disk(r.ino, r.bfree)
<1>1. /\ InodeOk(r.ino[i]) /\ r.bfree \in Nat
      /\ r.bfree + Held(r.ino[i]) = s.bfree + Held(s.ino[i])
      /\ r.ino = [s.ino EXCEPT ![i] = r.ino[i]]
  BY DEF Grown
<1>2. Disk([s.ino EXCEPT ![i] = r.ino[i]], r.bfree)
  BY <1>1, DiskUpdate
<1> QED BY <1>1, <1>2

(* Growing twice.                                                          *)
LEMMA GrownTwice ==
  ASSUME NEW s, NEW r, NEW u, IsK(s), NEW i \in Inums, Disk(s.ino, s.bfree),
         Grown(s, r, i), Grown(r, u, i)
  PROVE  Grown(s, u, i)
<1>1. r.ino = [s.ino EXCEPT ![i] = r.ino[i]] /\ u.ino = [r.ino EXCEPT ![i] = u.ino[i]]
  BY DEF Grown
<1>2. u.ino = [s.ino EXCEPT ![i] = u.ino[i]]
  <2>1. s.ino = [j \in Inums |-> s.ino[j]]
    BY DEF Disk
  <2> QED BY <1>1, <2>1
<1>3. SameButBlocks(s.ino[i], u.ino[i]) /\ u.ref = s.ref /\ u.panic = s.panic
  BY DEF Grown, SameButBlocks
<1>4. Rest(s, u)
  BY RestTwice DEF Grown
<1>5. u.bfree + Held(u.ino[i]) = s.bfree + Held(s.ino[i])
  BY DEF Grown
<1> QED BY <1>2, <1>3, <1>4, <1>5 DEF Grown

-----------------------------------------------------------------------------
(* Arithmetic of blocks, and bmap(): blocks move from the free ones to the *)
(* inode.                                                                  *)

(* The smaller of two numbers.                                             *)
LEMMA MinTwo ==
  ASSUME NEW a \in Int, NEW b \in Int
  PROVE  Min({a, b}) = IF a <= b THEN a ELSE b
BY DEF Min

(* The larger of two numbers.                                              *)
LEMMA MaxTwo ==
  ASSUME NEW a \in Int, NEW b \in Int
  PROVE  Max({a, b}) = IF a >= b THEN a ELSE b
BY DEF Max

(* The least element of a set.                                             *)
LEMMA SmallestOf ==
  ASSUME NEW S \in SUBSET Nat, S # {}
  PROVE  Min(S) \in S
<1>1. \E d \in S : \A e \in S : d <= e
  BY LeastIsIn
<1> QED BY <1>1 DEF Min

(* Quotients are numbers.                                                  *)
LEMMA DivType ==
  ASSUME NEW a \in Int, NEW d \in Nat \ {0}
  PROVE  a \div d \in Int
OBVIOUS

(* A quotient grows with the dividend.                                     *)
LEMMA DivGrows ==
  ASSUME NEW a \in Int, NEW b \in Int, a <= b, NEW d \in Nat \ {0}
  PROVE  a \div d <= b \div d
<1> DEFINE q == a \div d
           e == b \div d
<1>1. q \in Int /\ e \in Int /\ d * q <= a /\ b < d * e + d
  OBVIOUS
<1> HIDE DEF q, e
<1>2. ASSUME q >= e + 1 PROVE FALSE
  <2>1. d * q >= d * (e + 1)
    BY <1>1, <1>2
  <2>2. d * (e + 1) = d * e + d
    BY <1>1
  <2> QED BY <1>1, <2>1, <2>2
<1>3. q <= e
  BY <1>1, <1>2
<1> QED BY <1>3 DEF q, e

(* A function on 1 .. n is a sequence.                                     *)
LEMMA FcnIsSeq ==
  ASSUME NEW n \in Nat, NEW S, NEW f \in [1 .. n -> S]
  PROVE  IsSeq(f) /\ Len(f) = n
<1>1. f \in [1 .. n -> ToSet(f)]
  BY DEF ToSet
<1>2. f \in Seq(ToSet(f)) /\ Len(f) = n
  BY <1>1
<1> QED BY <1>2 DEF IsSeq

(* What a sequence is.                                                     *)
LEMMA SeqIs ==
  ASSUME NEW f, IsSeq(f)
  PROVE  Len(f) \in Nat /\ f = [j \in 1 .. Len(f) |-> f[j]] /\ DOMAIN f = 1 .. Len(f)
<1>1. f \in Seq(ToSet(f))
  BY DEF IsSeq
<1> QED BY <1>1

(* An inode that has got its indirect block.                               *)
LEMMA SetInd ==
  ASSUME NEW e, IsInode(e), NEW b \in BOOLEAN
  PROVE  LET d == [e EXCEPT !.ind = b]
         IN IsInode(d) /\ d.type = e.type /\ d.nlink = e.nlink
            /\ d.major = e.major /\ d.data = e.data /\ d.nblk = e.nblk
            /\ d.ind = b
BY DEF IsInode

(* A block of inode i, if one can be had.                                  *)
LEMMA BmapGrows ==
  ASSUME NEW s, IsK(s), NEW i \in Inums, Disk(s.ino, s.bfree),
         s.ino[i].type # "free", NEW bn \in Int
  PROVE  Grown(s, bmap(s, i, bn).k, i)
<1> DEFINE ind == bn >= NDIRECT /\ ~s.ino[i].ind
           b1 == balloc(s)
           k1 == IF ind THEN [b1.k EXCEPT !.ino[i].ind = TRUE] ELSE s
           b2 == balloc(k1)
<1>1. s.ino = [j \in Inums |-> s.ino[j]] /\ InodeOk(s.ino[i]) /\ s.bfree \in Nat
  BY DEF Disk
<1>2. CASE bn < s.ino[i].nblk
  BY <1>2, GrownSelf DEF bmap
<1>3. CASE ~(bn < s.ino[i].nblk) /\ ind /\ ~b1.ok
  <2>1. b1.k = s
    BY <1>3 DEF balloc
  <2> QED BY <2>1, <1>3, GrownSelf DEF bmap
<1>4. CASE ~(bn < s.ino[i].nblk) /\ ~(ind /\ ~b1.ok)
  <2>1. Grown(s, k1, i) /\ k1.ino[i].nblk = s.ino[i].nblk
        /\ (bn >= NDIRECT => k1.ino[i].ind)
    <3>1. CASE ind
      <4> DEFINE d == [s.ino[i] EXCEPT !.ind = TRUE]
                 v == [s.ino EXCEPT ![i] = d]
      <4>1. b1.k = [s EXCEPT !.bfree = s.bfree - 1] /\ s.bfree > 0
        BY <1>4, <3>1 DEF balloc
      <4> DEFINE q == [s EXCEPT !.bfree = s.bfree - 1]
      <4>2. IsK(q) /\ q.ino = s.ino /\ q.bfree = s.bfree - 1 /\ q.ref = s.ref
            /\ q.panic = s.panic /\ Rest(s, q)
        BY SetBfree
      <4>3. k1 = [b1.k EXCEPT !.ino[i].ind = TRUE]
        BY <3>1
      <4> HIDE DEF q
      <4>4. k1 = [q EXCEPT !.ino = v]
        BY <4>1, <4>2, <4>3 DEF q
      <4> DEFINE r == [q EXCEPT !.ino = v]
      <4>5. IsK(r) /\ r.ino = v /\ r.bfree = q.bfree /\ r.ref = q.ref
            /\ r.panic = q.panic /\ Rest(q, r)
        BY <4>2, SetIno
      <4> HIDE DEF r
      <4>6. r.ino[i] = d
        BY <4>5, <1>1
      <4>7. IsInode(s.ino[i])
        BY <1>1 DEF InodeOk
      <4>8. IsInode(d) /\ d.type = s.ino[i].type /\ d.nlink = s.ino[i].nlink
            /\ d.major = s.ino[i].major /\ d.data = s.ino[i].data
            /\ d.nblk = s.ino[i].nblk /\ d.ind = TRUE
        BY <4>7, SetInd
      <4> HIDE DEF d
      <4>9. Held(d) = Held(s.ino[i]) + 1 /\ Held(s.ino[i]) \in Nat
        BY <4>7, <4>8, <3>1, HeldIs DEF IsInode
      <4>10. InodeOk(d) /\ SameButBlocks(s.ino[i], d)
        BY <4>8, <1>1 DEF InodeOk, SameButBlocks
      <4>11. Grown(s, r, i)
        <5>1. Rest(s, r)
          BY <4>2, <4>5, RestTwice
        <5>2. r.bfree \in Nat /\ r.bfree + Held(d) = s.bfree + Held(s.ino[i])
          BY <4>1, <4>2, <4>5, <4>9, <1>1
        <5> QED BY <4>2, <4>5, <4>6, <4>10, <5>1, <5>2 DEF Grown
      <4> QED BY <4>4, <4>6, <4>8, <4>11 DEF r
    <3>2. CASE ~ind
      <4>1. s.ino[i].ind \in BOOLEAN
        BY <1>1 DEF InodeOk, IsInode
      <4> QED BY <3>2, <4>1, GrownSelf
    <3> QED BY <3>1, <3>2
  <2> HIDE DEF k1
  <2>2. IsK(k1) /\ Disk(k1.ino, k1.bfree) /\ k1.ino[i].type # "free"
    BY <2>1, GrownFields DEF Grown, SameButBlocks
  <2>3. k1.ino = [j \in Inums |-> k1.ino[j]] /\ InodeOk(k1.ino[i]) /\ k1.bfree \in Nat
    BY <2>2 DEF Disk
  <2>4. CASE ~b2.ok
    <3>1. b2.k = k1
      BY <2>4 DEF balloc
    <3> QED BY <3>1, <2>4, <1>4, <2>1 DEF bmap, k1
  <2>5. CASE b2.ok
    <3> DEFINE d == [k1.ino[i] EXCEPT !.nblk = @ + 1]
               v == [k1.ino EXCEPT ![i] = d]
               q == [k1 EXCEPT !.bfree = k1.bfree - 1]
    <3>1. b2.k = q /\ k1.bfree > 0
      BY <2>5 DEF balloc
    <3>2. IsK(q) /\ q.ino = k1.ino /\ q.bfree = k1.bfree - 1 /\ q.ref = k1.ref
          /\ q.panic = k1.panic /\ Rest(k1, q)
      BY <2>2, SetBfree
    <3>3. bmap(s, i, bn).k = [b2.k EXCEPT !.ino[i].nblk = @ + 1]
      BY <1>4, <2>5 DEF bmap, k1
    <3> HIDE DEF q
    <3>4. bmap(s, i, bn).k = [q EXCEPT !.ino = v]
      BY <3>1, <3>2, <3>3
    <3> DEFINE r == [q EXCEPT !.ino = v]
    <3>5. IsK(r) /\ r.ino = v /\ r.bfree = q.bfree /\ r.ref = q.ref
          /\ r.panic = q.panic /\ Rest(q, r)
      BY <3>2, SetIno
    <3> HIDE DEF r
    <3>6. r.ino[i] = d
      BY <3>5, <2>3
    <3>7. IsInode(k1.ino[i])
      BY <2>3 DEF InodeOk
    <3>8. IsInode(d) /\ d.type = k1.ino[i].type /\ d.nlink = k1.ino[i].nlink
          /\ d.major = k1.ino[i].major /\ d.data = k1.ino[i].data
          /\ d.nblk = k1.ino[i].nblk + 1 /\ d.ind = k1.ino[i].ind
      BY <3>7 DEF IsInode
    <3> HIDE DEF d
    <3>9. Held(d) = Held(k1.ino[i]) + 1 /\ Held(k1.ino[i]) \in Nat
      BY <3>7, <3>8, HeldIs DEF IsInode
    <3>10. InodeOk(d) /\ SameButBlocks(k1.ino[i], d)
      <4>1. ~d.ind => d.nblk <= NDIRECT
        <5>1. k1.ino[i].nblk \in Nat /\ k1.ino[i].nblk <= bn /\ NDIRECT \in Nat
          BY <1>4, <2>1, <3>7, <1>1, FilesAssumption DEF IsInode, InodeOk
        <5> QED BY <5>1, <3>8, <2>1
      <4> QED BY <3>8, <2>2, <2>3, <4>1 DEF InodeOk, SameButBlocks
    <3>11. Grown(k1, r, i)
      <4>1. Rest(k1, r)
        BY <3>2, <3>5, RestTwice
      <4>2. r.bfree \in Nat /\ r.bfree + Held(d) = k1.bfree + Held(k1.ino[i])
        BY <3>1, <3>2, <3>5, <3>9, <2>3
      <4> QED BY <3>2, <3>5, <3>6, <3>10, <4>1, <4>2 DEF Grown
    <3>12. Grown(s, r, i)
      BY <3>11, <2>1, GrownTwice
    <3> QED BY <3>4, <3>12 DEF r
  <2> QED BY <2>4, <2>5
<1> QED BY <1>2, <1>3, <1>4

-----------------------------------------------------------------------------
(* writei(): the blocks it has got are those that are no longer free.      *)

(* The last of the blocks a write of n units at off goes to.               *)
LastBlock(off, n) ==
  IF n = 0 THEN off \div BSIZE - 1 ELSE (off + n - 1) \div BSIZE

(* The last block that is written.                                         *)
LEMMA LastBlockIs ==
  ASSUME NEW off \in Nat, NEW n \in Nat
  PROVE  /\ off \div BSIZE \in Int /\ LastBlock(off, n) \in Int
         /\ off \div BSIZE - 1 <= LastBlock(off, n)
<1>1. BSIZE \in Nat \ {0}
  BY FilesAssumption
<1>2. off \div BSIZE \in Int
  BY <1>1, DivType
<1>3. CASE n = 0
  BY <1>2, <1>3 DEF LastBlock
<1>4. CASE n # 0
  <2>1. off + n - 1 \in Int /\ off <= off + n - 1
    BY <1>4
  <2>2. (off + n - 1) \div BSIZE \in Int /\ off \div BSIZE <= (off + n - 1) \div BSIZE
    BY <1>1, <2>1, DivType, DivGrows
  <2> QED BY <1>2, <1>4, <2>2 DEF LastBlock
<1> QED BY <1>3, <1>4

(* One block of a write: from what was done before it.                     *)
BlockWritten(acc, i, off, n, good, bn) ==
  LET upto == Min({n, (bn + 1) * BSIZE - off})
      b == bmap(acc.k, i, bn)
  IN IF ~acc.go THEN acc
     ELSE IF ~b.ok \/ upto > good
     THEN [k |-> b.k, tot |-> acc.tot, go |-> FALSE]
     ELSE [k |-> b.k, tot |-> upto, go |-> TRUE]

(* What is left of it when the last block was done.                        *)
Written(old, units, off, tot) ==
  [j \in 1 .. Max({Len(old), off + tot}) |->
     IF j > off /\ j <= off + tot THEN units[j - off] ELSE old[j]]
WriteResult(s, i, off, units, n, acc) ==
  LET old == s.ino[i].data
      new == Written(old, units, off, acc.tot)
  IN IF off > Len(old) \/ off + n > MAXFILE * BSIZE THEN [k |-> s, n |-> -1]
     ELSE [k |-> [acc.k EXCEPT !.ino[i].data = new], n |-> acc.tot]

WriteRun(s, i, off, units, good) ==
  LET n == Len(units)
      first == off \div BSIZE
      last == LastBlock(off, n)
  IN \E w :
       /\ w[first - 1] = [k |-> s, tot |-> 0, go |-> TRUE]
       /\ \A bn \in first .. last :
            w[bn] = BlockWritten(w[bn - 1], i, off, n, good, bn)
       /\ writei(s, i, off, units, good) =
            WriteResult(s, i, off, units, n, w[last])

(* What writei() does before each block and what it returns.               *)
LEMMA WriteiIs ==
  ASSUME NEW s, NEW i, NEW off \in Nat, NEW units,
         Len(units) \in Nat, NEW good
  PROVE  WriteRun(s, i, off, units, good)
<1> DEFINE n == Len(units)
           first == off \div BSIZE
           last == LastBlock(off, n)
           zero == [k |-> s, tot |-> 0, go |-> TRUE]
           Fn(f, m) == [bn \in first - 1 .. m |->
                          IF bn = first - 1 THEN zero
                          ELSE BlockWritten(f[bn - 1], i, off, n, good, bn)]
           S == {m \in first - 1 .. last : \E f : f = Fn(f, m)}
<1>0. first \in Int /\ last \in Int /\ first - 1 <= last
  BY LastBlockIs
<1> DEFINE w == CHOOSE f : f = Fn(f, last)
<1>5. writei(s, i, off, units, good) =
        WriteResult(s, i, off, units, n, w[last])
  BY DEF writei, BlockWritten, LastBlock, WriteResult, Written
<1> HIDE DEF w, first, last
<1>1. first - 1 \in S
  <2>1. [bn \in first - 1 .. first - 1 |-> zero] =
          Fn([bn \in first - 1 .. first - 1 |-> zero], first - 1)
    BY <1>0
  <2>2. \E f : f = Fn(f, first - 1)
    BY <2>1
  <2>3. first - 1 \in first - 1 .. last
    BY <1>0
  <2> HIDE DEF Fn
  <2> QED BY <2>2, <2>3
<1>2. ASSUME NEW m \in first - 1 .. last - 1, m \in S
      PROVE  m + 1 \in S
  <2>0. m \in Int /\ m >= first - 1 /\ m + 1 \in first - 1 .. last
    BY <1>0
  <2>1. PICK f : f = Fn(f, m)
    BY <1>2
  <2> DEFINE g == [bn \in first - 1 .. m + 1 |->
                     IF bn = m + 1
                     THEN BlockWritten(f[m], i, off, n, good, m + 1)
                     ELSE f[bn]]
  <2>2. g = Fn(g, m + 1)
    <3>1. ASSUME NEW bn \in first - 1 .. m + 1
          PROVE  g[bn] = IF bn = first - 1 THEN zero
                         ELSE BlockWritten(g[bn - 1], i, off, n, good, bn)
      <4>1. CASE bn = m + 1
        <5>1. m \in first - 1 .. m + 1 /\ m # m + 1 /\ m + 1 - 1 = m
              /\ m + 1 # first - 1
          BY <2>0, <1>0
        <5>2. g[m] = f[m]
          BY <5>1
        <5>3. g[m + 1] = BlockWritten(f[m], i, off, n, good, m + 1)
          BY <1>0, <2>0
        <5> HIDE DEF g
        <5> QED BY <4>1, <5>1, <5>2, <5>3
      <4>2. CASE bn \in first - 1 .. m
        <5>1. f[bn] = IF bn = first - 1 THEN zero
                      ELSE BlockWritten(f[bn - 1], i, off, n, good, bn)
          BY <2>1, <4>2
        <5>2. bn # m + 1 /\ (bn # first - 1 =>
                bn - 1 \in first - 1 .. m + 1 /\ bn - 1 # m + 1)
          BY <1>0, <2>0, <4>2
        <5>3. g[bn] = f[bn] /\ (bn # first - 1 => g[bn - 1] = f[bn - 1])
          BY <5>2
        <5> HIDE DEF g
        <5> QED BY <5>1, <5>3
      <4>3. bn = m + 1 \/ bn \in first - 1 .. m
        BY <1>0, <2>0
      <4> QED BY <4>1, <4>2, <4>3
    <3>2. g = [bn \in first - 1 .. m + 1 |-> g[bn]]
      OBVIOUS
    <3> HIDE DEF g
    <3> QED BY <3>1, <3>2
  <2>3. \E h : h = Fn(h, m + 1)
    <3> HIDE DEF g
    <3> QED BY <2>2
  <2> QED BY <2>0, <2>3
<1>3. last \in S
  <2> HIDE DEF S
  <2>1. first - 1 .. last \subseteq S
    <3> HIDE DEF first, last
    <3> QED BY <1>0, <1>1, <1>2, Climb
  <2>2. last \in first - 1 .. last
    BY <1>0
  <2> QED BY <2>1, <2>2
<1>4. w = Fn(w, last)
  BY <1>3 DEF w
<1>6. /\ w[first - 1] = zero
      /\ \A bn \in first .. last :
           w[bn] = BlockWritten(w[bn - 1], i, off, n, good, bn)
  <2>1. first - 1 \in first - 1 .. last
        /\ \A bn \in first .. last : bn \in first - 1 .. last /\ bn # first - 1
    BY <1>0
  <2> QED BY <1>4, <2>1
<1> HIDE DEF zero
<1> QED BY <1>5, <1>6 DEF zero, first, last, WriteRun

(* What a write leaves in inode i.                                         *)
LEMMA WriteiGrows ==
  ASSUME NEW s, IsK(s), NEW i \in Inums, Disk(s.ino, s.bfree),
         s.ino[i].type # "free", NEW off \in Nat, NEW units, IsSeq(units),
         s.ino[i].type = "dir" =>
           \A j \in 1 .. Len(units) : units[j][2] \in 0 .. NINODES,
         NEW good
  PROVE  LET r == writei(s, i, off, units, good).k
             n == writei(s, i, off, units, good).n
         IN /\ IsK(r) /\ Rest(s, r) /\ r.panic = s.panic /\ r.ref = s.ref
            /\ r.ino = [s.ino EXCEPT ![i] = r.ino[i]]
            /\ r.ino[i].type = s.ino[i].type /\ r.ino[i].nlink = s.ino[i].nlink
            /\ Disk(r.ino, r.bfree) /\ n \in Int
<1> DEFINE first == off \div BSIZE
           n == Len(units)
           last == LastBlock(off, n)
           old == s.ino[i].data
           wr == writei(s, i, off, units, good)
<1>0. n \in Nat
  BY SeqIs
<1>1. first \in Int /\ last \in Int /\ first - 1 <= last
  BY <1>0, LastBlockIs
<1>2. s.ino = [j \in Inums |-> s.ino[j]] /\ InodeOk(s.ino[i]) /\ s.bfree \in Nat
  BY DEF Disk
<1>3. IsSeq(old)
  BY <1>2 DEF InodeOk, IsInode
<1>4. PICK w :
        /\ w[first - 1] = [k |-> s, tot |-> 0, go |-> TRUE]
        /\ \A bn \in first .. last :
             w[bn] = BlockWritten(w[bn - 1], i, off, n, good, bn)
        /\ wr =
             WriteResult(s, i, off, units, n, w[last])
  <2>1. WriteRun(s, i, off, units, good)
    BY <1>0, WriteiIs
  <2> QED BY <2>1 DEF WriteRun
<1> DEFINE Ok(a) == Grown(s, a.k, i) /\ a.tot \in Int /\ a.tot <= n
           tot == w[last].tot
           q == w[last].k
           S == {bn \in first - 1 .. last : Ok(w[bn])}
<1>5. Ok(w[last])
  <2>1. first - 1 \in S
    <3>1. Ok(w[first - 1])
      BY <1>0, <1>4, GrownSelf
    <3> QED BY <1>1, <3>1
  <2>2. ASSUME NEW bn \in first - 1 .. last - 1, bn \in S
        PROVE  bn + 1 \in S
    <3> DEFINE a == w[bn]
    <3>1. bn \in Int /\ bn + 1 \in first .. last /\ bn + 1 - 1 = bn
          /\ bn + 1 \in first - 1 .. last
      BY <1>1
    <3>2. w[bn + 1] = BlockWritten(a, i, off, n, good, bn + 1)
      BY <1>4, <3>1
    <3>3. Ok(a)
      BY <2>2
    <3> HIDE DEF a
    <3>4. IsK(a.k) /\ Disk(a.k.ino, a.k.bfree) /\ a.k.ino[i].type # "free"
      BY <3>3, GrownFields DEF Grown, SameButBlocks
    <3>5. Grown(a.k, bmap(a.k, i, bn + 1).k, i)
      <4>1. bn + 1 \in Int
        BY <3>1
      <4> QED BY <3>4, <4>1, BmapGrows
    <3>6. Grown(s, bmap(a.k, i, bn + 1).k, i)
      BY <3>3, <3>5, GrownTwice
    <3>7. LET upto == Min({n, (bn + 1 + 1) * BSIZE - off})
          IN upto \in Int /\ upto <= n
      <4>1. (bn + 1 + 1) * BSIZE - off \in Int
        BY <3>1, FilesAssumption
      <4> QED BY <1>0, <4>1, MinTwo
    <3>8. Ok(BlockWritten(a, i, off, n, good, bn + 1))
      BY <3>3, <3>6, <3>7 DEF BlockWritten
    <3> QED BY <3>1, <3>2, <3>8
  <2>3. first - 1 .. last \subseteq S
    <3> HIDE DEF first, last, S
    <3> QED BY <1>1, <2>1, <2>2, Climb
  <2>4. last \in first - 1 .. last
    BY <1>1
  <2> QED BY <2>3, <2>4
<1>6. CASE off > Len(old) \/ off + n > MAXFILE * BSIZE
  <2>1. wr.k = s /\ wr.n = -1
    BY <1>4, <1>6 DEF WriteResult
  <2>2. s.ino = [s.ino EXCEPT ![i] = s.ino[i]]
    BY <1>2
  <2> QED BY <2>1, <2>2 DEF Rest
<1>7. CASE ~(off > Len(old) \/ off + n > MAXFILE * BSIZE)
  <2> DEFINE new == Written(old, units, off, tot)
             e == q.ino[i]
             d == [e EXCEPT !.data = new]
             v == [q.ino EXCEPT ![i] = d]
             r == [q EXCEPT !.ino = v]
  <2>1. wr.k = r /\ wr.n = tot
    BY <1>4, <1>7 DEF WriteResult
  <2>2. Len(old) \in Nat /\ off <= Len(old) /\ tot \in Int /\ tot <= n
    BY <1>3, <1>5, <1>7, SeqIs
  <2>3. Max({Len(old), off + tot}) \in Nat
        /\ Max({Len(old), off + tot}) = IF Len(old) >= off + tot THEN Len(old) ELSE off + tot
    <3>1. off + tot \in Int
      BY <2>2
    <3>2. Max({Len(old), off + tot}) = IF Len(old) >= off + tot THEN Len(old) ELSE off + tot
      <4>1. PICK a \in Int, b \in Int : a = Len(old) /\ b = off + tot
        BY <2>2, <3>1
      <4>2. Max({a, b}) = IF a >= b THEN a ELSE b
        BY MaxTwo
      <4> QED BY <4>1, <4>2
    <3> QED BY <2>2, <3>1, <3>2
  <2>4. IsSeq(new) /\ Len(new) = Max({Len(old), off + tot})
    <3> DEFINE m == Max({Len(old), off + tot})
    <3>1. \E T : new \in [1 .. m -> T]
      <4>1. new \in [1 .. m -> {new[j] : j \in 1 .. m}]
        BY DEF Written
      <4> QED BY <4>1
    <3> HIDE DEF new
    <3>2. m \in Nat
      BY <2>3
    <3> HIDE DEF m
    <3>3. IsSeq(new) /\ Len(new) = m
      BY <3>1, <3>2, FcnIsSeq
    <3> QED BY <3>3 DEF m
  <2>5. s.ino[i].type = "dir" =>
          \A j \in 1 .. Len(new) : new[j][2] \in 0 .. NINODES
    <3> SUFFICES ASSUME s.ino[i].type = "dir", NEW j \in 1 .. Len(new)
                 PROVE  new[j][2] \in 0 .. NINODES
      OBVIOUS
    <3>1. j \in 1 .. Max({Len(old), off + tot}) /\ j \in Nat
      BY <2>3, <2>4
    <3>2. CASE j > off /\ j <= off + tot
      <4>1. j - off \in 1 .. n
        BY <1>0, <2>2, <3>1, <3>2
      <4> QED BY <3>1, <3>2, <4>1 DEF Written
    <3>3. CASE ~(j > off /\ j <= off + tot)
      <4>1. j \in 1 .. Len(old)
        BY <2>2, <2>3, <3>1, <3>3
      <4>2. old[j][2] \in 0 .. NINODES
        BY <1>2, <4>1 DEF InodeOk
      <4> QED BY <3>1, <3>3, <4>2 DEF Written
    <3> QED BY <3>2, <3>3
  <2> HIDE DEF new
  <2>6. Grown(s, q, i)
    BY <1>5
  <2> HIDE DEF q
  <2>7. IsK(q) /\ Disk(q.ino, q.bfree) /\ InodeOk(e) /\ IsInode(e)
        /\ q.ino = [j \in Inums |-> q.ino[j]]
    BY <2>6, GrownFields DEF Grown, InodeOk, Disk
  <2>8. IsInode(d) /\ d.type = e.type /\ d.nlink = e.nlink /\ d.data = new
        /\ d.nblk = e.nblk /\ d.ind = e.ind
    <3> HIDE DEF e
    <3> QED BY <2>4, <2>7 DEF IsInode
  <2> HIDE DEF d
  <2>9. InodeOk(d) /\ Held(d) = Held(e) /\ e.type = s.ino[i].type
        /\ e.nlink = s.ino[i].nlink
    BY <2>5, <2>6, <2>7, <2>8 DEF InodeOk, Held, Grown, SameButBlocks
  <2>10. Disk(v, q.bfree)
    <3>1. q.bfree \in Nat /\ q.bfree + Held(d) = q.bfree + Held(q.ino[i])
      BY <2>7, <2>9 DEF Disk
    <3> HIDE DEF e
    <3> QED BY <2>7, <2>9, <3>1, DiskUpdate
  <2>11. IsK(r) /\ r.ino = v /\ r.bfree = q.bfree /\ r.ref = q.ref
         /\ r.panic = q.panic /\ Rest(q, r)
    <3> HIDE DEF v
    <3> QED BY <2>7, SetIno
  <2> HIDE DEF r
  <2>12. r.ino[i] = d /\ r.ino = [s.ino EXCEPT ![i] = d]
    <3>1. q.ino = [s.ino EXCEPT ![i] = e]
      BY <2>6 DEF Grown
    <3> HIDE DEF e
    <3> QED BY <2>11, <3>1, <1>2
  <2>13. Rest(s, r) /\ r.panic = s.panic /\ r.ref = s.ref
    BY <2>6, <2>11, RestTwice DEF Grown
  <2> QED BY <2>1, <2>2, <2>8, <2>9, <2>10, <2>11, <2>12, <2>13
<1> QED BY <1>6, <1>7

-----------------------------------------------------------------------------
(* The file system with references in hand; idup(), iget(), ilock().       *)

(* A count of nothing.                                                     *)
LEMMA SumOfNone ==
  ASSUME NEW a \in Nat, NEW b \in Nat, b = a + b
  PROVE  a = 0
OBVIOUS

(* A count with one more.                                                  *)
LEMMA SumOfMore ==
  ASSUME NEW a \in Nat, NEW b \in Nat
  PROVE  a + b \in Nat /\ a + b + 1 = a + (b + 1) /\ a + (b + 1) \in Nat
         /\ a + b >= b /\ (b >= 1 => a + b - 1 = a + (b - 1)
                                 /\ a + (b - 1) \in Nat)
OBVIOUS

(* The file system of a state with x references in hand; after a panic     *)
(* only what the operators need to go on.                                  *)
FsOk(s, x) ==
  /\ IsK(s) /\ Disk(s.ino, s.bfree) /\ s.ref \in [Inums -> Int]
  /\ x \in [Inums -> Nat] /\ s.panic \in Known
  /\ s.panic = "" => /\ Refs(s.ref, s.proc, s.file, x)
                     /\ InUseOnly(s.ino, s.proc, s.file)
Plus(x, i) == [x EXCEPT ![i] = @ + 1]
Minus(x, i) == [x EXCEPT ![i] = @ - 1]
Keeps(s, r) == Rest(s, r) /\ (s.panic # "" => r.panic = s.panic)

(* Two steps that keep the rest.                                           *)
LEMMA KeepsTwice ==
  ASSUME NEW s, NEW r, NEW u, Keeps(s, r), Keeps(r, u)
  PROVE  Keeps(s, u)
BY RestTwice DEF Keeps

(* A state keeps its own.                                                  *)
LEMMA KeepsSelf ==
  ASSUME NEW s
  PROVE  Keeps(s, s)
BY DEF Keeps, Rest

(* Counts of uses are numbers.                                             *)
LEMMA CountTypes ==
  ASSUME NEW proc, NEW file, NEW i
  PROVE  /\ IsFiniteSet(Cwds(proc, i)) /\ IsFiniteSet(Opened(file, i))
         /\ Cardinality(Cwds(proc, i)) \in Nat
         /\ Cardinality(Opened(file, i)) \in Nat
<1>1. Cwds(proc, i) \in SUBSET Slots /\ Opened(file, i) \in SUBSET Filenums
  BY DEF Cwds, Opened
<1>2. IsFiniteSet(Cwds(proc, i)) /\ IsFiniteSet(Opened(file, i))
  BY <1>1, SetsFinite, FS_Subset
<1> QED BY <1>2, FS_CardinalityType

(* What FsOk says of one inode.                                            *)
LEMMA FsInums ==
  ASSUME NEW s, NEW x, FsOk(s, x), NEW i \in Inums
  PROVE  /\ s.ino = [j \in Inums |-> s.ino[j]] /\ InodeOk(s.ino[i])
         /\ IsInode(s.ino[i]) /\ IsSeq(s.ino[i].data) /\ s.bfree \in Nat
         /\ s.ref[i] \in Int /\ x[i] \in Nat /\ IsK(s)
         /\ Held(s.ino[i]) \in Nat
<1>1. s.ino = [j \in Inums |-> s.ino[j]] /\ InodeOk(s.ino[i]) /\ s.bfree \in Nat
  BY DEF Disk, FsOk
<1>2. IsInode(s.ino[i]) /\ IsSeq(s.ino[i].data)
  BY <1>1 DEF InodeOk, IsInode
<1> QED BY <1>1, <1>2, HeldIs DEF FsOk

(* How many current directories and files refer to an inode.               *)
Count(proc, file, i) ==
  Cardinality(Cwds(proc, i)) + Cardinality(Opened(file, i))

(* The count of an inode.                                                  *)
LEMMA CountIs ==
  ASSUME NEW proc, NEW file, NEW i
  PROVE  /\ Count(proc, file, i) \in Nat
         /\ Count(proc, file, i) = 0 =>
              Cwds(proc, i) = {} /\ Opened(file, i) = {}
<1>1. PICK c \in Nat, f \in Nat : /\ c = Cardinality(Cwds(proc, i))
                                  /\ f = Cardinality(Opened(file, i))
  BY CountTypes
<1>2. Count(proc, file, i) = c + f
  BY <1>1 DEF Count
<1>3. c + f \in Nat /\ (c + f = 0 => c = 0 /\ f = 0)
  BY <1>1
<1>4. c = 0 => Cwds(proc, i) = {}
  BY <1>1, CountTypes, FS_EmptySet
<1>5. f = 0 => Opened(file, i) = {}
  BY <1>1, CountTypes, FS_EmptySet
<1> QED BY <1>2, <1>3, <1>4, <1>5

(* It counts what refers to it, and what is in hand.                       *)
LEMMA RefIs ==
  ASSUME NEW s, NEW x, FsOk(s, x), s.panic = "", NEW i \in Inums
  PROVE  /\ s.ref[i] = Count(s.proc, s.file, i) + x[i]
         /\ x[i] \in Nat /\ Count(s.proc, s.file, i) \in Nat
<1>1. Refs(s.ref, s.proc, s.file, x) /\ x[i] \in Nat
  BY DEF FsOk
<1>2. s.ref[i] = Cardinality(Cwds(s.proc, i)) + Cardinality(Opened(s.file, i)) + x[i]
  BY <1>1 DEF Refs
<1> QED BY <1>1, <1>2, CountIs DEF Count

(* The same as one predicate.                                              *)
RefOk(s, x, i) ==
  /\ s.ref[i] = Count(s.proc, s.file, i) + x[i]
  /\ x[i] \in Nat /\ Count(s.proc, s.file, i) \in Nat
LEMMA RefAt ==
  ASSUME NEW s, NEW x, FsOk(s, x), s.panic = "", NEW i \in Inums
  PROVE  RefOk(s, x, i)
BY RefIs DEF RefOk

(* Nobody has an inode whose references are all in hand.                   *)
LEMMA NotUsed ==
  ASSUME NEW s, NEW x, FsOk(s, x), s.panic = "", NEW i \in Inums,
         s.ref[i] = x[i]
  PROVE  /\ \A p \in Slots : s.proc[p].st = "used" => s.proc[p].cwd # i
         /\ \A f \in Filenums :
              s.file[f].type \in {"inode", "device"} => s.file[f].ip # i
<1>1. s.ref[i] = Count(s.proc, s.file, i) + x[i] /\ x[i] \in Nat
      /\ Count(s.proc, s.file, i) \in Nat
  BY RefIs
<1>2. Count(s.proc, s.file, i) = 0
  <2>1. x[i] = Count(s.proc, s.file, i) + x[i]
    BY <1>1
  <2> QED BY ONLY <1>1, <2>1, SumOfNone
<1>3. Cwds(s.proc, i) = {} /\ Opened(s.file, i) = {}
  BY <1>2, CountIs
<1> QED BY <1>3 DEF Cwds, Opened

(* An inode is written: its type stays, or nobody uses it.                 *)
LEMMA FsUpdate ==
  ASSUME NEW s, NEW x, FsOk(s, x), NEW i \in Inums, NEW r, IsK(r), Rest(s, r),
         r.panic = s.panic, r.ref = s.ref, Disk(r.ino, r.bfree),
         \A j \in Inums : j # i => r.ino[j] = s.ino[j],
         \/ r.ino[i].type = s.ino[i].type
         \/ s.ino[i].type = "free"
         \/ s.panic = "" => s.ref[i] = x[i]
  PROVE  FsOk(r, x) /\ Keeps(s, r)
<1> DEFINE d == r.ino[i]
<1>2. \A j \in Inums : j # i => r.ino[j] = s.ino[j]
  OBVIOUS
<1>3. s.panic = "" => InUseOnly(r.ino, r.proc, r.file)
  <2> SUFFICES ASSUME s.panic = "" PROVE InUseOnly(r.ino, r.proc, r.file)
    OBVIOUS
  <2>1. InUseOnly(s.ino, s.proc, s.file) /\ r.proc = s.proc /\ r.file = s.file
    BY DEF FsOk, Rest
  <2>2. CASE d.type = s.ino[i].type
    <3>1. \A j \in Inums : r.ino[j].type = s.ino[j].type
      BY <1>2, <2>2
    <3> QED BY ONLY <2>1, <3>1 DEF InUseOnly
  <2>3. CASE s.ino[i].type = "free" \/ s.ref[i] = x[i]
    <3>1. /\ \A p \in Slots : s.proc[p].st = "used" => s.proc[p].cwd # i
          /\ \A f \in Filenums :
               s.file[f].type \in {"inode", "device"} => s.file[f].ip # i
      <4>1. CASE s.ino[i].type = "free"
        BY <2>1, <4>1 DEF InUseOnly
      <4>2. CASE s.ref[i] = x[i]
        BY ONLY <4>2, NotUsed, FsOk(s, x), s.panic = "", i \in Inums
      <4> QED BY <2>3, <4>1, <4>2
    <3>2. \A p \in Slots : s.proc[p].st = "used" =>
            r.ino[s.proc[p].cwd] = s.ino[s.proc[p].cwd]
      BY <1>2, <2>1, <3>1 DEF InUseOnly
    <3>3. \A f \in Filenums : s.file[f].type \in {"inode", "device"} =>
            r.ino[s.file[f].ip] = s.ino[s.file[f].ip]
      BY <1>2, <2>1, <3>1 DEF InUseOnly
    <3> QED BY ONLY <2>1, <3>2, <3>3 DEF InUseOnly
  <2> QED BY <2>2, <2>3
<1>4. r.panic = "" => Refs(r.ref, r.proc, r.file, x)
  BY DEF FsOk, Rest
<1>5. FsOk(r, x)
  BY <1>3, <1>4 DEF FsOk
<1> QED BY <1>5 DEF Keeps

(* One reference more.                                                     *)
LEMMA PlusIs ==
  ASSUME NEW x \in [Inums -> Nat], NEW i \in Inums
  PROVE  /\ Plus(x, i) \in [Inums -> Nat] /\ Plus(x, i)[i] = x[i] + 1
         /\ \A j \in Inums : j # i => Plus(x, i)[j] = x[j]
         /\ Minus(Plus(x, i), i) = x
<1> DEFINE y == Plus(x, i)
<1>1. y \in [Inums -> Nat] /\ y[i] = x[i] + 1
      /\ \A j \in Inums : j # i => y[j] = x[j]
  BY DEF Plus
<1>2. Minus(y, i) = [j \in Inums |-> IF j = i THEN y[i] - 1 ELSE y[j]]
  <2> HIDE DEF y
  <2> QED BY <1>1 DEF Minus
<1>3. \A j \in Inums : (IF j = i THEN y[i] - 1 ELSE y[j]) = x[j]
  BY <1>1
<1>4. x = [j \in Inums |-> x[j]]
  OBVIOUS
<1> HIDE DEF y
<1>5. Minus(y, i) = x
  BY <1>2, <1>3, <1>4
<1> QED BY <1>1, <1>5 DEF y

(* One reference less.                                                     *)
LEMMA MinusIs ==
  ASSUME NEW x \in [Inums -> Nat], NEW i \in Inums, x[i] >= 1
  PROVE  /\ Minus(x, i) \in [Inums -> Nat] /\ Minus(x, i)[i] = x[i] - 1
         /\ \A j \in Inums : j # i => Minus(x, i)[j] = x[j]
BY DEF Minus

(* One more reference, in hand.                                            *)
LEMMA IdupFs ==
  ASSUME NEW s, NEW x, FsOk(s, x), NEW i \in Inums
  PROVE  LET r == idup(s, i)
         IN FsOk(r, Plus(x, i)) /\ Keeps(s, r) /\ r.ino = s.ino
            /\ r.panic = s.panic
<1> DEFINE v == [s.ref EXCEPT ![i] = @ + 1]
           r == [s EXCEPT !.ref = v]
<1>0. idup(s, i) = r
  BY DEF idup
<1>1. IsK(r) /\ r.ino = s.ino /\ r.bfree = s.bfree /\ r.ref = v
      /\ r.panic = s.panic /\ Rest(s, r)
  <2> HIDE DEF v
  <2> QED BY SetRef DEF FsOk
<1> HIDE DEF r
<1>2. s.ref \in [Inums -> Int] /\ x \in [Inums -> Nat]
  BY DEF FsOk
<1>3. v \in [Inums -> Int] /\ v[i] = s.ref[i] + 1
      /\ \A j \in Inums : j # i => v[j] = s.ref[j]
  BY <1>2
<1>4. /\ Plus(x, i) \in [Inums -> Nat] /\ Plus(x, i)[i] = x[i] + 1
      /\ \A j \in Inums : j # i => Plus(x, i)[j] = x[j]
  BY <1>2, PlusIs
<1>5. s.panic = "" => Refs(v, s.proc, s.file, Plus(x, i))
  <2> SUFFICES ASSUME s.panic = "" PROVE Refs(v, s.proc, s.file, Plus(x, i))
    OBVIOUS
  <2>1. ASSUME NEW j \in Inums
        PROVE  v[j] \in Nat /\ v[j] = Cardinality(Cwds(s.proc, j)) + Cardinality(Opened(s.file, j)) + Plus(x, i)[j]
    <3> HIDE DEF v
    <3>1. s.ref[j] = Count(s.proc, s.file, j) + x[j] /\ x[j] \in Nat
          /\ Count(s.proc, s.file, j) \in Nat
      <4>1. RefOk(s, x, j)
        BY ONLY RefAt, FsOk(s, x), s.panic = "", j \in Inums
      <4> QED BY ONLY <4>1 DEF RefOk
    <3>2. v[j] \in Nat /\ v[j] = Count(s.proc, s.file, j) + Plus(x, i)[j]
      <4>1. CASE j = i
        <5>1. v[j] = Count(s.proc, s.file, j) + x[j] + 1
              /\ Plus(x, i)[j] = x[j] + 1
          BY <4>1, <3>1, <1>3, <1>4
        <5> QED BY ONLY <5>1, <3>1, SumOfMore
      <4>2. CASE j # i
        <5>1. v[j] = Count(s.proc, s.file, j) + x[j] /\ Plus(x, i)[j] = x[j]
          BY <4>2, <3>1, <1>3, <1>4
        <5> QED BY ONLY <5>1, <3>1, SumOfMore
      <4> QED BY <4>1, <4>2
    <3> QED BY <3>2 DEF Count
  <2>2. v \in [Inums -> Nat]
    <3> HIDE DEF v
    <3> QED BY <1>3, <2>1
  <2> HIDE DEF v
  <2> QED BY <2>1, <2>2 DEF Refs
<1> HIDE DEF v
<1>6. FsOk(r, Plus(x, i))
  BY <1>1, <1>3, <1>4, <1>5 DEF FsOk, Rest
<1> QED BY <1>0, <1>1, <1>6 DEF Keeps

(* A panic that is known of leaves nothing to show but the disk.           *)
LEMMA PanicFs ==
  ASSUME NEW s, NEW x, FsOk(s, x), NEW y \in [Inums -> Nat],
         NEW what \in Known \ {""}
  PROVE  LET r == Panic(s, what)
         IN FsOk(r, y) /\ Keeps(s, r) /\ r.ino = s.ino /\ r.panic # ""
<1> DEFINE r == Panic(s, what)
<1>1. IsK(r) /\ r.ino = s.ino /\ r.bfree = s.bfree /\ r.ref = s.ref
      /\ r.panic = (IF s.panic = "" THEN what ELSE s.panic) /\ Rest(s, r)
  BY SetPanic DEF FsOk
<1> HIDE DEF r
<1> QED BY <1>1 DEF FsOk, Keeps, r

(* iget() takes a reference, or panics when the table is full.             *)
LEMMA IgetFs ==
  ASSUME NEW s, NEW x, FsOk(s, x), NEW i \in Inums
  PROVE  LET r == iget(s, i)
         IN FsOk(r, Plus(x, i)) /\ Keeps(s, r) /\ r.ino = s.ino
<1>1. CASE iget(s, i) = idup(s, i)
  BY <1>1, IdupFs
<1>2. CASE iget(s, i) = Panic(s, "iget: no inodes")
  <2>1. Plus(x, i) \in [Inums -> Nat]
    BY PlusIs DEF FsOk
  <2>2. "iget: no inodes" \in Known \ {""}
    BY DEF Known
  <2> HIDE DEF FsOk
  <2> QED BY <1>2, <2>1, <2>2, PanicFs
<1> QED BY <1>1, <1>2 DEF iget, idup

(* ilock() takes none; it panics on a free inode.                          *)
LEMMA IlockFs ==
  ASSUME NEW s, NEW x, FsOk(s, x), NEW i \in Inums, x[i] >= 1
  PROVE  LET r == ilock(s, i)
         IN FsOk(r, x) /\ Keeps(s, r) /\ r.ino = s.ino
            /\ (r.panic = "" => s.ino[i].type # "free")
            /\ (r.panic = "" => r = s)
<1>0. x \in [Inums -> Nat]
  BY DEF FsOk
<1>1. CASE s.ref[i] < 1 /\ s.panic = ""
  <2>1. s.ref[i] = Count(s.proc, s.file, i) + x[i] /\ x[i] \in Nat
        /\ Count(s.proc, s.file, i) \in Nat
    BY <1>1, RefIs
  <2>2. x[i] <= Count(s.proc, s.file, i) + x[i]
    BY ONLY <2>1, SumOfMore
  <2>3. s.ref[i] >= x[i]
    BY <2>1, <2>2
  <2>4. s.ref[i] \in Int /\ x[i] \in Nat
    BY <1>0 DEF FsOk
  <2>5. PICK a \in Int, b \in Nat : a = s.ref[i] /\ b = x[i]
    BY <2>4
  <2>6. a >= b /\ b >= 1 /\ a < 1
    BY <1>1, <2>3, <2>5
  <2>7. FALSE
    BY ONLY <2>6, a \in Int, b \in Nat
  <2> QED BY <2>7
<1>2. CASE s.ref[i] < 1 /\ s.panic # ""
  <2>1. ilock(s, i) = Panic(s, "ilock")
    BY <1>2 DEF ilock
  <2> DEFINE r == Panic(s, "ilock")
  <2>2. IsK(r) /\ r.ino = s.ino /\ r.bfree = s.bfree /\ r.ref = s.ref
        /\ r.panic = s.panic /\ Rest(s, r)
    BY <1>2, SetPanic DEF FsOk
  <2> HIDE DEF r
  <2>3. FsOk(r, x) /\ Keeps(s, r) /\ r.panic # ""
    BY <1>2, <2>2 DEF FsOk, Keeps
  <2> QED BY <2>1, <2>2, <2>3 DEF r
<1>3. CASE ~(s.ref[i] < 1) /\ s.ino[i].type = "free"
  <2>1. ilock(s, i) = Panic(s, "ilock: no type")
    BY <1>3 DEF ilock
  <2>2. "ilock: no type" \in Known \ {""}
    BY DEF Known
  <2> QED BY <1>0, <2>1, <2>2, PanicFs
<1>4. CASE ~(s.ref[i] < 1) /\ s.ino[i].type # "free"
  <2>1. ilock(s, i) = s
    BY <1>4 DEF ilock
  <2> QED BY <2>1, <1>4, KeepsSelf
<1> QED BY <1>1, <1>2, <1>3, <1>4

-----------------------------------------------------------------------------
(* itrunc() and iput(): the last reference to an unlinked inode frees it.  *)

(* The fields of an inode.                                                 *)
LEMMA InodeFields ==
  ASSUME NEW e, IsInode(e), NEW t
  PROVE  LET d == [e EXCEPT !.type = t]
         IN IsInode(d) /\ d.type = t /\ d.nlink = e.nlink
            /\ d.major = e.major /\ d.data = e.data /\ d.nblk = e.nblk
            /\ d.ind = e.ind
BY DEF IsInode

Emptied(e) == [e EXCEPT !.data = <<>>, !.nblk = 0, !.ind = FALSE]

(* A sequence of nothing.                                                  *)
LEMMA NoUnits == IsSeq(<<>>) /\ Len(<<>>) = 0
<1>1. \A S : <<>> \in Seq(S)
  OBVIOUS
<1>2. IsSeq(<<>>)
  BY <1>1, Zenon DEF IsSeq
<1>3. Len(<<>>) = 0
  OBVIOUS
<1> QED BY <1>2, <1>3

(* An inode with other contents.                                           *)
LEMMA SetData ==
  ASSUME NEW e, IsInode(e), NEW v, IsSeq(v)
  PROVE  LET d == [e EXCEPT !.data = v]
         IN IsInode(d) /\ d.type = e.type /\ d.nlink = e.nlink
            /\ d.major = e.major /\ d.data = v /\ d.nblk = e.nblk
            /\ d.ind = e.ind
BY DEF IsInode

(* An inode with other blocks.                                             *)
LEMMA SetNblk ==
  ASSUME NEW e, IsInode(e), NEW v \in Nat
  PROVE  LET d == [e EXCEPT !.nblk = v]
         IN IsInode(d) /\ d.type = e.type /\ d.nlink = e.nlink
            /\ d.major = e.major /\ d.data = e.data /\ d.nblk = v
            /\ d.ind = e.ind
BY DEF IsInode

(* An inode that has lost its contents and blocks.                         *)
LEMMA EmptiedIs ==
  ASSUME NEW e, InodeOk(e)
  PROVE  LET d == Emptied(e)
         IN /\ InodeOk(d) /\ d.type = e.type /\ d.nlink = e.nlink
            /\ d.major = e.major /\ d.data = <<>> /\ d.nblk = 0 /\ ~d.ind
            /\ Held(d) = 0
<1>1. IsInode(e)
  BY DEF InodeOk
<1> DEFINE d == Emptied(e)
<1> DEFINE d1 == [e EXCEPT !.data = <<>>]
           d2 == [d1 EXCEPT !.nblk = 0]
           d3 == [d2 EXCEPT !.ind = FALSE]
<1>a. d = d3
  BY DEF Emptied
<1>b. IsInode(d1) /\ d1.type = e.type /\ d1.nlink = e.nlink
      /\ d1.major = e.major /\ d1.data = <<>>
  BY <1>1, NoUnits, SetData
<1> HIDE DEF d1
<1>c. IsInode(d2) /\ d2.type = e.type /\ d2.nlink = e.nlink
      /\ d2.major = e.major /\ d2.data = <<>> /\ d2.nblk = 0
  <2>1. PICK z \in Nat : z = 0
    OBVIOUS
  <2> DEFINE q == [d1 EXCEPT !.nblk = z]
  <2>2. IsInode(q) /\ q.type = d1.type /\ q.nlink = d1.nlink
        /\ q.major = d1.major /\ q.data = d1.data /\ q.nblk = z
    BY <1>b, SetNblk
  <2>3. q = d2
    BY <2>1
  <2> HIDE DEF q, d2
  <2> QED BY <1>b, <2>1, <2>2, <2>3
<1> HIDE DEF d2
<1>d. IsInode(d3) /\ d3.type = e.type /\ d3.nlink = e.nlink
      /\ d3.major = e.major /\ d3.data = <<>> /\ d3.nblk = 0
      /\ d3.ind = FALSE
  BY <1>c, SetInd
<1> HIDE DEF d, d3
<1>2. IsInode(d) /\ d.type = e.type /\ d.nlink = e.nlink
      /\ d.major = e.major /\ d.data = <<>> /\ d.nblk = 0
      /\ ~d.ind
  BY <1>a, <1>d
<1>4. Held(d) = 0
  <2>1. ~d.ind /\ d.nblk = 0
    BY <1>2
  <2> QED BY <2>1 DEF Held
<1>5. InodeOk(d)
  <2>1. NDIRECT \in Nat /\ Len(d.data) = 0
    BY <1>2, FilesAssumption, NoUnits
  <2>2. \A j \in 1 .. Len(d.data) : d.data[j][2] \in 0 .. NINODES
    BY <2>1
  <2> QED BY <1>2, <2>1, <2>2 DEF InodeOk
<1> QED BY <1>2, <1>4, <1>5 DEF d

(* All its blocks go back.                                                 *)
LEMMA ItruncIs ==
  ASSUME NEW s, NEW i
  PROVE  \E b :
           /\ itrunc(s, i) = [s EXCEPT !.ino = [s.ino EXCEPT ![i] = Emptied(s.ino[i])],
                                       !.bfree = b]
           /\ b = LET d == s.ino[i]
                      direct == Min({d.nblk, NDIRECT})
                      indirect == IF d.ind THEN d.nblk - direct + 1 ELSE 0
                  IN s.bfree + direct + indirect
<1> DEFINE d == s.ino[i]
           direct == Min({d.nblk, NDIRECT})
           indirect == IF d.ind THEN d.nblk - direct + 1 ELSE 0
           b == s.bfree + direct + indirect
<1>1. itrunc(s, i) = [s EXCEPT !.ino = [s.ino EXCEPT ![i] = Emptied(s.ino[i])],
                               !.bfree = b]
  BY DEF itrunc, Emptied
<1> QED BY <1>1

(* itrunc() keeps the file system.                                         *)
LEMMA ItruncFs ==
  ASSUME NEW s, NEW x, FsOk(s, x), NEW i \in Inums
  PROVE  LET r == itrunc(s, i)
         IN /\ FsOk(r, x) /\ Keeps(s, r) /\ r.panic = s.panic /\ r.ref = s.ref
            /\ r.ino = [s.ino EXCEPT ![i] = Emptied(s.ino[i])]
            /\ \A j \in Inums : r.ino[j].type = s.ino[j].type
<1> DEFINE e == s.ino[i]
           d == Emptied(e)
           v == [s.ino EXCEPT ![i] = d]
           direct == Min({e.nblk, NDIRECT})
           indirect == IF e.ind THEN e.nblk - direct + 1 ELSE 0
           b == s.bfree + direct + indirect
           r == [s EXCEPT !.ino = v, !.bfree = b]
<1>1. itrunc(s, i) = r
  BY ItruncIs
<1>2. s.ino = [j \in Inums |-> s.ino[j]] /\ InodeOk(e) /\ IsInode(e)
      /\ s.bfree \in Nat /\ IsK(s)
  BY FsInums
<1>3. InodeOk(d) /\ d.type = e.type /\ Held(d) = 0
  <2> HIDE DEF e
  <2> QED BY <1>2, EmptiedIs
<1>4. b \in Nat /\ b = s.bfree + Held(e)
  <2>1. e.nblk \in Nat /\ NDIRECT \in Nat /\ e.ind \in BOOLEAN
        /\ (~e.ind => e.nblk <= NDIRECT) /\ Held(e) = e.nblk + (IF e.ind THEN 1 ELSE 0)
    BY <1>2, FilesAssumption, HeldIs DEF IsInode, InodeOk
  <2>2. PICK m \in Nat, n \in Nat : m = e.nblk /\ n = NDIRECT
    BY <2>1
  <2>3. Min({m, n}) = IF m <= n THEN m ELSE n
    BY MinTwo
  <2>4. PICK q \in Nat : q = direct /\ q <= m /\ (m <= n => q = m)
    BY <2>2, <2>3
  <2>5. PICK f \in Nat : f = s.bfree
    BY <1>2
  <2> HIDE DEF direct
  <2>6. CASE e.ind
    <3>1. b = f + q + (m - q + 1) /\ Held(e) = m + 1
      BY <2>1, <2>2, <2>4, <2>5, <2>6
    <3>2. f + q + (m - q + 1) = f + (m + 1) /\ f + (m + 1) \in Nat
      BY ONLY f \in Nat, q \in Nat, m \in Nat
    <3> QED BY <3>1, <3>2, <2>5
  <2>7. CASE ~e.ind
    <3>1. b = f + q + 0 /\ Held(e) = m + 0
      BY <2>1, <2>2, <2>4, <2>5, <2>7
    <3>2. q = m
      BY <2>1, <2>2, <2>4, <2>7
    <3>3. f + m + 0 = f + (m + 0) /\ f + m + 0 \in Nat
      BY ONLY f \in Nat, m \in Nat
    <3> QED BY <3>1, <3>2, <3>3, <2>5
  <2> QED BY <2>6, <2>7
<1> HIDE DEF e, d, b
<1>5. Disk(v, b)
  <2>1. b + Held(d) = s.bfree + Held(e) /\ Disk(s.ino, s.bfree)
    <3>1. b + 0 = b
      BY <1>4
    <3> QED BY <1>3, <1>4, <3>1 DEF FsOk
  <2> QED BY <1>3, <1>4, <2>1, DiskUpdate DEF e
<1>6. IsK(r) /\ r.ino = v /\ r.bfree = b /\ r.ref = s.ref
      /\ r.panic = s.panic /\ Rest(s, r)
  <2> HIDE DEF v
  <2> QED BY <1>2, SetDisk
<1> HIDE DEF r
<1>7. FsOk(r, x) /\ Keeps(s, r) /\ r.ino[i] = d
      /\ \A j \in Inums : j # i => r.ino[j] = s.ino[j]
  <2>1. /\ Disk(r.ino, r.bfree) /\ r.ino[i] = d
        /\ \A j \in Inums : j # i => r.ino[j] = s.ino[j]
    BY <1>2, <1>5, <1>6
  <2>2. r.ino[i].type = s.ino[i].type
    BY <1>3, <2>1 DEF e
  <2>3. FsOk(r, x) /\ Keeps(s, r)
    <3> HIDE DEF v
    <3> QED BY <1>6, <2>1, <2>2, FsUpdate
  <2> QED BY <2>1, <2>3
<1>8. \A j \in Inums : r.ino[j].type = s.ino[j].type
  BY <1>3, <1>7 DEF e
<1> QED BY <1>1, <1>6, <1>7, <1>8 DEF d, e

(* iput() in its two parts.                                                *)
LEMMA IputIs ==
  ASSUME NEW s, NEW i
  PROVE  LET last == s.ref[i] = 1 /\ s.ino[i].nlink = 0
         IN iput(s, i) = refless(IF last THEN ifree(s, i) ELSE s, i)
BY DEF iput

(* One reference less.                                                     *)
LEMMA RefDown ==
  ASSUME NEW s, NEW x, FsOk(s, x), NEW i \in Inums, x[i] >= 1
  PROVE  LET r == refless(s, i)
         IN FsOk(r, Minus(x, i)) /\ Keeps(s, r) /\ r.ino = s.ino
            /\ r.panic = s.panic
<1> DEFINE v == [s.ref EXCEPT ![i] = @ - 1]
           r == [s EXCEPT !.ref = v]
<1>0. refless(s, i) = r
  BY DEF refless
<1>1. IsK(r) /\ r.ino = s.ino /\ r.bfree = s.bfree /\ r.ref = v
      /\ r.panic = s.panic /\ Rest(s, r)
  <2> HIDE DEF v
  <2> QED BY SetRef DEF FsOk
<1> HIDE DEF r
<1>2. s.ref \in [Inums -> Int] /\ x \in [Inums -> Nat]
  BY DEF FsOk
<1>3. v \in [Inums -> Int] /\ v[i] = s.ref[i] - 1
      /\ \A j \in Inums : j # i => v[j] = s.ref[j]
  BY <1>2
<1>4. /\ Minus(x, i) \in [Inums -> Nat] /\ Minus(x, i)[i] = x[i] - 1
      /\ \A j \in Inums : j # i => Minus(x, i)[j] = x[j]
  BY <1>2, MinusIs
<1>5. s.panic = "" => Refs(v, s.proc, s.file, Minus(x, i))
  <2> SUFFICES ASSUME s.panic = "" PROVE Refs(v, s.proc, s.file, Minus(x, i))
    OBVIOUS
  <2>1. ASSUME NEW j \in Inums
        PROVE  v[j] \in Nat /\ v[j] = Cardinality(Cwds(s.proc, j)) + Cardinality(Opened(s.file, j)) + Minus(x, i)[j]
    <3> HIDE DEF v
    <3>1. s.ref[j] = Count(s.proc, s.file, j) + x[j] /\ x[j] \in Nat
          /\ Count(s.proc, s.file, j) \in Nat
      <4>1. RefOk(s, x, j)
        BY ONLY RefAt, FsOk(s, x), s.panic = "", j \in Inums
      <4> QED BY ONLY <4>1 DEF RefOk
    <3>2. v[j] \in Nat /\ v[j] = Count(s.proc, s.file, j) + Minus(x, i)[j]
      <4>1. CASE j = i
        <5>0. v[j] = s.ref[j] - 1 /\ Minus(x, i)[j] = x[j] - 1 /\ x[j] >= 1
          BY <4>1, <1>3, <1>4
        <5>1. v[j] = Count(s.proc, s.file, j) + x[j] - 1
              /\ Minus(x, i)[j] = x[j] - 1 /\ x[j] >= 1
          BY ONLY <3>1, <5>0
        <5> QED BY ONLY <5>1, <3>1, SumOfMore
      <4>2. CASE j # i
        <5>1. v[j] = Count(s.proc, s.file, j) + x[j] /\ Minus(x, i)[j] = x[j]
          BY <4>2, <3>1, <1>3, <1>4
        <5> QED BY ONLY <5>1, <3>1, SumOfMore
      <4> QED BY <4>1, <4>2
    <3> QED BY <3>2 DEF Count
  <2>2. v \in [Inums -> Nat]
    <3> HIDE DEF v
    <3> QED BY <1>3, <2>1
  <2> HIDE DEF v
  <2> QED BY <2>1, <2>2 DEF Refs
<1> HIDE DEF v
<1>6. FsOk(r, Minus(x, i))
  BY <1>1, <1>3, <1>4, <1>5 DEF FsOk, Rest
<1> QED BY <1>0, <1>1, <1>6 DEF Keeps

(* The last reference is the one in hand.                                  *)
LEMMA LastOne ==
  ASSUME NEW a \in Nat, NEW b \in Nat, b >= 1, a + b = 1
  PROVE  a = 0 /\ b = 1 /\ ~(b - 1 >= 1)
OBVIOUS

(* A reference in hand is dropped; what else is in hand stays as it is.    *)
LEMMA IputFs ==
  ASSUME NEW s, NEW x, FsOk(s, x), NEW i \in Inums, x[i] >= 1
  PROVE  LET r == iput(s, i)
         IN /\ FsOk(r, Minus(x, i)) /\ Keeps(s, r) /\ r.panic = s.panic
            /\ s.panic = "" =>
                 \A j \in Inums : Minus(x, i)[j] >= 1 => r.ino[j] = s.ino[j]
<1> DEFINE last == s.ref[i] = 1 /\ s.ino[i].nlink = 0
<1>0. x \in [Inums -> Nat]
  BY DEF FsOk
<1>a. iput(s, i) = refless(IF last THEN ifree(s, i) ELSE s, i)
  BY IputIs
<1>1. CASE ~last
  <2>1. iput(s, i) = refless(s, i)
    <3> HIDE DEF last
    <3> QED BY <1>1, <1>a
  <2>2. LET r == refless(s, i)
        IN FsOk(r, Minus(x, i)) /\ Keeps(s, r) /\ r.ino = s.ino
            /\ r.panic = s.panic
    BY RefDown
  <2> QED BY <2>1, <2>2
<1>2. CASE last
  <2> DEFINE t == itrunc(s, i)
             d == [t.ino[i] EXCEPT !.type = "free"]
             v == [t.ino EXCEPT ![i] = d]
             q == [t EXCEPT !.ino = v]
  <2>0. ifree(s, i) = q
    BY DEF ifree
  <2>1. iput(s, i) = refless(q, i)
    <3> HIDE DEF last, q
    <3> QED BY <1>2, <1>a, <2>0
  <2>2. /\ FsOk(t, x) /\ Keeps(s, t) /\ t.panic = s.panic /\ t.ref = s.ref
        /\ t.ino = [s.ino EXCEPT ![i] = Emptied(s.ino[i])]
    BY ItruncFs
  <2>3. InodeOk(s.ino[i]) /\ s.ino = [j \in Inums |-> s.ino[j]]
    BY FsInums
  <2> HIDE DEF t
  <2>4. t.ino[i] = Emptied(s.ino[i])
        /\ \A j \in Inums : j # i => t.ino[j] = s.ino[j]
    BY <2>2, <2>3
  <2> DEFINE e == t.ino[i]
  <2>5. InodeOk(e) /\ e.nblk = 0 /\ ~e.ind /\ Held(e) = 0 /\ e.data = <<>>
    BY <2>3, <2>4, EmptiedIs
  <2> HIDE DEF e
  <2>6. IsInode(d) /\ d.type = "free" /\ d.nblk = 0 /\ ~d.ind
    <3>1. IsInode(e)
      BY <2>5 DEF InodeOk
    <3> QED BY <2>5, <3>1, InodeFields DEF e
  <2> HIDE DEF d
  <2>7. InodeOk(d) /\ Held(d) = 0
    <3>1. NDIRECT \in Nat
      BY FilesAssumption
    <3> QED BY <2>6, <3>1 DEF InodeOk, Held
  <2>8. Disk(v, t.bfree)
    <3>1. Disk(t.ino, t.bfree) /\ t.bfree \in Nat
      BY <2>2 DEF FsOk, Disk
    <3>2. t.bfree + Held(d) = t.bfree + Held(t.ino[i])
      BY <2>5, <2>7 DEF e
    <3> QED BY <2>7, <3>1, <3>2, DiskUpdate
  <2>9. IsK(q) /\ q.ino = v /\ q.bfree = t.bfree /\ q.ref = t.ref
        /\ q.panic = t.panic /\ Rest(t, q)
    <3> HIDE DEF v
    <3> QED BY <2>2, SetIno DEF FsOk
  <2> HIDE DEF q
  <2>10. s.panic = "" => x[i] = 1 /\ t.ref[i] = x[i]
    <3> SUFFICES ASSUME s.panic = "" PROVE x[i] = 1 /\ t.ref[i] = x[i]
      OBVIOUS
    <3>1. s.ref[i] = Count(s.proc, s.file, i) + x[i] /\ x[i] \in Nat
          /\ Count(s.proc, s.file, i) \in Nat
      BY RefIs
    <3>2. x[i] = 1
      <4>1. Count(s.proc, s.file, i) + x[i] = 1 /\ x[i] >= 1
        BY <1>2, <3>1
      <4> QED BY ONLY <3>1, <4>1, LastOne
    <3> QED BY <1>2, <2>2, <3>2
  <2>11. FsOk(q, x) /\ Keeps(t, q) /\ q.ino[i] = d
         /\ \A j \in Inums : j # i => q.ino[j] = t.ino[j]
    <3>1. Disk(q.ino, q.bfree) /\ q.ino[i] = d
          /\ q.panic = t.panic /\ q.ref = t.ref /\ Rest(t, q) /\ IsK(q)
          /\ \A j \in Inums : j # i => q.ino[j] = t.ino[j]
      <4>1. t.ino = [j \in Inums |-> t.ino[j]]
        BY <2>2, FsInums
      <4> QED BY <2>8, <2>9, <4>1
    <3>2. t.panic = "" => t.ref[i] = x[i]
      BY <2>2, <2>10
    <3>3. FsOk(t, x)
      BY <2>2
    <3> HIDE DEF v
    <3>4. FsOk(q, x) /\ Keeps(t, q)
      BY ONLY <3>1, <3>2, <3>3, i \in Inums, FsUpdate
    <3> QED BY <3>1, <3>4
  <2>12. LET r == refless(q, i)
         IN FsOk(r, Minus(x, i)) /\ Keeps(q, r) /\ r.ino = q.ino
            /\ r.panic = q.panic
    BY <2>11, RefDown
  <2> DEFINE r == refless(q, i)
  <2> HIDE DEF r
  <2>13. Keeps(s, r) /\ r.panic = s.panic
    <3>1. FsOk(r, Minus(x, i)) /\ Keeps(q, r) /\ r.panic = q.panic
      BY <2>12 DEF r
    <3> QED BY <3>1, <2>2, <2>9, <2>11, KeepsTwice
  <2>14. ASSUME s.panic = "", NEW j \in Inums, Minus(x, i)[j] >= 1
         PROVE  r.ino[j] = s.ino[j]
    <3>1. j # i
      <4>1. Minus(x, i)[i] = x[i] - 1
        BY <1>0, MinusIs
      <4>2. x[i] = 1
        BY ONLY <2>10, <2>14
      <4>3. Minus(x, i)[i] = 0
        BY ONLY <4>1, <4>2
      <4>4. ASSUME j = i PROVE FALSE
        <5>1. 0 >= 1
          BY <4>3, <4>4, <2>14
        <5> QED BY <5>1
      <4> QED BY <4>4
    <3>2. r.ino = q.ino
      BY <2>12 DEF r
    <3> QED BY <3>1, <3>2, <2>4, <2>11
  <2>15. FsOk(r, Minus(x, i)) /\ iput(s, i) = r
    BY <2>1, <2>12 DEF r
  <2> QED BY <2>13, <2>14, <2>15
<1> QED BY <1>1, <1>2

-----------------------------------------------------------------------------
(* Link counts, and ialloc().                                              *)

(* Another inode i, with as many blocks.                                   *)
LEMMA FsInode ==
  ASSUME NEW s, NEW x, FsOk(s, x), NEW i \in Inums, NEW d, InodeOk(d),
         Held(d) = Held(s.ino[i]),
         d.type = s.ino[i].type \/ s.ino[i].type = "free"
  PROVE  LET r == [s EXCEPT !.ino = [s.ino EXCEPT ![i] = d]]
         IN FsOk(r, x) /\ Keeps(s, r) /\ r.panic = s.panic
            /\ r.ino = [s.ino EXCEPT ![i] = d] /\ r.ino[i] = d
            /\ \A j \in Inums : j # i => r.ino[j] = s.ino[j]
<1> DEFINE v == [s.ino EXCEPT ![i] = d]
           r == [s EXCEPT !.ino = v]
<1>1. IsK(r) /\ r.ino = v /\ r.bfree = s.bfree /\ r.ref = s.ref
      /\ r.panic = s.panic /\ Rest(s, r)
  <2> HIDE DEF v
  <2> QED BY SetIno DEF FsOk
<1>2. v[i] = d /\ \A j \in Inums : j # i => v[j] = s.ino[j]
  BY FsInums
<1>3. Disk(v, s.bfree)
  <2>1. Disk(s.ino, s.bfree) /\ s.bfree \in Nat
        /\ s.bfree + Held(d) = s.bfree + Held(s.ino[i])
    BY FsInums DEF FsOk
  <2> QED BY <2>1, DiskUpdate
<1> HIDE DEF r, v
<1>4. FsOk(r, x) /\ Keeps(s, r)
  <2>1. r.ino[i].type = s.ino[i].type \/ s.ino[i].type = "free"
    BY <1>1, <1>2
  <2>2. Disk(r.ino, r.bfree)
    BY <1>1, <1>3
  <2>3. \A j \in Inums : j # i => r.ino[j] = s.ino[j]
    BY <1>1, <1>2
  <2> QED BY <1>1, <2>1, <2>2, <2>3, FsUpdate
<1> QED BY <1>1, <1>2, <1>4 DEF r, v

(* An inode with another link count.                                       *)
LEMMA SetNlink ==
  ASSUME NEW e, IsInode(e), NEW v
  PROVE  LET d == [e EXCEPT !.nlink = v]
         IN IsInode(d) /\ d.type = e.type /\ d.nlink = v
            /\ d.major = e.major /\ d.data = e.data /\ d.nblk = e.nblk
            /\ d.ind = e.ind
BY DEF IsInode

(* An inode with another device number.                                    *)
LEMMA SetMajor ==
  ASSUME NEW e, IsInode(e), NEW v
  PROVE  LET d == [e EXCEPT !.major = v]
         IN IsInode(d) /\ d.type = e.type /\ d.nlink = e.nlink
            /\ d.major = v /\ d.data = e.data /\ d.nblk = e.nblk
            /\ d.ind = e.ind
BY DEF IsInode

(* Only the number of links changes.                                       *)
Alike(d, e) == d.type = e.type /\ d.data = e.data /\ d.major = e.major

(* A change of link counts.                                                *)
LEMMA LinksFs ==
  ASSUME NEW s, NEW x, FsOk(s, x), NEW i \in Inums, NEW v
  PROVE  LET r == setnlink(s, i, v)
         IN FsOk(r, x) /\ Keeps(s, r) /\ r.panic = s.panic
            /\ r.ino[i].nlink = v
            /\ \A j \in Inums : /\ Alike(r.ino[j], s.ino[j])
                                /\ j # i => r.ino[j] = s.ino[j]
<1> DEFINE e == s.ino[i]
           d == [e EXCEPT !.nlink = v]
           r == setnlink(s, i, v)
<1>1. IsInode(e) /\ InodeOk(e)
  BY FsInums
<1>2. /\ IsInode(d) /\ d.type = e.type /\ d.nlink = v /\ d.major = e.major
      /\ d.data = e.data /\ d.nblk = e.nblk /\ d.ind = e.ind
  <2> HIDE DEF e
  <2> QED BY <1>1, SetNlink
<1>3. r = [s EXCEPT !.ino = [s.ino EXCEPT ![i] = d]]
  BY DEF setnlink
<1> HIDE DEF d, e, r
<1>4. InodeOk(d) /\ Held(d) = Held(e)
  BY <1>1, <1>2 DEF InodeOk, Held
<1>5. Held(d) = Held(s.ino[i]) /\ d.type = s.ino[i].type
  BY <1>2, <1>4 DEF e
<1>6. /\ FsOk(r, x) /\ Keeps(s, r) /\ r.panic = s.panic /\ r.ino[i] = d
      /\ \A j \in Inums : j # i => r.ino[j] = s.ino[j]
  BY <1>3, <1>4, <1>5, FsInode
<1>7. Alike(r.ino[i], s.ino[i]) /\ r.ino[i].nlink = v
  BY <1>2, <1>6 DEF Alike, e
<1> QED BY <1>6, <1>7 DEF Alike, r

(* A new inode, and the reference to it.                                   *)
NewInode(type) == [FreeInode EXCEPT !.type = type]
NewAt(s, i, type) == [s EXCEPT !.ino = [s.ino EXCEPT ![i] = NewInode(type)]]

(* A new inode is an inode.                                                *)
LEMMA InodeRecord ==
  ASSUME NEW r, NEW type, NEW n, NEW m, NEW data, IsSeq(data), NEW b \in Nat,
         r = [type |-> type, nlink |-> n, major |-> m, data |-> data,
              nblk |-> b, ind |-> FALSE]
  PROVE  IsInode(r) /\ r.data = data /\ r.nblk = b /\ ~r.ind
<1>1. \A ind \in BOOLEAN :
        r = [type |-> type, nlink |-> n, major |-> m, data |-> data,
              nblk |-> b, ind |-> ind]
        => /\ r = [type |-> r.type, nlink |-> r.nlink, major |-> r.major,
                   data |-> r.data, nblk |-> r.nblk, ind |-> r.ind]
           /\ r.data = data /\ r.nblk = b /\ r.ind = ind
  OBVIOUS
<1>2. r = [type |-> r.type, nlink |-> r.nlink, major |-> r.major,
           data |-> r.data, nblk |-> r.nblk, ind |-> r.ind]
      /\ r.data = data /\ r.nblk = b /\ r.ind = FALSE
  BY <1>1
<1>3. r.ind \in BOOLEAN /\ ~r.ind
  BY <1>2
<1> QED BY <1>2, <1>3 DEF IsInode

(* A new inode has no blocks.                                              *)
LEMMA NewInodeIs ==
  ASSUME NEW type
  PROVE  LET d == NewInode(type)
         IN InodeOk(d) /\ d.type = type /\ Held(d) = 0 /\ d.data = <<>>
<1> DEFINE e == FreeInode
           d == NewInode(type)
<1>1. e = [type |-> "free", nlink |-> 0, major |-> 0, data |-> <<>>,
           nblk |-> 0, ind |-> FALSE]
  BY DEF FreeInode
<1>2. d = [e EXCEPT !.type = type]
  BY DEF NewInode
<1> HIDE DEF d, e
<1>3. IsSeq(<<>>) /\ 0 \in Nat
  BY NoUnits
<1>4. IsInode(e) /\ e.data = <<>> /\ e.nblk = 0 /\ ~e.ind
  BY <1>1, <1>3, InodeRecord
<1>5. IsInode(d) /\ d.type = type /\ d.data = <<>> /\ d.nblk = 0 /\ ~d.ind
  BY <1>2, <1>4, InodeFields
<1>6. NDIRECT \in Nat /\ Len(<<>>) = 0
  BY FilesAssumption, NoUnits
<1>7. InodeOk(d)
  <2>1. \A j \in 1 .. Len(d.data) : d.data[j][2] \in 0 .. NINODES
    BY <1>5, <1>6
  <2> QED BY <1>5, <1>6, <2>1 DEF InodeOk
<1>8. Held(d) = 0
  BY <1>5 DEF Held
<1> QED BY <1>5, <1>7, <1>8 DEF d

(* ialloc() finds a free inode, or none.                                   *)
LEMMA IallocIs ==
  ASSUME NEW s, NEW type
  PROVE  LET unused == {i \in Inums : s.ino[i].type = "free"}
         IN ialloc(s, type) =
              IF unused = {} THEN [k |-> s, ip |-> 0]
              ELSE [k |-> iget(NewAt(s, Min(unused), type), Min(unused)),
                    ip |-> Min(unused)]
BY DEF ialloc, NewAt, NewInode, Inums, ROOTINO

(* ialloc() takes a reference to what it finds.                            *)
LEMMA IallocFs ==
  ASSUME NEW s, NEW x, FsOk(s, x), NEW type
  PROVE  LET a == ialloc(s, type)
         IN \/ a.ip = 0 /\ a.k = s
            \/ /\ a.ip \in Inums /\ a.ip # 0
               /\ FsOk(a.k, Plus(x, a.ip)) /\ Keeps(s, a.k)
               /\ s.ino[a.ip].type = "free" /\ a.k.ino[a.ip].type = type
               /\ a.k.ino[a.ip].data = <<>>
               /\ \A j \in Inums : j # a.ip => a.k.ino[j] = s.ino[j]
<1> DEFINE unused == {i \in Inums : s.ino[i].type = "free"}
           i == Min(unused)
           new == NewAt(s, i, type)
           a == ialloc(s, type)
<1>1. CASE unused = {}
  BY <1>1, IallocIs
<1>2. CASE unused # {}
  <2>1. a.k = iget(new, i) /\ a.ip = i
    BY <1>2, IallocIs
  <2>2. i \in unused
    <3>1. unused \in SUBSET Nat
      BY DEF Inums
    <3> HIDE DEF unused
    <3> QED BY <1>2, <3>1, SmallestOf
  <2>3. i \in Inums /\ s.ino[i].type = "free" /\ i # 0
    BY <2>2 DEF Inums
  <2> HIDE DEF i
  <2>4. /\ InodeOk(NewInode(type)) /\ NewInode(type).type = type
        /\ Held(NewInode(type)) = Held(s.ino[i]) /\ NewInode(type).data = <<>>
    <3>1. Held(s.ino[i]) = 0
      <4>1. InodeOk(s.ino[i])
        BY <2>3, FsInums
      <4>2. s.ino[i].nblk = 0 /\ ~s.ino[i].ind
        BY <2>3, <4>1 DEF InodeOk
      <4> QED BY <4>2 DEF Held
    <3> QED BY <3>1, NewInodeIs
  <2>5. /\ FsOk(new, x) /\ Keeps(s, new) /\ new.ino[i] = NewInode(type)
        /\ \A j \in Inums : j # i => new.ino[j] = s.ino[j]
    BY <2>3, <2>4, FsInode DEF NewAt
  <2> HIDE DEF new, a
  <2>6. FsOk(a.k, Plus(x, i)) /\ Keeps(new, a.k) /\ a.k.ino = new.ino
    BY <2>1, <2>3, <2>5, IgetFs
  <2>7. Keeps(s, a.k)
    BY <2>5, <2>6, KeepsTwice
  <2>8. a.k.ino[i].type = type /\ a.k.ino[i].data = <<>>
    BY <2>4, <2>5, <2>6
  <2> QED BY <2>1, <2>3, <2>5, <2>6, <2>7, <2>8 DEF a
<1> HIDE DEF a
<1> QED BY <1>1, <1>2 DEF a

-----------------------------------------------------------------------------
(* Directories: dirlookup() and dirlink().                                 *)

(* The entry that dirlookup() finds.                                       *)
LEMMA FoundAt ==
  ASSUME NEW s, NEW d, IsSeq(s.ino[d].data), NEW name
  PROVE  LET e == dirlookup(s, d, name)
             data == s.ino[d].data
         IN e \in Nat /\ (e # 0 => e \in 1 .. Len(data) /\ data[e][2] # 0)
<1> DEFINE data == s.ino[d].data
           I == {j \in 1 .. Len(data) : data[j][2] # 0 /\ data[j][1] = Short(name)}
           e == dirlookup(s, d, name)
<1>1. e = IF I # {} THEN Min(I) ELSE 0
  BY DEF dirlookup, SelectInSeq
<1>2. I \in SUBSET Nat
  BY SeqIs
<1>3. I # {} => Min(I) \in I
  <2> HIDE DEF I
  <2> QED BY <1>2, SmallestOf
<1> HIDE DEF e
<1>4. CASE I # {}
  <2>1. e \in I
    BY <1>1, <1>3, <1>4
  <2> QED BY <2>1, SeqIs DEF e
<1>5. CASE I = {}
  <2>1. e = 0
    BY ONLY <1>1, <1>5
  <2> QED BY ONLY <2>1 DEF e, data
<1> QED BY <1>4, <1>5

(* What a directory names is an inode.                                     *)
LEMMA LookupIs ==
  ASSUME NEW s, NEW x, FsOk(s, x), NEW d \in Inums, NEW name
  PROVE  LET e == dirlookup(s, d, name)
             data == s.ino[d].data
         IN /\ e \in Nat
            /\ e # 0 => e \in 1 .. Len(data) /\ data[e][2] # 0
            /\ e # 0 /\ s.ino[d].type = "dir" => data[e][2] \in Inums
<1> DEFINE e == dirlookup(s, d, name)
           data == s.ino[d].data
<1>1. IsSeq(data) /\ InodeOk(s.ino[d])
  BY FsInums
<1>2. e \in Nat /\ (e # 0 => e \in 1 .. Len(data) /\ data[e][2] # 0)
  BY <1>1, FoundAt
<1> HIDE DEF e
<1>3. ASSUME e # 0, s.ino[d].type = "dir" PROVE data[e][2] \in Inums
  <2>1. data[e][2] \in 0 .. NINODES
    BY <1>1, <1>2, <1>3 DEF InodeOk
  <2> QED BY <1>2, <1>3, <2>1 DEF Inums
<1> QED BY <1>2, <1>3 DEF e

(* A free entry is one of the directory's or the one behind them.          *)
LEMMA RoomIs ==
  ASSUME NEW s, NEW d, IsSeq(s.ino[d].data)
  PROVE  Room(s, d) \in Nat
<1> DEFINE data == s.ino[d].data
           I == {j \in 1 .. Len(data) : data[j][2] = 0}
           slot == IF I # {} THEN Min(I) ELSE 0
<1>1. Room(s, d) = IF slot = 0 THEN Len(data) ELSE slot - 1
  BY DEF Room, SelectInSeq
<1>2. I \in SUBSET Nat /\ Len(data) \in Nat
  BY SeqIs
<1>3. I # {} => Min(I) \in I
  <2> HIDE DEF I
  <2> QED BY <1>2, SmallestOf
<1>4. CASE I # {}
  <2>1. slot \in I
    BY <1>3, <1>4
  <2>2. slot \in Nat /\ slot >= 1
    BY <2>1, <1>2
  <2> HIDE DEF slot
  <2> QED BY <1>1, <1>2, <2>2
<1>5. CASE I = {}
  <2>1. slot = 0
    BY <1>5
  <2> HIDE DEF slot
  <2> QED BY <1>1, <1>2, <2>1
<1> QED BY <1>4, <1>5

(* A sequence of one.                                                      *)
LEMMA OneUnit ==
  ASSUME NEW u
  PROVE  IsSeq(<<u>>) /\ Len(<<u>>) = 1 /\ <<u>>[1] = u
<1>1. <<u>> \in [1 .. 1 -> {u}]
  OBVIOUS
<1>2. 1 \in Nat
  OBVIOUS
<1> QED BY <1>1, <1>2, FcnIsSeq

(* An entry more changes nothing but the directory's contents and blocks.  *)
LEMMA DirlinkFs ==
  ASSUME NEW s, NEW x, FsOk(s, x), NEW d \in Inums, s.ino[d].type # "free",
         NEW name, NEW i \in 0 .. NINODES
  PROVE  LET r == dirlink(s, d, name, i)
         IN /\ FsOk(r.k, x) /\ Keeps(s, r.k) /\ r.k.panic = s.panic
            /\ r.k.ref = s.ref
            /\ r.k.ino[d].type = s.ino[d].type
            /\ \A j \in Inums : j # d => r.k.ino[j] = s.ino[j]
<1> DEFINE u == Entry(Short(name), i)
           r == dirlink(s, d, name, i)
<1>1. IsK(s) /\ Disk(s.ino, s.bfree) /\ IsSeq(s.ino[d].data)
      /\ s.ino = [j \in Inums |-> s.ino[j]]
  BY FsInums DEF FsOk
<1> DEFINE units == <<u>>
           w == writei(s, d, Room(s, d), units, 1)
           q == w.k
<1>2. r.k = s \/ r.k = q
  BY DEF dirlink
<1>3. u[2] = i
  BY DEF Entry
<1> HIDE DEF u
<1>4. IsSeq(units) /\ \A j \in 1 .. Len(units) : units[j][2] \in 0 .. NINODES
  BY <1>3, OneUnit
<1> HIDE DEF units
<1>5. /\ IsK(q) /\ Rest(s, q) /\ q.panic = s.panic /\ q.ref = s.ref
      /\ q.ino = [s.ino EXCEPT ![d] = q.ino[d]]
      /\ q.ino[d].type = s.ino[d].type
      /\ Disk(q.ino, q.bfree)
  <2>1. Room(s, d) \in Nat
    BY <1>1, RoomIs
  <2> QED BY <1>1, <1>4, <2>1, WriteiGrows
<1> HIDE DEF w, q, r
<1>7. \A j \in Inums : j # d => q.ino[j] = s.ino[j]
  BY <1>1, <1>5
<1>8. FsOk(q, x) /\ Keeps(s, q)
  <2>1. /\ IsK(q) /\ Rest(s, q) /\ q.panic = s.panic /\ q.ref = s.ref
        /\ q.ino[d].type = s.ino[d].type /\ Disk(q.ino, q.bfree)
    BY ONLY <1>5
  <2> QED BY ONLY <1>7, <2>1, FsUpdate, FsOk(s, x), d \in Inums
<1>9. Keeps(s, s)
  BY KeepsSelf
<1> QED BY <1>2, <1>5, <1>7, <1>8, <1>9 DEF r

-----------------------------------------------------------------------------
(* Paths: namei() and nameiparent() return an inode with a reference, or   *)
(* none.                                                                   *)

(* References taken and given back.                                        *)
LEMMA PlusMinus ==
  ASSUME NEW x \in [Inums -> Nat], NEW i \in Inums, NEW j \in Inums
  PROVE  /\ Minus(Plus(Plus(x, i), j), i) = Plus(x, j)
         /\ Plus(Plus(x, i), j)[i] >= 1 /\ Plus(x, i)[i] >= 1
         /\ Plus(Plus(x, i), j) = Plus(Plus(x, j), i)
<1> DEFINE u == Plus(x, i)
           v == Plus(u, j)
<1>1. /\ u \in [Inums -> Nat] /\ u[i] = x[i] + 1
      /\ \A m \in Inums : m # i => u[m] = x[m]
  BY PlusIs
<1> HIDE DEF u
<1>2. /\ v \in [Inums -> Nat] /\ v[j] = u[j] + 1
      /\ \A m \in Inums : m # j => v[m] = u[m]
  BY <1>1, PlusIs
<1> HIDE DEF v
<1>3. v[i] >= 1 /\ u[i] >= 1
  BY <1>1, <1>2
<1>4. /\ Minus(v, i) \in [Inums -> Nat] /\ Minus(v, i)[i] = v[i] - 1
      /\ \A m \in Inums : m # i => Minus(v, i)[m] = v[m]
  BY <1>2, <1>3, MinusIs
<1>5. /\ Plus(x, j) \in [Inums -> Nat] /\ Plus(x, j)[j] = x[j] + 1
      /\ \A m \in Inums : m # j => Plus(x, j)[m] = x[m]
  BY PlusIs
<1>6. \A m \in Inums : Minus(v, i)[m] = Plus(x, j)[m]
  <2> SUFFICES ASSUME NEW m \in Inums PROVE Minus(v, i)[m] = Plus(x, j)[m]
    OBVIOUS
  <2>1. x[m] \in Nat /\ u[m] \in Nat /\ v[m] \in Nat
    BY <1>1, <1>2
  <2> QED BY <2>1, <1>1, <1>2, <1>4, <1>5
<1>7. Minus(v, i) = Plus(x, j)
  <2> DEFINE f == Minus(v, i)
             g == Plus(x, j)
  <2> HIDE DEF f, g
  <2>1. f \in [Inums -> Nat] /\ g \in [Inums -> Nat] /\ \A m \in Inums : f[m] = g[m]
    BY <1>4, <1>5, <1>6 DEF f, g
  <2>2. f = g
    BY <2>1
  <2> QED BY <2>2 DEF f, g
<1> DEFINE w == Plus(Plus(x, j), i)
<1>8. /\ w \in [Inums -> Nat] /\ w[i] = Plus(x, j)[i] + 1
      /\ \A m \in Inums : m # i => w[m] = Plus(x, j)[m]
  BY <1>5, PlusIs
<1> HIDE DEF w
<1>9. v = w
  <2>1. ASSUME NEW m \in Inums PROVE v[m] = w[m]
    <3>1. x[m] \in Nat /\ u[m] \in Nat /\ v[m] \in Nat
      BY <1>1, <1>2
    <3> QED BY <3>1, <1>1, <1>2, <1>5, <1>8
  <2> QED BY <2>1, <1>2, <1>8
<1> QED BY <1>3, <1>7, <1>9 DEF u, v, w

(* The inode a path leads to is in hand.                                   *)
Hand(x, ip) == IF ip = 0 THEN x ELSE Plus(x, ip)
Walk(s, x, a) ==
  a.ip \in 0 .. NINODES /\ FsOk(a.k, Hand(x, a.ip)) /\ Keeps(s, a.k)

(* The numbers of inodes.                                                  *)
LEMMA InumsIs ==
  /\ ROOTINO \in Inums
  /\ \A i \in 0 .. NINODES : i # 0 => i \in Inums
  /\ \A i \in Inums : i # 0 /\ i \in 0 .. NINODES
<1>1. NINODES \in Nat /\ NINODES # 0
  BY FilesAssumption
<1> QED BY <1>1 DEF Inums, ROOTINO

(* What is in hand when a path leads to an inode.                          *)
LEMMA HandIs ==
  ASSUME NEW x, NEW i \in Inums
  PROVE  Hand(x, i) = Plus(x, i) /\ Hand(x, 0) = x
BY InumsIs DEF Hand

(* When an element is not found the directory is put back.                 *)
LEMMA NotFoundFs ==
  ASSUME NEW s, NEW r, NEW x \in [Inums -> Nat], NEW i \in Inums, FsOk(r, Plus(x, i)),
         Keeps(s, r)
  PROVE  Walk(s, x, NotFound(r, i)) /\ NotFound(r, i).ip = 0
<1> DEFINE q == iput(r, i)
<1>1. Plus(x, i)[i] >= 1 /\ Minus(Plus(x, i), i) = x
  BY PlusMinus, PlusIs
<1>2. FsOk(q, x) /\ Keeps(r, q)
  BY <1>1, IputFs
<1>3. NotFound(r, i).k = q /\ NotFound(r, i).ip = 0
  BY DEF NotFound
<1>4. Keeps(s, q)
  BY <1>2, KeepsTwice
<1>5. 0 \in 0 .. NINODES
  BY FilesAssumption
<1> HIDE DEF q
<1> QED BY <1>2, <1>3, <1>4, <1>5 DEF Walk, Hand

(* One element of the path.                                                *)
LEMMA FollowFs ==
  ASSUME NEW s, NEW x \in [Inums -> Nat], NEW a, Walk(s, x, a), NEW name
  PROVE  Walk(s, x, Follow(a, name))
<1> DEFINE r == ilock(a.k, a.ip)
           e == dirlookup(r, a.ip, name)
           next == r.ino[a.ip].data[e][2]
           got == iget(r, next)
           left == iput(got, a.ip)
<1>1. CASE a.ip = 0
  BY <1>1 DEF Follow
<1>2. CASE a.ip # 0
  <2>1. a.ip \in Inums /\ FsOk(a.k, Plus(x, a.ip)) /\ Keeps(s, a.k)
    BY <1>2, InumsIs DEF Walk, Hand
  <2>2. Plus(x, a.ip)[a.ip] >= 1
    BY <2>1, PlusMinus
  <2>3. FsOk(r, Plus(x, a.ip)) /\ Keeps(a.k, r)
    BY <2>1, <2>2, IlockFs
  <2>4. Keeps(s, r)
    BY <2>1, <2>3, KeepsTwice
  <2> HIDE DEF r
  <2>5. CASE r.panic # "" \/ ~IsDir(r, a.ip) \/ e = 0
    <3>1. Follow(a, name) = NotFound(r, a.ip)
      BY <1>2, <2>5 DEF Follow, r
    <3> QED BY <3>1, <2>1, <2>3, <2>4, NotFoundFs
  <2>6. CASE ~(r.panic # "" \/ ~IsDir(r, a.ip) \/ e = 0)
    <3>1. Follow(a, name).k = left /\ Follow(a, name).ip = next
      BY <1>2, <2>6 DEF Follow, r
    <3>2. next \in Inums
      BY <2>1, <2>3, <2>6, LookupIs DEF IsDir
    <3> HIDE DEF next
    <3>3. FsOk(got, Plus(Plus(x, a.ip), next)) /\ Keeps(r, got)
      BY <2>3, <3>2, IgetFs
    <3> HIDE DEF got
    <3>4. /\ Plus(Plus(x, a.ip), next)[a.ip] >= 1
          /\ Minus(Plus(Plus(x, a.ip), next), a.ip) = Plus(x, next)
      BY <2>1, <3>2, PlusMinus
    <3>5. FsOk(left, Plus(x, next)) /\ Keeps(got, left)
      BY <2>1, <3>3, <3>4, IputFs
    <3> HIDE DEF left
    <3>6. Keeps(s, left)
      BY <2>4, <3>3, <3>5, KeepsTwice
    <3> QED BY <3>1, <3>2, <3>5, <3>6, HandIs, InumsIs DEF Walk
  <2> QED BY <2>5, <2>6
<1> QED BY <1>1, <1>2

(* Some elements of the path.                                              *)
LEMMA NamexFs ==
  ASSUME NEW s, NEW x \in [Inums -> Nat], NEW a, Walk(s, x, a),
         NEW names, NEW n \in Nat
  PROVE  Walk(s, x, namex(a, names, n))
<1>1. PICK at : /\ at[0] = a
                /\ \A j \in 1 .. n : at[j] = Follow(at[j - 1], names[j])
                /\ namex(a, names, n) = at[n]
  BY NamexIs
<1> DEFINE S == {j \in 0 .. n : Walk(s, x, at[j])}
<1>2. 0 \in S
  BY <1>1
<1>3. ASSUME NEW j \in 0 .. n - 1, j \in S PROVE j + 1 \in S
  <2>1. at[j + 1] = Follow(at[j], names[j + 1])
    <3>1. j + 1 \in 1 .. n /\ (j + 1) - 1 = j
      OBVIOUS
    <3> QED BY <1>1, <3>1
  <2>2. Walk(s, x, at[j + 1])
    BY <1>3, <2>1, FollowFs
  <2> QED BY <2>2
<1>4. 0 .. n \subseteq S
  <2> HIDE DEF S
  <2> QED BY <1>2, <1>3, Climb
<1>5. n \in S
  BY <1>4
<1> QED BY <1>1, <1>5

(* Where a path starts.                                                    *)
LEMMA StartFs ==
  ASSUME NEW s, NEW x, FsOk(s, x), NEW cwd \in Inums, NEW path
  PROVE  Walk(s, x, Start(s, cwd, path)) /\ Start(s, cwd, path).ip # 0
<1> DEFINE a == Start(s, cwd, path)
<1>1. /\ FsOk(iget(s, ROOTINO), Plus(x, ROOTINO)) /\ Keeps(s, iget(s, ROOTINO))
      /\ FsOk(idup(s, cwd), Plus(x, cwd)) /\ Keeps(s, idup(s, cwd))
  BY InumsIs, IgetFs, IdupFs
<1>2. \/ a.k = iget(s, ROOTINO) /\ a.ip = ROOTINO
      \/ a.k = idup(s, cwd) /\ a.ip = cwd
  BY DEF Start
<1> HIDE DEF a
<1>3. Walk(s, x, a) /\ a.ip # 0
  BY <1>1, <1>2, InumsIs, HandIs DEF Walk
<1> QED BY <1>3 DEF a

(* How many elements a path has.                                           *)
LEMMA NamesIs ==
  ASSUME NEW path, IsSeq(path)
  PROVE  Len(Names(path)) \in Nat
         /\ (Names(path) # <<>> => Len(Names(path)) - 1 \in Nat)
<1>1. Names(path) \in Seq(ToSet(path))
  BY DEF Names, Absolute, IsSeq
<1> DEFINE n == Names(path)
<1> HIDE DEF n
<1>2. Len(n) \in Nat /\ (n # <<>> => Len(n) # 0)
  BY <1>1 DEF n
<1> QED BY <1>2 DEF n

(* namei() returns an inode with a reference, or none.                     *)
LEMMA NameiFs ==
  ASSUME NEW s, NEW x, FsOk(s, x), NEW cwd \in Inums, NEW path, IsSeq(path)
  PROVE  Walk(s, x, namei(s, cwd, path))
<1>1. x \in [Inums -> Nat]
  BY DEF FsOk
<1> QED BY <1>1, StartFs, NamesIs, NamexFs DEF namei

(* nameiparent() returns a directory with a reference, or none.            *)
LEMMA NameiparentFs ==
  ASSUME NEW s, NEW x, FsOk(s, x), NEW cwd \in Inums, NEW path, IsSeq(path)
  PROVE  LET d == nameiparent(s, cwd, path)
         IN /\ Walk(s, x, d)
            /\ d.ip # 0 => d.ip \in Inums /\ d.k.ino[d.ip].type = "dir"
<1> DEFINE names == Names(path)
           start == Start(s, cwd, path)
           dir == namex(start, names, Len(names) - 1)
           locked == ilock(dir.k, dir.ip)
           d == nameiparent(s, cwd, path)
<1>1. x \in [Inums -> Nat]
  BY DEF FsOk
<1>2. Walk(s, x, start) /\ start.ip # 0
  BY StartFs
<1>3. CASE names = <<>>
  <2>1. d = NotFound(start.k, start.ip)
    BY <1>3 DEF nameiparent
  <2>2. start.ip \in Inums /\ FsOk(start.k, Plus(x, start.ip)) /\ Keeps(s, start.k)
    BY <1>2, InumsIs DEF Walk, Hand
  <2> HIDE DEF start, d
  <2>3. Walk(s, x, d) /\ d.ip = 0
    BY <1>1, <2>1, <2>2, NotFoundFs
  <2> QED BY <2>3 DEF d
<1>4. CASE names # <<>>
  <2>1. Walk(s, x, dir)
    <3>1. Len(names) - 1 \in Nat
      BY <1>4, NamesIs
    <3> HIDE DEF start, names
    <3> QED BY <1>1, <1>2, <3>1, NamexFs
  <2>2. d = IF dir.ip = 0 THEN dir
            ELSE IF ~IsDir(dir.k, dir.ip) THEN NotFound(locked, dir.ip)
            ELSE [k |-> locked, ip |-> dir.ip]
    BY <1>4 DEF nameiparent
  <2> HIDE DEF dir, d
  <2>3. CASE dir.ip = 0
    <3>1. d = dir
      BY <2>2, <2>3
    <3> QED BY <2>1, <2>3, <3>1 DEF d
  <2>4. CASE dir.ip # 0
    <3>1. dir.ip \in Inums /\ FsOk(dir.k, Plus(x, dir.ip)) /\ Keeps(s, dir.k)
          /\ Plus(x, dir.ip)[dir.ip] >= 1
      BY <1>1, <2>1, <2>4, InumsIs, PlusMinus DEF Walk, Hand
    <3>2. FsOk(locked, Plus(x, dir.ip)) /\ Keeps(dir.k, locked)
          /\ locked.ino = dir.k.ino
      BY <3>1, IlockFs
    <3>3. Keeps(s, locked)
      BY <3>1, <3>2, KeepsTwice
    <3> HIDE DEF locked
    <3>4. CASE ~IsDir(dir.k, dir.ip)
      <4>1. d = NotFound(locked, dir.ip)
        BY <2>2, <2>4, <3>4
      <4>2. Walk(s, x, d) /\ d.ip = 0
        BY <1>1, <3>1, <3>2, <3>3, <4>1, NotFoundFs
      <4> QED BY <4>2 DEF d
    <3>5. CASE IsDir(dir.k, dir.ip)
      <4>1. d.k = locked /\ d.ip = dir.ip
        BY <2>2, <2>4, <3>5
      <4>2. d.k.ino[d.ip].type = "dir"
        BY <3>2, <3>5, <4>1 DEF IsDir
      <4>3. Walk(s, x, d)
        BY <2>4, <3>1, <3>2, <3>3, <4>1, InumsIs DEF Walk, Hand
      <4> QED BY <3>1, <4>1, <4>2, <4>3 DEF d
    <3> QED BY <3>4, <3>5
  <2> QED BY <2>3, <2>4
<1> HIDE DEF d
<1> QED BY <1>3, <1>4 DEF d

-----------------------------------------------------------------------------
(* create().                                                               *)

(* The new inode and its entries; the undoing when there was no room.      *)
LEMMA MadeFs ==
  ASSUME NEW s, NEW x, FsOk(s, x), NEW i \in Inums, NEW major
  PROVE  LET r == Made(s, i, major)
         IN FsOk(r, x) /\ Keeps(s, r) /\ r.panic = s.panic
            /\ r.ino[i].type = s.ino[i].type
            /\ \A j \in Inums : j # i => r.ino[j] = s.ino[j]
<1> DEFINE e == s.ino[i]
           d1 == [e EXCEPT !.nlink = 1]
           d == [d1 EXCEPT !.major = major]
           r == Made(s, i, major)
<1>1. IsInode(e) /\ InodeOk(e)
  BY FsInums
<1>2. r = [s EXCEPT !.ino = [s.ino EXCEPT ![i] = d]]
  BY DEF Made
<1> HIDE DEF e, r
<1>3. /\ IsInode(d1) /\ d1.type = e.type /\ d1.data = e.data
      /\ d1.nblk = e.nblk /\ d1.ind = e.ind
  <2>1. \A v : LET f == [e EXCEPT !.nlink = v]
               IN /\ IsInode(f) /\ f.type = e.type /\ f.data = e.data
                  /\ f.nblk = e.nblk /\ f.ind = e.ind
    BY <1>1, SetNlink
  <2> QED BY <2>1
<1> HIDE DEF d1
<1>4. /\ IsInode(d) /\ d.type = e.type /\ d.data = e.data
      /\ d.nblk = e.nblk /\ d.ind = e.ind
  BY <1>3, SetMajor
<1> HIDE DEF d
<1>5. InodeOk(d) /\ Held(d) = Held(e)
  BY <1>1, <1>4 DEF InodeOk, Held
<1>6. Held(d) = Held(s.ino[i]) /\ d.type = s.ino[i].type
  BY <1>4, <1>5 DEF e
<1>7. /\ FsOk(r, x) /\ Keeps(s, r) /\ r.panic = s.panic /\ r.ino[i] = d
      /\ \A j \in Inums : j # i => r.ino[j] = s.ino[j]
  BY <1>2, <1>5, <1>6, FsInode
<1> QED BY <1>6, <1>7 DEF r

(* Of two references in hand the one to i is given up.                     *)
LEMMA IputOne ==
  ASSUME NEW s, NEW x \in [Inums -> Nat], NEW i \in Inums, NEW j \in Inums,
         FsOk(s, Plus(Plus(x, i), j))
  PROVE  LET r == iput(s, i)
         IN FsOk(r, Plus(x, j)) /\ Keeps(s, r) /\ r.panic = s.panic
<1>1. /\ Plus(Plus(x, i), j)[i] >= 1
      /\ Minus(Plus(Plus(x, i), j), i) = Plus(x, j)
  BY PlusMinus
<1> QED BY <1>1, IputFs

(* iput() of one of two.                                                   *)
LEMMA IputLast ==
  ASSUME NEW s, NEW x \in [Inums -> Nat], NEW i \in Inums, FsOk(s, Plus(x, i))
  PROVE  LET r == iput(s, i)
         IN FsOk(r, x) /\ Keeps(s, r) /\ r.panic = s.panic
<1>1. Plus(x, i)[i] >= 1 /\ Minus(Plus(x, i), i) = x
  BY PlusMinus, PlusIs
<1> QED BY <1>1, IputFs

(* create() returns an inode with a reference, or none.                    *)
LEMMA CreateFs ==
  ASSUME NEW s, NEW x, FsOk(s, x), NEW cwd \in Inums, NEW path, IsSeq(path),
         NEW type, type # "free", NEW major
  PROVE  Walk(s, x, create(s, cwd, path, type, major))
<1> DEFINE dir == nameiparent(s, cwd, path)
           dp == dir.ip
           e == dirlookup(dir.k, dp, Last(path))
           ip == dir.k.ino[dp].data[e][2]
           got == iget(dir.k, ip)
           put == iput(got, dp)
           found == ilock(put, ip)
           new == ialloc(dir.k, type)
           i == new.ip
           k1 == Made(new.k, i, major)
           dot == dirlink(k1, i, ".", i)
           dotdot == dirlink(dot.k, i, "..", dp)
           made == IF type # "dir" THEN [k |-> k1, ok |-> TRUE]
                   ELSE IF ~dot.ok THEN dot ELSE dotdot
           linked == IF made.ok THEN dirlink(made.k, dp, Last(path), i)
                     ELSE made
           k2 == IF type = "dir"
                 THEN setnlink(linked.k, dp, linked.k.ino[dp].nlink + 1)
                 ELSE linked.k
           undone == setnlink(linked.k, i, 0)
           c == create(s, cwd, path, type, major)
<1>0. x \in [Inums -> Nat]
  BY DEF FsOk
<1>1. c = IF dp = 0 THEN dir
          ELSE IF e # 0
          THEN IF type = "file" /\ found.ino[ip].type \in {"file", "device"}
               THEN [k |-> found, ip |-> ip] ELSE NotFound(found, ip)
          ELSE IF i = 0 THEN NotFound(new.k, dp)
          ELSE IF ~linked.ok THEN [k |-> iput(iput(undone, i), dp), ip |-> 0]
          ELSE [k |-> iput(k2, dp), ip |-> i]
  BY DEF create
<1> HIDE DEF c
<1>2. Walk(s, x, dir) /\ (dp # 0 => dp \in Inums /\ dir.k.ino[dp].type = "dir")
  BY NameiparentFs
<1> HIDE DEF dir
<1>3. CASE dp = 0
  BY <1>1, <1>2, <1>3 DEF c
<1>4. CASE dp # 0 /\ e # 0
  <2>1. /\ dp \in Inums /\ FsOk(dir.k, Plus(x, dp)) /\ Keeps(s, dir.k)
        /\ ip \in Inums
    BY <1>2, <1>4, LookupIs DEF Walk, Hand
  <2> HIDE DEF e, ip, dp
  <2>2. FsOk(got, Plus(Plus(x, dp), ip)) /\ Keeps(dir.k, got)
    BY <2>1, IgetFs
  <2> HIDE DEF got
  <2>3. FsOk(put, Plus(x, ip)) /\ Keeps(got, put)
    BY <1>0, <2>1, <2>2, IputOne
  <2> HIDE DEF put
  <2>4. FsOk(found, Plus(x, ip)) /\ Keeps(put, found)
    BY <1>0, <2>1, <2>3, PlusMinus, IlockFs
  <2> HIDE DEF found
  <2>5. Keeps(s, found)
    BY <2>1, <2>2, <2>3, <2>4, KeepsTwice
  <2>6. Walk(s, x, NotFound(found, ip))
    BY <1>0, <2>1, <2>4, <2>5, NotFoundFs
  <2>7. CASE c = NotFound(found, ip)
    BY <2>6, <2>7 DEF c
  <2>8. CASE c = [k |-> found, ip |-> ip]
    <3>1. c.k = found /\ c.ip = ip
      BY <2>8
    <3>2. Walk(s, x, c)
      BY <2>1, <2>4, <2>5, <3>1, HandIs, InumsIs DEF Walk
    <3> QED BY <3>2 DEF c
  <2> QED BY <1>1, <1>4, <2>7, <2>8
<1>5. CASE dp # 0 /\ e = 0 /\ i = 0
  <2>1. dp \in Inums /\ FsOk(dir.k, Plus(x, dp)) /\ Keeps(s, dir.k)
    BY <1>2, <1>5 DEF Walk, Hand
  <2>2. new.k = dir.k
    BY <1>5, <2>1, IallocFs, InumsIs
  <2>3. c = NotFound(new.k, dp)
    BY <1>1, <1>5
  <2> HIDE DEF new, dp
  <2>4. Walk(s, x, c)
    BY <1>0, <2>1, <2>2, <2>3, NotFoundFs
  <2> QED BY <2>4 DEF c
<1>6. CASE dp # 0 /\ e = 0 /\ i # 0
  <2>1. /\ dp \in Inums /\ FsOk(dir.k, Plus(x, dp)) /\ Keeps(s, dir.k)
        /\ dir.k.ino[dp].type = "dir"
    BY <1>2, <1>6 DEF Walk, Hand
  <2> DEFINE y == Plus(Plus(x, dp), i)
  <2>2. /\ i \in Inums /\ FsOk(new.k, y) /\ Keeps(dir.k, new.k)
        /\ dir.k.ino[i].type = "free" /\ new.k.ino[i].type = type
        /\ \A j \in Inums : j # i => new.k.ino[j] = dir.k.ino[j]
    BY <1>6, <2>1, IallocFs
  <2>3. i # dp /\ new.k.ino[dp].type = "dir"
    BY <2>1, <2>2
  <2>4. c = IF ~linked.ok THEN [k |-> iput(iput(undone, i), dp), ip |-> 0]
            ELSE [k |-> iput(k2, dp), ip |-> i]
    BY <1>1, <1>6
  <2> DEFINE Fit(q) == /\ FsOk(q, y) /\ Keeps(new.k, q)
                       /\ q.ino[i].type = type /\ q.ino[dp].type = "dir"
  <2> HIDE DEF new, dp, i, e
  <2>5. Fit(k1)
    <3>1. /\ FsOk(k1, y) /\ Keeps(new.k, k1) /\ k1.ino[i].type = new.k.ino[i].type
          /\ \A j \in Inums : j # i => k1.ino[j] = new.k.ino[j]
      <4> HIDE DEF y
      <4> QED BY <2>2, MadeFs
    <3> QED BY <2>1, <2>2, <2>3, <3>1
  <2>6. i \in 0 .. NINODES /\ dp \in 0 .. NINODES
    BY <2>1, <2>2, InumsIs
  <2>7. ASSUME NEW q, Fit(q), NEW name, NEW a \in {i, dp}, NEW b \in {i, dp}
        PROVE  Fit(dirlink(q, a, name, b).k)
    <3> DEFINE r == dirlink(q, a, name, b)
    <3>1. a \in Inums /\ b \in 0 .. NINODES /\ q.ino[a].type # "free"
      BY <2>1, <2>2, <2>6, <2>7
    <3>2. /\ FsOk(r.k, y) /\ Keeps(q, r.k) /\ r.k.ino[a].type = q.ino[a].type
          /\ \A j \in Inums : j # a => r.k.ino[j] = q.ino[j]
      <4> HIDE DEF y
      <4> QED BY <2>7, <3>1, DirlinkFs
    <3> HIDE DEF r, y
    <3>3. Fit(r.k)
      BY <2>1, <2>2, <2>7, <3>1, <3>2, KeepsTwice
    <3> QED BY <3>3 DEF r
  <2> HIDE DEF Fit, k1
  <2>8. Fit(dot.k)
    BY <2>5, <2>7
  <2> HIDE DEF dot
  <2>9. Fit(dotdot.k)
    BY <2>8, <2>7
  <2> HIDE DEF dotdot
  <2>10. Fit(made.k)
    BY <2>5, <2>8, <2>9
  <2> HIDE DEF made
  <2>11. Fit(linked.k)
    <3>1. Fit(dirlink(made.k, dp, Last(path), i).k)
      BY <2>10, <2>7
    <3> QED BY <2>10, <3>1
  <2> HIDE DEF linked
  <2>12. Keeps(s, linked.k) /\ FsOk(linked.k, y)
    BY <2>1, <2>2, <2>11, KeepsTwice DEF Fit
  <2>13. CASE ~linked.ok
    <3>1. FsOk(undone, y) /\ Keeps(linked.k, undone)
      <4> HIDE DEF y
      <4> QED BY <2>2, <2>12, LinksFs
    <3> HIDE DEF undone
    <3> DEFINE u1 == iput(undone, i)
               u2 == iput(u1, dp)
    <3>2. y = Plus(Plus(x, i), dp)
      BY <1>0, <2>1, <2>2, PlusMinus
    <3>3. FsOk(u1, Plus(x, dp)) /\ Keeps(undone, u1)
      <4> HIDE DEF y
      <4> QED BY <1>0, <2>1, <2>2, <3>1, <3>2, IputOne
    <3> HIDE DEF u1
    <3>4. FsOk(u2, x) /\ Keeps(u1, u2)
      BY <1>0, <2>1, <3>3, IputLast
    <3>5. c.k = u2 /\ c.ip = 0
      BY <2>4, <2>13 DEF u1
    <3> HIDE DEF u2
    <3>6. Keeps(s, u2)
      BY <2>12, <3>1, <3>3, <3>4, KeepsTwice
    <3>7. Walk(s, x, c)
      BY <3>4, <3>5, <3>6, FilesAssumption DEF Walk, Hand
    <3> QED BY <3>7 DEF c
  <2>14. CASE linked.ok
    <3>1. FsOk(k2, y) /\ Keeps(linked.k, k2)
      <4>1. Keeps(linked.k, linked.k)
        BY KeepsSelf
      <4> HIDE DEF y
      <4>2. ASSUME NEW n PROVE FsOk(setnlink(linked.k, dp, n), y)
                               /\ Keeps(linked.k, setnlink(linked.k, dp, n))
        BY <2>1, <2>12, LinksFs
      <4> QED BY <2>12, <4>1, <4>2
    <3> HIDE DEF k2
    <3> DEFINE u == iput(k2, dp)
    <3>2. FsOk(u, Plus(x, i)) /\ Keeps(k2, u)
      BY <1>0, <2>1, <2>2, <3>1, IputOne
    <3>3. c.k = u /\ c.ip = i
      BY <2>4, <2>14
    <3> HIDE DEF u
    <3>4. Keeps(s, u)
      BY <2>12, <3>1, <3>2, KeepsTwice
    <3>5. Walk(s, x, c)
      BY <2>2, <3>2, <3>3, <3>4, HandIs, InumsIs DEF Walk
    <3> QED BY <3>5 DEF c
  <2> QED BY <2>13, <2>14
<1> QED BY <1>3, <1>4, <1>5, <1>6

-----------------------------------------------------------------------------
(* link() and unlink().                                                    *)

(* link() leaves nothing in hand.                                          *)
LEMMA DoLinkFs ==
  ASSUME NEW s, NEW x, FsOk(s, x), NEW cwd \in Inums, NEW old, IsSeq(old),
         NEW new, IsSeq(new)
  PROVE  LET l == DoLink(s, cwd, old, new) IN FsOk(l.k, x) /\ Keeps(s, l.k)
<1> DEFINE o == namei(s, cwd, old)
           ip == o.ip
           locked == ilock(o.k, ip)
           k1 == setnlink(locked, ip, locked.ino[ip].nlink + 1)
           dir == nameiparent(k1, cwd, new)
           linked == dirlink(dir.k, dir.ip, Last(new), ip)
           Undo(k2) == [k |-> iput(setnlink(k2, ip, k2.ino[ip].nlink - 1), ip),
                        ret |-> -1]
           l == DoLink(s, cwd, old, new)
<1>0. x \in [Inums -> Nat]
  BY DEF FsOk
<1>1. l = IF ip = 0 THEN [k |-> o.k, ret |-> -1]
          ELSE IF IsDir(locked, ip) THEN [k |-> iput(locked, ip), ret |-> -1]
          ELSE IF dir.ip = 0 THEN Undo(dir.k)
          ELSE IF ~linked.ok THEN Undo(iput(linked.k, dir.ip))
          ELSE [k |-> iput(iput(linked.k, dir.ip), ip), ret |-> 0]
  BY DEF DoLink
<1> HIDE DEF l
<1>2. Walk(s, x, o)
  BY NameiFs
<1> HIDE DEF o
<1>3. CASE ip = 0
  BY <1>1, <1>2, <1>3 DEF Walk, Hand, l
<1>4. CASE ip # 0
  <2> DEFINE y == Plus(x, ip)
  <2>1. ip \in Inums /\ FsOk(o.k, y) /\ Keeps(s, o.k) /\ ip \in 0 .. NINODES
    BY <1>2, <1>4, InumsIs DEF Walk, Hand
  <2>2. y[ip] >= 1 /\ y \in [Inums -> Nat]
    BY <1>0, <2>1, PlusMinus, PlusIs
  <2> HIDE DEF ip
  <2>3. FsOk(locked, y) /\ Keeps(s, locked)
    <3> HIDE DEF y
    <3>1. FsOk(locked, y) /\ Keeps(o.k, locked)
      BY <2>1, <2>2, IlockFs
    <3> QED BY <2>1, <3>1, KeepsTwice
  <2> HIDE DEF locked
  <2>4. ASSUME NEW q, FsOk(q, y), Keeps(s, q), l.k = iput(q, ip)
        PROVE  FsOk(l.k, x) /\ Keeps(s, l.k)
    <3>1. FsOk(iput(q, ip), x) /\ Keeps(q, iput(q, ip))
      BY <1>0, <2>1, <2>4, IputLast
    <3> QED BY <2>4, <3>1, KeepsTwice
  <2>5. FsOk(k1, y) /\ Keeps(s, k1)
    <3> HIDE DEF y
    <3>1. FsOk(k1, y) /\ Keeps(locked, k1)
      BY <2>1, <2>3, LinksFs
    <3> QED BY <2>3, <3>1, KeepsTwice
  <2> HIDE DEF k1
  <2>6. Walk(k1, y, dir)
        /\ (dir.ip # 0 => dir.ip \in Inums /\ dir.k.ino[dir.ip].type = "dir")
    <3> HIDE DEF y
    <3> QED BY <2>5, NameiparentFs
  <2> HIDE DEF dir
  <2>7. Keeps(s, dir.k)
    BY <2>5, <2>6, KeepsTwice DEF Walk
  <2>8. ASSUME NEW q, FsOk(q, y), Keeps(s, q), l = Undo(q)
        PROVE  FsOk(l.k, x) /\ Keeps(s, l.k)
    <3> DEFINE r == setnlink(q, ip, q.ino[ip].nlink - 1)
    <3>1. FsOk(r, y) /\ Keeps(q, r)
      <4> HIDE DEF y
      <4> QED BY <2>1, <2>8, LinksFs
    <3>2. l.k = iput(r, ip)
      BY <2>8
    <3> HIDE DEF r
    <3>3. Keeps(s, r)
      BY <2>8, <3>1, KeepsTwice
    <3> QED BY <2>4, <3>1, <3>2, <3>3
  <2>9. CASE IsDir(locked, ip)
    <3>1. l.k = iput(locked, ip)
      BY <1>1, <1>4, <2>9
    <3>2. FsOk(l.k, x) /\ Keeps(s, l.k)
      BY <2>3, <2>4, <3>1
    <3> QED BY <3>2 DEF l
  <2>10. CASE ~IsDir(locked, ip) /\ dir.ip = 0
    <3>1. l = Undo(dir.k)
      BY <1>1, <1>4, <2>10
    <3>2. FsOk(dir.k, y)
      BY <2>6, <2>10 DEF Walk, Hand
    <3> HIDE DEF Undo
    <3>3. FsOk(l.k, x) /\ Keeps(s, l.k)
      BY <2>7, <2>8, <3>1, <3>2
    <3> QED BY <3>3 DEF l
  <2>11. CASE ~IsDir(locked, ip) /\ dir.ip # 0
    <3>1. dir.ip \in Inums /\ FsOk(dir.k, Plus(y, dir.ip))
          /\ dir.k.ino[dir.ip].type # "free"
      BY <2>6, <2>11 DEF Walk, Hand
    <3>2. FsOk(linked.k, Plus(y, dir.ip)) /\ Keeps(dir.k, linked.k)
      <4> HIDE DEF y
      <4> QED BY <2>1, <3>1, DirlinkFs
    <3> HIDE DEF linked
    <3> DEFINE q == iput(linked.k, dir.ip)
    <3>3. FsOk(q, y) /\ Keeps(linked.k, q)
      <4> HIDE DEF y
      <4> QED BY <2>2, <3>1, <3>2, IputLast
    <3>4. \/ l = Undo(q)
          \/ l.k = iput(q, ip)
      BY <1>1, <1>4, <2>11
    <3> HIDE DEF q, Undo
    <3>5. Keeps(s, q)
      BY <2>7, <3>2, <3>3, KeepsTwice
    <3>6. FsOk(l.k, x) /\ Keeps(s, l.k)
      BY <2>4, <2>8, <3>3, <3>4, <3>5
    <3> QED BY <3>6 DEF l
  <2> QED BY <2>9, <2>10, <2>11
<1> QED BY <1>3, <1>4

(* A directory with an entry erased.                                       *)
LEMMA ErasedSeq ==
  ASSUME NEW data, IsSeq(data), NEW e \in 1 .. Len(data), NEW u
  PROVE  LET r == [data EXCEPT ![e] = u]
         IN /\ IsSeq(r) /\ Len(r) = Len(data) /\ r[e] = u
            /\ \A j \in 1 .. Len(data) : j # e => r[j] = data[j]
<1> DEFINE n == Len(data)
           S == {data[j] : j \in 1 .. n} \cup {u}
           r == [data EXCEPT ![e] = u]
<1>1. n \in Nat /\ data = [j \in 1 .. n |-> data[j]]
  BY SeqIs
<1>2. r \in [1 .. n -> S] /\ r[e] = u /\ \A j \in 1 .. n : j # e => r[j] = data[j]
  BY <1>1
<1> HIDE DEF r, S
<1>3. IsSeq(r) /\ Len(r) = n
  BY <1>1, <1>2, FcnIsSeq
<1> QED BY <1>2, <1>3 DEF r

(* The file system with an entry erased.                                   *)
LEMMA ErasedFs ==
  ASSUME NEW s, NEW x, FsOk(s, x), NEW d \in Inums,
         NEW e \in 1 .. Len(s.ino[d].data)
  PROVE  LET r == Erased(s, d, e) IN FsOk(r, x) /\ Keeps(s, r)
<1> DEFINE a == s.ino[d]
           v == [a.data EXCEPT ![e] = FreeEntry]
           b == [a EXCEPT !.data = v]
           r == Erased(s, d, e)
<1>1. IsInode(a) /\ InodeOk(a) /\ IsSeq(a.data) /\ e \in 1 .. Len(a.data)
  BY FsInums
<1>2. r = [s EXCEPT !.ino = [s.ino EXCEPT ![d] = b]]
  BY DEF Erased
<1> HIDE DEF a, r
<1>3. /\ IsSeq(v) /\ Len(v) = Len(a.data) /\ v[e] = FreeEntry
      /\ \A j \in 1 .. Len(a.data) : j # e => v[j] = a.data[j]
  BY <1>1, ErasedSeq
<1> HIDE DEF v
<1>4. /\ IsInode(b) /\ b.type = a.type /\ b.data = v
      /\ b.nblk = a.nblk /\ b.ind = a.ind
  BY <1>1, <1>3, SetData
<1> HIDE DEF b
<1>5. FreeEntry[2] \in 0 .. NINODES
  <2>1. FreeEntry[2] = 0
    BY DEF FreeEntry, Entry
  <2> QED BY <2>1, FilesAssumption
<1>6. InodeOk(b) /\ Held(b) = Held(a)
  <2>1. ASSUME b.type = "dir", NEW j \in 1 .. Len(b.data)
        PROVE  b.data[j][2] \in 0 .. NINODES
    <3>1. \A m \in 1 .. Len(a.data) : a.data[m][2] \in 0 .. NINODES
      BY <1>1, <1>4, <2>1 DEF InodeOk
    <3> QED BY <1>3, <1>4, <1>5, <2>1, <3>1
  <2> QED BY <1>1, <1>4, <2>1 DEF InodeOk, Held
<1>7. Held(b) = Held(s.ino[d]) /\ b.type = s.ino[d].type
  BY <1>4, <1>6 DEF a
<1>8. FsOk(r, x) /\ Keeps(s, r)
  BY <1>2, <1>6, <1>7, FsInode
<1> QED BY <1>8 DEF r

(* unlink() leaves nothing in hand.                                        *)
LEMMA DoUnlinkFs ==
  ASSUME NEW s, NEW x, FsOk(s, x), NEW cwd \in Inums, NEW path, IsSeq(path)
  PROVE  LET u == DoUnlink(s, cwd, path) IN FsOk(u.k, x) /\ Keeps(s, u.k)
<1> DEFINE dir == nameiparent(s, cwd, path)
           dp == dir.ip
           name == Short(Last(path))
           e == dirlookup(dir.k, dp, name)
           ip == dir.k.ino[dp].data[e][2]
           had == iget(dir.k, ip)
           got == ilock(had, ip)
           k1 == IF got.ino[ip].nlink < 1 THEN Panic(got, "unlink: nlink < 1")
                 ELSE got
           k2 == Erased(k1, dp, e)
           k3 == IF IsDir(k1, ip) THEN setnlink(k2, dp, k2.ino[dp].nlink - 1)
                 ELSE k2
           put == iput(k3, dp)
           k4 == setnlink(put, ip, put.ino[ip].nlink - 1)
           u == DoUnlink(s, cwd, path)
<1>0. x \in [Inums -> Nat]
  BY DEF FsOk
<1>1. u = IF dp = 0 THEN [k |-> dir.k, ret |-> -1]
          ELSE IF name \in {".", ".."} \/ e = 0
          THEN [k |-> iput(dir.k, dp), ret |-> -1]
          ELSE IF IsDir(k1, ip) /\ ~isdirempty(k1, ip)
          THEN [k |-> iput(iput(k1, ip), dp), ret |-> -1]
          ELSE [k |-> iput(k4, ip), ret |-> 0]
  BY DEF DoUnlink
<1> HIDE DEF u
<1>2. Walk(s, x, dir) /\ (dp # 0 => dp \in Inums /\ dir.k.ino[dp].type = "dir")
  BY NameiparentFs
<1> HIDE DEF dir
<1>3. CASE dp = 0
  BY <1>1, <1>2, <1>3 DEF Walk, Hand, u
<1>4. CASE dp # 0 /\ (name \in {".", ".."} \/ e = 0)
  <2>1. dp \in Inums /\ FsOk(dir.k, Plus(x, dp)) /\ Keeps(s, dir.k)
    BY <1>2, <1>4 DEF Walk, Hand
  <2>2. u.k = iput(dir.k, dp)
    BY <1>1, <1>4
  <2> HIDE DEF dp
  <2>3. FsOk(u.k, x) /\ Keeps(dir.k, u.k)
    BY <1>0, <2>1, <2>2, IputLast
  <2>4. FsOk(u.k, x) /\ Keeps(s, u.k)
    BY <2>1, <2>3, KeepsTwice
  <2> QED BY <2>4 DEF u
<1>5. CASE dp # 0 /\ ~(name \in {".", ".."} \/ e = 0)
  <2>1. /\ dp \in Inums /\ FsOk(dir.k, Plus(x, dp)) /\ Keeps(s, dir.k)
        /\ ip \in Inums /\ e \in 1 .. Len(dir.k.ino[dp].data)
    BY <1>2, <1>5, LookupIs DEF Walk, Hand
  <2>2. u = IF IsDir(k1, ip) /\ ~isdirempty(k1, ip)
            THEN [k |-> iput(iput(k1, ip), dp), ret |-> -1]
            ELSE [k |-> iput(k4, ip), ret |-> 0]
    BY <1>1, <1>5
  <2> DEFINE y == Plus(Plus(x, dp), ip)
  <2> HIDE DEF e, ip, dp, name
  <2>3. FsOk(had, y) /\ Keeps(dir.k, had) /\ had.ino = dir.k.ino
    BY <2>1, IgetFs
  <2> HIDE DEF had
  <2>4. FsOk(got, y) /\ Keeps(had, got) /\ got.ino = had.ino
    <3>1. y[ip] >= 1
      BY <1>0, <2>1, PlusIs, PlusMinus
    <3> HIDE DEF y
    <3> QED BY <2>1, <2>3, <3>1, IlockFs
  <2> HIDE DEF got
  <2>5. FsOk(k1, y) /\ Keeps(got, k1) /\ k1.ino = got.ino
    <3>1. y \in [Inums -> Nat]
      BY <2>4 DEF FsOk
    <3>2. "unlink: nlink < 1" \in Known \ {""}
      BY DEF Known
    <3>3. Keeps(got, got)
      BY KeepsSelf
    <3> HIDE DEF y
    <3>4. LET r == Panic(got, "unlink: nlink < 1")
          IN FsOk(r, y) /\ Keeps(got, r) /\ r.ino = got.ino
      BY <2>4, <3>1, <3>2, PanicFs
    <3> QED BY <2>4, <3>3, <3>4
  <2> HIDE DEF k1
  <2>6. Keeps(s, k1)
    BY <2>1, <2>3, <2>4, <2>5, KeepsTwice
  <2>7. y = Plus(Plus(x, ip), dp)
    BY <1>0, <2>1, PlusMinus
  <2>8. CASE IsDir(k1, ip) /\ ~isdirempty(k1, ip)
    <3> DEFINE q == iput(k1, ip)
               r == iput(q, dp)
    <3>1. FsOk(q, Plus(x, dp)) /\ Keeps(k1, q)
      <4> HIDE DEF y
      <4> QED BY <1>0, <2>1, <2>5, <2>7, IputOne
    <3>2. u.k = r
      BY <2>2, <2>8
    <3> HIDE DEF q
    <3>3. FsOk(r, x) /\ Keeps(q, r)
      BY <1>0, <2>1, <3>1, IputLast
    <3> HIDE DEF r
    <3>4. FsOk(u.k, x) /\ Keeps(s, u.k)
      BY <2>6, <3>1, <3>2, <3>3, KeepsTwice
    <3> QED BY <3>4 DEF u
  <2>9. CASE ~(IsDir(k1, ip) /\ ~isdirempty(k1, ip))
    <3>1. FsOk(k2, y) /\ Keeps(k1, k2)
      <4>1. e \in 1 .. Len(k1.ino[dp].data)
        BY <2>1, <2>3, <2>4, <2>5
      <4> HIDE DEF y
      <4> QED BY <2>1, <2>5, <4>1, ErasedFs
    <3> HIDE DEF k2
    <3>2. FsOk(k3, y) /\ Keeps(k2, k3)
      <4>1. Keeps(k2, k2)
        BY KeepsSelf
      <4> HIDE DEF y
      <4>2. ASSUME NEW n PROVE FsOk(setnlink(k2, dp, n), y)
                               /\ Keeps(k2, setnlink(k2, dp, n))
        BY <2>1, <3>1, LinksFs
      <4> QED BY <3>1, <4>1, <4>2
    <3> HIDE DEF k3
    <3>3. FsOk(put, Plus(x, ip)) /\ Keeps(k3, put)
      BY <1>0, <2>1, <3>2, IputOne
    <3> HIDE DEF put
    <3>4. FsOk(k4, Plus(x, ip)) /\ Keeps(put, k4)
      BY <2>1, <3>3, LinksFs
    <3>5. u.k = iput(k4, ip)
      BY <2>2, <2>9
    <3> HIDE DEF k4
    <3>6. FsOk(u.k, x) /\ Keeps(k4, u.k)
      BY <1>0, <2>1, <3>4, <3>5, IputLast
    <3>7. FsOk(u.k, x) /\ Keeps(s, u.k)
      BY <2>6, <3>1, <3>2, <3>3, <3>4, <3>6, KeepsTwice
    <3> QED BY <3>7 DEF u
  <2> QED BY <2>8, <2>9
<1> QED BY <1>3, <1>4, <1>5

-----------------------------------------------------------------------------
(* Memory: an address space with its free pages; mapping and unmapping.    *)

(* The page of an address; a page is three units.                          *)
LEMMA PageIs ==
  ASSUME NEW a \in Int
  PROVE  /\ Page(a) \in Int /\ 3 * Page(a) <= a /\ a < 3 * Page(a) + 3
         /\ a \in Nat => Page(a) \in Nat
BY DEF Page, PGSIZE

(* PGROUNDUP() rounds up.                                                  *)
LEMMA RoundUpIs ==
  ASSUME NEW a \in Int
  PROVE  /\ PGROUNDUP(a) \in Int /\ a <= 3 * PGROUNDUP(a)
         /\ 3 * PGROUNDUP(a) < a + 3
         /\ a \in Nat => PGROUNDUP(a) \in Nat
         /\ PGROUNDUP(a * PGSIZE) = a
BY DEF PGROUNDUP, PGSIZE

(* A memory without any page from n on.                                    *)
IsMem(m, n) ==
  /\ m = [free |-> m.free, sz |-> m.sz, pt |-> m.pt]
  /\ m.free \in Nat /\ m.sz \in Nat /\ n \in Nat
  /\ DOMAIN m.pt \subseteq 0 .. n - 1
MemSum(m) == m.free + Cardinality(DOMAIN m.pt)

(* What a memory consists of.                                              *)
LEMMA MemIs ==
  ASSUME NEW m, NEW n, IsMem(m, n)
  PROVE  /\ IsFiniteSet(DOMAIN m.pt) /\ Cardinality(DOMAIN m.pt) \in Nat
         /\ MemSum(m) \in Nat
<1>1. n - 1 \in Int /\ IsFiniteSet(0 .. n - 1)
  <2>1. n - 1 \in Int
    BY DEF IsMem
  <2> QED BY <2>1, FS_Interval
<1>2. IsFiniteSet(DOMAIN m.pt)
  BY <1>1, FS_Subset DEF IsMem
<1>3. Cardinality(DOMAIN m.pt) \in Nat
  BY <1>2, FS_CardinalityType
<1> QED BY <1>2, <1>3 DEF MemSum, IsMem

(* A memory with other free pages.                                         *)
LEMMA SetFree ==
  ASSUME NEW m, NEW n, IsMem(m, n), NEW f
  PROVE  LET r == [m EXCEPT !.free = f]
         IN /\ r = [free |-> r.free, sz |-> r.sz, pt |-> r.pt]
            /\ r.free = f /\ r.sz = m.sz /\ r.pt = m.pt
BY DEF IsMem

(* A memory with another page table.                                       *)
LEMMA SetPt ==
  ASSUME NEW m, m = [free |-> m.free, sz |-> m.sz, pt |-> m.pt], NEW f
  PROVE  LET r == [m EXCEPT !.pt = f]
         IN /\ r = [free |-> r.free, sz |-> r.sz, pt |-> r.pt]
            /\ r.free = m.free /\ r.sz = m.sz /\ r.pt = f
OBVIOUS

(* A memory with another size.                                             *)
LEMMA SetSz ==
  ASSUME NEW m, NEW n, IsMem(m, n), NEW z \in Nat
  PROVE  LET r == [m EXCEPT !.sz = z]
         IN IsMem(r, n) /\ MemSum(r) = MemSum(m) /\ r.sz = z
            /\ r.free = m.free /\ r.pt = m.pt
BY DEF IsMem, MemSum

Conserved(m, r, n) == IsMem(r, n) /\ MemSum(r) = MemSum(m) /\ r.sz = m.sz

(* Pages that are not mapped are taken and mapped.                         *)
LEMMA MapNew ==
  ASSUME NEW m, NEW n, IsMem(m, n), NEW vs, IsFiniteSet(vs),
         vs \cap DOMAIN m.pt = {}, NEW c \in Nat, c = Cardinality(vs),
         c <= m.free, NEW l \in Nat, n <= l, vs \subseteq 0 .. l - 1, NEW perm
  PROVE  LET r == mappages(kalloc(m, c), vs, perm)
         IN Conserved(m, r, l)
<1> DEFINE g == kalloc(m, c)
           pt == [v \in vs \cup DOMAIN g.pt |-> IF v \in vs THEN perm ELSE g.pt[v]]
           r == [g EXCEPT !.pt = pt]
<1>0. m.free \in Nat /\ n \in Nat /\ m.sz \in Nat /\ DOMAIN m.pt \subseteq 0 .. n - 1
  BY DEF IsMem
<1>1. Min({c, m.free}) = c
  BY <1>0, MinTwo
<1>2. /\ g = [free |-> g.free, sz |-> g.sz, pt |-> g.pt]
      /\ g.free = m.free - c /\ g.sz = m.sz /\ g.pt = m.pt
  BY <1>1, SetFree DEF kalloc
<1>3. mappages(g, vs, perm) = r
  BY DEF mappages
<1> HIDE DEF g
<1>4. DOMAIN pt = vs \cup DOMAIN m.pt
  BY <1>2
<1> HIDE DEF pt
<1>5. /\ r = [free |-> r.free, sz |-> r.sz, pt |-> r.pt]
      /\ r.free = g.free /\ r.sz = g.sz /\ r.pt = pt
  BY <1>2, SetPt
<1> HIDE DEF r
<1>6. Cardinality(vs \cup DOMAIN m.pt) = c + Cardinality(DOMAIN m.pt)
      /\ Cardinality(DOMAIN m.pt) \in Nat
  <2>1. IsFiniteSet(DOMAIN m.pt) /\ Cardinality(DOMAIN m.pt) \in Nat
    BY MemIs
  <2>2. Cardinality(vs \cup DOMAIN m.pt) =
          Cardinality(vs) + Cardinality(DOMAIN m.pt)
            - Cardinality(vs \cap DOMAIN m.pt)
    BY <2>1, FS_Union
  <2>3. Cardinality(vs \cap DOMAIN m.pt) = 0
    BY FS_EmptySet
  <2> QED BY <2>1, <2>2, <2>3
<1>7. IsMem(r, l)
  <2>1. DOMAIN r.pt \subseteq 0 .. l - 1
    BY <1>0, <1>4, <1>5
  <2>2. r.free \in Nat /\ r.sz \in Nat
    BY <1>0, <1>2, <1>5
  <2> QED BY <1>5, <2>1, <2>2 DEF IsMem
<1>8. MemSum(r) = MemSum(m)
  <2>1. r.free = m.free - c
        /\ Cardinality(DOMAIN r.pt) = c + Cardinality(DOMAIN m.pt)
    BY <1>2, <1>4, <1>5, <1>6
  <2> QED BY <1>0, <1>6, <2>1 DEF MemSum
<1> QED BY <1>2, <1>3, <1>5, <1>7, <1>8 DEF g, r, Conserved

(* Pages are given back.                                                   *)
LEMMA Unmap ==
  ASSUME NEW m, NEW n, IsMem(m, n), NEW vs, NEW l \in Nat,
         DOMAIN m.pt \ vs \subseteq 0 .. l - 1
  PROVE  LET r == uvmunmap(m, vs)
         IN Conserved(m, r, l) /\ DOMAIN r.pt = DOMAIN m.pt \ vs
<1> DEFINE mapped == vs \cap DOMAIN m.pt
           pt == Restrict(m.pt, DOMAIN m.pt \ vs)
           g == [m EXCEPT !.pt = pt]
           f == g.free + Cardinality(mapped)
           r == [g EXCEPT !.free = f]
<1>0. m.free \in Nat /\ m.sz \in Nat /\ m = [free |-> m.free, sz |-> m.sz, pt |-> m.pt]
  BY DEF IsMem
<1>1. uvmunmap(m, vs) = r
  BY DEF uvmunmap, kfree
<1>2. DOMAIN pt = DOMAIN m.pt \ vs
  BY DEF Restrict
<1> HIDE DEF pt
<1>3. /\ g = [free |-> g.free, sz |-> g.sz, pt |-> g.pt]
      /\ g.free = m.free /\ g.sz = m.sz /\ g.pt = pt
  BY <1>0, SetPt
<1> HIDE DEF g
<1>4. /\ r = [free |-> r.free, sz |-> r.sz, pt |-> r.pt]
      /\ r.free = f /\ r.sz = m.sz /\ r.pt = pt
  BY <1>3
<1> HIDE DEF r
<1>5. /\ Cardinality(DOMAIN m.pt) \in Nat /\ Cardinality(mapped) \in Nat
      /\ Cardinality(DOMAIN r.pt) \in Nat
      /\ Cardinality(DOMAIN r.pt) + Cardinality(mapped) = Cardinality(DOMAIN m.pt)
  <2>1. IsFiniteSet(DOMAIN m.pt) /\ Cardinality(DOMAIN m.pt) \in Nat
    BY MemIs
  <2>2. /\ IsFiniteSet(DOMAIN m.pt \ vs) /\ IsFiniteSet(DOMAIN m.pt \cap vs)
        /\ Cardinality(DOMAIN m.pt \ vs) =
             Cardinality(DOMAIN m.pt) - Cardinality(DOMAIN m.pt \cap vs)
    BY <2>1, FS_Difference, FS_Intersection
  <2>3. Cardinality(DOMAIN m.pt \ vs) \in Nat
        /\ Cardinality(DOMAIN m.pt \cap vs) \in Nat
    BY <2>2, FS_CardinalityType
  <2>4. mapped = DOMAIN m.pt \cap vs /\ DOMAIN r.pt = DOMAIN m.pt \ vs
    BY <1>2, <1>4
  <2>5. /\ Cardinality(mapped) = Cardinality(DOMAIN m.pt \cap vs)
        /\ Cardinality(DOMAIN r.pt) = Cardinality(DOMAIN m.pt \ vs)
    BY <2>4
  <2> HIDE DEF mapped
  <2> QED BY <2>1, <2>2, <2>3, <2>5
<1> HIDE DEF mapped
<1>6. r.free = m.free + Cardinality(mapped) /\ r.free \in Nat
  BY <1>0, <1>3, <1>4, <1>5
<1>7. IsMem(r, l)
  BY <1>0, <1>2, <1>4, <1>6 DEF IsMem
<1>8. MemSum(r) = MemSum(m)
  BY <1>0, <1>5, <1>6 DEF MemSum
<1> QED BY <1>1, <1>2, <1>4, <1>7, <1>8 DEF r, Conserved

-----------------------------------------------------------------------------
(* uvmalloc(), uvmdealloc() and the tables themselves.                     *)

(* uvmdealloc() gives back what is above the new size.                     *)
LEMMA DeallocMem ==
  ASSUME NEW oldsz \in Nat, NEW m, IsMem(m, PGROUNDUP(oldsz)), NEW newsz \in Int
  PROVE  LET r == uvmdealloc(m, oldsz, newsz)
         IN /\ r.sz = IF newsz >= oldsz \/ newsz < 0 THEN oldsz ELSE newsz
            /\ r.sz \in Nat /\ IsMem(r.mem, PGROUNDUP(r.sz))
            /\ MemSum(r.mem) = MemSum(m) /\ r.mem.sz = m.sz
<1> DEFINE a == PGROUNDUP(newsz)
           b == PGROUNDUP(oldsz)
           r == uvmdealloc(m, oldsz, newsz)
<1>1. CASE newsz >= oldsz \/ newsz < 0
  <2>1. r = [mem |-> m, sz |-> oldsz]
    BY <1>1 DEF uvmdealloc
  <2> HIDE DEF r
  <2>2. r.mem = m /\ r.sz = oldsz
    BY <2>1
  <2> QED BY <1>1, <2>2 DEF r
<1>2. CASE ~(newsz >= oldsz \/ newsz < 0)
  <2>1. r = [mem |-> uvmunmap(m, a .. b - 1), sz |-> newsz]
    BY <1>2 DEF uvmdealloc
  <2>2. newsz \in Nat
    BY <1>2
  <2>3. a \in Nat /\ b \in Nat
    BY <2>2, RoundUpIs
  <2>4. DOMAIN m.pt \subseteq 0 .. b - 1
    BY DEF IsMem
  <2> HIDE DEF a, b, r
  <2>5. DOMAIN m.pt \ (a .. b - 1) \subseteq 0 .. a - 1
    BY <2>3, <2>4
  <2>6. LET q == uvmunmap(m, a .. b - 1)
        IN Conserved(m, q, a)
    BY <2>3, <2>5, Unmap DEF b
  <2> DEFINE q == uvmunmap(m, a .. b - 1)
  <2> HIDE DEF q
  <2>7. r.mem = q /\ r.sz = newsz
    BY <2>1 DEF q
  <2>8. IsMem(q, a) /\ MemSum(q) = MemSum(m) /\ q.sz = m.sz
    BY <2>6 DEF q, Conserved
  <2> QED BY <1>2, <2>2, <2>7, <2>8 DEF r, a
<1> QED BY <1>1, <1>2

(* The size of an interval.                                                *)
LEMMA IntervalSize ==
  ASSUME NEW a \in Nat, NEW n \in Nat
  PROVE  IsFiniteSet(a .. a + n - 1) /\ Cardinality(a .. a + n - 1) = n
<1>1. PICK z \in Int : z = a + n - 1
  OBVIOUS
<1>2. IsFiniteSet(a .. z) /\ Cardinality(a .. z) = IF a > z THEN 0 ELSE z - a + 1
  BY FS_Interval
<1>3. (IF a > z THEN 0 ELSE z - a + 1) = n
  BY <1>1
<1> QED BY <1>1, <1>2, <1>3

(* uvmalloc() gives back what it got when there is not enough.             *)
LEMMA AllocMem ==
  ASSUME NEW oldsz \in Nat, NEW m, IsMem(m, PGROUNDUP(oldsz)), NEW newsz \in Int,
         newsz >= oldsz, NEW perm
  PROVE  LET r == uvmalloc(m, oldsz, newsz, perm)
         IN /\ \/ r.sz = newsz /\ IsMem(r.mem, PGROUNDUP(newsz))
               \/ r.sz = 0 /\ IsMem(r.mem, PGROUNDUP(oldsz))
            /\ MemSum(r.mem) = MemSum(m) /\ r.mem.sz = m.sz
<1> DEFINE a == PGROUNDUP(oldsz)
           b == PGROUNDUP(newsz)
           n == Min({m.free, Max({b - a, 0})})
           got == mappages(kalloc(m, n), a .. a + n - 1, perm)
           r == uvmalloc(m, oldsz, newsz, perm)
           back == uvmdealloc(got, (a + n) * PGSIZE, a * PGSIZE)
<1>1. r = IF a + n < b THEN [mem |-> back.mem, sz |-> 0]
          ELSE [mem |-> got, sz |-> newsz]
  <2>1. r = IF newsz < oldsz THEN [mem |-> m, sz |-> oldsz]
            ELSE IF a + n < b THEN [mem |-> back.mem, sz |-> 0]
            ELSE [mem |-> got, sz |-> newsz]
    BY DEF uvmalloc
  <2>2. ~(newsz < oldsz)
    OBVIOUS
  <2> HIDE DEF r, a, n, b, got, back
  <2> QED BY <2>1, <2>2
<1>2. a \in Nat /\ b \in Nat /\ a <= b
  <2>1. /\ newsz \in Nat /\ a \in Int /\ b \in Int
        /\ newsz <= 3 * b /\ 3 * a < oldsz + 3
    BY RoundUpIs
  <2>2. a \in Nat /\ b \in Nat
    BY <2>1, RoundUpIs
  <2> HIDE DEF a, b
  <2> QED BY <2>1, <2>2
<1> HIDE DEF r
<1>3. n \in Nat /\ n <= m.free /\ a + n <= b
  <2> HIDE DEF a, b
  <2>1. Max({b - a, 0}) = b - a /\ b - a \in Nat /\ m.free \in Nat
    BY <1>2, MaxTwo DEF IsMem
  <2>2. n = IF m.free <= b - a THEN m.free ELSE b - a
    BY <2>1, MinTwo
  <2> QED BY <1>2, <2>1, <2>2
<1> HIDE DEF n, b
<1> DEFINE vs == a .. a + n - 1
<1>4. /\ IsFiniteSet(vs) /\ vs \cap DOMAIN m.pt = {} /\ Cardinality(vs) = n
      /\ LET l == a + n IN l \in Nat /\ a <= l /\ vs \subseteq 0 .. l - 1
  <2>1. DOMAIN m.pt \subseteq 0 .. a - 1
    BY DEF IsMem
  <2> HIDE DEF a
  <2>3. IsFiniteSet(vs) /\ Cardinality(vs) = n
    BY <1>2, <1>3, IntervalSize
  <2>5. vs \cap DOMAIN m.pt = {}
    BY <1>2, <1>3, <2>1
  <2> DEFINE l == a + n
  <2>6. l \in Nat /\ a <= l /\ vs \subseteq 0 .. l - 1
    BY <1>2, <1>3
  <2> HIDE DEF vs
  <2> QED BY <2>3, <2>5, <2>6
<1>5. IsMem(got, a + n) /\ MemSum(got) = MemSum(m) /\ got.sz = m.sz
  <2>1. IsMem(m, a)
    OBVIOUS
  <2> DEFINE l == a + n
  <2>3. /\ IsFiniteSet(vs) /\ vs \cap DOMAIN m.pt = {} /\ Cardinality(vs) = n
        /\ l \in Nat /\ a <= l /\ vs \subseteq 0 .. l - 1
    BY <1>4
  <2> HIDE DEF vs, a, l
  <2>2. LET q == mappages(kalloc(m, n), vs, perm)
        IN Conserved(m, q, l)
    <3>1. n \in Nat /\ n = Cardinality(vs) /\ n <= m.free
      BY <1>3, <2>3
    <3>2. IsFiniteSet(vs) /\ vs \cap DOMAIN m.pt = {} /\ l \in Nat /\ a <= l
          /\ vs \subseteq 0 .. l - 1
      BY <2>3
    <3> QED BY ONLY <2>1, <3>1, <3>2, MapNew
  <2> QED BY <2>2 DEF vs, l, Conserved
<1> HIDE DEF got
<1>6. CASE a + n < b
  <2> DEFINE u == (a + n) * PGSIZE
             w == a * PGSIZE
  <2>1. /\ u \in Nat /\ w \in Nat /\ PGROUNDUP(u) = a + n /\ PGROUNDUP(w) = a
        /\ (w >= u => a = a + n)
    <3> HIDE DEF a
    <3>1. u \in Nat /\ w \in Nat /\ (w >= u => a = a + n)
      BY <1>2, <1>3 DEF PGSIZE
    <3>2. a \in Int /\ a + n \in Int
      BY <1>2, <1>3
    <3> QED BY <3>1, <3>2, RoundUpIs
  <2>2. IsMem(got, PGROUNDUP(u))
    BY <1>5, <2>1
  <2> HIDE DEF u, w, back, a
  <2>3. LET q == uvmdealloc(got, u, w)
        IN /\ q.sz = IF w >= u \/ w < 0 THEN u ELSE w
           /\ IsMem(q.mem, PGROUNDUP(q.sz))
           /\ MemSum(q.mem) = MemSum(got) /\ q.mem.sz = got.sz
    BY <2>1, <2>2, DeallocMem
  <2>4. back = uvmdealloc(got, u, w)
    BY DEF back, u, w
  <2>5. /\ back.sz = IF w >= u \/ w < 0 THEN u ELSE w
        /\ IsMem(back.mem, PGROUNDUP(back.sz))
        /\ MemSum(back.mem) = MemSum(got) /\ back.mem.sz = got.sz
    BY <2>3, <2>4
  <2>6. PGROUNDUP(back.sz) = a
    BY <2>1, <2>5
  <2>7. r.mem = back.mem /\ r.sz = 0
    BY <1>1, <1>6
  <2>8. IsMem(r.mem, a) /\ MemSum(r.mem) = MemSum(m) /\ r.mem.sz = m.sz
    BY <1>5, <2>5, <2>6, <2>7
  <2> QED BY <2>7, <2>8 DEF a, r
<1>7. CASE ~(a + n < b)
  <2>1. r.mem = got /\ r.sz = newsz
    BY <1>1, <1>7
  <2>2. a + n = b
    <3> HIDE DEF a
    <3> QED BY <1>2, <1>3, <1>7
  <2>3. IsMem(r.mem, b) /\ MemSum(r.mem) = MemSum(m) /\ r.mem.sz = m.sz
    BY <1>5, <2>1, <2>2
  <2> QED BY <2>1, <2>3 DEF b, r
<1> QED BY <1>6, <1>7

(* uvmcreate() takes a page.                                               *)
LEMMA CreateMem ==
  ASSUME NEW free \in Nat, free >= 1
  PROVE  LET r == uvmcreate(free)
         IN /\ IsMem(r, 0) /\ r.free = free - 1 /\ r.sz = 0 /\ DOMAIN r.pt = {}
            /\ MemSum(r) = free - 1
<1> DEFINE none == <<>>
           m == [free |-> free, sz |-> 0, pt |-> none]
           r == uvmcreate(free)
           f == m.free - Min({1, m.free})
<1>1. r = [m EXCEPT !.free = f]
  BY DEF uvmcreate, kalloc
<1>2. DOMAIN none = {}
  OBVIOUS
<1> HIDE DEF none, r
<1>3. m.free = free /\ m.sz = 0 /\ m.pt = none
      /\ m = [free |-> m.free, sz |-> m.sz, pt |-> m.pt]
  OBVIOUS
<1>4. IsMem(m, 0)
  BY <1>2, <1>3 DEF IsMem
<1>5. f = free - 1
  BY <1>3, MinTwo
<1> HIDE DEF f, m
<1>6. /\ r = [free |-> r.free, sz |-> r.sz, pt |-> r.pt]
      /\ r.free = f /\ r.sz = 0 /\ r.pt = none
  BY <1>1, <1>3, <1>4, SetFree
<1>7. Cardinality(DOMAIN r.pt) = 0
  BY <1>2, <1>6, FS_EmptySet
<1>8. r.free = free - 1 /\ r.free \in Nat /\ r.sz \in Nat /\ DOMAIN r.pt = {}
  BY <1>2, <1>5, <1>6
<1>9. IsMem(r, 0)
  BY <1>6, <1>8 DEF IsMem
<1>10. MemSum(r) = free - 1
  BY <1>7, <1>8 DEF MemSum
<1> QED BY <1>6, <1>8, <1>9, <1>10 DEF r

(* uvmfree() gives everything back, and freewalk() does not panic.         *)
LEMMA FreeMem ==
  ASSUME NEW sz \in Nat, NEW m, IsMem(m, PGROUNDUP(sz))
  PROVE  LET r == uvmfree(m, sz)
         IN /\ ~FreewalkPanics(r) /\ r.free = MemSum(m) + 1 /\ r.sz = m.sz
            /\ DOMAIN r.pt = {} /\ r.free \in Nat
<1> DEFINE vs == 0 .. PGROUNDUP(sz) - 1
           q == uvmunmap(m, vs)
           r == uvmfree(m, sz)
<1>1. r = [q EXCEPT !.free = q.free + 1]
  BY DEF uvmfree, kfree
<1>2. IsMem(q, 0) /\ MemSum(q) = MemSum(m) /\ q.sz = m.sz
      /\ DOMAIN q.pt = DOMAIN m.pt \ vs
  <2>1. DOMAIN m.pt \ vs \subseteq 0 .. 0 - 1
    BY DEF IsMem
  <2> HIDE DEF vs
  <2> QED BY <2>1, Unmap DEF Conserved
<1>3. DOMAIN q.pt = {}
  BY <1>2 DEF IsMem
<1> HIDE DEF q, vs
<1>4. q.free = MemSum(m) /\ q.free \in Nat
  <2>1. Cardinality(DOMAIN q.pt) = 0
    BY <1>3, FS_EmptySet
  <2>2. q.free \in Nat
    BY <1>2 DEF IsMem
  <2> QED BY <1>2, <2>1, <2>2 DEF MemSum
<1>5. r.free = q.free + 1 /\ r.sz = q.sz /\ r.pt = q.pt
  BY <1>1, <1>2, SetFree
<1> HIDE DEF r
<1>6. /\ ~FreewalkPanics(r) /\ r.free = MemSum(m) + 1 /\ r.sz = m.sz
      /\ DOMAIN r.pt = {} /\ r.free \in Nat
  BY <1>2, <1>3, <1>4, <1>5 DEF FreewalkPanics
<1> QED BY <1>6 DEF r

-----------------------------------------------------------------------------
(* growproc(), vmfault() and the pages that a copy reaches.                *)

(* A memory whose pages are below its size, and what an operation may make *)
(* of it.                                                                  *)
Own(m) == IsMem(m, PGROUNDUP(m.sz))
Changed(m, r) == Own(r) /\ MemSum(r) = MemSum(m)

(* A memory of the caller.                                                 *)
LEMMA OwnIs ==
  ASSUME NEW m, NEW n, IsMem(m, n), NEW z \in Nat, n = PGROUNDUP(z)
  PROVE  LET r == [m EXCEPT !.sz = z]
         IN Own(r) /\ MemSum(r) = MemSum(m) /\ r.free = m.free /\ r.sz = z
            /\ r.pt = m.pt
BY SetSz DEF Own

(* growproc().                                                             *)
LEMMA GrowprocMem ==
  ASSUME NEW m, Own(m), NEW n \in Int
  PROVE  Changed(m, growproc(m, n).mem)
<1> DEFINE up == uvmalloc(m, m.sz, m.sz + n, "rw")
           down == uvmdealloc(m, m.sz, m.sz + n)
           g == growproc(m, n)
<1>1. g = IF n > 0
          THEN IF up.sz = 0 THEN [mem |-> up.mem, ok |-> FALSE]
               ELSE [mem |-> [up.mem EXCEPT !.sz = up.sz], ok |-> TRUE]
          ELSE IF n < 0
          THEN [mem |-> [down.mem EXCEPT !.sz = down.sz], ok |-> TRUE]
          ELSE [mem |-> m, ok |-> TRUE]
  BY DEF growproc
<1>2. m.sz \in Nat /\ m.sz + n \in Int /\ IsMem(m, PGROUNDUP(m.sz))
  BY DEF Own, IsMem
<1> HIDE DEF g
<1>3. CASE n > 0
  <2>1. m.sz + n \in Nat /\ m.sz + n >= m.sz /\ m.sz + n # 0
    BY <1>2, <1>3
  <2>2. /\ \/ up.sz = m.sz + n /\ IsMem(up.mem, PGROUNDUP(m.sz + n))
           \/ up.sz = 0 /\ IsMem(up.mem, PGROUNDUP(m.sz))
        /\ MemSum(up.mem) = MemSum(m) /\ up.mem.sz = m.sz
    BY <1>2, <2>1, AllocMem
  <2> HIDE DEF up
  <2>3. CASE up.sz = 0
    <3>1. g.mem = up.mem
      BY <1>1, <1>3, <2>3
    <3>2. IsMem(up.mem, PGROUNDUP(up.mem.sz))
      BY <2>1, <2>2, <2>3
    <3> QED BY <2>2, <3>1, <3>2 DEF g, Changed, Own
  <2>4. CASE up.sz # 0
    <3> DEFINE r == [up.mem EXCEPT !.sz = up.sz]
    <3>1. g.mem = r
      BY <1>1, <1>3, <2>4
    <3>2. up.sz \in Nat /\ IsMem(up.mem, PGROUNDUP(up.sz))
      BY <2>1, <2>2, <2>4
    <3>3. Own(r) /\ MemSum(r) = MemSum(up.mem)
      BY <3>2, OwnIs
    <3> QED BY <2>2, <3>1, <3>3 DEF g, Changed
  <2> QED BY <2>3, <2>4
<1>4. CASE n < 0
  <2>1. /\ down.sz \in Nat /\ IsMem(down.mem, PGROUNDUP(down.sz))
        /\ MemSum(down.mem) = MemSum(m)
    BY <1>2, DeallocMem
  <2> HIDE DEF down
  <2> DEFINE r == [down.mem EXCEPT !.sz = down.sz]
  <2>2. g.mem = r
    BY <1>1, <1>4
  <2>3. Own(r) /\ MemSum(r) = MemSum(down.mem)
    BY <2>1, OwnIs
  <2> QED BY <2>1, <2>2, <2>3 DEF g, Changed
<1>5. CASE n = 0
  BY <1>1, <1>5 DEF g, Changed
<1> QED BY <1>3, <1>4, <1>5

(* vmfault() maps a page at most.                                          *)
LEMMA VmfaultMem ==
  ASSUME NEW m, Own(m), NEW va
  PROVE  Changed(m, vmfault(m, va)) /\ vmfault(m, va).sz = m.sz
<1> DEFINE v == Page(va)
           vs == {v}
           r == vmfault(m, va)
           n == PGROUNDUP(m.sz)
<1>1. CASE ~(va \in 0 .. m.sz - 1 /\ v \notin DOMAIN m.pt /\ v < TRAPFRAME /\ m.free > 0)
  <2>1. r = m
    BY <1>1 DEF vmfault
  <2> QED BY <2>1 DEF Changed
<1>2. CASE va \in 0 .. m.sz - 1 /\ v \notin DOMAIN m.pt /\ v < TRAPFRAME /\ m.free > 0
  <2>1. r = mappages(kalloc(m, 1), vs, "rw")
    BY <1>2 DEF vmfault
  <2>2. m.sz \in Nat /\ m.free \in Nat /\ IsMem(m, n) /\ n \in Nat
    BY DEF Own, IsMem
  <2>3. v \in 0 .. n - 1
    <3>1. va \in Nat /\ va < m.sz
      BY <1>2, <2>2
    <3>2. v \in Int /\ v \in Nat /\ 3 * v <= va
      BY <3>1, PageIs
    <3>3. n \in Int /\ m.sz <= 3 * n
      <4>1. m.sz \in Int
        BY <2>2
      <4> QED BY ONLY <4>1, RoundUpIs DEF n
    <3> HIDE DEF v, n
    <3> QED BY <2>2, <3>1, <3>2, <3>3
  <2>4. v \notin DOMAIN m.pt /\ 1 <= m.free
    BY <1>2, <2>2
  <2> HIDE DEF v, n
  <2>6. /\ IsFiniteSet(vs) /\ vs \cap DOMAIN m.pt = {} /\ 1 = Cardinality(vs)
    BY <2>4, FS_Singleton
  <2>7. vs \subseteq 0 .. n - 1
    BY <2>3
  <2> HIDE DEF vs, r
  <2>5. Conserved(m, r, n)
    <3>1. PICK c \in Nat : c = 1
      OBVIOUS
    <3>2. c = Cardinality(vs) /\ c <= m.free /\ r = mappages(kalloc(m, c), vs, "rw")
          /\ n <= n
      BY <2>1, <2>2, <2>4, <2>6, <3>1
    <3> QED BY ONLY <2>2, <2>6, <2>7, <3>1, <3>2, MapNew
  <2> QED BY <2>5 DEF Conserved, Changed, Own, n, r
<1> QED BY <1>1, <1>2

(* One page on the way of a copy of n units from address a on.             *)
PageReached(acc, a, n, write, v) ==
  LET m2 == IF walkaddr(acc.mem, v) THEN acc.mem
            ELSE vmfault(acc.mem, v * PGSIZE)
  IN IF ~acc.go THEN acc
     ELSE IF walkaddr(m2, v) /\ (write => m2.pt[v] = "rw")
     THEN [mem |-> m2, go |-> TRUE, n |-> Min({n, (v + 1) * PGSIZE - a})]
     ELSE [mem |-> m2, go |-> FALSE, n |-> acc.n]
ReachRun(m, a, n, write) ==
  LET first == Page(a)
      last == Page(a + n - 1)
  IN \E got :
       /\ got[first - 1] = [mem |-> m, go |-> TRUE, n |-> 0]
       /\ \A v \in first .. last :
            got[v] = PageReached(got[v - 1], a, n, write, v)
       /\ Reach(m, a, n, write) = got[last]

(* The pages that a copy reaches one after the other.                      *)
LEMMA ReachIs ==
  ASSUME NEW m, NEW a \in Int, NEW n \in Nat, n # 0, NEW write
  PROVE  ReachRun(m, a, n, write)
<1> DEFINE first == Page(a)
           last == Page(a + n - 1)
           zero == [mem |-> m, go |-> TRUE, n |-> 0]
           Fn(f, l) == [v \in first - 1 .. l |->
                          IF v = first - 1 THEN zero
                          ELSE PageReached(f[v - 1], a, n, write, v)]
           S == {l \in first - 1 .. last : \E f : f = Fn(f, l)}
<1>0. first \in Int /\ last \in Int /\ first - 1 <= last
  <2>1. a + n - 1 \in Int /\ a <= a + n - 1
    OBVIOUS
  <2>2. first \in Int /\ 3 * first <= a
    BY PageIs
  <2>3. last \in Int /\ a + n - 1 < 3 * last + 3
    BY <2>1, PageIs
  <2> HIDE DEF first, last
  <2> QED BY <2>1, <2>2, <2>3
<1> DEFINE w == CHOOSE f : f = Fn(f, last)
<1>5. Reach(m, a, n, write) = w[last]
  BY DEF Reach, PageReached
<1> HIDE DEF w, first, last
<1>1. first - 1 \in S
  <2>1. [v \in first - 1 .. first - 1 |-> zero] =
          Fn([v \in first - 1 .. first - 1 |-> zero], first - 1)
    BY <1>0
  <2>2. \E f : f = Fn(f, first - 1)
    BY <2>1
  <2>3. first - 1 \in first - 1 .. last
    BY <1>0
  <2> HIDE DEF Fn
  <2> QED BY <2>2, <2>3
<1>2. ASSUME NEW l \in first - 1 .. last - 1, l \in S
      PROVE  l + 1 \in S
  <2>0. l \in Int /\ l >= first - 1 /\ l + 1 \in first - 1 .. last
    BY <1>0
  <2>1. PICK f : f = Fn(f, l)
    BY <1>2
  <2> DEFINE g == [v \in first - 1 .. l + 1 |->
                     IF v = l + 1
                     THEN PageReached(f[l], a, n, write, l + 1)
                     ELSE f[v]]
  <2>2. g = Fn(g, l + 1)
    <3>1. ASSUME NEW v \in first - 1 .. l + 1
          PROVE  g[v] = IF v = first - 1 THEN zero
                        ELSE PageReached(g[v - 1], a, n, write, v)
      <4>1. CASE v = l + 1
        <5>1. l \in first - 1 .. l + 1 /\ l # l + 1 /\ l + 1 - 1 = l
              /\ l + 1 # first - 1
          BY <2>0, <1>0
        <5>2. g[l] = f[l]
          BY <5>1
        <5>3. g[l + 1] = PageReached(f[l], a, n, write, l + 1)
          BY <1>0, <2>0
        <5> HIDE DEF g
        <5> QED BY <4>1, <5>1, <5>2, <5>3
      <4>2. CASE v \in first - 1 .. l
        <5>1. f[v] = IF v = first - 1 THEN zero
                     ELSE PageReached(f[v - 1], a, n, write, v)
          BY <2>1, <4>2
        <5>2. v # l + 1 /\ (v # first - 1 =>
                v - 1 \in first - 1 .. l + 1 /\ v - 1 # l + 1)
          BY <1>0, <2>0, <4>2
        <5>3. g[v] = f[v] /\ (v # first - 1 => g[v - 1] = f[v - 1])
          BY <5>2
        <5> HIDE DEF g
        <5> QED BY <5>1, <5>3
      <4>3. v = l + 1 \/ v \in first - 1 .. l
        BY <1>0, <2>0
      <4> QED BY <4>1, <4>2, <4>3
    <3>2. g = [v \in first - 1 .. l + 1 |-> g[v]]
      OBVIOUS
    <3> HIDE DEF g
    <3> QED BY <3>1, <3>2
  <2>3. \E h : h = Fn(h, l + 1)
    <3> HIDE DEF g
    <3> QED BY <2>2
  <2> QED BY <2>0, <2>3
<1>3. last \in S
  <2> HIDE DEF S
  <2>1. first - 1 .. last \subseteq S
    <3> HIDE DEF first, last
    <3> QED BY <1>0, <1>1, <1>2, Climb
  <2>2. last \in first - 1 .. last
    BY <1>0
  <2> QED BY <2>1, <2>2
<1>4. w = Fn(w, last)
  BY <1>3 DEF w
<1>6. /\ w[first - 1] = zero
      /\ \A v \in first .. last :
           w[v] = PageReached(w[v - 1], a, n, write, v)
  <2>1. first - 1 \in first - 1 .. last
        /\ \A v \in first .. last : v \in first - 1 .. last /\ v # first - 1
    BY <1>0
  <2> QED BY <1>4, <2>1
<1> HIDE DEF zero
<1> QED BY <1>5, <1>6 DEF zero, first, last, ReachRun

(* What a copy leaves.                                                     *)
LEMMA ReachMem ==
  ASSUME NEW m, Own(m), NEW a \in Int, NEW n \in Nat, NEW write
  PROVE  LET r == Reach(m, a, n, write)
         IN Changed(m, r.mem) /\ r.mem.sz = m.sz /\ r.n \in 0 .. n
<1> DEFINE first == Page(a)
           last == Page(a + n - 1)
           Fit(acc) == /\ Changed(m, acc.mem) /\ acc.mem.sz = m.sz
                       /\ acc.n \in 0 .. n
<1>1. CASE n = 0
  <2>1. Reach(m, a, n, write) = [mem |-> m, go |-> TRUE, n |-> 0]
    BY <1>1 DEF Reach
  <2>2. Reach(m, a, n, write).mem = m /\ Reach(m, a, n, write).n = 0
    BY <2>1
  <2> QED BY <1>1, <2>2 DEF Changed
<1>2. CASE n # 0
  <2>0. first \in Int /\ last \in Int /\ first - 1 <= last /\ 3 * first <= a
        /\ a < 3 * first + 3
    <3>1. a + n - 1 \in Int /\ a <= a + n - 1
      BY <1>2
    <3>2. first \in Int /\ 3 * first <= a /\ a < 3 * first + 3
      BY PageIs
    <3>3. last \in Int /\ a + n - 1 < 3 * last + 3
      BY <3>1, PageIs
    <3> HIDE DEF first, last
    <3> QED BY <3>1, <3>2, <3>3
  <2>1. PICK got : /\ got[first - 1] = [mem |-> m, go |-> TRUE, n |-> 0]
                   /\ \A v \in first .. last :
                        got[v] = PageReached(got[v - 1], a, n, write, v)
                   /\ Reach(m, a, n, write) = got[last]
    BY <1>2, ReachIs DEF ReachRun
  <2> HIDE DEF first, last
  <2> DEFINE S == {v \in first - 1 .. last : Fit(got[v])}
  <2>2. first - 1 \in S
    <3>1. got[first - 1].mem = m /\ got[first - 1].n = 0
      BY <2>1
    <3>2. Fit(got[first - 1])
      BY <3>1 DEF Changed
    <3> QED BY <2>0, <3>2
  <2>3. ASSUME NEW l \in first - 1 .. last - 1, l \in S
        PROVE  l + 1 \in S
    <3> DEFINE v == l + 1
               acc == got[l]
               m2 == IF walkaddr(acc.mem, v) THEN acc.mem
                     ELSE vmfault(acc.mem, v * PGSIZE)
               z == (v + 1) * PGSIZE - a
    <3>1. v \in first .. last /\ v - 1 = l /\ v \in Int /\ v \in first - 1 .. last
      BY <2>0
    <3>2. got[v] = PageReached(acc, a, n, write, v)
      BY <2>1, <3>1
    <3>3. Fit(acc)
      BY <2>3
    <3>4. Changed(m, m2) /\ m2.sz = m.sz
      <4>1. v * PGSIZE \in Int
        BY <3>1 DEF PGSIZE
      <4> HIDE DEF acc, v
      <4>2. Own(acc.mem) /\ MemSum(acc.mem) = MemSum(m) /\ acc.mem.sz = m.sz
        BY <3>3 DEF Changed
      <4>3. Changed(acc.mem, vmfault(acc.mem, v * PGSIZE))
            /\ vmfault(acc.mem, v * PGSIZE).sz = acc.mem.sz
        BY <4>1, <4>2, VmfaultMem
      <4> QED BY <4>2, <4>3 DEF Changed
    <3>5. Min({n, z}) \in 0 .. n
      <4>1. z \in Int /\ z >= 0
        BY <2>0, <3>1 DEF PGSIZE
      <4> HIDE DEF z
      <4> QED BY <4>1, MinTwo
    <3>6. \/ got[v] = acc
          \/ got[v].mem = m2 /\ got[v].n = Min({n, z})
          \/ got[v].mem = m2 /\ got[v].n = acc.n
      <4> HIDE DEF acc
      <4> QED BY <3>2 DEF PageReached
    <3> HIDE DEF v, m2, z, acc
    <3>7. Fit(got[v])
      BY <3>3, <3>4, <3>5, <3>6
    <3> QED BY <3>1, <3>7 DEF v
  <2>4. first - 1 .. last \subseteq S
    <3> HIDE DEF S
    <3> QED BY <2>0, <2>2, <2>3, Climb
  <2>5. Fit(got[last])
    BY <2>0, <2>4
  <2> HIDE DEF Fit
  <2>6. Fit(Reach(m, a, n, write))
    BY <2>1, <2>5
  <2> QED BY <2>6 DEF Fit
<1> QED BY <1>1, <1>2

-----------------------------------------------------------------------------
(* uvmcopy(), which may run out of pages in the middle, uvmclear() and     *)
(* loadseg().                                                              *)

(* The elements of a set of numbers that come first in ascending order.    *)
Upto(V, v) == {w \in V : w <= v}
FirstOf(V, n) == {v \in V : Cardinality(Upto(V, v)) <= n}

(* How many pages are below a page.                                        *)
LEMMA RankIs ==
  ASSUME NEW V \in SUBSET Nat, IsFiniteSet(V), NEW v \in V
  PROVE  /\ IsFiniteSet(Upto(V, v)) /\ Cardinality(Upto(V, v)) \in Nat
         /\ Cardinality(Upto(V, v)) <= Cardinality(V)
         /\ Cardinality(Upto(V, v)) >= 1
         /\ \A w \in V : w <= v =>
              Cardinality(Upto(V, w)) <= Cardinality(Upto(V, v))
<1>1. Upto(V, v) \subseteq V /\ v \in Upto(V, v)
  BY DEF Upto
<1>2. IsFiniteSet(Upto(V, v)) /\ Cardinality(Upto(V, v)) <= Cardinality(V)
  BY <1>1, FS_Subset
<1>3. Cardinality(Upto(V, v)) \in Nat /\ Cardinality(Upto(V, v)) # 0
  BY <1>1, <1>2, FS_CardinalityType, FS_EmptySet
<1>4. ASSUME NEW w \in V, w <= v
      PROVE  Cardinality(Upto(V, w)) <= Cardinality(Upto(V, v))
  <2>1. \A u \in V : u \in Int /\ v \in Int /\ w \in Int /\ (u <= w => u <= v)
    <3>1. V \subseteq Nat
      OBVIOUS
    <3> QED BY <1>4, <3>1
  <2>2. Upto(V, w) \subseteq Upto(V, v)
    BY <2>1 DEF Upto
  <2> QED BY <1>2, <2>2, FS_Subset
<1> QED BY <1>2, <1>3, <1>4

(* One page more is copied.                                                *)
LEMMA FirstNext ==
  ASSUME NEW V \in SUBSET Nat, IsFiniteSet(V), NEW n \in Nat,
         n + 1 <= Cardinality(V), Cardinality(FirstOf(V, n)) = n
  PROVE  Cardinality(FirstOf(V, n + 1)) = n + 1
<1> DEFINE F == FirstOf(V, n)
<1>1. F \subseteq V /\ IsFiniteSet(F) /\ Cardinality(F) = n
  BY FS_Subset DEF FirstOf
<1>2. V \ F # {}
  <2>1. Cardinality(V) # n
    <3>1. Cardinality(V) \in Nat
      BY FS_CardinalityType
    <3> QED BY <3>1
  <2>2. V # F
    BY <1>1, <2>1
  <2> QED BY <1>1, <2>2
<1>3. PICK d \in V \ F : \A e \in V \ F : d <= e
  <2>1. V \ F \in SUBSET Nat
    OBVIOUS
  <2> HIDE DEF F
  <2> QED BY <1>2, <2>1, LeastIsIn
<1>4. \A v \in V : v \in F <=> Cardinality(Upto(V, v)) <= n
  BY DEF FirstOf
<1> HIDE DEF F
<1>5. Upto(V, d) = F \cup {d}
  <2>1. ASSUME NEW v \in F
        PROVE  v <= d
    <3>1. SUFFICES ASSUME d <= v PROVE FALSE
      BY <1>1
    <3>2. Cardinality(Upto(V, d)) <= Cardinality(Upto(V, v))
          /\ Cardinality(Upto(V, d)) \in Nat /\ Cardinality(Upto(V, v)) \in Nat
      BY <1>1, <3>1, RankIs
    <3>3. Cardinality(Upto(V, v)) <= n
      BY <1>1, <1>4
    <3>4. Cardinality(Upto(V, d)) <= n
      BY <3>2, <3>3
    <3> QED BY <1>3, <1>4, <3>4
  <2>2. ASSUME NEW v \in V, v <= d, v # d
        PROVE  v \in F
    <3>1. ~(d <= v)
      BY <2>2
    <3> QED BY <1>3, <3>1
  <2>3. d <= d /\ d \in V
    <3>1. V \subseteq Nat
      OBVIOUS
    <3> QED BY <1>3, <3>1
  <2>4. \A v \in V : v <= d <=> v \in F \cup {d}
    BY <1>3, <2>1, <2>2, <2>3
  <2>5. F \cup {d} \subseteq V
    BY <1>1, <2>3
  <2> HIDE DEF F
  <2> QED BY <2>4, <2>5 DEF Upto
<1>6. Cardinality(Upto(V, d)) = n + 1
  <2>1. d \notin F
    BY <1>3
  <2>2. Cardinality(F \cup {d}) = Cardinality(F) + 1
    BY <1>1, <2>1, FS_AddElement
  <2> QED BY <1>1, <1>5, <2>2
<1>7. FirstOf(V, n + 1) = F \cup {d}
  <2>1. \A v \in F : v \in FirstOf(V, n + 1)
    <3> TAKE v \in F
    <3>1. Cardinality(Upto(V, v)) <= n /\ Cardinality(Upto(V, v)) \in Nat
      BY <1>1, <1>4, RankIs
    <3> QED BY <1>1, <3>1 DEF FirstOf
  <2>2. d \in FirstOf(V, n + 1)
    BY <1>3, <1>6 DEF FirstOf
  <2>3. ASSUME NEW e \in V \ F, e # d
        PROVE  e \notin FirstOf(V, n + 1)
    <3>1. d <= e /\ ~(e <= d)
      BY <1>3, <2>3
    <3>0. \A u \in V : u <= d => u <= e
      <4>1. V \subseteq Nat /\ d \in Nat /\ e \in Nat
        BY <1>3, <2>3
      <4>2. \A u \in Nat : u <= d => u <= e
        BY <3>1, <4>1
      <4> QED BY <4>1, <4>2
    <3>7. e <= e /\ e \in V
      BY <2>3
    <3>2. Upto(V, d) \cup {e} \subseteq Upto(V, e) /\ e \notin Upto(V, d)
      BY <1>3, <2>3, <3>0, <3>1, <3>7 DEF Upto
    <3>3. IsFiniteSet(Upto(V, d)) /\ IsFiniteSet(Upto(V, e))
          /\ Cardinality(Upto(V, e)) \in Nat
      BY <1>3, RankIs
    <3>4. Cardinality(Upto(V, d) \cup {e}) = n + 1 + 1
      BY <1>6, <3>2, <3>3, FS_AddElement
    <3>5. Cardinality(Upto(V, d) \cup {e}) <= Cardinality(Upto(V, e))
      BY <3>2, <3>3, FS_Subset
    <3>6. ~(Cardinality(Upto(V, e)) <= n + 1)
      BY <3>3, <3>4, <3>5
    <3> QED BY <3>6 DEF FirstOf
  <2> QED BY <1>3, <2>1, <2>2, <2>3 DEF FirstOf
<1> QED BY <1>1, <1>3, <1>7, FS_AddElement

(* The first n pages are n pages.                                          *)
LEMMA FirstSize ==
  ASSUME NEW V \in SUBSET Nat, IsFiniteSet(V), NEW n \in 0 .. Cardinality(V)
  PROVE  Cardinality(FirstOf(V, n)) = n
<1> DEFINE S == {j \in Nat : Cardinality(FirstOf(V, j)) = j}
<1>1. Cardinality(V) \in Nat
  BY FS_CardinalityType
<1>2. 0 \in S
  <2>1. FirstOf(V, 0) = {}
    <3> SUFFICES ASSUME NEW v \in V, Cardinality(Upto(V, v)) <= 0 PROVE FALSE
      BY DEF FirstOf
    <3>1. Cardinality(Upto(V, v)) >= 1 /\ Cardinality(Upto(V, v)) \in Nat
      BY RankIs
    <3> QED BY <3>1
  <2> QED BY <2>1, FS_EmptySet
<1>3. ASSUME NEW j \in 0 .. Cardinality(V) - 1, j \in S
      PROVE  j + 1 \in S
  <2>1. j \in Nat /\ j + 1 <= Cardinality(V) /\ Cardinality(FirstOf(V, j)) = j
    BY <1>1, <1>3
  <2> QED BY <2>1, FirstNext
<1>4. 0 .. Cardinality(V) \subseteq S
  <2> HIDE DEF S
  <2> QED BY <1>1, <1>2, <1>3, Climb
<1> QED BY <1>4

(* A function on fewer arguments.                                          *)
LEMMA RestrictIs ==
  ASSUME NEW f, NEW V
  PROVE  V \subseteq DOMAIN f => DOMAIN Restrict(f, V) = V
BY DEF Restrict

(* uvmcopy() copies every page, or gives back what it copied.              *)
LEMMA CopyMem ==
  ASSUME NEW m, IsMem(m, 0), NEW sz \in Nat, NEW old,
         DOMAIN old \subseteq 0 .. PGROUNDUP(sz) - 1
  PROVE  LET r == uvmcopy(m, old, sz)
         IN /\ MemSum(r.mem) = MemSum(m) /\ r.mem.sz = m.sz
            /\ r.ok => IsMem(r.mem, PGROUNDUP(sz)) /\ DOMAIN r.mem.pt = DOMAIN old
            /\ ~r.ok => IsMem(r.mem, 0)
<1> DEFINE V == DOMAIN old
           c == Cardinality(V)
           n == Min({m.free, c})
           first == FirstOf(V, n)
           got == [kalloc(m, n) EXCEPT !.pt = Restrict(old, first)]
           stop == Overlaps(sz) /\ got.free = 0
           r == uvmcopy(m, old, sz)
           l == PGROUNDUP(sz)
<1>1. l \in Nat /\ 3 * l < sz + 3
  <2>1. sz \in Int
    OBVIOUS
  <2> QED BY ONLY <2>1, sz \in Nat, RoundUpIs DEF l
<1>2. {v \in DOMAIN old : v * PGSIZE < sz} = V
  <2>1. \A v \in V : v \in Nat /\ v <= l - 1
    BY <1>1
  <2>2. \A v \in V : v * 3 < sz
    <3> TAKE v \in V
    <3> HIDE DEF V, l
    <3> QED BY <1>1, <2>1
  <2> QED BY <2>2 DEF PGSIZE
<1>3. r = IF first # V \/ stop THEN [mem |-> uvmunmap(got, first), ok |-> FALSE]
          ELSE [mem |-> got, ok |-> TRUE]
  <2>1. uvmcopy(m, old, sz) =
          LET vs == {v \in DOMAIN old : v * PGSIZE < sz}
          IN IF \/ FirstOf(vs, Min({m.free, Cardinality(vs)})) # vs
                \/ /\ Overlaps(sz)
                   /\ [kalloc(m, Min({m.free, Cardinality(vs)}))
                         EXCEPT !.pt = Restrict(old, FirstOf(vs, Min({m.free, Cardinality(vs)})))].free = 0
             THEN [mem |-> uvmunmap([kalloc(m, Min({m.free, Cardinality(vs)}))
                             EXCEPT !.pt = Restrict(old, FirstOf(vs, Min({m.free, Cardinality(vs)})))],
                             FirstOf(vs, Min({m.free, Cardinality(vs)}))), ok |-> FALSE]
             ELSE [mem |-> [kalloc(m, Min({m.free, Cardinality(vs)}))
                             EXCEPT !.pt = Restrict(old, FirstOf(vs, Min({m.free, Cardinality(vs)})))],
                   ok |-> TRUE]
    BY DEF uvmcopy, FirstOf, Upto
  <2> QED BY <1>2, <2>1
<1>4. IsFiniteSet(V) /\ V \subseteq Nat /\ V \subseteq 0 .. l - 1 /\ c \in Nat
  <2>1. IsFiniteSet(0 .. l - 1) /\ 0 .. l - 1 \subseteq Nat
    <3>1. l - 1 \in Int /\ 0 \in Int
      BY <1>1
    <3> HIDE DEF l
    <3> QED BY <3>1, FS_Interval
  <2> QED BY <2>1, FS_Subset, FS_CardinalityType
<1>5. m.free \in Nat /\ m.sz \in Nat /\ DOMAIN m.pt = {} /\ MemSum(m) = m.free
  <2>1. m.free \in Nat /\ m.sz \in Nat /\ DOMAIN m.pt = {}
    BY DEF IsMem
  <2> QED BY <2>1, FS_EmptySet DEF MemSum
<1> HIDE DEF r, V, l
<1>6. n \in Nat /\ n <= m.free /\ n <= c /\ (n = m.free \/ n = c)
  <2> HIDE DEF c
  <2> QED BY <1>4, <1>5, MinTwo
<1> HIDE DEF n
<1>7. Cardinality(first) = n /\ first \subseteq V /\ IsFiniteSet(first)
  <2>1. n \in 0 .. Cardinality(V)
    BY <1>4, <1>6
  <2>2. Cardinality(first) = n
    BY <1>4, <2>1, FirstSize
  <2> QED BY <1>4, <2>2, FS_Subset DEF FirstOf
<1>8. /\ got = [free |-> got.free, sz |-> got.sz, pt |-> got.pt]
      /\ got.free = m.free - n /\ got.sz = m.sz /\ DOMAIN got.pt = first
  <2> DEFINE m1 == kalloc(m, n)
             pt == Restrict(old, first)
  <2>1. m1 = [m EXCEPT !.free = m.free - Min({n, m.free})]
    BY DEF kalloc
  <2>2. Min({n, m.free}) = n
    BY <1>5, <1>6, MinTwo
  <2>3. m1 = [free |-> m1.free, sz |-> m1.sz, pt |-> m1.pt]
        /\ m1.free = m.free - n /\ m1.sz = m.sz
    BY <2>1, <2>2, SetFree
  <2> HIDE DEF m1, first
  <2>4. DOMAIN pt = first
    BY <1>7, RestrictIs DEF V
  <2> HIDE DEF pt
  <2> QED BY <2>3, <2>4, SetPt DEF m1, pt
<1> HIDE DEF first, got, stop
<1>9. IsMem(got, l) /\ MemSum(got) = MemSum(m) /\ got.sz = m.sz
  <2>1. m.free - n \in Nat /\ m.free - n + n = m.free
    BY <1>5, <1>6
  <2>2. DOMAIN got.pt \subseteq 0 .. l - 1
    BY <1>4, <1>7, <1>8
  <2>3. IsMem(got, l)
    BY <1>1, <1>5, <1>8, <2>1, <2>2 DEF IsMem, l
  <2>4. MemSum(got) = m.free - n + n
    BY <1>7, <1>8 DEF MemSum
  <2> QED BY <1>5, <1>8, <2>1, <2>3, <2>4
<1>10. CASE first = V /\ ~stop
  <2>1. r.mem = got /\ r.ok
    BY <1>3, <1>10
  <2> QED BY <1>8, <1>9, <1>10, <2>1 DEF r, V, l
<1>11. CASE first # V \/ stop
  <2> DEFINE u == uvmunmap(got, first)
  <2>1. r.mem = u /\ ~r.ok
    BY <1>3, <1>11
  <2>2. 0 \in Nat /\ DOMAIN got.pt \ first \subseteq 0 .. 0 - 1
    BY <1>8
  <2>3. Conserved(got, u, 0)
    BY <1>9, <2>2, Unmap
  <2> HIDE DEF u
  <2> QED BY <1>9, <2>1, <2>3 DEF Conserved, r
<1> QED BY <1>10, <1>11

(* uvmclear() keeps the pages.                                             *)
LEMMA ClearMem ==
  ASSUME NEW m, NEW n, IsMem(m, n), NEW v
  PROVE  Conserved(m, uvmclear(m, v), n)
<1> DEFINE pt == [m.pt EXCEPT ![v] = "none"]
<1>1. uvmclear(m, v) = [m EXCEPT !.pt = pt]
  BY DEF uvmclear
<1>2. DOMAIN pt = DOMAIN m.pt
  OBVIOUS
<1> HIDE DEF pt
<1> QED BY <1>1, <1>2, SetPt DEF Conserved, IsMem, MemSum

(* The new image, as far as it came.                                       *)
LEMMA LoadsegMem ==
  ASSUME NEW m, IsMem(m, 0), m.sz = 0
  PROVE  LET r == loadseg(m)
         IN r.sz \in Nat /\ IsMem(r.mem, PGROUNDUP(r.sz)) /\ MemSum(r.mem) = MemSum(m)
<1> DEFINE a == DataEnd * PGSIZE
           b == ImagePages * PGSIZE
           text == uvmalloc(m, 0, PGSIZE, "rx")
           data == uvmalloc(text.mem, PGSIZE, a, "rw")
           all == uvmalloc(data.mem, a, b, "rw")
           r == loadseg(m)
<1>1. r = IF text.sz = 0 THEN [mem |-> text.mem, sz |-> 0, ok |-> FALSE]
          ELSE IF data.sz = 0 THEN [mem |-> data.mem, sz |-> text.sz, ok |-> FALSE]
          ELSE IF all.sz = 0 THEN [mem |-> all.mem, sz |-> data.sz, ok |-> FALSE]
          ELSE [mem |-> uvmclear(all.mem, DataEnd), sz |-> all.sz, ok |-> TRUE]
  BY DEF loadseg
<1>2. /\ PGSIZE \in Nat /\ a \in Nat /\ b \in Nat /\ 0 <= PGSIZE /\ PGSIZE <= a
      /\ a <= b /\ PGSIZE # 0 /\ a # 0
  BY DEF PGSIZE, DataEnd, ImagePages
<1>3. PGROUNDUP(0) = 0
  BY DEF PGROUNDUP, PGSIZE
<1> HIDE DEF a, b, r
<1>4. /\ \/ text.sz = PGSIZE /\ IsMem(text.mem, PGROUNDUP(PGSIZE))
         \/ text.sz = 0 /\ IsMem(text.mem, PGROUNDUP(0))
      /\ MemSum(text.mem) = MemSum(m)
  BY <1>2, <1>3, AllocMem
<1> HIDE DEF text
<1>5. CASE text.sz = 0
  <2>1. r.mem = text.mem /\ r.sz = 0
    BY <1>1, <1>5
  <2> QED BY <1>2, <1>3, <1>4, <1>5, <2>1 DEF r
<1>6. CASE text.sz # 0
  <2>0. text.sz = PGSIZE /\ IsMem(text.mem, PGROUNDUP(PGSIZE))
    BY <1>4, <1>6
  <2>1. /\ \/ data.sz = a /\ IsMem(data.mem, PGROUNDUP(a))
           \/ data.sz = 0 /\ IsMem(data.mem, PGROUNDUP(PGSIZE))
        /\ MemSum(data.mem) = MemSum(text.mem)
    BY <1>2, <2>0, AllocMem
  <2> HIDE DEF data
  <2>2. CASE data.sz = 0
    <3>1. r.mem = data.mem /\ r.sz = PGSIZE
      BY <1>1, <1>6, <2>0, <2>2
    <3> QED BY <1>2, <1>4, <2>1, <2>2, <3>1 DEF r
  <2>3. CASE data.sz # 0
    <3>0. data.sz = a /\ IsMem(data.mem, PGROUNDUP(a))
      BY <2>1, <2>3
    <3>1. /\ \/ all.sz = b /\ IsMem(all.mem, PGROUNDUP(b))
             \/ all.sz = 0 /\ IsMem(all.mem, PGROUNDUP(a))
          /\ MemSum(all.mem) = MemSum(data.mem)
      BY <1>2, <3>0, AllocMem
    <3> HIDE DEF all
    <3>2. CASE all.sz = 0
      <4>1. r.mem = all.mem /\ r.sz = a
        BY <1>1, <1>6, <2>3, <3>0, <3>2
      <4> QED BY <1>2, <1>4, <2>1, <3>1, <3>2, <4>1 DEF r
    <3>3. CASE all.sz # 0
      <4>1. r.mem = uvmclear(all.mem, DataEnd) /\ r.sz = b
        BY <1>1, <1>6, <2>3, <3>1, <3>3
      <4>2. IsMem(all.mem, PGROUNDUP(b))
        BY <3>1, <3>3
      <4>3. Conserved(all.mem, uvmclear(all.mem, DataEnd), PGROUNDUP(b))
        BY <4>2, ClearMem
      <4> QED BY <1>2, <1>4, <2>1, <3>1, <4>1, <4>3 DEF r, Conserved
    <3> QED BY <3>2, <3>3
  <2> QED BY <2>2, <2>3
<1> QED BY <1>5, <1>6

-----------------------------------------------------------------------------
(* The rest of the kernel: tables that a call leaves alone.                *)

(* The rest of a kernel state when y[f] references to file f and t pages   *)
(* are in hand; none of it is claimed after a panic.                       *)
Others(s, y, t) ==
  /\ IsSeq(s.tty) /\ Files0(s.file, s.proc, y) /\ Pipes(s.file, s.pipe)
  /\ Pages0(s.free, s.proc, s.pipe, s.pages, t) /\ Procs0(s.proc)
Fine(s, x, y, t) == FsOk(s, x) /\ (s.panic = "" => Others(s, y, t))

(* A step of the file system keeps the rest of a fine state.               *)
LEMMA Lift ==
  ASSUME NEW s, NEW x, NEW y, NEW t, Fine(s, x, y, t), NEW r, NEW v,
         FsOk(r, v), Keeps(s, r)
  PROVE  Fine(r, v, y, t)
BY DEF Fine, Others, Keeps, Rest

(* What the other parts of the kernel leave alone.                         *)
SameFs(s, r) ==
  /\ IsK(r) /\ r.ino = s.ino /\ r.bfree = s.bfree /\ r.ref = s.ref
  /\ r.panic = s.panic

(* After a panic a state is fine whatever is in hand.                      *)
LEMMA SickFine ==
  ASSUME NEW s, NEW x, FsOk(s, x), s.panic # "", NEW r, SameFs(s, r),
         NEW v \in [Inums -> Nat], NEW y, NEW t
  PROVE  Fine(r, v, y, t)
BY DEF Fine, FsOk, SameFs

(* The state with other processes.                                         *)
LEMMA SetProc ==
  ASSUME NEW s, IsK(s), NEW v
  PROVE  LET r == [s EXCEPT !.proc = v]
         IN /\ SameFs(s, r) /\ r.proc = v /\ r.file = s.file /\ r.pipe = s.pipe
            /\ r.pages = s.pages /\ r.free = s.free /\ r.nextpid = s.nextpid
            /\ r.tty = s.tty
BY DEF IsK, SameFs

(* The same of a state by another name.                                    *)
LEMMA SetProcOf ==
  ASSUME NEW s, IsK(s), NEW v, NEW r, r = [s EXCEPT !.proc = v]
  PROVE  /\ SameFs(s, r) /\ r.proc = v /\ r.file = s.file /\ r.pipe = s.pipe
         /\ r.pages = s.pages /\ r.free = s.free /\ r.nextpid = s.nextpid
         /\ r.tty = s.tty
BY DEF IsK, SameFs

(* The state with other free pages.                                        *)
LEMMA SetFreeK ==
  ASSUME NEW s, IsK(s), NEW v
  PROVE  LET r == [s EXCEPT !.free = v]
         IN /\ SameFs(s, r) /\ r.proc = s.proc /\ r.file = s.file
            /\ r.pipe = s.pipe /\ r.pages = s.pages /\ r.free = v
            /\ r.nextpid = s.nextpid /\ r.tty = s.tty
BY DEF IsK, SameFs

(* The state with other files.                                             *)
LEMMA SetFile ==
  ASSUME NEW s, IsK(s), NEW v
  PROVE  LET r == [s EXCEPT !.file = v]
         IN /\ SameFs(s, r) /\ r.proc = s.proc /\ r.file = v
            /\ r.pipe = s.pipe /\ r.pages = s.pages /\ r.free = s.free
            /\ r.nextpid = s.nextpid /\ r.tty = s.tty
BY DEF IsK, SameFs

(* The state with other pipes.                                             *)
LEMMA SetPipe ==
  ASSUME NEW s, IsK(s), NEW v
  PROVE  LET r == [s EXCEPT !.pipe = v]
         IN /\ SameFs(s, r) /\ r.proc = s.proc /\ r.file = s.file
            /\ r.pipe = v /\ r.pages = s.pages /\ r.free = s.free
            /\ r.nextpid = s.nextpid /\ r.tty = s.tty
BY DEF IsK, SameFs

(* The state with more on the console.                                     *)
LEMMA SetTty ==
  ASSUME NEW s, IsK(s), NEW v
  PROVE  LET r == [s EXCEPT !.tty = v]
         IN /\ SameFs(s, r) /\ r.proc = s.proc /\ r.file = s.file
            /\ r.pipe = s.pipe /\ r.pages = s.pages /\ r.free = s.free
            /\ r.nextpid = s.nextpid /\ r.tty = v
BY DEF IsK, SameFs

(* The same of a state by another name.                                    *)
WithTty(s, v) == [s EXCEPT !.tty = v]
TtyResult(s, v, r) ==
  /\ SameFs(s, r) /\ r.proc = s.proc /\ r.file = s.file
  /\ r.pipe = s.pipe /\ r.pages = s.pages /\ r.free = s.free
  /\ r.nextpid = s.nextpid /\ r.tty = v
LEMMA SetTtyOf ==
  ASSUME NEW s, IsK(s), NEW v
  PROVE  TtyResult(s, v, WithTty(s, v))
BY DEF IsK, SameFs, WithTty, TtyResult

(* A process after a change of what the user side sees of it.              *)
User(a, b) ==
  /\ IsProc(b) /\ b.st = a.st /\ b.cwd = a.cwd /\ b.fd = a.fd /\ b.pt = a.pt
  /\ b.sz = a.sz
Users0(proc, v) ==
  v = [p \in Slots |-> v[p]] /\ \A p \in Slots : User(proc[p], v[p])

(* Processes that changed only what their user side sees.                  *)
LEMMA UsersFine ==
  ASSUME NEW s, NEW x, NEW y, NEW t, Fine(s, x, y, t), NEW v,
         s.panic = "" => Users0(s.proc, v)
  PROVE  Fine([s EXCEPT !.proc = v], x, y, t)
<1> DEFINE r == [s EXCEPT !.proc = v]
<1>1. /\ SameFs(s, r) /\ r.proc = v /\ r.file = s.file /\ r.pipe = s.pipe
      /\ r.pages = s.pages /\ r.free = s.free /\ r.tty = s.tty
  <2>1. IsK(s)
    BY DEF Fine, FsOk
  <2>2. r = [s EXCEPT !.proc = v]
    OBVIOUS
  <2> HIDE DEF r
  <2> QED BY ONLY <2>1, <2>2, SetProcOf
<1>2. x \in [Inums -> Nat] /\ FsOk(s, x)
  BY DEF Fine, FsOk
<1> HIDE DEF r
<1>3. CASE s.panic # ""
  BY <1>1, <1>2, <1>3, SickFine DEF r
<1>4. CASE s.panic = ""
  <2>1. Others(s, y, t) /\ Users0(s.proc, v)
    BY <1>4 DEF Fine
  <2>2. \A i : Cwds(v, i) = Cwds(s.proc, i)
    BY <2>1 DEF Cwds, Users0, User
  <2>3. \A f : Descriptors(v, f) = Descriptors(s.proc, f)
    <3>1. \A d \in Slots \X Fds : v[d[1]].fd = s.proc[d[1]].fd
      BY <2>1 DEF Users0, User
    <3> QED BY <3>1 DEF Descriptors
  <2>4. Taken(v) = Taken(s.proc) /\ Mapped(v) = Mapped(s.proc)
    BY <2>1 DEF Taken, Mapped, Users0, User
  <2>5. Procs0(v)
    <3>1. Procs0(s.proc) /\ Users0(s.proc, v)
      BY ONLY <2>1 DEF Others
    <3> QED BY ONLY <3>1 DEF Procs0, Users0, User
  <2>6. FsOk(r, x)
    <3>1. Refs(r.ref, v, r.file, x)
      BY <1>1, <1>2, <1>4, <2>2 DEF FsOk, Refs, SameFs
    <3>2. InUseOnly(r.ino, v, r.file)
      <4>1. /\ r.file = s.file /\ r.ino = s.ino
            /\ InUseOnly(s.ino, s.proc, s.file)
        BY <1>1, <1>2, <1>4 DEF FsOk, SameFs
      <4>2. \A p \in Slots : v[p].st = s.proc[p].st /\ v[p].cwd = s.proc[p].cwd
        BY <2>1 DEF Users0, User
      <4> QED BY ONLY <4>1, <4>2 DEF InUseOnly
    <3> QED BY <1>1, <1>2, <3>1, <3>2 DEF FsOk, SameFs
  <2>7. Others(r, y, t)
    BY <1>1, <2>1, <2>3, <2>4, <2>5 DEF Others, Files0, Pages0
  <2> QED BY <2>6, <2>7 DEF r, Fine
<1> QED BY <1>3, <1>4

(* One such process.                                                       *)
LEMMA UserFine ==
  ASSUME NEW s, NEW x, NEW y, NEW t, Fine(s, x, y, t), NEW p \in Slots, NEW q,
         s.panic = "" => User(s.proc[p], q)
  PROVE  Fine([s EXCEPT !.proc = [s.proc EXCEPT ![p] = q]], x, y, t)
<1> DEFINE v == [s.proc EXCEPT ![p] = q]
<1>1. ASSUME s.panic = "" PROVE Users0(s.proc, v)
  <2>1. s.proc = [j \in Slots |-> s.proc[j]] /\ \A j \in Slots : IsProc(s.proc[j])
    BY <1>1 DEF Fine, Others, Procs0
  <2>2. v = [j \in Slots |-> v[j]] /\ v[p] = q
        /\ \A j \in Slots : j # p => v[j] = s.proc[j]
    BY <2>1
  <2>3. User(s.proc[p], v[p])
    BY <1>1, <2>2
  <2>4. \A j \in Slots : j # p => User(s.proc[j], v[j])
    BY <2>1, <2>2 DEF User
  <2> HIDE DEF v
  <2> QED BY <2>2, <2>3, <2>4 DEF Users0
<1> HIDE DEF v
<1>2. Fine([s EXCEPT !.proc = v], x, y, t)
  BY <1>1, UsersFine
<1> QED BY <1>2 DEF v

(* The state with one process changed like that.                           *)
LEMMA SetUser ==
  ASSUME NEW r, IsProc(r), NEW c, NEW w
  PROVE  User(r, [r EXCEPT !.code = c, !.var = w, !.done = 0])
<1> DEFINE q == [r EXCEPT !.code = c, !.var = w, !.done = 0]
<1>1. /\ q.sz \in Nat /\ q.done = 0 /\ IsSeq(q.buf) /\ q.fd \in [Fds -> 0 .. NFILE]
      /\ q.st = r.st /\ q.cwd = r.cwd /\ q.fd = r.fd /\ q.pt = r.pt /\ q.sz = r.sz
  BY DEF IsProc, ProcFields
<1>2. q = [n \in ProcFields |-> q[n]]
  <2>1. r = [n \in ProcFields |-> r[n]]
    BY DEF IsProc
  <2> QED BY ONLY <2>1 DEF q
<1> HIDE DEF q
<1>3. IsProc(q)
  BY <1>1, <1>2 DEF IsProc
<1> QED BY <1>1, <1>3 DEF User, q

UserSet(s, p, c, w) ==
  [s EXCEPT !.proc = [s.proc EXCEPT ![p] =
              [s.proc[p] EXCEPT !.code = c, !.var = w, !.done = 0]]]

(* What Return changes.                                                    *)
LEMMA ReturnIs ==
  ASSUME NEW s, NEW p, NEW v
  PROVE  \E c, w : Return(s, p, v) = UserSet(s, p, c, w)
<1> DEFINE i == Head(s.proc[p].code)
           wanted == v \in i.want
           next == IF wanted /\ i.again THEN s.proc[p].code ELSE Tail(s.proc[p].code)
           w == IF i.to = "" THEN s.proc[p].var ELSE (i.to :> v) @@ s.proc[p].var
           c == (IF wanted THEN i.ok ELSE i.no) \o next
<1>1. Return(s, p, v) = [s EXCEPT !.proc[p].code = c, !.proc[p].var = w,
                                  !.proc[p].done = 0]
  BY DEF Return
<1> HIDE DEF c, w
<1>2. [s EXCEPT !.proc[p].code = c, !.proc[p].var = w, !.proc[p].done = 0] =
        UserSet(s, p, c, w)
  BY DEF UserSet
<1>3. Return(s, p, v) = UserSet(s, p, c, w)
  BY <1>1, <1>2
<1> QED BY ONLY <1>3

(* What a call leaves is fine when it returns.                             *)
LEMMA ReturnFine ==
  ASSUME NEW s, NEW x, NEW y, NEW t, Fine(s, x, y, t), NEW p \in Slots, NEW v
  PROVE  Fine(Return(s, p, v), x, y, t)
<1>1. PICK c, w : Return(s, p, v) = UserSet(s, p, c, w)
  BY ReturnIs
<1> DEFINE q == [s.proc[p] EXCEPT !.code = c, !.var = w, !.done = 0]
<1>2. ASSUME s.panic = "" PROVE User(s.proc[p], q)
  <2>1. IsProc(s.proc[p])
    BY <1>2 DEF Fine, Others, Procs0
  <2> QED BY <2>1, SetUser
<1> HIDE DEF q
<1>3. Fine([s EXCEPT !.proc = [s.proc EXCEPT ![p] = q]], x, y, t)
  BY <1>2, UserFine
<1> QED BY <1>1, <1>3 DEF q, UserSet

-----------------------------------------------------------------------------
(* A process and its pages: what the call did to Mem(s, p) put back into   *)
(* s.                                                                      *)

Put(proc, p, q) == [proc EXCEPT ![p] = q]
Remap(q, z, v) == [q EXCEPT !.sz = z, !.pt = v]

(* The pages of one process, among those of all.                           *)
LEMMA PagesOf ==
  ASSUME NEW proc, Procs0(proc), NEW p \in Slots
  PROVE  IsFiniteSet(DOMAIN proc[p].pt)
         /\ Cardinality(DOMAIN proc[p].pt) \in Nat
<1> DEFINE n == PGROUNDUP(proc[p].sz)
<1>1. DOMAIN proc[p].pt \subseteq 0 .. n - 1 /\ proc[p].sz \in Nat
  BY DEF Procs0, IsProc
<1>2. IsFiniteSet(0 .. n - 1)
  <2>1. n \in Nat
    <3>1. proc[p].sz \in Int
      BY <1>1
    <3> QED BY <1>1, <3>1, RoundUpIs
  <2>2. n - 1 \in Int /\ 0 \in Int
    BY <2>1
  <2> HIDE DEF n
  <2> QED BY <2>2, FS_Interval
<1> HIDE DEF n
<1> QED BY <1>1, <1>2, FS_Subset, FS_CardinalityType

(* What a change of one page table changes.                                *)
LEMMA MappedSet ==
  ASSUME NEW proc, Procs0(proc), NEW p \in Slots, NEW q,
         IsFiniteSet(DOMAIN q.pt), NEW v, v = [proc EXCEPT ![p] = q]
  PROVE  /\ Cardinality(Mapped(v)) + Cardinality(DOMAIN proc[p].pt) =
              Cardinality(Mapped(proc)) + Cardinality(DOMAIN q.pt)
         /\ Cardinality(Mapped(v)) \in Nat /\ Cardinality(Mapped(proc)) \in Nat
         /\ Cardinality(DOMAIN q.pt) \in Nat
         /\ Cardinality(DOMAIN proc[p].pt) \in Nat
<1> DEFINE g == [j \in Slots |-> DOMAIN proc[j].pt]
           h == [j \in Slots |-> DOMAIN v[j].pt]
<1>1. proc = [j \in Slots |-> proc[j]]
  BY DEF Procs0
<1>2. v[p] = q /\ \A j \in Slots : j # p => v[j] = proc[j]
  BY <1>1
<1>3. \A j \in Slots : IsFiniteSet(g[j])
  BY PagesOf
<1>4. /\ g[p] = DOMAIN proc[p].pt /\ h[p] = DOMAIN q.pt
      /\ \A j \in Slots : j # p => h[j] = g[j]
  BY <1>2
<1>5. Mapped(proc) = Pairs(Slots, g) /\ Mapped(v) = Pairs(Slots, h)
  BY DEF Mapped, Pairs
<1> HIDE DEF g, h
<1>6. IsFiniteSet(Slots) /\ IsFiniteSet(h[p])
  BY <1>4, SetsFinite
<1>7. /\ Cardinality(Pairs(Slots, h)) + Cardinality(g[p]) =
              Cardinality(Pairs(Slots, g)) + Cardinality(h[p])
      /\ Cardinality(Pairs(Slots, h)) \in Nat /\ Cardinality(Pairs(Slots, g)) \in Nat
      /\ Cardinality(g[p]) \in Nat /\ Cardinality(h[p]) \in Nat
  BY <1>3, <1>4, <1>6, PairsChange
<1> QED BY ONLY <1>4, <1>5, <1>7

(* Slots taken and pipes are counted by numbers.                           *)
LEMMA PageSums ==
  ASSUME NEW proc, NEW pipe
  PROVE  Cardinality(Taken(proc)) \in Nat
         /\ (DOMAIN pipe \subseteq Filenums => Cardinality(DOMAIN pipe) \in Nat)
<1>1. Taken(proc) \subseteq Slots
  BY DEF Taken
<1>2. IsFiniteSet(Slots) /\ IsFiniteSet(Filenums)
  BY SetsFinite
<1>3. IsFiniteSet(Taken(proc))
  BY <1>1, <1>2, FS_Subset
<1> QED BY <1>2, <1>3, FS_Subset, FS_CardinalityType

(* The account of all pages when those of one process change.              *)
LEMMA Account ==
  ASSUME NEW a \in Nat, NEW b \in Nat, NEW c \in Nat, NEW d \in Nat,
         NEW m \in Nat, NEW n \in Nat, NEW f \in Nat, NEW g \in Nat,
         NEW t \in Nat, NEW u \in Nat, n + d = m + c, f + u + c = g + t + d
  PROVE  f + u + a + 2 * b + n = g + t + a + 2 * b + m
OBVIOUS

(* A process whose memory changed, and nothing else that the others see.   *)
LEMMA ProcFine ==
  ASSUME NEW s, NEW x, NEW y, NEW t \in Nat, Fine(s, x, y, t), s.panic = "",
         NEW p \in Slots, NEW q, IsProc(q), q.st = s.proc[p].st,
         q.cwd = s.proc[p].cwd, q.fd = s.proc[p].fd,
         DOMAIN q.pt \subseteq 0 .. PGROUNDUP(q.sz) - 1,
         IsFiniteSet(DOMAIN q.pt), s.proc[p].st # "unused",
         NEW f \in Nat, NEW u \in Nat,
         f + u + Cardinality(DOMAIN q.pt) =
           s.free + t + Cardinality(DOMAIN s.proc[p].pt),
         NEW r, SameFs(s, r), r.proc = Put(s.proc, p, q), r.free = f,
         r.file = s.file, r.pipe = s.pipe, r.pages = s.pages, r.tty = s.tty
  PROVE  Fine(r, x, y, u)
<1> DEFINE v == [s.proc EXCEPT ![p] = q]
<1>1. Others(s, y, t) /\ FsOk(s, x)
  BY DEF Fine
<1>2. s.proc = [j \in Slots |-> s.proc[j]] /\ Procs0(s.proc)
      /\ \A j \in Slots : IsProc(s.proc[j])
  BY <1>1 DEF Others, Procs0
<1>3. v = [j \in Slots |-> v[j]] /\ v[p] = q
      /\ \A j \in Slots : j # p => v[j] = s.proc[j]
  BY <1>2
<1>4. /\ Cardinality(Mapped(v)) + Cardinality(DOMAIN s.proc[p].pt) =
              Cardinality(Mapped(s.proc)) + Cardinality(DOMAIN q.pt)
      /\ Cardinality(Mapped(v)) \in Nat /\ Cardinality(Mapped(s.proc)) \in Nat
      /\ Cardinality(DOMAIN q.pt) \in Nat
      /\ Cardinality(DOMAIN s.proc[p].pt) \in Nat
  BY <1>2, MappedSet
<1>5. r.proc = v
  BY DEF Put
<1> HIDE DEF v
<1>6. \A j \in Slots : v[j].st = s.proc[j].st /\ v[j].cwd = s.proc[j].cwd
                       /\ v[j].fd = s.proc[j].fd
  BY <1>3
<1>7. \A i : Cwds(v, i) = Cwds(s.proc, i)
  BY <1>6 DEF Cwds
<1>8. \A i : Descriptors(v, i) = Descriptors(s.proc, i)
  <2>1. \A d \in Slots \X Fds : v[d[1]].fd = s.proc[d[1]].fd
    BY <1>6
  <2> QED BY <2>1 DEF Descriptors
<1>9. Taken(v) = Taken(s.proc)
  BY <1>6 DEF Taken
<1>10. Procs0(v)
  <2>1. \A j \in Slots : j # p => IsProc(v[j])
          /\ DOMAIN v[j].pt \subseteq 0 .. PGROUNDUP(v[j].sz) - 1
          /\ (v[j].st = "unused" => DOMAIN v[j].pt = {})
    BY <1>2, <1>3 DEF Procs0
  <2>2. /\ IsProc(v[p]) /\ DOMAIN v[p].pt \subseteq 0 .. PGROUNDUP(v[p].sz) - 1
        /\ v[p].st # "unused"
    BY <1>3
  <2>3. \A j \in Slots : v[j].st # "used" => \A d \in Fds : v[j].fd[d] = 0
    <3>1. \A j \in Slots :
            s.proc[j].st # "used" => \A d \in Fds : s.proc[j].fd[d] = 0
      BY <1>2 DEF Procs0
    <3> QED BY ONLY <3>1, <1>6
  <2> QED BY <1>3, <2>1, <2>2, <2>3 DEF Procs0
<1>11. FsOk(r, x)
  <2>1. Refs(r.ref, v, r.file, x)
    BY <1>1, <1>7 DEF FsOk, Refs, SameFs
  <2>2. InUseOnly(r.ino, v, r.file)
    <3>1. r.file = s.file /\ r.ino = s.ino /\ InUseOnly(s.ino, s.proc, s.file)
      BY <1>1 DEF FsOk, SameFs
    <3> QED BY ONLY <3>1, <1>6 DEF InUseOnly
  <2> QED BY <1>1, <1>5, <2>1, <2>2 DEF FsOk, SameFs
<1>12. Pages0(r.free, v, r.pipe, r.pages, u)
  <2> DEFINE a == Cardinality(DOMAIN s.pipe)
             b == Cardinality(Taken(s.proc))
             m == Cardinality(Mapped(s.proc))
             n == Cardinality(Mapped(v))
             c == Cardinality(DOMAIN q.pt)
             d == Cardinality(DOMAIN s.proc[p].pt)
  <2>1. a \in Nat /\ b \in Nat /\ s.free \in Nat /\ s.free + t + a + 2 * b + m = s.pages
    BY <1>1, PageSums DEF Others, Pages0, Pipes
  <2>2. n + d = m + c /\ m \in Nat /\ n \in Nat /\ c \in Nat /\ d \in Nat
        /\ f + u + c = s.free + t + d
    BY <1>4
  <2> HIDE DEF a, b, m, n, c, d
  <2>3. f + u + a + 2 * b + n = s.free + t + a + 2 * b + m
    <3>1. f \in Nat /\ u \in Nat /\ t \in Nat
      OBVIOUS
    <3> QED BY ONLY <2>1, <2>2, <3>1, Account
  <2>4. f + u + a + 2 * b + n = s.pages
    BY ONLY <2>1, <2>3
  <2> QED BY <1>9, <2>4 DEF Pages0, a, b, n
<1>13. Others(r, y, u)
  BY <1>1, <1>5, <1>8, <1>10, <1>12 DEF Others, Files0
<1> QED BY <1>11, <1>13 DEF Fine


SetMemResult(s, p, m, r) ==
  /\ SameFs(s, r) /\ r.free = m.free /\ r.file = s.file
  /\ r.proc = Put(s.proc, p, Remap(s.proc[p], m.sz, m.pt))
  /\ r.pipe = s.pipe /\ r.pages = s.pages /\ r.tty = s.tty
  /\ r.nextpid = s.nextpid

(* What SetMem changes.                                                    *)
LEMMA SetMemIs ==
  ASSUME NEW s, IsK(s), NEW p, NEW m
  PROVE  SetMemResult(s, p, m, SetMem(s, p, m))
<1> SUFFICES ASSUME NEW a, NEW b, NEW c, a = m.free, b = m.sz, c = m.pt
             PROVE  SetMemResult(s, p, m, SetMem(s, p, m))
  OBVIOUS
<1>1. SetMem(s, p, m) = [s EXCEPT !.free = m.free, !.proc[p].sz = m.sz,
                                  !.proc[p].pt = m.pt]
  BY DEF SetMem
<1>2. SetMem(s, p, m) = [s EXCEPT !.free = a, !.proc[p].sz = b, !.proc[p].pt = c]
  BY <1>1
<1>3. ASSUME NEW r, r = [s EXCEPT !.free = a, !.proc[p].sz = b, !.proc[p].pt = c]
      PROVE  /\ SameFs(s, r) /\ r.free = a /\ r.file = s.file
             /\ r.proc = Put(s.proc, p, Remap(s.proc[p], b, c))
             /\ r.pipe = s.pipe /\ r.pages = s.pages /\ r.tty = s.tty
             /\ r.nextpid = s.nextpid
  BY ONLY IsK(s), <1>3 DEF IsK, SameFs, Remap, Put
<1>4. SetMemResult(s, p, m, [s EXCEPT !.free = a, !.proc[p].sz = b, !.proc[p].pt = c])
  BY <1>3 DEF SetMemResult
<1> QED BY <1>2, <1>4

MemResult(s, p, m) ==
  /\ Own(m) /\ m.free = s.free /\ m.sz = s.proc[p].sz /\ m.pt = s.proc[p].pt
  /\ MemSum(m) = s.free + Cardinality(DOMAIN s.proc[p].pt)
  /\ IsProc(s.proc[p]) /\ s.free \in Nat /\ s.proc[p].sz \in Nat
  /\ Cardinality(DOMAIN s.proc[p].pt) \in Nat

(* The memory of a process.                                                *)
LEMMA MemOf ==
  ASSUME NEW s, NEW x, NEW y, NEW t, Fine(s, x, y, t), s.panic = "",
         NEW p \in Slots
  PROVE  MemResult(s, p, Mem(s, p))
<1>1. Procs0(s.proc) /\ s.free \in Nat
  BY DEF Fine, Others, Pages0
<1>2. IsProc(s.proc[p])
      /\ DOMAIN s.proc[p].pt \subseteq 0 .. PGROUNDUP(s.proc[p].sz) - 1
  BY <1>1 DEF Procs0
<1>6. s.proc[p].sz \in Nat
  BY <1>2 DEF IsProc
<1> DEFINE z == s.proc[p].sz
           pt == s.proc[p].pt
           f == s.free
<1>3. PGROUNDUP(z) \in Nat
  <2>1. z \in Nat /\ z \in Int
    <3>1. z \in Nat
      BY <1>6
    <3> HIDE DEF z
    <3> QED BY ONLY <3>1
  <2> QED BY ONLY <2>1, RoundUpIs
<1> DEFINE m == Mem(s, p)
<1>4. m = [free |-> f, sz |-> z, pt |-> pt]
  BY DEF Mem
<1>7. Cardinality(DOMAIN pt) \in Nat
  BY <1>1, PagesOf
<1>8. f \in Nat /\ z \in Nat /\ DOMAIN pt \subseteq 0 .. PGROUNDUP(z) - 1
  BY <1>1, <1>2, <1>6
<1> HIDE DEF m, f, z, pt
<1>5. m.free = f /\ m.sz = z /\ m.pt = pt
      /\ m = [free |-> m.free, sz |-> m.sz, pt |-> m.pt]
  BY ONLY <1>4
<1>9. Own(m) /\ MemSum(m) = f + Cardinality(DOMAIN pt)
  BY ONLY <1>3, <1>5, <1>8 DEF Own, IsMem, MemSum
<1> QED BY <1>1, <1>2, <1>5, <1>7, <1>8, <1>9 DEF m, f, z, pt, MemResult

(* The state with the memory put back.                                     *)
LEMMA SetMemory ==
  ASSUME NEW r, IsProc(r), NEW z \in Nat, NEW v, NEW q,
         q = Remap(r, z, v)
  PROVE  /\ IsProc(q) /\ q.st = r.st /\ q.cwd = r.cwd /\ q.fd = r.fd
         /\ q.sz = z /\ q.pt = v /\ q.pid = r.pid /\ q.done = r.done
         /\ q.code = r.code /\ q.buf = r.buf
<1>1. r = [n \in ProcFields |-> r[n]]
  BY DEF IsProc
<1>5. q = [r EXCEPT !.sz = z, !.pt = v]
  BY DEF Remap
<1>2. q = [n \in ProcFields |-> q[n]]
  BY ONLY <1>1, <1>5
<1>3. q.st = r.st /\ q.cwd = r.cwd /\ q.fd = r.fd
      /\ q.sz = z /\ q.pt = v /\ q.pid = r.pid /\ q.done = r.done
      /\ q.code = r.code /\ q.buf = r.buf
  BY ONLY <1>1, <1>5 DEF ProcFields
<1>4. IsProc(q)
  BY <1>2, <1>3 DEF IsProc
<1> QED BY <1>3, <1>4

(* It is fine.                                                             *)
LEMMA SetMemFine ==
  ASSUME NEW s, NEW x, NEW y, NEW t \in Nat, Fine(s, x, y, t), s.panic = "",
         NEW p \in Slots, s.proc[p].st # "unused", NEW m, Own(m), NEW u \in Nat,
         MemSum(m) + u = MemSum(Mem(s, p)) + t
  PROVE  Fine(SetMem(s, p, m), x, y, u)
<1> DEFINE r == SetMem(s, p, m)
           q == Remap(s.proc[p], m.sz, m.pt)
           c == Cardinality(DOMAIN s.proc[p].pt)
           d == Cardinality(DOMAIN m.pt)
<1>1. IsK(s)
  BY DEF Fine, FsOk
<1>2. SetMemResult(s, p, m, r)
  BY <1>1, SetMemIs
<1>3. MemResult(s, p, Mem(s, p))
  BY MemOf
<1>4. /\ m.free \in Nat /\ m.sz \in Nat
      /\ DOMAIN m.pt \subseteq 0 .. PGROUNDUP(m.sz) - 1
      /\ IsFiniteSet(DOMAIN m.pt) /\ d \in Nat
      /\ MemSum(m) = m.free + d
  BY MemIs DEF Own, IsMem, MemSum
<1>5. /\ IsProc(q) /\ q.st = s.proc[p].st /\ q.cwd = s.proc[p].cwd
      /\ q.fd = s.proc[p].fd /\ q.sz = m.sz /\ q.pt = m.pt
  <2>1. IsProc(s.proc[p]) /\ m.sz \in Nat
    BY <1>3, <1>4 DEF MemResult
  <2> QED BY ONLY <2>1, SetMemory
<1>6. c \in Nat /\ s.free \in Nat /\ MemSum(Mem(s, p)) = s.free + c
  BY <1>3 DEF MemResult
<1>10. /\ SameFs(s, r) /\ r.free = m.free /\ r.file = s.file
       /\ r.proc = Put(s.proc, p, q)
       /\ r.pipe = s.pipe /\ r.pages = s.pages /\ r.tty = s.tty
  BY <1>2 DEF SetMemResult
<1> HIDE DEF r, q, c, d
<1>7. m.free + u + d = s.free + t + c
  <2>1. m.free + d + u = s.free + c + t
    BY <1>4, <1>6
  <2>2. t \in Nat /\ u \in Nat
    OBVIOUS
  <2> QED BY ONLY <1>4, <1>6, <2>1, <2>2
<1>8. DOMAIN q.pt \subseteq 0 .. PGROUNDUP(q.sz) - 1 /\ IsFiniteSet(DOMAIN q.pt)
      /\ d = Cardinality(DOMAIN q.pt)
  BY <1>4, <1>5 DEF d
<1>11. m.free + u + Cardinality(DOMAIN q.pt) =
         s.free + t + Cardinality(DOMAIN s.proc[p].pt)
  BY <1>7, <1>8 DEF c
<1>12. /\ Fine(s, x, y, t) /\ t \in Nat /\ u \in Nat /\ s.panic = "" /\ p \in Slots
       /\ s.proc[p].st # "unused"
  OBVIOUS
<1>9. Fine(r, x, y, u)
  BY ONLY <1>4, <1>5, <1>8, <1>10, <1>11, <1>12, ProcFine
<1> QED BY <1>9 DEF r

-----------------------------------------------------------------------------
(* Nothing in hand; calls that only work on the caller's memory.           *)

(* Nothing is in hand before and after a call.                             *)
X0 == [i \in Inums |-> 0]
Y0 == [f \in Filenums |-> 0]
Idle(s) == Fine(s, X0, Y0, 0)
Ready(s, p) ==
  Idle(s) /\ s.panic = "" /\ p \in Slots /\ s.proc[p].st = "used"

(* Nothing.                                                                *)
LEMMA ZeroIs ==
  X0 \in [Inums -> Nat] /\ Y0 \in [Filenums -> Nat] /\ 0 \in Nat
BY DEF X0, Y0

(* What Ready says.                                                        *)
LEMMA ReadyIs ==
  ASSUME NEW s, NEW p, Ready(s, p)
  PROVE  /\ FsOk(s, X0) /\ IsK(s) /\ s.panic = "" /\ p \in Slots
         /\ s.proc[p].st = "used" /\ s.proc[p].cwd \in Inums
         /\ IsProc(s.proc[p]) /\ Procs0(s.proc) /\ Files0(s.file, s.proc, Y0)
         /\ Pipes(s.file, s.pipe) /\ IsSeq(s.tty) /\ s.free \in Nat
         /\ Others(s, Y0, 0) /\ Fine(s, X0, Y0, 0)
         /\ InUseOnly(s.ino, s.proc, s.file)
         /\ Pages0(s.free, s.proc, s.pipe, s.pages, 0)
<1>1. /\ Fine(s, X0, Y0, 0) /\ s.panic = "" /\ p \in Slots /\ s.proc[p].st = "used"
  BY DEF Ready, Idle
<1>2. FsOk(s, X0) /\ Others(s, Y0, 0)
  BY <1>1 DEF Fine
<1>3. IsK(s) /\ InUseOnly(s.ino, s.proc, s.file)
  BY <1>1, <1>2 DEF FsOk
<1>4. Procs0(s.proc) /\ Files0(s.file, s.proc, Y0) /\ Pipes(s.file, s.pipe)
      /\ IsSeq(s.tty) /\ s.free \in Nat
      /\ Pages0(s.free, s.proc, s.pipe, s.pages, 0)
  BY <1>2 DEF Others, Pages0
<1>5. s.proc[p].cwd \in Inums
  BY <1>1, <1>3 DEF InUseOnly
<1>6. IsProc(s.proc[p])
  BY <1>1, <1>4 DEF Procs0
<1> QED BY <1>1, <1>2, <1>3, <1>4, <1>5, <1>6

(* The return of a call.                                                   *)
LEMMA IdleReturn ==
  ASSUME NEW s, Idle(s), NEW p \in Slots, NEW v
  PROVE  Idle(Return(s, p, v))
BY ReturnFine DEF Idle

(* A call that works on the caller's memory.                               *)
MemKept(s, p, r) ==
  /\ r.file = s.file /\ r.pipe = s.pipe /\ r.tty = s.tty /\ r.ino = s.ino
  /\ r.ref = s.ref /\ r.bfree = s.bfree /\ r.panic = s.panic
  /\ \A q \in Slots : /\ r.proc[q].st = s.proc[q].st /\ r.proc[q].fd = s.proc[q].fd
                      /\ r.proc[q].cwd = s.proc[q].cwd /\ r.proc[q].code = s.proc[q].code
                      /\ r.proc[q].buf = s.proc[q].buf
                      /\ r.proc[q].done = s.proc[q].done

(* A call that has changed the caller's memory.                            *)
LEMMA IdleMem ==
  ASSUME NEW s, NEW p, Ready(s, p), NEW m, Changed(Mem(s, p), m)
  PROVE  /\ Ready(SetMem(s, p, m), p) /\ Idle(SetMem(s, p, m))
         /\ MemKept(s, p, SetMem(s, p, m))
<1> DEFINE r == SetMem(s, p, m)
           q == Remap(s.proc[p], m.sz, m.pt)
<1>1. /\ Fine(s, X0, Y0, 0) /\ s.panic = "" /\ p \in Slots
      /\ s.proc[p].st # "unused" /\ s.proc[p].st = "used" /\ IsK(s)
      /\ IsProc(s.proc[p]) /\ Procs0(s.proc)
  BY ReadyIs
<1>2. Own(m) /\ MemSum(m) + 0 = MemSum(Mem(s, p)) + 0 /\ 0 \in Nat
  BY DEF Changed
<1>3. Fine(r, X0, Y0, 0)
  BY ONLY <1>1, <1>2, SetMemFine
<1>4. SetMemResult(s, p, m, r)
  BY <1>1, SetMemIs
<1>5. m.sz \in Nat
  BY <1>2 DEF Own, IsMem
<1>6. /\ q.st = s.proc[p].st /\ q.cwd = s.proc[p].cwd
      /\ q.fd = s.proc[p].fd /\ q.done = s.proc[p].done
      /\ q.code = s.proc[p].code /\ q.buf = s.proc[p].buf
  <2>1. IsProc(s.proc[p]) /\ m.sz \in Nat
    BY <1>1, <1>5
  <2>2. PICK w : w = q
    OBVIOUS
  <2>3. w = Remap(s.proc[p], m.sz, m.pt)
    BY <2>2
  <2>4. /\ IsProc(w) /\ w.st = s.proc[p].st /\ w.cwd = s.proc[p].cwd
        /\ w.fd = s.proc[p].fd /\ w.done = s.proc[p].done
        /\ w.code = s.proc[p].code /\ w.buf = s.proc[p].buf
    BY ONLY <2>1, <2>3, SetMemory
  <2> QED BY <2>2, <2>4
<1>7. /\ SameFs(s, r) /\ r.file = s.file /\ r.pipe = s.pipe /\ r.tty = s.tty
      /\ r.proc = Put(s.proc, p, q)
  BY <1>4 DEF SetMemResult
<1>8. s.proc = [j \in Slots |-> s.proc[j]]
  BY <1>1 DEF Procs0
<1> HIDE DEF q, r
<1>9. r.proc[p] = q /\ \A j \in Slots : j # p => r.proc[j] = s.proc[j]
  BY <1>1, <1>7, <1>8 DEF Put
<1>10. MemKept(s, p, r)
  <2>1. /\ r.file = s.file /\ r.pipe = s.pipe /\ r.tty = s.tty /\ r.ino = s.ino
        /\ r.ref = s.ref /\ r.bfree = s.bfree /\ r.panic = s.panic
    BY <1>7 DEF SameFs
  <2>2. \A j \in Slots : /\ r.proc[j].st = s.proc[j].st /\ r.proc[j].fd = s.proc[j].fd
                      /\ r.proc[j].cwd = s.proc[j].cwd /\ r.proc[j].code = s.proc[j].code
                      /\ r.proc[j].buf = s.proc[j].buf
                      /\ r.proc[j].done = s.proc[j].done
    BY ONLY <1>6, <1>9
  <2> QED BY ONLY <2>1, <2>2 DEF MemKept
<1>11. Ready(r, p)
  BY <1>1, <1>3, <1>10 DEF MemKept, Ready, Idle
<1> QED BY <1>3, <1>10, <1>11 DEF r, Idle

(* The memory of a process that runs.                                      *)
LEMMA ReadyOwn ==
  ASSUME NEW s, NEW p, Ready(s, p)
  PROVE  Own(Mem(s, p)) /\ MemSum(Mem(s, p)) = MemSum(Mem(s, p))
         /\ Mem(s, p).sz = s.proc[p].sz /\ s.proc[p].sz \in Nat
<1>1. Fine(s, X0, Y0, 0) /\ s.panic = "" /\ p \in Slots
  BY ReadyIs
<1>2. MemResult(s, p, Mem(s, p))
  BY <1>1, MemOf
<1> QED BY <1>2 DEF MemResult

(* A change of the user side.                                              *)
LEMMA IdleUser ==
  ASSUME NEW s, NEW p \in Slots, Idle(s), NEW q, s.panic = "" => User(s.proc[p], q)
  PROVE  Idle([s EXCEPT !.proc = Put(s.proc, p, q)])
BY UserFine DEF Idle, Put

(* What Idle says of one process.                                          *)
LEMMA IdleProc ==
  ASSUME NEW s, NEW p \in Slots, Idle(s), s.panic = ""
  PROVE  IsProc(s.proc[p]) /\ IsK(s) /\ s.proc = [j \in Slots |-> s.proc[j]]
BY DEF Idle, Fine, FsOk, Others, Procs0

(* A process that is killed.                                               *)
LEMMA SetKilled ==
  ASSUME NEW r, IsProc(r), NEW b, NEW q, q = [r EXCEPT !.killed = b]
  PROVE  User(r, q)
<1>1. r = [n \in ProcFields |-> r[n]]
  BY DEF IsProc
<1>2. q = [n \in ProcFields |-> q[n]]
  BY ONLY <1>1, q = [r EXCEPT !.killed = b]
<1>3. /\ q.st = r.st /\ q.cwd = r.cwd /\ q.fd = r.fd /\ q.sz = r.sz
      /\ q.pt = r.pt /\ q.done = r.done /\ q.code = r.code /\ q.buf = r.buf
  BY ONLY <1>1, q = [r EXCEPT !.killed = b] DEF ProcFields
<1> QED BY <1>2, <1>3 DEF User, IsProc

(* Nothing is lost by a kill.                                              *)
LEMMA KillFine ==
  ASSUME NEW s, Idle(s), s.panic = "", NEW p \in Slots
  PROVE  Idle([s EXCEPT !.proc[p].killed = TRUE])
<1> DEFINE q == [s.proc[p] EXCEPT !.killed = TRUE]
<1>1. IsProc(s.proc[p])
  BY IdleProc
<1>2. User(s.proc[p], q)
  BY <1>1, SetKilled
<1>3. Idle([s EXCEPT !.proc = Put(s.proc, p, q)])
  BY <1>2, IdleUser
<1> QED BY <1>3 DEF Put

(* A panic stops the machine, whatever is in hand.                         *)
LEMMA PanicIdle ==
  ASSUME NEW s, Idle(s), NEW what \in Known \ {""}
  PROVE  Idle(Panic(s, what))
<1>1. FsOk(s, X0) /\ X0 \in [Inums -> Nat]
  BY ZeroIs DEF Idle, Fine
<1>2. FsOk(Panic(s, what), X0) /\ Panic(s, what).panic # ""
  BY ONLY <1>1, what \in Known \ {""}, PanicFs
<1> QED BY ONLY <1>2 DEF Idle, Fine

(* The panics of growproc() are known.                                     *)
LEMMA GrowprocWhy ==
  ASSUME NEW m, NEW n
  PROVE  growprocPanics(m, n) \in Known
<1>1. /\ "" \in Known /\ "walk" \in Known /\ "mappages: remap" \in Known
      /\ "kfree" \in Known /\ "trapframe freed" \in Known
  BY DEF Known
<1>2. \A sz : uvmallocPanics(m, m.sz, sz) \in {"", "mappages: remap", "walk"}
  BY DEF uvmallocPanics
<1>3. \A a, b : uvmunmapPanics(a, b) \in {"", "walk", "kfree", "trapframe freed"}
  BY DEF uvmunmapPanics
<1> QED BY <1>1, <1>2, <1>3 DEF growprocPanics

(* An access to the memory, which may fault.                               *)
LEMMA AccessIdle ==
  ASSUME NEW s, NEW p, Ready(s, p), NEW i, NEW write
  PROVE  Idle(Access(s, p, i, write))
<1> DEFINE a == Address(s, p, i.addr)
           v == Page(a)
           m == IF v \in DOMAIN s.proc[p].pt THEN Mem(s, p)
                ELSE vmfault(Mem(s, p), a)
<1>1. Changed(Mem(s, p), m)
  <2>1. Own(Mem(s, p))
    BY ReadyOwn
  <2>2. Changed(Mem(s, p), vmfault(Mem(s, p), a)) /\ Changed(Mem(s, p), Mem(s, p))
    BY <2>1, VmfaultMem DEF Changed
  <2> QED BY <2>2
<1>2. \/ Access(s, p, i, write) = Return(SetMem(s, p, m), p, 0)
      \/ Access(s, p, i, write) = [s EXCEPT !.proc[p].killed = TRUE]
      \/ Access(s, p, i, write) = Panic(s, "walk")
  BY DEF Access
<1> HIDE DEF m
<1>3. Idle(Return(SetMem(s, p, m), p, 0))
  BY <1>1, IdleMem, IdleReturn, ReadyIs
<1>4. Idle([s EXCEPT !.proc[p].killed = TRUE])
  BY KillFine DEF Ready
<1>5. Idle(Panic(s, "walk"))
  BY PanicIdle DEF Ready, Known
<1> QED BY <1>2, <1>3, <1>4, <1>5

(* kill() leaves nothing in hand.                                          *)
LEMMA KkillIdle ==
  ASSUME NEW s, Idle(s), s.panic = "", NEW pid
  PROVE  Idle(kkill(s, pid).k)
<1> DEFINE victims == {q \in Slots : s.proc[q].pid = pid}
           q == Min(victims)
<1>1. kkill(s, pid).k = IF victims = {} THEN s
                        ELSE [s EXCEPT !.proc[q].killed = TRUE]
  BY DEF kkill
<1>2. ASSUME victims # {} PROVE q \in Slots
  <2>1. victims \in SUBSET Nat
    <3>1. Slots \subseteq Nat
      <4>1. NPROC \in Nat
        BY SyscallsAssumption
      <4> QED BY ONLY <4>1 DEF Slots
    <3> QED BY <3>1
  <2>2. q \in victims
    <3> HIDE DEF victims
    <3> QED BY <1>2, <2>1, SmallestOf
  <2> QED BY <2>2
<1> HIDE DEF victims, q
<1>3. CASE victims = {}
  <2>1. kkill(s, pid).k = s
    BY ONLY <1>1, <1>3
  <2> QED BY ONLY <2>1, Idle(s)
<1>4. CASE victims # {}
  <2>1. kkill(s, pid).k = [s EXCEPT !.proc[q].killed = TRUE]
    BY ONLY <1>1, <1>4
  <2>2. q \in Slots
    BY ONLY <1>2, <1>4
  <2>3. Idle([s EXCEPT !.proc[q].killed = TRUE])
    BY ONLY <2>2, Idle(s), s.panic = "", KillFine
  <2> QED BY ONLY <2>1, <2>3
<1> QED BY ONLY <1>3, <1>4

(* sbrk() leaves nothing in hand.                                          *)
LEMMA SbrkIdle ==
  ASSUME NEW s, NEW p, Ready(s, p), NEW i, Grows(s, p, i) \in Int
  PROVE  Idle(sys_sbrk(s, p, i))
<1> DEFINE sz == s.proc[p].sz
           n == Grows(s, p, i)
           g == growproc(Mem(s, p), n)
           why == growprocPanics(Mem(s, p), n)
<1>1. sys_sbrk(s, p, i) =
        IF i.lazy /\ n >= 0 THEN Return([s EXCEPT !.proc[p].sz = @ + n], p, sz)
        ELSE IF why # "" THEN Panic(s, why)
        ELSE Return(SetMem(s, p, g.mem), p, IF g.ok THEN sz ELSE -1)
  BY DEF sys_sbrk
<1>2. CASE i.lazy /\ n >= 0
  <2> DEFINE q == [s.proc[p] EXCEPT !.sz = sz + n]
             r == [s EXCEPT !.proc = Put(s.proc, p, q)]
  <2>1. sys_sbrk(s, p, i) = Return(r, p, sz)
    BY <1>1, <1>2 DEF Put
  <2>2. /\ Fine(s, X0, Y0, 0) /\ s.panic = "" /\ p \in Slots
        /\ s.proc[p].st # "unused" /\ IsK(s) /\ IsProc(s.proc[p]) /\ 0 \in Nat
        /\ s.free \in Nat /\ Procs0(s.proc)
    BY ReadyIs
  <2>3. s.proc[p] = [f \in ProcFields |-> s.proc[p][f]]
    BY <2>2 DEF IsProc
  <2>4. sz \in Nat /\ sz + n \in Nat /\ sz \in Int /\ sz + n \in Int /\ sz <= sz + n
    <3>1. sz \in Nat /\ n \in Int
      BY ReadyOwn
    <3> HIDE DEF sz, n
    <3> QED BY <1>2, <3>1
  <2> HIDE DEF sz, n
  <2>5. q = [f \in ProcFields |-> q[f]]
    BY ONLY <2>3
  <2>6. /\ q.st = s.proc[p].st /\ q.cwd = s.proc[p].cwd /\ q.fd = s.proc[p].fd
        /\ q.sz = sz + n /\ q.pt = s.proc[p].pt /\ q.done = s.proc[p].done
        /\ q.code = s.proc[p].code /\ q.buf = s.proc[p].buf
    BY ONLY <2>3 DEF ProcFields
  <2>7. IsProc(q)
    <3> HIDE DEF q
    <3> QED BY <2>2, <2>4, <2>5, <2>6 DEF IsProc
  <2> HIDE DEF q
  <2>8. DOMAIN q.pt \subseteq 0 .. PGROUNDUP(q.sz) - 1 /\ IsFiniteSet(DOMAIN q.pt)
    <3>1. PGROUNDUP(sz) \in Int /\ PGROUNDUP(sz + n) \in Int
      BY <2>4, RoundUpIs
    <3>2. PGROUNDUP(sz) <= PGROUNDUP(sz + n)
      <4>1. sz + PGSIZE - 1 <= sz + n + PGSIZE - 1 /\ sz + PGSIZE - 1 \in Int
            /\ sz + n + PGSIZE - 1 \in Int /\ PGSIZE \in Nat \ {0}
        <5>1. n \in Int
          BY DEF n
        <5> QED BY <2>4, <5>1 DEF PGSIZE
      <4> QED BY <4>1, DivGrows DEF PGROUNDUP
    <3>3. DOMAIN s.proc[p].pt \subseteq 0 .. PGROUNDUP(sz) - 1
          /\ IsFiniteSet(DOMAIN s.proc[p].pt)
      BY <2>2, PagesOf DEF Procs0, sz
    <3> QED BY <2>6, <3>1, <3>2, <3>3
  <2>9. /\ SameFs(s, r) /\ r.proc = Put(s.proc, p, q) /\ r.file = s.file
        /\ r.pipe = s.pipe /\ r.pages = s.pages /\ r.free = s.free /\ r.tty = s.tty
    BY <2>2, SetProc
  <2>10. s.free + 0 + Cardinality(DOMAIN q.pt) =
           s.free + 0 + Cardinality(DOMAIN s.proc[p].pt)
    BY <2>6
  <2> HIDE DEF r
  <2>11. Fine(r, X0, Y0, 0)
    BY ONLY <2>2, <2>6, <2>7, <2>8, <2>9, <2>10, ProcFine
  <2>12. Idle(r)
    BY <2>11 DEF Idle
  <2> QED BY <2>1, <2>2, <2>12, IdleReturn
<1>3. ASSUME ~(i.lazy /\ n >= 0), why # "" PROVE Idle(sys_sbrk(s, p, i))
  <2>1. why \in Known
    BY GrowprocWhy
  <2>2. Idle(s)
    BY DEF Ready
  <2> HIDE DEF why, g, sz, n
  <2>3. sys_sbrk(s, p, i) = Panic(s, why) /\ why \in Known \ {""}
    BY <1>1, <1>3, <2>1
  <2> QED BY <2>2, <2>3, PanicIdle
<1>4. ASSUME ~(i.lazy /\ n >= 0), why = "" PROVE Idle(sys_sbrk(s, p, i))
  <2>1. Changed(Mem(s, p), g.mem)
    <3>1. Own(Mem(s, p)) /\ n \in Int
      BY ReadyOwn
    <3> HIDE DEF n
    <3> QED BY <3>1, GrowprocMem
  <2>2. Idle(SetMem(s, p, g.mem)) /\ p \in Slots
    BY <2>1, IdleMem, ReadyIs
  <2> HIDE DEF g, sz, why, n
  <2>3. \E v : sys_sbrk(s, p, i) = Return(SetMem(s, p, g.mem), p, v)
    BY <1>1, <1>4
  <2> QED BY <2>2, <2>3, IdleReturn
<1> HIDE DEF why, n
<1> QED BY <1>2, <1>3, <1>4

(* fstat() leaves nothing in hand.                                         *)
LEMMA FstatIdle ==
  ASSUME NEW s, NEW p, Ready(s, p), NEW i, Address(s, p, i.addr) \in Int
  PROVE  Idle(sys_fstat(s, p, i))
<1> DEFINE a == Address(s, p, i.addr)
           out == copyout(Mem(s, p), a, 1)
<1>1. \E v : \/ sys_fstat(s, p, i) = Return(s, p, v)
             \/ sys_fstat(s, p, i) = Return(SetMem(s, p, out.mem), p, v)
  BY DEF sys_fstat
<1>2. Changed(Mem(s, p), out.mem)
  <2>1. Own(Mem(s, p)) /\ a \in Int /\ 1 \in Nat
    BY ReadyOwn
  <2> HIDE DEF a
  <2> QED BY <2>1, ReachMem DEF copyout
<1> HIDE DEF out
<1>3. Idle(SetMem(s, p, out.mem)) /\ p \in Slots /\ Idle(s)
  BY <1>2, IdleMem, ReadyIs DEF Ready
<1> QED BY <1>1, <1>3, IdleReturn

-----------------------------------------------------------------------------
(* Descriptors: one of them takes another file.                            *)

One(a, b) == IF a = b THEN 1 ELSE 0

(* A descriptor takes another file, or none.                               *)
PutFd(r, d, g) == [r EXCEPT !.fd = [r.fd EXCEPT ![d] = g]]

(* A process with another file in a descriptor.                            *)
LEMMA PutFdIs ==
  ASSUME NEW r, IsProc(r), NEW d \in Fds, NEW g \in 0 .. NFILE, NEW q,
         q = PutFd(r, d, g)
  PROVE  /\ IsProc(q) /\ q.st = r.st /\ q.cwd = r.cwd /\ q.sz = r.sz
         /\ q.pt = r.pt /\ q.done = r.done /\ q.code = r.code /\ q.buf = r.buf
         /\ q.fd[d] = g
         /\ \A e \in Fds : e # d => q.fd[e] = r.fd[e]
<1>1. r = [n \in ProcFields |-> r[n]] /\ r.fd \in [Fds -> 0 .. NFILE]
  BY DEF IsProc
<1>2. q = [r EXCEPT !.fd = [r.fd EXCEPT ![d] = g]]
  BY DEF PutFd
<1> DEFINE w == [r.fd EXCEPT ![d] = g]
<1>3. w \in [Fds -> 0 .. NFILE] /\ w[d] = g /\ \A e \in Fds : e # d => w[e] = r.fd[e]
  BY <1>1
<1> HIDE DEF w
<1>4. q = [r EXCEPT !.fd = w]
  BY <1>2 DEF w
<1>5. q = [n \in ProcFields |-> q[n]]
  BY ONLY <1>1, <1>4
<1>6. /\ q.st = r.st /\ q.cwd = r.cwd /\ q.sz = r.sz
      /\ q.pt = r.pt /\ q.done = r.done /\ q.code = r.code /\ q.buf = r.buf
      /\ q.fd = w
  BY ONLY <1>1, <1>4 DEF ProcFields
<1>7. IsProc(q)
  BY <1>3, <1>5, <1>6 DEF IsProc
<1> QED BY <1>3, <1>6, <1>7 DEF w

SameFdsBut(proc, v, p, d) ==
  /\ \A q \in Slots : q # p => v[q].fd = proc[q].fd
  /\ \A e \in Fds : e # d => v[p].fd[e] = proc[p].fd[e]

FdsMoved(proc, v, p, d, f) ==
  LET a == Cardinality(Descriptors(proc, f))
      b == Cardinality(Descriptors(v, f))
  IN /\ a \in Nat /\ b \in Nat
     /\ b + One(proc[p].fd[d], f) = a + One(v[p].fd[d], f)

(* The number of a file's descriptors then.                                *)
LEMMA DescriptorsSet ==
  ASSUME NEW proc, NEW v, NEW p \in Slots, NEW d \in Fds,
         SameFdsBut(proc, v, p, d), NEW f
  PROVE  FdsMoved(proc, v, p, d, f)
<1> DEFINE S == Descriptors(proc, f)
           T == Descriptors(v, f)
           a == <<p, d>>
<1>1. IsFiniteSet(S)
  <2>1. IsFiniteSet(Slots \X Fds)
    BY SetsFinite, FS_Product
  <2>2. S \subseteq Slots \X Fds
    BY DEF Descriptors
  <2> QED BY <2>1, <2>2, FS_Subset
<1>2. a \in S <=> proc[p].fd[d] = f
  BY DEF Descriptors
<1>3. a \in T <=> v[p].fd[d] = f
  BY DEF Descriptors
<1>4. S \ {a} = T \ {a}
  <2>1. ASSUME NEW z \in Slots \X Fds, z # a
        PROVE  v[z[1]].fd[z[2]] = proc[z[1]].fd[z[2]]
    <3>1. z = <<z[1], z[2]>> /\ z[1] \in Slots /\ z[2] \in Fds
      OBVIOUS
    <3>2. z[1] # p \/ z[2] # d
      BY <2>1, <3>1
    <3> QED BY <3>1, <3>2 DEF SameFdsBut
  <2> QED BY <2>1 DEF Descriptors
<1> HIDE DEF S, T, a
<1>5. /\ IsFiniteSet(T) /\ Cardinality(S) \in Nat /\ Cardinality(T) \in Nat
      /\ Cardinality(T) + (IF a \in S THEN 1 ELSE 0) =
           Cardinality(S) + (IF a \in T THEN 1 ELSE 0)
  BY <1>1, <1>4, OnePoint
<1>6. One(proc[p].fd[d], f) = (IF a \in S THEN 1 ELSE 0)
      /\ One(v[p].fd[d], f) = (IF a \in T THEN 1 ELSE 0)
  BY <1>2, <1>3 DEF One
<1> QED BY <1>5, <1>6 DEF S, T, FdsMoved

(* Both sides of the account.                                              *)
LEMMA Balance ==
  ASSUME NEW c \in Nat, NEW e \in Nat, NEW a \in Int, NEW b \in Int,
         NEW m \in Int, NEW n \in Int, c + m = e + n, b + n = a + m
  PROVE  c + b = e + a
OBVIOUS

(* One or none.                                                            *)
LEMMA OneType ==
  ASSUME NEW a, NEW b
  PROVE  One(a, b) \in Int /\ One(a, b) \in Nat
BY DEF One

(* A descriptor takes another file and what is in hand makes up for it.    *)
LEMMA FdFine ==
  ASSUME NEW s, NEW x, NEW y \in [Filenums -> Int], NEW t, Fine(s, x, y, t),
         s.panic = "", NEW p \in Slots, s.proc[p].st = "used", NEW d \in Fds,
         NEW g \in 0 .. NFILE, NEW z \in [Filenums -> Int],
         \A f \in Filenums :
           z[f] + One(g, f) = y[f] + One(s.proc[p].fd[d], f)
  PROVE  Fine([s EXCEPT !.proc = Put(s.proc, p, PutFd(s.proc[p], d, g))], x, z, t)
<1> DEFINE q == PutFd(s.proc[p], d, g)
           v == Put(s.proc, p, q)
           r == [s EXCEPT !.proc = v]
<1>1. FsOk(s, x) /\ Others(s, y, t) /\ IsK(s)
  BY DEF Fine, FsOk
<1>2. s.proc = [j \in Slots |-> s.proc[j]] /\ Procs0(s.proc)
      /\ \A j \in Slots : IsProc(s.proc[j])
  BY <1>1 DEF Others, Procs0
<1>3. /\ IsProc(q) /\ q.st = s.proc[p].st /\ q.cwd = s.proc[p].cwd
      /\ q.sz = s.proc[p].sz /\ q.pt = s.proc[p].pt /\ q.fd[d] = g
      /\ \A e \in Fds : e # d => q.fd[e] = s.proc[p].fd[e]
  <2>1. PICK w : w = q
    OBVIOUS
  <2>2. w = PutFd(s.proc[p], d, g) /\ IsProc(s.proc[p]) /\ d \in Fds
        /\ g \in 0 .. NFILE
    BY <1>2, <2>1
  <2>3. /\ IsProc(w) /\ w.st = s.proc[p].st /\ w.cwd = s.proc[p].cwd
        /\ w.sz = s.proc[p].sz /\ w.pt = s.proc[p].pt /\ w.fd[d] = g
        /\ \A e \in Fds : e # d => w.fd[e] = s.proc[p].fd[e]
    BY ONLY <2>2, PutFdIs
  <2> QED BY <2>1, <2>3
<1>4. /\ SameFs(s, r) /\ r.proc = v /\ r.file = s.file /\ r.pipe = s.pipe
      /\ r.pages = s.pages /\ r.free = s.free /\ r.tty = s.tty
  <2>1. r = [s EXCEPT !.proc = v]
    OBVIOUS
  <2> HIDE DEF q, v, r
  <2> QED BY ONLY <1>1, <2>1, SetProcOf
<1> HIDE DEF q, r
<1>5. v = [j \in Slots |-> v[j]] /\ v[p] = q /\ \A j \in Slots : j # p => v[j] = s.proc[j]
  BY <1>2 DEF Put
<1> HIDE DEF v
<1>6. \A j \in Slots : /\ v[j].st = s.proc[j].st /\ v[j].cwd = s.proc[j].cwd
                       /\ v[j].pt = s.proc[j].pt /\ v[j].sz = s.proc[j].sz
  BY ONLY <1>3, <1>5
<1>7. \A i : Cwds(v, i) = Cwds(s.proc, i)
  BY ONLY <1>6 DEF Cwds
<1>8. Taken(v) = Taken(s.proc) /\ Mapped(v) = Mapped(s.proc)
  BY ONLY <1>6 DEF Taken, Mapped
<1>9. Procs0(v)
  <2>1. \A j \in Slots : IsProc(v[j])
    BY <1>2, <1>3, <1>5
  <2>2. \A j \in Slots :
          /\ DOMAIN s.proc[j].pt \subseteq 0 .. PGROUNDUP(s.proc[j].sz) - 1
          /\ s.proc[j].st = "unused" => DOMAIN s.proc[j].pt = {}
          /\ s.proc[j].st # "used" => \A e \in Fds : s.proc[j].fd[e] = 0
    BY <1>2 DEF Procs0
  <2>3. \A j \in Slots :
          /\ DOMAIN v[j].pt \subseteq 0 .. PGROUNDUP(v[j].sz) - 1
          /\ v[j].st = "unused" => DOMAIN v[j].pt = {}
    BY ONLY <2>2, <1>6
  <2>4. \A j \in Slots : v[j].st # "used" => \A e \in Fds : v[j].fd[e] = 0
    <3>1. TAKE j \in Slots
    <3>2. HAVE v[j].st # "used"
    <3>3. s.proc[j].st # "used"
      BY <1>6, <3>2
    <3>4. j # p
      BY <3>3
    <3>5. v[j] = s.proc[j] /\ \A e \in Fds : s.proc[j].fd[e] = 0
      BY <1>5, <2>2, <3>3, <3>4
    <3> QED BY ONLY <3>5
  <2> QED BY <1>5, <2>1, <2>3, <2>4 DEF Procs0
<1>10. FsOk(r, x)
  <2>1. Refs(r.ref, v, r.file, x)
    <3>1. r.file = s.file /\ r.ref = s.ref /\ Refs(s.ref, s.proc, s.file, x)
      BY <1>1, <1>4 DEF FsOk, SameFs
    <3> QED BY ONLY <3>1, <1>7 DEF Refs
  <2>2. InUseOnly(r.ino, v, r.file)
    <3>1. r.file = s.file /\ r.ino = s.ino /\ InUseOnly(s.ino, s.proc, s.file)
      BY <1>1, <1>4 DEF FsOk, SameFs
    <3> QED BY ONLY <3>1, <1>6 DEF InUseOnly
  <2> QED BY <1>1, <1>4, <2>1, <2>2 DEF FsOk, SameFs
<1>11. Files0(r.file, v, z)
  <2>1. Files0(s.file, s.proc, y)
    BY <1>1 DEF Others
  <2>2. ASSUME NEW f \in Filenums
        PROVE  s.file[f].ref = Cardinality(Descriptors(v, f)) + z[f]
    <3>1. /\ Cardinality(Descriptors(s.proc, f)) \in Nat
          /\ Cardinality(Descriptors(v, f)) \in Nat
          /\ Cardinality(Descriptors(v, f)) + One(s.proc[p].fd[d], f) =
               Cardinality(Descriptors(s.proc, f)) + One(v[p].fd[d], f)
      <4>1. \A j \in Slots : j # p => v[j].fd = s.proc[j].fd
        BY <1>5
      <4>2. \A e \in Fds : e # d => v[p].fd[e] = s.proc[p].fd[e]
        BY <1>3, <1>5
      <4>3. p \in Slots /\ d \in Fds /\ SameFdsBut(s.proc, v, p, d)
        BY <4>1, <4>2 DEF SameFdsBut
      <4>4. FdsMoved(s.proc, v, p, d, f)
        BY ONLY <4>3, DescriptorsSet
      <4> QED BY <4>4 DEF FdsMoved
    <3>2. v[p].fd[d] = g
      BY <1>3, <1>5
    <3>3. z[f] + One(g, f) = y[f] + One(s.proc[p].fd[d], f) /\ z[f] \in Int
          /\ y[f] \in Int
      OBVIOUS
    <3>4. One(g, f) \in Int /\ One(s.proc[p].fd[d], f) \in Int
      BY OneType
    <3>5. Cardinality(Descriptors(v, f)) + z[f] =
            Cardinality(Descriptors(s.proc, f)) + y[f]
      BY ONLY <3>1, <3>2, <3>3, <3>4, Balance
    <3>6. s.file[f].ref = Cardinality(Descriptors(s.proc, f)) + y[f]
      BY <2>1 DEF Files0
    <3> QED BY ONLY <3>5, <3>6
  <2> QED BY <1>4, <2>1, <2>2 DEF Files0
<1>12. Others(r, z, t)
  BY <1>1, <1>4, <1>8, <1>9, <1>11 DEF Others, Pages0
<1>13. Fine(r, x, z, t)
  BY <1>10, <1>12 DEF Fine
<1> QED BY <1>13 DEF r, v, q

-----------------------------------------------------------------------------
(* Files: one of them takes another inode, pipe or count.                  *)

(* The inode a file refers to, or 0.                                       *)
Inum(g) == IF g.type \in {"inode", "device"} THEN g.ip ELSE 0

OpenedMoved(file, v, f, i) ==
  LET a == Cardinality(Opened(file, i))
      b == Cardinality(Opened(v, i))
  IN /\ a \in Nat /\ b \in Nat
     /\ b + One(Inum(file[f]), i) = a + One(Inum(v[f]), i)
SameFilesBut(file, v, f) == \A e \in Filenums : e # f => v[e] = file[e]

(* The number of an inode's files when one file changes.                   *)
LEMMA OpenedSet ==
  ASSUME NEW file, NEW v, NEW f \in Filenums, SameFilesBut(file, v, f),
         NEW i \in Inums
  PROVE  OpenedMoved(file, v, f, i)
<1> DEFINE S == Opened(file, i)
           T == Opened(v, i)
<1>0. i # 0
  BY InumsIs
<1>1. IsFiniteSet(S)
  BY CountTypes
<1>2. f \in S <=> Inum(file[f]) = i
  BY <1>0 DEF Opened, Inum
<1>3. f \in T <=> Inum(v[f]) = i
  BY <1>0 DEF Opened, Inum
<1>4. S \ {f} = T \ {f}
  BY DEF SameFilesBut, Opened
<1> HIDE DEF S, T
<1>5. /\ IsFiniteSet(T) /\ Cardinality(S) \in Nat /\ Cardinality(T) \in Nat
      /\ Cardinality(T) + (IF f \in S THEN 1 ELSE 0) =
           Cardinality(S) + (IF f \in T THEN 1 ELSE 0)
  BY <1>1, <1>4, OnePoint
<1>6. One(Inum(file[f]), i) = (IF f \in S THEN 1 ELSE 0)
      /\ One(Inum(v[f]), i) = (IF f \in T THEN 1 ELSE 0)
  BY <1>2, <1>3 DEF One
<1> QED BY <1>5, <1>6 DEF S, T, OpenedMoved

(* Both sides of that account.                                             *)
LEMMA Balance2 ==
  ASSUME NEW r, NEW c \in Nat, NEW a \in Nat, NEW b \in Nat, NEW x \in Int,
         NEW w \in Int, NEW m \in Int, NEW n \in Int, r = c + a + x,
         b + m = a + n, w + n = x + m
  PROVE  r = c + b + w
<1>1. b + w = a + x
  OBVIOUS
<1> QED BY <1>1

(* May file g be what is open, with the inodes as they are?                *)
Openable(ino, g) ==
  g.type \in {"inode", "device"} =>
    /\ g.ip \in Inums /\ ino[g.ip].type # "free"
    /\ g.type = "inode" /\ g.w => ino[g.ip].type # "dir"

(* A file takes another inode and what is in hand makes up for it.         *)
LEMMA FileFine ==
  ASSUME NEW s, NEW x, NEW y \in [Filenums -> Int], NEW t, Fine(s, x, y, t),
         s.panic = "", NEW f \in Filenums, NEW g, IsFile(g),
         g.ref = 0 => g.type = "none", Openable(s.ino, g),
         NEW z \in [Filenums -> Int], z[f] + s.file[f].ref = y[f] + g.ref,
         \A e \in Filenums : e # f => z[e] = y[e],
         NEW w \in [Inums -> Nat],
         \A i \in Inums : w[i] + One(Inum(g), i) = x[i] + One(Inum(s.file[f]), i),
         NEW r, SameFs(s, r), r.file = Put(s.file, f, g), r.proc = s.proc,
         r.tty = s.tty, NEW u, Pipes(r.file, r.pipe),
         Pages0(r.free, r.proc, r.pipe, r.pages, u)
  PROVE  Fine(r, w, z, u)
<1> DEFINE v == Put(s.file, f, g)
<1>1. FsOk(s, x) /\ Others(s, y, t) /\ x \in [Inums -> Nat]
  BY DEF Fine, FsOk
<1>2. s.file = [j \in Filenums |-> s.file[j]] /\ Files0(s.file, s.proc, y)
  BY <1>1 DEF Others, Files0
<1>3. v = [j \in Filenums |-> v[j]] /\ v[f] = g
      /\ \A j \in Filenums : j # f => v[j] = s.file[j]
  BY <1>2 DEF Put
<1>4. r.file = v
  OBVIOUS
<1> HIDE DEF v
<1>5. Files0(v, s.proc, z)
  <2>1. \A j \in Filenums : IsFile(v[j])
    BY <1>2, <1>3 DEF Files0
  <2>2. \A j \in Filenums : v[j].ref = 0 => v[j].type = "none"
    BY <1>2, <1>3 DEF Files0
  <2>3. ASSUME NEW j \in Filenums
        PROVE  v[j].ref = Cardinality(Descriptors(s.proc, j)) + z[j]
    <3>1. s.file[j].ref = Cardinality(Descriptors(s.proc, j)) + y[j]
      BY <1>2 DEF Files0
    <3>2. CASE j # f
      BY ONLY <1>3, <3>1, <3>2, \A e \in Filenums : e # f => z[e] = y[e], j \in Filenums
    <3>3. CASE j = f
      <4> DEFINE c == Cardinality(Descriptors(s.proc, f))
      <4>1. c \in Nat
        <5>1. IsFiniteSet(Slots \X Fds)
          BY SetsFinite, FS_Product
        <5>2. Descriptors(s.proc, f) \subseteq Slots \X Fds
          BY DEF Descriptors
        <5> QED BY <5>1, <5>2, FS_Subset, FS_CardinalityType
      <4>2. z[f] \in Int /\ y[f] \in Int
        OBVIOUS
      <4>3. s.file[f].ref = c + y[f]
        BY <3>1, <3>3
      <4>4. g.ref \in Nat
        BY DEF IsFile
      <4> HIDE DEF c
      <4>5. g.ref = c + z[f]
        <5>1. z[f] + s.file[f].ref = y[f] + g.ref
          OBVIOUS
        <5>2. z[f] + (c + y[f]) = y[f] + g.ref
          BY <4>3, <5>1
        <5> QED BY ONLY <4>1, <4>2, <4>4, <5>2
      <4> QED BY <1>3, <3>3, <4>5 DEF c
    <3> QED BY <3>2, <3>3
  <2> QED BY <1>3, <2>1, <2>2, <2>3 DEF Files0
<1>6. FsOk(r, w)
  <2>1. Refs(s.ref, s.proc, v, w)
    <3>1. Refs(s.ref, s.proc, s.file, x)
      BY <1>1 DEF FsOk
    <3>2. ASSUME NEW i \in Inums
          PROVE  s.ref[i] = Cardinality(Cwds(s.proc, i)) + Cardinality(Opened(v, i)) + w[i]
      <4>1. SameFilesBut(s.file, v, f)
        BY <1>3 DEF SameFilesBut
      <4>2. OpenedMoved(s.file, v, f, i)
        BY <4>1, OpenedSet
      <4> DEFINE a == Cardinality(Opened(s.file, i))
                 b == Cardinality(Opened(v, i))
                 c == Cardinality(Cwds(s.proc, i))
                 m == One(Inum(s.file[f]), i)
                 n == One(Inum(g), i)
      <4>3. a \in Nat /\ b \in Nat /\ b + m = a + n
        BY <1>3, <4>2 DEF OpenedMoved
      <4>4. c \in Nat
        BY CountTypes
      <4>5. s.ref[i] = c + a + x[i]
        BY <3>1 DEF Refs
      <4>9. w[i] + One(Inum(g), i) = x[i] + One(Inum(s.file[f]), i)
        OBVIOUS
      <4>6. w[i] + n = x[i] + m /\ w[i] \in Int /\ x[i] \in Int
        <5>2. w \in [Inums -> Nat] /\ x \in [Inums -> Nat] /\ i \in Inums
          BY <1>1
        <5>1. w[i] \in Int /\ x[i] \in Int
          BY ONLY <5>2
        <5> QED BY ONLY <4>9, <5>1 DEF m, n
      <4>7. m \in Int /\ n \in Int
        BY OneType
      <4> HIDE DEF a, b, c, m, n
      <4>8. s.ref[i] = c + b + w[i]
        BY ONLY <4>3, <4>4, <4>5, <4>6, <4>7, Balance2
      <4> QED BY <4>8 DEF b, c
    <3> QED BY <3>1, <3>2 DEF Refs
  <2>2. InUseOnly(s.ino, s.proc, v)
    <3>1. InUseOnly(s.ino, s.proc, s.file)
      BY <1>1 DEF FsOk
    <3>2. Openable(s.ino, g)
      OBVIOUS
    <3>3. \A j \in Filenums : j = f \/ v[j] = s.file[j]
      BY <1>3
    <3>4. \A j \in Filenums : Openable(s.ino, s.file[j])
      BY ONLY <3>1 DEF InUseOnly, Openable
    <3>5. \A j \in Filenums : Openable(s.ino, v[j])
      BY <1>3, <3>2, <3>4
    <3> QED BY ONLY <3>1, <3>5 DEF InUseOnly, Openable
  <2>3. /\ IsK(r) /\ r.ino = s.ino /\ r.bfree = s.bfree /\ r.ref = s.ref
        /\ r.panic = s.panic /\ r.file = v /\ r.proc = s.proc
    BY <1>4 DEF SameFs
  <2>4. /\ Disk(s.ino, s.bfree) /\ s.ref \in [Inums -> Int] /\ s.panic \in Known
        /\ w \in [Inums -> Nat]
    BY <1>1 DEF FsOk
  <2> QED BY ONLY <2>1, <2>2, <2>3, <2>4 DEF FsOk
<1>7. Others(r, z, u)
  <2>1. IsSeq(s.tty) /\ Procs0(s.proc)
    BY <1>1 DEF Others
  <2> QED BY <1>4, <1>5, <2>1 DEF Others
<1> QED BY <1>6, <1>7 DEF Fine

(* Pipes depend on the ends that files are.                                *)
LEMMA PipesSame ==
  ASSUME NEW file, NEW v, NEW pipe, Pipes(file, pipe),
         \A f \in Filenums :
           /\ (v[f].type = "pipe") <=> (file[f].type = "pipe")
           /\ v[f].type = "pipe" =>
                v[f].pipe = file[f].pipe /\ v[f].w = file[f].w
  PROVE  Pipes(v, pipe)
<1>1. \A q, b : EndFiles(v, q, b) = EndFiles(file, q, b)
  BY DEF EndFiles
<1>2. /\ DOMAIN pipe \subseteq Filenums
      /\ \A q \in DOMAIN pipe :
           /\ IsPipe(pipe[q]) /\ (pipe[q].readopen \/ pipe[q].writeopen)
           /\ pipe[q].readopen = (EndFiles(v, q, FALSE) # {})
           /\ pipe[q].writeopen = (EndFiles(v, q, TRUE) # {})
  <2>1. DOMAIN pipe \subseteq Filenums
    BY DEF Pipes
  <2>2. ASSUME NEW q \in DOMAIN pipe
        PROVE  /\ IsPipe(pipe[q]) /\ (pipe[q].readopen \/ pipe[q].writeopen)
               /\ pipe[q].readopen = (EndFiles(v, q, FALSE) # {})
               /\ pipe[q].writeopen = (EndFiles(v, q, TRUE) # {})
    <3>1. EndFiles(v, q, FALSE) = EndFiles(file, q, FALSE)
          /\ EndFiles(v, q, TRUE) = EndFiles(file, q, TRUE)
      BY <1>1
    <3>2. /\ IsPipe(pipe[q]) /\ (pipe[q].readopen \/ pipe[q].writeopen)
          /\ pipe[q].readopen = (EndFiles(file, q, FALSE) # {})
          /\ pipe[q].writeopen = (EndFiles(file, q, TRUE) # {})
      BY DEF Pipes
    <3> QED BY ONLY <3>1, <3>2, Zenon
  <2> QED BY <2>1, <2>2
<1>3. \A f \in Filenums : v[f].type = "pipe" => v[f].pipe \in DOMAIN pipe
  BY DEF Pipes
<1>4. \A f, g \in Filenums :
       v[f].type = "pipe" /\ v[g].type = "pipe" /\
       v[f].pipe = v[g].pipe /\ v[f].w = v[g].w => f = g
  BY DEF Pipes
<1> QED BY <1>2, <1>3, <1>4 DEF Pipes

-----------------------------------------------------------------------------
(* Files: filedup() and other changes that leave a file what it is.        *)

NoInum(g) == g.type \notin {"inode", "device"}

PutFile(s, f, g) == [s EXCEPT !.file = Put(s.file, f, g)]
SameKind(h, g) ==
  g.type = h.type /\ g.ip = h.ip /\ g.pipe = h.pipe /\ g.w = h.w
(* The references in hand when a count goes from a to b.                   *)
Recount(y, z, f, a, b) ==
  z[f] + a = y[f] + b /\ \A e \in Filenums : e # f => z[e] = y[e]

KindStep(s, x, y, t, f, g, z) ==
  /\ y \in [Filenums -> Int] /\ z \in [Filenums -> Int]
  /\ Fine(s, x, y, t) /\ s.panic = "" /\ f \in Filenums /\ IsFile(g)
  /\ g.ref = 0 => g.type = "none"
  /\ SameKind(s.file[f], g) /\ Recount(y, z, f, s.file[f].ref, g.ref)

(* A file whose count or offset changed.                                   *)
LEMMA KindFine ==
  ASSUME NEW s, NEW x, NEW y, NEW t, NEW f, NEW g, NEW z,
         KindStep(s, x, y, t, f, g, z), NEW r, r = PutFile(s, f, g)
  PROVE  Fine(r, x, z, t)
<1>20. /\ y \in [Filenums -> Int] /\ z \in [Filenums -> Int]
       /\ Fine(s, x, y, t) /\ s.panic = "" /\ f \in Filenums /\ IsFile(g)
       /\ g.ref = 0 => g.type = "none"
       /\ SameKind(s.file[f], g) /\ Recount(y, z, f, s.file[f].ref, g.ref)
  BY DEF KindStep
<1> USE <1>20
<1> DEFINE v == Put(s.file, f, g)
<1>1. FsOk(s, x) /\ Others(s, y, t) /\ IsK(s) /\ x \in [Inums -> Nat]
  BY DEF Fine, FsOk
<1>2. s.file = [j \in Filenums |-> s.file[j]]
  BY <1>1 DEF Others, Files0
<1>3. /\ SameFs(s, r) /\ r.proc = s.proc /\ r.file = v
      /\ r.pipe = s.pipe /\ r.pages = s.pages /\ r.free = s.free
      /\ r.tty = s.tty
  <2>1. r = [s EXCEPT !.file = v]
    BY DEF PutFile
  <2> HIDE DEF v
  <2> QED BY ONLY <1>1, <2>1, SetFile
<1>4. v[f] = g /\ \A j \in Filenums : j # f => v[j] = s.file[j]
  BY <1>2 DEF Put
<1>5. Openable(s.ino, g)
  <2>1. InUseOnly(s.ino, s.proc, s.file)
    BY <1>1 DEF FsOk
  <2> QED BY <2>1 DEF InUseOnly, Openable, SameKind
<1>6. Pipes(v, s.pipe)
  <2>1. Pipes(s.file, s.pipe)
    BY <1>1 DEF Others
  <2>2. \A j \in Filenums :
           /\ (v[j].type = "pipe") <=> (s.file[j].type = "pipe")
           /\ v[j].type = "pipe" =>
                v[j].pipe = s.file[j].pipe /\ v[j].w = s.file[j].w
    BY <1>4 DEF SameKind
  <2> HIDE DEF v
  <2> QED BY ONLY <2>1, <2>2, PipesSame
<1>7. \A i \in Inums : x[i] + One(Inum(g), i) = x[i] + One(Inum(s.file[f]), i)
  <2>1. Inum(g) = Inum(s.file[f])
    BY DEF Inum, SameKind
  <2> QED BY <2>1
<1>8. Pages0(r.free, r.proc, r.pipe, r.pages, t)
  BY <1>1, <1>3 DEF Others
<1>9. Pipes(r.file, r.pipe) /\ r.file = Put(s.file, f, g)
  BY <1>3, <1>6
<1> HIDE DEF v
<1>10. /\ y \in [Filenums -> Int] /\ Fine(s, x, y, t) /\ s.panic = ""
       /\ f \in Filenums /\ IsFile(g) /\ (g.ref = 0 => g.type = "none")
       /\ z \in [Filenums -> Int] /\ z[f] + s.file[f].ref = y[f] + g.ref
       /\ \A e \in Filenums : e # f => z[e] = y[e]
  BY DEF Recount
<1>11. Fine(r, x, z, t)
  BY ONLY <1>1, <1>3, <1>5, <1>7, <1>8, <1>9, <1>10, FileFine
<1> QED BY <1>11

(* What a change of a file leaves alone.                                   *)
LEMMA PutFileIs ==
  ASSUME NEW s, IsK(s), NEW f, NEW g
  PROVE  PutFile(s, f, g).panic = s.panic /\ PutFile(s, f, g).proc = s.proc
<1> DEFINE v == Put(s.file, f, g)
           r == [s EXCEPT !.file = v]
<1>1. r = PutFile(s, f, g)
  BY DEF PutFile
<1> HIDE DEF v
<1>2. SameFs(s, r) /\ r.proc = s.proc
  BY SetFile
<1> QED BY <1>1, <1>2 DEF SameFs

(* A file with another count.                                              *)
LEMMA SetRefFile ==
  ASSUME NEW h, IsFile(h), NEW n \in Nat, NEW g, g = [h EXCEPT !.ref = n]
  PROVE  IsFile(g) /\ g.ref = n /\ g.type = h.type /\ g.ip = h.ip
         /\ g.pipe = h.pipe /\ g.w = h.w
<1>1. h = [m \in FileFields |-> h[m]]
  BY DEF IsFile
<1>2. g = [m \in FileFields |-> g[m]]
  BY ONLY <1>1, g = [h EXCEPT !.ref = n]
<1>3. /\ g.ref = n /\ g.type = h.type /\ g.ip = h.ip
      /\ g.pipe = h.pipe /\ g.w = h.w /\ g.off = h.off
  BY ONLY <1>1, g = [h EXCEPT !.ref = n] DEF FileFields
<1> QED BY <1>2, <1>3 DEF IsFile

(* A file with another offset.                                             *)
LEMMA SetOffFile ==
  ASSUME NEW h, IsFile(h), NEW n \in Nat, NEW g, g = [h EXCEPT !.off = n]
  PROVE  IsFile(g) /\ g.ref = h.ref /\ g.type = h.type /\ g.ip = h.ip
         /\ g.pipe = h.pipe /\ g.w = h.w
<1>1. h = [m \in FileFields |-> h[m]]
  BY DEF IsFile
<1>2. g = [m \in FileFields |-> g[m]]
  BY ONLY <1>1, g = [h EXCEPT !.off = n]
<1>3. /\ g.ref = h.ref /\ g.type = h.type /\ g.ip = h.ip
      /\ g.pipe = h.pipe /\ g.w = h.w /\ g.off = n
  BY ONLY <1>1, g = [h EXCEPT !.off = n] DEF FileFields
<1> QED BY <1>2, <1>3 DEF IsFile

(* What Fine says of one file.                                             *)
LEMMA FileIs ==
  ASSUME NEW s, NEW x, NEW y \in [Filenums -> Int], NEW t, Fine(s, x, y, t),
         s.panic = "", NEW f \in Filenums
  PROVE  /\ IsFile(s.file[f]) /\ s.file[f].ref \in Nat
         /\ s.file[f].ref - y[f] \in Nat
         /\ s.file[f].ref = 0 => s.file[f].type = "none"
         /\ s.file = [j \in Filenums |-> s.file[j]] /\ IsK(s)
<1>1. Files0(s.file, s.proc, y) /\ IsK(s)
  BY DEF Fine, FsOk, Others
<1>2. IsFiniteSet(Slots \X Fds)
  BY SetsFinite, FS_Product
<1>3. Descriptors(s.proc, f) \subseteq Slots \X Fds
  BY DEF Descriptors
<1>4. Cardinality(Descriptors(s.proc, f)) \in Nat
  BY <1>2, <1>3, FS_Subset, FS_CardinalityType
<1>5. s.file[f].ref = Cardinality(Descriptors(s.proc, f)) + y[f]
  BY <1>1 DEF Files0
<1>6. IsFile(s.file[f])
  BY <1>1 DEF Files0
<1>8. s.file[f].ref \in Nat
  BY <1>6 DEF IsFile
<1>7. s.file[f].ref - y[f] \in Nat
  <2>1. y[f] \in Int
    OBVIOUS
  <2> QED BY ONLY <1>4, <1>5, <2>1
<1> QED BY <1>1, <1>6, <1>7, <1>8 DEF Files0

(* filedup() takes a reference to the file.                                *)
LEMMA FiledupFine ==
  ASSUME NEW s, NEW x, NEW y \in [Filenums -> Int], NEW t, Fine(s, x, y, t),
         s.panic = "", NEW f \in Filenums
  PROVE  LET r == filedup(s, f)
         IN Fine(r, x, Plus(y, f), t) /\ r.panic = "" /\ r.proc = s.proc
<1> DEFINE n == s.file[f].ref + 1
           g == [s.file[f] EXCEPT !.ref = n]
<1>9. IsFile(s.file[f]) /\ s.file[f].ref \in Nat
  BY FileIs
<1>1. IsFile(s.file[f]) /\ s.file[f].ref \in Nat /\ n \in Nat /\ n # 0
  BY ONLY <1>9 DEF n
<1> HIDE DEF n
<1>2. IsFile(g) /\ g.ref = n /\ g.type = s.file[f].type /\ g.ip = s.file[f].ip
      /\ g.pipe = s.file[f].pipe /\ g.w = s.file[f].w
  <2>1. PICK w : w = g
    OBVIOUS
  <2>2. w = [s.file[f] EXCEPT !.ref = n]
    BY <2>1
  <2>3. IsFile(w) /\ w.ref = n /\ w.type = s.file[f].type /\ w.ip = s.file[f].ip
      /\ w.pipe = s.file[f].pipe /\ w.w = s.file[f].w
    BY ONLY <1>1, <2>2, SetRefFile
  <2> QED BY <2>1, <2>3
<1>3. Plus(y, f) \in [Filenums -> Int] /\ Plus(y, f)[f] = y[f] + 1
      /\ \A e \in Filenums : e # f => Plus(y, f)[e] = y[e]
  <2>1. y[f] + 1 \in Int /\ y \in [Filenums -> Int] /\ f \in Filenums
    BY ONLY y \in [Filenums -> Int], f \in Filenums
  <2> QED BY ONLY <2>1 DEF Plus
<1>4. filedup(s, f) = [s EXCEPT !.file = Put(s.file, f, g)]
  BY DEF filedup, Put, n
<1> HIDE DEF g
<1>5. Plus(y, f)[f] + s.file[f].ref = y[f] + g.ref
  <2>1. y[f] \in Int
    OBVIOUS
  <2>2. g.ref = s.file[f].ref + 1 /\ Plus(y, f)[f] = y[f] + 1
    BY <1>2, <1>3 DEF n
  <2> QED BY ONLY <1>1, <2>1, <2>2
<1> DEFINE z == Plus(y, f)
<1> HIDE DEF z
<1>6. z \in [Filenums -> Int] /\ Recount(y, z, f, s.file[f].ref, g.ref)
  BY <1>3, <1>5 DEF z, Recount
<1>7. (g.ref = 0 => g.type = "none") /\ y \in [Filenums -> Int] /\ Fine(s, x, y, t)
      /\ s.panic = "" /\ f \in Filenums
  BY <1>1, <1>2
<1> DEFINE r == filedup(s, f)
<1> HIDE DEF r
<1>10. r = PutFile(s, f, g)
  BY <1>4 DEF r, PutFile
<1>11. SameKind(s.file[f], g) /\ IsFile(g)
  BY <1>2 DEF SameKind
<1>12. KindStep(s, x, y, t, f, g, z)
  BY ONLY <1>6, <1>7, <1>11 DEF KindStep
<1>13. ASSUME NEW gg, NEW zz, NEW rr, KindStep(s, x, y, t, f, gg, zz),
              rr = PutFile(s, f, gg)
       PROVE  Fine(rr, x, zz, t)
  BY ONLY <1>13, KindFine
<1>8. Fine(r, x, z, t)
  BY ONLY <1>10, <1>12, <1>13
<1>14. IsK(s)
  BY FileIs
<1>15. r.panic = "" /\ r.proc = s.proc
  BY ONLY <1>7, <1>10, <1>14, PutFileIs
<1> QED BY <1>8, <1>15 DEF z, r

(* A free file.                                                            *)
LEMMA NoFileIs ==
  IsFile(NoFile) /\ NoFile.ref = 0 /\ NoFile.type = "none" /\ Inum(NoFile) = 0
<1>1. /\ NoFile.ref = 0 /\ NoFile.type = "none" /\ NoFile.off = 0
      /\ NoFile = [m \in FileFields |-> NoFile[m]]
  BY DEF NoFile, FileFields
<1>2. /\ ~NoFile.r /\ ~NoFile.w /\ NoFile.w \in BOOLEAN
  BY DEF NoFile
<1>3. NoFile.ref \in Nat /\ NoFile.off \in Nat
  BY <1>1
<1> QED BY ONLY <1>1, <1>2, <1>3 DEF IsFile, Inum

-----------------------------------------------------------------------------
(* Files: one that is closed for good, and the end of its pipe.            *)

(* All that changes when slot f of the file table takes g.                 *)
FileStep(s, x, y, t, f, g, w, z, u, r) ==
  /\ y \in [Filenums -> Int] /\ z \in [Filenums -> Int] /\ w \in [Inums -> Nat]
  /\ Fine(s, x, y, t) /\ s.panic = "" /\ f \in Filenums /\ IsFile(g)
  /\ g.ref = 0 => g.type = "none"
  /\ Openable(s.ino, g) /\ Recount(y, z, f, s.file[f].ref, g.ref)
  /\ \A i \in Inums : w[i] + One(Inum(g), i) = x[i] + One(Inum(s.file[f]), i)
  /\ SameFs(s, r) /\ r.file = Put(s.file, f, g) /\ r.proc = s.proc
  /\ r.tty = s.tty /\ Pipes(r.file, r.pipe)
  /\ Pages0(r.free, r.proc, r.pipe, r.pages, u)

(* Such a change keeps a state fine.                                       *)
LEMMA FileStepFine ==
  ASSUME NEW s, NEW x, NEW y, NEW t, NEW f, NEW g, NEW w, NEW z, NEW u, NEW r,
         FileStep(s, x, y, t, f, g, w, z, u, r)
  PROVE  Fine(r, w, z, u)
<1>1. /\ y \in [Filenums -> Int] /\ z \in [Filenums -> Int] /\ w \in [Inums -> Nat]
      /\ Fine(s, x, y, t) /\ s.panic = "" /\ f \in Filenums /\ IsFile(g)
      /\ g.ref = 0 => g.type = "none"
      /\ Openable(s.ino, g)
      /\ \A i \in Inums : w[i] + One(Inum(g), i) = x[i] + One(Inum(s.file[f]), i)
      /\ SameFs(s, r) /\ r.file = Put(s.file, f, g) /\ r.proc = s.proc
      /\ r.tty = s.tty /\ Pipes(r.file, r.pipe)
      /\ Pages0(r.free, r.proc, r.pipe, r.pages, u)
      /\ z[f] + s.file[f].ref = y[f] + g.ref
      /\ \A e \in Filenums : e # f => z[e] = y[e]
  BY DEF FileStep, Recount
<1> QED BY ONLY <1>1, FileFine

(* The pipe of a file.                                                     *)
LEMMA PipeOf ==
  ASSUME NEW file, NEW pipe, Pipes(file, pipe), NEW f \in Filenums,
         file[f].type = "pipe", IsFile(file[f])
  PROVE  /\ file[f].pipe \in DOMAIN pipe /\ file[f].w \in BOOLEAN
         /\ IsPipe(pipe[file[f].pipe]) /\ file[f].pipe \in Filenums
BY DEF Pipes, IsFile

(* A file of a pipe is closed: it was the only one of its end.             *)
LEMMA EndGone ==
  ASSUME NEW file, NEW pipe, Pipes(file, pipe), NEW f \in Filenums,
         file[f].type = "pipe", NEW v, v[f] = NoFile,
         \A e \in Filenums : e # f => v[e] = file[e]
  PROVE  /\ EndFiles(v, file[f].pipe, file[f].w) = {}
         /\ \A q, b : q # file[f].pipe \/ b # file[f].w =>
              EndFiles(v, q, b) = EndFiles(file, q, b)
<1>1. v[f].type # "pipe"
  BY NoFileIs
<1>2. \A e \in Filenums :
        file[e].type = "pipe" /\ file[e].pipe = file[f].pipe /\ file[e].w = file[f].w
          => e = f
  BY DEF Pipes
<1> QED BY <1>1, <1>2 DEF EndFiles

Shut(pi, b) == IF b THEN [pi EXCEPT !.writeopen = FALSE]
               ELSE [pi EXCEPT !.readopen = FALSE]

(* The ends that are open then.                                            *)
LEMMA ShutIs ==
  ASSUME NEW pi, IsPipe(pi), NEW b \in BOOLEAN
  PROVE  /\ IsPipe(Shut(pi, b)) /\ Shut(pi, b).data = pi.data
         /\ Shut(pi, b).readopen = IF b THEN pi.readopen ELSE FALSE
         /\ Shut(pi, b).writeopen = IF b THEN FALSE ELSE pi.writeopen
<1>0. pi = [n \in PipeFields |-> pi[n]]
  BY DEF IsPipe
<1>1. CASE b
  <2>0. PICK r : r = [pi EXCEPT !.writeopen = FALSE]
    OBVIOUS
  <2>1. r = [n \in PipeFields |-> r[n]]
    BY ONLY <1>0, <2>0
  <2>2. r.data = pi.data /\ r.readopen = pi.readopen /\ r.writeopen = FALSE
    BY ONLY <1>0, <2>0 DEF PipeFields
  <2>4. IsPipe(r)
    BY <2>1, <2>2 DEF IsPipe
  <2>5. Shut(pi, b) = r
    BY <1>1, <2>0 DEF Shut
  <2> QED BY <1>1, <2>2, <2>4, <2>5
<1>2. CASE ~b
  <2>0. PICK r : r = [pi EXCEPT !.readopen = FALSE]
    OBVIOUS
  <2>1. r = [n \in PipeFields |-> r[n]]
    BY ONLY <1>0, <2>0
  <2>2. r.data = pi.data /\ r.readopen = FALSE /\ r.writeopen = pi.writeopen
    BY ONLY <1>0, <2>0 DEF PipeFields
  <2>4. IsPipe(r)
    BY <2>1, <2>2 DEF IsPipe
  <2>5. Shut(pi, b) = r
    BY <1>2, <2>0 DEF Shut
  <2> QED BY <1>2, <2>2, <2>4, <2>5
<1> QED BY <1>1, <1>2

-----------------------------------------------------------------------------
(* Pipes: what pipeclose() leaves.                                         *)

PipeGone(pipe, q) == Restrict(pipe, DOMAIN pipe \ {q})

(* A pipe both of whose ends are closed is gone.                           *)
LEMMA PipeGoneIs ==
  ASSUME NEW pipe, NEW q
  PROVE  DOMAIN PipeGone(pipe, q) = DOMAIN pipe \ {q}
         /\ \A p \in DOMAIN pipe \ {q} : PipeGone(pipe, q)[p] = pipe[p]
BY DEF PipeGone, Restrict

(* A function changed at one argument.                                     *)
LEMMA PutIs ==
  ASSUME NEW g, NEW q \in DOMAIN g, NEW e
  PROVE  DOMAIN Put(g, q, e) = DOMAIN g /\ Put(g, q, e)[q] = e
         /\ \A p \in DOMAIN g \ {q} : Put(g, q, e)[p] = g[p]
BY DEF Put

(* What one pipe is, given the files.                                      *)
PipeOk(file, q, e) ==
  /\ IsPipe(e) /\ (e.readopen \/ e.writeopen)
  /\ e.readopen = (EndFiles(file, q, FALSE) # {})
  /\ e.writeopen = (EndFiles(file, q, TRUE) # {})

(* The other pipes.                                                        *)
LEMMA PipeOkSame ==
  ASSUME NEW file, NEW v, NEW q, NEW e, PipeOk(file, q, e),
         EndFiles(v, q, FALSE) = EndFiles(file, q, FALSE),
         EndFiles(v, q, TRUE) = EndFiles(file, q, TRUE)
  PROVE  PipeOk(v, q, e)
<1>1. /\ IsPipe(e) /\ (e.readopen \/ e.writeopen)
      /\ e.readopen = (EndFiles(file, q, FALSE) # {})
      /\ e.writeopen = (EndFiles(file, q, TRUE) # {})
  BY DEF PipeOk
<1>2. /\ IsPipe(e) /\ (e.readopen \/ e.writeopen)
      /\ e.readopen = (EndFiles(v, q, FALSE) # {})
      /\ e.writeopen = (EndFiles(v, q, TRUE) # {})
  BY ONLY <1>1, EndFiles(v, q, FALSE) = EndFiles(file, q, FALSE),
     EndFiles(v, q, TRUE) = EndFiles(file, q, TRUE), Zenon
<1> QED BY <1>2 DEF PipeOk

(* What Pipes says of one pipe.                                            *)
LEMMA PipesAre ==
  ASSUME NEW file, NEW pipe
  PROVE  Pipes(file, pipe) <=>
    /\ DOMAIN pipe \subseteq Filenums
    /\ \A q \in DOMAIN pipe : PipeOk(file, q, pipe[q])
    /\ \A f \in Filenums : file[f].type = "pipe" => file[f].pipe \in DOMAIN pipe
    /\ \A f, g \in Filenums :
       file[f].type = "pipe" /\ file[g].type = "pipe" /\
       file[f].pipe = file[g].pipe /\ file[f].w = file[g].w => f = g
BY DEF Pipes, PipeOk

(* What is left of the pipes when end b of pipe q is closed.               *)
PipeLeft(pipe, q, b) ==
  IF Shut(pipe[q], b).readopen \/ Shut(pipe[q], b).writeopen
  THEN Put(pipe, q, Shut(pipe[q], b)) ELSE PipeGone(pipe, q)

(* The pipes that are left are right.                                      *)
LEMMA PipeLeftIs ==
  ASSUME NEW file, NEW pipe, Pipes(file, pipe), NEW f \in Filenums,
         file[f].type = "pipe", \A e \in Filenums : IsFile(file[e]),
         NEW v, v[f] = NoFile,
         \A e \in Filenums : e # f => v[e] = file[e]
  PROVE  Pipes(v, PipeLeft(pipe, file[f].pipe, file[f].w))
<1> DEFINE q == file[f].pipe
           b == file[f].w
           e == Shut(pipe[q], b)
           new == PipeLeft(pipe, q, b)
<1>1. /\ DOMAIN pipe \subseteq Filenums
      /\ \A p \in DOMAIN pipe : PipeOk(file, p, pipe[p])
      /\ \A j \in Filenums : file[j].type = "pipe" => file[j].pipe \in DOMAIN pipe
      /\ \A j, g \in Filenums :
         file[j].type = "pipe" /\ file[g].type = "pipe" /\
         file[j].pipe = file[g].pipe /\ file[j].w = file[g].w => j = g
  BY PipesAre
<1>2. q \in DOMAIN pipe /\ b \in BOOLEAN /\ IsPipe(pipe[q])
  BY PipeOf
<1>3. /\ EndFiles(v, q, b) = {}
      /\ \A p, c : p # q \/ c # b => EndFiles(v, p, c) = EndFiles(file, p, c)
  BY EndGone
<1>4. v[f].type # "pipe"
  BY NoFileIs
<1>5. /\ IsPipe(e) /\ e.readopen = (IF b THEN pipe[q].readopen ELSE FALSE)
      /\ e.writeopen = (IF b THEN FALSE ELSE pipe[q].writeopen)
  <2> DEFINE pi == pipe[q]
  <2>1. IsPipe(pi) /\ b \in BOOLEAN
    BY <1>2
  <2> HIDE DEF pi, b
  <2>2. /\ IsPipe(Shut(pi, b))
        /\ Shut(pi, b).readopen = (IF b THEN pi.readopen ELSE FALSE)
        /\ Shut(pi, b).writeopen = (IF b THEN FALSE ELSE pi.writeopen)
    BY ONLY <2>1, ShutIs
  <2> QED BY <2>2 DEF pi
<1>6. PipeOk(file, q, pipe[q])
  BY <1>1, <1>2
<1>7. e.readopen \/ e.writeopen => PipeOk(v, q, e)
  <2>1. CASE b
    <3>1. EndFiles(v, q, FALSE) = EndFiles(file, q, FALSE)
      BY <1>3, <2>1
    <3>2. EndFiles(v, q, TRUE) = {}
      <4>1. b = TRUE
        BY <1>2, <2>1
      <4> QED BY <1>3, <4>1
    <3>3. e.readopen = pipe[q].readopen /\ e.writeopen = FALSE
      BY <1>5, <2>1
    <3>4. pipe[q].readopen = (EndFiles(file, q, FALSE) # {})
      BY <1>6 DEF PipeOk
    <3>5. e.readopen = (EndFiles(v, q, FALSE) # {})
      BY ONLY <3>1, <3>3, <3>4, Zenon
    <3>6. e.writeopen = (EndFiles(v, q, TRUE) # {})
      BY ONLY <3>2, <3>3, Zenon
    <3> QED BY <1>5, <3>5, <3>6 DEF PipeOk
  <2>2. CASE ~b
    <3>0. b = FALSE
      BY <1>2, <2>2
    <3>1. EndFiles(v, q, TRUE) = EndFiles(file, q, TRUE)
      BY <1>3, <3>0
    <3>2. EndFiles(v, q, FALSE) = {}
      BY <1>3, <3>0
    <3>3. e.writeopen = pipe[q].writeopen /\ e.readopen = FALSE
      BY <1>5, <2>2
    <3>4. pipe[q].writeopen = (EndFiles(file, q, TRUE) # {})
      BY <1>6 DEF PipeOk
    <3>5. e.writeopen = (EndFiles(v, q, TRUE) # {})
      BY ONLY <3>1, <3>3, <3>4, Zenon
    <3>6. e.readopen = (EndFiles(v, q, FALSE) # {})
      BY ONLY <3>2, <3>3, Zenon
    <3> QED BY <1>5, <3>5, <3>6 DEF PipeOk
  <2> QED BY <2>1, <2>2
<1>8. \A p \in DOMAIN pipe \ {q} : PipeOk(v, p, pipe[p])
  <2>1. ASSUME NEW p \in DOMAIN pipe \ {q}
        PROVE  PipeOk(v, p, pipe[p])
    <3>1. PipeOk(file, p, pipe[p])
      BY ONLY <1>1, <2>1
    <3>2. p # q
      BY ONLY <2>1
    <3>3. /\ EndFiles(v, p, FALSE) = EndFiles(file, p, FALSE)
          /\ EndFiles(v, p, TRUE) = EndFiles(file, p, TRUE)
      BY ONLY <1>3, <3>2
    <3> QED BY ONLY <3>1, <3>3, PipeOkSame
  <2> QED BY ONLY <2>1
<1>9. \A j \in Filenums : v[j].type = "pipe" => j # f /\ v[j] = file[j]
  BY <1>4
<1>10. \A j, g \in Filenums :
         v[j].type = "pipe" /\ v[g].type = "pipe" /\
         v[j].pipe = v[g].pipe /\ v[j].w = v[g].w => j = g
  BY ONLY <1>1, <1>9
<1>11. CASE e.readopen \/ e.writeopen
  <2>1. new = Put(pipe, q, e)
    BY <1>11 DEF PipeLeft
  <2> HIDE DEF new, e, q, b
  <2>2. DOMAIN new = DOMAIN pipe /\ new[q] = e
        /\ \A p \in DOMAIN pipe \ {q} : new[p] = pipe[p]
    BY <1>2, <2>1, PutIs
  <2>3. \A p \in DOMAIN new : PipeOk(v, p, new[p])
    BY <1>7, <1>8, <1>11, <2>2
  <2>4. \A j \in Filenums : v[j].type = "pipe" => v[j].pipe \in DOMAIN new
    BY <1>1, <1>9, <2>2
  <2>5. Pipes(v, new)
    BY <1>1, <1>10, <2>2, <2>3, <2>4, PipesAre
  <2> QED BY <2>5 DEF new, q, b
<1>12. CASE ~(e.readopen \/ e.writeopen)
  <2>1. new = PipeGone(pipe, q)
    BY <1>12 DEF PipeLeft
  <2>6. \A c \in BOOLEAN : EndFiles(v, q, c) = {}
    <3>1. pipe[q].readopen = (EndFiles(file, q, FALSE) # {})
          /\ pipe[q].writeopen = (EndFiles(file, q, TRUE) # {})
      BY <1>6 DEF PipeOk
    <3>2. CASE b
      <4>1. EndFiles(file, q, FALSE) = {}
        BY <1>5, <1>12, <3>1, <3>2
      <4>2. b = TRUE
        BY <1>2, <3>2
      <4>3. EndFiles(v, q, FALSE) = {}
        BY <1>3, <4>1, <4>2
      <4>4. EndFiles(v, q, TRUE) = {}
        BY <1>3, <4>2
      <4> QED BY <4>3, <4>4
    <3>3. CASE ~b
      <4>1. EndFiles(file, q, TRUE) = {}
        BY <1>5, <1>12, <3>1, <3>3
      <4>2. b = FALSE
        BY <1>2, <3>3
      <4>3. EndFiles(v, q, TRUE) = {}
        BY <1>3, <4>1, <4>2
      <4>4. EndFiles(v, q, FALSE) = {}
        BY <1>3, <4>2
      <4> QED BY <4>3, <4>4
    <3> QED BY <3>2, <3>3
  <2> HIDE DEF new, e, q, b
  <2>2. DOMAIN new = DOMAIN pipe \ {q}
        /\ \A p \in DOMAIN pipe \ {q} : new[p] = pipe[p]
    BY <2>1, PipeGoneIs
  <2>3. \A p \in DOMAIN new : PipeOk(v, p, new[p])
    BY <1>8, <2>2
  <2>4. \A j \in Filenums : v[j].type = "pipe" => v[j].pipe \in DOMAIN new
    <3> SUFFICES ASSUME NEW j \in Filenums, v[j].type = "pipe"
                 PROVE  v[j].pipe \in DOMAIN new
      OBVIOUS
    <3>1. v[j].pipe \in DOMAIN pipe
      BY <1>1, <1>9
    <3>2. v[j].pipe # q
      <4>1. j \in EndFiles(v, v[j].pipe, v[j].w)
        BY DEF EndFiles
      <4>2. v[j].w \in BOOLEAN
        <5>1. v[j] = file[j] /\ file[j].type = "pipe"
          BY <1>9
        <5>2. IsFile(file[j])
          OBVIOUS
        <5> QED BY <5>1, <5>2 DEF IsFile
      <4> QED BY <2>6, <4>1, <4>2
    <3> QED BY <2>2, <3>1, <3>2
  <2>5. Pipes(v, new)
    BY <1>1, <1>10, <2>2, <2>3, <2>4, PipesAre
  <2> QED BY <2>5 DEF new, q, b
<1> QED BY <1>11, <1>12

-----------------------------------------------------------------------------
(* Pipes: pipeclose() itself.                                              *)

Opens(e) == e.readopen \/ e.writeopen
SetPipeResult(s, v, b, r) ==
  /\ SameFs(s, r) /\ r.proc = s.proc /\ r.file = s.file /\ r.pipe = v
  /\ r.pages = s.pages /\ r.free = b /\ r.tty = s.tty

(* The state with other pipes and free pages.                              *)
LEMMA SetPipeFree ==
  ASSUME NEW s, IsK(s), NEW v, NEW b
  PROVE  SetPipeResult(s, v, b, [s EXCEPT !.pipe = v, !.free = b])
<1>1. ASSUME NEW r, r = [s EXCEPT !.pipe = v, !.free = b]
      PROVE  /\ SameFs(s, r) /\ r.proc = s.proc /\ r.file = s.file /\ r.pipe = v
             /\ r.pages = s.pages /\ r.free = b /\ r.tty = s.tty
  BY ONLY IsK(s), <1>1 DEF IsK, SameFs
<1> QED BY <1>1 DEF SetPipeResult

(* What pipeclose() does.                                                  *)
LEMMA PipecloseIs ==
  ASSUME NEW s, IsK(s), NEW q \in DOMAIN s.pipe, NEW b
  PROVE  SetPipeResult(s, PipeLeft(s.pipe, q, b),
           IF Opens(Shut(s.pipe[q], b)) THEN s.free ELSE s.free + 1,
           pipeclose(s, q, b))
<1> DEFINE e == Shut(s.pipe[q], b)
           v == Put(s.pipe, q, e)
           k1 == IF b THEN [s EXCEPT !.pipe[q].writeopen = FALSE]
                 ELSE [s EXCEPT !.pipe[q].readopen = FALSE]
<1>1. k1 = [s EXCEPT !.pipe = v]
  BY DEF Shut, Put
<1>2. k1.pipe = v /\ k1.free = s.free
  <2> HIDE DEF v, k1
  <2>1. [s EXCEPT !.pipe = v].pipe = v /\ [s EXCEPT !.pipe = v].free = s.free
    BY SetPipe
  <2> QED BY <1>1, <2>1
<1>3. v[q] = e /\ DOMAIN v = DOMAIN s.pipe /\ \A p \in DOMAIN s.pipe \ {q} : v[p] = s.pipe[p]
  BY PutIs
<1>4. pipeclose(s, q, b) =
        IF k1.pipe[q].readopen \/ k1.pipe[q].writeopen THEN k1
        ELSE [k1 EXCEPT !.pipe = Restrict(k1.pipe, DOMAIN k1.pipe \ {q}),
                        !.free = k1.free + 1]
  BY DEF pipeclose
<1> HIDE DEF k1, v, e
<1>5. pipeclose(s, q, b) =
        IF Opens(e) THEN [s EXCEPT !.pipe = v]
        ELSE [k1 EXCEPT !.pipe = Restrict(v, DOMAIN v \ {q}), !.free = s.free + 1]
  BY <1>1, <1>2, <1>3, <1>4 DEF Opens
<1>6. Restrict(v, DOMAIN v \ {q}) = PipeGone(s.pipe, q)
  BY <1>3 DEF Restrict, PipeGone
<1>7. CASE Opens(e)
  <2>1. pipeclose(s, q, b) = [s EXCEPT !.pipe = v]
    BY <1>5, <1>7
  <2>2. SetPipeResult(s, v, s.free, [s EXCEPT !.pipe = v])
    BY SetPipe DEF SetPipeResult
  <2>3. PipeLeft(s.pipe, q, b) = v
    BY <1>7 DEF PipeLeft, Opens, e, v
  <2> QED BY <1>7, <2>1, <2>2, <2>3 DEF e
<1>8. CASE ~Opens(e)
  <2> DEFINE u == PipeGone(s.pipe, q)
             c == s.free + 1
  <2>3. PipeLeft(s.pipe, q, b) = u
    BY <1>8 DEF PipeLeft, Opens, e, v
  <2> HIDE DEF u, c
  <2>1. pipeclose(s, q, b) = [k1 EXCEPT !.pipe = u, !.free = c]
    BY <1>5, <1>6, <1>8 DEF u, c
  <2>4. [k1 EXCEPT !.pipe = u, !.free = c] = [s EXCEPT !.pipe = u, !.free = c]
    BY <1>1 DEF IsK
  <2>2. SetPipeResult(s, u, c, [s EXCEPT !.pipe = u, !.free = c])
    BY SetPipeFree
  <2> QED BY <1>8, <2>1, <2>2, <2>3, <2>4 DEF e, c
<1> QED BY <1>7, <1>8

-----------------------------------------------------------------------------
(* fileclose().                                                            *)

(* A file with one reference less.                                         *)
LEMMA FewerIs ==
  ASSUME NEW y \in [Filenums -> Int], NEW f \in Filenums
  PROVE  /\ Minus(y, f) \in [Filenums -> Int] /\ Minus(y, f)[f] = y[f] - 1
         /\ \A e \in Filenums : e # f => Minus(y, f)[e] = y[e]
<1>1. y[f] - 1 \in Int /\ y \in [Filenums -> Int] /\ f \in Filenums
  BY ONLY y \in [Filenums -> Int], f \in Filenums
<1> QED BY ONLY <1>1 DEF Minus

(* A file's last reference is given up, before its object is.              *)
Emptied2(s, f) == PutFile(s, f, NoFile)

(* What fileclose() does, in its four cases.                               *)
LEMMA FilecloseIs ==
  ASSUME NEW s, NEW f, s.file[f].ref \in Nat, s.file[f].ref >= 1
  PROVE  LET h == s.file[f]
         IN fileclose(s, f) =
              IF h.ref > 1 THEN PutFile(s, f, [h EXCEPT !.ref = h.ref - 1])
              ELSE IF h.type = "pipe"
              THEN pipeclose(PutFile(s, f, NoFile), h.pipe, h.w)
              ELSE IF h.type \in {"inode", "device"}
              THEN iput(PutFile(s, f, NoFile), h.ip)
              ELSE PutFile(s, f, NoFile)
<1>1. ~(s.file[f].ref < 1)
  OBVIOUS
<1> QED BY <1>1 DEF fileclose, PutFile, Put

(* The state with one file changed.                                        *)
LEMMA PutFileFields ==
  ASSUME NEW s, IsK(s), NEW f, NEW g, NEW r, r = PutFile(s, f, g)
  PROVE  /\ SameFs(s, r) /\ r.proc = s.proc /\ r.file = Put(s.file, f, g)
         /\ r.pipe = s.pipe /\ r.pages = s.pages /\ r.free = s.free
         /\ r.tty = s.tty
<1> DEFINE v == Put(s.file, f, g)
<1>1. r = [s EXCEPT !.file = v]
  BY DEF PutFile
<1> HIDE DEF v
<1>2. /\ SameFs(s, r) /\ r.proc = s.proc /\ r.file = v
      /\ r.pipe = s.pipe /\ r.pages = s.pages /\ r.free = s.free
      /\ r.tty = s.tty
  BY ONLY IsK(s), <1>1, SetFile
<1> QED BY <1>2 DEF v

Healthy(s, x, y, t, f) ==
  /\ y \in [Filenums -> Int] /\ Fine(s, x, y, t) /\ s.panic = ""
  /\ f \in Filenums

(* What Healthy says.                                                      *)
LEMMA HealthyIs ==
  ASSUME NEW s, NEW x, NEW y, NEW t, NEW f, Healthy(s, x, y, t, f)
  PROVE  /\ y \in [Filenums -> Int] /\ Fine(s, x, y, t) /\ s.panic = ""
         /\ f \in Filenums /\ FsOk(s, x) /\ Others(s, y, t) /\ IsK(s)
         /\ IsFile(s.file[f]) /\ s.file[f].ref \in Nat
         /\ s.file[f].ref - y[f] \in Nat /\ x \in [Inums -> Nat]
         /\ \A e \in Filenums : IsFile(s.file[e])
         /\ s.file = [j \in Filenums |-> s.file[j]]
         /\ Pipes(s.file, s.pipe)
         /\ Pages0(s.free, s.proc, s.pipe, s.pages, t)
<1>1. /\ y \in [Filenums -> Int] /\ Fine(s, x, y, t) /\ s.panic = ""
      /\ f \in Filenums
  BY DEF Healthy
<1>2. FsOk(s, x) /\ Others(s, y, t) /\ IsK(s) /\ x \in [Inums -> Nat]
  BY <1>1 DEF Fine, FsOk
<1>3. IsFile(s.file[f]) /\ s.file[f].ref \in Nat /\ s.file[f].ref - y[f] \in Nat
  BY <1>1, FileIs
<1> QED BY <1>1, <1>2, <1>3 DEF Others, Files0

(* The slot of a file that refers to no pipe is cleared: what it referred  *)
(* to is in hand.                                                          *)
Passed(x, g) == IF Inum(g) = 0 THEN x ELSE Plus(x, Inum(g))

(* A file that is closed for good: its inode is in hand.                   *)
LEMMA ClearedFine ==
  ASSUME NEW s, NEW x, NEW y, NEW t, NEW f, Healthy(s, x, y, t, f),
         s.file[f].ref = 1, s.file[f].type # "pipe"
  PROVE  Fine(PutFile(s, f, NoFile), Passed(x, s.file[f]), Minus(y, f), t)
<1> DEFINE w == Passed(x, s.file[f])
           z == Minus(y, f)
           v == Put(s.file, f, NoFile)
<1>0. PICK r : r = PutFile(s, f, NoFile)
  OBVIOUS
<1>1. /\ y \in [Filenums -> Int] /\ Fine(s, x, y, t) /\ s.panic = ""
      /\ f \in Filenums /\ IsK(s) /\ x \in [Inums -> Nat]
      /\ s.file = [j \in Filenums |-> s.file[j]]
      /\ Pipes(s.file, s.pipe) /\ Pages0(s.free, s.proc, s.pipe, s.pages, t)
      /\ FsOk(s, x)
  BY HealthyIs
<1>2. /\ SameFs(s, r) /\ r.proc = s.proc /\ r.file = v
      /\ r.pipe = s.pipe /\ r.pages = s.pages /\ r.free = s.free
      /\ r.tty = s.tty
  <2>1. IsK(s)
    BY <1>1
  <2>2. /\ SameFs(s, r) /\ r.proc = s.proc /\ r.file = Put(s.file, f, NoFile)
      /\ r.pipe = s.pipe /\ r.pages = s.pages /\ r.free = s.free
      /\ r.tty = s.tty
    BY ONLY <1>0, <2>1, PutFileFields
  <2> QED BY <2>2
<1>3. IsFile(NoFile) /\ NoFile.ref = 0 /\ NoFile.type = "none" /\ Inum(NoFile) = 0
  BY NoFileIs
<1>4. z \in [Filenums -> Int] /\ z[f] = y[f] - 1
      /\ \A e \in Filenums : e # f => z[e] = y[e]
  BY <1>1, FewerIs
<1>5. v[f] = NoFile /\ \A j \in Filenums : j # f => v[j] = s.file[j]
  BY <1>1 DEF Put
<1>6. Pipes(v, s.pipe)
  <2>1. \A j \in Filenums :
           /\ (v[j].type = "pipe") <=> (s.file[j].type = "pipe")
           /\ v[j].type = "pipe" =>
                v[j].pipe = s.file[j].pipe /\ v[j].w = s.file[j].w
    BY <1>3, <1>5
  <2>2. Pipes(s.file, s.pipe)
    BY <1>1
  <2> HIDE DEF v
  <2> QED BY ONLY <2>1, <2>2, PipesSame
<1>7. Inum(s.file[f]) = 0 \/ Inum(s.file[f]) \in Inums
  BY <1>1 DEF FsOk, InUseOnly, Inum
<1>8. /\ w \in [Inums -> Nat]
      /\ \A i \in Inums : w[i] + One(Inum(NoFile), i) = x[i] + One(Inum(s.file[f]), i)
  <2>1. \A i \in Inums : i # 0 /\ One(Inum(NoFile), i) = 0
    BY <1>3, InumsIs DEF One
  <2>2. CASE Inum(s.file[f]) = 0
    <3>1. w = x
      BY <2>2 DEF Passed
    <3>2. \A i \in Inums : One(Inum(s.file[f]), i) = 0
      BY <2>1, <2>2 DEF One
    <3>3. \A i \in Inums : w[i] + One(Inum(NoFile), i) = x[i] + One(Inum(s.file[f]), i)
      BY ONLY <2>1, <3>1, <3>2
    <3> QED BY <1>1, <3>1, <3>3
  <2>3. CASE Inum(s.file[f]) # 0
    <3> DEFINE j == Inum(s.file[f])
    <3>1. j \in Inums /\ w = Plus(x, j)
      BY <1>7, <2>3 DEF Passed
    <3> HIDE DEF j, w
    <3>2. w \in [Inums -> Nat] /\ w[j] = x[j] + 1
          /\ \A i \in Inums : i # j => w[i] = x[i]
      BY <1>1, <3>1, PlusIs
    <3>3. \A i \in Inums : w[i] + 0 = x[i] + One(j, i)
      <4>1. \A i \in Inums : x[i] \in Nat /\ w[i] \in Nat
        BY <1>1, <3>2
      <4>2. \A i \in Inums : One(j, i) = (IF i = j THEN 1 ELSE 0)
        BY DEF One
      <4> QED BY ONLY <3>2, <4>1, <4>2
    <3> QED BY <2>1, <3>2, <3>3 DEF j
  <2> QED BY <2>2, <2>3
<1> HIDE DEF z, w, v
<1>9. FileStep(s, x, y, t, f, NoFile, w, z, t, r)
  <2>1. Openable(s.ino, NoFile)
    BY <1>3 DEF Openable
  <2>2. Recount(y, z, f, s.file[f].ref, NoFile.ref)
    <3>1. y[f] \in Int
      BY <1>1
    <3> QED BY <1>3, <1>4, <3>1 DEF Recount
  <2>3. Pipes(r.file, r.pipe) /\ Pages0(r.free, r.proc, r.pipe, r.pages, t)
        /\ r.file = Put(s.file, f, NoFile)
    BY <1>1, <1>2, <1>6 DEF v
  <2> QED BY ONLY <1>1, <1>2, <1>3, <1>4, <1>8, <2>1, <2>2, <2>3 DEF FileStep
<1>10. Fine(r, w, z, t)
  BY ONLY <1>9, FileStepFine
<1> QED BY <1>0, <1>10 DEF w, z

-----------------------------------------------------------------------------
(* fileclose() of an end of a pipe; the page of the pipe goes with the     *)
(* second.                                                                 *)

PipeFree(free, pipe, q, b) ==
  IF Opens(Shut(pipe[q], b)) THEN free ELSE free + 1

(* One pipe less.                                                          *)
LEMMA PipeCount ==
  ASSUME NEW file, NEW pipe, Pipes(file, pipe), NEW q \in DOMAIN pipe, NEW b,
         NEW free \in Nat
  PROVE  /\ PipeFree(free, pipe, q, b) \in Nat
         /\ Cardinality(DOMAIN PipeLeft(pipe, q, b)) \in Nat
         /\ Cardinality(DOMAIN pipe) \in Nat
         /\ PipeFree(free, pipe, q, b) + Cardinality(DOMAIN PipeLeft(pipe, q, b)) =
              free + Cardinality(DOMAIN pipe)
<1> DEFINE D == DOMAIN pipe
           u == PipeLeft(pipe, q, b)
<1>1. IsFiniteSet(D) /\ Cardinality(D) \in Nat
  <2>1. D \subseteq Filenums
    BY DEF Pipes
  <2> QED BY <2>1, SetsFinite, FS_Subset, FS_CardinalityType
<1>2. CASE Opens(Shut(pipe[q], b))
  <2>1. u = Put(pipe, q, Shut(pipe[q], b))
    BY <1>2 DEF PipeLeft, Opens
  <2>2. DOMAIN u = D
    BY <2>1, PutIs
  <2> QED BY <1>1, <1>2, <2>2 DEF PipeFree
<1>3. CASE ~Opens(Shut(pipe[q], b))
  <2>1. u = PipeGone(pipe, q)
    BY <1>3 DEF PipeLeft, Opens
  <2>2. DOMAIN u = D \ {q} /\ q \in D
    BY <2>1, PipeGoneIs
  <2>3. Cardinality(D \ {q}) = Cardinality(D) - 1 /\ IsFiniteSet(D \ {q})
    BY <1>1, <2>2, FS_RemoveElement
  <2>4. Cardinality(D \ {q}) \in Nat
    BY <2>3, FS_CardinalityType
  <2> HIDE DEF D, u
  <2>5. free + 1 \in Nat /\ free + 1 + Cardinality(DOMAIN u) = free + Cardinality(D)
    BY <1>1, <2>2, <2>3, <2>4
  <2> QED BY <1>1, <1>3, <2>2, <2>4, <2>5 DEF u, D, PipeFree
<1> QED BY <1>2, <1>3

(* Its page is free.                                                       *)
LEMMA PagesMoved ==
  ASSUME NEW free, NEW proc, NEW pipe, NEW pages, NEW t \in Nat,
         Pages0(free, proc, pipe, pages, t), NEW c \in Nat, NEW u,
         Cardinality(DOMAIN u) \in Nat, Cardinality(DOMAIN pipe) \in Nat,
         NEW v \in Nat,
         c + v + Cardinality(DOMAIN u) = free + t + Cardinality(DOMAIN pipe)
  PROVE  Pages0(c, proc, u, pages, v)
<1> DEFINE m == Cardinality(DOMAIN u)
           n == Cardinality(DOMAIN pipe)
           a == 2 * Cardinality(Taken(proc))
           b == Cardinality(Mapped(proc))
<1>1. free \in Nat /\ free + t + n + a + b = pages
  BY DEF Pages0
<1>2. m \in Nat /\ n \in Nat /\ c + v + m = free + t + n
  OBVIOUS
<1> HIDE DEF a, b, m, n
<1>3. c + v + m + a + b = pages
  BY ONLY <1>1, <1>2
<1> QED BY <1>3 DEF Pages0, a, b, m

(* r is what s became, but for what is in hand.                            *)
Done(s, r, x, y, t) == Fine(r, x, y, t) /\ r.panic = "" /\ r.proc = s.proc

(* fileclose() of an end of a pipe.                                        *)
LEMMA PipecloseFine ==
  ASSUME NEW s, NEW x, NEW y, NEW t \in Nat, NEW f, Healthy(s, x, y, t, f),
         s.file[f].ref = 1, s.file[f].type = "pipe", NEW r,
         r = pipeclose(PutFile(s, f, NoFile), s.file[f].pipe, s.file[f].w)
  PROVE  Done(s, r, x, Minus(y, f), t)
<1> DEFINE z == Minus(y, f)
           v == Put(s.file, f, NoFile)
           q == s.file[f].pipe
           b == s.file[f].w
<1>0. PICK r1 : r1 = PutFile(s, f, NoFile)
  OBVIOUS
<1>1. /\ y \in [Filenums -> Int] /\ Fine(s, x, y, t) /\ s.panic = ""
      /\ f \in Filenums /\ IsK(s) /\ x \in [Inums -> Nat]
      /\ s.file = [j \in Filenums |-> s.file[j]]
      /\ Pipes(s.file, s.pipe) /\ Pages0(s.free, s.proc, s.pipe, s.pages, t)
      /\ FsOk(s, x) /\ \A e \in Filenums : IsFile(s.file[e])
  BY HealthyIs
<1>2. /\ SameFs(s, r1) /\ r1.proc = s.proc /\ r1.file = Put(s.file, f, NoFile)
      /\ r1.pipe = s.pipe /\ r1.pages = s.pages /\ r1.free = s.free
      /\ r1.tty = s.tty
  <2>1. IsK(s)
    BY <1>1
  <2> QED BY ONLY <1>0, <2>1, PutFileFields
<1>3. IsFile(NoFile) /\ NoFile.ref = 0 /\ NoFile.type = "none" /\ Inum(NoFile) = 0
  BY NoFileIs
<1>4. z \in [Filenums -> Int] /\ z[f] = y[f] - 1
      /\ \A e \in Filenums : e # f => z[e] = y[e]
  BY <1>1, FewerIs
<1>5. v[f] = NoFile /\ \A j \in Filenums : j # f => v[j] = s.file[j]
  BY <1>1 DEF Put
<1>6. q \in DOMAIN s.pipe /\ b \in BOOLEAN /\ IsPipe(s.pipe[q])
  BY <1>1, PipeOf
<1> DEFINE u == PipeLeft(s.pipe, q, b)
           c == PipeFree(s.free, s.pipe, q, b)
<1>7. /\ SameFs(r1, r) /\ r.proc = r1.proc /\ r.file = r1.file /\ r.pipe = u
      /\ r.pages = r1.pages /\ r.free = c /\ r.tty = r1.tty
  <2>1. IsK(r1) /\ q \in DOMAIN r1.pipe /\ r = pipeclose(r1, q, b)
    BY <1>0, <1>2, <1>6 DEF SameFs
  <2> HIDE DEF q, b
  <2>2. SetPipeResult(r1, PipeLeft(r1.pipe, q, b),
           IF Opens(Shut(r1.pipe[q], b)) THEN r1.free ELSE r1.free + 1,
           pipeclose(r1, q, b))
    BY ONLY <2>1, PipecloseIs
  <2>3. SetPipeResult(r1, u, c, r)
    BY <1>2, <2>1, <2>2 DEF PipeFree
  <2> QED BY ONLY <2>3 DEF SetPipeResult
<1>8. Pipes(v, u)
  <2>1. Pipes(s.file, s.pipe) /\ f \in Filenums /\ s.file[f].type = "pipe"
        /\ \A e \in Filenums : IsFile(s.file[e])
    BY <1>1
  <2> HIDE DEF v
  <2>2. Pipes(v, PipeLeft(s.pipe, s.file[f].pipe, s.file[f].w))
    BY ONLY <1>5, <2>1, PipeLeftIs
  <2> QED BY <2>2
<1>9. Pages0(c, s.proc, u, s.pages, t)
  <2>1. s.free \in Nat
    BY <1>1 DEF Pages0
  <2> HIDE DEF q, b
  <2>4. Pipes(s.file, s.pipe) /\ q \in DOMAIN s.pipe
    BY <1>1, <1>6
  <2>2. /\ c \in Nat /\ Cardinality(DOMAIN u) \in Nat
        /\ Cardinality(DOMAIN s.pipe) \in Nat
        /\ c + Cardinality(DOMAIN u) = s.free + Cardinality(DOMAIN s.pipe)
    BY ONLY <2>1, <2>4, PipeCount
  <2> HIDE DEF c, u
  <2>3. c + t + Cardinality(DOMAIN u) = s.free + t + Cardinality(DOMAIN s.pipe)
    BY <2>1, <2>2
  <2> QED BY <1>1, <2>1, <2>2, <2>3, PagesMoved
<1>10. /\ SameFs(s, r) /\ r.proc = s.proc /\ r.file = Put(s.file, f, NoFile)
       /\ r.tty = s.tty /\ r.pages = s.pages
  BY <1>2, <1>7 DEF SameFs
<1> HIDE DEF z, v, u, c
<1>11. FileStep(s, x, y, t, f, NoFile, x, z, t, r)
  <2>1. Openable(s.ino, NoFile)
    BY <1>3 DEF Openable
  <2>2. Recount(y, z, f, s.file[f].ref, NoFile.ref)
    <3>1. y[f] \in Int
      BY <1>1
    <3> QED BY <1>3, <1>4, <3>1 DEF Recount
  <2>3. Pipes(r.file, r.pipe) /\ Pages0(r.free, r.proc, r.pipe, r.pages, t)
    BY <1>7, <1>8, <1>9, <1>10 DEF v
  <2>4. \A i \in Inums : x[i] + One(Inum(NoFile), i) = x[i] + One(Inum(s.file[f]), i)
    <3>1. Inum(s.file[f]) = 0
      BY DEF Inum
    <3> QED BY <1>3, <3>1
  <2> QED BY ONLY <1>1, <1>3, <1>4, <1>10, <2>1, <2>2, <2>3, <2>4 DEF FileStep
<1>12. Fine(r, x, z, t)
  BY ONLY <1>11, FileStepFine
<1> QED BY <1>1, <1>10, <1>12 DEF z, SameFs, Done

(* fileclose() gives a reference to the file back.                         *)
LEMMA FilecloseFine ==
  ASSUME NEW s, NEW x, NEW y, NEW t \in Nat, NEW f, Healthy(s, x, y, t, f),
         y[f] >= 1, NEW r, r = fileclose(s, f)
  PROVE  Done(s, r, x, Minus(y, f), t)
<1> DEFINE h == s.file[f]
           z == Minus(y, f)
<1>1. /\ y \in [Filenums -> Int] /\ Fine(s, x, y, t) /\ s.panic = ""
      /\ f \in Filenums /\ IsK(s) /\ x \in [Inums -> Nat] /\ FsOk(s, x)
      /\ IsFile(h) /\ h.ref \in Nat /\ h.ref - y[f] \in Nat
  BY HealthyIs
<1>2. h.ref >= 1
  <2>1. y[f] \in Int /\ y[f] >= 1 /\ h.ref \in Nat /\ h.ref - y[f] \in Nat
    BY <1>1
  <2> HIDE DEF h
  <2> QED BY ONLY <2>1
<1>3. r = IF h.ref > 1 THEN PutFile(s, f, [h EXCEPT !.ref = h.ref - 1])
          ELSE IF h.type = "pipe"
          THEN pipeclose(PutFile(s, f, NoFile), h.pipe, h.w)
          ELSE IF h.type \in {"inode", "device"}
          THEN iput(PutFile(s, f, NoFile), h.ip)
          ELSE PutFile(s, f, NoFile)
  BY <1>1, <1>2, FilecloseIs
<1>4. CASE h.ref > 1
  <2>1. PICK n : n = h.ref - 1
    OBVIOUS
  <2>2. n \in Nat /\ n # 0
    <3>1. h.ref \in Nat
      BY <1>1
    <3> HIDE DEF h
    <3> QED BY ONLY <1>4, <2>1, <3>1
  <2>3. PICK g : g = [h EXCEPT !.ref = n]
    OBVIOUS
  <2>4. IsFile(g) /\ g.ref = n /\ g.type = h.type /\ g.ip = h.ip
         /\ g.pipe = h.pipe /\ g.w = h.w
    <3>1. IsFile(h)
      BY <1>1
    <3> HIDE DEF h
    <3> QED BY ONLY <2>2, <2>3, <3>1, SetRefFile
  <2>5. r = PutFile(s, f, g)
    BY <1>3, <1>4, <2>1, <2>3
  <2>6. z \in [Filenums -> Int] /\ z[f] = y[f] - 1
      /\ \A e \in Filenums : e # f => z[e] = y[e]
    BY <1>1, FewerIs
  <2>7. y[f] \in Int
    BY <1>1
  <2> HIDE DEF z
  <2>8. Recount(y, z, f, h.ref, g.ref)
    <3>1. h.ref \in Nat /\ g.ref = h.ref - 1
      BY <1>1, <2>1, <2>4
    <3> HIDE DEF h
    <3>2. z[f] + h.ref = y[f] + g.ref
      BY ONLY <3>1, <2>6, <2>7
    <3> QED BY <2>6, <3>2 DEF Recount
  <2>9. SameKind(s.file[f], g)
    BY <2>4 DEF SameKind
  <2>10. KindStep(s, x, y, t, f, g, z)
    BY ONLY <1>1, <2>2, <2>4, <2>6, <2>8, <2>9 DEF KindStep
  <2>11. Fine(r, x, z, t)
    BY ONLY <2>5, <2>10, KindFine
  <2>12. r.panic = "" /\ r.proc = s.proc
    BY ONLY <1>1, <2>5, PutFileIs
  <2> QED BY <2>11, <2>12 DEF z, Done
<1>5. CASE h.ref = 1 /\ h.type = "pipe"
  <2>1. r = pipeclose(PutFile(s, f, NoFile), s.file[f].pipe, s.file[f].w)
    BY <1>3, <1>5
  <2>2. s.file[f].ref = 1 /\ s.file[f].type = "pipe" /\ Healthy(s, x, y, t, f) /\ t \in Nat
    BY <1>5
  <2> QED BY ONLY <2>1, <2>2, PipecloseFine
<1>6. CASE h.ref = 1 /\ h.type # "pipe"
  <2>0. PICK r1 : r1 = PutFile(s, f, NoFile)
    OBVIOUS
  <2>1. Fine(r1, Passed(x, h), z, t)
    BY <1>6, <2>0, ClearedFine
  <2>2. r1.panic = "" /\ r1.proc = s.proc
    BY <1>1, <2>0, PutFileIs
  <2>3. CASE h.type \in {"inode", "device"}
    <3>1. r = iput(r1, h.ip)
      BY <1>3, <1>6, <2>0, <2>3
    <3>2. h.ip \in Inums
      BY <1>1, <2>3 DEF FsOk, InUseOnly
    <3>3. Inum(h) = h.ip /\ h.ip # 0
      BY <2>3, <3>2, InumsIs DEF Inum
    <3>4. Fine(r1, Plus(x, h.ip), z, t)
      BY <2>1, <3>3 DEF Passed
    <3>5. FsOk(r1, Plus(x, h.ip))
      BY <3>4 DEF Fine
    <3>6. FsOk(r, x) /\ Keeps(r1, r) /\ r.panic = r1.panic
      BY <1>1, <3>1, <3>2, <3>5, IputLast
    <3> HIDE DEF h, z
    <3>7. Fine(r, x, z, t)
      BY ONLY <3>4, <3>6, Lift
    <3>8. r.panic = "" /\ r.proc = s.proc
      BY <2>2, <3>6 DEF Keeps, Rest
    <3> QED BY <3>7, <3>8 DEF z, Done
  <2>4. CASE h.type \notin {"inode", "device"}
    <3>1. r = r1
      BY <1>3, <1>6, <2>0, <2>4
    <3>2. Passed(x, h) = x
      BY <2>4 DEF Passed, Inum
    <3> QED BY <2>1, <2>2, <3>1, <3>2 DEF Done
  <2> QED BY <2>3, <2>4
<1>7. h.ref > 1 \/ h.ref = 1
  <2>1. h.ref \in Nat
    BY <1>1
  <2> HIDE DEF h
  <2> QED BY ONLY <1>2, <2>1
<1> QED BY <1>4, <1>5, <1>6, <1>7

-----------------------------------------------------------------------------
(* dup() and close().                                                      *)

SetFd(s, p, d, g) == [s EXCEPT !.proc = Put(s.proc, p, PutFd(s.proc[p], d, g))]
FdStep(s, x, y, t, p, d, g, z) ==
  /\ y \in [Filenums -> Int] /\ z \in [Filenums -> Int] /\ Fine(s, x, y, t)
  /\ s.panic = "" /\ p \in Slots /\ s.proc[p].st = "used" /\ d \in Fds
  /\ g \in 0 .. NFILE
  /\ \A f \in Filenums : z[f] + One(g, f) = y[f] + One(s.proc[p].fd[d], f)

(* Such a change of a descriptor keeps a state fine.                       *)
LEMMA FdStepFine ==
  ASSUME NEW s, NEW x, NEW y, NEW t, NEW p, NEW d, NEW g, NEW z,
         FdStep(s, x, y, t, p, d, g, z), NEW r, r = SetFd(s, p, d, g)
  PROVE  Fine(r, x, z, t)
<1>1. /\ y \in [Filenums -> Int] /\ z \in [Filenums -> Int] /\ Fine(s, x, y, t)
      /\ s.panic = "" /\ p \in Slots /\ s.proc[p].st = "used" /\ d \in Fds
      /\ g \in 0 .. NFILE
      /\ \A f \in Filenums : z[f] + One(g, f) = y[f] + One(s.proc[p].fd[d], f)
  BY DEF FdStep
<1>2. Fine([s EXCEPT !.proc = Put(s.proc, p, PutFd(s.proc[p], d, g))], x, z, t)
  BY ONLY <1>1, FdFine
<1> QED BY <1>2 DEF SetFd

(* What it leaves alone.                                                   *)
LEMMA SetFdIs ==
  ASSUME NEW s, NEW p, NEW d, NEW g
  PROVE  [s EXCEPT !.proc[p].fd[d] = g] = SetFd(s, p, d, g)
BY DEF SetFd, Put, PutFd

SetFdResult(s, p, d, g, r) ==
  /\ SameFs(s, r) /\ r.file = s.file /\ r.pipe = s.pipe /\ r.pages = s.pages
  /\ r.free = s.free /\ r.tty = s.tty
  /\ r.proc = Put(s.proc, p, PutFd(s.proc[p], d, g))

(* The state then.                                                         *)
LEMMA SetFdFields ==
  ASSUME NEW s, IsK(s), NEW p, NEW d, NEW g, NEW r, r = SetFd(s, p, d, g)
  PROVE  SetFdResult(s, p, d, g, r)
<1> DEFINE v == Put(s.proc, p, PutFd(s.proc[p], d, g))
<1>1. r = [s EXCEPT !.proc = v]
  BY DEF SetFd
<1> HIDE DEF v
<1>2. /\ SameFs(s, r) /\ r.file = s.file /\ r.pipe = s.pipe /\ r.pages = s.pages
      /\ r.free = s.free /\ r.tty = s.tty /\ r.proc = v
  BY ONLY IsK(s), <1>1, SetProcOf
<1> QED BY <1>2 DEF v, SetFdResult

(* filedup(), in a fine state.                                             *)
LEMMA FiledupDone ==
  ASSUME NEW s, NEW x, NEW y, NEW t, NEW f, Healthy(s, x, y, t, f), NEW r,
         r = filedup(s, f)
  PROVE  Done(s, r, x, Plus(y, f), t)
<1>1. /\ y \in [Filenums -> Int] /\ Fine(s, x, y, t) /\ s.panic = ""
      /\ f \in Filenums
  BY DEF Healthy
<1>2. LET u == filedup(s, f)
      IN Fine(u, x, Plus(y, f), t) /\ u.panic = "" /\ u.proc = s.proc
  BY ONLY <1>1, FiledupFine
<1> QED BY <1>2 DEF Done

(* A descriptor that is used, and the file it stands for.                  *)
LEMMA ArgfdIs ==
  ASSUME NEW s, NEW p, Ready(s, p), NEW v, argfd(s, p, v) # 0
  PROVE  /\ Value(s, p, v) \in Fds /\ argfd(s, p, v) \in Filenums
         /\ s.proc[p].fd[Value(s, p, v)] = argfd(s, p, v)
<1>1. IsProc(s.proc[p])
  BY ReadyIs
<1>2. s.proc[p].fd \in [Fds -> 0 .. NFILE]
  BY <1>1 DEF IsProc
<1>3. DOMAIN s.proc[p].fd = Fds
  BY <1>2
<1>4. Value(s, p, v) \in Fds /\ s.proc[p].fd[Value(s, p, v)] = argfd(s, p, v)
  BY <1>3 DEF argfd
<1>5. argfd(s, p, v) \in 0 .. NFILE
  BY <1>2, <1>4
<1>6. \A j \in 0 .. NFILE : j # 0 => j \in Filenums
  BY FilesAssumption DEF Filenums
<1> QED BY <1>4, <1>5, <1>6

(* fdalloc() finds a free descriptor.                                      *)
LEMMA FirstFdIs ==
  ASSUME NEW fds, FirstFd(fds) # -1
  PROVE  FirstFd(fds) \in Fds /\ fds[FirstFd(fds)] = 0
<1> DEFINE S == {d \in 0 .. NOFILE - 1 : fds[d] = 0}
<1>1. S # {} /\ FirstFd(fds) = Min(S)
  BY DEF FirstFd
<1>2. S \in SUBSET Nat
  OBVIOUS
<1> HIDE DEF S
<1>3. Min(S) \in S
  BY <1>1, <1>2, SmallestOf
<1> QED BY <1>1, <1>3 DEF S, Fds

(* A file in hand.                                                         *)
LEMMA Y0Is ==
  ASSUME NEW f \in Filenums
  PROVE  /\ Plus(Y0, f) \in [Filenums -> Int] /\ Plus(Y0, f)[f] = 1
         /\ \A e \in Filenums : e # f => Plus(Y0, f)[e] = 0
         /\ Minus(Y0, f) \in [Filenums -> Int] /\ Minus(Y0, f)[f] = -1
         /\ \A e \in Filenums : e # f => Minus(Y0, f)[e] = 0
         /\ Minus(Plus(Y0, f), f) = Y0 /\ Plus(Minus(Y0, f), f) = Y0
         /\ Y0 \in [Filenums -> Int] /\ \A e \in Filenums : Y0[e] = 0
BY DEF Plus, Minus, Y0

(* Fine with nothing in hand is idle.                                      *)
LEMMA IdleDone ==
  ASSUME NEW s, NEW r, Done(s, r, X0, Y0, 0)
  PROVE  Idle(r) /\ r.panic = "" /\ r.proc = s.proc
BY DEF Done, Idle

(* One of nothing.                                                         *)
LEMMA ZeroOne ==
  ASSUME NEW f \in Filenums
  PROVE  f # 0 /\ f \in 0 .. NFILE /\ One(0, f) = 0 /\ One(f, f) = 1
         /\ 0 \in 0 .. NFILE
         /\ \A e \in Filenums : e # f => One(f, e) = 0
BY FilesAssumption DEF One, Filenums

(* close() leaves nothing in hand.                                         *)
LEMMA CloseIdle ==
  ASSUME NEW s, NEW p, Ready(s, p), NEW i
  PROVE  Idle(sys_close(s, p, i))
<1> DEFINE f == argfd(s, p, i.fd)
           d == Value(s, p, i.fd)
<1>1. CASE f = 0
  BY <1>1, IdleReturn DEF sys_close, Ready
<1>2. CASE f # 0
  <2>1. d \in Fds /\ f \in Filenums /\ s.proc[p].fd[d] = f
    BY <1>2, ArgfdIs
  <2>0. PICK s1 : s1 = SetFd(s, p, d, 0)
    OBVIOUS
  <2>2. PICK r : r = fileclose(s1, f)
    OBVIOUS
  <2>3. sys_close(s, p, i) = Return(r, p, 0)
    BY <1>2, <2>0, <2>2, SetFdIs DEF sys_close
  <2> HIDE DEF f, d
  <2> DEFINE z == Plus(Y0, f)
  <2>4. /\ z \in [Filenums -> Int] /\ z[f] = 1
        /\ \A e \in Filenums : e # f => z[e] = 0
        /\ Minus(z, f) = Y0 /\ Y0 \in [Filenums -> Int]
        /\ \A e \in Filenums : Y0[e] = 0
    BY <2>1, Y0Is
  <2> HIDE DEF z
  <2>5. FdStep(s, X0, Y0, 0, p, d, 0, z)
    <3>1. \A e \in Filenums : z[e] + One(0, e) = Y0[e] + One(s.proc[p].fd[d], e)
      BY <2>1, <2>4, ZeroOne
    <3>2. 0 \in 0 .. NFILE
      BY <2>1, ZeroOne
    <3> QED BY ReadyIs, <2>1, <2>4, <3>1, <3>2 DEF FdStep
  <2>6. Fine(s1, X0, z, 0)
    BY ONLY <2>0, <2>5, FdStepFine
  <2>7. IsK(s) /\ s.panic = "" /\ p \in Slots
    BY ReadyIs
  <2>8. SetFdResult(s, p, d, 0, s1)
    BY ONLY <2>0, <2>7, SetFdFields
  <2>9. Healthy(s1, X0, z, 0, f)
    BY <2>1, <2>4, <2>6, <2>7, <2>8 DEF Healthy, SetFdResult, SameFs
  <2>10. z[f] >= 1 /\ 0 \in Nat
    BY <2>4
  <2>11. Done(s1, r, X0, Minus(z, f), 0)
    BY ONLY <2>2, <2>9, <2>10, FilecloseFine
  <2>12. Idle(r)
    BY <2>4, <2>11, IdleDone
  <2> QED BY <2>3, <2>7, <2>12, IdleReturn
<1> QED BY <1>1, <1>2

(* dup() leaves nothing in hand.                                           *)
LEMMA DupIdle ==
  ASSUME NEW s, NEW p, Ready(s, p), NEW i
  PROVE  Idle(sys_dup(s, p, i))
<1> DEFINE f == argfd(s, p, i.fd)
           d == FirstFd(s.proc[p].fd)
<1>1. CASE f = 0 \/ d = -1
  BY <1>1, IdleReturn DEF sys_dup, Ready
<1>2. CASE f # 0 /\ d # -1
  <2>1. d \in Fds /\ f \in Filenums /\ s.proc[p].fd[d] = 0
    BY <1>2, ArgfdIs, FirstFdIs
  <2>0. PICK s1 : s1 = SetFd(s, p, d, f)
    OBVIOUS
  <2>2. PICK r : r = filedup(s1, f)
    OBVIOUS
  <2>3. sys_dup(s, p, i) = Return(r, p, d)
    BY <1>2, <2>0, <2>2, SetFdIs DEF sys_dup
  <2> HIDE DEF f, d
  <2> DEFINE z == Minus(Y0, f)
  <2>4. /\ z \in [Filenums -> Int] /\ z[f] = -1
        /\ \A e \in Filenums : e # f => z[e] = 0
        /\ Plus(z, f) = Y0 /\ Y0 \in [Filenums -> Int]
        /\ \A e \in Filenums : Y0[e] = 0
    BY <2>1, Y0Is
  <2> HIDE DEF z
  <2>5. FdStep(s, X0, Y0, 0, p, d, f, z)
    <3>1. \A e \in Filenums : z[e] + One(f, e) = Y0[e] + One(s.proc[p].fd[d], e)
      BY <2>1, <2>4, ZeroOne
    <3>2. f \in 0 .. NFILE
      BY <2>1, ZeroOne
    <3> QED BY ReadyIs, <2>1, <2>4, <3>1, <3>2 DEF FdStep
  <2>6. Fine(s1, X0, z, 0)
    BY ONLY <2>0, <2>5, FdStepFine
  <2>7. IsK(s) /\ s.panic = "" /\ p \in Slots
    BY ReadyIs
  <2>8. SetFdResult(s, p, d, f, s1)
    BY ONLY <2>0, <2>7, SetFdFields
  <2>9. Healthy(s1, X0, z, 0, f)
    BY <2>1, <2>4, <2>6, <2>7, <2>8 DEF Healthy, SetFdResult, SameFs
  <2>11. Done(s1, r, X0, Plus(z, f), 0)
    BY ONLY <2>2, <2>9, FiledupDone
  <2>12. Idle(r)
    BY <2>4, <2>11, IdleDone
  <2> QED BY <2>3, <2>7, <2>12, IdleReturn
<1> QED BY <1>1, <1>2

-----------------------------------------------------------------------------
(* filealloc(), and the file that open() makes.                            *)

(* filealloc() finds a free file, or none.                                 *)
LEMMA FilealloIs ==
  ASSUME NEW s, filealloc(s) # 0
  PROVE  filealloc(s) \in Filenums /\ s.file[filealloc(s)].ref = 0
<1> DEFINE S == {f \in 1 .. NFILE : s.file[f].ref = 0}
<1>1. S # {} /\ filealloc(s) = Min(S)
  BY DEF filealloc
<1>2. S \in SUBSET Nat
  OBVIOUS
<1> HIDE DEF S
<1>3. Min(S) \in S
  BY <1>1, <1>2, SmallestOf
<1> QED BY <1>1, <1>3 DEF S, Filenums

(* The file that open() makes is a file of that inode.                     *)
LEMMA OpenFileIs ==
  ASSUME NEW mode, NEW ip, NEW d, NEW g, g = OpenFile(mode, ip, d)
  PROVE  /\ IsFile(g) /\ g.ref = 1 /\ g.ip = ip
         /\ g.type \in {"inode", "device"}
         /\ (g.type = "device") <=> (d.type = "device")
         /\ mode = RDONLY => ~g.w
<1>1. /\ NoFile = [n \in FileFields |-> NoFile[n]] /\ NoFile.off = 0
  BY DEF NoFile, FileFields
<1>2. PICK b : b = (mode \cap {"w", "rw"} # {})
  OBVIOUS
<1>3. PICK a : a = ("w" \notin mode)
  OBVIOUS
<1>4. PICK u : u = IF d.type = "device" THEN "device" ELSE "inode"
  OBVIOUS
<1>5. PICK n : n = IF d.type = "device" THEN d.major ELSE 0
  OBVIOUS
<1>6. g = [NoFile EXCEPT !.ref = 1, !.ip = ip, !.r = a, !.w = b,
                         !.type = u, !.major = n]
  BY <1>2, <1>3, <1>4, <1>5 DEF OpenFile
<1>7. g = [j \in FileFields |-> g[j]]
  BY ONLY <1>1, <1>6
<1>8. g.ref = 1 /\ g.ip = ip /\ g.w = b /\ g.type = u /\ g.off = 0
  BY ONLY <1>1, <1>6 DEF FileFields
<1>9. b \in BOOLEAN
  BY <1>2
<1>10. mode = RDONLY => b = FALSE
  BY <1>2 DEF RDONLY
<1> QED BY <1>4, <1>7, <1>8, <1>9, <1>10 DEF IsFile

-----------------------------------------------------------------------------
(* open(), in parts.                                                       *)

OpenWalk(s, p, i) ==
  IF "create" \in i.mode THEN create(s, s.proc[p].cwd, i.path, "file", 0)
  ELSE namei(s, s.proc[p].cwd, i.path)
(* The file and the descriptor are given out.                              *)
Given(s1, p, fd, f, g) == SetFd(PutFile(s1, f, g), p, fd, f)
Opened2(s1, p, f, fd, g) == [s1 EXCEPT !.file[f] = g, !.proc[p].fd[fd] = f]
Refused(s1, ip, i, f, fd) ==
  \/ s1.ino[ip].type = "dir" /\ i.mode # RDONLY
  \/ s1.ino[ip].type = "device" /\ s1.ino[ip].major \notin 0 .. NDEV - 1
  \/ f = 0 \/ fd = -1

(* A descriptor, a file and an inode are tied together.                    *)
LEMMA GivenIs ==
  ASSUME NEW s, IsK(s), NEW p, NEW fd, NEW f, NEW g
  PROVE  Opened2(s, p, f, fd, g) = Given(s, p, fd, f, g)
<1>1. ASSUME NEW u, u = PutFile(s, f, g)
      PROVE  SetFd(u, p, fd, f) = [s EXCEPT !.file[f] = g, !.proc[p].fd[fd] = f]
  <2>1. u.proc = s.proc
    BY <1>1, PutFileIs
  <2>2. SetFd(u, p, fd, f) = [u EXCEPT !.proc[p].fd[fd] = f]
    BY SetFdIs
  <2>3. u = [s EXCEPT !.file[f] = g]
    BY <1>1 DEF PutFile, Put
  <2> QED BY ONLY <2>2, <2>3
<1> QED BY <1>1 DEF Given, Opened2

OpenResult(s, p, i, o, s1, f, fd, d, s2) ==
  IF ~argstr(s, p, i.path) THEN Return(s, p, -1)
  ELSE IF o.ip = 0 THEN Return(o.k, p, -1)
  ELSE IF \/ d.type = "dir" /\ i.mode # RDONLY
          \/ d.type = "device" /\ d.major \notin 0 .. NDEV - 1
          \/ f = 0 \/ fd = -1
  THEN Return(iput(s1, o.ip), p, -1)
  ELSE Return(IF "trunc" \in i.mode /\ d.type = "file" THEN itrunc(s2, o.ip)
              ELSE s2, p, fd)

(* sys_open() is these parts.                                              *)
LEMMA OpenUnfold ==
  ASSUME NEW s, NEW p, NEW i
  PROVE  sys_open(s, p, i) =
           LET o == OpenWalk(s, p, i)
               s1 == ilock(o.k, o.ip)
               d == s1.ino[o.ip]
               f == filealloc(s1)
               fd == FirstFd(s.proc[p].fd)
               s2 == Opened2(s1, p, f, fd, OpenFile(i.mode, o.ip, d))
           IN OpenResult(s, p, i, o, s1, f, fd, d, s2)
BY DEF sys_open, OpenWalk, OpenResult, Opened2

(* It fails, or gives a descriptor.                                        *)
LEMMA OpenIs ==
  ASSUME NEW s, NEW p, NEW i, NEW o, o = OpenWalk(s, p, i), NEW s1,
         s1 = ilock(o.k, o.ip), NEW f, f = filealloc(s1), NEW fd,
         fd = FirstFd(s.proc[p].fd), NEW d, d = s1.ino[o.ip], NEW g,
         g = OpenFile(i.mode, o.ip, d), NEW s2,
         s2 = Opened2(s1, p, f, fd, g)
  PROVE  \/ sys_open(s, p, i) = Return(s, p, -1)
         \/ o.ip = 0 /\ sys_open(s, p, i) = Return(o.k, p, -1)
         \/ o.ip # 0 /\ sys_open(s, p, i) = Return(iput(s1, o.ip), p, -1)
         \/ /\ o.ip # 0 /\ ~Refused(s1, o.ip, i, f, fd)
            /\ \/ sys_open(s, p, i) = Return(s2, p, fd)
               \/ sys_open(s, p, i) = Return(itrunc(s2, o.ip), p, fd)
<1>1. sys_open(s, p, i) = OpenResult(s, p, i, o, s1, f, fd, d, s2)
  BY OpenUnfold
<1> QED BY <1>1 DEF OpenResult, Refused

-----------------------------------------------------------------------------
(* open().                                                                 *)

X0Is(i) ==
  /\ Plus(X0, i) \in [Inums -> Nat] /\ X0 \in [Inums -> Nat]
  /\ \A j \in Inums : Plus(X0, i)[j] = One(i, j) /\ X0[j] = 0

(* One inode in hand.                                                      *)
LEMMA X0Plus ==
  ASSUME NEW i \in Inums
  PROVE  X0Is(i)
BY DEF X0Is, Plus, X0, One

CanGive(s1, p, fd, f, g) ==
  /\ g.ip \in Inums /\ Fine(s1, Plus(X0, g.ip), Y0, 0) /\ s1.panic = ""
  /\ f \in Filenums /\ s1.file[f].ref = 0 /\ p \in Slots
  /\ s1.proc[p].st = "used" /\ fd \in Fds /\ s1.proc[p].fd[fd] = 0
  /\ IsFile(g) /\ g.ref = 1 /\ g.type \in {"inode", "device"}
  /\ Openable(s1.ino, g)

(* What was in hand is in the file now.                                    *)
LEMMA GivenFine ==
  ASSUME NEW s1, NEW p, NEW fd, NEW f, NEW g, CanGive(s1, p, fd, f, g), NEW r,
         r = Given(s1, p, fd, f, g)
  PROVE  Idle(r)
<1>0. /\ g.ip \in Inums /\ Fine(s1, Plus(X0, g.ip), Y0, 0) /\ s1.panic = ""
      /\ f \in Filenums /\ s1.file[f].ref = 0 /\ p \in Slots
      /\ s1.proc[p].st = "used" /\ fd \in Fds /\ s1.proc[p].fd[fd] = 0
      /\ IsFile(g) /\ g.ref = 1 /\ g.type \in {"inode", "device"}
      /\ Openable(s1.ino, g)
  BY DEF CanGive
<1> DEFINE z == Plus(Y0, f)
<1>1. /\ z \in [Filenums -> Int] /\ z[f] = 1
      /\ \A e \in Filenums : e # f => z[e] = 0
      /\ Y0 \in [Filenums -> Int] /\ \A e \in Filenums : Y0[e] = 0
  BY <1>0, Y0Is
<1> HIDE DEF z
<1>2. PICK r1 : r1 = PutFile(s1, f, g)
  OBVIOUS
<1>3. FsOk(s1, Plus(X0, g.ip)) /\ Others(s1, Y0, 0) /\ IsK(s1)
  BY <1>0 DEF Fine, FsOk
<1>4. /\ SameFs(s1, r1) /\ r1.proc = s1.proc /\ r1.file = Put(s1.file, f, g)
      /\ r1.pipe = s1.pipe /\ r1.pages = s1.pages /\ r1.free = s1.free
      /\ r1.tty = s1.tty
  BY ONLY <1>2, <1>3, PutFileFields
<1>5. s1.file = [j \in Filenums |-> s1.file[j]] /\ s1.file[f].type = "none"
  BY <1>0, <1>3 DEF Others, Files0
<1> DEFINE v == Put(s1.file, f, g)
<1>6. v[f] = g /\ \A j \in Filenums : j # f => v[j] = s1.file[j]
  BY <1>0, <1>5 DEF Put
<1>7. Pipes(v, s1.pipe)
  <2>1. \A j \in Filenums :
           /\ (v[j].type = "pipe") <=> (s1.file[j].type = "pipe")
           /\ v[j].type = "pipe" =>
                v[j].pipe = s1.file[j].pipe /\ v[j].w = s1.file[j].w
    BY <1>0, <1>5, <1>6
  <2>2. Pipes(s1.file, s1.pipe)
    BY <1>3 DEF Others
  <2> HIDE DEF v
  <2> QED BY ONLY <2>1, <2>2, PipesSame
<1>8. FileStep(s1, Plus(X0, g.ip), Y0, 0, f, g, X0, z, 0, r1)
  <2>1. Recount(Y0, z, f, s1.file[f].ref, g.ref)
    <3>1. z[f] = 1 /\ s1.file[f].ref = 0 /\ Y0[f] = 0 /\ g.ref = 1
      BY <1>0, <1>1
    <3>2. z[f] + s1.file[f].ref = Y0[f] + g.ref
      BY ONLY <3>1
    <3>3. \A e \in Filenums : e # f => z[e] = Y0[e]
      BY <1>1
    <3> QED BY <3>2, <3>3 DEF Recount
  <2>2. X0Is(g.ip)
    BY <1>0, X0Plus
  <2>3. Inum(g) = g.ip /\ Inum(s1.file[f]) = 0
    BY <1>0, <1>5 DEF Inum
  <2>4. \A i \in Inums : One(0, i) = 0
    BY InumsIs DEF One
  <2>5. \A i \in Inums : X0[i] + One(Inum(g), i) = Plus(X0, g.ip)[i] + One(Inum(s1.file[f]), i)
    <3>1. \A i \in Inums : Plus(X0, g.ip)[i] = One(g.ip, i) /\ X0[i] = 0
      BY <2>2 DEF X0Is
    <3>2. \A i \in Inums : One(g.ip, i) \in Int
      BY OneType
    <3> QED BY ONLY <2>3, <2>4, <3>1, <3>2
  <2>6. Pipes(r1.file, r1.pipe) /\ Pages0(r1.free, r1.proc, r1.pipe, r1.pages, 0)
    BY <1>3, <1>4, <1>7 DEF Others
  <2>7. X0 \in [Inums -> Nat] /\ (g.ref = 0 => g.type = "none")
    <3>1. X0 \in [Inums -> Nat]
      BY ONLY <2>2 DEF X0Is
    <3>2. g.ref = 1
      BY <1>0
    <3>3. g.ref # 0
      BY ONLY <3>2
    <3> QED BY <3>1, <3>3
  <2> QED BY ONLY <1>0, <1>1, <1>4, <2>1, <2>5, <2>6, <2>7 DEF FileStep
<1>9. Fine(r1, X0, z, 0)
  BY ONLY <1>8, FileStepFine
<1>10. FdStep(r1, X0, z, 0, p, fd, f, Y0)
  <2>1. \A e \in Filenums : Y0[e] + One(f, e) = z[e] + One(r1.proc[p].fd[fd], e)
    <3>1. r1.proc[p].fd[fd] = 0
      BY <1>0, <1>4
    <3>2. \A e \in Filenums : One(0, e) = 0 /\ One(f, f) = 1 /\ (e # f => One(f, e) = 0)
      BY <1>0, ZeroOne
    <3>3. z[f] = 1 /\ (\A e \in Filenums : e # f => z[e] = 0)
          /\ \A e \in Filenums : Y0[e] = 0
      BY <1>1
    <3>4. f \in Filenums
      BY <1>0
    <3>5. \A e \in Filenums : Y0[e] + One(f, e) = z[e] + One(0, e)
      BY ONLY <3>2, <3>3, <3>4
    <3> QED BY <3>1, <3>5
  <2>2. f \in 0 .. NFILE
    BY <1>0, ZeroOne
  <2> QED BY <1>0, <1>1, <1>4, <1>9, <2>1, <2>2 DEF FdStep, SameFs
<1>11. r = SetFd(r1, p, fd, f)
  BY <1>2 DEF Given
<1>12. Fine(r, X0, Y0, 0)
  BY ONLY <1>10, <1>11, FdStepFine
<1> QED BY <1>12 DEF Idle

(* The file system is left alone.                                          *)
LEMMA GivenSame ==
  ASSUME NEW s1, IsK(s1), NEW p, NEW fd, NEW f, NEW g, NEW r,
         r = Given(s1, p, fd, f, g)
  PROVE  SameFs(s1, r)
<1>1. PICK r1 : r1 = PutFile(s1, f, g)
  OBVIOUS
<1>2. SameFs(s1, r1) /\ IsK(r1)
  BY <1>1, PutFileFields DEF SameFs
<1>3. r = SetFd(r1, p, fd, f)
  BY <1>1 DEF Given
<1>4. SetFdResult(r1, p, fd, f, r)
  BY ONLY <1>2, <1>3, SetFdFields
<1> QED BY <1>2, <1>4 DEF SetFdResult, SameFs

(* open() finds or creates an inode, and has a reference to it.            *)
LEMMA WalkOpen ==
  ASSUME NEW s, NEW p, Ready(s, p), NEW i, IsSeq(i.path)
  PROVE  Walk(s, X0, OpenWalk(s, p, i))
<1>1. FsOk(s, X0) /\ s.proc[p].cwd \in Inums
  BY ReadyIs
<1>2. "file" # "free"
  OBVIOUS
<1>3. Walk(s, X0, create(s, s.proc[p].cwd, i.path, "file", 0))
  BY <1>1, <1>2, CreateFs
<1>4. Walk(s, X0, namei(s, s.proc[p].cwd, i.path))
  BY <1>1, NameiFs
<1> QED BY <1>3, <1>4 DEF OpenWalk

(* Back from a walk without an inode, or with one.                         *)
LEMMA WalkDone ==
  ASSUME NEW s, NEW p, Ready(s, p), NEW o, Walk(s, X0, o)
  PROVE  /\ o.ip = 0 => Idle(o.k)
         /\ o.ip # 0 => /\ o.ip \in Inums /\ Fine(o.k, Plus(X0, o.ip), Y0, 0)
                        /\ FsOk(o.k, Plus(X0, o.ip)) /\ Keeps(s, o.k)
<1>1. /\ o.ip \in 0 .. NINODES /\ FsOk(o.k, Hand(X0, o.ip)) /\ Keeps(s, o.k)
  BY DEF Walk
<1>2. Fine(s, X0, Y0, 0)
  BY ReadyIs
<1>3. Fine(o.k, Hand(X0, o.ip), Y0, 0)
  BY <1>1, <1>2, Lift
<1>4. o.ip # 0 => o.ip \in Inums
  BY <1>1, InumsIs
<1> QED BY <1>1, <1>3, <1>4 DEF Hand, Idle

(* open() leaves nothing in hand.                                          *)
LEMMA OpenIdle ==
  ASSUME NEW s, NEW p, Ready(s, p), NEW i, IsSeq(i.path)
  PROVE  Idle(sys_open(s, p, i))
<1>1. PICK o : o = OpenWalk(s, p, i)
  OBVIOUS
<1>2. PICK s1 : s1 = ilock(o.k, o.ip)
  OBVIOUS
<1>3. PICK f : f = filealloc(s1)
  OBVIOUS
<1>4. PICK fd : fd = FirstFd(s.proc[p].fd)
  OBVIOUS
<1>5. PICK d : d = s1.ino[o.ip]
  OBVIOUS
<1>6. PICK g : g = OpenFile(i.mode, o.ip, d)
  OBVIOUS
<1>7. PICK s2 : s2 = Opened2(s1, p, f, fd, g)
  OBVIOUS
<1>8. PICK r : r = sys_open(s, p, i)
  OBVIOUS
<1>9. \/ r = Return(s, p, -1)
      \/ o.ip = 0 /\ r = Return(o.k, p, -1)
      \/ o.ip # 0 /\ r = Return(iput(s1, o.ip), p, -1)
      \/ /\ o.ip # 0 /\ ~Refused(s1, o.ip, i, f, fd)
         /\ \/ r = Return(s2, p, fd)
            \/ r = Return(itrunc(s2, o.ip), p, fd)
  BY ONLY <1>1, <1>2, <1>3, <1>4, <1>5, <1>6, <1>7, <1>8, OpenIs
<1>10. Walk(s, X0, o)
  BY <1>1, WalkOpen
<1>11. p \in Slots /\ Idle(s) /\ s.panic = "" /\ s.proc[p].st = "used"
  BY DEF Ready
<1>12. CASE r = Return(s, p, -1)
  BY <1>8, <1>11, <1>12, IdleReturn
<1>13. CASE o.ip = 0 /\ r = Return(o.k, p, -1)
  <2>1. Idle(o.k)
    BY <1>10, <1>13, WalkDone
  <2> QED BY <1>8, <1>11, <1>13, <2>1, IdleReturn
<1>14. ASSUME o.ip # 0
       PROVE  /\ o.ip \in Inums /\ FsOk(s1, Plus(X0, o.ip)) /\ Keeps(s, s1)
              /\ Fine(s1, Plus(X0, o.ip), Y0, 0)
              /\ (s1.panic = "" => s1.ino[o.ip].type # "free")
  <2>1. /\ o.ip \in Inums /\ Fine(o.k, Plus(X0, o.ip), Y0, 0)
        /\ FsOk(o.k, Plus(X0, o.ip)) /\ Keeps(s, o.k)
    BY <1>10, <1>14, WalkDone
  <2>2. X0 \in [Inums -> Nat]
    BY ZeroIs
  <2>3. Plus(X0, o.ip)[o.ip] >= 1
    BY <2>1, <2>2, PlusIs
  <2>4. FsOk(s1, Plus(X0, o.ip)) /\ Keeps(o.k, s1) /\ s1.ino = o.k.ino
        /\ (s1.panic = "" => o.k.ino[o.ip].type # "free")
    BY <1>2, <2>1, <2>3, IlockFs
  <2>5. Keeps(s, s1)
    BY <2>1, <2>4, KeepsTwice
  <2>6. Fine(s1, Plus(X0, o.ip), Y0, 0)
    BY ONLY <2>1, <2>4, Lift
  <2> QED BY <2>1, <2>4, <2>5, <2>6
<1>15. CASE o.ip # 0 /\ r = Return(iput(s1, o.ip), p, -1)
  <2>1. /\ o.ip \in Inums /\ FsOk(s1, Plus(X0, o.ip))
        /\ Fine(s1, Plus(X0, o.ip), Y0, 0)
    BY <1>14, <1>15
  <2>2. PICK u : u = iput(s1, o.ip)
    OBVIOUS
  <2>3. FsOk(u, X0) /\ Keeps(s1, u)
    BY <2>1, <2>2, IputLast, ZeroIs
  <2>4. Fine(u, X0, Y0, 0)
    BY ONLY <2>1, <2>3, Lift
  <2> QED BY <1>8, <1>11, <1>15, <2>2, <2>4, IdleReturn DEF Idle
<1>16. CASE /\ o.ip # 0 /\ ~Refused(s1, o.ip, i, f, fd)
            /\ \/ r = Return(s2, p, fd)
               \/ r = Return(itrunc(s2, o.ip), p, fd)
  <2>1. /\ o.ip \in Inums /\ FsOk(s1, Plus(X0, o.ip)) /\ Keeps(s, s1)
        /\ Fine(s1, Plus(X0, o.ip), Y0, 0)
        /\ (s1.panic = "" => s1.ino[o.ip].type # "free")
    BY <1>14, <1>16
  <2>2. IsK(s1)
    BY <2>1 DEF FsOk
  <2>3. s2 = Given(s1, p, fd, f, g)
    BY <1>7, <2>2, GivenIs
  <2>4. Idle(s2)
    <3>1. CASE s1.panic # ""
      <4>1. SameFs(s1, s2)
        BY ONLY <2>2, <2>3, GivenSame
      <4>2. Fine(s2, X0, Y0, 0)
        BY <2>1, <3>1, <4>1, SickFine, ZeroIs
      <4> QED BY <4>2 DEF Idle
    <3>2. CASE s1.panic = ""
      <4>1. /\ IsFile(g) /\ g.ref = 1 /\ g.ip = o.ip
            /\ g.type \in {"inode", "device"}
            /\ (g.type = "device") <=> (d.type = "device")
            /\ i.mode = RDONLY => ~g.w
        BY ONLY <1>6, OpenFileIs
      <4>2. f # 0 /\ fd # -1 /\ (s1.ino[o.ip].type = "dir" => i.mode = RDONLY)
        BY <1>16 DEF Refused
      <4>3. f \in Filenums /\ s1.file[f].ref = 0
        BY <1>3, <4>2, FilealloIs
      <4>4. fd \in Fds /\ s.proc[p].fd[fd] = 0
        BY <1>4, <4>2, FirstFdIs
      <4>5. s1.proc = s.proc
        BY <2>1 DEF Keeps, Rest
      <4>6. Openable(s1.ino, g)
        BY <1>5, <2>1, <3>2, <4>1, <4>2 DEF Openable
      <4>7. CanGive(s1, p, fd, f, g)
        BY <1>11, <2>1, <3>2, <4>1, <4>3, <4>4, <4>5, <4>6 DEF CanGive
      <4> QED BY ONLY <2>3, <4>7, GivenFine
    <3> QED BY <3>1, <3>2
  <2>5. PICK u : u = itrunc(s2, o.ip)
    OBVIOUS
  <2>6. FsOk(s2, X0)
    BY <2>4 DEF Idle, Fine
  <2>7. FsOk(u, X0) /\ Keeps(s2, u)
    BY <2>1, <2>5, <2>6, ItruncFs
  <2>8. Idle(u)
    <3>1. Fine(s2, X0, Y0, 0)
      BY <2>4 DEF Idle
    <3>2. Fine(u, X0, Y0, 0)
      BY ONLY <2>7, <3>1, Lift
    <3> QED BY <3>2 DEF Idle
  <2> QED BY <1>8, <1>11, <1>16, <2>4, <2>5, <2>8, IdleReturn
<1> QED BY <1>8, <1>9, <1>12, <1>13, <1>15, <1>16

-----------------------------------------------------------------------------
(* mkdir(), mknod(), link(), unlink().                                     *)

(* A step of the file system with nothing in hand.                         *)
LEMMA LiftIdle ==
  ASSUME NEW s, Idle(s), NEW r, FsOk(r, X0), Keeps(s, r)
  PROVE  Idle(r)
<1>1. Fine(s, X0, Y0, 0)
  BY DEF Idle
<1>2. Fine(r, X0, Y0, 0)
  BY ONLY <1>1, FsOk(r, X0), Keeps(s, r), Lift
<1> QED BY <1>2 DEF Idle

MakeResult(s, p, i, c) ==
  IF ~argstr(s, p, i.path) THEN Return(s, p, -1)
  ELSE IF c.ip = 0 THEN Return(c.k, p, -1)
  ELSE Return(iput(c.k, c.ip), p, 0)

(* create() and iput(), as mkdir() and mknod() do.                         *)
LEMMA MakeUnfold ==
  ASSUME NEW s, NEW p, NEW i, NEW type, NEW major
  PROVE  Make(s, p, i, type, major) =
           MakeResult(s, p, i, create(s, s.proc[p].cwd, i.path, type, major))
BY DEF Make, MakeResult

(* They leave nothing in hand.                                             *)
LEMMA MakeIdle ==
  ASSUME NEW s, NEW p, Ready(s, p), NEW i, IsSeq(i.path), NEW type,
         type # "free", NEW major
  PROVE  Idle(Make(s, p, i, type, major))
<1>0. PICK c : c = create(s, s.proc[p].cwd, i.path, type, major)
  OBVIOUS
<1>1. Make(s, p, i, type, major) = MakeResult(s, p, i, c)
  BY <1>0, MakeUnfold
<1>2. Walk(s, X0, c)
  <2>1. FsOk(s, X0) /\ s.proc[p].cwd \in Inums
    BY ReadyIs
  <2> QED BY <1>0, <2>1, CreateFs
<1>3. Idle(s) /\ p \in Slots
  BY DEF Ready
<1>4. c.ip = 0 => Idle(c.k)
  BY <1>2, WalkDone
<1>5. c.ip # 0 => Idle(iput(c.k, c.ip))
  <2> SUFFICES ASSUME c.ip # 0 PROVE Idle(iput(c.k, c.ip))
    OBVIOUS
  <2>1. c.ip \in Inums /\ FsOk(c.k, Plus(X0, c.ip)) /\ Keeps(s, c.k)
    BY <1>2, WalkDone
  <2>2. PICK u : u = iput(c.k, c.ip)
    OBVIOUS
  <2>3. FsOk(u, X0) /\ Keeps(c.k, u)
    BY <2>1, <2>2, IputLast, ZeroIs
  <2>4. Keeps(s, u)
    BY <2>1, <2>3, KeepsTwice
  <2> QED BY <1>3, <2>2, <2>3, <2>4, LiftIdle
<1> QED BY <1>1, <1>3, <1>4, <1>5, IdleReturn DEF MakeResult

(* mkdir().                                                                *)
LEMMA MkdirIdle ==
  ASSUME NEW s, NEW p, Ready(s, p), NEW i, IsSeq(i.path)
  PROVE  Idle(sys_mkdir(s, p, i))
BY MakeIdle DEF sys_mkdir

(* mknod().                                                                *)
LEMMA MknodIdle ==
  ASSUME NEW s, NEW p, Ready(s, p), NEW i, IsSeq(i.path)
  PROVE  Idle(sys_mknod(s, p, i))
BY MakeIdle DEF sys_mknod

(* link().                                                                 *)
LEMMA LinkIdle ==
  ASSUME NEW s, NEW p, Ready(s, p), NEW i, IsSeq(i.path), IsSeq(i.new)
  PROVE  Idle(sys_link(s, p, i))
<1>0. PICK l : l = DoLink(s, s.proc[p].cwd, i.path, i.new)
  OBVIOUS
<1>1. sys_link(s, p, i) = IF argstr(s, p, i.path) THEN Return(l.k, p, l.ret)
                          ELSE Return(s, p, -1)
  BY <1>0 DEF sys_link
<1>2. FsOk(l.k, X0) /\ Keeps(s, l.k)
  <2>1. FsOk(s, X0) /\ s.proc[p].cwd \in Inums
    BY ReadyIs
  <2> QED BY <1>0, <2>1, DoLinkFs
<1>3. Idle(s) /\ p \in Slots
  BY DEF Ready
<1>4. Idle(l.k)
  BY <1>2, <1>3, LiftIdle
<1> QED BY <1>1, <1>3, <1>4, IdleReturn

(* unlink().                                                               *)
LEMMA UnlinkIdle ==
  ASSUME NEW s, NEW p, Ready(s, p), NEW i, IsSeq(i.path)
  PROVE  Idle(sys_unlink(s, p, i))
<1>0. PICK l : l = DoUnlink(s, s.proc[p].cwd, i.path)
  OBVIOUS
<1>1. sys_unlink(s, p, i) = IF argstr(s, p, i.path) THEN Return(l.k, p, l.ret)
                            ELSE Return(s, p, -1)
  BY <1>0 DEF sys_unlink
<1>2. FsOk(l.k, X0) /\ Keeps(s, l.k)
  <2>1. FsOk(s, X0) /\ s.proc[p].cwd \in Inums
    BY ReadyIs
  <2> QED BY <1>0, <2>1, DoUnlinkFs
<1>3. Idle(s) /\ p \in Slots
  BY DEF Ready
<1>4. Idle(l.k)
  BY <1>2, <1>3, LiftIdle
<1> QED BY <1>1, <1>3, <1>4, IdleReturn
=============================================================================
