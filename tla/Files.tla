-------------------------------- MODULE Files --------------------------------
(***************************************************************************)
(* The file system above the log: fs.c, file.c and the helpers of          *)
(* sysfile.c, as operators from one kernel state to the next.  The parts   *)
(* of a kernel state k they work on:                                       *)
(*   k.ino[i]   inode i: type, nlink, major, its contents data (a sequence *)
(*              of units; of entries <<name, inode>> in a directory, free  *)
(*              ones with inode 0), nblk blocks of contents that are       *)
(*              allocated, ind whether the indirect block is               *)
(*   k.ref[i]   references to inode i in the inode table                   *)
(*   k.bfree    free blocks in the bitmap                                  *)
(*   k.file[f]  the file table; k.pipe[q] the pipes that exist             *)
(*   k.free     free pages (module Memory)                                 *)
(*   k.panic    what the kernel panicked with, or ""                       *)
(* One system call runs alone here: the order in which it takes locks, and *)
(* what may come between, is the subject of module Inode.                  *)
(***************************************************************************)
EXTENDS Integers, FiniteSetsExt, SequencesExt, Functions, TLC

CONSTANTS NINODES,     \* inodes on disk
          NINODE,      \* entries of the inode table
          NDIRECT, NINDIRECT,
          NFILE, NOFILE, DIRSIZ,
          BSIZE        \* units in a block

ASSUME FilesAssumption ==
  /\ {NINODES, NFILE, NOFILE, BSIZE} \subseteq Nat \ {0} /\ NDIRECT \in Nat

ROOTINO == 1
MAXFILE == NDIRECT + NINDIRECT
Entry(name, i) == <<name, i>>
FreeEntry == Entry("", 0)
Panic(k, what) == [k EXCEPT !.panic = IF @ = "" THEN what ELSE @]

FreeInode == [type |-> "free", nlink |-> 0, major |-> 0, data |-> <<>>,
              nblk |-> 0, ind |-> FALSE]
NoFile == [ref |-> 0, type |-> "none", r |-> FALSE, w |-> FALSE, ip |-> 0,
           off |-> 0, pipe |-> 0, major |-> 0]

-----------------------------------------------------------------------------
(* Blocks of an inode. *)

balloc(k) == IF k.bfree > 0 THEN [k |-> [k EXCEPT !.bfree = @ - 1], ok |-> TRUE]
             ELSE [k |-> k, ok |-> FALSE]

(* Block bn of inode i; the indirect block stays when the one it should   *)
(* point to cannot be had.                                                 *)
bmap(k, i, bn) ==
  LET ind == bn >= NDIRECT /\ ~k.ino[i].ind
      b1 == balloc(k)
      k1 == IF ind THEN [b1.k EXCEPT !.ino[i].ind = TRUE] ELSE k
      b2 == balloc(k1)
  IN IF bn < k.ino[i].nblk THEN [k |-> k, ok |-> TRUE]
     ELSE IF ind /\ ~b1.ok THEN b1
     ELSE IF ~b2.ok THEN b2
     ELSE [k |-> [b2.k EXCEPT !.ino[i].nblk = @ + 1], ok |-> TRUE]

itrunc(k, i) ==
  LET d == k.ino[i]
      direct == Min({d.nblk, NDIRECT})
      indirect == IF d.ind THEN d.nblk - direct + 1 ELSE 0
  IN [k EXCEPT !.bfree = @ + direct + indirect,
               !.ino[i] = [@ EXCEPT !.data = <<>>, !.nblk = 0, !.ind = FALSE]]

readi(k, i, off, n) ==
  LET data == k.ino[i].data
  IN IF off > Len(data) THEN <<>>
     ELSE SubSeq(data, off + 1, Min({off + n, Len(data)}))

(* Block after block, until one cannot be had or the source, of which the *)
(* first good units are readable, ends.  A block allocated in vain stays.  *)
writei(k, i, off, units, good) ==
  LET n == Len(units)
      old == k.ino[i].data
      first == off \div BSIZE
      last == IF n = 0 THEN first - 1 ELSE (off + n - 1) \div BSIZE
      upto(bn) == Min({n, (bn + 1) * BSIZE - off})
      w[bn \in first - 1 .. last] ==
        IF bn = first - 1 THEN [k |-> k, tot |-> 0, go |-> TRUE]
        ELSE LET acc == w[bn - 1]
                 b == bmap(acc.k, i, bn)
             IN IF ~acc.go THEN acc
                ELSE IF ~b.ok \/ upto(bn) > good
                THEN [k |-> b.k, tot |-> acc.tot, go |-> FALSE]
                ELSE [k |-> b.k, tot |-> upto(bn), go |-> TRUE]
      tot == w[last].tot
      new == [j \in 1 .. Max({Len(old), off + tot}) |->
                IF j > off /\ j <= off + tot THEN units[j - off] ELSE old[j]]
  IN IF off > Len(old) \/ off + n > MAXFILE * BSIZE THEN [k |-> k, n |-> -1]
     ELSE [k |-> [w[last].k EXCEPT !.ino[i].data = new], n |-> tot]

-----------------------------------------------------------------------------
(* The inode table. *)

iget(k, i) ==
  IF k.ref[i] = 0 /\ Cardinality({j \in DOMAIN k.ref : k.ref[j] > 0}) >= NINODE
  THEN Panic(k, "iget: no inodes") ELSE [k EXCEPT !.ref[i] = @ + 1]
idup(k, i) == [k EXCEPT !.ref[i] = @ + 1]

ilock(k, i) ==
  IF k.ref[i] < 1 THEN Panic(k, "ilock")
  ELSE IF k.ino[i].type = "free" THEN Panic(k, "ilock: no type") ELSE k

(* The last reference to an inode without links frees it. *)
ifree(k, i) == [itrunc(k, i) EXCEPT !.ino[i].type = "free"]
refless(k, i) == [k EXCEPT !.ref[i] = @ - 1]
iput(k, i) ==
  LET last == k.ref[i] = 1 /\ k.ino[i].nlink = 0
  IN refless(IF last THEN ifree(k, i) ELSE k, i)

(* The first free inode, or 0. *)
ialloc(k, type) ==
  LET unused == {i \in ROOTINO .. NINODES : k.ino[i].type = "free"}
      i == Min(unused)
  IN IF unused = {} THEN [k |-> k, ip |-> 0]
     ELSE [k |-> iget([k EXCEPT !.ino[i] = [FreeInode EXCEPT !.type = type]],
                      i), ip |-> i]

-----------------------------------------------------------------------------
(* Directories and paths.  A path is a sequence of names, with "/" first   *)
(* when it is absolute; only DIRSIZ characters of a name count.            *)

Short(name) == IF Len(name) > DIRSIZ THEN SubSeq(name, 1, DIRSIZ) ELSE name

(* Where name is in directory d, or 0. *)
dirlookup(k, d, name) ==
  SelectInSeq(k.ino[d].data, LAMBDA e : e[2] # 0 /\ e[1] = Short(name))

(* The offset of its first free entry, or of its end. *)
Room(k, d) ==
  LET slot == SelectInSeq(k.ino[d].data, LAMBDA e : e[2] = 0)
  IN IF slot = 0 THEN Len(k.ino[d].data) ELSE slot - 1
dirlink(k, d, name, i) ==
  LET w == writei(k, d, Room(k, d), <<Entry(Short(name), i)>>, 1)
  IN IF dirlookup(k, d, name) # 0 THEN [k |-> k, ok |-> FALSE]
     ELSE [k |-> w.k, ok |-> w.n = 1]

(* Mutant: starts one entry too late. *)
isdiremptySkips(k, i) ==
  \A j \in 4 .. Len(k.ino[i].data) : k.ino[i].data[j][2] = 0

isdirempty(k, i) ==
  \A j \in 3 .. Len(k.ino[i].data) : k.ino[i].data[j][2] = 0

IsDir(k, i) == k.ino[i].type = "dir"

(* Mutant: an error path that keeps its reference. *)
NotFoundKeepsIt(k, i) == [k |-> k, ip |-> 0]

NotFound(k, i) == [k |-> iput(k, i), ip |-> 0]

(* One name of a path: from the directory acc.ip to what it holds. *)
Follow(acc, name) ==
  LET k == ilock(acc.k, acc.ip)
      e == dirlookup(k, acc.ip, name)
      next == k.ino[acc.ip].data[e][2]
  IN IF acc.ip = 0 THEN acc
     ELSE IF k.panic # "" \/ ~IsDir(k, acc.ip) \/ e = 0
     THEN NotFound(k, acc.ip)
     ELSE [k |-> iput(iget(k, next), acc.ip), ip |-> next]

Absolute(path) == path # <<>> /\ Head(path) = "/"
Names(path) == IF Absolute(path) THEN Tail(path) ELSE path
Start(k, cwd, path) ==
  IF Absolute(path) THEN [k |-> iget(k, ROOTINO), ip |-> ROOTINO]
  ELSE [k |-> idup(k, cwd), ip |-> cwd]

(* From start along the first n names. *)
namex(start, names, n) ==
  LET at[j \in 0 .. n] ==
        IF j = 0 THEN start ELSE Follow(at[j - 1], names[j])
  IN at[n]

namei(k, cwd, path) ==
  namex(Start(k, cwd, path), Names(path), Len(Names(path)))

(* The directory of the last name; a path without names has none. *)
nameiparent(k, cwd, path) ==
  LET names == Names(path)
      start == Start(k, cwd, path)
      dir == namex(start, names, Len(names) - 1)
      locked == ilock(dir.k, dir.ip)
  IN IF names = <<>> THEN NotFound(start.k, start.ip)
     ELSE IF dir.ip = 0 THEN dir
     ELSE IF ~IsDir(dir.k, dir.ip) THEN NotFound(locked, dir.ip)
     ELSE [k |-> locked, ip |-> dir.ip]

(* What create(), link() and unlink() change of an inode by iupdate(), and  *)
(* of an entry by writei().                                                *)
Made(k, i, major) == [k EXCEPT !.ino[i].nlink = 1, !.ino[i].major = major]
setnlink(k, i, n) == [k EXCEPT !.ino[i].nlink = n]
Erased(k, d, e) == [k EXCEPT !.ino[d].data[e] = FreeEntry]

(* The new or existing inode of a path, or 0; its reference is kept. *)
create(k, cwd, path, type, major) ==
  LET dir == nameiparent(k, cwd, path)
      dp == dir.ip
      e == dirlookup(dir.k, dp, Last(path))
      ip == dir.k.ino[dp].data[e][2]
      found == ilock(iput(iget(dir.k, ip), dp), ip)
      new == ialloc(dir.k, type)
      i == new.ip
      k1 == Made(new.k, i, major)
      dot == dirlink(k1, i, ".", i)
      dotdot == dirlink(dot.k, i, "..", dp)
      made == IF type # "dir" THEN [k |-> k1, ok |-> TRUE]
              ELSE IF ~dot.ok THEN dot ELSE dotdot
      linked == IF made.ok THEN dirlink(made.k, dp, Last(path), i) ELSE made
      k2 == IF type = "dir"
            THEN setnlink(linked.k, dp, linked.k.ino[dp].nlink + 1)
            ELSE linked.k
      undone == setnlink(linked.k, i, 0)
  IN IF dp = 0 THEN dir
     ELSE IF e # 0
     THEN IF type = "file" /\ found.ino[ip].type \in {"file", "device"}
          THEN [k |-> found, ip |-> ip] ELSE NotFound(found, ip)
     ELSE IF i = 0 THEN NotFound(new.k, dp)
     ELSE IF ~linked.ok THEN [k |-> iput(iput(undone, i), dp), ip |-> 0]
     ELSE [k |-> iput(k2, dp), ip |-> i]

(* Mutant: the count is not lowered when it failed. *)
DoLinkNoUndo(k, cwd, old, new) ==
  LET o == namei(k, cwd, old)
      ip == o.ip
      locked == ilock(o.k, ip)
      k1 == setnlink(locked, ip, locked.ino[ip].nlink + 1)
      dir == nameiparent(k1, cwd, new)
      linked == dirlink(dir.k, dir.ip, Last(new), ip)
  IN IF ip = 0 THEN [k |-> o.k, ret |-> -1]
     ELSE IF IsDir(locked, ip) THEN [k |-> iput(locked, ip), ret |-> -1]
     ELSE IF dir.ip = 0 THEN [k |-> iput(dir.k, ip), ret |-> -1]
     ELSE [k |-> iput(iput(linked.k, dir.ip), ip),
           ret |-> IF linked.ok THEN 0 ELSE -1]

(* sys_link(): the count is raised first, and lowered when it failed. *)
DoLink(k, cwd, old, new) ==
  LET o == namei(k, cwd, old)
      ip == o.ip
      locked == ilock(o.k, ip)
      k1 == setnlink(locked, ip, locked.ino[ip].nlink + 1)
      dir == nameiparent(k1, cwd, new)
      linked == dirlink(dir.k, dir.ip, Last(new), ip)
      Undo(k2) == [k |-> iput(setnlink(k2, ip, k2.ino[ip].nlink - 1), ip),
                   ret |-> -1]
  IN IF ip = 0 THEN [k |-> o.k, ret |-> -1]
     ELSE IF IsDir(locked, ip) THEN [k |-> iput(locked, ip), ret |-> -1]
     ELSE IF dir.ip = 0 THEN Undo(dir.k)
     ELSE IF ~linked.ok THEN Undo(iput(linked.k, dir.ip))
     ELSE [k |-> iput(iput(linked.k, dir.ip), ip), ret |-> 0]

(* sys_unlink() *)
DoUnlink(k, cwd, path) ==
  LET dir == nameiparent(k, cwd, path)
      dp == dir.ip
      name == Short(Last(path))
      e == dirlookup(dir.k, dp, name)
      ip == dir.k.ino[dp].data[e][2]
      got == ilock(iget(dir.k, ip), ip)
      k1 == IF got.ino[ip].nlink < 1 THEN Panic(got, "unlink: nlink < 1")
            ELSE got
      k2 == Erased(k1, dp, e)
      k3 == IF IsDir(k1, ip) THEN setnlink(k2, dp, k2.ino[dp].nlink - 1)
            ELSE k2
      put == iput(k3, dp)
      k4 == setnlink(put, ip, put.ino[ip].nlink - 1)
  IN IF dp = 0 THEN [k |-> dir.k, ret |-> -1]
     ELSE IF name \in {".", ".."} \/ e = 0
     THEN [k |-> iput(dir.k, dp), ret |-> -1]
     ELSE IF IsDir(k1, ip) /\ ~isdirempty(k1, ip)
     THEN [k |-> iput(iput(k1, ip), dp), ret |-> -1]
     ELSE [k |-> iput(k4, ip), ret |-> 0]

-----------------------------------------------------------------------------
(* Open files and pipes. *)

(* The first free slot, or 0. *)
filealloc(k) ==
  LET unused == {f \in 1 .. NFILE : k.file[f].ref = 0}
  IN IF unused = {} THEN 0 ELSE Min(unused)

(* Descriptors count from 0; -1 when there is none. *)
FirstFd(fds) ==
  LET unused == {d \in 0 .. NOFILE - 1 : fds[d] = 0}
  IN IF unused = {} THEN -1 ELSE Min(unused)

filedup(k, f) == [k EXCEPT !.file[f].ref = @ + 1]

pipeclose(k, q, writable) ==
  LET k1 == IF writable THEN [k EXCEPT !.pipe[q].writeopen = FALSE]
            ELSE [k EXCEPT !.pipe[q].readopen = FALSE]
  IN IF k1.pipe[q].readopen \/ k1.pipe[q].writeopen THEN k1
     ELSE [k1 EXCEPT !.pipe = Restrict(@, DOMAIN @ \ {q}), !.free = @ + 1]

fileclose(k, f) ==
  LET ff == k.file[f]
      k1 == [k EXCEPT !.file[f] = NoFile]
  IN IF ff.ref < 1 THEN Panic(k, "fileclose")
     ELSE IF ff.ref > 1 THEN [k EXCEPT !.file[f].ref = @ - 1]
     ELSE CASE ff.type = "pipe" -> pipeclose(k1, ff.pipe, ff.w)
            [] ff.type \in {"inode", "device"} -> iput(k1, ff.ip)
            [] OTHER -> k1

(* Two files and a page, or nothing at all: rf is 0 then. *)
pipealloc(k) ==
  LET Taken(k1, f) == [k1 EXCEPT !.file[f] = [NoFile EXCEPT !.ref = 1]]
      rf == filealloc(k)
      wf == filealloc(Taken(k, rf))
      q == Min(1 .. NFILE \ DOMAIN k.pipe)
      end == [NoFile EXCEPT !.ref = 1, !.type = "pipe", !.pipe = q]
      pi == [data |-> <<>>, readopen |-> TRUE, writeopen |-> TRUE]
      pipes == [p \in DOMAIN k.pipe \cup {q} |->
                  IF p = q THEN pi ELSE k.pipe[p]]
  IN IF rf = 0 \/ k.free = 0 THEN [k |-> k, rf |-> 0, wf |-> 0]
     ELSE IF wf = 0 THEN [k |-> k, rf |-> 0, wf |-> 0]
     ELSE [k |-> [k EXCEPT !.free = @ - 1, !.pipe = pipes,
                           !.file[rf] = [end EXCEPT !.r = TRUE],
                           !.file[wf] = [end EXCEPT !.w = TRUE]],
           rf |-> rf, wf |-> wf]
=============================================================================
