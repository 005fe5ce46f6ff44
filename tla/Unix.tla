-------------------------------- MODULE Unix --------------------------------
(***************************************************************************)
(* The machine from the boot on: the disk as mkfs makes it, init, the      *)
(* shell, and somebody at the console who types the lines of a script.     *)
(* The next-state relation is that of Syscalls; here are the properties.   *)
(***************************************************************************)
EXTENDS Syscalls

CONSTANTS NBLOCKS,      \* data blocks on disk
          Scripts       \* what may happen: [lines, files, pages], the lines
                        \* typed, the programs needed for them, and the pages
                        \* on the free list at boot

-----------------------------------------------------------------------------
(* mkfs.c: every file has the next inode; the root directory is padded to  *)
(* the next block, which readi() allocates when it first comes there.      *)
Names0 == <<"README", "init", "sh">>
BlocksOf(n) == (n + BSIZE - 1) \div BSIZE
mkfs(files) ==
  LET names == Names0 \o files
      root == <<Entry(".", ROOTINO), Entry("..", ROOTINO)>> \o
              [j \in DOMAIN names |-> Entry(names[j], ROOTINO + j)]
      room == (Len(root) \div BSIZE + 1) * BSIZE
      padded == root \o [j \in 1 .. room - Len(root) |-> FreeEntry]
      New(type, data) == [FreeInode EXCEPT !.type = type, !.nlink = 1,
                            !.data = data, !.nblk = BlocksOf(Len(data)),
                            !.ind = BlocksOf(Len(data)) > NDIRECT]
      Contents(j) == IF names[j] = "README"
                     THEN <<"read", "\n", "me", "\n">>
                     ELSE <<"ELF", names[j]>>
  IN [i \in 1 .. NINODES |->
        IF i = ROOTINO THEN New("dir", padded)
        ELSE IF i - ROOTINO \in DOMAIN names
        THEN New("file", Contents(i - ROOTINO)) ELSE FreeInode]
(* The blocks of the contents of all inodes, and their indirect blocks. *)
Held(d) == d.nblk + (IF d.ind THEN 1 ELSE 0)
Blocks(ino) ==
  Cardinality(UNION {{i} \X (1 .. Held(ino[i])) : i \in DOMAIN ino})

(* The disk has room for the files, and memory for the first process.      *)
ASSUME ScriptsAssumption ==
  /\ NBLOCKS \in Nat
  /\ \A script \in Scripts :
       /\ IsSeq(script.lines) /\ IsSeq(script.files)
       /\ Len(Names0 \o script.files) < NINODES
       /\ Blocks(mkfs(script.files)) <= NBLOCKS
       /\ script.pages \in Nat /\ script.pages >= ImagePages + 2

(* userinit(), and init executed in it by forkret(). *)
Boot(script) ==
  LET ino == mkfs(script.files)
      pt == [v \in 0 .. ImagePages - 1 |->
               IF v = 0 THEN "rx" ELSE IF v = DataEnd THEN "none" ELSE "rw"]
      init == [NoProc EXCEPT !.st = "used", !.pid = 1, !.cwd = ROOTINO,
                             !.pt = pt, !.sz = ImagePages * PGSIZE,
                             !.code = Program("init", <<"init">>)]
  IN [ino |-> ino,
      ref |-> [i \in 1 .. NINODES |-> IF i = ROOTINO THEN 1 ELSE 0],
      bfree |-> NBLOCKS - Blocks(ino), file |-> [f \in 1 .. NFILE |-> NoFile],
      pipe |-> <<>>, pages |-> script.pages,
      free |-> script.pages - ImagePages - 2, panic |-> "",
      proc |-> [p \in Slots |-> IF p = InitProc THEN init ELSE NoProc],
      nextpid |-> 2, tty |-> script.lines]

Live == {p \in Slots : k.proc[p].st = "used"}
InUse == {p \in Slots : k.proc[p].st # "unused"}
Waiting(p) ==
  /\ k.proc[p].code # <<>> /\ ~k.proc[p].killed
  /\ \/ Call(p).op = "wait" /\ Children(k, p) # {} /\ Zombies(k, p) = {}
     \/ Call(p).op = "read" /\ ReadWaits(k, p, Call(p))
(* All lines are done, and the shell waits for another. *)
Prompt == /\ k.tty = <<>> /\ Cardinality(Live) = 2 /\ \A p \in Live : Waiting(p)
          /\ \A p \in Slots : k.proc[p].st # "zombie"
Finished == Prompt /\ UNCHANGED k

(* panic() freezes the machine. *)
Up == k.panic = ""
Halted == ~Up /\ UNCHANGED k

Init == \E script \in Scripts : k = Boot(script)
Next == (\E p \in Slots : Step(p)) \/ Finished \/ Halted
Spec == Init /\ [][Next]_k

-----------------------------------------------------------------------------
(* The kernel panics only if a process has grown beyond the end of user    *)
(* memory, which a lazy sbrk() lets it, or asks for that, and then only    *)
(* about what that leads to: whatever else programs do in whatever order,  *)
(* no reference to an inode that is free, none too many, no page left in a *)
(* table that is freed.                                                    *)
GoesBeyond(p) ==
  \/ Overlaps(k.proc[p].sz)
  \/ /\ k.proc[p].code # <<>> /\ Call(p).op = "sbrk"
     /\ Overlaps(k.proc[p].sz + Grows(k, p, Call(p)))
OfGrowth == {"walk", "mappages: remap", "kfree", "trapframe freed"}
OnlyGrowthPanics ==
  [][Up' \/ (k.panic' \in OfGrowth /\ \E p \in InUse : GoesBeyond(p))]_k

(* What any program can bring the kernel to panic about, proved in         *)
(* Unix_proofs: no other check of the kernel ever fires, such as those of  *)
(* ilock() and fileclose() for a count of zero, and that of freewalk() for *)
(* a page that is still mapped.                                            *)
Known == {"", "init exiting", "iget: no inodes", "ilock: no type",
          "unlink: nlink < 1", "walk", "mappages: remap", "kfree",
          "trapframe freed"}
KnownPanics == k.panic \in Known

(* Pages and disk blocks are conserved: whatever fails or is killed on the *)
(* way, what was taken is held by somebody or was given back.  A process   *)
(* has a trapframe and the root of its page table besides its pages.       *)
NothingLost == Up =>
  /\ k.free + Cardinality(DOMAIN k.pipe) + 2 * Cardinality(InUse) +
       Cardinality(UNION {{p} \X DOMAIN k.proc[p].pt : p \in InUse}) = k.pages
  /\ k.bfree + Blocks(k.ino) = NBLOCKS

(* The counts agree with what they count: descriptors of a file, current   *)
(* directories and files of an inode in memory, open ends of a pipe; and   *)
(* nobody holds an inode that is free.                                     *)
Users(i) ==
  Cardinality({p \in Live : k.proc[p].cwd = i}) +
  Cardinality({f \in DOMAIN k.file :
                 k.file[f].type \in {"inode", "device"} /\ k.file[f].ip = i})
Ends(q, w) == \E f \in DOMAIN k.file :
                k.file[f].type = "pipe" /\ k.file[f].pipe = q /\ k.file[f].w = w
RefsCounted == Up =>
  /\ \A f \in DOMAIN k.file :
       k.file[f].ref = Cardinality({x \in Slots \X (0 .. NOFILE - 1) :
                                      k.proc[x[1]].fd[x[2]] = f})
  /\ \A i \in DOMAIN k.ref :
       /\ k.ref[i] = Users(i)
       /\ k.ino[i].type = "free" => k.ref[i] = 0
  /\ \A q \in DOMAIN k.pipe : /\ k.pipe[q].readopen = Ends(q, FALSE)
                              /\ k.pipe[q].writeopen = Ends(q, TRUE)

(* fs.h: nlink is the number of links to an inode in the file system.  The *)
(* entry "." is not counted, nor ".." of a directory that was removed;     *)
(* mkfs gives the root one link, which nothing names but its own "..".     *)
Entries(i) ==
  {x \in UNION {{d} \X DOMAIN k.ino[d].data :
                  d \in {j \in DOMAIN k.ino : k.ino[j].type = "dir"}} :
     LET e == k.ino[x[1]].data[x[2]]
     IN e[2] = i /\ e[1] # "." /\ (e[1] = ".." => k.ino[x[1]].nlink > 0)}
LinksCounted == Up =>
  \A i \in DOMAIN k.ino :
    k.ino[i].type # "free" => k.ino[i].nlink = Cardinality(Entries(i))

(* Each test of usertests, and both halves of grind, succeed in whatever   *)
(* order their processes run.  usertests, the third process, knows of its  *)
(* child once it has counted the free pages; grind's children are those of *)
(* the fourth process.                                                     *)
Tested(p) == \E q \in Slots :
  /\ q = k.proc[p].parent
  /\ \/ k.proc[q].pid = 3 /\ "free0" \in DOMAIN k.proc[q].var
     \/ k.proc[q].pid = 4 /\ "go1" \in DOMAIN k.proc[q].var
        /\ "free0" \notin DOMAIN k.proc[q].var
TestsPass ==
  \A p \in Slots : k.proc[p].st = "zombie" /\ Tested(p) => k.proc[p].xstate = 0
=============================================================================
