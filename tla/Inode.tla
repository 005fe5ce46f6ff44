------------------------------- MODULE Inode -------------------------------
(***************************************************************************)
(* Inodes and names of the file system, lock by lock: fs.c with the calls  *)
(* of sysfile.c and the file table of file.c.                              *)
(*                                                                         *)
(* A process in a call has a list of instructions still to do.  Each one   *)
(* is what the code does between two points where another process may      *)
(* come in: at the lock of an inode, at itable.lock, at the ends of a      *)
(* transaction.  Blocks are read and written through the log, which makes  *)
(* what is in the cache durable when the last operation under way ends     *)
(* (module Log); a crash leaves what was durable.                          *)
(*                                                                         *)
(* The slots of the inode table are named by their inodes: iget() finds or *)
(* makes the slot of an inode in one critical section, so there is never   *)
(* more than one.  There are as many slots as inodes.                      *)
(***************************************************************************)
EXTENDS Integers, Sequences, FiniteSets

CONSTANTS
  Procs, InitProc,  \* processes, and the first one, which boots
  Nobody,           \* holder of a free lock
  Names,            \* names in a directory, other than "." and ".."
  NINODES,          \* inodes on disk, from 1
  NFILE,            \* slots of the file table
  Disks,            \* what may be on the disk at first
  Calls,            \* system calls a process may make
  MaxCalls          \* bound: how many of them it makes

ASSUME InodeAssumption ==
  /\ InitProc \in Procs /\ Nobody \notin Procs /\ IsFiniteSet(Procs)
  /\ ".." \notin Names /\ IsFiniteSet(Names)
  /\ NINODES \in Nat \ {0} /\ NFILE \in Nat /\ MaxCalls \in Nat

VARIABLES
  dino,     \* the inodes and directories, as read through the cache
  disk,     \* the same, as of the last commit
  ops,      \* who is between begin_op() and end_op()
  itab,     \* itable.inode
  lock,     \* ip->lock of its slots
  ftab,     \* ftable.file
  calls,    \* how many calls each process has made
  fd,       \* the descriptor of each process: a slot of ftab, or 0
  todo,     \* what each process has still to do
  scan,     \* the inode ireclaim() comes to; 0 when the system is up
  panic

vars == <<dino, disk, ops, itab, lock, ftab, fd, calls, todo, scan,
          panic>>

Inums == 1 .. NINODES
ROOTINO == 1
Files == 1 .. NFILE
Entries == Names \cup {".."}

NoEntries == [n \in Entries |-> 0]
FreeInode == [type |-> "free", nlink |-> 0, ents |-> NoEntries]
NoSlot == [ref |-> 0, valid |-> FALSE, type |-> "free", nlink |-> 0]
NoFile == [ref |-> 0, ip |-> 0]

Types == {"free", "file", "dir"}
DiskType ==
  [Inums -> [type : Types, nlink : Nat, ents : [Entries -> 0 .. NINODES]]]

(* Directory j has a name somewhere, or is the root; the entries that the  *)
(* links of inode i are for: its names, and the ".." of directories that   *)
(* have a name.                                                            *)
Named(d, j) ==
  j = ROOTINO \/ \E k \in Inums, n \in Names : d[k].ents[n] = j
Links(d, i) ==
  {x \in Inums \X Entries :
     d[x[1]].ents[x[2]] = i /\ (x[2] \in Names \/ Named(d, x[1]))}

(* What mkfs makes and the code keeps: only directories have entries, and  *)
(* "..", the root is one, a directory has one name and its ".." leads      *)
(* back, names make no circle, and no inode has more links than it counts. *)
OnlyDirs(d) ==
  \A i \in Inums :
    /\ d[i].type # "dir" => d[i].ents = NoEntries
    /\ d[i].type = "dir" /\ d[i].nlink > 0 => d[i].ents[".."] # 0
    /\ d[i].type = "free" => d[i].nlink = 0
RootIsDir(d) == d[ROOTINO].type = "dir" /\ d[ROOTINO].ents[".."] = ROOTINO
OneName(d) ==
  \A i, j \in Inums, n \in Names :
    d[j].ents[n] = i /\ d[i].type = "dir" =>
      /\ d[i].ents[".."] = j
      /\ \A k \in Inums, m \in Names : d[k].ents[m] = i => k = j /\ m = n
NoCircle(d) ==
  \A S \in (SUBSET Inums) \ {{}} :
    \E i \in S : \A n \in Names : d[i].ents[n] \notin S
EnoughLinks(d) == \A i \in Inums : Cardinality(Links(d, i)) <= d[i].nlink

Tree(d) ==
  /\ d \in DiskType
  /\ OnlyDirs(d) /\ RootIsDir(d) /\ OneName(d) /\ NoCircle(d) /\ EnoughLinks(d)

ASSUME DisksAssumption == \A d \in Disks : Tree(d)

(* The paths of a call: not empty, one for each argument it has. *)
Paths(call) == IF call.op = "link" THEN {call.path, call.new} ELSE {call.path}

ASSUME CallsAssumption ==
  \A call \in Calls :
    /\ call.op \in {"open", "link", "unlink", "create", "mkdir"}
    /\ Paths(call) \subseteq Seq(Entries) \ {<<>>}

Init ==
  /\ dino \in Disks
  /\ disk = dino
  /\ ops = {}
  /\ itab = [i \in Inums |-> NoSlot]
  /\ lock = [i \in Inums |-> Nobody]
  /\ ftab = [f \in Files |-> NoFile]
  /\ fd = [p \in Procs |-> 0]
  /\ calls = [p \in Procs |-> 0]
  /\ todo = [p \in Procs |-> <<>>]
  /\ scan = 1
  /\ panic = ""

-----------------------------------------------------------------------------
(* Instructions: one about inode ip; a walk along a path from ip, with the *)
(* goal it has; a goal, reached with dp or ip, of a system call.           *)
On(op, ip) == [do |-> op, ip |-> ip]
Walk(ip, path, parent, goal) ==
  [do |-> "look", ip |-> ip, path |-> path, parent |-> parent, goal |-> goal]
Goal(op, dp, ip, call) == [do |-> op, dp |-> dp, ip |-> ip, call |-> call]

BeginOp == <<[do |-> "begin"]>>
EndOp == <<[do |-> "end"]>>
iunlockput(ip) == <<On("unlock", ip), On("put", ip)>>

(* namex() starts at the root, which whoever makes the call takes a        *)
(* reference to; a walk that fails ends the call, but link() has something *)
(* to take back.                                                           *)
namex(path, parent, goal) ==
  <<On("lock", ROOTINO), Walk(ROOTINO, path, parent, goal)>>
Undo(ip) == <<On("lock", ip), On("takeback", ip)>>
Failed(goal) == IF goal.do = "linknew" THEN Undo(goal.ip) ELSE <<>>

Ready(p, op) == panic = "" /\ todo[p] # <<>> /\ Head(todo[p]).do = op
It(p) == Head(todo[p])
Then(p, seq) == todo' = [todo EXCEPT ![p] = seq \o Tail(@)]
Idle(p) == panic = "" /\ scan = 0 /\ p # InitProc /\ todo[p] = <<>>

(* A reference more; what a slot without references holds is never read. *)
iget(i) == itab' = [itab EXCEPT ![i].ref = @ + 1]
LessOne(slot) == IF slot.ref = 1 THEN NoSlot ELSE [slot EXCEPT !.ref = @ - 1]

(* ip->nlink = n, iupdate(ip). *)
SetNlink(i, n) ==
  /\ itab' = [itab EXCEPT ![i].nlink = n]
  /\ dino' = [dino EXCEPT ![i].nlink = n]

(* What an action on inodes and directories leaves alone. *)
Elsewhere == UNCHANGED <<disk, ops, lock, ftab, fd, calls, scan, panic>>

-----------------------------------------------------------------------------
begin_op(p) ==
  /\ Ready(p, "begin")
  /\ ops' = ops \cup {p}
  /\ Then(p, <<>>)
  /\ UNCHANGED <<dino, disk, itab, lock, ftab, fd, calls, scan, panic>>

(* The last operation to end commits them all. *)
end_op(p) ==
  /\ Ready(p, "end")
  /\ ops' = ops \ {p}
  /\ disk' = IF ops = {p} THEN dino ELSE disk
  /\ Then(p, <<>>)
  /\ UNCHANGED <<dino, itab, lock, ftab, fd, calls, scan, panic>>

(* ilock(): wait until the lock is free; read the inode if need be. *)
ilock(p) ==
  /\ Ready(p, "lock")
  /\ LET i == It(p).ip
         read == ~itab[i].valid
     IN /\ lock[i] = Nobody
        /\ lock' = [lock EXCEPT ![i] = p]
        /\ itab' = IF read
                   THEN [itab EXCEPT ![i] = [@ EXCEPT
                           !.valid = TRUE, !.type = dino[i].type,
                           !.nlink = dino[i].nlink]]
                   ELSE itab
        /\ panic' = IF read /\ dino[i].type = "free"
                    THEN "ilock: no type" ELSE ""
  /\ Then(p, <<>>)
  /\ UNCHANGED <<dino, disk, ops, ftab, fd, calls, scan>>

iunlock(p) ==
  /\ Ready(p, "unlock")
  /\ LET i == It(p).ip
         held == lock[i] = p /\ itab[i].ref > 0
     IN /\ lock' = IF held THEN [lock EXCEPT ![i] = Nobody] ELSE lock
        /\ panic' = IF held THEN "" ELSE "iunlock"
  /\ Then(p, <<>>)
  /\ UNCHANGED <<dino, disk, ops, itab, ftab, fd, calls, scan>>

(* Mutant: whether there are other references does not count. *)
ToBeFreedAnyway(slot) == slot.valid /\ slot.nlink = 0

(* The last reference to an inode without links. *)
ToBeFreed(slot) == slot.ref = 1 /\ slot.valid /\ slot.nlink = 0

(* iput() under itable.lock: a reference less,                             *)
iput(p) ==
  /\ Ready(p, "put")
  /\ ~ToBeFreed(itab[It(p).ip])
  /\ itab' = [itab EXCEPT ![It(p).ip] = LessOne(@)]
  /\ Then(p, <<>>)
  /\ UNCHANGED dino /\ Elsewhere

(* or, if the inode is to be freed, take ip->lock and let itable.lock go.  *)
(* If it had to sleep, sched() would panic, for itable.lock is held.       *)
iputLast(p) ==
  /\ Ready(p, "put")
  /\ LET i == It(p).ip IN
     /\ ToBeFreed(itab[i])
     /\ lock' = [lock EXCEPT ![i] = p]
     /\ panic' = IF lock[i] = Nobody THEN "" ELSE "sched locks"
     /\ Then(p, <<On("erase", i), On("forget", i), On("drop", i)>>)
  /\ UNCHANGED <<dino, itab, disk, ops, ftab, fd, calls, scan>>

(* itrunc(), ip->type = 0, iupdate(): from here on ialloc() may take it. *)
Erase(p) ==
  /\ Ready(p, "erase")
  /\ dino' = [dino EXCEPT ![It(p).ip] = FreeInode]
  /\ itab' = [itab EXCEPT ![It(p).ip].type = "free"]
  /\ Then(p, <<>>)
  /\ Elsewhere

(* ip->valid = 0, releasesleep(). *)
Forget(p) ==
  /\ Ready(p, "forget")
  /\ itab' = [itab EXCEPT ![It(p).ip].valid = FALSE]
  /\ lock' = [lock EXCEPT ![It(p).ip] = Nobody]
  /\ Then(p, <<>>)
  /\ UNCHANGED <<dino, disk, ops, ftab, fd, calls, scan, panic>>

(* The end of iput(), under itable.lock again. *)
Drop(p) ==
  /\ Ready(p, "drop")
  /\ itab' = [itab EXCEPT ![It(p).ip] = LessOne(@)]
  /\ Then(p, <<>>)
  /\ UNCHANGED dino /\ Elsewhere

-----------------------------------------------------------------------------
(* The loop of namex(), the inode locked: not a directory, or the name is  *)
(* not there;                                                              *)
Last(w) == Len(w.path) = 1
AtParent(w) == w.parent /\ Last(w)
Child(w) == dino[w.ip].ents[Head(w.path)]

LookFails(p) ==
  /\ Ready(p, "look")
  /\ LET w == It(p) IN
     /\ itab[w.ip].type # "dir" \/ (~AtParent(w) /\ Child(w) = 0)
     /\ Then(p, iunlockput(w.ip) \o Failed(w.goal))
  /\ UNCHANGED <<dino, itab>> /\ Elsewhere

(* one level before the end, for nameiparent();                            *)
LookParent(p) ==
  /\ Ready(p, "look")
  /\ LET w == It(p) IN
     /\ itab[w.ip].type = "dir" /\ AtParent(w)
     /\ Then(p, <<On("unlock", w.ip), On("lock", w.ip),
                  [w.goal EXCEPT !.dp = w.ip]>>)
  /\ UNCHANGED <<dino, itab>> /\ Elsewhere

(* Mutant: the directory is unlocked when the next inode is locked. *)
LookDownHolding(p) ==
  /\ Ready(p, "look")
  /\ LET w == It(p)
         next == Child(w)
     IN /\ itab[w.ip].type = "dir" /\ ~AtParent(w) /\ next # 0
        /\ iget(next)
        /\ Then(p, <<On("lock", next)>> \o iunlockput(w.ip) \o
             <<IF Last(w) THEN [w.goal EXCEPT !.ip = next]
               ELSE Walk(next, Tail(w.path), w.parent, w.goal)>>)
  /\ UNCHANGED dino /\ Elsewhere

(* or one level down: the next inode is referenced while the directory is  *)
(* locked, and locked when it is not any more.                             *)
LookDown(p) ==
  /\ Ready(p, "look")
  /\ LET w == It(p)
         next == Child(w)
     IN /\ itab[w.ip].type = "dir" /\ ~AtParent(w) /\ next # 0
        /\ iget(next)
        /\ Then(p, iunlockput(w.ip) \o
             <<On("lock", next),
               IF Last(w) THEN [w.goal EXCEPT !.ip = next]
               ELSE Walk(next, Tail(w.path), w.parent, w.goal)>>)
  /\ UNCHANGED dino /\ Elsewhere

-----------------------------------------------------------------------------
NameOf(call) ==
  LET path == IF call.op = "link" THEN call.new ELSE call.path
  IN path[Len(path)]
Found(g) == dino[g.dp].ents[NameOf(g.call)]

(* Mutant: ip->nlink++ without iupdate(ip). *)
LinkOldInMemory(p) ==
  /\ Ready(p, "linkold")
  /\ LET g == It(p) IN
       IF itab[g.ip].type = "dir"
       THEN Then(p, iunlockput(g.ip)) /\ UNCHANGED itab
       ELSE /\ itab' = [itab EXCEPT ![g.ip].nlink = @ + 1,
                                    ![ROOTINO].ref = @ + 1]
            /\ Then(p, <<On("unlock", g.ip)>> \o
                       namex(g.call.new, TRUE,
                             Goal("linknew", 0, g.ip, g.call)))
  /\ UNCHANGED dino /\ Elsewhere

(* sys_link(), old found and locked: one more link, before there is one. *)
LinkOld(p) ==
  /\ Ready(p, "linkold")
  /\ LET g == It(p) IN
       IF itab[g.ip].type = "dir"
       THEN Then(p, iunlockput(g.ip)) /\ UNCHANGED <<dino, itab>>
       ELSE /\ itab' = [itab EXCEPT ![g.ip].nlink = @ + 1,
                                    ![ROOTINO].ref = @ + 1]
            /\ dino' = [dino EXCEPT ![g.ip].nlink = itab[g.ip].nlink + 1]
            /\ Then(p, <<On("unlock", g.ip)>> \o
                       namex(g.call.new, TRUE,
                             Goal("linknew", 0, g.ip, g.call)))
  /\ Elsewhere

(* The parent of new found and locked, dirlink(): the name is taken,       *)
LinkTaken(p) ==
  /\ Ready(p, "linknew")
  /\ LET g == It(p) IN
     /\ Found(g) # 0
     /\ iget(Found(g))
     /\ Then(p, <<On("put", Found(g))>> \o iunlockput(g.dp) \o Undo(g.ip))
  /\ UNCHANGED dino /\ Elsewhere

(* it is not and the entry is written, or the disk is full.                *)
LinkNew(p) ==
  /\ Ready(p, "linknew")
  /\ LET g == It(p) IN
     /\ Found(g) = 0
     /\ \/ /\ dino' = [dino EXCEPT ![g.dp].ents[NameOf(g.call)] = g.ip]
           /\ Then(p, iunlockput(g.dp) \o <<On("put", g.ip)>>)
        \/ /\ Then(p, iunlockput(g.dp) \o Undo(g.ip))
           /\ UNCHANGED dino
  /\ UNCHANGED itab /\ Elsewhere

(* One link less: the end of link() when it failed, and of unlink(). *)
TakeBack(p) ==
  /\ Ready(p, "takeback")
  /\ LET i == It(p).ip IN
       SetNlink(i, itab[i].nlink - 1) /\ Then(p, iunlockput(i))
  /\ Elsewhere

(* sys_unlink(): the parent is locked,                                     *)
Unlink(p) ==
  /\ Ready(p, "unlink")
  /\ LET g == It(p) IN
       IF NameOf(g.call) \notin Names \/ Found(g) = 0
       THEN Then(p, iunlockput(g.dp)) /\ UNCHANGED itab
       ELSE /\ iget(Found(g))
            /\ Then(p, <<On("lock", Found(g)),
                         Goal("remove", g.dp, Found(g), g.call)>>)
  /\ UNCHANGED dino /\ Elsewhere

(* and so is the inode.  A directory has to be empty;                      *)
HasFiles(i) == itab[i].type = "dir" /\ \E n \in Names : dino[i].ents[n] # 0

RemoveFails(p) ==
  /\ Ready(p, "remove")
  /\ LET g == It(p)
         unlinked == itab[g.ip].nlink < 1
     IN /\ unlinked \/ HasFiles(g.ip)
        /\ panic' = IF unlinked THEN "unlink: nlink < 1" ELSE ""
        /\ Then(p, iunlockput(g.ip) \o iunlockput(g.dp))
  /\ UNCHANGED <<dino, itab, disk, ops, lock, ftab, fd, calls, scan>>

(* the entry goes, and with a directory the link that its ".." is.         *)
Remove(p) ==
  /\ Ready(p, "remove")
  /\ LET g == It(p)
         up == itab[g.dp].nlink - IF itab[g.ip].type = "dir" THEN 1 ELSE 0
     IN /\ itab[g.ip].nlink > 0 /\ ~HasFiles(g.ip)
        /\ dino' = [dino EXCEPT ![g.dp] =
                      [@ EXCEPT !.ents[NameOf(g.call)] = 0, !.nlink = up]]
        /\ itab' = [itab EXCEPT ![g.dp].nlink = up]
        /\ Then(p, iunlockput(g.dp) \o <<On("takeback", g.ip)>>)
  /\ Elsewhere

-----------------------------------------------------------------------------
(* create(), the parent locked: the name is there already;                 *)
CreateFound(p) ==
  /\ Ready(p, "create")
  /\ LET g == It(p) IN
     /\ Found(g) # 0
     /\ iget(Found(g))
     /\ Then(p, iunlockput(g.dp) \o
          <<On("lock", Found(g)), Goal("found", 0, Found(g), g.call)>>)
  /\ UNCHANGED dino /\ Elsewhere

OpenFound(p) ==
  /\ Ready(p, "found")
  /\ LET g == It(p) IN
       Then(p, IF g.call.op = "create" /\ itab[g.ip].type = "file"
               THEN <<On("open", g.ip)>> ELSE iunlockput(g.ip))
  /\ UNCHANGED <<dino, itab>> /\ Elsewhere

(* ialloc() finds no inode, or the first one that is free.                 *)
TypeOf(call) == IF call.op = "mkdir" THEN "dir" ELSE "file"

Create(p) ==
  /\ Ready(p, "create")
  /\ LET g == It(p)
         free == {i \in Inums : dino[i].type = "free"}
     IN /\ Found(g) = 0
        /\ \/ /\ free = {}
              /\ Then(p, iunlockput(g.dp)) /\ UNCHANGED <<dino, itab>>
           \/ \E i \in free :
                /\ \A j \in free : i <= j
                /\ dino' = [dino EXCEPT ![i].type = TypeOf(g.call)]
                /\ iget(i)
                /\ Then(p, <<On("lock", i), Goal("fill", g.dp, i, g.call)>>)
  /\ Elsewhere

(* The new inode is locked as well: it gets its link and its entries, the  *)
(* parent its entry and the link of the new "..";                          *)
Filled(g, nlink) ==
  [dino[g.ip] EXCEPT !.nlink = nlink,
                     !.ents[".."] = IF g.call.op = "mkdir" THEN g.dp ELSE 0]

Fill(p) ==
  /\ Ready(p, "fill")
  /\ LET g == It(p)
         up == itab[g.dp].nlink + IF g.call.op = "mkdir" THEN 1 ELSE 0
     IN /\ dino' = [dino EXCEPT ![g.ip] = Filled(g, 1), ![g.dp] =
                      [@ EXCEPT !.ents[NameOf(g.call)] = g.ip, !.nlink = up]]
        /\ itab' = [itab EXCEPT ![g.ip].nlink = 1, ![g.dp].nlink = up]
        /\ Then(p, iunlockput(g.dp) \o
             IF g.call.op = "mkdir" THEN iunlockput(g.ip)
             ELSE <<On("open", g.ip)>>)
  /\ Elsewhere

(* with no room for an entry it is given back.                             *)
FillFails(p) ==
  /\ Ready(p, "fill")
  /\ LET g == It(p) IN
     /\ dino' = [dino EXCEPT ![g.ip] = Filled(g, 0)]
     /\ itab' = [itab EXCEPT ![g.ip].nlink = 0]
     /\ Then(p, iunlockput(g.ip) \o iunlockput(g.dp))
  /\ Elsewhere

(* sys_open(), the inode locked: filealloc() and fdalloc(), or neither. *)
Open(p) ==
  /\ Ready(p, "open")
  /\ LET i == It(p).ip
         free == {f \in Files : ftab[f].ref = 0}
     IN IF fd[p] # 0 \/ free = {}
        THEN Then(p, iunlockput(i)) /\ UNCHANGED <<ftab, fd>>
        ELSE LET f == CHOOSE f \in free : \A g \in free : f <= g IN
             /\ ftab' = [ftab EXCEPT ![f] = [ref |-> 1, ip |-> i]]
             /\ fd' = [fd EXCEPT ![p] = f]
             /\ Then(p, <<On("unlock", i)>>)
  /\ UNCHANGED <<dino, disk, ops, itab, lock, scan, calls, panic>>

-----------------------------------------------------------------------------
Lookup(call) ==
  CASE call.op = "open" -> namex(call.path, FALSE, Goal("open", 0, 0, call))
    [] call.op = "link" -> namex(call.path, FALSE, Goal("linkold", 0, 0, call))
    [] call.op = "unlink" -> namex(call.path, TRUE, Goal("unlink", 0, 0, call))
    [] OTHER -> namex(call.path, TRUE, Goal("create", 0, 0, call))

(* begin_op(), and namex() takes its first reference. *)
SysCall(p) ==
  /\ Idle(p) /\ calls[p] < MaxCalls
  /\ calls' = [calls EXCEPT ![p] = @ + 1]
  /\ ops' = ops \cup {p}
  /\ iget(ROOTINO)
  /\ \E call \in Calls : todo' = [todo EXCEPT ![p] = Lookup(call) \o EndOp]
  /\ UNCHANGED <<dino, disk, lock, ftab, fd, scan, panic>>

(* fileclose(): the slot is free before the reference to the inode is gone. *)
Close(p) ==
  /\ Idle(p) /\ fd[p] # 0
  /\ fd' = [fd EXCEPT ![p] = 0]
  /\ LET file == ftab[fd[p]] IN
       IF file.ref > 1
       THEN ftab' = [ftab EXCEPT ![fd[p]].ref = @ - 1] /\ UNCHANGED todo
       ELSE /\ ftab' = [ftab EXCEPT ![fd[p]] = NoFile]
            /\ todo' = [todo EXCEPT ![p] =
                          BeginOp \o <<On("put", file.ip)>> \o EndOp]
  /\ UNCHANGED <<dino, disk, ops, itab, lock, scan, calls, panic>>

(* fork(): filedup() for a child that has nothing open. *)
Share(p, q) ==
  /\ Idle(p) /\ Idle(q) /\ fd[p] # 0 /\ fd[q] = 0
  /\ ftab' = [ftab EXCEPT ![fd[p]].ref = @ + 1]
  /\ fd' = [fd EXCEPT ![q] = fd[p]]
  /\ UNCHANGED <<dino, disk, ops, itab, lock, todo, scan, calls, panic>>

(* The machine stops, and starts again with what was durable. *)
Crash ==
  /\ panic = ""
  /\ dino' = disk
  /\ ops' = {}
  /\ itab' = [i \in Inums |-> NoSlot]
  /\ lock' = [i \in Inums |-> Nobody]
  /\ ftab' = [f \in Files |-> NoFile]
  /\ fd' = [p \in Procs |-> 0]
  /\ todo' = [p \in Procs |-> <<>>]
  /\ scan' = 1
  /\ UNCHANGED <<disk, calls, panic>>

(* Mutant: without ilock() the inode is never read, and iput() keeps it. *)
ReclaimUnread(i) == BeginOp \o <<On("put", i)>> \o EndOp

(* ireclaim(): an inode in use without a link is locked, which reads it,   *)
(* and put, which frees it.  After the last one the system is up.          *)
ReclaimOne(i) == BeginOp \o <<On("lock", i)>> \o iunlockput(i) \o EndOp

Orphan(d, i) == d[i].type # "free" /\ d[i].nlink = 0

ireclaim ==
  /\ panic = "" /\ scan \in Inums /\ todo[InitProc] = <<>>
  /\ scan' = scan + 1
  /\ IF Orphan(dino, scan)
     THEN /\ iget(scan)
          /\ todo' = [todo EXCEPT ![InitProc] = ReclaimOne(scan)]
     ELSE UNCHANGED <<itab, todo>>
  /\ UNCHANGED <<dino, disk, ops, lock, ftab, fd, calls, panic>>

Booted ==
  /\ panic = "" /\ scan = NINODES + 1 /\ todo[InitProc] = <<>>
  /\ scan' = 0
  /\ UNCHANGED <<dino, disk, ops, itab, lock, ftab, fd, todo, calls, panic>>

Step(p) ==
  \/ begin_op(p) \/ end_op(p) \/ ilock(p) \/ iunlock(p)
  \/ iput(p) \/ iputLast(p) \/ Erase(p) \/ Forget(p) \/ Drop(p)
  \/ LookFails(p) \/ LookParent(p) \/ LookDown(p)
  \/ LinkOld(p) \/ LinkTaken(p) \/ LinkNew(p) \/ TakeBack(p)
  \/ Unlink(p) \/ RemoveFails(p) \/ Remove(p)
  \/ CreateFound(p) \/ OpenFound(p) \/ Create(p) \/ Fill(p) \/ FillFails(p)
  \/ Open(p)

Next ==
  \/ \E p \in Procs : Step(p) \/ SysCall(p) \/ Close(p)
  \/ \E p, q \in Procs : Share(p, q)
  \/ Crash \/ ireclaim \/ Booted

Spec == Init /\ [][Next]_vars

-----------------------------------------------------------------------------
(***************************************************************************)
(* No panic of fs.c or sysfile.c comes about, nor the one iput() would     *)
(* cause by waiting for ip->lock with itable.lock held: "ip->ref == 1      *)
(* means no other process can have ip locked".                             *)
(***************************************************************************)
NoPanic == panic = ""

(* What can be reached from the root: what is in every set that has the   *)
(* root and what the directories in it lead to.                            *)
Reachable(d) ==
  {i \in Inums :
     \A S \in SUBSET Inums :
       /\ ROOTINO \in S
       /\ \A j \in S, e \in Entries :
            d[j].type = "dir" /\ d[j].ents[e] # 0 => d[j].ents[e] \in S
       => i \in S}

(***************************************************************************)
(* A name that can be reached leads to an inode that is in use, and that   *)
(* will not be freed while the name is there: it has at least as many      *)
(* links as names.  So it is for the processes, and for what a crash       *)
(* would leave at any moment.                                              *)
(***************************************************************************)
NamesHold ==
  \A d \in {dino, disk}, i \in Inums :
    LET names == {x \in Reachable(d) \X Entries :
                    d[x[1]].type = "dir" /\ d[x[1]].ents[x[2]] = i}
    IN names # {} => d[i].type # "free" /\ d[i].nlink >= Cardinality(names)

(***************************************************************************)
(* When ireclaim() is over, and before the first program runs, no inode is *)
(* left in use without a link: what crashes cut off is free again.         *)
(***************************************************************************)
Reclaimed ==
  scan = NINODES + 1 /\ todo[InitProc] = <<>> =>
    \A i \in Inums : ~Orphan(disk, i)

(***************************************************************************)
(* No circle of processes each of which waits for an inode that another    *)
(* one of them has locked.                                                 *)
(***************************************************************************)
NoCircularWait ==
  \A circle \in (SUBSET Procs) \ {{}} :
    \E p \in circle : Ready(p, "lock") => lock[It(p).ip] \notin circle

(***************************************************************************)
(* fs.c:330: "If that was the last reference and the inode has no links to *)
(* it, free the inode (and its content) on disk."  When the system is up   *)
(* and no call is under way, an inode in use without links is that of an   *)
(* open file.                                                              *)
(***************************************************************************)
OrphansGo ==
  scan = 0 /\ (\A p \in Procs : todo[p] = <<>>) =>
    \A i \in Inums : Orphan(disk, i) =>
      \E f \in Files : ftab[f].ref > 0 /\ ftab[f].ip = i
=============================================================================
