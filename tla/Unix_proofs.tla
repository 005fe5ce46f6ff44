----------------------------- MODULE Unix_proofs -----------------------------
(***************************************************************************)
(* The proofs about the kernel as a whole (Unix), for any sizes of its     *)
(* tables and any programs: UnixInv holds throughout, and so nothing is    *)
(* lost (NothingLost), no count is wrong (RefsCounted), and the kernel     *)
(* panics about nothing but what Known lists (KnownPanics): the panics of  *)
(* ilock(), fileclose() and freewalk() about a missing reference or a page *)
(* left over do not happen.  Until a panic, the first two: afterwards the  *)
(* machine stands still.                                                   *)
(*                                                                         *)
(* Each system call is shown to lead from an idle state to an idle state,  *)
(* whatever its arguments and wherever it fails (...Idle; those that only  *)
(* work on files and directories are in Kernel_proofs); then every action  *)
(* of Unix is one of the calls or leaves the tables alone (...Step); then  *)
(* mkfs and the boot lead to the first idle state.                         *)
(***************************************************************************)
EXTENDS Kernel_proofs

-----------------------------------------------------------------------------
(* A slot of the process table: what a process refers to.                  *)

(* What a slot holds: a current directory, descriptors of a file, pages.   *)
Home(r) == IF r.st = "used" THEN r.cwd ELSE 0
Uses(r, f) == Cardinality({d \in Fds : r.fd[d] = f})
OneIf(a, b) == IF a = b THEN 0 ELSE 1
PagesIn(r) == 2 * OneIf(r.st, "unused") + Cardinality(DOMAIN r.pt)

(* A slot p of v differs from that of proc.                                *)
OnlySlot(proc, v, p) == \A q \in Slots : q # p => v[q] = proc[q]

HomesMoved(proc, v, p, i) ==
  LET a == Cardinality(Cwds(proc, i))
      b == Cardinality(Cwds(v, i))
  IN /\ a \in Nat /\ b \in Nat
     /\ b + One(Home(proc[p]), i) = a + One(Home(v[p]), i)

(* The number of current directories when a slot changes.                  *)
LEMMA HomesSet ==
  ASSUME NEW proc, NEW v, NEW p \in Slots, OnlySlot(proc, v, p), NEW i \in Inums
  PROVE  HomesMoved(proc, v, p, i)
<1> DEFINE S == Cwds(proc, i)
           T == Cwds(v, i)
<1>0. i # 0
  BY InumsIs
<1>1. IsFiniteSet(S)
  BY CountTypes
<1>2. p \in S <=> Home(proc[p]) = i
  BY <1>0 DEF Cwds, Home
<1>3. p \in T <=> Home(v[p]) = i
  BY <1>0 DEF Cwds, Home
<1>4. S \ {p} = T \ {p}
  BY DEF OnlySlot, Cwds
<1> HIDE DEF S, T
<1>5. /\ IsFiniteSet(T) /\ Cardinality(S) \in Nat /\ Cardinality(T) \in Nat
      /\ Cardinality(T) + (IF p \in S THEN 1 ELSE 0) =
           Cardinality(S) + (IF p \in T THEN 1 ELSE 0)
  BY <1>1, <1>4, OnePoint
<1>6. One(Home(proc[p]), i) = (IF p \in S THEN 1 ELSE 0)
      /\ One(Home(v[p]), i) = (IF p \in T THEN 1 ELSE 0)
  BY <1>2, <1>3 DEF One
<1> QED BY <1>5, <1>6 DEF S, T, HomesMoved

UsesMoved(proc, v, p, f) ==
  LET a == Cardinality(Descriptors(proc, f))
      b == Cardinality(Descriptors(v, f))
  IN /\ a \in Nat /\ b \in Nat /\ Uses(proc[p], f) \in Nat
     /\ Uses(v[p], f) \in Nat
     /\ b + Uses(proc[p], f) = a + Uses(v[p], f)
UsedIn(w, e, f) == \A q \in Slots : e[q] = {d \in Fds : w[q].fd[d] = f}

(* The descriptors of a file, by process.                                  *)
LEMMA UsedPairs ==
  ASSUME NEW w, NEW e, NEW f, UsedIn(w, e, f)
  PROVE  Descriptors(w, f) = Pairs(Slots, e)
<1>0. \A q \in Slots : e[q] = {d \in Fds : w[q].fd[d] = f}
  BY DEF UsedIn
<1>1. ASSUME NEW a \in Descriptors(w, f) PROVE a \in Pairs(Slots, e)
  <2>1. a = <<a[1], a[2]>> /\ a[1] \in Slots /\ a[2] \in Fds /\ w[a[1]].fd[a[2]] = f
    BY DEF Descriptors
  <2>2. a[2] \in e[a[1]]
    BY <1>0, <2>1
  <2>3. a \in {a[1]} \X e[a[1]]
    BY <2>1, <2>2
  <2> QED BY <2>1, <2>3 DEF Pairs
<1>2. ASSUME NEW a \in Pairs(Slots, e) PROVE a \in Descriptors(w, f)
  <2>1. PICK q \in Slots : a \in {q} \X e[q]
    BY DEF Pairs
  <2>2. a = <<q, a[2]>> /\ a[2] \in e[q]
    BY <2>1
  <2>3. a[2] \in Fds /\ w[q].fd[a[2]] = f
    BY <1>0, <2>2
  <2>4. a[1] = q
    BY <2>2
  <2> QED BY <2>2, <2>3, <2>4 DEF Descriptors
<1> QED BY <1>1, <1>2

(* The number of its descriptors when a slot changes.                      *)
LEMMA UsesSet ==
  ASSUME NEW proc, NEW v, NEW p \in Slots, OnlySlot(proc, v, p), NEW f
  PROVE  UsesMoved(proc, v, p, f)
<1> DEFINE g == [q \in Slots |-> {d \in Fds : proc[q].fd[d] = f}]
           h == [q \in Slots |-> {d \in Fds : v[q].fd[d] = f}]
<1>1. IsFiniteSet(Slots) /\ \A q \in Slots : IsFiniteSet(g[q]) /\ IsFiniteSet(h[q])
  <2>1. IsFiniteSet(Slots) /\ IsFiniteSet(Fds)
    BY SetsFinite
  <2>2. \A q \in Slots : g[q] \subseteq Fds /\ h[q] \subseteq Fds
    OBVIOUS
  <2> HIDE DEF g, h
  <2> QED BY <2>1, <2>2, FS_Subset
<1>2. \A q \in Slots : q # p => h[q] = g[q]
  BY DEF OnlySlot
<1>3. Descriptors(proc, f) = Pairs(Slots, g) /\ Descriptors(v, f) = Pairs(Slots, h)
  <2>1. UsedIn(proc, g, f) /\ UsedIn(v, h, f)
    BY DEF UsedIn
  <2> HIDE DEF g, h
  <2> QED BY <2>1, UsedPairs
<1>4. g[p] = {d \in Fds : proc[p].fd[d] = f} /\ h[p] = {d \in Fds : v[p].fd[d] = f}
  OBVIOUS
<1> HIDE DEF g, h
<1>5. /\ Cardinality(Pairs(Slots, h)) + Cardinality(g[p]) =
           Cardinality(Pairs(Slots, g)) + Cardinality(h[p])
      /\ Cardinality(Pairs(Slots, h)) \in Nat /\ Cardinality(Pairs(Slots, g)) \in Nat
      /\ Cardinality(g[p]) \in Nat /\ Cardinality(h[p]) \in Nat
  BY <1>1, <1>2, PairsChange
<1> QED BY <1>3, <1>4, <1>5 DEF UsesMoved, Uses

TakenMoved(proc, v, p) ==
  LET a == Cardinality(Taken(proc))
      b == Cardinality(Taken(v))
  IN /\ a \in Nat /\ b \in Nat
     /\ b + OneIf(proc[p].st, "unused") = a + OneIf(v[p].st, "unused")

(* The number of slots taken when a slot changes.                          *)
LEMMA TakenSet ==
  ASSUME NEW proc, NEW v, NEW p \in Slots, OnlySlot(proc, v, p)
  PROVE  TakenMoved(proc, v, p)
<1> DEFINE S == Taken(proc)
           T == Taken(v)
<1>1. IsFiniteSet(S)
  <2>1. S \subseteq Slots
    BY DEF Taken
  <2> QED BY <2>1, SetsFinite, FS_Subset
<1>2. p \in S <=> proc[p].st # "unused"
  BY DEF Taken
<1>3. p \in T <=> v[p].st # "unused"
  BY DEF Taken
<1>4. S \ {p} = T \ {p}
  BY DEF OnlySlot, Taken
<1> HIDE DEF S, T
<1>5. /\ IsFiniteSet(T) /\ Cardinality(S) \in Nat /\ Cardinality(T) \in Nat
      /\ Cardinality(T) + (IF p \in S THEN 1 ELSE 0) =
           Cardinality(S) + (IF p \in T THEN 1 ELSE 0)
  BY <1>1, <1>4, OnePoint
<1>6. OneIf(proc[p].st, "unused") = (IF p \in S THEN 1 ELSE 0)
      /\ OneIf(v[p].st, "unused") = (IF p \in T THEN 1 ELSE 0)
  BY <1>2, <1>3 DEF OneIf
<1> QED BY <1>5, <1>6 DEF S, T, TakenMoved

-----------------------------------------------------------------------------
(* A slot of the process table takes another process.                      *)

SlotOk(q) ==
  /\ IsProc(q) /\ DOMAIN q.pt \subseteq 0 .. PGROUNDUP(q.sz) - 1
  /\ q.st = "unused" => DOMAIN q.pt = {}
  /\ q.st # "used" => \A d \in Fds : q.fd[d] = 0
Homed(ino, q) ==
  q.st = "used" => q.cwd \in Inums /\ ino[q.cwd].type # "free"

(* All that changes when slot p of the process table takes q.              *)
SlotStep(s, x, y, t, p, q, w, z, u, r) ==
  /\ z \in [Filenums -> Int] /\ y \in [Filenums -> Int] /\ w \in [Inums -> Nat]
  /\ t \in Int /\ u \in Int
  /\ Fine(s, x, y, t) /\ s.panic = "" /\ p \in Slots /\ SlotOk(q)
  /\ Homed(s.ino, q)
  /\ \A i \in Inums : w[i] + One(Home(q), i) = x[i] + One(Home(s.proc[p]), i)
  /\ \A f \in Filenums : z[f] + Uses(q, f) = y[f] + Uses(s.proc[p], f)
  /\ SameFs(s, r) /\ r.proc = Put(s.proc, p, q) /\ r.file = s.file
  /\ r.pipe = s.pipe /\ r.pages = s.pages /\ r.tty = s.tty /\ r.free \in Nat
  /\ r.free + u + PagesIn(q) = s.free + t + PagesIn(s.proc[p])

(* An account of three.                                                    *)
LEMMA Sums3 ==
  ASSUME NEW ref, NEW a \in Nat, NEW b \in Nat, NEW c \in Nat, NEW m \in Int,
         NEW n \in Int, NEW x \in Int, NEW w \in Int, ref = a + c + x,
         b + m = a + n, w + n = x + m
  PROVE  ref = b + c + w
<1>1. b + w = a + x
  OBVIOUS
<1> QED BY <1>1

(* An account of five.                                                     *)
LEMMA Sums5 ==
  ASSUME NEW pages, NEW f \in Nat, NEW t \in Int, NEW g \in Nat, NEW u \in Int,
         NEW a \in Nat, NEW b \in Nat, NEW c \in Nat, NEW d \in Nat,
         NEW o \in Nat, NEW v \in Nat, NEW m \in Nat, NEW n \in Nat, NEW e \in Nat,
         f + t + e + 2 * a + c = pages, b + o = a + v, d + m = c + n,
         g + u + (2 * v + n) = f + t + (2 * o + m)
  PROVE  g + u + e + 2 * b + d = pages
OBVIOUS

(* A slot takes another process and what is in hand makes up for it.       *)
LEMMA SlotFine ==
  ASSUME NEW s, NEW x, NEW y, NEW t, NEW p, NEW q, NEW w, NEW z, NEW u, NEW r,
         SlotStep(s, x, y, t, p, q, w, z, u, r)
  PROVE  Fine(r, w, z, u)
<1>0. /\ z \in [Filenums -> Int] /\ y \in [Filenums -> Int] /\ w \in [Inums -> Nat]
      /\ t \in Int /\ u \in Int
      /\ Fine(s, x, y, t) /\ s.panic = "" /\ p \in Slots /\ SlotOk(q)
      /\ Homed(s.ino, q)
      /\ \A i \in Inums : w[i] + One(Home(q), i) = x[i] + One(Home(s.proc[p]), i)
      /\ \A f \in Filenums : z[f] + Uses(q, f) = y[f] + Uses(s.proc[p], f)
      /\ SameFs(s, r) /\ r.proc = Put(s.proc, p, q) /\ r.file = s.file
      /\ r.pipe = s.pipe /\ r.pages = s.pages /\ r.tty = s.tty /\ r.free \in Nat
      /\ r.free + u + PagesIn(q) = s.free + t + PagesIn(s.proc[p])
  BY DEF SlotStep
<1> DEFINE v == Put(s.proc, p, q)
<1>1. FsOk(s, x) /\ Others(s, y, t) /\ IsK(s) /\ x \in [Inums -> Nat]
  BY <1>0 DEF Fine, FsOk
<1>2. /\ Procs0(s.proc) /\ s.proc = [j \in Slots |-> s.proc[j]]
      /\ Files0(s.file, s.proc, y) /\ Pipes(s.file, s.pipe)
      /\ Pages0(s.free, s.proc, s.pipe, s.pages, t)
  BY <1>1 DEF Others, Procs0
<1>3. /\ v = [j \in Slots |-> v[j]] /\ v[p] = q
      /\ \A j \in Slots : j # p => v[j] = s.proc[j]
  BY <1>0, <1>2 DEF Put
<1>4. v = [s.proc EXCEPT ![p] = q]
  BY DEF Put
<1>5. r.proc = v
  BY <1>0
<1>6. IsFiniteSet(DOMAIN q.pt)
  <2>1. DOMAIN q.pt \subseteq 0 .. PGROUNDUP(q.sz) - 1 /\ q.sz \in Int
    <3>1. DOMAIN q.pt \subseteq 0 .. PGROUNDUP(q.sz) - 1 /\ q.sz \in Nat
      BY <1>0 DEF SlotOk, IsProc
    <3> QED BY ONLY <3>1
  <2>2. PGROUNDUP(q.sz) \in Int
    BY <2>1, RoundUpIs
  <2>3. PGROUNDUP(q.sz) - 1 \in Int /\ 0 \in Int
    BY ONLY <2>2
  <2>4. IsFiniteSet(0 .. PGROUNDUP(q.sz) - 1)
    BY ONLY <2>3, FS_Interval
  <2> QED BY <2>1, <2>4, FS_Subset
<1>7. /\ Cardinality(Mapped(v)) + Cardinality(DOMAIN s.proc[p].pt) =
              Cardinality(Mapped(s.proc)) + Cardinality(DOMAIN q.pt)
      /\ Cardinality(Mapped(v)) \in Nat /\ Cardinality(Mapped(s.proc)) \in Nat
      /\ Cardinality(DOMAIN q.pt) \in Nat
      /\ Cardinality(DOMAIN s.proc[p].pt) \in Nat
  <2> HIDE DEF v
  <2>1. p \in Slots /\ Procs0(s.proc)
    BY <1>0, <1>2
  <2> QED BY ONLY <2>1, <1>4, <1>6, MappedSet
<1> HIDE DEF v
<1>8. OnlySlot(s.proc, v, p)
  BY <1>3 DEF OnlySlot
<1>9. Procs0(v)
  <2>1. \A j \in Slots : SlotOk(s.proc[j])
    BY <1>2 DEF Procs0, SlotOk
  <2>2. \A j \in Slots : SlotOk(v[j])
    BY <1>0, <1>3, <2>1
  <2> QED BY <1>3, <2>2 DEF Procs0, SlotOk
<1>10. Files0(s.file, v, z)
  <2>1. ASSUME NEW f \in Filenums
        PROVE  s.file[f].ref = Cardinality(Descriptors(v, f)) + z[f]
    <3>1. UsesMoved(s.proc, v, p, f)
      BY <1>0, <1>8, UsesSet
    <3> DEFINE a == Cardinality(Descriptors(s.proc, f))
               b == Cardinality(Descriptors(v, f))
               m == Uses(s.proc[p], f)
               n == Uses(q, f)
    <3>2. a \in Nat /\ b \in Nat /\ m \in Nat /\ n \in Nat /\ b + m = a + n
      BY <1>3, <3>1 DEF UsesMoved
    <3>3. s.file[f].ref = a + y[f]
      BY <1>2 DEF Files0
    <3>4. z[f] + n = y[f] + m /\ z[f] \in Int /\ y[f] \in Int
      BY <1>0
    <3> HIDE DEF a, b, m, n
    <3>5. s.file[f].ref = b + z[f]
      <4>1. b + z[f] = a + y[f]
        BY ONLY <3>2, <3>4
      <4> QED BY ONLY <3>3, <4>1
    <3> QED BY <3>5 DEF b
  <2> QED BY <1>2, <2>1 DEF Files0
<1>11. Pages0(r.free, v, s.pipe, s.pages, u)
  <2>1. TakenMoved(s.proc, v, p)
    BY <1>0, <1>8, TakenSet
  <2> DEFINE a == Cardinality(Taken(s.proc))
             b == Cardinality(Taken(v))
             o == OneIf(s.proc[p].st, "unused")
             l == OneIf(q.st, "unused")
             c == Cardinality(Mapped(s.proc))
             d == Cardinality(Mapped(v))
             m == Cardinality(DOMAIN s.proc[p].pt)
             n == Cardinality(DOMAIN q.pt)
             e == Cardinality(DOMAIN s.pipe)
  <2>2. a \in Nat /\ b \in Nat /\ b + o = a + l
    BY <1>3, <2>1 DEF TakenMoved
  <2>3. o \in Nat /\ l \in Nat
    BY DEF OneIf
  <2>4. c \in Nat /\ d \in Nat /\ m \in Nat /\ n \in Nat /\ d + m = c + n
    BY <1>7
  <2>5. e \in Nat
    <3>1. DOMAIN s.pipe \subseteq Filenums
      BY <1>2 DEF Pipes
    <3> QED BY <3>1, PageSums
  <2>6. s.free \in Nat /\ s.free + t + e + 2 * a + c = s.pages
    BY <1>2 DEF Pages0
  <2>7. r.free + u + (2 * l + n) = s.free + t + (2 * o + m) /\ r.free \in Nat
        /\ t \in Int /\ u \in Int
    BY <1>0 DEF PagesIn
  <2> HIDE DEF a, b, c, d, e, l, m, n, o
  <2>8. r.free + u + e + 2 * b + d = s.pages
    BY ONLY <2>2, <2>3, <2>4, <2>5, <2>6, <2>7, Sums5
  <2> QED BY <1>0, <2>8 DEF Pages0, b, d, e
<1>12. Refs(s.ref, v, s.file, w)
  <2>1. Refs(s.ref, s.proc, s.file, x)
    BY <1>0, <1>1 DEF FsOk
  <2>2. ASSUME NEW i \in Inums
        PROVE  s.ref[i] = Cardinality(Cwds(v, i)) + Cardinality(Opened(s.file, i)) + w[i]
    <3>1. HomesMoved(s.proc, v, p, i)
      BY <1>0, <1>8, HomesSet
    <3> DEFINE a == Cardinality(Cwds(s.proc, i))
               b == Cardinality(Cwds(v, i))
               c == Cardinality(Opened(s.file, i))
               m == One(Home(s.proc[p]), i)
               n == One(Home(q), i)
    <3>2. a \in Nat /\ b \in Nat /\ b + m = a + n
      BY <1>3, <3>1 DEF HomesMoved
    <3>3. c \in Nat
      BY CountTypes
    <3>4. s.ref[i] = a + c + x[i]
      BY <2>1 DEF Refs
    <3>5. w[i] + n = x[i] + m
      BY <1>0
    <3>6. w[i] \in Int /\ x[i] \in Int
      <4>1. w \in [Inums -> Nat] /\ x \in [Inums -> Nat] /\ i \in Inums
        BY <1>0, <1>1
      <4> QED BY ONLY <4>1
    <3>7. m \in Int /\ n \in Int
      BY OneType
    <3> HIDE DEF a, b, c, m, n
    <3>8. s.ref[i] = b + c + w[i]
      BY ONLY <3>2, <3>3, <3>4, <3>5, <3>6, <3>7, Sums3
    <3> QED BY <3>8 DEF b, c
  <2> QED BY <2>1, <2>2 DEF Refs
<1>13. InUseOnly(s.ino, v, s.file)
  <2>1. InUseOnly(s.ino, s.proc, s.file)
    BY <1>0, <1>1 DEF FsOk
  <2>2. \A j \in Slots : Homed(s.ino, s.proc[j])
    BY <2>1 DEF InUseOnly, Homed
  <2>3. \A j \in Slots : Homed(s.ino, v[j])
    BY <1>0, <1>3, <2>2
  <2> QED BY <2>1, <2>3 DEF InUseOnly, Homed
<1>14. FsOk(r, w)
  <2>1. /\ Disk(s.ino, s.bfree) /\ s.ref \in [Inums -> Int] /\ s.panic \in Known
    BY <1>1 DEF FsOk
  <2>2. /\ IsK(r) /\ r.ino = s.ino /\ r.bfree = s.bfree /\ r.ref = s.ref
        /\ r.panic = s.panic /\ r.file = s.file /\ r.proc = v
        /\ w \in [Inums -> Nat]
    BY <1>0, <1>5 DEF SameFs
  <2> QED BY ONLY <1>12, <1>13, <2>1, <2>2 DEF FsOk
<1>15. Others(r, z, u)
  <2>1. IsSeq(s.tty)
    BY <1>1 DEF Others
  <2>2. /\ r.file = s.file /\ r.proc = v /\ r.pipe = s.pipe
        /\ r.pages = s.pages /\ r.tty = s.tty
    BY <1>0, <1>5
  <2> QED BY ONLY <1>2, <1>9, <1>10, <1>11, <2>1, <2>2 DEF Others
<1> QED BY <1>14, <1>15 DEF Fine

-----------------------------------------------------------------------------
(* A process and the file system: iput() while another one's slot is       *)
(* changed.                                                                *)

SetProcs(s, v) == [s EXCEPT !.proc = v]

(* What happens to inodes does not depend on the processes.                *)
LEMMA ReflessProc ==
  ASSUME NEW s, IsK(s), NEW v, NEW i, NEW a, a = SetProcs(s, v)
  PROVE  SetProcs(refless(s, i), v) = refless(a, i)
<1> DEFINE c == [s.ref EXCEPT ![i] = s.ref[i] - 1]
<1>1. refless(s, i) = [s EXCEPT !.ref = c]
  BY DEF refless
<1>2. a.ref = s.ref
  BY DEF SetProcs, IsK
<1>3. refless(a, i) = [a EXCEPT !.ref = c]
  BY <1>2 DEF refless
<1> HIDE DEF c
<1>4. SetProcs([s EXCEPT !.ref = c], v) = [a EXCEPT !.ref = c]
  BY DEF SetProcs
<1> QED BY <1>1, <1>3, <1>4

Freed(ino, i) ==
  [[ino EXCEPT ![i] = Emptied(ino[i])] EXCEPT
     ![i] = [[ino EXCEPT ![i] = Emptied(ino[i])][i] EXCEPT !.type = "free"]]
Regained(d, bfree) ==
  bfree + Min({d.nblk, NDIRECT})
        + IF d.ind THEN d.nblk - Min({d.nblk, NDIRECT}) + 1 ELSE 0

(* ifree() frees the inode, its blocks and contents.                       *)
LEMMA IfreeIs ==
  ASSUME NEW s, IsK(s), NEW i
  PROVE  ifree(s, i) = [s EXCEPT !.ino = Freed(s.ino, i),
                                 !.bfree = Regained(s.ino[i], s.bfree)]
<1> DEFINE a == [s.ino EXCEPT ![i] = Emptied(s.ino[i])]
           b == Regained(s.ino[i], s.bfree)
<1>1. itrunc(s, i) = [s EXCEPT !.ino = a, !.bfree = b]
  <2>1. PICK c : /\ itrunc(s, i) = [s EXCEPT !.ino = a, !.bfree = c]
                 /\ c = LET d == s.ino[i]
                      direct == Min({d.nblk, NDIRECT})
                      indirect == IF d.ind THEN d.nblk - direct + 1 ELSE 0
                  IN s.bfree + direct + indirect
    BY ItruncIs
  <2>2. b = c
    BY <2>1 DEF Regained
  <2> HIDE DEF b
  <2> QED BY <2>1, <2>2
<1>2. ifree(s, i) = [itrunc(s, i) EXCEPT !.ino[i].type = "free"]
  BY DEF ifree
<1> HIDE DEF a, b
<1>3. [[s EXCEPT !.ino = a, !.bfree = b] EXCEPT !.ino[i].type = "free"] =
        [s EXCEPT !.ino = [a EXCEPT ![i] = [a[i] EXCEPT !.type = "free"]], !.bfree = b]
  BY DEF IsK
<1>4. [a EXCEPT ![i] = [a[i] EXCEPT !.type = "free"]] = Freed(s.ino, i)
  BY DEF Freed, a
<1> QED BY <1>1, <1>2, <1>3, <1>4 DEF b

(* Nor does ifree().                                                       *)
LEMMA IfreeProc ==
  ASSUME NEW s, IsK(s), NEW v, NEW i, NEW a, a = SetProcs(s, v)
  PROVE  SetProcs(ifree(s, i), v) = ifree(a, i)
<1> DEFINE m == Freed(s.ino, i)
           b == Regained(s.ino[i], s.bfree)
<1>1. IsK(a) /\ a.ino = s.ino /\ a.bfree = s.bfree
  BY SetProc DEF SetProcs, SameFs
<1>2. ifree(s, i) = [s EXCEPT !.ino = m, !.bfree = b]
  BY IfreeIs
<1>3. ifree(a, i) = [a EXCEPT !.ino = m, !.bfree = b]
  BY <1>1, IfreeIs
<1> HIDE DEF m, b
<1>4. SetProcs([s EXCEPT !.ino = m, !.bfree = b], v) = [a EXCEPT !.ino = m, !.bfree = b]
  BY DEF SetProcs
<1> QED BY <1>2, <1>3, <1>4

(* iput() commutes with a change of the process table.                     *)
LEMMA IputProc ==
  ASSUME NEW s, IsK(s), NEW v, NEW i, NEW a, a = SetProcs(s, v)
  PROVE  SetProcs(iput(s, i), v) = iput(a, i)
<1>1. IsK(a) /\ a.ino = s.ino /\ a.ref = s.ref
  BY SetProc DEF SetProcs, SameFs
<1>2. CASE s.ref[i] = 1 /\ s.ino[i].nlink = 0
  <2>1. iput(s, i) = refless(ifree(s, i), i)
    BY <1>2, IputIs
  <2>2. iput(a, i) = refless(ifree(a, i), i)
    BY <1>1, <1>2, IputIs
  <2>3. ifree(a, i) = SetProcs(ifree(s, i), v)
    BY IfreeProc
  <2>4. IsK(ifree(s, i))
    <3> DEFINE m == Freed(s.ino, i)
               b == Regained(s.ino[i], s.bfree)
    <3>1. ifree(s, i) = [s EXCEPT !.ino = m, !.bfree = b]
      BY IfreeIs
    <3> HIDE DEF m, b
    <3>2. IsK([s EXCEPT !.ino = m, !.bfree = b])
      BY SetDisk
    <3> QED BY <3>1, <3>2
  <2> QED BY <2>1, <2>2, <2>3, <2>4, ReflessProc
<1>3. CASE ~(s.ref[i] = 1 /\ s.ino[i].nlink = 0)
  <2>1. iput(s, i) = refless(s, i)
    BY <1>3, IputIs
  <2>2. iput(a, i) = refless(a, i)
    BY <1>1, <1>3, IputIs
  <2> QED BY <2>1, <2>2, ReflessProc
<1> QED BY <1>2, <1>3

-----------------------------------------------------------------------------
(* A process's current directory.                                          *)

(* What iput() leaves alone.                                               *)
LEMMA IputRest ==
  ASSUME NEW s, IsK(s), NEW i
  PROVE  IsK(iput(s, i)) /\ iput(s, i).proc = s.proc
<1>1. ASSUME NEW a, IsK(a) PROVE IsK(refless(a, i)) /\ refless(a, i).proc = a.proc
  <2> DEFINE c == [a.ref EXCEPT ![i] = a.ref[i] - 1]
  <2>1. refless(a, i) = [a EXCEPT !.ref = c]
    BY DEF refless
  <2> HIDE DEF c
  <2>2. IsK([a EXCEPT !.ref = c]) /\ Rest(a, [a EXCEPT !.ref = c])
    BY <1>1, SetRef
  <2> QED BY <2>1, <2>2 DEF Rest
<1>2. IsK(ifree(s, i)) /\ ifree(s, i).proc = s.proc
  <2> DEFINE m == Freed(s.ino, i)
             b == Regained(s.ino[i], s.bfree)
  <2>1. ifree(s, i) = [s EXCEPT !.ino = m, !.bfree = b]
    BY IfreeIs
  <2> HIDE DEF m, b
  <2>2. IsK([s EXCEPT !.ino = m, !.bfree = b]) /\ Rest(s, [s EXCEPT !.ino = m, !.bfree = b])
    BY SetDisk
  <2> QED BY <2>1, <2>2 DEF Rest
<1>3. iput(s, i) = refless(ifree(s, i), i) \/ iput(s, i) = refless(s, i)
  BY IputIs
<1> QED BY <1>1, <1>2, <1>3

SetCwd(q, ip) == [q EXCEPT !.cwd = ip]

(* A process with another directory.                                       *)
LEMMA SetCwdIs ==
  ASSUME NEW r, IsProc(r), NEW c, NEW q, q = SetCwd(r, c)
  PROVE  /\ IsProc(q) /\ q.st = r.st /\ q.cwd = c /\ q.sz = r.sz
         /\ q.pt = r.pt /\ q.fd = r.fd
<1>1. r = [n \in ProcFields |-> r[n]]
  BY DEF IsProc
<1>2. q = [r EXCEPT !.cwd = c]
  BY DEF SetCwd
<1>3. q = [n \in ProcFields |-> q[n]]
  BY ONLY <1>1, <1>2
<1>4. /\ q.st = r.st /\ q.cwd = c /\ q.sz = r.sz /\ q.pt = r.pt /\ q.fd = r.fd
      /\ q.done = r.done /\ q.code = r.code /\ q.buf = r.buf
  BY ONLY <1>1, <1>2 DEF ProcFields
<1> QED BY <1>3, <1>4 DEF IsProc

(* A slot of a fine state is right.                                        *)
LEMMA SlotIs ==
  ASSUME NEW s, NEW y, NEW t, Others(s, y, t), NEW p \in Slots
  PROVE  SlotOk(s.proc[p]) /\ IsProc(s.proc[p])
         /\ s.proc = [j \in Slots |-> s.proc[j]] /\ s.free \in Nat
BY DEF Others, Procs0, SlotOk, Pages0

(* The current directory moves to an inode in hand; the old one is then.   *)
LEMMA CwdFine ==
  ASSUME NEW s, NEW p \in Slots, NEW ip \in Inums, Fine(s, Plus(X0, ip), Y0, 0),
         s.panic = "" => s.ino[ip].type # "free" /\ s.proc[p].st = "used",
         NEW c \in Inums, s.proc[p].cwd = c, NEW v,
         v = Put(s.proc, p, SetCwd(s.proc[p], ip)), NEW r, r = SetProcs(s, v)
  PROVE  Fine(r, Plus(X0, c), Y0, 0)
<1>1. IsK(s) /\ FsOk(s, Plus(X0, ip))
  BY DEF Fine, FsOk
<1>2. /\ SameFs(s, r) /\ r.proc = v /\ r.file = s.file /\ r.pipe = s.pipe
      /\ r.pages = s.pages /\ r.free = s.free /\ r.tty = s.tty
  <2>1. r = [s EXCEPT !.proc = v]
    BY DEF SetProcs
  <2> QED BY ONLY <1>1, <2>1, SetProcOf
<1>3. X0Is(c) /\ X0Is(ip)
  BY X0Plus
<1>4. CASE s.panic # ""
  <2>1. Plus(X0, c) \in [Inums -> Nat]
    BY <1>3 DEF X0Is
  <2> QED BY <1>1, <1>2, <1>4, <2>1, SickFine
<1>5. CASE s.panic = ""
  <2>0. PICK q : q = SetCwd(s.proc[p], ip)
    OBVIOUS
  <2>1. Others(s, Y0, 0)
    BY <1>5 DEF Fine
  <2>2. SlotOk(s.proc[p]) /\ IsProc(s.proc[p]) /\ s.free \in Nat
    BY <2>1, SlotIs
  <2>3. /\ IsProc(q) /\ q.st = s.proc[p].st /\ q.cwd = ip /\ q.sz = s.proc[p].sz
         /\ q.pt = s.proc[p].pt /\ q.fd = s.proc[p].fd
    <3>1. IsProc(s.proc[p])
      BY <2>2
    <3> QED BY ONLY <2>0, <3>1, SetCwdIs
  <2>4. SlotOk(q) /\ Homed(s.ino, q)
    BY <1>5, <2>2, <2>3 DEF SlotOk, Homed
  <2>5. \A i \in Inums : Plus(X0, c)[i] + One(Home(q), i) =
                           Plus(X0, ip)[i] + One(Home(s.proc[p]), i)
    <3>1. Home(q) = ip /\ Home(s.proc[p]) = c
      BY <1>5, <2>3 DEF Home
    <3>2. \A i \in Inums : Plus(X0, c)[i] = One(c, i) /\ Plus(X0, ip)[i] = One(ip, i)
      BY <1>3 DEF X0Is
    <3>3. \A i \in Inums : One(c, i) \in Int /\ One(ip, i) \in Int
      BY OneType
    <3> QED BY ONLY <3>1, <3>2, <3>3
  <2>6. \A f \in Filenums : Y0[f] + Uses(q, f) = Y0[f] + Uses(s.proc[p], f)
    BY <2>3 DEF Uses
  <2>7. PagesIn(q) = PagesIn(s.proc[p])
    BY <2>3 DEF PagesIn
  <2>8. Y0 \in [Filenums -> Int] /\ Plus(X0, c) \in [Inums -> Nat] /\ 0 \in Int
    <3>1. \A f \in Filenums : 0 \in Int
      BY ONLY SMT
    <3>2. Y0 \in [Filenums -> Int]
      BY ONLY <3>1 DEF Y0
    <3>3. Plus(X0, c) \in [Inums -> Nat]
      BY ONLY <1>3 DEF X0Is
    <3>4. 0 \in Int
      BY ONLY SMT
    <3> QED BY ONLY <3>2, <3>3, <3>4
  <2>9. r.free + 0 + PagesIn(q) = s.free + 0 + PagesIn(s.proc[p]) /\ r.free \in Nat
        /\ r.proc = Put(s.proc, p, q)
    BY <1>2, <2>0, <2>2, <2>7
  <2>10. SlotStep(s, Plus(X0, ip), Y0, 0, p, q, Plus(X0, c), Y0, 0, r)
    BY <1>2, <1>5, <2>4, <2>5, <2>6, <2>8, <2>9 DEF SlotStep
  <2> QED BY ONLY <2>10, SlotFine
<1> QED BY <1>4, <1>5

-----------------------------------------------------------------------------
(* chdir().                                                                *)

ChdirResult(s, p, i, o, s1, u) ==
  IF ~argstr(s, p, i.path) THEN Return(s, p, -1)
  ELSE IF o.ip = 0 THEN Return(o.k, p, -1)
  ELSE IF ~IsDir(s1, o.ip) THEN Return(iput(s1, o.ip), p, -1)
  ELSE Return(u, p, 0)
MovedTo(s, p, ip) == [s EXCEPT !.proc[p].cwd = ip]

(* sys_chdir() is these parts.                                             *)
LEMMA ChdirUnfold ==
  ASSUME NEW s, NEW p, NEW i
  PROVE  sys_chdir(s, p, i) =
           LET o == namei(s, s.proc[p].cwd, i.path)
               s1 == ilock(o.k, o.ip)
           IN ChdirResult(s, p, i, o, s1, MovedTo(iput(s1, s.proc[p].cwd), p, o.ip))
BY DEF sys_chdir, ChdirResult, MovedTo

(* The process has moved.                                                  *)
LEMMA MovedIs ==
  ASSUME NEW s, NEW p, NEW ip
  PROVE  MovedTo(s, p, ip) = SetProcs(s, Put(s.proc, p, SetCwd(s.proc[p], ip)))
BY DEF MovedTo, SetProcs, Put, SetCwd

(* The directory at the end of the path, locked.                           *)
LEMMA LockedWalk ==
  ASSUME NEW s, NEW p, Ready(s, p), NEW o, Walk(s, X0, o), o.ip # 0, NEW s1,
         s1 = ilock(o.k, o.ip)
  PROVE  /\ o.ip \in Inums /\ FsOk(s1, Plus(X0, o.ip)) /\ Keeps(s, s1)
         /\ Fine(s1, Plus(X0, o.ip), Y0, 0)
         /\ (s1.panic = "" => s1.ino[o.ip].type # "free")
<2>1. /\ o.ip \in Inums /\ Fine(o.k, Plus(X0, o.ip), Y0, 0)
      /\ FsOk(o.k, Plus(X0, o.ip)) /\ Keeps(s, o.k)
  BY WalkDone
<2>2. X0 \in [Inums -> Nat]
  BY ZeroIs
<2>3. Plus(X0, o.ip)[o.ip] >= 1
  BY <2>1, <2>2, PlusIs
<2>4. FsOk(s1, Plus(X0, o.ip)) /\ Keeps(o.k, s1) /\ s1.ino = o.k.ino
      /\ (s1.panic = "" => o.k.ino[o.ip].type # "free")
  BY <2>1, <2>3, IlockFs
<2>5. Keeps(s, s1)
  BY <2>1, <2>4, KeepsTwice
<2>6. Fine(s1, Plus(X0, o.ip), Y0, 0)
  BY ONLY <2>1, <2>4, Lift
<2> QED BY <2>1, <2>4, <2>5, <2>6

(* The one inode in hand is given back.                                    *)
LEMMA PutBack ==
  ASSUME NEW s1, NEW i \in Inums, Fine(s1, Plus(X0, i), Y0, 0), NEW u,
         u = iput(s1, i)
  PROVE  Idle(u) /\ Keeps(s1, u) /\ u.panic = s1.panic
<1>1. FsOk(s1, Plus(X0, i))
  BY DEF Fine
<1>2. FsOk(u, X0) /\ Keeps(s1, u) /\ u.panic = s1.panic
  BY <1>1, IputLast, ZeroIs
<1>3. Fine(u, X0, Y0, 0)
  BY ONLY Fine(s1, Plus(X0, i), Y0, 0), <1>2, Lift
<1> QED BY <1>2, <1>3 DEF Idle

(* chdir() leaves nothing in hand.                                         *)
LEMMA ChdirIdle ==
  ASSUME NEW s, NEW p, Ready(s, p), NEW i, IsSeq(i.path)
  PROVE  Idle(sys_chdir(s, p, i))
<1>0. PICK c : c = s.proc[p].cwd
  OBVIOUS
<1>1. PICK o : o = namei(s, c, i.path)
  OBVIOUS
<1>2. PICK s1 : s1 = ilock(o.k, o.ip)
  OBVIOUS
<1>3. PICK u : u = MovedTo(iput(s1, c), p, o.ip)
  OBVIOUS
<1>4. sys_chdir(s, p, i) = ChdirResult(s, p, i, o, s1, u)
  BY <1>0, <1>1, <1>2, <1>3, ChdirUnfold
<1>5. FsOk(s, X0) /\ c \in Inums /\ p \in Slots /\ Idle(s)
  BY <1>0, ReadyIs DEF Idle
<1>6. Walk(s, X0, o)
  BY <1>1, <1>5, NameiFs
<1>7. CASE o.ip = 0
  <2>1. Idle(o.k)
    BY <1>6, <1>7, WalkDone
  <2> QED BY <1>4, <1>5, <1>7, <2>1, IdleReturn DEF ChdirResult
<1>8. CASE o.ip # 0
  <2>1. /\ o.ip \in Inums /\ FsOk(s1, Plus(X0, o.ip)) /\ Keeps(s, s1)
        /\ Fine(s1, Plus(X0, o.ip), Y0, 0)
        /\ (s1.panic = "" => s1.ino[o.ip].type # "free")
    BY <1>2, <1>6, <1>8, LockedWalk
  <2>2. Idle(iput(s1, o.ip))
    BY <2>1, PutBack
  <2>3. Idle(u)
    <3>1. IsK(s1)
      BY <2>1 DEF FsOk
    <3>2. s1.proc = s.proc
      BY <2>1 DEF Keeps, Rest
    <3>3. PICK v : v = Put(s1.proc, p, SetCwd(s1.proc[p], o.ip))
      OBVIOUS
    <3>4. iput(s1, c).proc = s1.proc
      BY <3>1, IputRest
    <3>5. u = SetProcs(iput(s1, c), v)
      BY <1>3, <3>3, <3>4, MovedIs
    <3>6. PICK a : a = SetProcs(s1, v)
      OBVIOUS
    <3>7. u = iput(a, c)
      BY <3>1, <3>5, <3>6, IputProc
    <3>8. s1.proc[p].cwd = c /\ s1.proc[p].st = "used"
      BY <1>0, <3>2 DEF Ready
    <3>9. Fine(a, Plus(X0, c), Y0, 0)
      BY <1>5, <2>1, <3>3, <3>6, <3>8, CwdFine
    <3> QED BY <1>5, <3>7, <3>9, PutBack
  <2> QED BY <1>4, <1>5, <1>8, <2>2, <2>3, IdleReturn DEF ChdirResult
<1> QED BY <1>7, <1>8

-----------------------------------------------------------------------------
(* What a process runs: its code and variables.                            *)

(* A process that is not writing has nothing done of a write.              *)
LEMMA NoneDone ==
  ASSUME NEW r, IsProc(r), Head(r.code).op # "write"
  PROVE  r.done = 0
<1>1. r.done \in Nat /\ (r.done > 0 => Head(r.code).op = "write")
  BY DEF IsProc
<1> QED BY <1>1

(* The user side runs on.                                                  *)
LEMMA SetCodeUser ==
  ASSUME NEW r, IsProc(r), Head(r.code).op # "write", NEW c, NEW q,
         q = [r EXCEPT !.code = c]
  PROVE  User(r, q)
<1>1. r.done = 0
  BY NoneDone
<1>2. r = [n \in ProcFields |-> r[n]]
  BY DEF IsProc
<1>3. q = [n \in ProcFields |-> q[n]]
  BY ONLY <1>2, q = [r EXCEPT !.code = c]
<1>4. /\ q.st = r.st /\ q.cwd = r.cwd /\ q.fd = r.fd /\ q.pt = r.pt
      /\ q.sz = r.sz /\ q.done = r.done /\ q.buf = r.buf
  BY ONLY <1>2, q = [r EXCEPT !.code = c] DEF ProcFields
<1>5. ~(q.done > 0)
  BY <1>1, <1>4
<1>6. IsProc(q)
  BY ONLY <1>3, <1>4, <1>5, IsProc(r) DEF IsProc
<1> QED BY ONLY <1>4, <1>6 DEF User

(* Its buffer is filled.                                                   *)
LEMMA SetBufUser ==
  ASSUME NEW r, IsProc(r), Head(r.code).op # "write", NEW b, IsSeq(b), NEW q,
         q = [r EXCEPT !.buf = b]
  PROVE  User(r, q)
<1>1. r.done = 0
  BY NoneDone
<1>2. r = [n \in ProcFields |-> r[n]]
  BY DEF IsProc
<1>3. q = [n \in ProcFields |-> q[n]]
  BY ONLY <1>2, q = [r EXCEPT !.buf = b]
<1>4. /\ q.st = r.st /\ q.cwd = r.cwd /\ q.fd = r.fd /\ q.pt = r.pt
      /\ q.sz = r.sz /\ q.done = r.done /\ q.buf = b
  BY ONLY <1>2, q = [r EXCEPT !.buf = b] DEF ProcFields
<1>5. ~(q.done > 0)
  BY <1>1, <1>4
<1>6. IsProc(q)
  BY ONLY <1>3, <1>4, <1>5, IsProc(r), IsSeq(b) DEF IsProc
<1> QED BY ONLY <1>4, <1>6 DEF User

Units(r, i) == IF i.copy THEN r.buf ELSE i.units

(* It has written some more.                                               *)
LEMMA SetDoneUser ==
  ASSUME NEW r, IsProc(r), NEW i, i = Head(r.code), i.op = "write",
         NEW n \in Nat, n <= Len(Units(r, i)), NEW q, q = [r EXCEPT !.done = n]
  PROVE  User(r, q)
<1>2. r = [m \in ProcFields |-> r[m]]
  BY DEF IsProc
<1>3. q = [m \in ProcFields |-> q[m]]
  BY ONLY <1>2, q = [r EXCEPT !.done = n]
<1>4. /\ q.st = r.st /\ q.cwd = r.cwd /\ q.fd = r.fd /\ q.pt = r.pt
      /\ q.sz = r.sz /\ q.done = n /\ q.buf = r.buf /\ q.code = r.code
  BY ONLY <1>2, q = [r EXCEPT !.done = n] DEF ProcFields
<1>5. /\ Head(q.code).op = "write"
      /\ q.done <= Len(IF Head(q.code).copy THEN q.buf ELSE Head(q.code).units)
  BY <1>4 DEF Units
<1>6. IsProc(q)
  BY ONLY <1>3, <1>4, <1>5, IsProc(r), n \in Nat DEF IsProc
<1> QED BY ONLY <1>4, <1>6 DEF User

(* What a program decides by itself.                                       *)
LEMMA ProcUser ==
  ASSUME NEW s, NEW p, Ready(s, p), NEW q, User(s.proc[p], q)
  PROVE  Idle([s EXCEPT !.proc[p] = q])
<1>1. p \in Slots /\ Idle(s)
  BY ReadyIs DEF Idle
<1>2. Idle([s EXCEPT !.proc = Put(s.proc, p, q)])
  BY <1>1, IdleUser
<1>3. [s EXCEPT !.proc[p] = q] = [s EXCEPT !.proc = Put(s.proc, p, q)]
  BY DEF Put
<1> QED BY <1>2, <1>3

(* Its next instruction.                                                   *)
LEMMA CodeIdle ==
  ASSUME NEW s, NEW p, Ready(s, p), Head(s.proc[p].code).op # "write", NEW c
  PROVE  Idle([s EXCEPT !.proc[p].code = c])
<1>1. PICK q : q = [s.proc[p] EXCEPT !.code = c]
  OBVIOUS
<1>2. IsProc(s.proc[p])
  BY ReadyIs
<1>3. User(s.proc[p], q)
  <2>1. PICK r : r = s.proc[p]
    OBVIOUS
  <2>2. IsProc(r) /\ Head(r.code).op # "write" /\ q = [r EXCEPT !.code = c]
    BY <1>1, <1>2, <2>1
  <2>3. User(r, q)
    BY ONLY <2>2, SetCodeUser
  <2> QED BY <2>1, <2>3
<1>4. Idle([s EXCEPT !.proc[p] = q])
  BY ONLY <1>3, Ready(s, p), ProcUser
<1>5. [s EXCEPT !.proc[p].code = c] = [s EXCEPT !.proc[p] = q]
  BY <1>1
<1> QED BY <1>4, <1>5

-----------------------------------------------------------------------------
(* Data that leaves or enters a pipe, and the console.                     *)

(* A part of a sequence.                                                   *)
LEMMA PartIs ==
  ASSUME NEW d, NEW a \in Int, NEW b \in Int
  PROVE  /\ IsSeq(SubSeq(d, a, b))
         /\ Len(SubSeq(d, a, b)) = IF a <= b THEN b - a + 1 ELSE 0
<1> DEFINE S == {d[j] : j \in a .. b}
           e == SubSeq(d, a, b)
<1>1. e \in Seq(S) /\ Len(e) = IF a <= b THEN b - a + 1 ELSE 0
  <2>1. \A j \in a .. b : d[j] \in S
    OBVIOUS
  <2> HIDE DEF S
  <2> QED BY <2>1, SubSeqProperties
<1> HIDE DEF e, S
<1>2. Len(e) \in Nat /\ e \in [1 .. Len(e) -> S]
  BY <1>1
<1>3. IsSeq(e)
  BY ONLY <1>2, FcnIsSeq
<1> QED BY <1>1, <1>3 DEF e

(* Two sequences joined.                                                   *)
LEMMA JoinedIs ==
  ASSUME NEW c, IsSeq(c), NEW d, IsSeq(d)
  PROVE  IsSeq(c \o d) /\ Len(c \o d) = Len(c) + Len(d)
<1> DEFINE S == ToSet(c) \cup ToSet(d)
           e == c \o d
<1>1. c \in Seq(ToSet(c)) /\ d \in Seq(ToSet(d))
  BY DEF IsSeq
<1>2. c \in Seq(S) /\ d \in Seq(S)
  <2>1. \A j \in 1 .. Len(c) : c[j] \in S
    BY <1>1
  <2>2. \A j \in 1 .. Len(d) : d[j] \in S
    BY <1>1
  <2>3. /\ c = [j \in 1 .. Len(c) |-> c[j]] /\ Len(c) \in Nat
        /\ d = [j \in 1 .. Len(d) |-> d[j]] /\ Len(d) \in Nat
    BY SeqIs
  <2> HIDE DEF S
  <2>4. c \in [1 .. Len(c) -> S] /\ d \in [1 .. Len(d) -> S]
    BY ONLY <2>1, <2>2, <2>3
  <2> QED BY ONLY <2>3, <2>4
<1> HIDE DEF S
<1>3. e \in Seq(S) /\ Len(e) = Len(c) + Len(d)
  BY ONLY <1>2
<1> HIDE DEF e
<1>4. Len(e) \in Nat /\ e \in [1 .. Len(e) -> S]
  BY <1>3
<1>5. IsSeq(e)
  BY ONLY <1>4, FcnIsSeq
<1> QED BY <1>3, <1>5 DEF e

(* What a pipe holds may change.                                           *)
Filled(e, d) == [e EXCEPT !.data = d]

(* A pipe with other data.                                                 *)
LEMMA FilledIs ==
  ASSUME NEW e, IsPipe(e), NEW d, IsSeq(d), Len(d) <= PIPESIZE, NEW h,
         h = Filled(e, d)
  PROVE  IsPipe(h) /\ h.readopen = e.readopen /\ h.writeopen = e.writeopen
<1>1. e = [n \in PipeFields |-> e[n]]
  BY DEF IsPipe
<1>2. h = [n \in PipeFields |-> h[n]]
  BY ONLY <1>1, h = Filled(e, d) DEF Filled
<1>3. h.readopen = e.readopen /\ h.writeopen = e.writeopen /\ h.data = d
  BY ONLY <1>1, h = Filled(e, d) DEF Filled, PipeFields
<1> QED BY ONLY <1>2, <1>3, IsPipe(e), IsSeq(d), Len(d) <= PIPESIZE DEF IsPipe

(* The pipes then.                                                         *)
LEMMA FilledPipes ==
  ASSUME NEW file, NEW pipe, Pipes(file, pipe), NEW q \in DOMAIN pipe, NEW d,
         IsSeq(d), Len(d) <= PIPESIZE, NEW v, v = Put(pipe, q, Filled(pipe[q], d))
  PROVE  Pipes(file, v) /\ DOMAIN v = DOMAIN pipe
<1>1. PICK h : h = Filled(pipe[q], d)
  OBVIOUS
<1>2. /\ DOMAIN v = DOMAIN pipe /\ v[q] = h
      /\ \A e \in DOMAIN pipe \ {q} : v[e] = pipe[e]
  BY ONLY <1>1, v = Put(pipe, q, Filled(pipe[q], d)), q \in DOMAIN pipe, PutIs
<1>3. /\ DOMAIN pipe \subseteq Filenums
      /\ \A e \in DOMAIN pipe : PipeOk(file, e, pipe[e])
      /\ \A f \in Filenums : file[f].type = "pipe" => file[f].pipe \in DOMAIN pipe
      /\ \A f, g \in Filenums :
       file[f].type = "pipe" /\ file[g].type = "pipe" /\
       file[f].pipe = file[g].pipe /\ file[f].w = file[g].w => f = g
  BY ONLY PipesAre, Pipes(file, pipe)
<1>4. IsPipe(h) /\ h.readopen = pipe[q].readopen /\ h.writeopen = pipe[q].writeopen
  <2>1. PICK e : e = pipe[q]
    OBVIOUS
  <2>2. IsPipe(e) /\ h = Filled(e, d)
    BY <1>1, <1>3, <2>1 DEF PipeOk
  <2>3. IsPipe(h) /\ h.readopen = e.readopen /\ h.writeopen = e.writeopen
    BY ONLY <2>2, FilledIs, IsSeq(d), Len(d) <= PIPESIZE
  <2> QED BY <2>1, <2>3
<1>5. PipeOk(file, q, h)
  <2>1. PipeOk(file, q, pipe[q])
    BY <1>3
  <2> QED BY ONLY <1>4, <2>1 DEF PipeOk
<1>6. \A e \in DOMAIN v : PipeOk(file, e, v[e])
  BY ONLY <1>2, <1>3, <1>5
<1> QED BY ONLY <1>2, <1>3, <1>6, PipesAre

SetPipes(s, v) == [s EXCEPT !.pipe = v]
SetPipesResult(s, v, r) ==
  /\ SameFs(s, r) /\ r.proc = s.proc /\ r.file = s.file /\ r.pipe = v
  /\ r.pages = s.pages /\ r.free = s.free /\ r.tty = s.tty

(* The state then.                                                         *)
LEMMA SetPipesIs ==
  ASSUME NEW s, IsK(s), NEW v, NEW r, r = SetPipes(s, v)
  PROVE  SetPipesResult(s, v, r)
<1>1. /\ SameFs(s, [s EXCEPT !.pipe = v]) /\ [s EXCEPT !.pipe = v].proc = s.proc
      /\ [s EXCEPT !.pipe = v].file = s.file /\ [s EXCEPT !.pipe = v].pipe = v
      /\ [s EXCEPT !.pipe = v].pages = s.pages
      /\ [s EXCEPT !.pipe = v].free = s.free /\ [s EXCEPT !.pipe = v].tty = s.tty
  BY ONLY IsK(s), SetPipe
<1> QED BY <1>1 DEF SetPipes, SetPipesResult

(* It is fine.                                                             *)
LEMMA PipeDataIdle ==
  ASSUME NEW s, NEW p, Ready(s, p), NEW q \in DOMAIN s.pipe, NEW d,
         IsSeq(d), Len(d) <= PIPESIZE, NEW r,
         r = SetPipes(s, Put(s.pipe, q, Filled(s.pipe[q], d)))
  PROVE  Ready(r, p) /\ r.proc = s.proc
<1>1. PICK v : v = Put(s.pipe, q, Filled(s.pipe[q], d))
  OBVIOUS
<1>2. /\ IsK(s) /\ s.panic = "" /\ FsOk(s, X0) /\ Others(s, Y0, 0)
      /\ Pipes(s.file, s.pipe) /\ p \in Slots /\ s.proc[p].st = "used"
  BY ReadyIs
<1>3. SetPipesResult(s, v, r)
  <2>1. r = SetPipes(s, v)
    BY <1>1
  <2> QED BY ONLY <1>2, <2>1, SetPipesIs
<1>4. Pipes(s.file, v) /\ DOMAIN v = DOMAIN s.pipe
  <2>1. PICK pipe, file : pipe = s.pipe /\ file = s.file
    OBVIOUS
  <2>2. Pipes(file, pipe) /\ q \in DOMAIN pipe /\ v = Put(pipe, q, Filled(pipe[q], d))
    BY <1>1, <1>2, <2>1
  <2>3. Pipes(file, v) /\ DOMAIN v = DOMAIN pipe
    BY ONLY <2>2, IsSeq(d), Len(d) <= PIPESIZE, FilledPipes
  <2> QED BY <2>1, <2>3
<1>5. FsOk(r, X0)
  BY ONLY <1>2, <1>3 DEF FsOk, SetPipesResult, SameFs
<1>6. Others(r, Y0, 0)
  BY ONLY <1>2, <1>3, <1>4 DEF Others, SetPipesResult, SameFs, Pages0
<1> QED BY ONLY <1>2, <1>3, <1>5, <1>6 DEF Ready, Idle, Fine, SetPipesResult, SameFs

(* Output to the console.                                                  *)
LEMMA TtyIdle ==
  ASSUME NEW s, NEW p, Ready(s, p), NEW d, IsSeq(d), NEW r,
         r = [s EXCEPT !.tty = d]
  PROVE  Ready(r, p) /\ r.proc = s.proc
<1>2. /\ IsK(s) /\ s.panic = "" /\ FsOk(s, X0) /\ Others(s, Y0, 0)
      /\ p \in Slots /\ s.proc[p].st = "used"
  BY ReadyIs
<1>3. /\ SameFs(s, r) /\ r.proc = s.proc /\ r.file = s.file
            /\ r.pipe = s.pipe /\ r.pages = s.pages /\ r.free = s.free
            /\ r.tty = d
  <2>1. r = WithTty(s, d)
    BY DEF WithTty
  <2>2. TtyResult(s, d, WithTty(s, d))
    BY ONLY <1>2, SetTtyOf
  <2> QED BY ONLY <2>1, <2>2 DEF TtyResult
<1>5. FsOk(r, X0)
  BY ONLY <1>2, <1>3 DEF FsOk, SameFs
<1>6. Others(r, Y0, 0)
  BY ONLY <1>2, <1>3, IsSeq(d) DEF Others, SameFs
<1> QED BY ONLY <1>2, <1>3, <1>5, <1>6 DEF Ready, Idle, Fine, SameFs

(* A file with another offset.                                             *)
LEMMA OffIdle ==
  ASSUME NEW s, NEW p, Ready(s, p), NEW f \in Filenums, NEW n \in Nat, NEW r,
         r = PutFile(s, f, [s.file[f] EXCEPT !.off = n])
  PROVE  Ready(r, p) /\ r.proc = s.proc
<1>1. PICK g : g = [s.file[f] EXCEPT !.off = n]
  OBVIOUS
<1>2. PICK h : h = s.file[f]
  OBVIOUS
<1>3. /\ IsK(s) /\ s.panic = "" /\ Fine(s, X0, Y0, 0) /\ Files0(s.file, s.proc, Y0)
      /\ p \in Slots /\ s.proc[p].st = "used"
  BY ReadyIs
<1>4. IsFile(h) /\ (h.ref = 0 => h.type = "none")
  BY <1>2, <1>3 DEF Files0
<1>5. IsFile(g) /\ g.ref = h.ref /\ g.type = h.type /\ g.ip = h.ip
         /\ g.pipe = h.pipe /\ g.w = h.w
  <2>1. g = [h EXCEPT !.off = n]
    BY <1>1, <1>2
  <2> QED BY ONLY <1>4, <2>1, n \in Nat, SetOffFile
<1>6. Y0 \in [Filenums -> Int]
  BY Y0Is
<1>7. Recount(Y0, Y0, f, h.ref, g.ref)
  BY <1>5 DEF Recount
<1>8. SameKind(h, g)
  BY ONLY <1>5 DEF SameKind
<1>9. KindStep(s, X0, Y0, 0, f, g, Y0)
  BY ONLY <1>2, <1>3, <1>4, <1>5, <1>6, <1>7, <1>8, f \in Filenums DEF KindStep
<1>10. r = PutFile(s, f, g)
  BY <1>1
<1>11. Fine(r, X0, Y0, 0)
  BY ONLY <1>9, <1>10, KindFine
<1>12. r.panic = s.panic /\ r.proc = s.proc
  BY ONLY <1>3, <1>10, PutFileIs
<1> QED BY ONLY <1>3, <1>11, <1>12 DEF Ready, Idle

-----------------------------------------------------------------------------
(* read().                                                                 *)

Reads(s, p, i) ==
  /\ Ready(s, p) /\ i = Head(s.proc[p].code) /\ i.op # "write"

(* The caller sees what was read.                                          *)
LEMMA SeenIdle ==
  ASSUME NEW s, NEW p, NEW i, Reads(s, p, i), NEW units, IsSeq(units), NEW n
  PROVE  Idle(Seen(s, p, i, units, n))
<1>1. Ready(s, p) /\ p \in Slots /\ IsProc(s.proc[p])
  BY ReadyIs DEF Reads
<1>2. PICK q : q = [s.proc[p] EXCEPT !.buf = units]
  OBVIOUS
<1>3. User(s.proc[p], q)
  <2>1. PICK r : r = s.proc[p]
    OBVIOUS
  <2>2. IsProc(r) /\ Head(r.code).op # "write" /\ q = [r EXCEPT !.buf = units]
    BY <1>1, <1>2, <2>1 DEF Reads
  <2>3. User(r, q)
    BY ONLY <2>2, IsSeq(units), SetBufUser
  <2> QED BY <2>1, <2>3
<1>4. Idle([s EXCEPT !.proc[p] = q])
  BY ONLY <1>1, <1>3, ProcUser
<1>5. PICK v : Seen(s, p, i, units, n) = Return([s EXCEPT !.proc[p].buf = units], p, v)
  BY DEF Seen
<1>6. [s EXCEPT !.proc[p].buf = units] = [s EXCEPT !.proc[p] = q]
  BY <1>2
<1>7. Idle(Return([s EXCEPT !.proc[p] = q], p, v))
  BY ONLY <1>1, <1>4, IdleReturn
<1> QED BY <1>5, <1>6, <1>7

ReadData(s, file, i) ==
  CASE file.type = "pipe" ->
         SubSeq(s.pipe[file.pipe].data, 1, Min({i.n, Len(s.pipe[file.pipe].data)}))
    [] file.type = "device" -> SubSeq(s.tty, 1, Min({i.n, 1}))
    [] OTHER -> readi(s, file.ip, file.off, i.n)
PipeTaken(s1, q, taken) ==
  [s1 EXCEPT !.pipe[q].data = SubSeq(@, taken + 1, Len(@))]
TtyTaken(s1, taken) == [s1 EXCEPT !.tty = SubSeq(@, taken + 1, Len(@))]
OffMoved(s1, f, n) == [s1 EXCEPT !.file[f].off = @ + n]

ReadResult(s, p, i, f, file, data, out, s1, good, taken) ==
  IF f = 0 THEN Return(s, p, -1)
  ELSE IF ~file.r THEN Return(s, p, -1)
  ELSE CASE file.type = "pipe" ->
                 Seen(PipeTaken(s1, file.pipe, taken), p, i, good, out.n)
         [] file.type = "device" ->
                 IF file.major # CONSOLE THEN Return(s, p, -1)
                 ELSE Seen(TtyTaken(s1, taken), p, i, good, out.n)
         [] OTHER ->
                 IF ~out.go THEN Return(s1, p, -1)
                 ELSE Seen(OffMoved(s1, f, Len(data)), p, i, data, Len(data))

(* sys_read() is these parts.                                              *)
LEMMA ReadUnfold ==
  ASSUME NEW s, NEW p, NEW i
  PROVE  sys_read(s, p, i) =
           LET f == argfd(s, p, i.fd)
               file == s.file[f]
               data == ReadData(s, file, i)
               out == copyout(Mem(s, p), Address(s, p, i.addr), Len(data))
               s1 == SetMem(s, p, out.mem)
               good == SubSeq(data, 1, out.n)
               taken == IF out.go THEN Len(data) ELSE out.n + 1
           IN ReadResult(s, p, i, f, file, data, out, s1, good, taken)
BY DEF sys_read, ReadResult, ReadData, PipeTaken, TtyTaken, OffMoved

(* What is read is a sequence.                                             *)
LEMMA ReadDataIs ==
  ASSUME NEW s, NEW p, Ready(s, p), NEW f \in Filenums, NEW i, i.n \in Nat,
         NEW d, d = ReadData(s, s.file[f], i), s.file[f].r
  PROVE  /\ IsSeq(d) /\ Len(d) \in Nat
         /\ s.file[f].type \in {"pipe", "inode", "device"}
         /\ s.file[f].type = "pipe" =>
              /\ s.file[f].pipe \in DOMAIN s.pipe /\ IsPipe(s.pipe[s.file[f].pipe])
         /\ s.file[f].off \in Nat
<1>1. PICK h : h = s.file[f]
  OBVIOUS
<1>2. /\ Files0(s.file, s.proc, Y0) /\ Pipes(s.file, s.pipe)
      /\ InUseOnly(s.ino, s.proc, s.file) /\ FsOk(s, X0)
  BY ReadyIs
<1>3. IsFile(h) /\ h.r
  BY <1>1, <1>2 DEF Files0
<1>4. h.type \in {"pipe", "inode", "device"} /\ h.off \in Nat
  BY <1>3 DEF IsFile
<1>5. h.type = "pipe" => h.pipe \in DOMAIN s.pipe /\ IsPipe(s.pipe[h.pipe])
  BY ONLY <1>1, <1>2, <1>3, PipeOf, f \in Filenums
<1>6. d = ReadData(s, h, i)
  BY <1>1
<1>7. IsSeq(d)
  <2>1. CASE h.type = "pipe"
    <3>1. PICK e : e = s.pipe[h.pipe].data
      OBVIOUS
    <3>2. IsSeq(e)
      BY <1>5, <2>1, <3>1 DEF IsPipe
    <3>3. Len(e) \in Int /\ i.n \in Int
      BY <3>2, SeqIs
    <3>4. Min({i.n, Len(e)}) \in Int
      BY <3>3, MinTwo
    <3>5. d = SubSeq(e, 1, Min({i.n, Len(e)}))
      BY <1>6, <2>1, <3>1 DEF ReadData
    <3> QED BY ONLY <3>4, <3>5, PartIs
  <2>2. CASE h.type = "device"
    <3>1. i.n \in Int
      OBVIOUS
    <3>2. Min({i.n, 1}) \in Int
      BY <3>1, MinTwo
    <3>3. d = SubSeq(s.tty, 1, Min({i.n, 1}))
      BY <1>6, <2>2 DEF ReadData
    <3> QED BY ONLY <3>2, <3>3, PartIs
  <2>3. CASE h.type = "inode"
    <3>1. h.ip \in Inums
      BY <1>1, <1>2, <2>3 DEF InUseOnly
    <3>2. PICK e : e = s.ino[h.ip].data
      OBVIOUS
    <3>3. IsSeq(e)
      BY <1>2, <3>1, <3>2, FsInums
    <3>4. Len(e) \in Int /\ i.n \in Int /\ h.off \in Int /\ h.off + i.n \in Int
          /\ h.off + 1 \in Int
      BY <1>4, <3>3, SeqIs
    <3>5. Min({h.off + i.n, Len(e)}) \in Int
      BY ONLY <3>4, MinTwo
    <3>6. d = IF h.off > Len(e) THEN <<>>
              ELSE SubSeq(e, h.off + 1, Min({h.off + i.n, Len(e)}))
      BY <1>6, <2>3, <3>2 DEF ReadData, readi
    <3>7. IsSeq(SubSeq(e, h.off + 1, Min({h.off + i.n, Len(e)})))
      BY ONLY <3>4, <3>5, PartIs
    <3> QED BY ONLY <3>6, <3>7, NoUnits
  <2> QED BY <1>4, <2>1, <2>2, <2>3
<1> QED BY ONLY <1>1, <1>4, <1>5, <1>7, SeqIs

(* read() leaves nothing in hand.                                          *)
LEMMA ReadIdle ==
  ASSUME NEW s, NEW p, NEW i, Reads(s, p, i), i.n \in Nat,
         Address(s, p, i.addr) \in Int
  PROVE  Idle(sys_read(s, p, i))
<1>1. PICK f : f = argfd(s, p, i.fd)
  OBVIOUS
<1>2. PICK file : file = s.file[f]
  OBVIOUS
<1>3. PICK data : data = ReadData(s, file, i)
  OBVIOUS
<1>4. PICK out : out = copyout(Mem(s, p), Address(s, p, i.addr), Len(data))
  OBVIOUS
<1>5. PICK s1 : s1 = SetMem(s, p, out.mem)
  OBVIOUS
<1>6. PICK good : good = SubSeq(data, 1, out.n)
  OBVIOUS
<1>7. PICK taken : taken = IF out.go THEN Len(data) ELSE out.n + 1
  OBVIOUS
<1>8. sys_read(s, p, i) = ReadResult(s, p, i, f, file, data, out, s1, good, taken)
  BY <1>1, <1>2, <1>3, <1>4, <1>5, <1>6, <1>7, ReadUnfold
<1>9. Ready(s, p) /\ Idle(s) /\ p \in Slots
  BY DEF Reads, Ready
<1>10. CASE f = 0 \/ ~file.r
  <2>1. sys_read(s, p, i) = Return(s, p, -1)
    BY <1>8, <1>10 DEF ReadResult
  <2> QED BY <1>9, <2>1, IdleReturn
<1>11. CASE f # 0 /\ file.r
  <2>1. f \in Filenums
    BY <1>1, <1>9, <1>11, ArgfdIs
  <2>2. /\ IsSeq(data) /\ Len(data) \in Nat
        /\ file.type \in {"pipe", "inode", "device"}
        /\ file.type = "pipe" => file.pipe \in DOMAIN s.pipe
                                 /\ IsPipe(s.pipe[file.pipe])
        /\ file.off \in Nat
    <3>1. data = ReadData(s, s.file[f], i) /\ s.file[f].r
      BY <1>2, <1>3, <1>11
    <3>2. /\ IsSeq(data) /\ Len(data) \in Nat
          /\ s.file[f].type \in {"pipe", "inode", "device"}
          /\ s.file[f].type = "pipe" =>
              /\ s.file[f].pipe \in DOMAIN s.pipe /\ IsPipe(s.pipe[s.file[f].pipe])
          /\ s.file[f].off \in Nat
      BY ONLY <1>9, <2>1, <3>1, i.n \in Nat, ReadDataIs
    <3> QED BY ONLY <1>2, <3>2
  <2>3. Changed(Mem(s, p), out.mem) /\ out.n \in 0 .. Len(data)
    <3>1. PICK m, n, a : m = Mem(s, p) /\ n = Len(data) /\ a = Address(s, p, i.addr)
      OBVIOUS
    <3>2. Own(m) /\ a \in Int /\ n \in Nat
      BY <1>9, <2>2, <3>1, ReadyOwn
    <3>3. out = Reach(m, a, n, TRUE)
      BY <1>4, <3>1 DEF copyout
    <3>4. Changed(m, out.mem) /\ out.n \in 0 .. n
      BY ONLY <3>2, <3>3, ReachMem
    <3> QED BY ONLY <3>1, <3>4
  <2>4. /\ Ready(s1, p) /\ Idle(s1) /\ MemKept(s, p, s1)
    BY ONLY <1>5, <1>9, <2>3, IdleMem
  <2>5. s1.pipe = s.pipe /\ s1.file = s.file /\ s1.proc[p].code = s.proc[p].code
    BY ONLY <1>9, <2>4 DEF MemKept
  <2>6. IsSeq(good)
    <3>1. out.n \in Int /\ 1 \in Int
      BY ONLY <2>2, <2>3
    <3> QED BY ONLY <1>6, <3>1, PartIs
  <2>7. taken \in Nat /\ taken + 1 \in Int
    BY ONLY <1>7, <2>2, <2>3
  <2>8. i = Head(s1.proc[p].code) /\ i.op # "write"
    BY ONLY <2>5, Reads(s, p, i) DEF Reads
  <2>9. CASE file.type = "pipe"
    <3>1. PICK e : e = s.pipe[file.pipe].data
      OBVIOUS
    <3>2. IsSeq(e) /\ Len(e) <= PIPESIZE /\ file.pipe \in DOMAIN s1.pipe
          /\ e = s1.pipe[file.pipe].data
      BY <2>2, <2>5, <2>9, <3>1 DEF IsPipe
    <3>3. Len(e) \in Nat /\ PIPESIZE \in Nat
      BY <3>2, SeqIs, SyscallsAssumption
    <3>4. PICK d : d = SubSeq(e, taken + 1, Len(e))
      OBVIOUS
    <3>5. IsSeq(d) /\ Len(d) = IF taken + 1 <= Len(e) THEN Len(e) - (taken + 1) + 1 ELSE 0
      <4>1. taken + 1 \in Int /\ Len(e) \in Int
        BY ONLY <2>7, <3>3
      <4> QED BY ONLY <3>4, <4>1, PartIs
    <3>6. Len(d) <= PIPESIZE
      BY ONLY <2>7, <3>2, <3>3, <3>5
    <3>7. PICK r : r = SetPipes(s1, Put(s1.pipe, file.pipe, Filled(s1.pipe[file.pipe], d)))
      OBVIOUS
    <3>8. r = PipeTaken(s1, file.pipe, taken)
      BY ONLY <3>2, <3>4, <3>7 DEF PipeTaken, SetPipes, Put, Filled
    <3>9. Ready(r, p) /\ r.proc = s1.proc
      BY ONLY <2>4, <3>2, <3>5, <3>6, <3>7, PipeDataIdle
    <3>10. Reads(r, p, i)
      BY ONLY <2>8, <3>9 DEF Reads
    <3>11. sys_read(s, p, i) = Seen(r, p, i, good, out.n)
      BY ONLY <1>8, <1>11, <2>9, <3>8 DEF ReadResult
    <3> QED BY ONLY <2>6, <3>10, <3>11, SeenIdle
  <2>10. CASE file.type = "device" /\ file.major # CONSOLE
    <3>1. sys_read(s, p, i) = Return(s, p, -1)
      BY ONLY <1>8, <1>11, <2>10 DEF ReadResult
    <3> QED BY <1>9, <3>1, IdleReturn
  <2>11. CASE file.type = "device" /\ file.major = CONSOLE
    <3>1. IsSeq(s1.tty)
      BY <2>4, ReadyIs
    <3>2. Len(s1.tty) \in Int
      BY <3>1, SeqIs
    <3>3. PICK d : d = SubSeq(s1.tty, taken + 1, Len(s1.tty))
      OBVIOUS
    <3>4. IsSeq(d)
      BY ONLY <2>7, <3>2, <3>3, PartIs
    <3>5. PICK r : r = [s1 EXCEPT !.tty = d]
      OBVIOUS
    <3>6. r = TtyTaken(s1, taken)
      BY ONLY <3>3, <3>5 DEF TtyTaken
    <3>7. Ready(r, p) /\ r.proc = s1.proc
      BY ONLY <2>4, <3>4, <3>5, TtyIdle
    <3>8. Reads(r, p, i)
      BY ONLY <2>8, <3>7 DEF Reads
    <3>9. sys_read(s, p, i) = Seen(r, p, i, good, out.n)
      BY ONLY <1>8, <1>11, <2>11, <3>6 DEF ReadResult
    <3> QED BY ONLY <2>6, <3>8, <3>9, SeenIdle
  <2>12. CASE file.type = "inode" /\ ~out.go
    <3>1. sys_read(s, p, i) = Return(s1, p, -1)
      BY ONLY <1>8, <1>11, <2>12 DEF ReadResult
    <3> QED BY ONLY <1>9, <2>4, <3>1, IdleReturn
  <2>13. CASE file.type = "inode" /\ out.go
    <3>1. PICK n : n = file.off + Len(data)
      OBVIOUS
    <3>2. n \in Nat
      BY ONLY <2>2, <3>1
    <3>3. PICK r : r = PutFile(s1, f, [s1.file[f] EXCEPT !.off = n])
      OBVIOUS
    <3>4. r = OffMoved(s1, f, Len(data))
      BY ONLY <1>2, <2>5, <3>1, <3>3 DEF OffMoved, PutFile, Put
    <3>5. Ready(r, p) /\ r.proc = s1.proc
      BY ONLY <2>1, <2>4, <3>2, <3>3, OffIdle
    <3>6. Reads(r, p, i)
      BY ONLY <2>8, <3>5 DEF Reads
    <3>7. sys_read(s, p, i) = Seen(r, p, i, data, Len(data))
      BY ONLY <1>8, <1>11, <2>13, <3>4 DEF ReadResult
    <3> QED BY ONLY <2>2, <3>6, <3>7, SeenIdle
  <2> QED BY <2>2, <2>9, <2>10, <2>11, <2>12, <2>13
<1> QED BY <1>10, <1>11

-----------------------------------------------------------------------------
(* write(), in parts.                                                      *)

Writes(s, p, i) ==
  /\ Ready(s, p) /\ i = Head(s.proc[p].code) /\ i.op = "write"
  /\ IsSeq(i.units)

(* How much of it is done, of how much.                                    *)
LEMMA DoneIs ==
  ASSUME NEW s, NEW p, NEW i, Writes(s, p, i), NEW r, r = s.proc[p]
  PROVE  /\ r.done \in Nat /\ IsSeq(Units(r, i)) /\ Len(Units(r, i)) \in Nat
         /\ r.done <= Len(Units(r, i)) /\ IsProc(r)
<1>1. IsProc(r) /\ i = Head(r.code) /\ IsSeq(i.units)
  BY ReadyIs DEF Writes
<1>2. r.done \in Nat /\ IsSeq(Units(r, i))
  BY <1>1 DEF IsProc, Units
<1>3. Len(Units(r, i)) \in Nat
  BY <1>2, SeqIs
<1>4. r.done > 0 => r.done <= Len(Units(r, i))
  BY <1>1 DEF IsProc, Units
<1> QED BY ONLY <1>1, <1>2, <1>3, <1>4

MoreOf(s, p, done, n, all) ==
  IF done + n = Len(all) THEN Return(s, p, done + n)
  ELSE [s EXCEPT !.proc[p].done = done + n]

(* The rest is for the next step.                                          *)
LEMMA MoreIdle ==
  ASSUME NEW s, NEW p, NEW i, Writes(s, p, i), NEW done \in Nat, NEW n \in Nat,
         NEW all, all = Units(s.proc[p], i), done + n <= Len(all)
  PROVE  Idle(MoreOf(s, p, done, n, all))
<1>1. Ready(s, p) /\ Idle(s) /\ p \in Slots /\ IsProc(s.proc[p])
  BY ReadyIs DEF Writes, Ready
<1>2. CASE done + n = Len(all)
  <2>1. MoreOf(s, p, done, n, all) = Return(s, p, done + n)
    BY <1>2 DEF MoreOf
  <2> QED BY ONLY <1>1, <2>1, IdleReturn
<1>3. CASE done + n # Len(all)
  <2>1. PICK q : q = [s.proc[p] EXCEPT !.done = done + n]
    OBVIOUS
  <2>2. User(s.proc[p], q)
    <3>1. PICK r, m : r = s.proc[p] /\ m = done + n
      OBVIOUS
    <3>2. IsProc(r) /\ i = Head(r.code) /\ i.op = "write"
      BY <1>1, <3>1 DEF Writes
    <3>3. m \in Nat /\ m <= Len(Units(r, i)) /\ q = [r EXCEPT !.done = m]
      BY <2>1, <3>1
    <3>4. User(r, q)
      BY ONLY <3>2, <3>3, SetDoneUser
    <3> QED BY <3>1, <3>4
  <2>3. Idle([s EXCEPT !.proc[p] = q])
    BY ONLY <1>1, <2>2, ProcUser
  <2>4. MoreOf(s, p, done, n, all) = [s EXCEPT !.proc[p] = q]
    BY <1>3, <2>1 DEF MoreOf
  <2> QED BY <2>3, <2>4
<1> QED BY <1>2, <1>3

WriteSize(s, file, left) ==
  CASE file.type = "pipe" -> Min({left, PIPESIZE - Len(s.pipe[file.pipe].data)})
    [] file.type = "device" -> left
    [] OTHER -> Min({left, MaxWrite})
PipeAdded(s1, q, units, n) ==
  [s1 EXCEPT !.pipe[q].data = @ \o SubSeq(units, 1, n)]
FileWritten(w, f) ==
  IF w.n > 0 THEN [w.k EXCEPT !.file[f].off = @ + w.n] ELSE w.k

WriteResult2(s, p, i, f, file, done, all, n, units, in, s1, w) ==
  IF f = 0 THEN Return(s, p, -1)
  ELSE IF ~file.w THEN Return(s, p, -1)
  ELSE CASE file.type = "pipe" ->
              IF Len(all) - done > 0 /\ ~s.pipe[file.pipe].readopen
              THEN Return(s, p, -1)
              ELSE IF in.go
              THEN MoreOf(PipeAdded(s1, file.pipe, units, in.n), p, done, n, all)
              ELSE Return(PipeAdded(s1, file.pipe, units, in.n), p, done + in.n)
         [] file.type = "device" ->
              Return(s1, p, IF file.major = CONSOLE THEN in.n ELSE -1)
         [] OTHER ->
              IF w.n = n THEN MoreOf(FileWritten(w, f), p, done, n, all)
              ELSE Return(FileWritten(w, f), p, -1)

(* filewrite() is these parts.                                             *)
LEMMA WriteUnfold ==
  ASSUME NEW s, NEW p, NEW i
  PROVE  filewrite(s, p, i) =
           LET f == argfd(s, p, i.fd)
               file == s.file[f]
               done == s.proc[p].done
               all == Units(s.proc[p], i)
               n == WriteSize(s, file, Len(all) - done)
               units == SubSeq(all, done + 1, done + n)
               in == copyin(Mem(s, p), Address(s, p, i.addr) + done, n)
               s1 == SetMem(s, p, in.mem)
               w == writei(s1, file.ip, file.off, units, in.n)
           IN WriteResult2(s, p, i, f, file, done, all, n, units, in, s1, w)
BY DEF filewrite, WriteResult2, WriteSize, PipeAdded, FileWritten, MoreOf, Units

(* A step writes a part.                                                   *)
LEMMA WriteSizeIs ==
  ASSUME NEW s, NEW p, Ready(s, p), NEW f \in Filenums, NEW h, h = s.file[f],
         h.w, NEW left \in Nat
  PROVE  /\ WriteSize(s, h, left) \in 0 .. left
         /\ h.type \in {"pipe", "inode", "device"} /\ h.off \in Nat
         /\ h.type = "pipe" =>
              /\ h.pipe \in DOMAIN s.pipe /\ IsPipe(s.pipe[h.pipe])
              /\ WriteSize(s, h, left) + Len(s.pipe[h.pipe].data) <= PIPESIZE
         /\ h.type = "inode" => h.ip \in Inums /\ s.ino[h.ip].type \notin {"free", "dir"}
<1>2. /\ Files0(s.file, s.proc, Y0) /\ Pipes(s.file, s.pipe)
      /\ InUseOnly(s.ino, s.proc, s.file) /\ FsOk(s, X0)
  BY ReadyIs
<1>3. IsFile(h)
  BY <1>2 DEF Files0
<1>4. h.type \in {"pipe", "inode", "device"} /\ h.off \in Nat
  BY <1>3 DEF IsFile
<1>5. h.type = "pipe" => h.pipe \in DOMAIN s.pipe /\ IsPipe(s.pipe[h.pipe])
  BY ONLY h = s.file[f], <1>2, <1>3, PipeOf, f \in Filenums
<1>6. h.type = "inode" => h.ip \in Inums /\ s.ino[h.ip].type \notin {"free", "dir"}
  BY <1>2 DEF InUseOnly
<1>7. h.type = "pipe" =>
        /\ WriteSize(s, h, left) \in 0 .. left
        /\ WriteSize(s, h, left) + Len(s.pipe[h.pipe].data) <= PIPESIZE
  <2>1. HAVE h.type = "pipe"
  <2>2. PICK e : e = s.pipe[h.pipe].data
    OBVIOUS
  <2>3. IsSeq(e) /\ Len(e) <= PIPESIZE
    BY <1>5, <2>1, <2>2 DEF IsPipe
  <2>4. Len(e) \in Nat /\ PIPESIZE \in Nat
    BY <2>3, SeqIs, SyscallsAssumption
  <2>5. PIPESIZE - Len(e) \in Int /\ left \in Int
    BY ONLY <2>4, left \in Nat
  <2>6. Min({left, PIPESIZE - Len(e)}) =
          IF left <= PIPESIZE - Len(e) THEN left ELSE PIPESIZE - Len(e)
    BY ONLY <2>5, MinTwo
  <2>7. WriteSize(s, h, left) = Min({left, PIPESIZE - Len(e)})
    BY <2>1, <2>2 DEF WriteSize
  <2> QED BY ONLY <2>2, <2>3, <2>4, <2>6, <2>7, left \in Nat
<1>8. h.type = "device" => WriteSize(s, h, left) \in 0 .. left
  <2>1. HAVE h.type = "device"
  <2>2. WriteSize(s, h, left) = left
    BY <2>1 DEF WriteSize
  <2> QED BY ONLY <2>2, left \in Nat
<1>9. h.type = "inode" => WriteSize(s, h, left) \in 0 .. left
  <2>1. HAVE h.type = "inode"
  <2>2. WriteSize(s, h, left) = Min({left, MaxWrite})
    BY <2>1 DEF WriteSize
  <2>3. left \in Int /\ MaxWrite \in Int /\ MaxWrite \in Nat
    BY SyscallsAssumption
  <2>4. Min({left, MaxWrite}) = IF left <= MaxWrite THEN left ELSE MaxWrite
    BY ONLY <2>3, MinTwo
  <2> QED BY ONLY <2>2, <2>3, <2>4, left \in Nat
<1> QED BY ONLY <1>4, <1>5, <1>6, <1>7, <1>8, <1>9

(* An inode is written to, and the file's offset moves on.                 *)
LEMMA WrittenReady ==
  ASSUME NEW s, NEW p, Ready(s, p), NEW f \in Filenums, NEW h, h = s.file[f],
         h.ip \in Inums, s.ino[h.ip].type \notin {"free", "dir"}, h.off \in Nat,
         NEW units, IsSeq(units), NEW good, NEW w,
         w = writei(s, h.ip, h.off, units, good), NEW r, r = FileWritten(w, f)
  PROVE  Ready(r, p) /\ r.proc = s.proc
<1>1. PICK i, off : i = h.ip /\ off = h.off
  OBVIOUS
<1>2. /\ IsK(s) /\ s.panic = "" /\ FsOk(s, X0) /\ Fine(s, X0, Y0, 0)
      /\ p \in Slots /\ s.proc[p].st = "used" /\ Disk(s.ino, s.bfree)
  BY ReadyIs DEF FsOk
<1>3. PICK u, n : u = w.k /\ n = w.n
  OBVIOUS
<1>4. /\ i \in Inums /\ s.ino[i].type # "free" /\ off \in Nat
      /\ s.ino[i].type = "dir" => \A j \in 1 .. Len(units) : units[j][2] \in 0 .. NINODES
      /\ u = writei(s, i, off, units, good).k
      /\ n = writei(s, i, off, units, good).n
  BY <1>1, <1>3
<1>5. /\ IsK(u) /\ Rest(s, u) /\ u.panic = s.panic /\ u.ref = s.ref
      /\ u.ino = [s.ino EXCEPT ![i] = u.ino[i]]
      /\ u.ino[i].type = s.ino[i].type
      /\ Disk(u.ino, u.bfree) /\ n \in Int
  <2>1. LET a == writei(s, i, off, units, good).k
            b == writei(s, i, off, units, good).n
         IN /\ IsK(a) /\ Rest(s, a) /\ a.panic = s.panic /\ a.ref = s.ref
            /\ a.ino = [s.ino EXCEPT ![i] = a.ino[i]]
            /\ a.ino[i].type = s.ino[i].type /\ a.ino[i].nlink = s.ino[i].nlink
            /\ Disk(a.ino, a.bfree) /\ b \in Int
    <3>1. /\ IsK(s) /\ i \in Inums /\ Disk(s.ino, s.bfree)
          /\ s.ino[i].type # "free" /\ off \in Nat /\ IsSeq(units)
          /\ s.ino[i].type = "dir" =>
               \A j \in 1 .. Len(units) : units[j][2] \in 0 .. NINODES
      BY ONLY <1>2, <1>4, IsSeq(units)
    <3> QED BY ONLY <3>1, WriteiGrows
  <2> QED BY ONLY <1>4, <2>1
<1>6. \A j \in Inums : j # i => u.ino[j] = s.ino[j]
  <2>1. s.ino = [j \in Inums |-> s.ino[j]]
    BY <1>2, <1>4, FsInums
  <2> QED BY ONLY <1>5, <2>1
<1>7. FsOk(u, X0) /\ Keeps(s, u)
  <2>1. FsOk(s, X0) /\ i \in Inums /\ IsK(u) /\ Rest(s, u)
        /\ u.panic = s.panic /\ u.ref = s.ref /\ Disk(u.ino, u.bfree)
    BY ONLY <1>2, <1>4, <1>5
  <2>2. \/ u.ino[i].type = s.ino[i].type
        \/ s.ino[i].type = "free"
        \/ s.panic = "" => s.ref[i] = X0[i]
    BY ONLY <1>5
  <2> QED BY ONLY <1>6, <2>1, <2>2, FsUpdate
<1>8. Fine(u, X0, Y0, 0)
  BY ONLY <1>2, <1>7, Lift
<1>9. u.proc = s.proc /\ u.file = s.file
  BY ONLY <1>5 DEF Rest
<1>10. Ready(u, p)
  BY ONLY <1>2, <1>5, <1>8, <1>9 DEF Ready, Idle
<1>11. CASE n > 0
  <2>1. PICK m : m = off + n
    OBVIOUS
  <2>2. m \in Nat
    BY ONLY <1>4, <1>5, <1>11, <2>1
  <2>3. r = PutFile(u, f, [u.file[f] EXCEPT !.off = m])
    BY <1>1, <1>3, <1>9, <1>11, <2>1 DEF FileWritten, PutFile, Put
  <2>4. Ready(r, p) /\ r.proc = u.proc
    BY ONLY <1>10, <2>2, <2>3, f \in Filenums, OffIdle
  <2> QED BY ONLY <1>9, <2>4
<1>12. CASE ~(n > 0)
  <2>1. r = u
    BY <1>3, <1>12 DEF FileWritten
  <2> QED BY ONLY <1>9, <1>10, <2>1
<1> QED BY <1>11, <1>12

-----------------------------------------------------------------------------
(* write().                                                                *)

(* filewrite() leaves nothing in hand.                                     *)
LEMMA FilewriteIdle ==
  ASSUME NEW s, NEW p, NEW i, Writes(s, p, i), Address(s, p, i.addr) \in Int
  PROVE  Idle(filewrite(s, p, i))
<1>1. PICK f : f = argfd(s, p, i.fd)
  OBVIOUS
<1>2. PICK file : file = s.file[f]
  OBVIOUS
<1>3. PICK done : done = s.proc[p].done
  OBVIOUS
<1>4. PICK all : all = Units(s.proc[p], i)
  OBVIOUS
<1>5. PICK n : n = WriteSize(s, file, Len(all) - done)
  OBVIOUS
<1>6. PICK units : units = SubSeq(all, done + 1, done + n)
  OBVIOUS
<1>7. PICK in : in = copyin(Mem(s, p), Address(s, p, i.addr) + done, n)
  OBVIOUS
<1>8. PICK s1 : s1 = SetMem(s, p, in.mem)
  OBVIOUS
<1>9. PICK w : w = writei(s1, file.ip, file.off, units, in.n)
  OBVIOUS
<1>10. filewrite(s, p, i) =
         WriteResult2(s, p, i, f, file, done, all, n, units, in, s1, w)
  BY <1>1, <1>2, <1>3, <1>4, <1>5, <1>6, <1>7, <1>8, <1>9, WriteUnfold
<1>11. Ready(s, p) /\ Idle(s) /\ p \in Slots
  BY DEF Writes, Ready
<1>12. CASE f = 0 \/ ~file.w
  <2>1. filewrite(s, p, i) = Return(s, p, -1)
    BY ONLY <1>10, <1>12 DEF WriteResult2
  <2> QED BY ONLY <1>11, <2>1, IdleReturn
<1>13. CASE f # 0 /\ file.w
  <2>1. f \in Filenums
    BY <1>1, <1>11, <1>13, ArgfdIs
  <2>2. /\ done \in Nat /\ IsSeq(all) /\ Len(all) \in Nat /\ done <= Len(all)
    BY <1>3, <1>4, DoneIs
  <2>3. Len(all) - done \in Nat
    BY ONLY <2>2
  <2>4. /\ n \in 0 .. Len(all) - done
        /\ file.type \in {"pipe", "inode", "device"} /\ file.off \in Nat
        /\ file.type = "pipe" =>
             /\ file.pipe \in DOMAIN s.pipe /\ IsPipe(s.pipe[file.pipe])
             /\ n + Len(s.pipe[file.pipe].data) <= PIPESIZE
        /\ file.type = "inode" => file.ip \in Inums
                                  /\ s.ino[file.ip].type \notin {"free", "dir"}
    <3>1. PICK left : left = Len(all) - done
      OBVIOUS
    <3>2. left \in Nat /\ n = WriteSize(s, file, left) /\ file.w
      BY ONLY <1>5, <1>13, <2>3, <3>1
    <3>3. /\ WriteSize(s, file, left) \in 0 .. left
          /\ file.type \in {"pipe", "inode", "device"} /\ file.off \in Nat
          /\ file.type = "pipe" =>
              /\ file.pipe \in DOMAIN s.pipe /\ IsPipe(s.pipe[file.pipe])
              /\ WriteSize(s, file, left) + Len(s.pipe[file.pipe].data) <= PIPESIZE
          /\ file.type = "inode" => file.ip \in Inums /\ s.ino[file.ip].type \notin {"free", "dir"}
      BY ONLY <1>2, <1>11, <2>1, <3>2, WriteSizeIs
    <3> QED BY ONLY <3>1, <3>2, <3>3
  <2>5. n \in Nat /\ done + n <= Len(all)
    BY ONLY <2>2, <2>4
  <2>6. Changed(Mem(s, p), in.mem) /\ in.n \in 0 .. n
    <3>1. PICK m, a : m = Mem(s, p) /\ a = Address(s, p, i.addr) + done
      OBVIOUS
    <3>2. Own(m) /\ a \in Int /\ n \in Nat
      BY <1>11, <2>2, <2>5, <3>1, ReadyOwn
    <3>3. in = Reach(m, a, n, FALSE)
      BY <1>7, <3>1 DEF copyin
    <3>4. Changed(m, in.mem) /\ in.n \in 0 .. n
      BY ONLY <3>2, <3>3, ReachMem
    <3> QED BY ONLY <3>1, <3>4
  <2>7. /\ Ready(s1, p) /\ Idle(s1) /\ MemKept(s, p, s1)
    BY ONLY <1>8, <1>11, <2>6, IdleMem
  <2>8. /\ s1.pipe = s.pipe /\ s1.file = s.file /\ s1.ino = s.ino
        /\ s1.proc[p].code = s.proc[p].code /\ s1.proc[p].buf = s.proc[p].buf
    BY ONLY <1>11, <2>7 DEF MemKept
  <2>9. IsSeq(units) /\ Len(units) = n
    <3>1. done + 1 \in Int /\ done + n \in Int
      BY ONLY <2>2, <2>5
    <3>2. IsSeq(units) /\ Len(units) = IF done + 1 <= done + n
                                       THEN (done + n) - (done + 1) + 1 ELSE 0
      BY ONLY <1>6, <3>1, PartIs
    <3> QED BY ONLY <2>2, <2>5, <3>2
  <2>10. Writes(s1, p, i) /\ all = Units(s1.proc[p], i)
    <3>1. Units(s1.proc[p], i) = Units(s.proc[p], i)
      BY ONLY <2>8 DEF Units
    <3>2. Writes(s1, p, i)
      BY ONLY <2>7, <2>8, Writes(s, p, i) DEF Writes
    <3> QED BY ONLY <1>4, <3>1, <3>2
  <2>11. CASE file.type = "pipe" /\ Len(all) - done > 0 /\ ~s.pipe[file.pipe].readopen
    <3>1. filewrite(s, p, i) = Return(s, p, -1)
      BY ONLY <1>10, <1>13, <2>11 DEF WriteResult2
    <3> QED BY ONLY <1>11, <3>1, IdleReturn
  <2>12. CASE file.type = "pipe" /\ ~(Len(all) - done > 0 /\ ~s.pipe[file.pipe].readopen)
    <3>1. PICK e : e = s.pipe[file.pipe].data
      OBVIOUS
    <3>2. IsSeq(e) /\ Len(e) + n <= PIPESIZE /\ file.pipe \in DOMAIN s1.pipe
          /\ e = s1.pipe[file.pipe].data
      BY <2>4, <2>5, <2>8, <2>12, <3>1 DEF IsPipe
    <3>3. Len(e) \in Nat /\ PIPESIZE \in Nat
      BY <3>2, SeqIs, SyscallsAssumption
    <3>4. PICK c : c = SubSeq(units, 1, in.n)
      OBVIOUS
    <3>5. IsSeq(c) /\ Len(c) <= n /\ Len(c) \in Nat
      <4>1. in.n \in Int /\ 1 \in Int
        BY ONLY <2>5, <2>6
      <4>2. IsSeq(c) /\ Len(c) = IF 1 <= in.n THEN in.n - 1 + 1 ELSE 0
        BY ONLY <3>4, <4>1, PartIs
      <4> QED BY ONLY <2>5, <2>6, <4>2
    <3>6. PICK d : d = e \o c
      OBVIOUS
    <3>7. IsSeq(d) /\ Len(d) = Len(e) + Len(c)
      BY ONLY <3>2, <3>5, <3>6, JoinedIs
    <3>8. Len(d) <= PIPESIZE
      BY ONLY <2>5, <3>2, <3>3, <3>5, <3>7
    <3>9. PICK r : r = SetPipes(s1, Put(s1.pipe, file.pipe, Filled(s1.pipe[file.pipe], d)))
      OBVIOUS
    <3>10. r = PipeAdded(s1, file.pipe, units, in.n)
      BY ONLY <3>2, <3>4, <3>6, <3>9 DEF PipeAdded, SetPipes, Put, Filled
    <3>11. Ready(r, p) /\ r.proc = s1.proc
      <4>1. PICK q : q = file.pipe
        OBVIOUS
      <4>2. /\ Ready(s1, p) /\ q \in DOMAIN s1.pipe /\ IsSeq(d)
            /\ Len(d) <= PIPESIZE
            /\ r = SetPipes(s1, Put(s1.pipe, q, Filled(s1.pipe[q], d)))
        BY ONLY <2>7, <3>2, <3>7, <3>8, <3>9, <4>1
      <4> QED BY ONLY <4>2, PipeDataIdle
    <3>12. Writes(r, p, i) /\ all = Units(r.proc[p], i)
      BY ONLY <2>10, <3>11 DEF Writes
    <3>13. Idle(MoreOf(r, p, done, n, all))
      BY ONLY <2>2, <2>5, <3>12, MoreIdle
    <3>14. Idle(Return(r, p, done + in.n))
      BY ONLY <1>11, <3>11, IdleReturn DEF Ready
    <3>15. \/ filewrite(s, p, i) = MoreOf(r, p, done, n, all)
           \/ filewrite(s, p, i) = Return(r, p, done + in.n)
      BY ONLY <1>10, <1>13, <2>12, <3>10 DEF WriteResult2
    <3> QED BY ONLY <3>13, <3>14, <3>15
  <2>13. CASE file.type = "device"
    <3>1. PICK v : filewrite(s, p, i) = Return(s1, p, v)
      BY ONLY <1>10, <1>13, <2>13 DEF WriteResult2
    <3> QED BY ONLY <1>11, <2>7, <3>1, IdleReturn
  <2>14. CASE file.type = "inode"
    <3>1. PICK r : r = FileWritten(w, f)
      OBVIOUS
    <3>2. file = s1.file[f] /\ file.ip \in Inums
          /\ s1.ino[file.ip].type \notin {"free", "dir"} /\ file.off \in Nat
      BY ONLY <1>2, <2>4, <2>8, <2>14
    <3>3. Ready(r, p) /\ r.proc = s1.proc
      <4>1. PICK good : good = in.n
        OBVIOUS
      <4>2. /\ Ready(s1, p) /\ f \in Filenums /\ file = s1.file[f]
            /\ file.ip \in Inums /\ s1.ino[file.ip].type \notin {"free", "dir"}
            /\ file.off \in Nat /\ IsSeq(units) /\ r = FileWritten(w, f)
            /\ w = writei(s1, file.ip, file.off, units, good)
        BY ONLY <1>9, <2>1, <2>7, <2>9, <3>1, <3>2, <4>1
      <4> QED BY ONLY <4>2, WrittenReady
    <3>4. Writes(r, p, i) /\ all = Units(r.proc[p], i)
      BY ONLY <2>10, <3>3 DEF Writes
    <3>5. Idle(MoreOf(r, p, done, n, all))
      BY ONLY <2>2, <2>5, <3>4, MoreIdle
    <3>6. Idle(Return(r, p, -1))
      BY ONLY <1>11, <3>3, IdleReturn DEF Ready
    <3>7. \/ filewrite(s, p, i) = MoreOf(r, p, done, n, all)
          \/ filewrite(s, p, i) = Return(r, p, -1)
      BY ONLY <1>10, <1>13, <2>14, <3>1 DEF WriteResult2
    <3> QED BY ONLY <3>5, <3>6, <3>7
  <2> QED BY <2>4, <2>11, <2>12, <2>13, <2>14
<1> QED BY <1>12, <1>13

(* write() leaves nothing in hand.                                         *)
LEMMA WriteIdle ==
  ASSUME NEW s, NEW p, NEW i, Writes(s, p, i), Address(s, p, i.addr) \in Int
  PROVE  Idle(sys_write(s, p, i))
<1>1. Idle(filewrite(s, p, i))
  BY FilewriteIdle
<1>2. Idle(Panic(s, "walk"))
  <2>1. Idle(s) /\ "walk" \in Known \ {""}
    BY DEF Writes, Ready, Known
  <2> QED BY ONLY <2>1, PanicIdle
<1> QED BY <1>1, <1>2 DEF sys_write

-----------------------------------------------------------------------------
(* freeproc().                                                             *)

(* A free slot.                                                            *)
LEMMA NoProcIs ==
  /\ IsProc(NoProc) /\ NoProc.st = "unused" /\ DOMAIN NoProc.pt = {}
  /\ NoProc.fd \in [Fds -> 0 .. NFILE] /\ (\A d \in Fds : NoProc.fd[d] = 0)
  /\ NoProc.sz = 0 /\ NoProc.done = 0 /\ IsSeq(NoProc.buf)
  /\ NoProc = [n \in ProcFields |-> NoProc[n]]
<1>1. NoProc = [n \in ProcFields |-> NoProc[n]]
  BY DEF NoProc, ProcFields
<1>2. /\ NoProc.st = "unused" /\ NoProc.pt = <<>> /\ NoProc.sz = 0
      /\ NoProc.done = 0 /\ NoProc.buf = <<>>
      /\ NoProc.fd = [d \in 0 .. NOFILE - 1 |-> 0]
  BY DEF NoProc
<1>3. DOMAIN NoProc.pt = {}
  <2>1. DOMAIN <<>> = {}
    OBVIOUS
  <2> QED BY ONLY <1>2, <2>1
<1>4. NFILE \in Nat
  BY FilesAssumption
<1>5. 0 \in 0 .. NFILE
  BY ONLY <1>4
<1>6. NoProc.fd \in [Fds -> 0 .. NFILE] /\ \A d \in Fds : NoProc.fd[d] = 0
  BY ONLY <1>2, <1>5 DEF Fds
<1>7. IsSeq(NoProc.buf)
  BY ONLY <1>2, NoUnits
<1>8. ~(NoProc.done > 0) /\ NoProc.done \in Nat /\ NoProc.sz \in Nat
  BY ONLY <1>2
<1>9. IsProc(NoProc)
  BY ONLY <1>1, <1>6, <1>7, <1>8 DEF IsProc
<1> QED BY ONLY <1>1, <1>2, <1>3, <1>6, <1>7, <1>9

(* Zero is a number.                                                       *)
LEMMA ZeroInt ==
  X0 \in [Inums -> Nat] /\ Y0 \in [Filenums -> Int] /\ 0 \in Int
<1>1. \A f \in Filenums : 0 \in Int
  BY ONLY SMT
<1>2. Y0 \in [Filenums -> Int]
  BY ONLY <1>1 DEF Y0
<1>3. X0 \in [Inums -> Nat]
  BY ZeroIs
<1> QED BY ONLY <1>2, <1>3, SMT

(* A slot with no open files uses none.                                    *)
LEMMA NoUses ==
  ASSUME NEW q, \A d \in Fds : q.fd[d] = 0, NEW f \in Filenums
  PROVE  Uses(q, f) = 0
<1>1. {d \in Fds : q.fd[d] = f} = {}
  BY ZeroOne
<1> QED BY <1>1, FS_EmptySet DEF Uses

(* The pages of a process.                                                 *)
LEMMA PagesInIs ==
  ASSUME NEW q, SlotOk(q)
  PROVE  /\ Cardinality(DOMAIN q.pt) \in Nat /\ IsFiniteSet(DOMAIN q.pt)
         /\ PagesIn(q) = (IF q.st = "unused" THEN 0 ELSE 2) + Cardinality(DOMAIN q.pt)
<1>1. q.sz \in Nat /\ DOMAIN q.pt \subseteq 0 .. PGROUNDUP(q.sz) - 1
  BY DEF SlotOk, IsProc
<1>2. q.sz \in Int
  BY ONLY <1>1
<1>3. PGROUNDUP(q.sz) \in Int
  BY ONLY <1>2, RoundUpIs
<1>4. PGROUNDUP(q.sz) - 1 \in Int /\ 0 \in Int
  BY ONLY <1>3
<1>5. IsFiniteSet(DOMAIN q.pt)
  BY ONLY <1>1, <1>4, FS_Interval, FS_Subset
<1>6. Cardinality(DOMAIN q.pt) \in Nat
  BY ONLY <1>5, FS_CardinalityType
<1> QED BY ONLY <1>5, <1>6 DEF PagesIn, OneIf

FreedResult(s, q, b, v, r) ==
  /\ SameFs(s, r) /\ r.proc = Put(s.proc, q, v) /\ r.file = s.file
  /\ r.pipe = s.pipe /\ r.pages = s.pages /\ r.tty = s.tty /\ r.free = b

(* They are given back by proc_freepagetable().                            *)
LEMMA PagetableIs ==
  ASSUME NEW s, IsK(s), NEW m, NEW z \in Nat, IsMem(m, PGROUNDUP(z)),
         ~(PGROUNDUP(z) > MAXVA)
  PROVE  proc_freepagetable(s, m, z) = [s EXCEPT !.free = MemSum(m) + 1]
<1>1. PICK left : left = uvmfree(m, z)
  OBVIOUS
<1>2. ~FreewalkPanics(left) /\ left.free = MemSum(m) + 1
  BY <1>1, FreeMem
<1> QED BY <1>1, <1>2 DEF proc_freepagetable

(* A panic in it.                                                          *)
LEMMA PagetableSick ==
  ASSUME NEW s, IsK(s), NEW m, NEW z, PGROUNDUP(z) > MAXVA, NEW r,
         r = proc_freepagetable(s, m, z)
  PROVE  SameFs(Panic(s, "walk"), r)
<1>1. PICK u : u = Panic(s, "walk")
  OBVIOUS
<1>2. PICK b : b = uvmfree(m, z).free
  OBVIOUS
<1>3. r = [u EXCEPT !.free = b]
  BY <1>1, <1>2 DEF proc_freepagetable
<1>4. IsK(u)
  BY <1>1, SetPanic
<1>5. SameFs(u, r)
  BY ONLY <1>3, <1>4, SetFreeK
<1> QED BY ONLY <1>1, <1>5

(* After it the state is fine whatever is in hand.                         *)
LEMMA WalkSick ==
  ASSUME NEW s, NEW x, FsOk(s, x), NEW r, SameFs(Panic(s, "walk"), r),
         NEW v \in [Inums -> Nat], NEW y, NEW t
  PROVE  Fine(r, v, y, t)
<1>1. PICK u : u = Panic(s, "walk")
  OBVIOUS
<1>2. FsOk(u, v) /\ u.panic # ""
  <2>1. "walk" \in Known \ {""}
    BY DEF Known
  <2> QED BY ONLY <1>1, <2>1, FsOk(s, x), v \in [Inums -> Nat], PanicFs
<1>3. SameFs(u, r)
  BY ONLY <1>1, SameFs(Panic(s, "walk"), r)
<1> QED BY ONLY <1>2, <1>3, v \in [Inums -> Nat], SickFine

(* What freeproc() does.                                                   *)
LEMMA FreeprocIs ==
  ASSUME NEW s, IsK(s), NEW q, Own(Mem(s, q)), ~(PGROUNDUP(s.proc[q].sz) > MAXVA),
         NEW r, r = freeproc(s, q)
  PROVE  FreedResult(s, q, MemSum(Mem(s, q)) + 2, NoProc, r)
<1>1. PICK m, z : m = Mem(s, q) /\ z = s.proc[q].sz
  OBVIOUS
<1>2. m.sz = z
  BY <1>1 DEF Mem
<1>3. z \in Nat /\ IsMem(m, PGROUNDUP(z)) /\ MemSum(m) \in Nat
      /\ ~(PGROUNDUP(z) > MAXVA)
  <2>1. IsMem(m, PGROUNDUP(z))
    BY <1>1, <1>2 DEF Own
  <2>2. m.sz \in Nat /\ MemSum(m) \in Nat
    BY ONLY <2>1, MemIs DEF IsMem
  <2>3. ~(PGROUNDUP(z) > MAXVA)
    BY <1>1
  <2> QED BY ONLY <1>2, <2>1, <2>2, <2>3
<1>4. PICK s1 : s1 = proc_freepagetable(s, m, z)
  OBVIOUS
<1>5. s1 = [s EXCEPT !.free = MemSum(m) + 1]
  BY ONLY <1>3, <1>4, IsK(s), PagetableIs
<1>6. s1.free = MemSum(m) + 1 /\ s1.proc = s.proc
  BY ONLY <1>5, IsK(s), SetFreeK
<1>7. r = [s1 EXCEPT !.free = s1.free + 1, !.proc[q] = NoProc]
  BY <1>1, <1>4 DEF freeproc
<1>8. PICK b, v : b = MemSum(m) + 2 /\ v = Put(s.proc, q, NoProc)
  OBVIOUS
<1>9. b = s1.free + 1
  BY ONLY <1>3, <1>6, <1>8
<1>10. r = [s EXCEPT !.free = b, !.proc = v]
  BY ONLY <1>5, <1>6, <1>7, <1>8, <1>9, IsK(s) DEF Put, IsK
<1>11. FreedResult(s, q, b, NoProc, r)
  <2>1. /\ SameFs(s, r) /\ r.proc = v /\ r.file = s.file /\ r.pipe = s.pipe
        /\ r.pages = s.pages /\ r.free = b /\ r.tty = s.tty
    BY ONLY <1>10, IsK(s) DEF IsK, SameFs
  <2> QED BY ONLY <1>8, <2>1 DEF FreedResult
<1> QED BY <1>1, <1>8, <1>11

(* A panic in it.                                                          *)
LEMMA FreeprocSick ==
  ASSUME NEW s, NEW x, FsOk(s, x), NEW q, PGROUNDUP(s.proc[q].sz) > MAXVA,
         NEW r, r = freeproc(s, q)
  PROVE  Idle(r)
<1>1. PICK m, z : m = Mem(s, q) /\ z = s.proc[q].sz
  OBVIOUS
<1>2. PICK s1 : s1 = proc_freepagetable(s, m, z)
  OBVIOUS
<1>3. PGROUNDUP(z) > MAXVA
  BY <1>1
<1>4. SameFs(Panic(s, "walk"), s1)
  <2>1. IsK(s)
    BY DEF FsOk
  <2> QED BY ONLY <1>2, <1>3, <2>1, PagetableSick
<1>5. PICK b, v : b = s1.free + 1 /\ v = Put(s1.proc, q, NoProc)
  OBVIOUS
<1>6. r = [s1 EXCEPT !.free = b, !.proc = v]
  BY <1>1, <1>2, <1>5 DEF freeproc, Put
<1>7. SameFs(s1, r)
  BY ONLY <1>4, <1>6 DEF IsK, SameFs
<1>8. SameFs(Panic(s, "walk"), r)
  BY ONLY <1>4, <1>7 DEF SameFs
<1>9. X0 \in [Inums -> Nat]
  BY ZeroIs
<1> QED BY ONLY <1>8, <1>9, FsOk(s, x), WalkSick DEF Idle

(* A free slot has no pages.                                               *)
LEMMA UnusedPages ==
  ASSUME NEW q, SlotOk(q), q.st = "unused"
  PROVE  PagesIn(q) = 0
<1>1. DOMAIN q.pt = {}
  BY DEF SlotOk
<1> QED BY ONLY <1>1, q.st = "unused", FS_EmptySet DEF PagesIn, OneIf

(* A slot becomes free, and its pages too.                                 *)
LEMMA SlotCleared ==
  ASSUME NEW s, Idle(s), s.panic = "", NEW q \in Slots, s.proc[q].st # "used",
         NEW b, b = s.free + PagesIn(s.proc[q]), NEW r,
         FreedResult(s, q, b, NoProc, r)
  PROVE  Idle(r)
<1>1. /\ IsK(s) /\ Others(s, Y0, 0) /\ Fine(s, X0, Y0, 0)
  BY DEF Idle, Fine, FsOk
<1>2. PICK z : z = s.proc[q]
  OBVIOUS
<1>3. SlotOk(z) /\ s.free \in Nat /\ z.st # "used" /\ b = s.free + PagesIn(z)
  BY <1>1, <1>2, SlotIs
<1>4. SlotOk(NoProc)
  BY ONLY NoProcIs DEF SlotOk
<1>5. Homed(s.ino, NoProc)
  BY ONLY NoProcIs DEF Homed
<1>6. PagesIn(NoProc) = 0
  BY ONLY <1>4, NoProcIs, UnusedPages
<1>7. PagesIn(z) \in Nat
  <2>1. /\ Cardinality(DOMAIN z.pt) \in Nat
        /\ PagesIn(z) = (IF z.st = "unused" THEN 0 ELSE 2) + Cardinality(DOMAIN z.pt)
    BY ONLY <1>3, PagesInIs
  <2> QED BY ONLY <2>1
<1>8. r.free \in Nat /\ r.free + 0 + PagesIn(NoProc) = s.free + 0 + PagesIn(z)
  <2>1. r.free = b
    BY DEF FreedResult
  <2> QED BY ONLY <1>3, <1>6, <1>7, <2>1
<1>9. \A f \in Filenums : Uses(NoProc, f) = 0 /\ Uses(z, f) = 0
  <2>1. TAKE f \in Filenums
  <2>2. \A d \in Fds : NoProc.fd[d] = 0
    BY NoProcIs
  <2>3. \A d \in Fds : z.fd[d] = 0
    BY ONLY <1>3 DEF SlotOk
  <2> QED BY ONLY <2>1, <2>2, <2>3, NoUses
<1>10. Home(NoProc) = 0 /\ Home(z) = 0
  <2>1. NoProc.st = "unused"
    BY NoProcIs
  <2> QED BY ONLY <1>3, <2>1 DEF Home
<1>11. SlotStep(s, X0, Y0, 0, q, NoProc, X0, Y0, 0, r)
  <2>1. \A i \in Inums : X0[i] + One(Home(NoProc), i) = X0[i] + One(Home(s.proc[q]), i)
    BY ONLY <1>2, <1>10
  <2>2. \A f \in Filenums : Y0[f] + Uses(NoProc, f) = Y0[f] + Uses(s.proc[q], f)
    BY ONLY <1>2, <1>9
  <2>3. FreedResult(s, q, b, NoProc, r)
    OBVIOUS
  <2> QED BY ONLY <1>1, <1>2, <1>4, <1>5, <1>8, ZeroInt, <2>1, <2>2, <2>3,
                  s.panic = "", q \in Slots DEF SlotStep, FreedResult
<1>12. Fine(r, X0, Y0, 0)
  BY ONLY <1>11, SlotFine
<1> QED BY <1>12 DEF Idle

(* A zombie's slot is given back, or walk() panics.                        *)
LEMMA FreeprocIdle ==
  ASSUME NEW s, Idle(s), s.panic = "", NEW q \in Slots,
         s.proc[q].st = "zombie", NEW r, r = freeproc(s, q)
  PROVE  Idle(r)
<1>1. /\ IsK(s) /\ Others(s, Y0, 0) /\ Fine(s, X0, Y0, 0) /\ FsOk(s, X0)
  BY DEF Idle, Fine, FsOk
<1>2. PICK z : z = s.proc[q]
  OBVIOUS
<1>3. SlotOk(z) /\ s.free \in Nat /\ z.st = "zombie"
  BY <1>1, <1>2, SlotIs
<1>4. Own(Mem(s, q)) /\ MemSum(Mem(s, q)) = s.free + Cardinality(DOMAIN z.pt)
  <2>1. MemResult(s, q, Mem(s, q))
    BY <1>1, MemOf
  <2> QED BY <1>2, <2>1 DEF MemResult
<1>5. PICK b : b = MemSum(Mem(s, q)) + 2
  OBVIOUS
<1>6. /\ Cardinality(DOMAIN z.pt) \in Nat
      /\ PagesIn(z) = 2 + Cardinality(DOMAIN z.pt)
  <2>1. /\ Cardinality(DOMAIN z.pt) \in Nat
        /\ PagesIn(z) = (IF z.st = "unused" THEN 0 ELSE 2) + Cardinality(DOMAIN z.pt)
    BY ONLY <1>3, PagesInIs
  <2> QED BY ONLY <1>3, <2>1
<1>7. CASE ~(PGROUNDUP(s.proc[q].sz) > MAXVA)
  <2>1. FreedResult(s, q, b, NoProc, r)
    BY ONLY <1>1, <1>4, <1>5, <1>7, r = freeproc(s, q), FreeprocIs
  <2>2. b = s.free + PagesIn(s.proc[q]) /\ s.proc[q].st # "used"
    BY ONLY <1>2, <1>3, <1>4, <1>5, <1>6
  <2> QED BY ONLY <2>1, <2>2, Idle(s), s.panic = "", q \in Slots, SlotCleared
<1>8. CASE PGROUNDUP(s.proc[q].sz) > MAXVA
  BY ONLY <1>1, <1>8, r = freeproc(s, q), FreeprocSick
<1> QED BY <1>7, <1>8

-----------------------------------------------------------------------------
(* wait().                                                                 *)

Waited(s, p, i) == SetMem(s, p, copyout(Mem(s, p), Address(s, p, i.addr), 1).mem)

(* kwait() is these parts.                                                 *)
LEMMA WaitUnfold ==
  ASSUME NEW s, NEW p, NEW i, NEW s1,
         s1 = IF i.status = {} THEN s ELSE Waited(s, p, i)
  PROVE  \/ Children(s, p) = {} /\ kwait(s, p, i).k = s
         \/ kwait(s, p, i).k = s1
         \/ Children(s, p) # {} /\ kwait(s, p, i).k = freeproc(s1, Min(Zombies(s, p)))
BY DEF kwait, Waited

(* A zombie refers to nothing but its pages.                               *)
LEMMA ZombieIs ==
  ASSUME NEW s, NEW p, Zombies(s, p) # {}, NEW q, q = Min(Zombies(s, p))
  PROVE  q \in Slots /\ s.proc[q].st = "zombie"
<1> DEFINE S == Zombies(s, p)
<1>1. S \subseteq Slots /\ \A j \in S : s.proc[j].st = "zombie"
  BY DEF Zombies, Children
<1>2. Slots \subseteq Nat
  BY DEF Slots
<1>3. S # {} /\ S \in SUBSET Nat
  BY <1>1, <1>2
<1> HIDE DEF S
<1>4. Min(S) \in S
  BY ONLY <1>3, SmallestOf
<1>5. q = Min(S)
  BY DEF S
<1> QED BY ONLY <1>1, <1>4, <1>5

(* The caller has its child's pid, and perhaps its status.                 *)
LEMMA WaitedIs ==
  ASSUME NEW s, NEW p, Ready(s, p), NEW i, Address(s, p, i.addr) \in Int
  PROVE  Ready(Waited(s, p, i), p) /\ MemKept(s, p, Waited(s, p, i))
<1>1. PICK m, a, o : m = Mem(s, p) /\ a = Address(s, p, i.addr) /\ o = copyout(m, a, 1).mem
  OBVIOUS
<1>2. Own(m) /\ a \in Int /\ 1 \in Nat
  BY <1>1, ReadyOwn
<1>3. copyout(m, a, 1) = Reach(m, a, 1, TRUE)
  BY DEF copyout
<1>4. Changed(m, Reach(m, a, 1, TRUE).mem)
  BY ONLY <1>2, ReachMem
<1>5. Changed(Mem(s, p), o)
  BY ONLY <1>1, <1>3, <1>4
<1>6. Ready(SetMem(s, p, o), p) /\ MemKept(s, p, SetMem(s, p, o))
  BY ONLY <1>5, Ready(s, p), IdleMem
<1>7. Waited(s, p, i) = SetMem(s, p, o)
  BY <1>1 DEF Waited
<1> QED BY ONLY <1>6, <1>7

(* wait() leaves nothing in hand.                                          *)
LEMMA WaitIdle ==
  ASSUME NEW s, NEW p, Ready(s, p), NEW i, Address(s, p, i.addr) \in Int,
         Children(s, p) = {} \/ Zombies(s, p) # {}
  PROVE  Idle(kwait(s, p, i).k)
<1>1. PICK s1 : s1 = IF i.status = {} THEN s ELSE Waited(s, p, i)
  OBVIOUS
<1>2. Ready(s1, p) /\ \A j \in Slots : s1.proc[j].st = s.proc[j].st
  <2>1. CASE i.status = {}
    BY <1>1, <2>1
  <2>2. CASE i.status # {}
    <3>1. s1 = Waited(s, p, i)
      BY <1>1, <2>2
    <3>2. Ready(s1, p) /\ MemKept(s, p, s1)
      BY ONLY <3>1, Ready(s, p), Address(s, p, i.addr) \in Int, WaitedIs
    <3> QED BY ONLY <3>2 DEF MemKept
  <2> QED BY <2>1, <2>2
<1>3. CASE kwait(s, p, i).k = s \/ kwait(s, p, i).k = s1
  BY ONLY <1>2, <1>3, Ready(s, p) DEF Ready
<1>4. CASE Children(s, p) # {} /\ kwait(s, p, i).k = freeproc(s1, Min(Zombies(s, p)))
  <2>1. PICK q : q = Min(Zombies(s, p))
    OBVIOUS
  <2>2. Zombies(s, p) # {}
    BY <1>4
  <2>3. q \in Slots /\ s.proc[q].st = "zombie"
    BY ONLY <2>1, <2>2, ZombieIs
  <2>4. s1.proc[q].st = "zombie" /\ Idle(s1) /\ s1.panic = ""
    BY ONLY <1>2, <2>3 DEF Ready
  <2>5. PICK r : r = freeproc(s1, q)
    OBVIOUS
  <2>6. Idle(r)
    BY ONLY <2>3, <2>4, <2>5, FreeprocIdle
  <2> QED BY ONLY <1>4, <2>1, <2>5, <2>6
<1> QED BY <1>1, <1>3, <1>4, WaitUnfold

-----------------------------------------------------------------------------
(* allocproc().                                                            *)

SameBut(s, r) ==
  /\ SameFs(s, r) /\ r.proc = s.proc /\ r.file = s.file /\ r.pipe = s.pipe
  /\ r.pages = s.pages /\ r.free = s.free /\ r.tty = s.tty

(* What Fine does not depend on.                                           *)
LEMMA SameFine ==
  ASSUME NEW s, NEW x, NEW y, NEW t, Fine(s, x, y, t), NEW r, SameBut(s, r)
  PROVE  Fine(r, x, y, t)
<1>1. FsOk(s, x) /\ (s.panic = "" => Others(s, y, t))
  BY DEF Fine
<1>2. FsOk(r, x)
  BY ONLY <1>1, SameBut(s, r) DEF SameBut, SameFs, FsOk
<1>3. r.panic = "" => Others(r, y, t)
  BY ONLY <1>1, SameBut(s, r) DEF SameBut, SameFs, Others
<1> QED BY ONLY <1>2, <1>3 DEF Fine

(* It does not depend on nextpid.                                          *)
LEMMA NextpidIs ==
  ASSUME NEW s, IsK(s), NEW v
  PROVE  SameBut(s, [s EXCEPT !.nextpid = v])
BY ONLY IsK(s) DEF IsK, SameBut, SameFs

(* allocproc() takes the trapframe's page and the one of the table.        *)
Fresh(s, q, m) == [Remap(s.proc[q], m.sz, m.pt) EXCEPT !.pid = s.nextpid]
Allocated(s, q, m, r) ==
  /\ SameFs(s, r) /\ r.proc = Put(s.proc, q, Fresh(s, q, m)) /\ r.file = s.file
  /\ r.pipe = s.pipe /\ r.pages = s.pages /\ r.tty = s.tty /\ r.free = m.free
EmptyMem(s, m) ==
  /\ IsMem(m, 0) /\ m.sz = 0 /\ DOMAIN m.pt = {} /\ m.free \in Nat
  /\ m.free + 2 = s.free /\ MemSum(m) = m.free

AllocResult(s, a, q, m, taken) ==
  \/ a.np = 0 /\ a.k = s
  \/ /\ a.np = 0 /\ q \in Slots /\ s.proc[q].st = "unused"
     /\ a.k = [taken EXCEPT !.proc[q] = NoProc]
  \/ /\ a.np = q /\ q \in Slots /\ s.proc[q].st = "unused" /\ s.free >= 2
     /\ a.k = [SetMem(taken, q, m) EXCEPT !.proc[q].pid = s.nextpid]

(* allocproc() finds a free slot, and two pages, or nothing.               *)
LEMMA AllocIs ==
  ASSUME NEW s, s.free \in Nat, NEW q,
         q = Min({j \in Slots : s.proc[j].st = "unused"})
  PROVE  AllocResult(s, allocproc(s), q, uvmcreate(s.free - 1),
                     [s EXCEPT !.nextpid = @ + 1])
<1> DEFINE S == {j \in Slots : s.proc[j].st = "unused"}
<1>1. S # {} => q \in S
  <2>1. Slots \subseteq Nat
    BY DEF Slots
  <2>2. S \in SUBSET Nat
    BY <2>1
  <2>3. q = Min(S)
    OBVIOUS
  <2> HIDE DEF S
  <2> QED BY ONLY <2>2, <2>3, SmallestOf
<1>2. CASE S = {}
  BY <1>2 DEF allocproc, AllocResult
<1>3. CASE S # {} /\ s.free < 2
  <2>1. q \in Slots /\ s.proc[q].st = "unused"
    BY <1>1, <1>3
  <2>2. allocproc(s) = [k |-> [[s EXCEPT !.nextpid = @ + 1] EXCEPT !.proc[q] = NoProc],
                        np |-> 0]
    BY <1>3 DEF allocproc
  <2>3. PICK a, m, taken :
          /\ a = allocproc(s) /\ m = uvmcreate(s.free - 1)
          /\ taken = [s EXCEPT !.nextpid = @ + 1]
    OBVIOUS
  <2>4. a.np = 0 /\ a.k = [taken EXCEPT !.proc[q] = NoProc]
    BY ONLY <2>2, <2>3
  <2>5. AllocResult(s, a, q, m, taken)
    BY ONLY <2>1, <2>4 DEF AllocResult
  <2> QED BY ONLY <2>3, <2>5
<1>4. CASE S # {} /\ ~(s.free < 2)
  <2>1. s.free >= 2 /\ q \in Slots /\ s.proc[q].st = "unused"
    BY <1>1, <1>4
  <2>2. allocproc(s) = [k |-> [SetMem([s EXCEPT !.nextpid = @ + 1], q, uvmcreate(s.free - 1))
                                 EXCEPT !.proc[q].pid = s.nextpid], np |-> q]
    BY <1>4 DEF allocproc
  <2>3. PICK a, m, taken :
          /\ a = allocproc(s) /\ m = uvmcreate(s.free - 1)
          /\ taken = [s EXCEPT !.nextpid = @ + 1]
    OBVIOUS
  <2>4. a = [k |-> [SetMem(taken, q, m) EXCEPT !.proc[q].pid = s.nextpid],
             np |-> q]
    BY ONLY <2>2, <2>3
  <2>5. a.np = q /\ a.k = [SetMem(taken, q, m) EXCEPT !.proc[q].pid = s.nextpid]
    BY ONLY <2>4
  <2>6. AllocResult(s, a, q, m, taken)
    BY ONLY <2>1, <2>5 DEF AllocResult
  <2> QED BY ONLY <2>3, <2>6
<1> QED BY <1>2, <1>3, <1>4

PidResult(s, q, v, r) ==
  /\ SameFs(s, r) /\ r.proc = Put(s.proc, q, [s.proc[q] EXCEPT !.pid = v])
  /\ r.file = s.file /\ r.pipe = s.pipe /\ r.pages = s.pages
  /\ r.tty = s.tty /\ r.free = s.free

(* The state with another pid to come.                                     *)
LEMMA SetPid ==
  ASSUME NEW s, IsK(s), NEW q \in DOMAIN s.proc, NEW v, NEW r,
         r = [s EXCEPT !.proc[q].pid = v]
  PROVE  PidResult(s, q, v, r)
<1>1. PICK w : w = Put(s.proc, q, [s.proc[q] EXCEPT !.pid = v])
  OBVIOUS
<1>2. r = [s EXCEPT !.proc = w]
  BY <1>1 DEF Put
<1>3. /\ SameFs(s, r) /\ r.proc = w
      /\ r.file = s.file /\ r.pipe = s.pipe /\ r.pages = s.pages
      /\ r.tty = s.tty /\ r.free = s.free
  BY ONLY <1>2, IsK(s) DEF IsK, SameFs
<1> QED BY ONLY <1>1, <1>3 DEF PidResult

(* Without two pages the slot stays free.                                  *)
LEMMA NotAllocated ==
  ASSUME NEW s, IsK(s), NEW q, NEW taken, taken = [s EXCEPT !.nextpid = @ + 1],
         NEW r, r = [taken EXCEPT !.proc[q] = NoProc]
  PROVE  FreedResult(s, q, s.free, NoProc, r)
<1>1. SameBut(s, taken)
  BY NextpidIs
<1>2. IsK(taken)
  BY ONLY <1>1 DEF SameBut, SameFs
<1>3. r = [taken EXCEPT !.proc = Put(taken.proc, q, NoProc)]
  BY DEF Put
<1>4. /\ SameFs(taken, r) /\ r.proc = Put(taken.proc, q, NoProc)
      /\ r.file = taken.file /\ r.pipe = taken.pipe /\ r.pages = taken.pages
      /\ r.tty = taken.tty /\ r.free = taken.free
  BY ONLY <1>2, <1>3, SetProcOf
<1> QED BY ONLY <1>1, <1>4 DEF SameBut, SameFs, FreedResult

(* The slot is the new process's.                                          *)
LEMMA AllocatedIs ==
  ASSUME NEW s, IsK(s), NEW q \in DOMAIN s.proc, NEW m, NEW taken,
         taken = [s EXCEPT !.nextpid = @ + 1], NEW r,
         r = [SetMem(taken, q, m) EXCEPT !.proc[q].pid = s.nextpid]
  PROVE  Allocated(s, q, m, r)
<1>1. SameBut(s, taken)
  BY NextpidIs
<1>2. IsK(taken) /\ taken.proc = s.proc
  BY ONLY <1>1 DEF SameBut, SameFs
<1>3. PICK u : u = SetMem(taken, q, m)
  OBVIOUS
<1>4. SetMemResult(taken, q, m, u)
  BY ONLY <1>2, <1>3, SetMemIs
<1>5. /\ IsK(u) /\ u.proc = Put(s.proc, q, Remap(s.proc[q], m.sz, m.pt))
      /\ u.free = m.free
  BY ONLY <1>2, <1>4 DEF SetMemResult, SameFs
<1>6. q \in DOMAIN u.proc /\ u.proc[q] = Remap(s.proc[q], m.sz, m.pt)
  BY ONLY <1>5, q \in DOMAIN s.proc DEF Put
<1>7. r = [u EXCEPT !.proc[q].pid = s.nextpid]
  BY <1>3
<1>8. PICK n : n = s.nextpid
  OBVIOUS
<1>9. /\ SameFs(u, r) /\ r.proc = Put(u.proc, q, [u.proc[q] EXCEPT !.pid = n])
      /\ r.file = u.file /\ r.pipe = u.pipe /\ r.pages = u.pages
      /\ r.tty = u.tty /\ r.free = u.free
  <2>1. r = [u EXCEPT !.proc[q].pid = n]
    BY <1>7, <1>8
  <2>2. PidResult(u, q, n, r)
    BY ONLY <1>5, <1>6, <2>1, SetPid
  <2> QED BY ONLY <2>2 DEF PidResult
<1>10. r.proc = Put(s.proc, q, Fresh(s, q, m))
  <2>1. r.proc = Put(Put(s.proc, q, Remap(s.proc[q], m.sz, m.pt)), q, Fresh(s, q, m))
    BY ONLY <1>5, <1>6, <1>8, <1>9 DEF Fresh
  <2> QED BY ONLY <2>1 DEF Put
<1>11. SameFs(s, r) /\ r.file = s.file /\ r.pipe = s.pipe /\ r.pages = s.pages
       /\ r.tty = s.tty /\ r.free = m.free
  BY ONLY <1>1, <1>4, <1>5, <1>9 DEF SameBut, SetMemResult, SameFs
<1> QED BY ONLY <1>10, <1>11 DEF Allocated

(* Its memory is empty.                                                    *)
LEMMA FreshMem ==
  ASSUME NEW s, s.free \in Nat, s.free >= 2, NEW m, m = uvmcreate(s.free - 1)
  PROVE  EmptyMem(s, m)
<1>1. PICK n : n = s.free - 1
  OBVIOUS
<1>2. n \in Nat /\ n >= 1 /\ n - 1 \in Nat /\ (n - 1) + 2 = s.free
  BY ONLY <1>1, s.free \in Nat, s.free >= 2
<1>3. m = uvmcreate(n)
  BY <1>1
<1>4. /\ IsMem(m, 0) /\ m.free = n - 1 /\ m.sz = 0 /\ DOMAIN m.pt = {}
      /\ MemSum(m) = n - 1
  BY ONLY <1>2, <1>3, CreateMem
<1> QED BY ONLY <1>2, <1>4 DEF EmptyMem

-----------------------------------------------------------------------------
(* fork(): the child's memory, and what a failure gives back.              *)

ForkFiles(file, fds) ==
  [f \in 1 .. NFILE |-> [file[f] EXCEPT
     !.ref = @ + Cardinality({d \in DOMAIN fds : fds[d] = f})]]
Child(s, p, np, v, code) ==
  [s.proc[p] EXCEPT !.pid = s.nextpid, !.parent = p, !.pt = v,
                    !.killed = s.proc[np].killed, !.code = code]
Forked(s1, file, cwd, np, e) ==
  [idup([s1 EXCEPT !.file = file], cwd) EXCEPT !.proc[np] = e]

ForkResult(s, p, a, c, s1, code) ==
  IF a.np = 0 THEN a.k ELSE IF ~c.ok THEN freeproc(s1, a.np)
  ELSE IF Overlaps(s.proc[p].sz) THEN Panic(s, "mappages: remap")
  ELSE Forked(s1, ForkFiles(s.file, s.proc[p].fd), s.proc[p].cwd, a.np,
              Child(s, p, a.np, c.mem.pt, code))

(* kfork() is these parts.                                                 *)
LEMMA ForkUnfold ==
  ASSUME NEW s, NEW p, NEW code
  PROVE  kfork(s, p, code).k =
           LET a == allocproc(s)
               c == uvmcopy(Mem(a.k, a.np), s.proc[p].pt, s.proc[p].sz)
               s1 == SetMem(a.k, a.np, c.mem)
           IN ForkResult(s, p, a, c, s1, code)
BY DEF kfork, ForkResult, Forked, ForkFiles, Child

FreshOk(r, z, v, q) ==
  IsProc(q) /\ q.sz = z /\ q.pt = v /\ q.st = r.st /\ q.fd = r.fd

(* The new process refers to nothing.                                      *)
LEMMA FreshIs ==
  ASSUME NEW r, IsProc(r), NEW z \in Nat, NEW v, NEW n, NEW q,
         q = [Remap(r, z, v) EXCEPT !.pid = n]
  PROVE  FreshOk(r, z, v, q)
<1>1. PICK u : u = Remap(r, z, v)
  OBVIOUS
<1>2. IsProc(u) /\ u.st = r.st /\ u.fd = r.fd /\ u.sz = z /\ u.pt = v
  BY ONLY <1>1, IsProc(r), z \in Nat, SetMemory
<1>3. u = [j \in ProcFields |-> u[j]]
  BY ONLY <1>2 DEF IsProc
<1>4. q = [u EXCEPT !.pid = n]
  BY <1>1
<1>5. q = [j \in ProcFields |-> q[j]]
  BY ONLY <1>3, <1>4
<1>6. /\ q.st = u.st /\ q.fd = u.fd /\ q.sz = u.sz /\ q.pt = u.pt
      /\ q.done = u.done /\ q.code = u.code /\ q.buf = u.buf
  BY ONLY <1>3, <1>4 DEF ProcFields
<1>7. IsProc(q)
  BY ONLY <1>2, <1>5, <1>6 DEF IsProc
<1> QED BY ONLY <1>2, <1>6, <1>7 DEF FreshOk

(* What the child has to copy to.                                          *)
ForkStart(s, p, q, m, a) ==
  /\ Ready(s, p) /\ q \in Slots /\ s.proc[q].st = "unused" /\ EmptyMem(s, m)
  /\ Allocated(s, q, m, a)

(* uvmcopy() into it.                                                      *)
LEMMA ForkMem ==
  ASSUME NEW s, NEW p, NEW q, NEW m, NEW a, ForkStart(s, p, q, m, a)
  PROVE  /\ Mem(a, q) = m /\ IsK(a) /\ q \in DOMAIN a.proc
         /\ a.proc[q] = Fresh(s, q, m) /\ IsProc(a.proc[q]) /\ IsProc(s.proc[q])
<1>1. PICK e : e = s.proc[q]
  OBVIOUS
<1>2. /\ IsProc(e) /\ s.proc = [j \in Slots |-> s.proc[j]] /\ q \in Slots
      /\ IsK(a) /\ a.proc = Put(s.proc, q, Fresh(s, q, m)) /\ a.free = m.free
  BY <1>1, ReadyIs DEF ForkStart, Allocated, SameFs, Procs0
<1>3. PICK u : u = Fresh(s, q, m)
  OBVIOUS
<1>4. m.sz \in Nat /\ m = [free |-> m.free, sz |-> m.sz, pt |-> m.pt]
  BY DEF ForkStart, EmptyMem, IsMem
<1>5. PICK z, v, n : z = m.sz /\ v = m.pt /\ n = s.nextpid
  OBVIOUS
<1>6. u = [Remap(e, z, v) EXCEPT !.pid = n] /\ z \in Nat
  BY <1>1, <1>3, <1>4, <1>5 DEF Fresh
<1>7. IsProc(u) /\ u.sz = z /\ u.pt = v
  <2>1. IsProc(e) /\ z \in Nat /\ u = [Remap(e, z, v) EXCEPT !.pid = n]
    BY ONLY <1>2, <1>6
  <2>2. FreshOk(e, z, v, u)
    BY ONLY <2>1, FreshIs
  <2> QED BY ONLY <2>2 DEF FreshOk
<1>8. q \in DOMAIN a.proc /\ a.proc[q] = u
  BY ONLY <1>2, <1>3 DEF Put
<1>9. Mem(a, q) = m
  BY ONLY <1>2, <1>4, <1>5, <1>7, <1>8 DEF Mem
<1> QED BY ONLY <1>1, <1>2, <1>3, <1>7, <1>8, <1>9

(* The pages of the parent were copied, or none is left of them.           *)
Copied(s, p, m, c) ==
  /\ MemSum(c.mem) = MemSum(m) /\ c.mem.sz = m.sz
  /\ c.ok => /\ IsMem(c.mem, PGROUNDUP(s.proc[p].sz))
             /\ DOMAIN c.mem.pt = DOMAIN s.proc[p].pt
  /\ ~c.ok => IsMem(c.mem, 0)

(* The child with the copy.                                                *)
LEMMA CopiedIs ==
  ASSUME NEW s, NEW p, NEW q, NEW m, NEW a, ForkStart(s, p, q, m, a), NEW c,
         c = uvmcopy(Mem(a, q), s.proc[p].pt, s.proc[p].sz)
  PROVE  Copied(s, p, m, c)
<1>1. PICK old, sz : old = s.proc[p].pt /\ sz = s.proc[p].sz
  OBVIOUS
<1>2. Mem(a, q) = m
  BY ForkMem
<1>3. IsMem(m, 0)
  BY DEF ForkStart, EmptyMem
<1>4. sz \in Nat /\ DOMAIN old \subseteq 0 .. PGROUNDUP(sz) - 1
  <2>1. Ready(s, p)
    BY DEF ForkStart
  <2>2. Procs0(s.proc) /\ p \in Slots
    BY ONLY <2>1, ReadyIs
  <2> QED BY <1>1, <2>2 DEF Procs0, IsProc
<1>5. c = uvmcopy(m, old, sz)
  BY <1>1, <1>2
<1>6. LET r == uvmcopy(m, old, sz)
      IN /\ MemSum(r.mem) = MemSum(m) /\ r.mem.sz = m.sz
         /\ r.ok => IsMem(r.mem, PGROUNDUP(sz)) /\ DOMAIN r.mem.pt = DOMAIN old
         /\ ~r.ok => IsMem(r.mem, 0)
  BY ONLY <1>3, <1>4, CopyMem
<1> QED BY ONLY <1>1, <1>5, <1>6 DEF Copied

(* A slot changed twice.                                                   *)
LEMMA PutTwice ==
  ASSUME NEW f, NEW q, NEW a, NEW b
  PROVE  Put(Put(f, q, a), q, b) = Put(f, q, b)
BY DEF Put

(* A free slot that is cleared.                                            *)
LEMMA ClearedIdle ==
  ASSUME NEW s, NEW p, Ready(s, p), NEW q \in Slots, s.proc[q].st = "unused",
         NEW r, FreedResult(s, q, s.free, NoProc, r)
  PROVE  Idle(r)
<1>1. Others(s, Y0, 0) /\ s.panic = "" /\ Idle(s)
  BY ReadyIs DEF Ready
<1>2. SlotOk(s.proc[q]) /\ s.free \in Nat
  BY ONLY <1>1, q \in Slots, SlotIs
<1>3. s.free = s.free + PagesIn(s.proc[q])
  <2>1. PagesIn(s.proc[q]) = 0
    BY ONLY <1>2, s.proc[q].st = "unused", UnusedPages
  <2> QED BY ONLY <1>2, <2>1
<1>4. PICK b : b = s.free
  OBVIOUS
<1>5. b = s.free + PagesIn(s.proc[q]) /\ FreedResult(s, q, b, NoProc, r)
      /\ s.proc[q].st # "used"
  BY <1>3, <1>4
<1> QED BY ONLY <1>1, <1>5, q \in Slots, SlotCleared

(* When there are not enough pages the child's slot is free again.         *)
LEMMA ForkFails ==
  ASSUME NEW s, NEW p, NEW q, NEW m, NEW a, ForkStart(s, p, q, m, a), NEW c,
         Copied(s, p, m, c), ~c.ok, NEW s1, s1 = SetMem(a, q, c.mem), NEW r,
         r = freeproc(s1, q)
  PROVE  Idle(r)
<1>1. /\ Ready(s, p) /\ q \in Slots /\ s.proc[q].st = "unused"
      /\ EmptyMem(s, m) /\ Allocated(s, q, m, a)
  BY DEF ForkStart
<1>2. /\ Mem(a, q) = m /\ IsK(a) /\ q \in DOMAIN a.proc
      /\ a.proc[q] = Fresh(s, q, m) /\ IsProc(a.proc[q]) /\ IsProc(s.proc[q])
  BY ForkMem
<1>3. PICK d : d = c.mem
  OBVIOUS
<1>4. IsMem(d, 0) /\ MemSum(d) = m.free /\ d.sz = 0 /\ m.free \in Nat
      /\ m.free + 2 = s.free
  BY <1>1, <1>3 DEF Copied, EmptyMem
<1>5. SetMemResult(a, q, d, s1)
  BY ONLY <1>2, <1>3, s1 = SetMem(a, q, c.mem), SetMemIs
<1>6. IsK(s1) /\ s1.proc = Put(a.proc, q, Remap(a.proc[q], d.sz, d.pt))
      /\ s1.free = d.free
  BY ONLY <1>5 DEF SetMemResult, SameFs
<1>7. Mem(s1, q) = d
  <2>1. PICK u, e : u = Remap(e, d.sz, d.pt) /\ e = a.proc[q]
    OBVIOUS
  <2>2. d.sz \in Nat /\ d = [free |-> d.free, sz |-> d.sz, pt |-> d.pt]
    BY ONLY <1>4 DEF IsMem
  <2>3. PICK z, v : z = d.sz /\ v = d.pt
    OBVIOUS
  <2>4. u.sz = z /\ u.pt = v
    <3>1. IsProc(e) /\ u = Remap(e, z, v) /\ z \in Nat
      BY ONLY <1>2, <2>1, <2>2, <2>3
    <3> QED BY ONLY <3>1, SetMemory
  <2>5. s1.proc[q] = u
    BY ONLY <1>2, <1>6, <2>1 DEF Put
  <2> QED BY ONLY <1>6, <2>2, <2>3, <2>4, <2>5 DEF Mem
<1>8. Own(Mem(s1, q))
  <2>1. PGROUNDUP(d.sz) = 0
    BY ONLY <1>4 DEF PGROUNDUP, PGSIZE
  <2> QED BY ONLY <1>4, <1>7, <2>1 DEF Own
<1>9. FreedResult(s1, q, MemSum(Mem(s1, q)) + 2, NoProc, r)
  <2>1. s1.proc[q].sz = 0
    BY ONLY <1>4, <1>7 DEF Mem
  <2>2. MAXVA \in Nat
    BY MemoryAssumption
  <2>3. ~(PGROUNDUP(s1.proc[q].sz) > MAXVA)
    BY ONLY <2>1, <2>2 DEF PGROUNDUP, PGSIZE
  <2> QED BY ONLY <1>6, <1>8, <2>3, r = freeproc(s1, q), FreeprocIs
<1>10. MemSum(Mem(s1, q)) + 2 = s.free
  BY ONLY <1>4, <1>7
<1>11. FreedResult(s1, q, s.free, NoProc, r)
  BY ONLY <1>9, <1>10
<1>12. r.proc = Put(s.proc, q, NoProc) /\ r.free = s.free
  <2>1. r.proc = Put(Put(Put(s.proc, q, Fresh(s, q, m)), q,
                         Remap(a.proc[q], d.sz, d.pt)), q, NoProc)
    BY ONLY <1>1, <1>6, <1>11 DEF FreedResult, Allocated
  <2>2. r.free = s.free
    BY ONLY <1>11 DEF FreedResult
  <2> QED BY ONLY <2>1, <2>2, PutTwice
<1>13. FreedResult(s, q, s.free, NoProc, r)
  <2>1. SameFs(s, r) /\ r.file = s.file /\ r.pipe = s.pipe /\ r.pages = s.pages
        /\ r.tty = s.tty
    BY ONLY <1>1, <1>5, <1>11 DEF FreedResult, Allocated, SetMemResult, SameFs
  <2> QED BY ONLY <1>12, <2>1 DEF FreedResult
<1> QED BY ONLY <1>1, <1>13, ClearedIdle

-----------------------------------------------------------------------------
(* fork(): the files of the child, each counted once more.                 *)

RaisedFile(h, u, g) ==
  IsFile(g) /\ g.ref = h.ref + u /\ SameKind(h, g) /\ (g.ref = 0 => g.type = "none")

(* A file with some references more.                                       *)
LEMMA RaisedFileIs ==
  ASSUME NEW h, IsFile(h), h.ref = 0 => h.type = "none", NEW u \in Nat, NEW g,
         g = [h EXCEPT !.ref = @ + u]
  PROVE  RaisedFile(h, u, g)
<1>1. PICK n : n = h.ref + u
  OBVIOUS
<1>2. h.ref \in Nat
  BY DEF IsFile
<1>3. n \in Nat /\ (n = 0 => h.ref = 0)
  BY ONLY <1>1, <1>2, u \in Nat
<1>4. g = [h EXCEPT !.ref = n]
  BY <1>1
<1>5. IsFile(g) /\ g.ref = n /\ g.type = h.type /\ g.ip = h.ip
      /\ g.pipe = h.pipe /\ g.w = h.w
  BY ONLY <1>3, <1>4, IsFile(h), SetRefFile
<1> QED BY <1>1, <1>3, <1>5 DEF RaisedFile, SameKind

(* The descriptors of a file in one process.                               *)
LEMMA UsesIs ==
  ASSUME NEW q, q.fd \in [Fds -> 0 .. NFILE], NEW f
  PROVE  /\ Uses(q, f) = Cardinality({d \in DOMAIN q.fd : q.fd[d] = f})
         /\ Uses(q, f) \in Nat
<1>1. DOMAIN q.fd = Fds
  OBVIOUS
<1>2. IsFiniteSet({d \in Fds : q.fd[d] = f})
  BY SetsFinite, FS_Subset
<1>3. Uses(q, f) \in Nat
  BY ONLY <1>2, FS_CardinalityType DEF Uses
<1>4. {d \in DOMAIN q.fd : q.fd[d] = f} = {d \in Fds : q.fd[d] = f}
  BY ONLY <1>1
<1> QED BY ONLY <1>3, <1>4 DEF Uses

RaisedFiles(s, p, v) ==
  /\ v = [f \in Filenums |-> v[f]]
  /\ \A f \in Filenums : RaisedFile(s.file[f], Uses(s.proc[p], f), v[f])

(* The files of the parent, counted once more for each descriptor.         *)
LEMMA ForkFilesIs ==
  ASSUME NEW s, NEW p, Ready(s, p), NEW v, v = ForkFiles(s.file, s.proc[p].fd)
  PROVE  RaisedFiles(s, p, v)
<1>1. /\ s.proc[p].fd \in [Fds -> 0 .. NFILE] /\ Files0(s.file, s.proc, Y0)
  BY ReadyIs DEF IsProc
<1>2. v = [f \in Filenums |-> v[f]]
  BY DEF ForkFiles, Filenums
<1>3. ASSUME NEW f \in Filenums
      PROVE  RaisedFile(s.file[f], Uses(s.proc[p], f), v[f])
  <2>1. PICK h, g, u : h = s.file[f] /\ g = v[f] /\ u = Uses(s.proc[p], f)
    OBVIOUS
  <2>2. PICK q : q = s.proc[p]
    OBVIOUS
  <2>3. u = Cardinality({d \in DOMAIN q.fd : q.fd[d] = f}) /\ u \in Nat
    BY ONLY <1>1, <2>1, <2>2, UsesIs
  <2>4. g = [h EXCEPT !.ref = @ + Cardinality({d \in DOMAIN q.fd : q.fd[d] = f})]
    BY ONLY <2>1, <2>2, v = ForkFiles(s.file, s.proc[p].fd), f \in Filenums
       DEF ForkFiles, Filenums
  <2>5. g = [h EXCEPT !.ref = @ + u]
    BY ONLY <2>3, <2>4
  <2>6. IsFile(h) /\ (h.ref = 0 => h.type = "none")
    BY <1>1, <2>1 DEF Files0
  <2>7. RaisedFile(h, u, g)
    BY ONLY <2>3, <2>5, <2>6, RaisedFileIs
  <2> QED BY ONLY <2>1, <2>7
<1> QED BY <1>2, <1>3 DEF RaisedFiles

UsesOf(s, p) == [f \in Filenums |-> Uses(s.proc[p], f)]

(* The references to them.                                                 *)
LEMMA UsesOfIs ==
  ASSUME NEW s, NEW p, s.proc[p].fd \in [Fds -> 0 .. NFILE]
  PROVE  /\ UsesOf(s, p) \in [Filenums -> Int]
         /\ \A f \in Filenums : UsesOf(s, p)[f] = Uses(s.proc[p], f)
                                /\ Uses(s.proc[p], f) \in Nat
<1>1. \A f \in Filenums : Uses(s.proc[p], f) \in Nat
  BY UsesIs
<1>2. \A f \in Filenums : Uses(s.proc[p], f) \in Int
  BY ONLY <1>1
<1> QED BY ONLY <1>1, <1>2 DEF UsesOf

(* filedup() of every open file: so many references are in hand.           *)
LEMMA RaisedFine ==
  ASSUME NEW s, NEW p, Ready(s, p), NEW v, RaisedFiles(s, p, v), NEW r,
         r = [s EXCEPT !.file = v]
  PROVE  Fine(r, X0, UsesOf(s, p), 0)
<1>1. /\ FsOk(s, X0) /\ Others(s, Y0, 0) /\ IsK(s) /\ s.panic = ""
      /\ Files0(s.file, s.proc, Y0) /\ Pipes(s.file, s.pipe)
      /\ s.proc[p].fd \in [Fds -> 0 .. NFILE]
  BY ReadyIs DEF IsProc
<1>2. /\ SameFs(s, r) /\ r.proc = s.proc /\ r.file = v
            /\ r.pipe = s.pipe /\ r.pages = s.pages /\ r.free = s.free
            /\ r.nextpid = s.nextpid /\ r.tty = s.tty
  <2>1. IsK(s)
    BY <1>1
  <2>2. r = [s EXCEPT !.file = v]
    OBVIOUS
  <2> QED BY ONLY <2>1, <2>2 DEF IsK, SameFs
<1>3. \A f \in Filenums : SameKind(s.file[f], v[f])
  BY DEF RaisedFiles, RaisedFile
<1>4. \A f \in Filenums : /\ v[f].type = s.file[f].type /\ v[f].ip = s.file[f].ip
                          /\ v[f].pipe = s.file[f].pipe /\ v[f].w = s.file[f].w
  BY ONLY <1>3 DEF SameKind
<1>5. \A i : Opened(v, i) = Opened(s.file, i)
  BY ONLY <1>4 DEF Opened
<1>6. Pipes(v, s.pipe)
  <2>1. \A f \in Filenums :
           /\ (v[f].type = "pipe") <=> (s.file[f].type = "pipe")
           /\ v[f].type = "pipe" =>
                v[f].pipe = s.file[f].pipe /\ v[f].w = s.file[f].w
    BY ONLY <1>4
  <2>2. Pipes(s.file, s.pipe)
    BY <1>1
  <2> QED BY ONLY <2>1, <2>2, PipesSame
<1>7. Files0(v, s.proc, UsesOf(s, p))
  <2>1. ASSUME NEW f \in Filenums
        PROVE  /\ IsFile(v[f]) /\ (v[f].ref = 0 => v[f].type = "none")
               /\ v[f].ref = Cardinality(Descriptors(s.proc, f)) + UsesOf(s, p)[f]
    <3>1. RaisedFile(s.file[f], Uses(s.proc[p], f), v[f])
      BY DEF RaisedFiles
    <3>2. IsFile(v[f]) /\ (v[f].ref = 0 => v[f].type = "none")
          /\ v[f].ref = s.file[f].ref + Uses(s.proc[p], f)
      BY ONLY <3>1 DEF RaisedFile
    <3>3. s.file[f].ref = Cardinality(Descriptors(s.proc, f)) + Y0[f]
      BY <1>1 DEF Files0
    <3>4. Y0[f] = 0 /\ UsesOf(s, p)[f] = Uses(s.proc[p], f)
      BY DEF Y0, UsesOf
    <3>5. Cardinality(Descriptors(s.proc, f)) \in Nat
      <4>1. IsFiniteSet(Slots \X Fds)
        BY SetsFinite, FS_Product
      <4>2. Descriptors(s.proc, f) \subseteq Slots \X Fds
        BY DEF Descriptors
      <4> QED BY <4>1, <4>2, FS_Subset, FS_CardinalityType
    <3>6. s.file[f].ref = Cardinality(Descriptors(s.proc, f))
      BY ONLY <3>3, <3>4, <3>5
    <3> QED BY ONLY <3>2, <3>4, <3>6
  <2>2. v = [f \in Filenums |-> v[f]]
    BY DEF RaisedFiles
  <2> QED BY ONLY <2>1, <2>2 DEF Files0
<1>8. FsOk(r, X0)
  <2>1. /\ IsK(r) /\ r.ino = s.ino /\ r.bfree = s.bfree /\ r.ref = s.ref
        /\ r.panic = s.panic /\ r.proc = s.proc /\ r.file = v
    BY ONLY <1>2 DEF SameFs
  <2>2. Refs(r.ref, r.proc, r.file, X0)
    <3>1. Refs(s.ref, s.proc, s.file, X0)
      BY ONLY <1>1 DEF FsOk
    <3> QED BY ONLY <1>5, <2>1, <3>1 DEF Refs
  <2>3. InUseOnly(r.ino, r.proc, r.file)
    <3>1. InUseOnly(s.ino, s.proc, s.file)
      BY ONLY <1>1 DEF FsOk
    <3> QED BY ONLY <1>4, <2>1, <3>1 DEF InUseOnly
  <2> QED BY ONLY <1>1, <2>1, <2>2, <2>3 DEF FsOk
<1>9. Others(r, UsesOf(s, p), 0)
  <2>1. Others(s, Y0, 0)
    BY <1>1
  <2> QED BY ONLY <1>2, <1>6, <1>7, <2>1 DEF Others
<1> QED BY ONLY <1>8, <1>9 DEF Fine

-----------------------------------------------------------------------------
(* fork().                                                                 *)

IdupResult(s, i, r) ==
  /\ IsK(r) /\ r.ino = s.ino /\ r.bfree = s.bfree /\ r.panic = s.panic
  /\ r.ref = [s.ref EXCEPT ![i] = @ + 1] /\ r.proc = s.proc /\ r.file = s.file
  /\ r.pipe = s.pipe /\ r.pages = s.pages /\ r.free = s.free /\ r.tty = s.tty

(* What idup() changes.                                                    *)
LEMMA IdupIs ==
  ASSUME NEW s, IsK(s), NEW i, NEW r, r = idup(s, i)
  PROVE  IdupResult(s, i, r)
<1>1. r = [s EXCEPT !.ref[i] = @ + 1]
  BY DEF idup
<1>2. IsK(s)
  OBVIOUS
<1> QED BY ONLY <1>1, <1>2 DEF IdupResult, IsK

SetFileResult(s, v, r) ==
  /\ SameFs(s, r) /\ r.proc = s.proc /\ r.file = v /\ r.pipe = s.pipe
  /\ r.pages = s.pages /\ r.free = s.free /\ r.tty = s.tty

(* The state with other files.                                             *)
LEMMA SetFileIs ==
  ASSUME NEW s, IsK(s), NEW v, NEW r, r = [s EXCEPT !.file = v]
  PROVE  SetFileResult(s, v, r)
<1>1. IsK(s) /\ r = [s EXCEPT !.file = v]
  OBVIOUS
<1> QED BY ONLY <1>1 DEF SetFileResult, SameFs, IsK

SetProcResult(s, v, r) ==
  /\ SameFs(s, r) /\ r.proc = v /\ r.file = s.file /\ r.pipe = s.pipe
  /\ r.pages = s.pages /\ r.free = s.free /\ r.tty = s.tty

(* The state with other processes.                                         *)
LEMMA SetProcIs ==
  ASSUME NEW s, IsK(s), NEW v, NEW r, r = [s EXCEPT !.proc = v]
  PROVE  SetProcResult(s, v, r)
<1>1. IsK(s) /\ r = [s EXCEPT !.proc = v]
  OBVIOUS
<1> QED BY ONLY <1>1 DEF SetProcResult, SameFs, IsK

ForkedResult(s1, file, cwd, q, e, r) ==
  /\ IsK(r) /\ r.ino = s1.ino /\ r.bfree = s1.bfree /\ r.panic = s1.panic
  /\ r.ref = [s1.ref EXCEPT ![cwd] = @ + 1] /\ r.proc = Put(s1.proc, q, e)
  /\ r.file = file /\ r.pipe = s1.pipe /\ r.pages = s1.pages
  /\ r.free = s1.free /\ r.tty = s1.tty

(* The child.                                                              *)
LEMMA ForkedIs ==
  ASSUME NEW s1, IsK(s1), NEW file, NEW cwd, NEW q, NEW e, NEW r,
         r = Forked(s1, file, cwd, q, e)
  PROVE  ForkedResult(s1, file, cwd, q, e, r)
<1>1. PICK a : a = [s1 EXCEPT !.file = file]
  OBVIOUS
<1>2. PICK b : b = idup(a, cwd)
  OBVIOUS
<1>3. r = [b EXCEPT !.proc = Put(b.proc, q, e)]
  <2>1. r = [b EXCEPT !.proc[q] = e]
    BY <1>1, <1>2 DEF Forked
  <2> QED BY ONLY <2>1 DEF Put
<1>4. SetFileResult(s1, file, a)
  BY ONLY IsK(s1), <1>1, SetFileIs
<1>5. IsK(a)
  BY ONLY <1>4 DEF SetFileResult, SameFs
<1>6. IdupResult(a, cwd, b)
  BY ONLY <1>2, <1>5, IdupIs
<1>7. IsK(b)
  BY ONLY <1>6 DEF IdupResult
<1>8. SetProcResult(b, Put(b.proc, q, e), r)
  BY ONLY <1>3, <1>7, SetProcIs
<1> QED BY ONLY <1>4, <1>6, <1>8
           DEF ForkedResult, SetFileResult, IdupResult, SetProcResult, SameFs

(* The record of the child fits the slot.                                  *)
ChildOk(r, v, e) ==
  /\ SlotOk(e) /\ e.st = "used" /\ e.cwd = r.cwd /\ e.fd = r.fd /\ e.pt = v
  /\ e.sz = r.sz

(* It refers to what its parent refers to.                                 *)
LEMMA ChildIs ==
  ASSUME NEW r, SlotOk(r), r.st = "used", Head(r.code).op # "write", NEW v,
         DOMAIN v = DOMAIN r.pt, NEW n, NEW j, NEW c, NEW e,
         NEW f,
         e = [r EXCEPT !.pid = n, !.parent = j, !.pt = v, !.killed = f, !.code = c]
  PROVE  ChildOk(r, v, e)
<1>1. IsProc(r) /\ DOMAIN r.pt \subseteq 0 .. PGROUNDUP(r.sz) - 1
  BY DEF SlotOk
<1>2. r.done = 0
  BY <1>1, NoneDone
<1>3. r = [m \in ProcFields |-> r[m]]
  BY <1>1 DEF IsProc
<1>5. e = [r EXCEPT !.pid = n, !.parent = j, !.pt = v, !.killed = f, !.code = c]
  OBVIOUS
<1>6. e = [m \in ProcFields |-> e[m]]
  BY ONLY <1>3, <1>5
<1>7. /\ e.st = r.st /\ e.cwd = r.cwd /\ e.fd = r.fd /\ e.pt = v
      /\ e.sz = r.sz /\ e.done = r.done /\ e.buf = r.buf
  BY ONLY <1>3, <1>5 DEF ProcFields
<1>8. ~(e.done > 0)
  BY ONLY <1>2, <1>7
<1>9. IsProc(e)
  BY ONLY <1>1, <1>6, <1>7, <1>8 DEF IsProc
<1>10. e.st = "used"
  BY ONLY <1>7, r.st = "used"
<1>11. SlotOk(e)
  BY ONLY <1>1, <1>7, <1>9, <1>10, DOMAIN v = DOMAIN r.pt DEF SlotOk
<1> QED BY ONLY <1>7, <1>10, <1>11 DEF ChildOk

(* The parent's file references and its directory, once more, in hand.     *)
LEMMA RaisedTwice ==
  ASSUME NEW s, NEW p, Ready(s, p), NEW c, c = s.proc[p].cwd, NEW a,
         a = [s EXCEPT !.file = ForkFiles(s.file, s.proc[p].fd)], NEW b,
         b = idup(a, c)
  PROVE  Fine(b, Plus(X0, c), UsesOf(s, p), 0) /\ IdupResult(a, c, b)
         /\ SetFileResult(s, ForkFiles(s.file, s.proc[p].fd), a) /\ c \in Inums
<1>1. PICK v : v = ForkFiles(s.file, s.proc[p].fd)
  OBVIOUS
<1>2. RaisedFiles(s, p, v)
  BY ONLY <1>1, Ready(s, p), ForkFilesIs
<1>3. a = [s EXCEPT !.file = v]
  BY ONLY <1>1, a = [s EXCEPT !.file = ForkFiles(s.file, s.proc[p].fd)]
<1>4. Fine(a, X0, UsesOf(s, p), 0)
  BY ONLY <1>2, <1>3, Ready(s, p), RaisedFine
<1>5. IsK(s) /\ c \in Inums
  BY ReadyIs
<1>6. SetFileResult(s, v, a)
  BY ONLY <1>3, <1>5, SetFileIs
<1>7. IsK(a)
  BY ONLY <1>6 DEF SetFileResult, SameFs
<1>8. IdupResult(a, c, b)
  BY ONLY <1>7, b = idup(a, c), IdupIs
<1>9. FsOk(a, X0)
  BY ONLY <1>4 DEF Fine
<1>10. FsOk(idup(a, c), Plus(X0, c)) /\ Keeps(a, idup(a, c))
  BY ONLY <1>5, <1>9, IdupFs
<1>11. FsOk(b, Plus(X0, c)) /\ Keeps(a, b)
  BY ONLY <1>10, b = idup(a, c)
<1>12. Fine(b, Plus(X0, c), UsesOf(s, p), 0)
  BY ONLY <1>4, <1>11, Lift
<1> QED BY ONLY <1>1, <1>5, <1>6, <1>8, <1>12

(* What was in hand is the child's.                                        *)
LEMMA ForkSums ==
  ASSUME NEW f \in Nat, NEW g \in Nat, NEW m \in Nat, NEW c \in Nat,
         m + 2 = f, g + c = m
  PROVE  g + 0 + (2 + c) = f + 0 + 0
OBVIOUS

(* fork() that succeeds.                                                   *)
LEMMA ForkSucceeds ==
  ASSUME NEW s, NEW p, NEW q, NEW m, NEW a, ForkStart(s, p, q, m, a),
         Head(s.proc[p].code).op # "write", NEW c,
         Copied(s, p, m, c), c.ok, NEW s1, s1 = SetMem(a, q, c.mem), NEW code,
         NEW r,
         r = Forked(s1, ForkFiles(s.file, s.proc[p].fd), s.proc[p].cwd, q,
                    Child(s, p, q, c.mem.pt, code))
  PROVE  Idle(r)
<1>1. /\ Ready(s, p) /\ q \in Slots /\ s.proc[q].st = "unused"
      /\ EmptyMem(s, m) /\ Allocated(s, q, m, a)
  BY DEF ForkStart
<1>2. IsK(a)
  BY ForkMem
<1>3. PICK d : d = c.mem
  OBVIOUS
<1>4. PICK v, w, e : v = ForkFiles(s.file, s.proc[p].fd) /\ w = s.proc[p].cwd
                     /\ e = Child(s, p, q, d.pt, code)
  OBVIOUS
<1>5. SetMemResult(a, q, d, s1)
  BY ONLY <1>2, <1>3, s1 = SetMem(a, q, c.mem), SetMemIs
<1>6. IsK(s1)
  BY ONLY <1>5 DEF SetMemResult, SameFs
<1>7. r = Forked(s1, v, w, q, e)
  BY ONLY <1>3, <1>4,
          r = Forked(s1, ForkFiles(s.file, s.proc[p].fd), s.proc[p].cwd, q,
                     Child(s, p, q, c.mem.pt, code))
<1>8. ForkedResult(s1, v, w, q, e, r)
  BY ONLY <1>6, <1>7, ForkedIs
<1>9. PICK a1, b : a1 = [s EXCEPT !.file = v] /\ b = idup(a1, w)
  OBVIOUS
<1>10. Fine(b, Plus(X0, w), UsesOf(s, p), 0) /\ IdupResult(a1, w, b)
       /\ SetFileResult(s, v, a1) /\ w \in Inums
  BY ONLY <1>1, <1>4, <1>9, RaisedTwice
<1>11. b.proc = s.proc /\ b.panic = s.panic /\ b.free = s.free /\ b.ino = s.ino
  BY ONLY <1>10 DEF IdupResult, SetFileResult, SameFs
<1>12. SameFs(b, r) /\ r.file = b.file /\ r.pipe = b.pipe /\ r.pages = b.pages
       /\ r.tty = b.tty
  BY ONLY <1>1, <1>5, <1>8, <1>10
     DEF SameFs, IdupResult, SetFileResult, ForkedResult, SetMemResult, Allocated
<1>13. r.proc = Put(b.proc, q, e)
  <2>1. r.proc = Put(Put(Put(s.proc, q, Fresh(s, q, m)), q,
                         Remap(a.proc[q], d.sz, d.pt)), q, e)
    BY ONLY <1>1, <1>5, <1>8 DEF ForkedResult, SetMemResult, Allocated
  <2> QED BY ONLY <1>11, <2>1, PutTwice
<1>14. PICK f, g : f = s.proc[p] /\ g = s.proc[q]
  OBVIOUS
<1>15. /\ SlotOk(f) /\ SlotOk(g) /\ s.free \in Nat /\ s.panic = ""
       /\ f.st = "used" /\ g.st = "unused" /\ f.cwd = w
       /\ InUseOnly(s.ino, s.proc, s.file) /\ p \in Slots
       /\ f.fd \in [Fds -> 0 .. NFILE]
  <2>1. Others(s, Y0, 0) /\ p \in Slots /\ s.panic = "" /\ s.proc[p].st = "used"
        /\ InUseOnly(s.ino, s.proc, s.file)
    BY ONLY <1>1, ReadyIs
  <2>2. SlotOk(s.proc[p]) /\ SlotOk(s.proc[q]) /\ s.free \in Nat
    BY ONLY <1>1, <2>1, SlotIs
  <2> QED BY ONLY <1>1, <1>4, <1>14, <2>1, <2>2 DEF SlotOk, IsProc
<1>16. Copied(s, p, m, c) /\ c.ok
  OBVIOUS
<1>17. DOMAIN d.pt = DOMAIN f.pt /\ MemSum(d) = m.free /\ m.free \in Nat
       /\ m.free + 2 = s.free /\ d.free \in Nat
  <2>1. IsMem(d, PGROUNDUP(f.sz)) /\ DOMAIN d.pt = DOMAIN f.pt
        /\ MemSum(d) = MemSum(m)
    BY ONLY <1>3, <1>14, <1>16 DEF Copied
  <2>2. d.free \in Nat
    BY ONLY <2>1 DEF IsMem
  <2> QED BY ONLY <1>1, <2>1, <2>2 DEF EmptyMem
<1>18. ChildOk(f, d.pt, e)
  <2>1. PICK n, j, x, h : n = s.nextpid /\ j = d.pt /\ x = code
                          /\ h = s.proc[q].killed
    OBVIOUS
  <2>2. e = [f EXCEPT !.pid = n, !.parent = p, !.pt = j, !.killed = h, !.code = x]
    BY ONLY <1>4, <1>14, <2>1 DEF Child
  <2>3. Head(f.code).op # "write"
    BY ONLY <1>14, Head(s.proc[p].code).op # "write"
  <2>4. ChildOk(f, j, e)
    BY ONLY <1>15, <1>17, <2>1, <2>2, <2>3, ChildIs
  <2> QED BY ONLY <2>1, <2>4
<1>19. SlotOk(e) /\ e.st = "used" /\ e.cwd = w /\ e.fd = f.fd /\ e.pt = d.pt
  BY ONLY <1>15, <1>18 DEF ChildOk
<1>20. Homed(b.ino, e)
  <2>1. s.ino[w].type # "free"
    BY ONLY <1>14, <1>15 DEF InUseOnly
  <2> QED BY ONLY <1>10, <1>11, <1>19, <2>1 DEF Homed
<1>21. \A i \in Inums : X0[i] + One(Home(e), i) =
                        Plus(X0, w)[i] + One(Home(b.proc[q]), i)
  <2>1. Home(e) = w /\ Home(g) = 0
    BY ONLY <1>15, <1>19 DEF Home
  <2>2. X0Is(w)
    BY ONLY <1>10, X0Plus
  <2>3. ASSUME NEW i \in Inums PROVE One(0, i) = 0 /\ One(w, i) \in Int
    <3>1. i # 0
      BY InumsIs
    <3> QED BY ONLY <3>1 DEF One
  <2>4. \A i \in Inums : Plus(X0, w)[i] = One(w, i) /\ X0[i] = 0
    BY ONLY <2>2 DEF X0Is
  <2>5. \A i \in Inums : 0 + One(w, i) = One(w, i) + 0
    BY ONLY <2>3
  <2> QED BY ONLY <1>11, <1>14, <2>1, <2>3, <2>4, <2>5
<1>22. \A x \in Filenums : Y0[x] + Uses(e, x) =
                           UsesOf(s, p)[x] + Uses(b.proc[q], x)
  <2>1. \A x \in Filenums : Uses(g, x) = 0
    <3>1. \A j \in Fds : g.fd[j] = 0
      BY ONLY <1>15 DEF SlotOk
    <3> QED BY ONLY <3>1, NoUses
  <2>2. ASSUME NEW x \in Filenums
        PROVE  Uses(e, x) = Uses(f, x) /\ UsesOf(s, p)[x] = Uses(f, x)
               /\ Uses(f, x) \in Int /\ Y0[x] = 0
    <3>1. Uses(e, x) = Uses(f, x)
      BY ONLY <1>19 DEF Uses
    <3>2. UsesOf(s, p)[x] = Uses(f, x)
      BY ONLY <1>14, <2>2 DEF UsesOf
    <3>3. Uses(f, x) \in Nat
      BY ONLY <1>15, UsesIs
    <3>4. Uses(f, x) \in Int
      BY ONLY <3>3
    <3>5. Y0[x] = 0
      BY ONLY <2>2 DEF Y0
    <3> QED BY ONLY <3>1, <3>2, <3>4, <3>5
  <2>3. b.proc[q] = g
    BY ONLY <1>11, <1>14
  <2> QED BY ONLY <2>1, <2>2, <2>3
<1>23. r.free \in Nat /\ r.free + 0 + PagesIn(e) = b.free + 0 + PagesIn(b.proc[q])
  <2>1. /\ Cardinality(DOMAIN e.pt) \in Nat
        /\ PagesIn(e) = (IF e.st = "unused" THEN 0 ELSE 2) + Cardinality(DOMAIN e.pt)
    BY ONLY <1>19, PagesInIs
  <2>2. PagesIn(g) = (IF g.st = "unused" THEN 0 ELSE 2) + Cardinality(DOMAIN g.pt)
    BY ONLY <1>15, PagesInIs
  <2>3. Cardinality(DOMAIN g.pt) = 0
    <3>1. DOMAIN g.pt = {}
      BY ONLY <1>15 DEF SlotOk
    <3> QED BY ONLY <3>1, FS_EmptySet
  <2>4. r.free = d.free
    BY ONLY <1>5, <1>8 DEF ForkedResult, SetMemResult
  <2>5. PICK n : n = Cardinality(DOMAIN e.pt)
    OBVIOUS
  <2>6. d.free + n = m.free /\ n \in Nat
    BY ONLY <1>17, <1>19, <2>1, <2>5 DEF MemSum
  <2>7. PagesIn(e) = 2 + n /\ PagesIn(g) = 0
    <3>1. e.st # "unused" /\ g.st = "unused"
      BY ONLY <1>15, <1>19
    <3> QED BY ONLY <2>1, <2>2, <2>3, <2>5, <3>1
  <2>8. d.free + 0 + (2 + n) = s.free + 0 + 0
    <3>1. PICK f1, b1, c1 : f1 = s.free /\ b1 = d.free /\ c1 = m.free
      OBVIOUS
    <3>2. /\ f1 \in Nat /\ b1 \in Nat /\ c1 \in Nat /\ n \in Nat
          /\ c1 + 2 = f1 /\ b1 + n = c1
      BY ONLY <1>15, <1>17, <2>6, <3>1
    <3>3. b1 + 0 + (2 + n) = f1 + 0 + 0
      BY ONLY <3>2, ForkSums
    <3> QED BY ONLY <3>1, <3>3
  <2> QED BY ONLY <1>11, <1>14, <1>17, <2>4, <2>7, <2>8
<1>24. UsesOf(s, p) \in [Filenums -> Int]
  BY ONLY <1>14, <1>15, UsesOfIs
<1>25. SlotStep(b, Plus(X0, w), UsesOf(s, p), 0, q, e, X0, Y0, 0, r)
  <2>1. b.panic = ""
    BY ONLY <1>11, <1>15
  <2> QED BY ONLY <1>1, <1>10, <1>12, <1>13, <1>19, <1>20, <1>21, <1>22,
                  <1>23, <1>24, <2>1, ZeroInt DEF SlotStep
<1>26. Fine(r, X0, Y0, 0)
  BY ONLY <1>25, SlotFine
<1> QED BY <1>26 DEF Idle

(* fork() leaves nothing in hand.                                          *)
LEMMA ForkIdle ==
  ASSUME NEW s, NEW p, Ready(s, p), Head(s.proc[p].code).op # "write", NEW code
  PROVE  Idle(kfork(s, p, code).k)
<1>1. PICK q, m, t : /\ q = Min({j \in Slots : s.proc[j].st = "unused"})
                     /\ m = uvmcreate(s.free - 1)
                     /\ t = [s EXCEPT !.nextpid = @ + 1]
  OBVIOUS
<1>2. PICK a, c, s1, r : /\ a = allocproc(s)
                         /\ c = uvmcopy(Mem(a.k, a.np), s.proc[p].pt, s.proc[p].sz)
                         /\ s1 = SetMem(a.k, a.np, c.mem)
                         /\ r = kfork(s, p, code).k
  OBVIOUS
<1>3. r = ForkResult(s, p, a, c, s1, code)
  BY <1>2, ForkUnfold
<1>4. IsK(s) /\ s.free \in Nat /\ Fine(s, X0, Y0, 0)
      /\ s.proc = [j \in Slots |-> s.proc[j]]
  BY ReadyIs DEF Procs0
<1>5. AllocResult(s, a, q, m, t)
  BY ONLY <1>1, <1>2, <1>4, AllocIs
<1>6. CASE a.np = 0 /\ a.k = s
  <2>1. r = s
    BY ONLY <1>3, <1>6 DEF ForkResult
  <2> QED BY ONLY <1>2, <1>4, <2>1 DEF Idle
<1>7. CASE /\ a.np = 0 /\ q \in Slots /\ s.proc[q].st = "unused"
           /\ a.k = [t EXCEPT !.proc[q] = NoProc]
  <2>1. r = [t EXCEPT !.proc[q] = NoProc]
    BY ONLY <1>3, <1>7 DEF ForkResult
  <2>2. FreedResult(s, q, s.free, NoProc, r)
    BY ONLY <1>1, <1>4, <2>1, NotAllocated
  <2>3. Idle(r)
    BY ONLY <1>7, <2>2, Ready(s, p), ClearedIdle
  <2> QED BY ONLY <1>2, <2>3
<1>8. CASE /\ a.np = q /\ q \in Slots /\ s.proc[q].st = "unused" /\ s.free >= 2
           /\ a.k = [SetMem(t, q, m) EXCEPT !.proc[q].pid = s.nextpid]
  <2>1. PICK b : b = a.k
    OBVIOUS
  <2>2. q \in DOMAIN s.proc
    BY ONLY <1>4, <1>8
  <2>3. Allocated(s, q, m, b)
    BY ONLY <1>1, <1>4, <1>8, <2>1, <2>2, AllocatedIs
  <2>4. EmptyMem(s, m)
    BY ONLY <1>1, <1>4, <1>8, FreshMem
  <2>5. ForkStart(s, p, q, m, b)
    BY ONLY <1>8, <2>3, <2>4, Ready(s, p) DEF ForkStart
  <2>6. c = uvmcopy(Mem(b, q), s.proc[p].pt, s.proc[p].sz)
        /\ s1 = SetMem(b, q, c.mem)
    BY ONLY <1>2, <1>8, <2>1
  <2>7. Copied(s, p, m, c)
    BY ONLY <2>5, <2>6, CopiedIs
  <2>8. a.np # 0
    BY ONLY <1>8 DEF Slots
  <2>9. CASE ~c.ok
    <3>1. r = freeproc(s1, q)
      BY ONLY <1>3, <1>8, <2>8, <2>9 DEF ForkResult
    <3>2. Idle(r)
      BY ONLY <2>5, <2>6, <2>7, <2>9, <3>1, ForkFails
    <3> QED BY ONLY <1>2, <3>2
  <2>10. CASE c.ok /\ Overlaps(s.proc[p].sz)
    <3>1. r = Panic(s, "mappages: remap")
      BY ONLY <1>3, <2>8, <2>10 DEF ForkResult
    <3>2. Idle(s) /\ "mappages: remap" \in Known \ {""}
      BY DEF Ready, Known
    <3>3. Idle(r)
      BY ONLY <3>1, <3>2, PanicIdle
    <3> QED BY ONLY <1>2, <3>3
  <2>11. CASE c.ok /\ ~Overlaps(s.proc[p].sz)
    <3>1. r = Forked(s1, ForkFiles(s.file, s.proc[p].fd), s.proc[p].cwd, q,
                     Child(s, p, q, c.mem.pt, code))
      BY ONLY <1>3, <1>8, <2>8, <2>11 DEF ForkResult
    <3>2. Idle(r)
      BY ONLY <2>5, <2>6, <2>7, <2>11, <3>1, Head(s.proc[p].code).op # "write",
              ForkSucceeds
    <3> QED BY ONLY <1>2, <3>2
  <2> QED BY ONLY <2>9, <2>10, <2>11
<1> QED BY ONLY <1>5, <1>6, <1>7, <1>8 DEF AllocResult

-----------------------------------------------------------------------------
(* pipealloc(): the files of the two ends.                                 *)

(* An end of pipe q, and the pipe when it opens.                           *)
EndIs(g, q, b) ==
  IsFile(g) /\ g.ref = 1 /\ g.type = "pipe" /\ g.pipe = q /\ g.w = b
EndOf(q) == [NoFile EXCEPT !.ref = 1, !.type = "pipe", !.pipe = q]
ReadEnd(q) == [EndOf(q) EXCEPT !.r = TRUE]
WriteEnd(q) == [EndOf(q) EXCEPT !.w = TRUE]

(* The two ends are different.                                             *)
LEMMA EndsAre ==
  ASSUME NEW q
  PROVE  EndIs(ReadEnd(q), q, FALSE) /\ EndIs(WriteEnd(q), q, TRUE)
<1>1. /\ NoFile = [n \in FileFields |-> NoFile[n]] /\ NoFile.off = 0
      /\ NoFile.w = FALSE
  BY DEF NoFile, FileFields
<1>2. PICK g : g = EndOf(q)
  OBVIOUS
<1>3. g = [NoFile EXCEPT !.ref = 1, !.type = "pipe", !.pipe = q]
  BY ONLY <1>2 DEF EndOf
<1>4. /\ g = [n \in FileFields |-> g[n]] /\ g.off = 0 /\ g.w = FALSE /\ g.ref = 1
      /\ g.type = "pipe" /\ g.pipe = q
  BY ONLY <1>1, <1>3 DEF FileFields
<1>5. PICK t : t = TRUE
  OBVIOUS
<1>6. PICK a, b : a = ReadEnd(q) /\ b = WriteEnd(q)
  OBVIOUS
<1>7. a = [g EXCEPT !.r = t] /\ b = [g EXCEPT !.w = t]
  BY ONLY <1>2, <1>5, <1>6 DEF ReadEnd, WriteEnd
<1>8. /\ a = [n \in FileFields |-> a[n]] /\ a.off = g.off /\ a.w = g.w
      /\ a.ref = g.ref /\ a.type = g.type /\ a.pipe = g.pipe
  BY ONLY <1>4, <1>7 DEF FileFields
<1>9. /\ b = [n \in FileFields |-> b[n]] /\ b.off = g.off /\ b.w = t
      /\ b.ref = g.ref /\ b.type = g.type /\ b.pipe = g.pipe
  BY ONLY <1>4, <1>7 DEF FileFields
<1>10. /\ a.off = 0 /\ a.w = FALSE /\ a.ref = 1 /\ a.type = "pipe" /\ a.pipe = q
       /\ b.off = 0 /\ b.w = TRUE /\ b.ref = 1 /\ b.type = "pipe" /\ b.pipe = q
  BY ONLY <1>4, <1>5, <1>8, <1>9
<1>11. a.ref \in Nat /\ a.off \in Nat /\ b.ref \in Nat /\ b.off \in Nat
  BY ONLY <1>10
<1>12. a.w \in BOOLEAN /\ b.w \in BOOLEAN
  BY ONLY <1>10
<1>13. IsFile(a) /\ IsFile(b)
  BY ONLY <1>8, <1>9, <1>10, <1>11, <1>12 DEF IsFile
<1> QED BY ONLY <1>6, <1>10, <1>13 DEF EndIs

(* Pipe q of u is that of pipe, or a new one, with end b open.             *)
AddsEnd(file, pipe, q, b, u) ==
  /\ q \in Filenums /\ b \in BOOLEAN /\ EndFiles(file, q, b) = {}
  /\ DOMAIN u = DOMAIN pipe \cup {q}
  /\ \A j \in DOMAIN pipe : j # q => u[j] = pipe[j]
  /\ IsPipe(u[q])
  /\ u[q].readopen = (~b \/ EndFiles(file, q, FALSE) # {})
  /\ u[q].writeopen = (b \/ EndFiles(file, q, TRUE) # {})

(* A file that becomes an end is one more of it.                           *)
LEMMA EndMore ==
  ASSUME NEW file, NEW v, NEW f \in Filenums, file[f].type # "pipe", NEW q,
         NEW b, EndIs(v[f], q, b),
         \A e \in Filenums : e # f => v[e] = file[e]
  PROVE  /\ EndFiles(v, q, b) = EndFiles(file, q, b) \cup {f}
         /\ \A j, c : j # q \/ c # b => EndFiles(v, j, c) = EndFiles(file, j, c)
BY DEF EndFiles, EndIs

(* A pipe with its two files.                                              *)
LEMMA PipesAdd ==
  ASSUME NEW file, NEW pipe, Pipes(file, pipe), NEW f \in Filenums,
         file[f].type # "pipe", NEW q, NEW b, NEW u, AddsEnd(file, pipe, q, b, u),
         NEW v, EndIs(v[f], q, b), \A e \in Filenums : e # f => v[e] = file[e]
  PROVE  Pipes(v, u)
<1>1. /\ EndFiles(v, q, b) = EndFiles(file, q, b) \cup {f}
      /\ \A j, c : j # q \/ c # b => EndFiles(v, j, c) = EndFiles(file, j, c)
  BY EndMore
<1>2. /\ DOMAIN pipe \subseteq Filenums
      /\ \A j \in DOMAIN pipe : PipeOk(file, j, pipe[j])
      /\ \A e \in Filenums : file[e].type = "pipe" => file[e].pipe \in DOMAIN pipe
      /\ \A e, g \in Filenums :
           file[e].type = "pipe" /\ file[g].type = "pipe" /\
           file[e].pipe = file[g].pipe /\ file[e].w = file[g].w => e = g
  BY PipesAre
<1>3. /\ q \in Filenums /\ b \in BOOLEAN /\ EndFiles(file, q, b) = {}
      /\ DOMAIN u = DOMAIN pipe \cup {q}
      /\ \A j \in DOMAIN pipe : j # q => u[j] = pipe[j]
      /\ IsPipe(u[q])
      /\ u[q].readopen = (~b \/ EndFiles(file, q, FALSE) # {})
      /\ u[q].writeopen = (b \/ EndFiles(file, q, TRUE) # {})
  BY DEF AddsEnd
<1>4. DOMAIN u \subseteq Filenums
  BY ONLY <1>2, <1>3
<1>5. ASSUME NEW j \in DOMAIN u PROVE PipeOk(v, j, u[j])
  <2>1. CASE j # q
    <3>1. j \in DOMAIN pipe /\ u[j] = pipe[j]
      BY ONLY <1>3, <1>5, <2>1
    <3>2. PipeOk(file, j, u[j])
      BY ONLY <1>2, <3>1
    <3>3. EndFiles(v, j, FALSE) = EndFiles(file, j, FALSE)
          /\ EndFiles(v, j, TRUE) = EndFiles(file, j, TRUE)
      BY ONLY <1>1, <2>1
    <3> QED BY ONLY <3>2, <3>3, PipeOkSame
  <2>2. CASE j = q
    <3>1. CASE b = TRUE
      <4>1. EndFiles(v, q, TRUE) # {} /\ EndFiles(v, q, FALSE) = EndFiles(file, q, FALSE)
        BY ONLY <1>1, <3>1
      <4>2. u[q].writeopen /\ (u[q].readopen = (EndFiles(file, q, FALSE) # {}))
            /\ u[q].writeopen \in BOOLEAN
        BY ONLY <1>3, <3>1 DEF IsPipe
      <4>3. u[q].writeopen = (EndFiles(v, q, TRUE) # {})
        BY ONLY <4>1, <4>2
      <4>4. u[q].readopen = (EndFiles(v, q, FALSE) # {})
        BY ONLY <4>1, <4>2
      <4> QED BY ONLY <1>3, <2>2, <4>2, <4>3, <4>4 DEF PipeOk
    <3>2. CASE b = FALSE
      <4>1. EndFiles(v, q, FALSE) # {} /\ EndFiles(v, q, TRUE) = EndFiles(file, q, TRUE)
        BY ONLY <1>1, <3>2
      <4>2. u[q].readopen /\ (u[q].writeopen = (EndFiles(file, q, TRUE) # {}))
            /\ u[q].readopen \in BOOLEAN
        BY ONLY <1>3, <3>2 DEF IsPipe
      <4>3. u[q].readopen = (EndFiles(v, q, FALSE) # {})
        BY ONLY <4>1, <4>2
      <4>4. u[q].writeopen = (EndFiles(v, q, TRUE) # {})
        BY ONLY <4>1, <4>2
      <4> QED BY ONLY <1>3, <2>2, <4>2, <4>3, <4>4 DEF PipeOk
    <3> QED BY <1>3, <3>1, <3>2
  <2> QED BY ONLY <2>1, <2>2
<1>6. v[f].type = "pipe" /\ v[f].pipe = q /\ v[f].w = b
  BY DEF EndIs
<1>7. ASSUME NEW e \in Filenums, v[e].type = "pipe" PROVE v[e].pipe \in DOMAIN u
  <2>1. CASE e = f
    BY ONLY <1>3, <1>6, <2>1
  <2>2. CASE e # f
    <3>1. v[e] = file[e]
      BY <2>2
    <3> QED BY ONLY <1>2, <1>3, <1>7, <3>1
  <2> QED BY ONLY <2>1, <2>2
<1>8. ASSUME NEW e \in Filenums, e # f, file[e].type = "pipe", file[e].pipe = q,
             file[e].w = b
      PROVE  FALSE
  BY ONLY <1>3, <1>8 DEF EndFiles
<1>9. ASSUME NEW e \in Filenums, NEW g \in Filenums, v[e].type = "pipe",
             v[g].type = "pipe", v[e].pipe = v[g].pipe, v[e].w = v[g].w
      PROVE  e = g
  <2>1. (e # f => v[e] = file[e]) /\ (g # f => v[g] = file[g])
    OBVIOUS
  <2> QED BY ONLY <1>2, <1>6, <1>8, <1>9, <2>1
<1> QED BY ONLY <1>4, <1>5, <1>7, <1>9, PipesAre

(* A free file becomes an end of a pipe.                                   *)
EndStep(s, y, f, g, q, b, u, r) ==
  /\ Healthy(s, X0, y, 0, f) /\ s.file[f].ref = 0 /\ EndIs(g, q, b)
  /\ AddsEnd(s.file, s.pipe, q, b, u) /\ SameFs(s, r)
  /\ r.file = Put(s.file, f, g) /\ r.proc = s.proc /\ r.pipe = u
  /\ r.pages = s.pages /\ r.tty = s.tty /\ r.free \in Nat
  /\ r.free + Cardinality(DOMAIN u) = s.free + Cardinality(DOMAIN s.pipe)

(* One reference more.                                                     *)
LEMMA MoreIs ==
  ASSUME NEW y \in [Filenums -> Int], NEW f \in Filenums
  PROVE  /\ Plus(y, f) \in [Filenums -> Int] /\ Plus(y, f)[f] = y[f] + 1
         /\ \A e \in Filenums : e # f => Plus(y, f)[e] = y[e]
BY DEF Plus

(* A free file becomes an end.                                             *)
LEMMA EndFine ==
  ASSUME NEW s, NEW y, NEW f, NEW g, NEW q, NEW b, NEW u, NEW r,
         EndStep(s, y, f, g, q, b, u, r)
  PROVE  Fine(r, X0, Plus(y, f), 0)
<1>1. /\ Healthy(s, X0, y, 0, f) /\ s.file[f].ref = 0 /\ EndIs(g, q, b)
      /\ AddsEnd(s.file, s.pipe, q, b, u) /\ SameFs(s, r)
      /\ r.file = Put(s.file, f, g) /\ r.proc = s.proc /\ r.pipe = u
      /\ r.pages = s.pages /\ r.tty = s.tty /\ r.free \in Nat
      /\ r.free + Cardinality(DOMAIN u) = s.free + Cardinality(DOMAIN s.pipe)
  BY DEF EndStep
<1>2. /\ y \in [Filenums -> Int] /\ Fine(s, X0, y, 0) /\ s.panic = ""
      /\ f \in Filenums /\ IsK(s) /\ IsFile(s.file[f])
      /\ s.file = [j \in Filenums |-> s.file[j]]
      /\ Pipes(s.file, s.pipe) /\ Pages0(s.free, s.proc, s.pipe, s.pages, 0)
      /\ Others(s, y, 0)
  BY ONLY <1>1, HealthyIs
<1>3. PICK z, v : z = Plus(y, f) /\ v = Put(s.file, f, g)
  OBVIOUS
<1>4. z \in [Filenums -> Int] /\ z[f] = y[f] + 1
      /\ \A e \in Filenums : e # f => z[e] = y[e]
  BY ONLY <1>2, <1>3, MoreIs
<1>5. v[f] = g /\ \A e \in Filenums : e # f => v[e] = s.file[e]
  BY ONLY <1>2, <1>3 DEF Put
<1>6. s.file[f].type = "none"
  BY ONLY <1>1, <1>2 DEF Others, Files0
<1>7. Pipes(v, u)
  <2>1. PICK file, pipe : file = s.file /\ pipe = s.pipe
    OBVIOUS
  <2>2. /\ Pipes(file, pipe) /\ f \in Filenums /\ file[f].type # "pipe"
        /\ AddsEnd(file, pipe, q, b, u) /\ EndIs(v[f], q, b)
        /\ \A e \in Filenums : e # f => v[e] = file[e]
    BY ONLY <1>1, <1>2, <1>5, <1>6, <2>1
  <2> QED BY ONLY <2>2, PipesAdd
<1>8. Pages0(r.free, s.proc, u, s.pages, 0)
  <2>1. DOMAIN u \subseteq Filenums /\ DOMAIN s.pipe \subseteq Filenums
    BY ONLY <1>2, <1>7 DEF Pipes
  <2>2. Cardinality(DOMAIN u) \in Nat /\ Cardinality(DOMAIN s.pipe) \in Nat
    BY ONLY <2>1, SetsFinite, FS_Subset, FS_CardinalityType
  <2>3. PICK c, w, free, proc, pipe, pages :
           c = r.free /\ w = u /\ free = s.free /\ proc = s.proc /\ pipe = s.pipe
           /\ pages = s.pages
    OBVIOUS
  <2>4. free \in Nat
    BY ONLY <1>2, <2>3 DEF Pages0
  <2>5. PICK n \in Nat : n = 0
    BY ONLY SMT
  <2>6. c + n + Cardinality(DOMAIN w) = free + n + Cardinality(DOMAIN pipe)
    BY ONLY <1>1, <2>2, <2>3, <2>4, <2>5
  <2>7. Pages0(free, proc, pipe, pages, n) /\ c \in Nat
    BY ONLY <1>1, <1>2, <2>3, <2>5
  <2>8. Cardinality(DOMAIN w) \in Nat /\ Cardinality(DOMAIN pipe) \in Nat
    BY ONLY <2>2, <2>3
  <2>9. Pages0(c, proc, w, pages, n)
    BY ONLY <2>6, <2>7, <2>8, PagesMoved
  <2> QED BY ONLY <2>3, <2>5, <2>9
<1>9. IsFile(g) /\ g.ref = 1 /\ g.type = "pipe"
  BY ONLY <1>1 DEF EndIs
<1>10. FileStep(s, X0, y, 0, f, g, X0, z, 0, r)
  <2>1. g.ref = 0 => g.type = "none"
    BY ONLY <1>9
  <2>2. Openable(s.ino, g)
    BY ONLY <1>9 DEF Openable
  <2>3. Recount(y, z, f, s.file[f].ref, g.ref)
    <3>1. y[f] \in Int
      BY ONLY <1>2
    <3>2. z[f] + s.file[f].ref = y[f] + g.ref
      BY ONLY <1>1, <1>4, <1>9, <3>1
    <3> QED BY ONLY <1>4, <3>2 DEF Recount
  <2>4. \A i \in Inums : X0[i] + One(Inum(g), i) = X0[i] + One(Inum(s.file[f]), i)
    <3>1. Inum(g) = 0 /\ Inum(s.file[f]) = 0
      BY ONLY <1>6, <1>9 DEF Inum
    <3> QED BY ONLY <3>1
  <2>5. X0 \in [Inums -> Nat]
    BY ZeroInt
  <2>6. Pipes(r.file, r.pipe) /\ Pages0(r.free, r.proc, r.pipe, r.pages, 0)
    BY ONLY <1>1, <1>3, <1>7, <1>8
  <2> QED BY ONLY <1>1, <1>2, <1>4, <1>9, <2>1, <2>2, <2>3, <2>4, <2>5, <2>6
             DEF FileStep
<1>11. Fine(r, X0, z, 0)
  BY ONLY <1>10, FileStepFine
<1> QED BY ONLY <1>3, <1>11

(* While a file is free, so is a pipe.                                     *)
LEMMA PipeFreeIs ==
  ASSUME NEW file, NEW pipe, Pipes(file, pipe), NEW f \in Filenums,
         file[f].type = "none", NEW q, q = Min(1 .. NFILE \ DOMAIN pipe)
  PROVE  q \in Filenums /\ q \notin DOMAIN pipe
<1>1. /\ DOMAIN pipe \subseteq Filenums
      /\ \A j \in DOMAIN pipe :
           /\ (pipe[j].readopen \/ pipe[j].writeopen)
           /\ pipe[j].readopen = (EndFiles(file, j, FALSE) # {})
           /\ pipe[j].writeopen = (EndFiles(file, j, TRUE) # {})
  BY DEF Pipes
<1> DEFINE T == Filenums \ {f}
<1>2. \A j \in DOMAIN pipe : \E e \in T : file[e].type = "pipe" /\ file[e].pipe = j
  <2>1. TAKE j \in DOMAIN pipe
  <2>2. EndFiles(file, j, FALSE) # {} \/ EndFiles(file, j, TRUE) # {}
    BY ONLY <1>1, <2>1
  <2>3. PICK e, b : e \in EndFiles(file, j, b)
    BY ONLY <2>2
  <2>4. e \in Filenums /\ file[e].type = "pipe" /\ file[e].pipe = j
    BY ONLY <2>3 DEF EndFiles
  <2>5. e # f
    BY <2>4
  <2> QED BY ONLY <2>4, <2>5
<1>3. DOMAIN pipe # Filenums
  <2>1. SUFFICES ASSUME DOMAIN pipe = Filenums PROVE FALSE
    OBVIOUS
  <2> DEFINE h == [j \in Filenums |->
                     CHOOSE e \in T : file[e].type = "pipe" /\ file[e].pipe = j]
  <2>2. \A j \in Filenums : h[j] \in T /\ file[h[j]].pipe = j
    BY <1>2, <2>1
  <2>3. h \in [Filenums -> T]
    BY <2>2
  <2>4. \A i, j \in Filenums : i # j => h[i] # h[j]
    BY <2>2
  <2>5. IsFiniteSet(Filenums) /\ IsFiniteSet(T) /\ Cardinality(Filenums) \in Nat
        /\ Cardinality(T) = Cardinality(Filenums) - 1
    BY SetsFinite, FS_RemoveElement, FS_CardinalityType
  <2> HIDE DEF h, T
  <2>6. Cardinality(T) < Cardinality(Filenums)
    BY ONLY <2>5
  <2>7. \E i, j \in Filenums : i # j /\ h[i] = h[j]
    BY ONLY <2>3, <2>5, <2>6, FS_PigeonHole
  <2> QED BY ONLY <2>4, <2>7
<1> DEFINE S == Filenums \ DOMAIN pipe
<1>4. S # {} /\ S \in SUBSET Nat
  <2>1. S # {}
    BY ONLY <1>1, <1>3
  <2>2. Filenums \subseteq Nat
    BY DEF Filenums
  <2> QED BY ONLY <2>1, <2>2
<1>5. q = Min(S)
  BY DEF Filenums
<1> HIDE DEF S
<1>6. Min(S) \in S
  BY ONLY <1>4, SmallestOf
<1> QED BY ONLY <1>5, <1>6 DEF S

-----------------------------------------------------------------------------
(* pipealloc().                                                            *)

OnePipe(b) == [data |-> <<>>, readopen |-> TRUE, writeopen |-> b]
NewPipes(pipe, q, e) ==
  [p \in DOMAIN pipe \cup {q} |-> IF p = q THEN e ELSE pipe[p]]
Counted1(s, f) == [s EXCEPT !.file[f] = [NoFile EXCEPT !.ref = 1]]
Piped(s, rf, wf, q) ==
  [s EXCEPT !.free = @ - 1, !.pipe = NewPipes(s.pipe, q, OnePipe(TRUE)),
            !.file[rf] = ReadEnd(q), !.file[wf] = WriteEnd(q)]
PipeallocTree(s, rf, wf, r) ==
  IF rf = 0 \/ s.free = 0 THEN [k |-> s, rf |-> 0, wf |-> 0]
  ELSE IF wf = 0 THEN [k |-> s, rf |-> 0, wf |-> 0]
  ELSE [k |-> r, rf |-> rf, wf |-> wf]

(* pipealloc() is these parts.                                             *)
LEMMA PipeallocUnfold ==
  ASSUME NEW s
  PROVE  pipealloc(s) =
           LET rf == filealloc(s)
               wf == filealloc(Counted1(s, rf))
               q == Min(1 .. NFILE \ DOMAIN s.pipe)
           IN PipeallocTree(s, rf, wf, Piped(s, rf, wf, q))
BY DEF pipealloc, PipeallocTree, Piped, Counted1, NewPipes, OnePipe, ReadEnd,
       WriteEnd, EndOf

SetThree(s, b, u, v) == [s EXCEPT !.free = b, !.pipe = u, !.file = v]
ThreeResult(s, b, u, v, r) ==
  /\ SameFs(s, r) /\ r.proc = s.proc /\ r.file = v /\ r.pipe = u
  /\ r.pages = s.pages /\ r.free = b /\ r.tty = s.tty

(* The state it leads to.                                                  *)
LEMMA SetThreeIs ==
  ASSUME NEW s, IsK(s), NEW b, NEW u, NEW v, NEW r, r = SetThree(s, b, u, v)
  PROVE  ThreeResult(s, b, u, v, r)
<1>1. IsK(s) /\ r = [s EXCEPT !.free = b, !.pipe = u, !.file = v]
  BY DEF SetThree
<1> QED BY ONLY <1>1 DEF ThreeResult, SameFs, IsK

(* The files of the two ends.                                              *)
LEMMA PipedIs ==
  ASSUME NEW s, NEW rf, NEW wf, NEW q
  PROVE  Piped(s, rf, wf, q) =
           SetThree(s, s.free - 1, NewPipes(s.pipe, q, OnePipe(TRUE)),
                    Put(Put(s.file, rf, ReadEnd(q)), wf, WriteEnd(q)))
<1>1. PICK g, h, u : g = ReadEnd(q) /\ h = WriteEnd(q)
                     /\ u = NewPipes(s.pipe, q, OnePipe(TRUE))
  OBVIOUS
<1>2. Piped(s, rf, wf, q) = [s EXCEPT !.free = @ - 1, !.pipe = u, !.file[rf] = g,
                                      !.file[wf] = h]
  BY ONLY <1>1 DEF Piped
<1> QED BY ONLY <1>1, <1>2 DEF SetThree, Put

NewPipesResult(pipe, q, e, u) ==
  /\ DOMAIN u = DOMAIN pipe \cup {q} /\ u[q] = e
  /\ \A j \in DOMAIN pipe : j # q => u[j] = pipe[j]

(* The pipes with the new one.                                             *)
LEMMA NewPipesIs ==
  ASSUME NEW pipe, NEW q, NEW e, NEW u, u = NewPipes(pipe, q, e)
  PROVE  NewPipesResult(pipe, q, e, u)
BY DEF NewPipes, NewPipesResult

(* The new pipe.                                                           *)
LEMMA OnePipeIs ==
  ASSUME NEW b \in BOOLEAN
  PROVE  /\ IsPipe(OnePipe(b)) /\ OnePipe(b).readopen = TRUE
         /\ OnePipe(b).writeopen = b
<1>1. PICK e : e = OnePipe(b)
  OBVIOUS
<1>2. e = [data |-> <<>>, readopen |-> TRUE, writeopen |-> b]
  BY <1>1 DEF OnePipe
<1>3. e = [n \in PipeFields |-> e[n]] /\ e.data = <<>>
  BY ONLY <1>2 DEF PipeFields
<1>4. e.readopen = TRUE /\ e.writeopen = b
  BY ONLY <1>2
<1>5. IsSeq(e.data) /\ Len(e.data) = 0
  BY ONLY <1>3, NoUnits
<1>6. PIPESIZE \in Nat
  BY SyscallsAssumption
<1>7. Len(e.data) <= PIPESIZE
  BY ONLY <1>5, <1>6
<1>8. e.readopen \in BOOLEAN /\ e.writeopen \in BOOLEAN
  BY ONLY <1>4, b \in BOOLEAN
<1>9. IsPipe(e)
  BY ONLY <1>3, <1>5, <1>7, <1>8 DEF IsPipe
<1> QED BY ONLY <1>1, <1>4, <1>9

(* pipealloc() succeeded: a page is the pipe, two files are its ends, and  *)
(* a reference to each is in hand.                                         *)
PipeStart(s, rf, wf, q) ==
  /\ Idle(s) /\ s.panic = "" /\ s.free # 0
  /\ rf \in Filenums /\ wf \in Filenums /\ rf # wf
  /\ s.file[rf].ref = 0 /\ s.file[wf].ref = 0
  /\ q = Min(1 .. NFILE \ DOMAIN s.pipe)
Both(rf, wf) == Plus(Plus(Y0, rf), wf)
TwoEnds(s, rf, wf, r) ==
  /\ Fine(r, X0, Both(rf, wf), 0) /\ r.panic = "" /\ r.proc = s.proc /\ IsK(r)

(* One end.                                                                *)
LEMMA HalfFine ==
  ASSUME NEW s, NEW rf, NEW wf, NEW q, PipeStart(s, rf, wf, q), NEW u,
         u = NewPipes(s.pipe, q, OnePipe(FALSE)), NEW r,
         r = SetThree(s, s.free - 1, u, Put(s.file, rf, ReadEnd(q)))
  PROVE  Fine(r, X0, Plus(Y0, rf), 0)
<1>1. /\ Idle(s) /\ s.panic = "" /\ s.free # 0
      /\ rf \in Filenums /\ wf \in Filenums /\ rf # wf
      /\ s.file[rf].ref = 0 /\ s.file[wf].ref = 0
      /\ q = Min(1 .. NFILE \ DOMAIN s.pipe)
  BY DEF PipeStart
<1>2. Fine(s, X0, Y0, 0) /\ Others(s, Y0, 0) /\ IsK(s)
  BY ONLY <1>1 DEF Idle, Fine, FsOk
<1>3. Y0 \in [Filenums -> Int]
  BY ZeroInt
<1>4. Healthy(s, X0, Y0, 0, rf)
  BY ONLY <1>1, <1>2, <1>3 DEF Healthy
<1>5. /\ s.file = [j \in Filenums |-> s.file[j]] /\ Pipes(s.file, s.pipe)
      /\ s.file[rf].type = "none" /\ s.free \in Nat
  BY ONLY <1>1, <1>2 DEF Others, Files0, Pages0
<1>6. PICK file, pipe : file = s.file /\ pipe = s.pipe
  OBVIOUS
<1>7. q \in Filenums /\ q \notin DOMAIN pipe
  <2>1. Pipes(file, pipe) /\ file[rf].type = "none"
        /\ q = Min(1 .. NFILE \ DOMAIN pipe) /\ rf \in Filenums
    BY ONLY <1>1, <1>5, <1>6
  <2> QED BY ONLY <2>1, PipeFreeIs
<1>8. \A b : EndFiles(file, q, b) = {}
  <2>1. \A e \in Filenums : file[e].type = "pipe" => file[e].pipe \in DOMAIN pipe
    BY ONLY <1>5, <1>6 DEF Pipes
  <2> QED BY ONLY <1>7, <2>1 DEF EndFiles
<1>9. PICK e : e = OnePipe(FALSE)
  OBVIOUS
<1>10. u = NewPipes(pipe, q, e)
  BY <1>6, <1>9
<1>11. /\ DOMAIN u = DOMAIN pipe \cup {q} /\ u[q] = e
       /\ \A j \in DOMAIN pipe : j # q => u[j] = pipe[j]
  <2>1. NewPipesResult(pipe, q, e, u)
    BY ONLY <1>10, NewPipesIs
  <2> QED BY ONLY <2>1 DEF NewPipesResult
<1>12. IsPipe(e) /\ e.readopen = TRUE /\ e.writeopen = FALSE
  <2>1. PICK b \in BOOLEAN : b = FALSE
    OBVIOUS
  <2>2. /\ IsPipe(OnePipe(b)) /\ OnePipe(b).readopen = TRUE
        /\ OnePipe(b).writeopen = b
    BY ONLY OnePipeIs
  <2> QED BY ONLY <1>9, <2>1, <2>2
<1>13. AddsEnd(file, pipe, q, FALSE, u)
  <2>1. u[q].readopen = (~FALSE \/ EndFiles(file, q, FALSE) # {})
    BY ONLY <1>11, <1>12
  <2>2. u[q].writeopen = (FALSE \/ EndFiles(file, q, TRUE) # {})
    BY ONLY <1>8, <1>11, <1>12
  <2>3. EndFiles(file, q, FALSE) = {} /\ FALSE \in BOOLEAN
    BY ONLY <1>8
  <2> QED BY ONLY <1>7, <1>11, <1>12, <2>1, <2>2, <2>3 DEF AddsEnd
<1>14. PICK g : g = ReadEnd(q)
  OBVIOUS
<1>15. EndIs(g, q, FALSE)
  BY ONLY <1>14, EndsAre
<1>16. ThreeResult(s, s.free - 1, u, Put(s.file, rf, g), r)
  <2>1. r = SetThree(s, s.free - 1, u, Put(s.file, rf, g))
    BY <1>14
  <2> QED BY ONLY <1>2, <2>1, SetThreeIs
<1>17. r.free \in Nat
       /\ r.free + Cardinality(DOMAIN u) = s.free + Cardinality(DOMAIN s.pipe)
  <2>1. DOMAIN pipe \subseteq Filenums
    BY ONLY <1>5, <1>6 DEF Pipes
  <2>2. IsFiniteSet(DOMAIN pipe) /\ Cardinality(DOMAIN pipe) \in Nat
    BY ONLY <2>1, SetsFinite, FS_Subset, FS_CardinalityType
  <2>3. Cardinality(DOMAIN pipe \cup {q}) = Cardinality(DOMAIN pipe) + 1
    BY ONLY <1>7, <2>2, FS_AddElement
  <2>4. r.free = s.free - 1
    BY ONLY <1>16 DEF ThreeResult
  <2>5. s.free \in Nat /\ s.free # 0
    BY ONLY <1>1, <1>5
  <2>6. Cardinality(DOMAIN u) = Cardinality(DOMAIN s.pipe) + 1
        /\ Cardinality(DOMAIN s.pipe) \in Nat
    BY ONLY <1>6, <1>11, <2>2, <2>3
  <2> QED BY ONLY <2>4, <2>5, <2>6
<1>18. EndStep(s, Y0, rf, g, q, FALSE, u, r)
  BY ONLY <1>1, <1>4, <1>6, <1>13, <1>15, <1>16, <1>17 DEF EndStep, ThreeResult
<1> QED BY ONLY <1>18, EndFine

(* Both ends, in hand.                                                     *)
LEMMA PipedFine ==
  ASSUME NEW s, NEW rf, NEW wf, NEW q, PipeStart(s, rf, wf, q), NEW r,
         r = Piped(s, rf, wf, q)
  PROVE  TwoEnds(s, rf, wf, r)
<1>1. /\ Idle(s) /\ s.panic = "" /\ s.free # 0
      /\ rf \in Filenums /\ wf \in Filenums /\ rf # wf
      /\ s.file[rf].ref = 0 /\ s.file[wf].ref = 0
      /\ q = Min(1 .. NFILE \ DOMAIN s.pipe)
  BY DEF PipeStart
<1>2. Fine(s, X0, Y0, 0) /\ Others(s, Y0, 0) /\ IsK(s)
  BY ONLY <1>1 DEF Idle, Fine, FsOk
<1>3. PICK g, h, u1, u2 : /\ g = ReadEnd(q) /\ h = WriteEnd(q)
                          /\ u1 = NewPipes(s.pipe, q, OnePipe(FALSE))
                          /\ u2 = NewPipes(s.pipe, q, OnePipe(TRUE))
  OBVIOUS
<1>4. PICK v1, v2 : v1 = Put(s.file, rf, g) /\ v2 = Put(v1, wf, h)
  OBVIOUS
<1>5. PICK r1 : r1 = SetThree(s, s.free - 1, u1, v1)
  OBVIOUS
<1>6. Fine(r1, X0, Plus(Y0, rf), 0)
  <2>1. r1 = SetThree(s, s.free - 1, u1, Put(s.file, rf, ReadEnd(q)))
    BY ONLY <1>3, <1>4, <1>5
  <2> QED BY ONLY <1>3, <2>1, PipeStart(s, rf, wf, q), HalfFine
<1>7. ThreeResult(s, s.free - 1, u1, v1, r1)
  BY ONLY <1>2, <1>5, SetThreeIs
<1>8. r = SetThree(s, s.free - 1, u2, v2)
  BY ONLY <1>3, <1>4, r = Piped(s, rf, wf, q), PipedIs
<1>9. ThreeResult(s, s.free - 1, u2, v2, r)
  BY ONLY <1>2, <1>8, SetThreeIs
<1>10. /\ s.file = [j \in Filenums |-> s.file[j]] /\ Pipes(s.file, s.pipe)
       /\ s.file[rf].type = "none" /\ s.file[wf].type = "none" /\ s.free \in Nat
  BY ONLY <1>1, <1>2 DEF Others, Files0, Pages0
<1>11. EndIs(g, q, FALSE) /\ EndIs(h, q, TRUE)
  BY ONLY <1>3, EndsAre
<1>12. v1[rf] = g /\ \A e \in Filenums : e # rf => v1[e] = s.file[e]
  BY ONLY <1>1, <1>4, <1>10 DEF Put
<1>13. q \in Filenums /\ q \notin DOMAIN s.pipe
  <2>1. PICK file, pipe : file = s.file /\ pipe = s.pipe
    OBVIOUS
  <2>2. Pipes(file, pipe) /\ file[rf].type = "none"
        /\ q = Min(1 .. NFILE \ DOMAIN pipe) /\ rf \in Filenums
    BY ONLY <1>1, <1>10, <2>1
  <2>3. q \in Filenums /\ q \notin DOMAIN pipe
    BY ONLY <2>2, PipeFreeIs
  <2> QED BY ONLY <2>1, <2>3
<1>14. EndFiles(v1, q, TRUE) = {} /\ EndFiles(v1, q, FALSE) # {}
  <2>1. \A e \in Filenums : s.file[e].type = "pipe" => s.file[e].pipe # q
    BY ONLY <1>10, <1>13 DEF Pipes
  <2>2. \A b : EndFiles(s.file, q, b) = {}
    BY ONLY <2>1 DEF EndFiles
  <2>3. g.type = "pipe" /\ g.pipe = q /\ g.w = FALSE
    BY ONLY <1>11 DEF EndIs
  <2>4. rf \in EndFiles(v1, q, FALSE)
    BY ONLY <1>1, <1>12, <2>3 DEF EndFiles
  <2>5. ASSUME NEW e \in EndFiles(v1, q, TRUE) PROVE FALSE
    <3>1. e \in Filenums /\ v1[e].type = "pipe" /\ v1[e].pipe = q /\ v1[e].w = TRUE
      BY ONLY <2>5 DEF EndFiles
    <3>2. e # rf
      BY ONLY <1>12, <2>3, <3>1
    <3> QED BY ONLY <1>12, <2>1, <3>1, <3>2
  <2> QED BY ONLY <2>4, <2>5
<1>15. PICK a, b : a = OnePipe(FALSE) /\ b = OnePipe(TRUE)
  OBVIOUS
<1>16. /\ DOMAIN u1 = DOMAIN s.pipe \cup {q} /\ u1[q] = a
       /\ \A j \in DOMAIN s.pipe : j # q => u1[j] = s.pipe[j]
       /\ DOMAIN u2 = DOMAIN s.pipe \cup {q} /\ u2[q] = b
       /\ \A j \in DOMAIN s.pipe : j # q => u2[j] = s.pipe[j]
  <2>1. PICK pipe : pipe = s.pipe
    OBVIOUS
  <2>2. u1 = NewPipes(pipe, q, a) /\ u2 = NewPipes(pipe, q, b)
    BY ONLY <1>3, <1>15, <2>1
  <2>3. NewPipesResult(pipe, q, a, u1) /\ NewPipesResult(pipe, q, b, u2)
    BY ONLY <2>2, NewPipesIs
  <2> QED BY ONLY <2>1, <2>3 DEF NewPipesResult
<1>17. IsPipe(b) /\ b.readopen = TRUE /\ b.writeopen = TRUE
  <2>1. PICK t \in BOOLEAN : t = TRUE
    OBVIOUS
  <2>2. /\ IsPipe(OnePipe(t)) /\ OnePipe(t).readopen = TRUE
        /\ OnePipe(t).writeopen = t
    BY ONLY OnePipeIs
  <2> QED BY ONLY <1>15, <2>1, <2>2
<1>18. AddsEnd(v1, u1, q, TRUE, u2)
  <2>1. u2[q].writeopen = (TRUE \/ EndFiles(v1, q, TRUE) # {})
    BY ONLY <1>16, <1>17
  <2>2. u2[q].readopen = (~TRUE \/ EndFiles(v1, q, FALSE) # {})
    BY ONLY <1>14, <1>16, <1>17
  <2>3. \A j \in DOMAIN u1 : j # q => u2[j] = u1[j]
    BY ONLY <1>16
  <2>4. DOMAIN u2 = DOMAIN u1 \cup {q} /\ IsPipe(u2[q])
    BY ONLY <1>16, <1>17
  <2>5. TRUE \in BOOLEAN
    OBVIOUS
  <2> QED BY ONLY <1>13, <1>14, <2>1, <2>2, <2>3, <2>4, <2>5 DEF AddsEnd
<1>19. Plus(Y0, rf) \in [Filenums -> Int]
  BY ONLY <1>1, Y0Is
<1>20. r1.file = v1 /\ r1.pipe = u1 /\ r1.panic = "" /\ r1.free = s.free - 1
       /\ r1.proc = s.proc /\ r1.pages = s.pages /\ r1.tty = s.tty
  BY ONLY <1>1, <1>7 DEF ThreeResult, SameFs
<1>21. Healthy(r1, X0, Plus(Y0, rf), 0, wf)
  BY ONLY <1>1, <1>6, <1>19, <1>20 DEF Healthy
<1>22. r1.file[wf].ref = 0
  BY ONLY <1>1, <1>12, <1>20
<1>23. SameFs(r1, r) /\ r.file = Put(r1.file, wf, h) /\ r.proc = r1.proc
       /\ r.pipe = u2 /\ r.pages = r1.pages /\ r.tty = r1.tty
       /\ r.free = r1.free
  BY ONLY <1>4, <1>7, <1>9, <1>20 DEF ThreeResult, SameFs
<1>24. r.free \in Nat
       /\ r.free + Cardinality(DOMAIN u2) = r1.free + Cardinality(DOMAIN r1.pipe)
  <2>1. s.free - 1 \in Nat
    <3>1. s.free \in Nat /\ s.free # 0
      BY ONLY <1>1, <1>10
    <3> QED BY ONLY <3>1
  <2>2. DOMAIN u2 = DOMAIN r1.pipe
    BY ONLY <1>16, <1>20
  <2>3. r.free = s.free - 1 /\ r1.free = s.free - 1
    BY ONLY <1>20, <1>23
  <2> QED BY ONLY <2>1, <2>2, <2>3
<1>25. EndStep(r1, Plus(Y0, rf), wf, h, q, TRUE, u2, r)
  BY ONLY <1>11, <1>18, <1>20, <1>21, <1>22, <1>23, <1>24 DEF EndStep
<1>26. Fine(r, X0, Plus(Plus(Y0, rf), wf), 0)
  BY ONLY <1>25, EndFine
<1> QED BY ONLY <1>1, <1>9, <1>26 DEF TwoEnds, Both, ThreeResult, SameFs

PipeallocResult(s, a) ==
  \/ a.rf = 0
  \/ /\ a.rf \in Filenums /\ a.wf \in Filenums /\ a.rf # a.wf
     /\ TwoEnds(s, a.rf, a.wf, a.k)

(* pipealloc() returns two files in hand, or nothing.                      *)
LEMMA PipeallocFine ==
  ASSUME NEW s, Idle(s), s.panic = ""
  PROVE  PipeallocResult(s, pipealloc(s))
<1>1. PICK rf : rf = filealloc(s)
  OBVIOUS
<1>2. PICK s1 : s1 = Counted1(s, rf)
  OBVIOUS
<1>3. PICK wf, q : wf = filealloc(s1) /\ q = Min(1 .. NFILE \ DOMAIN s.pipe)
  OBVIOUS
<1>4. PICK r, a : r = Piped(s, rf, wf, q) /\ a = pipealloc(s)
  OBVIOUS
<1>5. a = PipeallocTree(s, rf, wf, r)
  BY <1>1, <1>2, <1>3, <1>4, PipeallocUnfold
<1>6. CASE rf = 0 \/ s.free = 0 \/ wf = 0
  <2>1. a = [k |-> s, rf |-> 0, wf |-> 0]
    BY ONLY <1>5, <1>6 DEF PipeallocTree
  <2>2. a.rf = 0
    BY ONLY <2>1
  <2> QED BY ONLY <1>4, <2>2 DEF PipeallocResult
<1>7. CASE rf # 0 /\ s.free # 0 /\ wf # 0
  <2>1. a = [k |-> r, rf |-> rf, wf |-> wf]
    BY ONLY <1>5, <1>7 DEF PipeallocTree
  <2>2. rf \in Filenums /\ s.file[rf].ref = 0
    BY ONLY <1>1, <1>7, FilealloIs
  <2>3. wf \in Filenums /\ s1.file[wf].ref = 0
    BY ONLY <1>3, <1>7, FilealloIs
  <2>4. /\ IsK(s) /\ s.file = [j \in Filenums |-> s.file[j]]
    BY DEF Idle, Fine, FsOk, Others, Files0
  <2>5. PICK g : g = [NoFile EXCEPT !.ref = 1]
    OBVIOUS
  <2>6. s1 = PutFile(s, rf, g)
    BY ONLY <1>2, <2>5 DEF Counted1, PutFile, Put
  <2>7. s1.file = Put(s.file, rf, g)
    BY ONLY <2>4, <2>6, PutFileFields
  <2>8. g.ref = 1
    <3>1. NoFile = [n \in FileFields |-> NoFile[n]]
      BY DEF NoFile, FileFields
    <3> QED BY ONLY <2>5, <3>1 DEF FileFields
  <2>9. s1.file[rf] = g /\ \A j \in Filenums : j # rf => s1.file[j] = s.file[j]
    BY ONLY <2>2, <2>4, <2>7 DEF Put
  <2>10. wf # rf /\ s.file[wf].ref = 0
    BY ONLY <2>3, <2>8, <2>9
  <2>11. PipeStart(s, rf, wf, q)
    BY ONLY <1>3, <1>7, <2>2, <2>3, <2>10, Idle(s), s.panic = "" DEF PipeStart
  <2>12. TwoEnds(s, rf, wf, r)
    BY ONLY <1>4, <2>11, PipedFine
  <2>13. a.k = r /\ a.rf = rf /\ a.wf = wf
    BY ONLY <2>1
  <2> QED BY ONLY <1>4, <2>2, <2>3, <2>10, <2>12, <2>13 DEF PipeallocResult
<1> QED BY <1>6, <1>7

-----------------------------------------------------------------------------
(* pipe(): the two descriptors, and how they are taken back.               *)

(* A process with another variable.                                        *)
LEMMA SetVarUser ==
  ASSUME NEW r, IsProc(r), NEW w, NEW q, q = [r EXCEPT !.var = w]
  PROVE  User(r, q)
<1>1. r = [n \in ProcFields |-> r[n]]
  BY DEF IsProc
<1>2. q = [n \in ProcFields |-> q[n]]
  BY ONLY <1>1, q = [r EXCEPT !.var = w]
<1>3. /\ q.st = r.st /\ q.cwd = r.cwd /\ q.fd = r.fd /\ q.pt = r.pt
      /\ q.sz = r.sz /\ q.done = r.done /\ q.buf = r.buf /\ q.code = r.code
  BY ONLY <1>1, q = [r EXCEPT !.var = w] DEF ProcFields
<1>4. IsProc(q)
  BY ONLY <1>2, <1>3, IsProc(r) DEF IsProc
<1> QED BY ONLY <1>3, <1>4 DEF User

(* It runs on.                                                             *)
LEMMA VarReady ==
  ASSUME NEW s, NEW p, Ready(s, p), NEW v, NEW n, NEW r, r = SetVar(s, p, v, n)
  PROVE  Ready(r, p)
<1>1. /\ IsK(s) /\ s.panic = "" /\ p \in Slots /\ s.proc[p].st = "used"
      /\ IsProc(s.proc[p]) /\ s.proc = [j \in Slots |-> s.proc[j]]
  BY ReadyIs DEF Procs0
<1>2. PICK w : w = (v :> n) @@ s.proc[p].var
  OBVIOUS
<1>3. PICK q : q = [s.proc[p] EXCEPT !.var = w]
  OBVIOUS
<1>4. r = [s EXCEPT !.proc[p] = q]
  <2>1. r = [s EXCEPT !.proc[p].var = (v :> n) @@ @]
    BY DEF SetVar
  <2> QED BY ONLY <1>2, <1>3, <2>1
<1>5. User(s.proc[p], q)
  <2>1. PICK e : e = s.proc[p]
    OBVIOUS
  <2>2. IsProc(e) /\ q = [e EXCEPT !.var = w]
    BY ONLY <1>1, <1>3, <2>1
  <2>3. User(e, q)
    BY ONLY <2>2, SetVarUser
  <2> QED BY ONLY <2>1, <2>3
<1>6. Idle(r)
  BY ONLY <1>4, <1>5, Ready(s, p), ProcUser
<1>7. r = [s EXCEPT !.proc = Put(s.proc, p, q)]
  BY ONLY <1>4 DEF Put
<1>8. SetProcResult(s, Put(s.proc, p, q), r)
  BY ONLY <1>1, <1>7, SetProcIs
<1>9. r.panic = "" /\ r.proc[p] = q
  BY ONLY <1>1, <1>8 DEF SetProcResult, SameFs, Put
<1>10. q.st = "used"
  BY ONLY <1>1, <1>5 DEF User
<1> QED BY ONLY <1>1, <1>6, <1>9, <1>10 DEF Ready

(* The two descriptors of a pipe are given out, or the two files closed.   *)
LEMMA BothIs ==
  ASSUME NEW rf \in Filenums, NEW wf \in Filenums, rf # wf
  PROVE  /\ Both(rf, wf) \in [Filenums -> Int] /\ Both(rf, wf)[rf] = 1
         /\ Minus(Both(rf, wf), rf) = Plus(Y0, wf)
         /\ \A f \in Filenums : Both(rf, wf)[f] = Plus(Y0, wf)[f] + One(rf, f)
         /\ \A f \in Filenums : Plus(Y0, wf)[f] = Y0[f] + One(wf, f)
         /\ Plus(Y0, wf) \in [Filenums -> Int] /\ Plus(Y0, wf)[wf] = 1
         /\ Minus(Plus(Y0, wf), wf) = Y0 /\ Y0 \in [Filenums -> Int]
<1>1. Y0 = [f \in Filenums |-> 0]
  BY DEF Y0
<1>2. Plus(Y0, wf) = [f \in Filenums |-> IF f = wf THEN 1 ELSE 0]
  BY <1>1 DEF Plus
<1>3. Plus(Y0, rf) = [f \in Filenums |-> IF f = rf THEN 1 ELSE 0]
  BY <1>1 DEF Plus
<1>4. Both(rf, wf) = [f \in Filenums |-> IF f = wf THEN 1 ELSE IF f = rf THEN 1 ELSE 0]
  <2>1. PICK g : g = Plus(Y0, rf)
    OBVIOUS
  <2>2. Both(rf, wf) = [g EXCEPT ![wf] = @ + 1]
    BY ONLY <2>1 DEF Plus, Both
  <2>3. g = [f \in Filenums |-> IF f = rf THEN 1 ELSE 0]
    BY ONLY <1>3, <2>1
  <2>4. rf \in Filenums /\ wf \in Filenums /\ rf # wf
    OBVIOUS
  <2> QED BY ONLY <2>2, <2>3, <2>4
<1>5. Minus(Both(rf, wf), rf) = [f \in Filenums |-> IF f = wf THEN 1 ELSE 0]
  BY <1>4 DEF Minus
<1>6. Minus(Plus(Y0, wf), wf) = [f \in Filenums |-> 0]
  BY <1>2 DEF Minus
<1>7. \A f \in Filenums : Both(rf, wf)[f] = Plus(Y0, wf)[f] + One(rf, f)
  BY <1>2, <1>4 DEF One
<1>8. \A f \in Filenums : Plus(Y0, wf)[f] = Y0[f] + One(wf, f)
  BY <1>1, <1>2 DEF One
<1>9. Both(rf, wf) \in [Filenums -> Int] /\ Both(rf, wf)[rf] = 1
  BY <1>4
<1>10. Plus(Y0, wf) \in [Filenums -> Int] /\ Plus(Y0, wf)[wf] = 1
       /\ Y0 \in [Filenums -> Int]
  BY <1>1, <1>2
<1> QED BY ONLY <1>1, <1>2, <1>5, <1>6, <1>7, <1>8, <1>9, <1>10

PipeIds(rf, wf) == rf \in Filenums /\ wf \in Filenums /\ rf # wf

(* They are closed.                                                        *)
LEMMA PipeUndo ==
  ASSUME NEW s, NEW rf, NEW wf, PipeIds(rf, wf), Fine(s, X0, Both(rf, wf), 0),
         s.panic = "", NEW p \in Slots, NEW r,
         r = Return(fileclose(fileclose(s, rf), wf), p, -1)
  PROVE  Idle(r)
<1>1. rf \in Filenums /\ wf \in Filenums /\ rf # wf
  BY DEF PipeIds
<1>2. PICK y, z : y = Both(rf, wf) /\ z = Plus(Y0, wf)
  OBVIOUS
<1>3. /\ y \in [Filenums -> Int] /\ y[rf] = 1 /\ Minus(y, rf) = z
      /\ z \in [Filenums -> Int] /\ z[wf] = 1 /\ Minus(z, wf) = Y0
  BY ONLY <1>1, <1>2, BothIs
<1>4. PICK a, b : a = fileclose(s, rf) /\ b = fileclose(a, wf)
  OBVIOUS
<1>5. 0 \in Nat /\ y[rf] >= 1 /\ z[wf] >= 1
  BY ONLY <1>3
<1>6. Done(s, a, X0, Minus(y, rf), 0)
  <2>1. Healthy(s, X0, y, 0, rf)
    BY ONLY <1>1, <1>2, <1>3, Fine(s, X0, Both(rf, wf), 0), s.panic = "" DEF Healthy
  <2> QED BY ONLY <1>4, <1>5, <2>1, FilecloseFine
<1>7. Done(a, b, X0, Minus(z, wf), 0)
  <2>1. Healthy(a, X0, z, 0, wf)
    BY ONLY <1>1, <1>3, <1>6 DEF Healthy, Done
  <2> QED BY ONLY <1>4, <1>5, <2>1, FilecloseFine
<1>8. Idle(b)
  BY ONLY <1>3, <1>7 DEF Done, Idle
<1> QED BY <1>4, <1>8, IdleReturn

TwoFds(s, p, fds) == [s EXCEPT !.proc[p].fd = fds]
GivenTwo(s, p, d0, rf, d1, wf) == SetFd(SetFd(s, p, d0, rf), p, d1, wf)
PutFd2(fds, d0, rf, d1, wf) == [[fds EXCEPT ![d0] = rf] EXCEPT ![d1] = wf]

(* Two descriptors.                                                        *)
LEMMA PutFdTwice ==
  ASSUME NEW r, IsProc(r), NEW d0, NEW rf, NEW d1, NEW wf
  PROVE  PutFd(PutFd(r, d0, rf), d1, wf) = [r EXCEPT !.fd = PutFd2(r.fd, d0, rf, d1, wf)]
<1>1. r = [n \in ProcFields |-> r[n]]
  BY DEF IsProc
<1>2. PICK a, b : a = [r.fd EXCEPT ![d0] = rf] /\ b = [a EXCEPT ![d1] = wf]
  OBVIOUS
<1>3. PICK q : q = PutFd(r, d0, rf)
  OBVIOUS
<1>4. q = [r EXCEPT !.fd = a]
  BY <1>2, <1>3 DEF PutFd
<1>5. q.fd = a
  BY ONLY <1>1, <1>4 DEF ProcFields
<1>6. PutFd(q, d1, wf) = [q EXCEPT !.fd = b]
  BY <1>2, <1>5 DEF PutFd
<1>7. [q EXCEPT !.fd = b] = [r EXCEPT !.fd = b]
  BY ONLY <1>1, <1>4
<1>8. PutFd2(r.fd, d0, rf, d1, wf) = b
  BY ONLY <1>2 DEF PutFd2
<1> QED BY ONLY <1>3, <1>6, <1>7, <1>8

(* Two changes of a process.                                               *)
LEMMA SetProcTwice ==
  ASSUME NEW s, IsK(s), NEW v, NEW w
  PROVE  [[s EXCEPT !.proc = v] EXCEPT !.proc = w] = [s EXCEPT !.proc = w]
<1>1. IsK(s)
  OBVIOUS
<1> QED BY ONLY <1>1 DEF IsK

(* Two descriptors take the two files.                                     *)
LEMMA GivenTwoIs ==
  ASSUME NEW s, IsK(s), NEW p \in Slots, s.proc = [j \in Slots |-> s.proc[j]],
         IsProc(s.proc[p]), NEW d0, NEW rf, NEW d1, NEW wf
  PROVE  TwoFds(s, p, PutFd2(s.proc[p].fd, d0, rf, d1, wf)) =
           GivenTwo(s, p, d0, rf, d1, wf)
<1>1. PICK e, q, u : /\ e = s.proc[p] /\ q = PutFd(e, d0, rf)
                     /\ u = PutFd(q, d1, wf)
  OBVIOUS
<1>2. PICK v : v = Put(s.proc, p, q)
  OBVIOUS
<1>3. PICK a : a = SetFd(s, p, d0, rf)
  OBVIOUS
<1>4. a = [s EXCEPT !.proc = v]
  BY ONLY <1>1, <1>2, <1>3 DEF SetFd
<1>5. a.proc = v
  <2>1. SetProcResult(s, v, a)
    BY ONLY <1>4, IsK(s), SetProcIs
  <2> QED BY ONLY <2>1 DEF SetProcResult
<1>6. a.proc[p] = q
  BY <1>2, <1>5 DEF Put
<1>7. SetFd(a, p, d1, wf) = [a EXCEPT !.proc = Put(v, p, u)]
  BY ONLY <1>1, <1>5, <1>6 DEF SetFd
<1>8. Put(v, p, u) = Put(s.proc, p, u)
  BY ONLY <1>2, PutTwice
<1>9. [a EXCEPT !.proc = Put(v, p, u)] = [s EXCEPT !.proc = Put(s.proc, p, u)]
  <2>1. PICK w : w = Put(s.proc, p, u)
    OBVIOUS
  <2>2. [[s EXCEPT !.proc = v] EXCEPT !.proc = w] = [s EXCEPT !.proc = w]
    BY ONLY IsK(s), SetProcTwice
  <2> QED BY ONLY <1>4, <1>8, <2>1, <2>2
<1>10. u = [e EXCEPT !.fd = PutFd2(e.fd, d0, rf, d1, wf)]
  <2>1. IsProc(e)
    BY ONLY <1>1, IsProc(s.proc[p])
  <2> QED BY ONLY <1>1, <2>1, PutFdTwice
<1>11. PICK n : n = PutFd2(e.fd, d0, rf, d1, wf)
  OBVIOUS
<1>12. TwoFds(s, p, n) = [s EXCEPT !.proc = Put(s.proc, p, [s.proc[p] EXCEPT !.fd = n])]
  BY ONLY DEF TwoFds, Put
<1> QED BY ONLY <1>1, <1>3, <1>7, <1>9, <1>10, <1>11, <1>12 DEF GivenTwo

PipeGiven(s, p, rf, wf, a, d0, d1) ==
  /\ Ready(s, p) /\ PipeIds(rf, wf) /\ TwoEnds(s, rf, wf, a)
  /\ d0 \in Fds /\ s.proc[p].fd[d0] = 0
  /\ d1 \in Fds /\ [s.proc[p].fd EXCEPT ![d0] = rf][d1] = 0

(* Nothing is in hand then.                                                *)
LEMMA GivenTwoReady ==
  ASSUME NEW s, NEW p, NEW rf, NEW wf, NEW a, NEW d0, NEW d1,
         PipeGiven(s, p, rf, wf, a, d0, d1), NEW r,
         r = GivenTwo(a, p, d0, rf, d1, wf)
  PROVE  Ready(r, p)
<1>1. /\ Ready(s, p) /\ PipeIds(rf, wf) /\ TwoEnds(s, rf, wf, a)
      /\ d0 \in Fds /\ s.proc[p].fd[d0] = 0
      /\ d1 \in Fds /\ [s.proc[p].fd EXCEPT ![d0] = rf][d1] = 0
  BY DEF PipeGiven
<1>2. rf \in Filenums /\ wf \in Filenums /\ rf # wf
  BY ONLY <1>1 DEF PipeIds
<1>3. /\ p \in Slots /\ s.proc[p].st = "used" /\ IsProc(s.proc[p])
      /\ s.proc = [j \in Slots |-> s.proc[j]] /\ s.panic = ""
      /\ Fine(a, X0, Both(rf, wf), 0) /\ a.panic = "" /\ a.proc = s.proc /\ IsK(a)
  BY ONLY <1>1, ReadyIs DEF Procs0, TwoEnds
<1>4. PICK y, z : y = Both(rf, wf) /\ z = Plus(Y0, wf)
  OBVIOUS
<1>5. /\ y \in [Filenums -> Int] /\ z \in [Filenums -> Int]
      /\ Y0 \in [Filenums -> Int]
      /\ \A f \in Filenums : y[f] = z[f] + One(rf, f)
      /\ \A f \in Filenums : z[f] = Y0[f] + One(wf, f)
  BY ONLY <1>2, <1>4, BothIs
<1>6. \A f \in Filenums : One(0, f) = 0 /\ rf \in 0 .. NFILE /\ wf \in 0 .. NFILE
  BY ONLY <1>2, ZeroOne
<1>7. rf \in 0 .. NFILE /\ wf \in 0 .. NFILE
  BY ONLY <1>2, <1>6
<1>8. PICK b : b = SetFd(a, p, d0, rf)
  OBVIOUS
<1>9. FdStep(a, X0, y, 0, p, d0, rf, z)
  <2>1. \A f \in Filenums : z[f] + One(rf, f) = y[f] + One(a.proc[p].fd[d0], f)
    <3>1. \A f \in Filenums : y[f] \in Int
      BY ONLY <1>5
    <3>2. a.proc[p].fd[d0] = 0
      BY ONLY <1>1, <1>3
    <3>3. \A f \in Filenums : z[f] \in Int /\ One(rf, f) \in Int
      BY ONLY <1>5, OneType
    <3>4. \A f \in Filenums : z[f] + One(rf, f) = y[f] + One(0, f)
      BY ONLY <1>5, <1>6, <3>1, <3>3
    <3> QED BY ONLY <3>2, <3>4
  <2> QED BY ONLY <1>1, <1>3, <1>4, <1>5, <1>7, <2>1 DEF FdStep
<1>10. Fine(b, X0, z, 0)
  BY ONLY <1>8, <1>9, FdStepFine
<1>11. SetFdResult(a, p, d0, rf, b)
  BY ONLY <1>3, <1>8, SetFdFields
<1>12. PICK e, q : e = s.proc[p] /\ q = PutFd(e, d0, rf)
  OBVIOUS
<1>13. b.proc = Put(s.proc, p, q) /\ b.panic = "" /\ IsK(b)
  BY ONLY <1>3, <1>11, <1>12 DEF SetFdResult, SameFs
<1>14. b.proc[p] = q
  BY ONLY <1>3, <1>13 DEF Put
<1>15. IsProc(q) /\ q.st = "used" /\ q.fd = [e.fd EXCEPT ![d0] = rf]
  <2>1. IsProc(e) /\ d0 \in Fds /\ rf \in 0 .. NFILE
    BY ONLY <1>1, <1>3, <1>7, <1>12
  <2>2. /\ IsProc(q) /\ q.st = e.st
    BY ONLY <1>12, <2>1, PutFdIs
  <2>3. e = [n \in ProcFields |-> e[n]]
    BY ONLY <2>1 DEF IsProc
  <2>4. PICK g : g = [e.fd EXCEPT ![d0] = rf]
    OBVIOUS
  <2>5. q = [e EXCEPT !.fd = g]
    BY ONLY <1>12, <2>4 DEF PutFd
  <2>6. q.fd = g
    BY ONLY <2>3, <2>5 DEF ProcFields
  <2> QED BY ONLY <1>3, <1>12, <2>2, <2>4, <2>6
<1>16. q.fd[d1] = 0
  BY ONLY <1>1, <1>12, <1>15
<1>17. FdStep(b, X0, z, 0, p, d1, wf, Y0)
  <2>1. \A f \in Filenums : Y0[f] + One(wf, f) = z[f] + One(b.proc[p].fd[d1], f)
    <3>1. \A f \in Filenums : z[f] \in Int
      BY ONLY <1>5
    <3> QED BY ONLY <1>5, <1>6, <1>14, <1>16, <3>1
  <2>2. b.proc[p].st = "used"
    BY ONLY <1>14, <1>15
  <2> QED BY ONLY <1>1, <1>3, <1>5, <1>7, <1>10, <1>13, <2>1, <2>2 DEF FdStep
<1>18. r = SetFd(b, p, d1, wf)
  BY ONLY <1>8, r = GivenTwo(a, p, d0, rf, d1, wf) DEF GivenTwo
<1>19. Fine(r, X0, Y0, 0)
  BY ONLY <1>17, <1>18, FdStepFine
<1>20. SetFdResult(b, p, d1, wf, r)
  BY ONLY <1>13, <1>18, SetFdFields
<1>21. PICK u : u = PutFd(q, d1, wf)
  OBVIOUS
<1>22. r.proc[p] = u
  BY ONLY <1>3, <1>13, <1>14, <1>20, <1>21 DEF SetFdResult, Put
<1>23. u.st = "used"
  <2>1. d1 \in Fds /\ wf \in 0 .. NFILE /\ IsProc(q)
    BY ONLY <1>1, <1>7, <1>15
  <2>2. u.st = q.st
    BY ONLY <1>21, <2>1, PutFdIs
  <2> QED BY ONLY <1>15, <2>2
<1> QED BY ONLY <1>3, <1>13, <1>19, <1>20, <1>22, <1>23
           DEF Ready, Idle, SetFdResult, SameFs

-----------------------------------------------------------------------------
(* pipe().                                                                 *)

PipeMem(s1, s, p, i) == copyout(Mem(s1, p), Address(s, p, i.addr), 1)
PipeUndone(s, a, p) ==
  Return(fileclose(fileclose(s, a.rf), a.wf), p, -1)
PipeTree(s, p, i, a, d0, d1, out, s1) ==
  IF a.rf = 0 THEN Return(s, p, -1)
  ELSE IF d0 = -1 \/ d1 = -1 THEN PipeUndone(a.k, a, p)
  ELSE IF ~out.go THEN PipeUndone(SetMem(a.k, p, out.mem), a, p)
  ELSE Return(SetVar(SetVar(SetMem(s1, p, out.mem), p, i.rto, d0), p, i.wto, d1),
              p, 0)

(* sys_pipe() is these parts.                                              *)
LEMMA PipeUnfold ==
  ASSUME NEW s, NEW p, NEW i
  PROVE  sys_pipe(s, p, i) =
           LET a == pipealloc(s)
               d0 == FirstFd(s.proc[p].fd)
               d1 == FirstFd([s.proc[p].fd EXCEPT ![d0] = a.rf])
               s1 == TwoFds(a.k, p, PutFd2(s.proc[p].fd, d0, a.rf, d1, a.wf))
           IN PipeTree(s, p, i, a, d0, d1, PipeMem(s1, s, p, i), s1)
BY DEF sys_pipe, PipeTree, PipeUndone, PipeMem, TwoFds, PutFd2

(* Handing over the two numbers leaves the memory as it is.                *)
LEMMA TwoFdsMem ==
  ASSUME NEW s, IsK(s), NEW p \in Slots, s.proc = [j \in Slots |-> s.proc[j]],
         IsProc(s.proc[p]), NEW v
  PROVE  Mem(TwoFds(s, p, v), p) = Mem(s, p)
<1>1. PICK e, q : e = s.proc[p] /\ q = [e EXCEPT !.fd = v]
  OBVIOUS
<1>2. TwoFds(s, p, v) = [s EXCEPT !.proc = Put(s.proc, p, q)]
  BY ONLY <1>1 DEF TwoFds, Put
<1>3. SetProcResult(s, Put(s.proc, p, q), TwoFds(s, p, v))
  BY ONLY <1>2, IsK(s), SetProcIs
<1>4. e = [n \in ProcFields |-> e[n]]
  BY <1>1 DEF IsProc
<1>5. q.sz = e.sz /\ q.pt = e.pt
  BY ONLY <1>1, <1>4 DEF ProcFields
<1>6. PICK r : r = TwoFds(s, p, v)
  OBVIOUS
<1>7. r.free = s.free /\ r.proc = Put(s.proc, p, q)
  BY ONLY <1>3, <1>6 DEF SetProcResult
<1>8. r.proc[p] = q
  <2>1. p \in Slots /\ s.proc = [j \in Slots |-> s.proc[j]]
    OBVIOUS
  <2> QED BY ONLY <1>7, <2>1 DEF Put
<1> QED BY ONLY <1>1, <1>5, <1>6, <1>7, <1>8 DEF Mem

(* Putting memory back does not panic.                                     *)
LEMMA SetMemPanic ==
  ASSUME NEW s, IsK(s), NEW p, NEW m
  PROVE  SetMem(s, p, m).panic = s.panic
<1>1. SetMemResult(s, p, m, SetMem(s, p, m))
  BY SetMemIs
<1> QED BY ONLY <1>1 DEF SetMemResult, SameFs

(* pipe() leaves nothing in hand.                                          *)
LEMMA PipeIdle ==
  ASSUME NEW s, NEW p, Ready(s, p), NEW i, Address(s, p, i.addr) \in Int
  PROVE  Idle(sys_pipe(s, p, i))
<1>1. PICK a, d0 : a = pipealloc(s) /\ d0 = FirstFd(s.proc[p].fd)
  OBVIOUS
<1>2. PICK d1 : d1 = FirstFd([s.proc[p].fd EXCEPT ![d0] = a.rf])
  OBVIOUS
<1>3. PICK s1 : s1 = TwoFds(a.k, p, PutFd2(s.proc[p].fd, d0, a.rf, d1, a.wf))
  OBVIOUS
<1>4. PICK out, r : out = PipeMem(s1, s, p, i) /\ r = sys_pipe(s, p, i)
  OBVIOUS
<1>5. r = PipeTree(s, p, i, a, d0, d1, out, s1)
  BY <1>1, <1>2, <1>3, <1>4, PipeUnfold
<1>6. /\ Idle(s) /\ s.panic = "" /\ p \in Slots /\ s.proc[p].st = "used"
      /\ IsProc(s.proc[p]) /\ s.proc = [j \in Slots |-> s.proc[j]]
  BY ReadyIs DEF Ready, Procs0
<1>7. PipeallocResult(s, a)
  BY ONLY <1>1, <1>6, PipeallocFine
<1>8. CASE a.rf = 0
  <2>1. r = Return(s, p, -1)
    BY ONLY <1>5, <1>8 DEF PipeTree
  <2>2. PICK n : n = -1
    OBVIOUS
  <2>3. Idle(s) /\ p \in Slots
    BY ONLY <1>6
  <2>4. Idle(Return(s, p, n))
    BY ONLY <2>3, IdleReturn
  <2> QED BY ONLY <1>4, <2>1, <2>2, <2>4
<1>9. CASE a.rf # 0
  <2>1. PICK b, rf, wf : b = a.k /\ rf = a.rf /\ wf = a.wf
    OBVIOUS
  <2>2. PipeIds(rf, wf) /\ TwoEnds(s, rf, wf, b)
    BY ONLY <1>7, <1>9, <2>1 DEF PipeallocResult, PipeIds
  <2>3. /\ Fine(b, X0, Both(rf, wf), 0) /\ b.panic = "" /\ b.proc = s.proc /\ IsK(b)
    BY ONLY <2>2 DEF TwoEnds
  <2>4. ASSUME NEW u, Fine(u, X0, Both(rf, wf), 0), u.panic = "" PROVE Idle(PipeUndone(u, a, p))
    <3>1. PICK x : x = Return(fileclose(fileclose(u, rf), wf), p, -1)
      OBVIOUS
    <3>2. Idle(x)
      BY ONLY <1>6, <2>2, <2>4, <3>1, PipeUndo
    <3> QED BY ONLY <2>1, <3>1, <3>2 DEF PipeUndone
  <2>5. CASE d0 = -1 \/ d1 = -1
    <3>1. r = PipeUndone(b, a, p)
      BY ONLY <1>5, <1>9, <2>1, <2>5 DEF PipeTree
    <3> QED BY ONLY <1>4, <2>3, <2>4, <3>1
  <2>6. CASE d0 # -1 /\ d1 # -1
    <3>1. PICK fd, fds : fd = s.proc[p].fd /\ fds = [fd EXCEPT ![d0] = rf]
      OBVIOUS
    <3>2. d0 \in Fds /\ fd[d0] = 0
      BY ONLY <1>1, <2>6, <3>1, FirstFdIs
    <3>3. d1 = FirstFd(fds)
      BY ONLY <1>2, <2>1, <3>1
    <3>4. d1 \in Fds /\ fds[d1] = 0
      BY ONLY <2>6, <3>3, FirstFdIs
    <3>5. PipeGiven(s, p, rf, wf, b, d0, d1)
      BY ONLY <2>2, <3>1, <3>2, <3>4, Ready(s, p) DEF PipeGiven
    <3>6. s1 = TwoFds(b, p, PutFd2(b.proc[p].fd, d0, rf, d1, wf))
      BY ONLY <1>3, <2>1, <2>3
    <3>7. b.proc = [j \in Slots |-> b.proc[j]] /\ IsProc(b.proc[p])
      BY ONLY <1>6, <2>3
    <3>8. s1 = GivenTwo(b, p, d0, rf, d1, wf)
      <4>1. /\ IsK(b) /\ p \in Slots /\ b.proc = [j \in Slots |-> b.proc[j]]
            /\ IsProc(b.proc[p])
        BY ONLY <1>6, <2>3, <3>7
      <4>2. TwoFds(b, p, PutFd2(b.proc[p].fd, d0, rf, d1, wf)) =
              GivenTwo(b, p, d0, rf, d1, wf)
        BY ONLY <4>1, GivenTwoIs
      <4> QED BY ONLY <3>6, <4>2
    <3>9. Ready(s1, p)
      BY ONLY <3>5, <3>8, GivenTwoReady
    <3>10. PICK m, m1, x : m = Mem(s1, p) /\ x = Address(s, p, i.addr) /\ m1 = out.mem
      OBVIOUS
    <3>11. out = Reach(m, x, 1, TRUE)
      BY ONLY <1>4, <3>10 DEF PipeMem, copyout
    <3>12. Own(m)
      BY ONLY <3>9, <3>10, ReadyOwn
    <3>13. Changed(m, m1)
      <4>1. x \in Int /\ 1 \in Nat
        BY <3>10
      <4>2. Changed(m, Reach(m, x, 1, TRUE).mem)
        BY ONLY <3>12, <4>1, ReachMem
      <4> QED BY ONLY <3>10, <3>11, <4>2
    <3>14. CASE ~out.go
      <4>1. r = PipeUndone(SetMem(b, p, m1), a, p)
        BY ONLY <1>5, <1>9, <2>1, <2>6, <3>10, <3>14 DEF PipeTree
      <4>2. Mem(b, p) = m
        BY ONLY <1>6, <2>3, <3>6, <3>7, <3>10, TwoFdsMem
      <4>3. Own(m1) /\ MemSum(m1) = MemSum(Mem(b, p))
        BY ONLY <3>13, <4>2 DEF Changed
      <4>4. b.proc[p].st # "unused"
        BY ONLY <1>6, <2>3
      <4>5. PICK n \in Nat : n = 0
        BY ONLY SMT
      <4>6. MemSum(m1) + n = MemSum(Mem(b, p)) + n
        BY ONLY <4>3
      <4>7. PICK y : y = Both(rf, wf)
        OBVIOUS
      <4>8. Fine(b, X0, y, n)
        BY ONLY <2>3, <4>5, <4>7
      <4>9. Fine(SetMem(b, p, m1), X0, y, n)
        BY ONLY <1>6, <2>3, <4>3, <4>4, <4>6, <4>8, SetMemFine
      <4>10. SetMem(b, p, m1).panic = ""
        BY ONLY <2>3, SetMemPanic
      <4>11. PICK u : u = SetMem(b, p, m1)
        OBVIOUS
      <4>12. Fine(u, X0, Both(rf, wf), 0) /\ u.panic = ""
        BY ONLY <4>5, <4>7, <4>9, <4>10, <4>11
      <4> QED BY ONLY <1>4, <2>4, <4>1, <4>11, <4>12
    <3>15. CASE out.go
      <4>1. PICK s2, s3, s4 : /\ s2 = SetMem(s1, p, m1)
                              /\ s3 = SetVar(s2, p, i.rto, d0)
                              /\ s4 = SetVar(s3, p, i.wto, d1)
        OBVIOUS
      <4>2. r = Return(s4, p, 0)
        BY ONLY <1>5, <1>9, <2>6, <3>10, <3>15, <4>1 DEF PipeTree
      <4>3. Ready(s2, p)
        <5>1. Changed(Mem(s1, p), m1)
          BY ONLY <3>10, <3>13
        <5>2. Ready(SetMem(s1, p, m1), p)
          BY ONLY <3>9, <5>1, IdleMem
        <5> QED BY ONLY <4>1, <5>2
      <4>4. Ready(s3, p)
        BY ONLY <4>1, <4>3, VarReady
      <4>5. Ready(s4, p)
        BY ONLY <4>1, <4>4, VarReady
      <4>6. Idle(s4)
        BY ONLY <4>5 DEF Ready
      <4>7. p \in Slots
        BY ONLY <1>6
      <4>8. PICK n : n = 0
        OBVIOUS
      <4>9. Idle(Return(s4, p, n))
        BY ONLY <4>6, <4>7, IdleReturn
      <4> QED BY ONLY <1>4, <4>2, <4>8, <4>9
    <3> QED BY ONLY <3>14, <3>15
  <2> QED BY ONLY <2>5, <2>6
<1> QED BY ONLY <1>8, <1>9

-----------------------------------------------------------------------------
(* exit(): it closes every descriptor.                                     *)

(* Closing the descriptors of a process that exits, one by one.            *)
CloseOne(a, p, fds, d) ==
  IF fds[d - 1] = 0 THEN a
  ELSE fileclose([a EXCEPT !.proc[p].fd[d - 1] = 0], fds[d - 1])
Zombie(q, status) ==
  [NoProc EXCEPT !.st = "zombie", !.xstate = status, !.pid = q.pid,
                 !.parent = q.parent, !.killed = q.killed, !.sz = q.sz,
                 !.pt = q.pt]
ExitResult(s, p, status, c) ==
  IF p = InitProc THEN Panic(s, "init exiting")
  ELSE [reparent(iput(c, s.proc[p].cwd), p) EXCEPT !.proc[p] =
          Zombie(s.proc[p], status)]

(* kexit() is these parts.                                                 *)
LEMMA ExitIs ==
  ASSUME NEW s, NEW p, NEW status
  PROVE  \E at : /\ at[0] = s
                 /\ \A j \in 1 .. NOFILE :
                      at[j] = CloseOne(at[j - 1], p, s.proc[p].fd, j)
                 /\ kexit(s, p, status) = ExitResult(s, p, status, at[NOFILE])
<1> DEFINE fds == s.proc[p].fd
           Fn(f, m) == [j \in 0 .. m |->
                          IF j = 0 THEN s ELSE CloseOne(f[j - 1], p, fds, j)]
           S == {m \in 0 .. NOFILE : \E f : f = Fn(f, m)}
<1>0. NOFILE \in Nat
  BY FilesAssumption
<1>1. 0 \in S
  <2>1. [j \in 0 .. 0 |-> s] = Fn([j \in 0 .. 0 |-> s], 0)
    OBVIOUS
  <2>2. \E f : f = Fn(f, 0)
    BY <2>1
  <2> QED BY <1>0, <2>2
<1>2. ASSUME NEW m \in 0 .. NOFILE - 1, m \in S
      PROVE  m + 1 \in S
  <2>1. PICK f : f = Fn(f, m)
    BY <1>2
  <2> DEFINE g == [j \in 0 .. m + 1 |->
                     IF j = m + 1 THEN CloseOne(f[m], p, fds, m + 1) ELSE f[j]]
  <2>2. g = Fn(g, m + 1) /\ m + 1 \in 0 .. NOFILE
    <3>1. ASSUME NEW j \in 0 .. m + 1
          PROVE  g[j] = IF j = 0 THEN s ELSE CloseOne(g[j - 1], p, fds, j)
      <4>1. CASE j = m + 1
        BY <4>1
      <4>2. CASE j \in 0 .. m
        <5>1. f[j] = IF j = 0 THEN s ELSE CloseOne(f[j - 1], p, fds, j)
          BY <2>1, <4>2
        <5>2. g[j] = f[j] /\ (j # 0 => g[j - 1] = f[j - 1])
          BY <4>2
        <5> QED BY <5>1, <5>2
      <4> QED BY <4>1, <4>2
    <3> HIDE DEF g
    <3>2. g = [j \in 0 .. m + 1 |-> g[j]]
      BY DEF g
    <3>3. g = Fn(g, m + 1)
      BY <3>1, <3>2
    <3> QED BY <1>0, <3>3
  <2>3. \E h : h = Fn(h, m + 1)
    <3> HIDE DEF g
    <3> QED BY <2>2
  <2> QED BY <2>2, <2>3
<1>3. NOFILE \in S
  <2> HIDE DEF S
  <2>1. 0 .. NOFILE \subseteq S
    BY <1>0, <1>1, <1>2, Climb
  <2> QED BY <1>0, <2>1
<1> DEFINE at == CHOOSE f : f = Fn(f, NOFILE)
<1>4. at = Fn(at, NOFILE)
  BY <1>3
<1>5. kexit(s, p, status) = ExitResult(s, p, status, at[NOFILE])
  BY DEF kexit, ExitResult, Zombie, CloseOne
<1>6. at[0] = s /\ \A j \in 1 .. NOFILE : at[j] = CloseOne(at[j - 1], p, fds, j)
  <2> HIDE DEF at
  <2> QED BY <1>0, <1>4
<1> HIDE DEF at
<1> QED BY <1>5, <1>6

(* Descriptor d of a process is closed, and nothing else of it changes.    *)
KeptBut(q, v, d) ==
  /\ v.pid = q.pid /\ v.parent = q.parent /\ v.killed = q.killed
  /\ v.sz = q.sz /\ v.pt = q.pt /\ v.cwd = q.cwd
  /\ v.fd[d] = 0 /\ \A e \in Fds : e # d => v.fd[e] = q.fd[e]
Less(a, r, p, d) == Ready(r, p) /\ KeptBut(a.proc[p], r.proc[p], d)

(* The descriptor is free, the others are as before.                       *)
LEMMA CloseOneIs ==
  ASSUME NEW a, NEW p, Ready(a, p), NEW d \in Fds, a.proc[p].fd[d] # 0, NEW r,
         r = fileclose([a EXCEPT !.proc[p].fd[d] = 0], a.proc[p].fd[d])
  PROVE  Less(a, r, p, d)
<1>1. /\ IsProc(a.proc[p]) /\ IsK(a) /\ a.panic = "" /\ p \in Slots
      /\ Fine(a, X0, Y0, 0) /\ a.proc[p].st = "used" /\ Procs0(a.proc)
  BY ReadyIs
<1>2. PICK f : f = a.proc[p].fd[d]
  OBVIOUS
<1>3. f \in Filenums
  <2>1. f \in 0 .. NFILE /\ f # 0
    BY <1>1, <1>2 DEF IsProc
  <2> QED BY ONLY <2>1, FilesAssumption DEF Filenums
<1>4. PICK s1 : s1 = SetFd(a, p, d, 0)
  OBVIOUS
<1>5. r = fileclose(s1, f)
  BY <1>2, <1>4, SetFdIs
<1> DEFINE z == Plus(Y0, f)
<1>6. /\ z \in [Filenums -> Int] /\ z[f] = 1
      /\ \A e \in Filenums : e # f => z[e] = 0
      /\ Minus(z, f) = Y0 /\ Y0 \in [Filenums -> Int]
      /\ \A e \in Filenums : Y0[e] = 0
  BY <1>3, Y0Is
<1> HIDE DEF z
<1>7. FdStep(a, X0, Y0, 0, p, d, 0, z)
  <2>1. \A e \in Filenums : z[e] + One(0, e) = Y0[e] + One(a.proc[p].fd[d], e)
    BY <1>2, <1>3, <1>6, ZeroOne
  <2>2. 0 \in 0 .. NFILE
    BY <1>3, ZeroOne
  <2> QED BY <1>1, <1>6, <2>1, <2>2 DEF FdStep
<1>8. Fine(s1, X0, z, 0)
  BY ONLY <1>4, <1>7, FdStepFine
<1>9. SetFdResult(a, p, d, 0, s1)
  BY ONLY <1>1, <1>4, SetFdFields
<1>10. Healthy(s1, X0, z, 0, f)
  BY <1>1, <1>3, <1>6, <1>8, <1>9 DEF Healthy, SetFdResult, SameFs
<1>11. z[f] >= 1 /\ 0 \in Nat
  BY <1>6
<1>12. Done(s1, r, X0, Minus(z, f), 0)
  BY ONLY <1>5, <1>10, <1>11, FilecloseFine
<1>13. Idle(r) /\ r.panic = "" /\ r.proc = s1.proc
  BY <1>6, <1>12, IdleDone
<1>14. PICK q, v : q = a.proc[p] /\ v = PutFd(q, d, 0)
  OBVIOUS
<1>15. r.proc[p] = v
  <2>1. r.proc = Put(a.proc, p, v)
    BY <1>9, <1>13, <1>14 DEF SetFdResult
  <2>2. p \in DOMAIN a.proc
    <3>1. a.proc = [j \in Slots |-> a.proc[j]]
      BY <1>1 DEF Procs0
    <3> QED BY ONLY <1>1, <3>1
  <2> QED BY <2>1, <2>2 DEF Put
<1>16. v.st = q.st /\ KeptBut(q, v, d)
  <2>1. IsProc(q) /\ 0 \in 0 .. NFILE
    BY <1>1, <1>3, <1>14, ZeroOne
  <2>2. /\ v.st = q.st /\ v.cwd = q.cwd /\ v.sz = q.sz
        /\ v.pt = q.pt /\ v.fd[d] = 0 /\ \A e \in Fds : e # d => v.fd[e] = q.fd[e]
    BY ONLY <1>14, <2>1, d \in Fds, PutFdIs
  <2>3. v.pid = q.pid /\ v.parent = q.parent /\ v.killed = q.killed
    BY ONLY <1>14, <2>1 DEF PutFd, IsProc, ProcFields
  <2> QED BY ONLY <2>2, <2>3 DEF KeptBut
<1>17. Ready(r, p)
  BY ONLY <1>1, <1>13, <1>14, <1>15, <1>16 DEF Ready
<1> QED BY ONLY <1>14, <1>15, <1>16, <1>17 DEF Less

(* After d of them.                                                        *)
Closing(s, a, p, d) ==
  /\ Ready(a, p)
  /\ LET q == s.proc[p]
         v == a.proc[p]
     IN /\ v.pid = q.pid /\ v.parent = q.parent /\ v.killed = q.killed
        /\ v.sz = q.sz /\ v.pt = q.pt /\ v.cwd = q.cwd
        /\ \A e \in Fds : v.fd[e] = IF e < d THEN 0 ELSE q.fd[e]

(* One descriptor more is closed.                                          *)
LEMMA ClosingMore ==
  ASSUME NEW s, NEW a, NEW p, NEW j \in 1 .. NOFILE, Closing(s, a, p, j - 1),
         NEW r, r = CloseOne(a, p, s.proc[p].fd, j)
  PROVE  Closing(s, r, p, j)
<1>0. NOFILE \in Nat
  BY FilesAssumption
<1>1. PICK d : d = j - 1
  OBVIOUS
<1>2. d \in Fds /\ j = d + 1
  BY ONLY <1>0, <1>1, j \in 1 .. NOFILE DEF Fds
<1>3. PICK q, v : q = s.proc[p] /\ v = a.proc[p]
  OBVIOUS
<1>4. /\ v.pid = q.pid /\ v.parent = q.parent /\ v.killed = q.killed
      /\ v.sz = q.sz /\ v.pt = q.pt /\ v.cwd = q.cwd
      /\ \A e \in Fds : v.fd[e] = IF e < d THEN 0 ELSE q.fd[e]
  BY <1>1, <1>3 DEF Closing
<1>5. Ready(a, p)
  BY DEF Closing
<1>6. v.fd[d] = q.fd[d]
  BY ONLY <1>2, <1>4 DEF Fds
<1>7. CASE q.fd[d] = 0
  <2>1. r = a
    BY ONLY <1>1, <1>3, <1>7, r = CloseOne(a, p, s.proc[p].fd, j) DEF CloseOne
  <2>2. \A e \in Fds : v.fd[e] = IF e < j THEN 0 ELSE q.fd[e]
    BY ONLY <1>2, <1>4, <1>7 DEF Fds
  <2> QED BY ONLY <1>3, <1>4, <1>5, <2>1, <2>2 DEF Closing
<1>8. CASE q.fd[d] # 0
  <2>1. r = fileclose([a EXCEPT !.proc[p].fd[d] = 0], a.proc[p].fd[d])
    BY ONLY <1>1, <1>3, <1>6, <1>8, r = CloseOne(a, p, s.proc[p].fd, j)
       DEF CloseOne
  <2>2. a.proc[p].fd[d] # 0
    BY ONLY <1>3, <1>6, <1>8
  <2>3. Less(a, r, p, d)
    BY ONLY <1>2, <1>5, <2>1, <2>2, CloseOneIs
  <2>4. PICK u : u = r.proc[p]
    OBVIOUS
  <2>5. Ready(r, p) /\ KeptBut(v, u, d)
    BY ONLY <1>3, <2>3, <2>4 DEF Less
  <2>6. /\ u.pid = v.pid /\ u.parent = v.parent /\ u.killed = v.killed
        /\ u.sz = v.sz /\ u.pt = v.pt /\ u.cwd = v.cwd
        /\ u.fd[d] = 0 /\ \A e \in Fds : e # d => u.fd[e] = v.fd[e]
    BY ONLY <2>5 DEF KeptBut
  <2>7. \A e \in Fds : u.fd[e] = IF e < j THEN 0 ELSE q.fd[e]
    BY ONLY <1>2, <1>4, <2>6 DEF Fds
  <2> QED BY ONLY <1>3, <1>4, <2>4, <2>5, <2>6, <2>7 DEF Closing
<1> QED BY <1>7, <1>8

(* All are closed, and nothing is in hand.                                 *)
LEMMA AllClosed ==
  ASSUME NEW s, NEW p, Ready(s, p), NEW at, at[0] = s,
         \A j \in 1 .. NOFILE : at[j] = CloseOne(at[j - 1], p, s.proc[p].fd, j)
  PROVE  Closing(s, at[NOFILE], p, NOFILE)
<1>0. NOFILE \in Nat
  BY FilesAssumption
<1> DEFINE S == {j \in 0 .. NOFILE : Closing(s, at[j], p, j)}
<1>1. 0 \in S
  <2>1. Closing(s, s, p, 0)
    BY DEF Closing, Fds
  <2> QED BY <1>0, <2>1
<1>2. ASSUME NEW m \in 0 .. NOFILE - 1, m \in S
      PROVE  m + 1 \in S
  <2>1. PICK j : j = m + 1
    OBVIOUS
  <2>2. j \in 1 .. NOFILE /\ j - 1 = m
    BY <1>0, <2>1
  <2>3. PICK a, r : a = at[m] /\ r = at[j]
    OBVIOUS
  <2>4. Closing(s, a, p, j - 1)
    BY <1>2, <2>2, <2>3
  <2>5. r = CloseOne(a, p, s.proc[p].fd, j)
    BY <2>2, <2>3
  <2>6. Closing(s, r, p, j)
    BY ONLY <2>2, <2>4, <2>5, ClosingMore
  <2> QED BY <2>1, <2>2, <2>3, <2>6
<1>3. 0 .. NOFILE \subseteq S
  <2> HIDE DEF S
  <2> QED BY <1>0, <1>1, <1>2, Climb
<1> QED BY <1>0, <1>3

-----------------------------------------------------------------------------
(* exit().                                                                 *)

(* Children of a process that exits get another parent.                    *)
Orphans(proc, p) ==
  [q \in Slots |->
     IF proc[q].st # "unused" /\ proc[q].parent = p
     THEN [proc[q] EXCEPT !.parent = InitProc] ELSE proc[q]]

(* A process with another parent.                                          *)
LEMMA ParentUser ==
  ASSUME NEW r, IsProc(r), NEW b, NEW q, q = [r EXCEPT !.parent = b]
  PROVE  User(r, q)
<1>1. q = [n \in ProcFields |-> q[n]]
  BY DEF IsProc
<1>2. /\ q.st = r.st /\ q.cwd = r.cwd /\ q.fd = r.fd /\ q.pt = r.pt /\ q.sz = r.sz
      /\ q.done = r.done /\ q.buf = r.buf /\ q.code = r.code
  BY DEF IsProc, ProcFields
<1>3. IsProc(q)
  BY <1>1, <1>2 DEF IsProc
<1> QED BY ONLY <1>2, <1>3 DEF User

(* A process that does not change.                                         *)
LEMMA SelfUser ==
  ASSUME NEW r, IsProc(r)
  PROVE  User(r, r)
BY DEF User

(* init is the parent of the orphans.                                      *)
LEMMA OrphansFine ==
  ASSUME NEW s, Idle(s), s.panic = "", NEW p, NEW r,
         r = SetProcs(s, Orphans(s.proc, p))
  PROVE  Idle(r)
<1>1. Fine(s, X0, Y0, 0) /\ Others(s, Y0, 0)
  BY DEF Idle, Fine
<1>2. PICK v : v = Orphans(s.proc, p)
  OBVIOUS
<1>3. v = [q \in Slots |-> v[q]]
  BY ONLY <1>2 DEF Orphans
<1>4. ASSUME NEW q \in Slots
      PROVE  User(s.proc[q], v[q])
  <2>1. PICK a, b : a = s.proc[q] /\ b = v[q]
    OBVIOUS
  <2>2. IsProc(a)
    BY <1>1, <2>1, SlotIs
  <2>3. b = [a EXCEPT !.parent = InitProc] \/ b = a
    BY ONLY <1>2, <2>1, q \in Slots DEF Orphans
  <2>4. User(a, b)
    BY ONLY <2>2, <2>3, ParentUser, SelfUser
  <2> QED BY ONLY <2>1, <2>4
<1>5. Users0(s.proc, v)
  BY ONLY <1>3, <1>4 DEF Users0
<1>6. Fine([s EXCEPT !.proc = v], X0, Y0, 0)
  BY ONLY <1>1, <1>5, UsersFine
<1> QED BY <1>2, <1>6 DEF Idle, SetProcs

(* What is left of a process that has exited.                              *)
Gone(q, z) ==
  /\ SlotOk(z) /\ z.st = "zombie" /\ z.pt = q.pt
  /\ \A d \in Fds : z.fd[d] = 0

(* A zombie is a process that refers to nothing.                           *)
LEMMA ZombieSlot ==
  ASSUME NEW q, SlotOk(q), q.st = "used", NEW v, NEW r, r = Zombie(q, v)
  PROVE  Gone(q, r)
<1>1. IsProc(q) /\ DOMAIN q.pt \subseteq 0 .. PGROUNDUP(q.sz) - 1
  BY DEF SlotOk
<1>2. PICK n : n = NoProc
  OBVIOUS
<1>3. /\ n.fd \in [Fds -> 0 .. NFILE] /\ (\A d \in Fds : n.fd[d] = 0)
      /\ n.done = 0 /\ IsSeq(n.buf) /\ n = [j \in ProcFields |-> n[j]]
  BY <1>2, NoProcIs
<1>4. r = [n EXCEPT !.st = "zombie", !.xstate = v, !.pid = q.pid,
                    !.parent = q.parent, !.killed = q.killed, !.sz = q.sz,
                    !.pt = q.pt]
  BY ONLY <1>2, r = Zombie(q, v) DEF Zombie
<1>5. /\ r = [j \in ProcFields |-> r[j]] /\ r.st = "zombie" /\ r.sz = q.sz
      /\ r.pt = q.pt /\ r.fd = n.fd /\ r.done = 0 /\ r.buf = n.buf
  BY ONLY <1>3, <1>4 DEF ProcFields
<1>6. IsProc(r)
  <2>1. q.sz \in Nat
    BY ONLY <1>1 DEF IsProc
  <2> QED BY ONLY <1>3, <1>5, <2>1 DEF IsProc
<1>7. \A d \in Fds : r.fd[d] = 0
  BY ONLY <1>3, <1>5
<1>8. SlotOk(r)
  BY ONLY <1>1, <1>5, <1>6, <1>7 DEF SlotOk
<1> QED BY ONLY <1>5, <1>7, <1>8 DEF Gone

(* Its directory is in hand.                                               *)
LEMMA InHand ==
  ASSUME NEW c \in Inums, NEW x, x = Plus(X0, c)
  PROVE  /\ x \in [Inums -> Nat]
         /\ \A i \in Inums : x[i] + One(0, i) = X0[i] + One(c, i)
<1>1. X0 \in [Inums -> Nat]
  BY ZeroInt
<1>2. /\ x \in [Inums -> Nat] /\ x[c] = X0[c] + 1
      /\ \A j \in Inums : j # c => x[j] = X0[j]
  BY ONLY <1>1, c \in Inums, x = Plus(X0, c), PlusIs
<1>3. \A i \in Inums : One(0, i) = 0
  BY FilesAssumption DEF One, Inums
<1>4. ASSUME NEW i \in Inums
      PROVE  x[i] + One(0, i) = X0[i] + One(c, i)
  <2>1. x[i] \in Nat /\ X0[i] \in Nat
    BY ONLY <1>1, <1>2, i \in Inums
  <2>2. CASE i = c
    BY ONLY <1>2, <1>3, <2>1, <2>2, i \in Inums DEF One
  <2>3. CASE i # c
    BY ONLY <1>2, <1>3, <2>1, <2>3, i \in Inums DEF One
  <2> QED BY <2>2, <2>3
<1> QED BY ONLY <1>2, <1>4

(* It takes the place of the process, whose directory is in hand.          *)
Parted(c, r) ==
  Fine(r, Plus(X0, c), Y0, 0) /\ IsK(r) /\ r.panic = "" /\ c \in Inums

(* The slot takes the zombie.                                              *)
LEMMA ZombieFine ==
  ASSUME NEW b, NEW p, Ready(b, p), \A d \in Fds : b.proc[p].fd[d] = 0, NEW z,
         Gone(b.proc[p], z), NEW r, r = SetProcs(b, Put(b.proc, p, z))
  PROVE  Parted(b.proc[p].cwd, r)
<1>1. /\ IsK(b) /\ b.panic = "" /\ p \in Slots /\ Fine(b, X0, Y0, 0)
      /\ Others(b, Y0, 0) /\ b.proc[p].st = "used" /\ b.proc[p].cwd \in Inums
  BY ReadyIs
<1>2. PICK q, c : q = b.proc[p] /\ c = q.cwd
  OBVIOUS
<1>3. SlotOk(q) /\ b.free \in Nat
  BY <1>1, <1>2, SlotIs
<1>4. /\ SlotOk(z) /\ z.st = "zombie" /\ z.pt = q.pt
      /\ \A d \in Fds : z.fd[d] = 0
  BY ONLY <1>2, Gone(b.proc[p], z) DEF Gone
<1>5. PICK w : w = Put(b.proc, p, z)
  OBVIOUS
<1>6. r = [b EXCEPT !.proc = w]
  BY <1>5 DEF SetProcs
<1>7. /\ SameFs(b, r) /\ r.proc = w /\ r.file = b.file /\ r.pipe = b.pipe
      /\ r.pages = b.pages /\ r.free = b.free /\ r.tty = b.tty
  BY ONLY <1>1, <1>6, SetProc
<1>8. Homed(b.ino, z)
  BY ONLY <1>4 DEF Homed
<1>9. /\ PagesIn(z) = PagesIn(q) /\ PagesIn(q) \in Nat
  <2>1. PICK n : n = Cardinality(DOMAIN q.pt)
    OBVIOUS
  <2>2. /\ n \in Nat
        /\ PagesIn(q) = (IF q.st = "unused" THEN 0 ELSE 2) + n
    BY ONLY <1>3, <2>1, PagesInIs
  <2>3. PagesIn(z) = (IF z.st = "unused" THEN 0 ELSE 2) + Cardinality(DOMAIN z.pt)
    BY ONLY <1>4, PagesInIs
  <2>4. PagesIn(z) = 2 + n
    BY ONLY <1>4, <2>1, <2>3
  <2>5. PagesIn(q) = 2 + n
    BY ONLY <1>1, <1>2, <2>2
  <2> QED BY ONLY <2>2, <2>4, <2>5
<1>10. \A f \in Filenums : Uses(z, f) = 0 /\ Uses(q, f) = 0
  <2>1. TAKE f \in Filenums
  <2>2. \A d \in Fds : q.fd[d] = 0
    BY <1>2
  <2> QED BY ONLY <1>4, <2>1, <2>2, NoUses
<1>11. Home(z) = 0 /\ Home(q) = c
  BY ONLY <1>1, <1>2, <1>4 DEF Home
<1>12. /\ X0 \in [Inums -> Nat] /\ Y0 \in [Filenums -> Int] /\ 0 \in Int
  BY ZeroInt
<1>13. PICK x : x = Plus(X0, c)
  OBVIOUS
<1>14. c \in Inums
  BY <1>1, <1>2
<1>15. x \in [Inums -> Nat] /\ \A i \in Inums : x[i] + One(0, i) = X0[i] + One(c, i)
  BY ONLY <1>13, <1>14, InHand
<1>16. SlotStep(b, X0, Y0, 0, p, z, x, Y0, 0, r)
  <2>1. \A i \in Inums : x[i] + One(Home(z), i) = X0[i] + One(Home(b.proc[p]), i)
    BY ONLY <1>2, <1>11, <1>15
  <2>2. \A f \in Filenums : Y0[f] + Uses(z, f) = Y0[f] + Uses(b.proc[p], f)
    BY ONLY <1>2, <1>10
  <2>3. r.free + 0 + PagesIn(z) = b.free + 0 + PagesIn(b.proc[p])
    BY ONLY <1>2, <1>7, <1>9
  <2> QED BY ONLY <1>1, <1>3, <1>4, <1>5, <1>7, <1>8, <1>12, <1>15, <2>1, <2>2,
                  <2>3 DEF SlotStep
<1>17. Fine(r, x, Y0, 0)
  BY ONLY <1>16, SlotFine
<1>18. IsK(r) /\ r.panic = ""
  BY ONLY <1>1, <1>7 DEF SameFs
<1> QED BY ONLY <1>2, <1>13, <1>14, <1>17, <1>18 DEF Parted

(* reparent() changes parents only.                                        *)
LEMMA ReparentIs ==
  ASSUME NEW s, NEW p
  PROVE  reparent(s, p) = SetProcs(s, Orphans(s.proc, p))
BY DEF reparent, SetProcs, Orphans

(* The process has left its directory.                                     *)
LEMMA LeftIs ==
  ASSUME NEW s, IsK(s), NEW v, NEW a, a = SetProcs(s, v), NEW p, NEW z, NEW r,
         r = [a EXCEPT !.proc[p] = z]
  PROVE  r = SetProcs(s, Put(v, p, z)) /\ a.proc = v
<1>1. a.proc = v
  <2>1. [s EXCEPT !.proc = v].proc = v
    BY ONLY IsK(s), SetProc
  <2> QED BY <2>1 DEF SetProcs
<1>2. r = [a EXCEPT !.proc = Put(v, p, z)]
  BY ONLY <1>1, r = [a EXCEPT !.proc[p] = z] DEF Put
<1>3. r = [s EXCEPT !.proc = Put(v, p, z)]
  BY ONLY <1>2, a = SetProcs(s, v), IsK(s) DEF SetProcs
<1> QED BY <1>1, <1>3 DEF SetProcs

(* exit() leaves nothing in hand.                                          *)
LEMMA ExitIdle ==
  ASSUME NEW s, NEW p, Ready(s, p), NEW v
  PROVE  Idle(kexit(s, p, v))
<1>1. PICK at : /\ at[0] = s
                /\ \A j \in 1 .. NOFILE :
                     at[j] = CloseOne(at[j - 1], p, s.proc[p].fd, j)
                /\ kexit(s, p, v) = ExitResult(s, p, v, at[NOFILE])
  BY ExitIs
<1>2. PICK c : c = at[NOFILE]
  OBVIOUS
<1>3. Closing(s, c, p, NOFILE)
  BY <1>1, <1>2, AllClosed
<1>4. CASE p = InitProc
  <2>1. kexit(s, p, v) = Panic(s, "init exiting")
    BY <1>1, <1>4 DEF ExitResult
  <2>2. FsOk(s, X0) /\ Idle(s) /\ X0 \in [Inums -> Nat]
    BY ReadyIs, ZeroIs DEF Ready
  <2>3. "init exiting" \in Known \ {""}
    BY DEF Known
  <2>4. FsOk(Panic(s, "init exiting"), X0) /\ Keeps(s, Panic(s, "init exiting"))
    BY ONLY <2>2, <2>3, PanicFs
  <2> QED BY <2>1, <2>2, <2>4, LiftIdle
<1>5. CASE p # InitProc
  <2>1. PICK q, z, i : q = s.proc[p] /\ z = Zombie(q, v) /\ i = q.cwd
    OBVIOUS
  <2>2. PICK s1, s2 : s1 = iput(c, i) /\ s2 = reparent(s1, p)
    OBVIOUS
  <2>3. kexit(s, p, v) = [s2 EXCEPT !.proc[p] = z]
    BY <1>1, <1>2, <1>5, <2>1, <2>2 DEF ExitResult
  <2>4. Ready(c, p) /\ IsK(c) /\ Idle(c) /\ c.panic = "" /\ p \in Slots
    BY <1>3, ReadyIs DEF Closing, Ready
  <2>5. IsK(s1) /\ s1.proc = c.proc
    BY ONLY <2>2, <2>4, IputRest
  <2>6. PICK o : o = Orphans(c.proc, p)
    OBVIOUS
  <2>7. s2 = SetProcs(s1, o)
    BY ONLY <2>2, <2>5, <2>6, ReparentIs
  <2>8. PICK r : r = [s2 EXCEPT !.proc[p] = z]
    OBVIOUS
  <2>9. PICK w : w = Put(o, p, z)
    OBVIOUS
  <2>10. r = SetProcs(s1, w)
    BY ONLY <2>5, <2>7, <2>8, <2>9, LeftIs
  <2>11. PICK a : a = SetProcs(c, w)
    OBVIOUS
  <2>12. r = iput(a, i)
    <3>1. IsK(c)
      BY <2>4
    <3>2. SetProcs(iput(c, i), w) = iput(a, i)
      BY ONLY <2>11, <3>1, IputProc
    <3> QED BY ONLY <2>2, <2>10, <3>2
  <2>13. PICK b : b = SetProcs(c, o)
    OBVIOUS
  <2>14. Idle(b)
    BY ONLY <2>4, <2>6, <2>13, OrphansFine
  <2>15. b.proc = o /\ b.panic = ""
    BY ONLY <2>4, <2>13 DEF SetProcs, IsK
  <2>16. PICK u, h : u = o[p] /\ h = c.proc[p]
    OBVIOUS
  <2>17. h.st = "used" /\ h.pt = q.pt /\ h.cwd = i /\ \A d \in Fds : h.fd[d] = 0
    <3>1. h.st = "used"
      BY <2>4, <2>16, ReadyIs
    <3>2. \A d \in Fds : d < NOFILE
      BY FilesAssumption DEF Fds
    <3> QED BY <1>3, <2>1, <2>16, <3>1, <3>2 DEF Closing
  <2>18. User(h, u)
    <3>1. IsProc(h)
      BY <2>4, <2>16, ReadyIs
    <3>2. u = [h EXCEPT !.parent = InitProc] \/ u = h
      BY ONLY <2>4, <2>6, <2>16 DEF Orphans
    <3> QED BY ONLY <3>1, <3>2, ParentUser, SelfUser
  <2>19. /\ u.st = "used" /\ u.pt = q.pt /\ u.cwd = i
         /\ \A d \in Fds : u.fd[d] = 0
    BY ONLY <2>17, <2>18 DEF User
  <2>20. SlotOk(q) /\ q.st = "used"
    <3>1. Others(s, Y0, 0) /\ p \in Slots /\ s.proc[p].st = "used"
      BY ReadyIs
    <3> QED BY ONLY <2>1, <3>1, SlotIs
  <2>21. Gone(q, z)
    BY ONLY <2>1, <2>20, ZombieSlot
  <2>22. Gone(u, z)
    BY ONLY <2>19, <2>21 DEF Gone
  <2>23. Ready(b, p)
    BY ONLY <2>4, <2>14, <2>15, <2>16, <2>19 DEF Ready
  <2>24. a = SetProcs(b, Put(b.proc, p, z))
    BY ONLY <2>4, <2>9, <2>11, <2>13, <2>15 DEF SetProcs, IsK
  <2>25. Parted(i, a)
    <3>1. u = b.proc[p]
      BY ONLY <2>15, <2>16
    <3>2. Parted(b.proc[p].cwd, a)
      <4>1. Gone(b.proc[p], z) /\ \A d \in Fds : b.proc[p].fd[d] = 0
        BY ONLY <2>19, <2>22, <3>1
      <4> QED BY ONLY <2>23, <2>24, <4>1, ZombieFine
    <3> QED BY ONLY <2>19, <3>1, <3>2
  <2>26. i \in Inums /\ Fine(a, Plus(X0, i), Y0, 0)
    BY ONLY <2>25 DEF Parted
  <2>27. Idle(r)
    BY ONLY <2>12, <2>26, PutBack
  <2> QED BY ONLY <2>3, <2>8, <2>27
<1> QED BY <1>4, <1>5

-----------------------------------------------------------------------------
(* exec(): the new image.                                                  *)

(* The memory of the program that is to be run, and what is given back.    *)
Image(s) ==
  LET new == loadseg(uvmcreate(s.free)) IN [new.mem EXCEPT !.sz = new.sz]
OldMem(s, p, m) == [Mem(s, p) EXCEPT !.free = m.free]
RunImage(old, p, m, c) ==
  [SetMem(old, p, [m EXCEPT !.free = old.free]) EXCEPT
     !.proc[p].code = c, !.proc[p].var = <<>>, !.proc[p].buf = <<>>]

(* kexec() is these parts.                                                 *)
LEMMA KexecUnfold ==
  ASSUME NEW s, NEW p, NEW ip, NEW args, NEW m, m = Image(s)
  PROVE  \/ kexec(s, p, ip, args) = [k |-> s, ok |-> FALSE]
         \/ /\ s.free # 0
            /\ kexec(s, p, ip, args) =
                 [k |-> proc_freepagetable(s, m, m.sz), ok |-> FALSE]
         \/ /\ s.free # 0
            /\ \E c : kexec(s, p, ip, args) =
                 [k |-> RunImage(proc_freepagetable(s, OldMem(s, p, m),
                                                    s.proc[p].sz), p, m, c),
                  ok |-> TRUE]
BY DEF kexec, Image, OldMem, RunImage

(* uvmalloc() gives the size asked for, the old one or none.               *)
LEMMA AllocSize ==
  ASSUME NEW m, NEW old, NEW z, NEW perm
  PROVE  uvmalloc(m, old, z, perm).sz \in {0, old, z}
BY DEF uvmalloc

(* A program's image is small.                                             *)
LEMMA LoadsegSize ==
  ASSUME NEW m
  PROVE  loadseg(m).sz \in {0, 3, 12, 18}
<1>1. PICK text : text = uvmalloc(m, 0, PGSIZE, "rx")
  OBVIOUS
<1>2. PICK data : data = uvmalloc(text.mem, PGSIZE, DataEnd * PGSIZE, "rw")
  OBVIOUS
<1>3. PICK all : all = uvmalloc(data.mem, DataEnd * PGSIZE, ImagePages * PGSIZE, "rw")
  OBVIOUS
<1>4. loadseg(m).sz = IF text.sz = 0 THEN 0 ELSE IF data.sz = 0 THEN text.sz
                      ELSE IF all.sz = 0 THEN data.sz ELSE all.sz
  BY <1>1, <1>2, <1>3 DEF loadseg
<1>5. PGSIZE = 3 /\ DataEnd * PGSIZE = 12 /\ ImagePages * PGSIZE = 18
  BY DEF PGSIZE, DataEnd, ImagePages
<1>6. text.sz \in {0, 3} /\ data.sz \in {0, 3, 12} /\ all.sz \in {0, 12, 18}
  <2>1. text.sz \in {0, 0, PGSIZE}
    BY ONLY <1>1, AllocSize
  <2>2. data.sz \in {0, PGSIZE, DataEnd * PGSIZE}
    BY ONLY <1>2, AllocSize
  <2>3. all.sz \in {0, DataEnd * PGSIZE, ImagePages * PGSIZE}
    BY ONLY <1>3, AllocSize
  <2> QED BY ONLY <1>5, <2>1, <2>2, <2>3
<1> QED BY ONLY <1>4, <1>6

(* The new image is a memory.                                              *)
LEMMA ImageIs ==
  ASSUME NEW s, s.free \in Nat, s.free # 0, NEW m, m = Image(s)
  PROVE  Own(m) /\ MemSum(m) + 1 = s.free /\ ~(PGROUNDUP(m.sz) > MAXVA)
<1>1. PICK f : f = s.free
  OBVIOUS
<1>2. f \in Nat /\ f >= 1
  BY ONLY <1>1, s.free \in Nat, s.free # 0
<1>3. PICK a : a = uvmcreate(f)
  OBVIOUS
<1>4. IsMem(a, 0) /\ a.sz = 0 /\ MemSum(a) = f - 1
  BY ONLY <1>2, <1>3, CreateMem
<1>5. PICK r : r = loadseg(a)
  OBVIOUS
<1>6. r.sz \in Nat /\ IsMem(r.mem, PGROUNDUP(r.sz)) /\ MemSum(r.mem) = MemSum(a)
  BY ONLY <1>4, <1>5, LoadsegMem
<1>7. m = [r.mem EXCEPT !.sz = r.sz]
  BY ONLY <1>1, <1>3, <1>5, m = Image(s) DEF Image
<1>8. Own(m) /\ MemSum(m) = MemSum(r.mem) /\ m.sz = r.sz
  BY ONLY <1>6, <1>7, OwnIs
<1>9. ~(PGROUNDUP(m.sz) > MAXVA)
  <2>1. m.sz \in {0, 3, 12, 18}
    BY ONLY <1>5, <1>8, LoadsegSize
  <2>2. PGROUNDUP(m.sz) <= 6
    BY ONLY <2>1 DEF PGROUNDUP, PGSIZE
  <2>3. MAXVA \in Nat /\ MAXVA >= 6
    BY MemoryAssumption, SyscallsAssumption DEF TRAPFRAME
  <2>4. PICK v : v = PGROUNDUP(m.sz)
    OBVIOUS
  <2>5. v \in Nat
    BY ONLY <2>1, <2>4 DEF PGROUNDUP, PGSIZE
  <2> QED BY ONLY <2>2, <2>3, <2>4, <2>5
<1> QED BY ONLY <1>1, <1>2, <1>4, <1>6, <1>8, <1>9

(* The process as it starts another program.                               *)
Started(q, m, c) ==
  [q EXCEPT !.sz = m.sz, !.pt = m.pt, !.code = c, !.var = <<>>, !.buf = <<>>]

RunResult(s, p, f, m, c, r) ==
  r = [s EXCEPT !.free = f, !.proc = Put(s.proc, p, Started(s.proc[p], m, c))]

(* The process with the image.                                             *)
LEMMA RunIs ==
  ASSUME NEW s, IsK(s), s.proc = [j \in Slots |-> s.proc[j]], NEW p \in Slots,
         NEW f, NEW old, old = [s EXCEPT !.free = f],
         NEW m, NEW c, NEW r, r = RunImage(old, p, m, c),
         m = [free |-> m.free, sz |-> m.sz, pt |-> m.pt]
  PROVE  RunResult(s, p, f, m, c, r)
<1>1. old.free = f /\ old.proc = s.proc
  BY ONLY IsK(s), old = [s EXCEPT !.free = f] DEF IsK
<1>2. PICK n : n = [m EXCEPT !.free = f]
  OBVIOUS
<1>3. n.free = f /\ n.sz = m.sz /\ n.pt = m.pt
  BY ONLY <1>2, m = [free |-> m.free, sz |-> m.sz, pt |-> m.pt]
<1>4. PICK a : a = SetMem(old, p, n)
  OBVIOUS
<1>5. a = [old EXCEPT !.free = f, !.proc[p].sz = m.sz, !.proc[p].pt = m.pt]
  BY ONLY <1>3, <1>4 DEF SetMem
<1>6. r = [a EXCEPT !.proc[p].code = c, !.proc[p].var = <<>>, !.proc[p].buf = <<>>]
  BY ONLY <1>1, <1>2, <1>4, r = RunImage(old, p, m, c) DEF RunImage
<1>7. a = [s EXCEPT !.free = f, !.proc = Put(s.proc, p,
             Remap(s.proc[p], m.sz, m.pt))]
  BY ONLY <1>5, IsK(s), old = [s EXCEPT !.free = f] DEF IsK, Put, Remap
<1>8. PICK w : w = Remap(s.proc[p], m.sz, m.pt)
  OBVIOUS
<1>9. a.proc = Put(s.proc, p, w) /\ p \in DOMAIN s.proc
  BY ONLY <1>7, <1>8, IsK(s), p \in Slots, s.proc = [j \in Slots |-> s.proc[j]]
     DEF IsK
<1>10. a.proc[p] = w
  BY ONLY <1>9 DEF Put
<1>11. PICK u : u = [w EXCEPT !.code = c, !.var = <<>>, !.buf = <<>>]
  OBVIOUS
<1>12. r = [a EXCEPT !.proc = Put(a.proc, p, u)]
  BY ONLY <1>6, <1>10, <1>11 DEF Put
<1>13. Put(a.proc, p, u) = Put(s.proc, p, u)
  BY ONLY <1>9 DEF Put
<1>14. u = Started(s.proc[p], m, c)
  BY ONLY <1>8, <1>11 DEF Started, Remap
<1> QED BY ONLY <1>7, <1>12, <1>13, <1>14, IsK(s) DEF IsK, RunResult

(* It starts the program.                                                  *)
LEMMA StartedIs ==
  ASSUME NEW q, SlotOk(q), q.st = "used", q.done = 0, NEW m, Own(m), NEW c, NEW r,
         r = Started(q, m, c)
  PROVE  SlotOk(r) /\ r.st = "used" /\ r.cwd = q.cwd /\ r.fd = q.fd /\ r.pt = m.pt
<1>1. IsProc(q)
  BY DEF SlotOk
<1>2. /\ q = [n \in ProcFields |-> q[n]] /\ q.fd \in [Fds -> 0 .. NFILE]
  BY ONLY <1>1 DEF IsProc
<1>3. m.sz \in Nat /\ DOMAIN m.pt \subseteq 0 .. PGROUNDUP(m.sz) - 1
  BY ONLY Own(m) DEF Own, IsMem
<1>4. /\ r = [n \in ProcFields |-> r[n]] /\ r.st = "used" /\ r.cwd = q.cwd
      /\ r.fd = q.fd /\ r.pt = m.pt /\ r.sz = m.sz /\ r.done = 0 /\ r.buf = <<>>
  BY ONLY <1>2, q.st = "used", q.done = 0, r = Started(q, m, c)
     DEF Started, ProcFields
<1>5. IsSeq(<<>>)
  BY NoUnits
<1>6. IsProc(r)
  BY ONLY <1>2, <1>3, <1>4, <1>5 DEF IsProc
<1>7. SlotOk(r)
  BY ONLY <1>3, <1>4, <1>6 DEF SlotOk
<1> QED BY ONLY <1>4, <1>7

-----------------------------------------------------------------------------
(* exec(): the new image takes the place of the old one.                   *)

(* What kexec() does to a kernel state: nothing, or another program with   *)
(* its pages for those of the old one.                                     *)
AsBefore(s, r) ==
  /\ SameFs(s, r) /\ r.file = s.file /\ r.pipe = s.pipe /\ r.pages = s.pages
  /\ r.tty = s.tty
Swapped(s, p, q, r) ==
  /\ r.proc = Put(s.proc, p, q) /\ r.free \in Nat
  /\ SlotOk(q) /\ q.st = "used" /\ q.cwd = s.proc[p].cwd /\ q.fd = s.proc[p].fd
  /\ r.free + Cardinality(DOMAIN q.pt) =
       s.free + Cardinality(DOMAIN s.proc[p].pt)
KexecResult(s, p, e) ==
  \/ ~e.ok /\ SameBut(s, e.k)
  \/ e.ok /\ AsBefore(s, e.k) /\ \E q : Swapped(s, p, q, e.k)
  \/ SameFs(Panic(s, "walk"), e.k)

(* The process may run a program: nothing of it is written half.           *)
CanRun(s, p) ==
  /\ IsK(s) /\ s.proc = [j \in Slots |-> s.proc[j]] /\ p \in Slots
  /\ SlotOk(s.proc[p]) /\ s.proc[p].st = "used" /\ s.proc[p].done = 0
  /\ s.free \in Nat

(* The pages of the old image are free, those of the new one the           *)
(* process's.                                                              *)
LEMMA SwapFine ==
  ASSUME NEW s, NEW p, CanRun(s, p), s.free # 0, NEW m, m = Image(s),
         ~(PGROUNDUP(s.proc[p].sz) > MAXVA), NEW old,
         old = proc_freepagetable(s, OldMem(s, p, m), s.proc[p].sz), NEW c,
         NEW r, r = RunImage(old, p, m, c)
  PROVE  AsBefore(s, r) /\ \E q : Swapped(s, p, q, r)
<1>1. /\ IsK(s) /\ s.proc = [j \in Slots |-> s.proc[j]] /\ p \in Slots
      /\ SlotOk(s.proc[p]) /\ s.proc[p].st = "used" /\ s.proc[p].done = 0
      /\ s.free \in Nat
  BY DEF CanRun
<1>2. Own(m) /\ MemSum(m) + 1 = s.free
  BY ONLY <1>1, s.free # 0, m = Image(s), ImageIs
<1>3. /\ m = [free |-> m.free, sz |-> m.sz, pt |-> m.pt] /\ m.free \in Nat
      /\ m.sz \in Nat /\ IsFiniteSet(DOMAIN m.pt) /\ Cardinality(DOMAIN m.pt) \in Nat
  <2>1. IsMem(m, PGROUNDUP(m.sz))
    BY ONLY <1>2 DEF Own
  <2>2. IsFiniteSet(DOMAIN m.pt) /\ Cardinality(DOMAIN m.pt) \in Nat
    BY ONLY <2>1, MemIs
  <2> QED BY ONLY <2>1, <2>2 DEF IsMem
<1>4. PICK q : q = s.proc[p]
  OBVIOUS
<1>5. /\ IsFiniteSet(DOMAIN q.pt) /\ Cardinality(DOMAIN q.pt) \in Nat
      /\ q.sz \in Nat /\ DOMAIN q.pt \subseteq 0 .. PGROUNDUP(q.sz) - 1
  <2>1. SlotOk(q) /\ IsProc(q)
    BY ONLY <1>1, <1>4 DEF SlotOk
  <2> QED BY ONLY <2>1, PagesInIs DEF SlotOk, IsProc
<1>6. PICK b : b = OldMem(s, p, m)
  OBVIOUS
<1>7. b = [free |-> m.free, sz |-> q.sz, pt |-> q.pt]
  BY ONLY <1>4, <1>6 DEF OldMem, Mem
<1>8. IsMem(b, PGROUNDUP(q.sz)) /\ MemSum(b) = m.free + Cardinality(DOMAIN q.pt)
  <2>1. q.sz \in Int
    BY ONLY <1>5
  <2>2. PGROUNDUP(q.sz) \in Nat
    BY <1>5, <2>1, RoundUpIs
  <2> QED BY ONLY <1>3, <1>5, <1>7, <2>2 DEF IsMem, MemSum
<1>9. PICK f : f = MemSum(b) + 1
  OBVIOUS
<1>10. old = [s EXCEPT !.free = f]
  <2>1. q.sz \in Nat /\ ~(PGROUNDUP(q.sz) > MAXVA)
    BY <1>4, <1>5
  <2>2. proc_freepagetable(s, b, q.sz) = [s EXCEPT !.free = MemSum(b) + 1]
    BY ONLY <1>1, <1>8, <2>1, PagetableIs
  <2> QED BY ONLY <1>4, <1>6, <1>9, <2>2,
             old = proc_freepagetable(s, OldMem(s, p, m), s.proc[p].sz)
<1>11. PICK v : v = Started(q, m, c)
  OBVIOUS
<1>12. r = [s EXCEPT !.free = f, !.proc = Put(s.proc, p, v)]
  <2>1. /\ IsK(s) /\ s.proc = [j \in Slots |-> s.proc[j]] /\ p \in Slots
        /\ m = [free |-> m.free, sz |-> m.sz, pt |-> m.pt]
    BY <1>1, <1>3
  <2>2. RunResult(s, p, f, m, c, r)
    BY ONLY <1>10, <2>1, r = RunImage(old, p, m, c), RunIs
  <2> QED BY ONLY <1>4, <1>11, <2>2 DEF RunResult
<1>13. SlotOk(v) /\ v.st = "used" /\ v.cwd = q.cwd /\ v.fd = q.fd /\ v.pt = m.pt
  BY ONLY <1>1, <1>2, <1>4, <1>11, StartedIs
<1>14. AsBefore(s, r) /\ r.proc = Put(s.proc, p, v) /\ r.free = f
  BY ONLY <1>1, <1>12 DEF IsK, SameFs, AsBefore
<1>15. f \in Nat /\ f + Cardinality(DOMAIN v.pt) = s.free + Cardinality(DOMAIN q.pt)
  <2>1. PICK x, y : x = Cardinality(DOMAIN q.pt) /\ y = Cardinality(DOMAIN m.pt)
    OBVIOUS
  <2>2. /\ x \in Nat /\ y \in Nat /\ m.free \in Nat /\ f = m.free + x + 1
        /\ m.free + y + 1 = s.free
    BY ONLY <1>2, <1>3, <1>5, <1>8, <1>9, <2>1 DEF MemSum
  <2>3. f \in Nat /\ f + y = s.free + x
    BY ONLY <1>1, <2>2
  <2>4. Cardinality(DOMAIN v.pt) = y
    BY ONLY <1>13, <2>1
  <2> QED BY ONLY <2>1, <2>3, <2>4
<1>16. Swapped(s, p, v, r)
  BY ONLY <1>4, <1>13, <1>14, <1>15 DEF Swapped
<1> QED BY ONLY <1>14, <1>16

(* A panic about the old image.                                            *)
LEMMA SwapSick ==
  ASSUME NEW s, IsK(s), NEW p, NEW m, PGROUNDUP(s.proc[p].sz) > MAXVA, NEW old,
         old = proc_freepagetable(s, OldMem(s, p, m), s.proc[p].sz), NEW c,
         NEW r, r = RunImage(old, p, m, c)
  PROVE  SameFs(Panic(s, "walk"), r)
<1>1. SameFs(Panic(s, "walk"), old)
  BY PagetableSick
<1>2. IsK(old)
  BY ONLY <1>1 DEF SameFs
<1>3. PICK n, a : n = [m EXCEPT !.free = old.free] /\ a = SetMem(old, p, n)
  OBVIOUS
<1>4. SetMemResult(old, p, n, a)
  BY ONLY <1>2, <1>3, SetMemIs
<1>5. SameFs(old, a) /\ IsK(a)
  BY ONLY <1>4 DEF SetMemResult, SameFs
<1>6. r = [a EXCEPT !.proc[p].code = c, !.proc[p].var = <<>>, !.proc[p].buf = <<>>]
  BY <1>3 DEF RunImage
<1>7. PICK v : r = [a EXCEPT !.proc = v]
  <2>1. PICK w, u : /\ w = a.proc[p]
                    /\ u = [w EXCEPT !.code = c, !.var = <<>>, !.buf = <<>>]
    OBVIOUS
  <2>2. r = [a EXCEPT !.proc = Put(a.proc, p, u)]
    BY ONLY <1>6, <2>1 DEF Put
  <2> QED BY ONLY <2>2
<1>8. SameFs(a, r)
  BY ONLY <1>5, <1>7, SetProcOf
<1> QED BY ONLY <1>1, <1>5, <1>8 DEF SameFs

(* It runs the program, returns -1 or panics.                              *)
LEMMA KexecIs ==
  ASSUME NEW s, NEW p, CanRun(s, p), NEW ip, NEW args, NEW e,
         e = kexec(s, p, ip, args)
  PROVE  KexecResult(s, p, e)
<1>1. IsK(s) /\ s.free \in Nat
  BY DEF CanRun
<1>2. PICK m : m = Image(s)
  OBVIOUS
<1>3. \/ e = [k |-> s, ok |-> FALSE]
      \/ s.free # 0 /\ e = [k |-> proc_freepagetable(s, m, m.sz), ok |-> FALSE]
      \/ /\ s.free # 0
         /\ \E c : e = [k |-> RunImage(proc_freepagetable(s, OldMem(s, p, m),
                                         s.proc[p].sz), p, m, c), ok |-> TRUE]
  BY ONLY <1>2, e = kexec(s, p, ip, args), KexecUnfold
<1>4. SameBut(s, s)
  BY ONLY <1>1 DEF SameBut, SameFs
<1>5. CASE e = [k |-> s, ok |-> FALSE]
  BY ONLY <1>4, <1>5 DEF KexecResult
<1>6. CASE s.free # 0 /\ e = [k |-> proc_freepagetable(s, m, m.sz), ok |-> FALSE]
  <2>1. Own(m) /\ MemSum(m) + 1 = s.free /\ ~(PGROUNDUP(m.sz) > MAXVA)
    BY ONLY <1>1, <1>2, <1>6, ImageIs
  <2>2. m.sz \in Nat /\ IsMem(m, PGROUNDUP(m.sz))
    BY ONLY <2>1 DEF Own, IsMem
  <2>3. e.k = [s EXCEPT !.free = s.free]
    BY ONLY <1>1, <1>6, <2>1, <2>2, PagetableIs
  <2>4. SameBut(s, e.k)
    BY ONLY <1>1, <2>3 DEF SameBut, SameFs, IsK
  <2> QED BY ONLY <1>6, <2>4 DEF KexecResult
<1>7. ASSUME s.free # 0, NEW c, NEW old,
             old = proc_freepagetable(s, OldMem(s, p, m), s.proc[p].sz),
             e = [k |-> RunImage(old, p, m, c), ok |-> TRUE]
      PROVE  KexecResult(s, p, e)
  <2>1. PICK r : r = RunImage(old, p, m, c)
    OBVIOUS
  <2>2. CASE ~(PGROUNDUP(s.proc[p].sz) > MAXVA)
    <3>1. AsBefore(s, r) /\ \E q : Swapped(s, p, q, r)
      BY ONLY CanRun(s, p), <1>2, <1>7, <2>1, <2>2, SwapFine
    <3> QED BY ONLY <1>7, <2>1, <3>1 DEF KexecResult
  <2>3. CASE PGROUNDUP(s.proc[p].sz) > MAXVA
    <3>1. SameFs(Panic(s, "walk"), r)
      BY ONLY <1>1, <1>7, <2>1, <2>3, SwapSick
    <3> QED BY ONLY <1>7, <2>1, <3>1 DEF KexecResult
  <2> QED BY ONLY <2>2, <2>3
<1> QED BY <1>3, <1>5, <1>6, <1>7

(* With pages in hand, and an inode.                                       *)
KexecGiven(s, x, y, t, p, e) ==
  t \in Nat /\ Fine(s, x, y, t) /\ p \in Slots /\ KexecResult(s, p, e)

(* kexec() leaves nothing in hand.                                         *)
LEMMA KexecFine ==
  ASSUME NEW s, NEW x, NEW y, NEW t, NEW p, NEW e, KexecGiven(s, x, y, t, p, e),
         x \in [Inums -> Nat], s.panic = "" => s.proc[p].st = "used"
  PROVE  Fine(e.k, x, y, t)
<1>1. t \in Nat /\ Fine(s, x, y, t) /\ p \in Slots /\ KexecResult(s, p, e)
  BY DEF KexecGiven
<1>2. CASE SameBut(s, e.k)
  BY ONLY <1>1, <1>2, SameFine
<1>3. ASSUME AsBefore(s, e.k), NEW q, Swapped(s, p, q, e.k)
      PROVE  Fine(e.k, x, y, t)
  <2>1. PICK r : r = e.k
    OBVIOUS
  <2>2. /\ SameFs(s, r) /\ r.file = s.file /\ r.pipe = s.pipe
        /\ r.pages = s.pages /\ r.tty = s.tty
    BY ONLY <1>3, <2>1 DEF AsBefore
  <2>3. /\ r.proc = Put(s.proc, p, q) /\ r.free \in Nat
        /\ SlotOk(q) /\ q.st = "used" /\ q.cwd = s.proc[p].cwd
        /\ q.fd = s.proc[p].fd
        /\ r.free + Cardinality(DOMAIN q.pt) =
             s.free + Cardinality(DOMAIN s.proc[p].pt)
    BY ONLY <1>3, <2>1 DEF Swapped
  <2>4. CASE s.panic # ""
    <3>1. FsOk(s, x)
      BY ONLY <1>1 DEF Fine
    <3>2. Fine(r, x, y, t)
      BY ONLY <2>2, <2>4, <3>1, x \in [Inums -> Nat], SickFine
    <3> QED BY ONLY <2>1, <3>2
  <2>5. CASE s.panic = ""
    <3>1. /\ IsProc(q) /\ DOMAIN q.pt \subseteq 0 .. PGROUNDUP(q.sz) - 1
          /\ IsFiniteSet(DOMAIN q.pt) /\ Cardinality(DOMAIN q.pt) \in Nat
      BY ONLY <2>3, PagesInIs DEF SlotOk
    <3>2. Procs0(s.proc) /\ s.free \in Nat
      BY ONLY <1>1, <2>5 DEF Fine, Others, Pages0
    <3>3. Cardinality(DOMAIN s.proc[p].pt) \in Nat
      BY ONLY <1>1, <3>2, PagesOf
    <3>4. PICK f : f = r.free
      OBVIOUS
    <3>5. f \in Nat /\ f + t + Cardinality(DOMAIN q.pt) =
                         s.free + t + Cardinality(DOMAIN s.proc[p].pt)
      BY ONLY <1>1, <2>3, <3>1, <3>2, <3>3, <3>4
    <3>6. /\ q.st = s.proc[p].st /\ s.proc[p].st # "unused"
          /\ q.cwd = s.proc[p].cwd /\ q.fd = s.proc[p].fd
      BY ONLY <2>3, <2>5, s.panic = "" => s.proc[p].st = "used"
    <3>7. Fine(r, x, y, t)
      BY ONLY <1>1, <2>2, <2>3, <2>5, <3>1, <3>4, <3>5, <3>6, ProcFine
    <3> QED BY ONLY <2>1, <3>7
  <2> QED BY <2>4, <2>5
<1>4. CASE SameFs(Panic(s, "walk"), e.k)
  <2>1. FsOk(s, x)
    BY ONLY <1>1 DEF Fine
  <2> QED BY ONLY <1>4, <2>1, x \in [Inums -> Nat], WalkSick
<1> QED BY <1>1, <1>2, <1>3, <1>4 DEF KexecResult

-----------------------------------------------------------------------------
(* exec(): the pages that hold the arguments.                              *)

TakeOut(s, t) == [s EXCEPT !.free = @ - t]
GiveBack(s, t) == [s EXCEPT !.free = @ + t]
ArgPages(s, args) ==
  LET bad == Unfit(args)
  IN Min({s.free, MAXARG, IF bad = 0 THEN Len(args) ELSE bad})
ExecResult(s, p, t, bad, f, e) ==
  IF bad THEN Return(GiveBack(TakeOut(s, t), t), p, -1)
  ELSE IF f.ip = 0 THEN Return(GiveBack(f.k, t), p, -1)
  ELSE IF e.ok THEN GiveBack(iput(e.k, f.ip), t)
  ELSE Return(GiveBack(iput(e.k, f.ip), t), p, -1)

(* ExecFetched() is these parts.                                           *)
LEMMA ExecUnfold ==
  ASSUME NEW s, NEW p, NEW i, NEW t, t = ArgPages(s, i.args), NEW f,
         f = namei(TakeOut(s, t), s.proc[p].cwd, i.path), NEW e,
         e = kexec(ilock(f.k, f.ip), p, f.ip, i.args)
  PROVE  \E bad : ExecFetched(s, p, i) = ExecResult(s, p, t, bad, f, e)
<1> DEFINE n == Len(i.args)
           bad == ~argstr(s, p, i.path) \/ t < n \/ Unfit(i.args) # 0 \/ n >= MAXARG
<1>1. ExecFetched(s, p, i) = ExecResult(s, p, t, bad, f, e)
  BY DEF ExecFetched, ExecResult, TakeOut, GiveBack, ArgPages
<1> HIDE DEF bad
<1> QED BY <1>1

(* The pages that hold arguments.                                          *)
LEMMA ArgPagesIs ==
  ASSUME NEW s, s.free \in Nat, NEW args, IsSeq(args)
  PROVE  ArgPages(s, args) \in Nat /\ ArgPages(s, args) <= s.free
<1>1. Len(args) \in Nat
  BY DEF IsSeq
<1>2. Unfit(args) \in Nat
  <2> DEFINE I == {j \in 1 .. Len(args) : args[j] \in {"BIG", "BAD", "HIGH"}}
  <2>1. Unfit(args) = IF I # {} THEN Min(I) ELSE 0
    BY DEF Unfit, SelectInSeq
  <2>2. I \in SUBSET Nat
    BY <1>1
  <2> HIDE DEF I
  <2>3. I # {} => Min(I) \in I
    BY ONLY <2>2, SmallestOf
  <2>4. PICK m : m = Min(I)
    OBVIOUS
  <2>5. m \in I => m \in Nat
    BY ONLY <2>2
  <2> QED BY ONLY <2>1, <2>3, <2>4, <2>5
<1>3. PICK n : n = IF Unfit(args) = 0 THEN Len(args) ELSE Unfit(args)
  OBVIOUS
<1>4. n \in Nat
  BY <1>1, <1>2, <1>3
<1>5. MAXARG \in Nat
  BY SyscallsAssumption
<1> DEFINE T == {s.free, MAXARG, n}
<1>6. T \in SUBSET Nat /\ T # {} /\ s.free \in T
  BY <1>4, <1>5
<1>7. ArgPages(s, args) = Min(T)
  BY <1>3 DEF ArgPages
<1> HIDE DEF T
<1>8. Min(T) \in T /\ \A j \in T : Min(T) <= j
  <2>1. \E d \in T : \A j \in T : d <= j
    BY ONLY <1>6, LeastIsIn
  <2> QED BY ONLY <2>1 DEF Min
<1>9. PICK m : m = Min(T)
  OBVIOUS
<1>10. m \in Nat /\ m <= s.free
  BY ONLY <1>6, <1>8, <1>9
<1> QED BY ONLY <1>7, <1>9, <1>10

(* Pages change hands.                                                     *)
Moves(s, x, y, t, c, u) ==
  /\ Fine(s, x, y, t) /\ x \in [Inums -> Nat]
  /\ s.panic = "" => t \in Nat /\ c \in Nat /\ u \in Nat /\ c + u = s.free + t

(* Pages go in hand or come back.                                          *)
LEMMA MovesFine ==
  ASSUME NEW s, NEW x, NEW y, NEW t, NEW c, NEW u, Moves(s, x, y, t, c, u), NEW r,
         r = [s EXCEPT !.free = c]
  PROVE  Fine(r, x, y, u)
<1>1. /\ Fine(s, x, y, t) /\ x \in [Inums -> Nat]
      /\ s.panic = "" => t \in Nat /\ c \in Nat /\ u \in Nat /\ c + u = s.free + t
  BY DEF Moves
<1>2. FsOk(s, x) /\ IsK(s)
  BY <1>1 DEF Fine, FsOk
<1>3. /\ SameFs(s, r) /\ r.proc = s.proc /\ r.file = s.file
      /\ r.pipe = s.pipe /\ r.pages = s.pages /\ r.free = c /\ r.tty = s.tty
  BY ONLY <1>2, r = [s EXCEPT !.free = c], SetFreeK
<1>4. CASE s.panic # ""
  BY ONLY <1>1, <1>2, <1>3, <1>4, SickFine
<1>5. CASE s.panic = ""
  <2>1. FsOk(r, x)
    BY ONLY <1>2, <1>3 DEF FsOk, SameFs
  <2>2. Others(s, y, t)
    BY ONLY <1>1, <1>5 DEF Fine
  <2>3. Pages0(s.free, s.proc, s.pipe, s.pages, t) /\ Pipes(s.file, s.pipe)
    BY ONLY <2>2 DEF Others
  <2>4. Pages0(c, s.proc, s.pipe, s.pages, u)
    <3>1. Cardinality(DOMAIN s.pipe) \in Nat
      BY ONLY <2>3, PageSums DEF Pipes
    <3>2. PICK a : a = Cardinality(DOMAIN s.pipe)
      OBVIOUS
    <3>3. t \in Nat /\ c \in Nat /\ u \in Nat /\ c + u = s.free + t /\ s.free \in Nat
      BY ONLY <1>1, <1>5, <2>3 DEF Pages0
    <3>4. c + u + a = s.free + t + a
      BY ONLY <3>1, <3>2, <3>3
    <3> QED BY ONLY <2>3, <3>1, <3>2, <3>3, <3>4, PagesMoved
  <2> QED BY ONLY <1>3, <2>1, <2>2, <2>4 DEF Fine, Others
<1> QED BY <1>4, <1>5

-----------------------------------------------------------------------------
(* exec().                                                                 *)

(* The inode a path leads to, locked, with pages in hand.                  *)
HandedIn(s, t, a, i, s1) ==
  /\ i \in Inums /\ Fine(s1, Plus(X0, i), Y0, t) /\ Keeps(a, s1)

(* The walk with pages in hand.                                            *)
LEMMA HandedWalk ==
  ASSUME NEW a, NEW t, Fine(a, X0, Y0, t), NEW f, Walk(a, X0, f), f.ip # 0,
         NEW s1, s1 = ilock(f.k, f.ip)
  PROVE  HandedIn(a, t, a, f.ip, s1)
<1>1. /\ f.ip \in 0 .. NINODES /\ FsOk(f.k, Hand(X0, f.ip)) /\ Keeps(a, f.k)
  BY DEF Walk
<1>2. f.ip \in Inums /\ Hand(X0, f.ip) = Plus(X0, f.ip)
  BY <1>1, InumsIs DEF Hand
<1>3. PICK i, x : i = f.ip /\ x = Plus(X0, i)
  OBVIOUS
<1>4. i \in Inums /\ FsOk(f.k, x)
  BY <1>1, <1>2, <1>3
<1>5. X0 \in [Inums -> Nat]
  BY ZeroIs
<1>6. x[i] >= 1
  BY <1>3, <1>4, <1>5, PlusIs
<1>7. FsOk(s1, x) /\ Keeps(f.k, s1)
  <2>1. s1 = ilock(f.k, i)
    BY <1>3
  <2> QED BY ONLY <1>4, <1>6, <2>1, IlockFs
<1>8. Keeps(a, s1)
  BY ONLY <1>1, <1>7, KeepsTwice
<1>9. Fine(s1, x, Y0, t)
  BY ONLY Fine(a, X0, Y0, t), <1>7, <1>8, Lift
<1> QED BY ONLY <1>3, <1>4, <1>8, <1>9 DEF HandedIn

(* They are given back at the end.                                         *)
LEMMA HandedBack ==
  ASSUME NEW s, NEW i \in Inums, NEW t, Fine(s, Plus(X0, i), Y0, t), NEW r,
         r = iput(s, i)
  PROVE  Fine(r, X0, Y0, t)
<1>1. FsOk(s, Plus(X0, i))
  BY DEF Fine
<1>2. FsOk(r, X0) /\ Keeps(s, r)
  BY <1>1, IputLast, ZeroIs
<1> QED BY ONLY Fine(s, Plus(X0, i), Y0, t), <1>2, Lift

(* A state with the pages given back is idle.                              *)
LEMMA GivenBack ==
  ASSUME NEW s, NEW t \in Nat, Fine(s, X0, Y0, t), NEW r, r = GiveBack(s, t)
  PROVE  Idle(r)
<1>1. PICK c : c = s.free + t
  OBVIOUS
<1>2. r = [s EXCEPT !.free = c]
  BY <1>1 DEF GiveBack
<1>3. PICK u \in Nat : u = 0
  BY ONLY SMT
<1>4. s.panic = "" => s.free \in Nat
  BY DEF Fine, Others, Pages0
<1>5. s.panic = "" => c \in Nat /\ c + u = s.free + t
  <2>1. ASSUME s.panic = ""
        PROVE  c \in Nat /\ c + u = s.free + t
    <3>1. s.free \in Nat
      BY <1>4, <2>1
    <3> QED BY ONLY <1>1, <1>3, <3>1, t \in Nat
  <2> QED BY ONLY <2>1
<1>6. X0 \in [Inums -> Nat]
  BY ZeroIs
<1>7. Moves(s, X0, Y0, t, c, u)
  BY ONLY <1>3, <1>5, <1>6, t \in Nat, Fine(s, X0, Y0, t) DEF Moves
<1>8. Fine(r, X0, Y0, u)
  BY ONLY <1>2, <1>7, MovesFine
<1> QED BY ONLY <1>3, <1>8 DEF Idle

(* A state with the pages taken out.                                       *)
LEMMA TakenOut ==
  ASSUME NEW s, Idle(s), s.panic = "", NEW t \in Nat, t <= s.free, NEW a,
         a = TakeOut(s, t)
  PROVE  /\ Fine(a, X0, Y0, t) /\ SameFs(s, a) /\ a.proc = s.proc
         /\ a.free \in Nat
<1>0. IsK(s) /\ s.free \in Nat /\ Fine(s, X0, Y0, 0)
  BY DEF Idle, Fine, FsOk, Others, Pages0
<1>1. PICK c : c = s.free - t
  OBVIOUS
<1>2. a = [s EXCEPT !.free = c]
  BY <1>1 DEF TakeOut
<1>3. PICK u \in Nat : u = 0
  BY ONLY SMT
<1>4. c \in Nat /\ c + t = s.free + u
  BY ONLY <1>0, <1>1, <1>3, t \in Nat, t <= s.free
<1>5. X0 \in [Inums -> Nat]
  BY ZeroIs
<1>6. Moves(s, X0, Y0, u, c, t)
  BY ONLY <1>0, <1>3, <1>4, <1>5, t \in Nat DEF Moves
<1>7. Fine(a, X0, Y0, t)
  BY ONLY <1>2, <1>6, MovesFine
<1>8. SameFs(s, a) /\ a.proc = s.proc /\ a.free = c
  BY ONLY <1>0, <1>2 DEF IsK, SameFs
<1> QED BY <1>4, <1>7, <1>8

(* It leaves nothing in hand.                                              *)
LEMMA FetchedIdle ==
  ASSUME NEW s, NEW p, Ready(s, p), NEW i, IsSeq(i.path), IsSeq(i.args),
         Head(s.proc[p].code).op # "write"
  PROVE  Idle(ExecFetched(s, p, i))
<1>1. /\ Idle(s) /\ s.panic = "" /\ p \in Slots /\ s.proc[p].st = "used"
      /\ s.proc[p].cwd \in Inums /\ IsProc(s.proc[p]) /\ s.free \in Nat
      /\ Others(s, Y0, 0)
  BY ReadyIs DEF Ready
<1>2. PICK t : t = ArgPages(s, i.args)
  OBVIOUS
<1>3. t \in Nat /\ t <= s.free
  BY ONLY <1>1, <1>2, IsSeq(i.args), ArgPagesIs
<1>4. PICK a : a = TakeOut(s, t)
  OBVIOUS
<1>5. /\ Fine(a, X0, Y0, t) /\ SameFs(s, a) /\ a.proc = s.proc /\ a.free \in Nat
  BY ONLY <1>1, <1>3, <1>4, TakenOut
<1>6. PICK f : f = namei(a, s.proc[p].cwd, i.path)
  OBVIOUS
<1>7. PICK s1 : s1 = ilock(f.k, f.ip)
  OBVIOUS
<1>8. PICK e : e = kexec(s1, p, f.ip, i.args)
  OBVIOUS
<1>9. PICK bad : ExecFetched(s, p, i) = ExecResult(s, p, t, bad, f, e)
  BY ONLY <1>2, <1>4, <1>6, <1>7, <1>8, ExecUnfold
<1>10. Walk(a, X0, f)
  <2>1. FsOk(a, X0)
    BY ONLY <1>5 DEF Fine
  <2> QED BY ONLY <1>1, <1>6, <2>1, IsSeq(i.path), NameiFs
<1>11. CASE bad
  <2>1. Idle(GiveBack(a, t))
    BY ONLY <1>3, <1>5, GivenBack
  <2>2. ExecFetched(s, p, i) = Return(GiveBack(a, t), p, -1)
    BY ONLY <1>4, <1>9, <1>11 DEF ExecResult
  <2> QED BY ONLY <1>1, <2>1, <2>2, IdleReturn
<1>12. CASE ~bad /\ f.ip = 0
  <2>1. FsOk(f.k, X0) /\ Keeps(a, f.k)
    BY ONLY <1>10, <1>12 DEF Walk, Hand
  <2>2. Fine(f.k, X0, Y0, t)
    BY ONLY <1>5, <2>1, Lift
  <2>3. Idle(GiveBack(f.k, t))
    BY ONLY <1>3, <2>2, GivenBack
  <2>4. ExecFetched(s, p, i) = Return(GiveBack(f.k, t), p, -1)
    BY ONLY <1>9, <1>12 DEF ExecResult
  <2> QED BY ONLY <1>1, <2>3, <2>4, IdleReturn
<1>13. CASE ~bad /\ f.ip # 0
  <2>1. HandedIn(a, t, a, f.ip, s1)
    BY ONLY <1>5, <1>7, <1>10, <1>13, HandedWalk
  <2>2. PICK j, x : j = f.ip /\ x = Plus(X0, j)
    OBVIOUS
  <2>3. j \in Inums /\ Fine(s1, x, Y0, t) /\ Keeps(a, s1)
    BY ONLY <2>1, <2>2 DEF HandedIn
  <2>4. s1.proc = s.proc /\ s1.free \in Nat
    BY ONLY <1>5, <2>3 DEF Keeps, Rest
  <2>5. CanRun(s1, p)
    <3>1. IsK(s1)
      BY ONLY <2>3 DEF Fine, FsOk
    <3>2. SlotOk(s.proc[p]) /\ s.proc = [v \in Slots |-> s.proc[v]]
      BY ONLY <1>1, SlotIs
    <3>3. s.proc[p].done = 0
      BY ONLY <1>1, Head(s.proc[p].code).op # "write", NoneDone
    <3> QED BY ONLY <1>1, <2>4, <3>1, <3>2, <3>3 DEF CanRun
  <2>6. KexecResult(s1, p, e)
    BY ONLY <1>8, <2>5, KexecIs
  <2>7. KexecGiven(s1, x, Y0, t, p, e)
    BY ONLY <1>1, <1>3, <2>3, <2>6 DEF KexecGiven
  <2>8. x \in [Inums -> Nat]
    <3>1. X0 \in [Inums -> Nat]
      BY ZeroIs
    <3> QED BY ONLY <2>2, <2>3, <3>1, PlusIs
  <2>9. Fine(e.k, x, Y0, t)
    <3>1. s1.proc[p].st = "used"
      BY ONLY <1>1, <2>4
    <3> QED BY ONLY <2>7, <2>8, <3>1, KexecFine
  <2>10. PICK u : u = iput(e.k, j)
    OBVIOUS
  <2>11. Fine(u, X0, Y0, t)
    <3>1. Fine(e.k, Plus(X0, j), Y0, t)
      BY ONLY <2>2, <2>9
    <3> QED BY ONLY <2>3, <2>10, <3>1, HandedBack
  <2>12. Idle(GiveBack(u, t))
    BY ONLY <1>3, <2>11, GivenBack
  <2>13. \/ ExecFetched(s, p, i) = GiveBack(u, t)
         \/ ExecFetched(s, p, i) = Return(GiveBack(u, t), p, -1)
    BY ONLY <1>9, <1>13, <2>2, <2>10 DEF ExecResult
  <2> QED BY ONLY <1>1, <2>12, <2>13, IdleReturn
<1> QED BY <1>11, <1>12, <1>13

(* exec() leaves nothing in hand.                                          *)
LEMMA ExecIdle ==
  ASSUME NEW s, NEW p, Ready(s, p), NEW i, IsSeq(i.path), IsSeq(i.args),
         Head(s.proc[p].code).op # "write"
  PROVE  Idle(sys_exec(s, p, i))
<1>1. Idle(ExecFetched(s, p, i))
  BY FetchedIdle
<1>2. Idle(Panic(s, "walk"))
  <2>1. Idle(s) /\ "walk" \in Known \ {""}
    BY DEF Ready, Known
  <2> QED BY ONLY <2>1, PanicIdle
<1> QED BY <1>1, <1>2 DEF sys_exec

-----------------------------------------------------------------------------
(* Every action is a call or leaves the tables alone.                      *)

(* The invariant, of a kernel state.                                       *)
Sound(s) ==
  s.panic \in Known /\ (s.panic = "" => Good1(s, X0, Y0, 0))

(* UnixInv, of the state k.                                                *)
LEMMA UnixInvIs == UnixInv <=> Sound(k)
BY DEF UnixInv, KnownPanics, Sound, X0, Y0

(* An idle state is sound.                                                 *)
LEMMA IdleSound ==
  ASSUME NEW s, Idle(s)
  PROVE  Sound(s)
<1>1. FsOk(s, X0) /\ (s.panic = "" => Others(s, Y0, 0))
  BY DEF Idle, Fine
<1>2. s.panic \in Known
  BY <1>1 DEF FsOk
<1>3. ASSUME s.panic = ""
      PROVE  Good1(s, X0, Y0, 0)
  BY ONLY <1>1, <1>3 DEF FsOk, Others, Good1
<1> QED BY ONLY <1>2, <1>3 DEF Sound

(* A sound one is idle.                                                    *)
LEMMA SoundIdle ==
  ASSUME NEW s, Sound(s), s.panic = ""
  PROVE  Idle(s)
<1>1. Good1(s, X0, Y0, 0)
  BY DEF Sound
<1>2. s.ref \in [Inums -> Int]
  <2>1. s.ref \in [Inums -> Nat]
    BY <1>1 DEF Good1, Refs
  <2> QED BY ONLY <2>1
<1>3. X0 \in [Inums -> Nat]
  BY ZeroIs
<1>4. FsOk(s, X0)
  BY ONLY <1>1, <1>2, <1>3 DEF Good1, FsOk, Known
<1>5. Others(s, Y0, 0)
  BY ONLY <1>1 DEF Good1, Others
<1> QED BY ONLY <1>4, <1>5 DEF Idle, Fine

(* A process that makes a call.                                            *)
Calls(s, p, i) == Ready(s, p) /\ i = Head(s.proc[p].code) /\ WellTyped(s, p, i)

(* The process that runs is ready.                                         *)
LEMMA RunsCalls ==
  ASSUME UnixInv, NEW p \in Slots, NEW op, Runs(p, op)
  PROVE  Calls(k, p, Call(p)) /\ Call(p).op = op
<1>1. /\ k.panic = "" /\ k.proc[p].st = "used" /\ Call(p).op = op
      /\ WellTyped(k, p, Call(p))
  BY DEF Runs
<1>2. Idle(k)
  BY <1>1, UnixInvIs, SoundIdle
<1>3. Ready(k, p)
  BY <1>1, <1>2 DEF Ready
<1>4. Call(p) = Head(k.proc[p].code)
  BY DEF Call
<1> QED BY ONLY <1>1, <1>3, <1>4 DEF Calls

(* The calls with an address.                                              *)
LEMMA CallsAddress ==
  ASSUME NEW s, NEW p, NEW i, Calls(s, p, i)
  PROVE  /\ i.op \in {"read", "write", "pipe", "fstat", "wait"} =>
              Address(s, p, i.addr) \in Int
         /\ i.op = "read" => i.n \in Nat
         /\ i.op = "write" => IsSeq(i.units)
         /\ i.op = "sbrk" => Grows(s, p, i) \in Int
         /\ Ready(s, p) /\ p \in Slots /\ Idle(s) /\ i = Head(s.proc[p].code)
BY DEF Calls, WellTyped, Ready

(* The calls with a path.                                                  *)
LEMMA CallsPath ==
  ASSUME NEW s, NEW p, NEW i, Calls(s, p, i)
  PROVE  /\ i.op \in {"exec", "open", "mkdir", "mknod", "link", "unlink", "chdir"}
              => IsSeq(i.path)
         /\ i.op = "link" => IsSeq(i.new)
         /\ i.op = "exec" => IsSeq(i.args)
BY DEF Calls, WellTyped

(* An open() step leads to an idle state.                                  *)
LEMMA OpenStep ==
  ASSUME UnixInv, NEW p \in Slots, OpenCall(p)
  PROVE  Idle(k')
<1>1. Runs(p, "open") /\ k' = sys_open(k, p, Call(p))
  BY DEF OpenCall, Does
<1>2. PICK i : i = Call(p)
  OBVIOUS
<1>3. Calls(k, p, i) /\ i.op = "open"
  BY <1>1, <1>2, RunsCalls
<1>4. Ready(k, p) /\ IsSeq(i.path)
  BY ONLY <1>3, CallsAddress, CallsPath
<1>5. Idle(sys_open(k, p, i))
  BY ONLY <1>4, OpenIdle
<1> QED BY ONLY <1>1, <1>2, <1>5

(* A mkdir() step leads to an idle state.                                  *)
LEMMA MkdirStep ==
  ASSUME UnixInv, NEW p \in Slots, MkdirCall(p)
  PROVE  Idle(k')
<1>1. Runs(p, "mkdir") /\ k' = sys_mkdir(k, p, Call(p))
  BY DEF MkdirCall, Does
<1>2. PICK i : i = Call(p)
  OBVIOUS
<1>3. Calls(k, p, i) /\ i.op = "mkdir"
  BY <1>1, <1>2, RunsCalls
<1>4. Ready(k, p) /\ IsSeq(i.path)
  BY ONLY <1>3, CallsAddress, CallsPath
<1>5. Idle(sys_mkdir(k, p, i))
  BY ONLY <1>4, MkdirIdle
<1> QED BY ONLY <1>1, <1>2, <1>5

(* A mknod() step leads to an idle state.                                  *)
LEMMA MknodStep ==
  ASSUME UnixInv, NEW p \in Slots, MknodCall(p)
  PROVE  Idle(k')
<1>1. Runs(p, "mknod") /\ k' = sys_mknod(k, p, Call(p))
  BY DEF MknodCall, Does
<1>2. PICK i : i = Call(p)
  OBVIOUS
<1>3. Calls(k, p, i) /\ i.op = "mknod"
  BY <1>1, <1>2, RunsCalls
<1>4. Ready(k, p) /\ IsSeq(i.path)
  BY ONLY <1>3, CallsAddress, CallsPath
<1>5. Idle(sys_mknod(k, p, i))
  BY ONLY <1>4, MknodIdle
<1> QED BY ONLY <1>1, <1>2, <1>5

(* A link() step leads to an idle state.                                   *)
LEMMA LinkStep ==
  ASSUME UnixInv, NEW p \in Slots, LinkCall(p)
  PROVE  Idle(k')
<1>1. Runs(p, "link") /\ k' = sys_link(k, p, Call(p))
  BY DEF LinkCall, Does
<1>2. PICK i : i = Call(p)
  OBVIOUS
<1>3. Calls(k, p, i) /\ i.op = "link"
  BY <1>1, <1>2, RunsCalls
<1>4. Ready(k, p) /\ IsSeq(i.path) /\ IsSeq(i.new)
  BY ONLY <1>3, CallsAddress, CallsPath
<1>5. Idle(sys_link(k, p, i))
  BY ONLY <1>4, LinkIdle
<1> QED BY ONLY <1>1, <1>2, <1>5

(* An unlink() step leads to an idle state.                                *)
LEMMA UnlinkStep ==
  ASSUME UnixInv, NEW p \in Slots, UnlinkCall(p)
  PROVE  Idle(k')
<1>1. Runs(p, "unlink") /\ k' = sys_unlink(k, p, Call(p))
  BY DEF UnlinkCall, Does
<1>2. PICK i : i = Call(p)
  OBVIOUS
<1>3. Calls(k, p, i) /\ i.op = "unlink"
  BY <1>1, <1>2, RunsCalls
<1>4. Ready(k, p) /\ IsSeq(i.path)
  BY ONLY <1>3, CallsAddress, CallsPath
<1>5. Idle(sys_unlink(k, p, i))
  BY ONLY <1>4, UnlinkIdle
<1> QED BY ONLY <1>1, <1>2, <1>5

(* A chdir() step leads to an idle state.                                  *)
LEMMA ChdirStep ==
  ASSUME UnixInv, NEW p \in Slots, ChdirCall(p)
  PROVE  Idle(k')
<1>1. Runs(p, "chdir") /\ k' = sys_chdir(k, p, Call(p))
  BY DEF ChdirCall, Does
<1>2. PICK i : i = Call(p)
  OBVIOUS
<1>3. Calls(k, p, i) /\ i.op = "chdir"
  BY <1>1, <1>2, RunsCalls
<1>4. Ready(k, p) /\ IsSeq(i.path)
  BY ONLY <1>3, CallsAddress, CallsPath
<1>5. Idle(sys_chdir(k, p, i))
  BY ONLY <1>4, ChdirIdle
<1> QED BY ONLY <1>1, <1>2, <1>5

(* A dup() step leads to an idle state.                                    *)
LEMMA DupStep ==
  ASSUME UnixInv, NEW p \in Slots, DupCall(p)
  PROVE  Idle(k')
<1>1. Runs(p, "dup") /\ k' = sys_dup(k, p, Call(p))
  BY DEF DupCall, Does
<1>2. PICK i : i = Call(p)
  OBVIOUS
<1>3. Calls(k, p, i) /\ i.op = "dup"
  BY <1>1, <1>2, RunsCalls
<1>4. Ready(k, p)
  BY ONLY <1>3, CallsAddress, CallsPath
<1>5. Idle(sys_dup(k, p, i))
  BY ONLY <1>4, DupIdle
<1> QED BY ONLY <1>1, <1>2, <1>5

(* A close() step leads to an idle state.                                  *)
LEMMA CloseStep ==
  ASSUME UnixInv, NEW p \in Slots, CloseCall(p)
  PROVE  Idle(k')
<1>1. Runs(p, "close") /\ k' = sys_close(k, p, Call(p))
  BY DEF CloseCall, Does
<1>2. PICK i : i = Call(p)
  OBVIOUS
<1>3. Calls(k, p, i) /\ i.op = "close"
  BY <1>1, <1>2, RunsCalls
<1>4. Ready(k, p)
  BY ONLY <1>3, CallsAddress, CallsPath
<1>5. Idle(sys_close(k, p, i))
  BY ONLY <1>4, CloseIdle
<1> QED BY ONLY <1>1, <1>2, <1>5

(* A pipe() step leads to an idle state.                                   *)
LEMMA PipeStep ==
  ASSUME UnixInv, NEW p \in Slots, PipeCall(p)
  PROVE  Idle(k')
<1>1. Runs(p, "pipe") /\ k' = sys_pipe(k, p, Call(p))
  BY DEF PipeCall, Does
<1>2. PICK i : i = Call(p)
  OBVIOUS
<1>3. Calls(k, p, i) /\ i.op = "pipe"
  BY <1>1, <1>2, RunsCalls
<1>4. Ready(k, p) /\ Address(k, p, i.addr) \in Int
  BY ONLY <1>3, CallsAddress, CallsPath
<1>5. Idle(sys_pipe(k, p, i))
  BY ONLY <1>4, PipeIdle
<1> QED BY ONLY <1>1, <1>2, <1>5

(* A fstat() step leads to an idle state.                                  *)
LEMMA FstatStep ==
  ASSUME UnixInv, NEW p \in Slots, FstatCall(p)
  PROVE  Idle(k')
<1>1. Runs(p, "fstat") /\ k' = sys_fstat(k, p, Call(p))
  BY DEF FstatCall, Does
<1>2. PICK i : i = Call(p)
  OBVIOUS
<1>3. Calls(k, p, i) /\ i.op = "fstat"
  BY <1>1, <1>2, RunsCalls
<1>4. Ready(k, p) /\ Address(k, p, i.addr) \in Int
  BY ONLY <1>3, CallsAddress, CallsPath
<1>5. Idle(sys_fstat(k, p, i))
  BY ONLY <1>4, FstatIdle
<1> QED BY ONLY <1>1, <1>2, <1>5

(* A sbrk() step leads to an idle state.                                   *)
LEMMA SbrkStep ==
  ASSUME UnixInv, NEW p \in Slots, SbrkCall(p)
  PROVE  Idle(k')
<1>1. Runs(p, "sbrk") /\ k' = sys_sbrk(k, p, Call(p))
  BY DEF SbrkCall, Does
<1>2. PICK i : i = Call(p)
  OBVIOUS
<1>3. Calls(k, p, i) /\ i.op = "sbrk"
  BY <1>1, <1>2, RunsCalls
<1>4. Ready(k, p) /\ Grows(k, p, i) \in Int
  BY ONLY <1>3, CallsAddress, CallsPath
<1>5. Idle(sys_sbrk(k, p, i))
  BY ONLY <1>4, SbrkIdle
<1> QED BY ONLY <1>1, <1>2, <1>5

(* An exec() step leads to an idle state.                                  *)
LEMMA ExecStep ==
  ASSUME UnixInv, NEW p \in Slots, ExecCall(p)
  PROVE  Idle(k')
<1>1. Runs(p, "exec") /\ k' = sys_exec(k, p, Call(p))
  BY DEF ExecCall, Does
<1>2. PICK i : i = Call(p)
  OBVIOUS
<1>3. Calls(k, p, i) /\ i.op = "exec"
  BY <1>1, <1>2, RunsCalls
<1>4. Ready(k, p) /\ IsSeq(i.path) /\ IsSeq(i.args)
      /\ Head(k.proc[p].code).op # "write"
  BY ONLY <1>3, CallsAddress, CallsPath
<1>5. Idle(sys_exec(k, p, i))
  BY ONLY <1>4, ExecIdle
<1> QED BY ONLY <1>1, <1>2, <1>5

(* A read() step leads to an idle state.                                   *)
LEMMA ReadStep ==
  ASSUME UnixInv, NEW p \in Slots, ReadCall(p)
  PROVE  Idle(k')
<1>1. Runs(p, "read") /\ k' = sys_read(k, p, Call(p))
  BY DEF ReadCall
<1>2. PICK i : i = Call(p)
  OBVIOUS
<1>3. Calls(k, p, i) /\ i.op = "read"
  BY <1>1, <1>2, RunsCalls
<1>4. Reads(k, p, i) /\ i.n \in Nat /\ Address(k, p, i.addr) \in Int
  BY ONLY <1>3, CallsAddress DEF Reads
<1>5. Idle(sys_read(k, p, i))
  BY ONLY <1>4, ReadIdle
<1> QED BY ONLY <1>1, <1>2, <1>5

(* A write() step leads to an idle state.                                  *)
LEMMA WriteStep ==
  ASSUME UnixInv, NEW p \in Slots, WriteCall(p)
  PROVE  Idle(k')
<1>1. Runs(p, "write") /\ k' = sys_write(k, p, Call(p))
  BY DEF WriteCall
<1>2. PICK i : i = Call(p)
  OBVIOUS
<1>3. Calls(k, p, i) /\ i.op = "write"
  BY <1>1, <1>2, RunsCalls
<1>4. Writes(k, p, i) /\ Address(k, p, i.addr) \in Int
  BY ONLY <1>3, CallsAddress DEF Writes
<1>5. Idle(sys_write(k, p, i))
  BY ONLY <1>4, WriteIdle
<1> QED BY ONLY <1>1, <1>2, <1>5

(* An exit() step leads to an idle state.                                  *)
LEMMA ExitStep ==
  ASSUME UnixInv, NEW p \in Slots, ExitCall(p)
  PROVE  Idle(k')
<1>1. Runs(p, "exit") /\ k' = kexit(k, p, Call(p).status)
  BY DEF ExitCall
<1>2. PICK i : i = Call(p)
  OBVIOUS
<1>3. Calls(k, p, i) /\ i.op = "exit"
  BY <1>1, <1>2, RunsCalls
<1>4. Ready(k, p)
  BY ONLY <1>3, CallsAddress, CallsPath
<1>5. Idle(kexit(k, p, i.status))
  BY ONLY <1>4, ExitIdle
<1> QED BY ONLY <1>1, <1>2, <1>5

(* A getpid() step leads to an idle state.                                 *)
LEMMA GetpidStep ==
  ASSUME UnixInv, NEW p \in Slots, GetpidCall(p)
  PROVE  Idle(k')
<1>1. Runs(p, "getpid") /\ k' = Return(k, p, k.proc[p].pid)
  BY DEF GetpidCall
<1>2. PICK i : i = Call(p)
  OBVIOUS
<1>3. Calls(k, p, i) /\ i.op = "getpid"
  BY <1>1, <1>2, RunsCalls
<1>4. Idle(k) /\ p \in Slots
  BY ONLY <1>3, CallsAddress, CallsPath
<1>5. Idle(Return(k, p, k.proc[p].pid))
  BY ONLY <1>4, IdleReturn
<1> QED BY ONLY <1>1, <1>2, <1>5

(* A pause() step leads to an idle state.                                  *)
LEMMA PauseStep ==
  ASSUME UnixInv, NEW p \in Slots, PauseCall(p)
  PROVE  Idle(k')
<1>1. Runs(p, "pause") /\ k' = Return(k, p, 0)
  BY DEF PauseCall
<1>2. PICK i : i = Call(p)
  OBVIOUS
<1>3. Calls(k, p, i) /\ i.op = "pause"
  BY <1>1, <1>2, RunsCalls
<1>4. Idle(k) /\ p \in Slots
  BY ONLY <1>3, CallsAddress, CallsPath
<1>5. Idle(Return(k, p, 0))
  BY ONLY <1>4, IdleReturn
<1> QED BY ONLY <1>1, <1>2, <1>5

(* A load leads to an idle state.                                          *)
LEMMA LoadStep ==
  ASSUME UnixInv, NEW p \in Slots, LoadAt(p)
  PROVE  Idle(k')
<1>1. Runs(p, "load") /\ k' = Access(k, p, Call(p), FALSE)
  BY DEF LoadAt
<1>2. PICK i : i = Call(p)
  OBVIOUS
<1>3. Calls(k, p, i) /\ i.op = "load"
  BY <1>1, <1>2, RunsCalls
<1>4. Ready(k, p)
  BY ONLY <1>3, CallsAddress, CallsPath
<1>5. Idle(Access(k, p, i, FALSE))
  BY ONLY <1>4, AccessIdle
<1> QED BY ONLY <1>1, <1>2, <1>5

(* A store leads to an idle state.                                         *)
LEMMA StoreStep ==
  ASSUME UnixInv, NEW p \in Slots, StoreAt(p)
  PROVE  Idle(k')
<1>1. Runs(p, "store") /\ k' = Access(k, p, Call(p), TRUE)
  BY DEF StoreAt
<1>2. PICK i : i = Call(p)
  OBVIOUS
<1>3. Calls(k, p, i) /\ i.op = "store"
  BY <1>1, <1>2, RunsCalls
<1>4. Ready(k, p)
  BY ONLY <1>3, CallsAddress, CallsPath
<1>5. Idle(Access(k, p, i, TRUE))
  BY ONLY <1>4, AccessIdle
<1> QED BY ONLY <1>1, <1>2, <1>5

FromFine(p, r) == p \in Slots /\ Idle(r.k)

(* What a call returned is put into the process.                           *)
LEMMA FromIdle ==
  ASSUME NEW p, NEW r, FromFine(p, r), FromRet(p, r)
  PROVE  Idle(k')
<1>1. k' = Return(r.k, p, r.ret) /\ p \in Slots /\ Idle(r.k)
  BY DEF FromRet, FromFine
<1> QED BY ONLY <1>1, IdleReturn

(* A fork() step leads to an idle state.                                   *)
LEMMA ForkStep ==
  ASSUME UnixInv, NEW p \in Slots, ForkCall(p)
  PROVE  Idle(k')
<1>1. PICK r : r = kfork(k, p, Call(p).child)
  OBVIOUS
<1>2. Runs(p, "fork") /\ FromRet(p, r)
  BY <1>1 DEF ForkCall
<1>3. PICK i : i = Call(p)
  OBVIOUS
<1>4. Calls(k, p, i) /\ i.op = "fork"
  BY <1>2, <1>3, RunsCalls
<1>5. Ready(k, p) /\ Head(k.proc[p].code).op # "write"
  BY ONLY <1>4, CallsAddress
<1>6. Idle(r.k)
  BY ONLY <1>1, <1>5, ForkIdle
<1>7. FromFine(p, r)
  BY <1>6 DEF FromFine
<1> QED BY ONLY <1>2, <1>7, FromIdle

(* A wait() step leads to an idle state.                                   *)
LEMMA WaitStep ==
  ASSUME UnixInv, NEW p \in Slots, WaitCall(p)
  PROVE  Idle(k')
<1>1. PICK r : r = kwait(k, p, Call(p))
  OBVIOUS
<1>2. /\ Runs(p, "wait") /\ FromRet(p, r)
      /\ Children(k, p) = {} \/ Zombies(k, p) # {}
  BY <1>1 DEF WaitCall
<1>3. PICK i : i = Call(p)
  OBVIOUS
<1>4. Calls(k, p, i) /\ i.op = "wait"
  BY <1>2, <1>3, RunsCalls
<1>5. Ready(k, p) /\ Address(k, p, i.addr) \in Int
  BY ONLY <1>4, CallsAddress
<1>6. Idle(r.k)
  BY ONLY <1>1, <1>2, <1>3, <1>5, WaitIdle
<1>7. FromFine(p, r)
  BY <1>6 DEF FromFine
<1> QED BY ONLY <1>2, <1>7, FromIdle

(* A kill() step leads to an idle state.                                   *)
LEMMA KillStep ==
  ASSUME UnixInv, NEW p \in Slots, KillCall(p)
  PROVE  Idle(k')
<1>1. PICK r : r = kkill(k, Value(k, p, Call(p).pid))
  OBVIOUS
<1>2. Runs(p, "kill") /\ FromRet(p, r)
  BY <1>1 DEF KillCall
<1>3. PICK i : i = Call(p)
  OBVIOUS
<1>4. Calls(k, p, i)
  BY <1>2, <1>3, RunsCalls
<1>5. Idle(k) /\ k.panic = ""
  BY <1>2, <1>4, CallsAddress DEF Runs
<1>6. Idle(r.k)
  BY ONLY <1>1, <1>5, KkillIdle
<1>7. FromFine(p, r)
  BY <1>6 DEF FromFine
<1> QED BY ONLY <1>2, <1>7, FromIdle

(* A comparison leads to an idle state.                                    *)
LEMMA CompareStep ==
  ASSUME UnixInv, NEW p \in Slots, Compare(p)
  PROVE  Idle(k')
<1>1. Runs(p, "compare") /\ \E n : k' = Return(k, p, n)
  BY DEF Compare
<1>2. PICK n : k' = Return(k, p, n)
  BY <1>1
<1>3. Calls(k, p, Call(p))
  BY <1>1, RunsCalls
<1>4. Idle(k) /\ p \in Slots
  BY ONLY <1>3, CallsAddress
<1> QED BY ONLY <1>2, <1>4, IdleReturn

(* A step that only changes what is run next leads to an idle state.       *)
LEMMA CodeStep ==
  ASSUME UnixInv, NEW p \in Slots, Choose(p) \/ ContinueAs(p)
  PROVE  Idle(k')
<1>1. /\ Runs(p, "either") \/ Runs(p, "continue")
      /\ \E c : k' = [k EXCEPT !.proc[p].code = c]
  BY DEF Choose, ContinueAs
<1>2. PICK c : k' = [k EXCEPT !.proc[p].code = c]
  BY <1>1
<1>3. PICK i : i = Call(p)
  OBVIOUS
<1>4. Calls(k, p, i) /\ i.op # "write"
  BY <1>1, <1>3, RunsCalls
<1>5. Ready(k, p) /\ Head(k.proc[p].code).op # "write"
  BY ONLY <1>4, CallsAddress
<1> QED BY ONLY <1>2, <1>5, CodeIdle

(* A step of a process that has been killed leads to an idle state.        *)
LEMMA KilledStep ==
  ASSUME UnixInv, NEW p \in Slots, Killed(p)
  PROVE  Idle(k')
<1>1. /\ k.panic = "" /\ k.proc[p].st = "used" /\ k' = kexit(k, p, -1)
  BY DEF Killed
<1>2. Idle(k)
  BY <1>1, UnixInvIs, SoundIdle
<1>3. Ready(k, p)
  BY <1>1, <1>2 DEF Ready
<1> QED BY ONLY <1>1, <1>3, ExitIdle

(* Every step leads to an idle state.                                      *)
LEMMA StepIdle ==
  ASSUME UnixInv, NEW p \in Slots, Step(p)
  PROVE  Idle(k')
BY ForkStep, ExitStep, WaitStep, KillStep, ExecStep, OpenStep, MkdirStep,
   MknodStep, LinkStep, UnlinkStep, ChdirStep, DupStep, CloseStep, PipeStep,
   FstatStep, ReadStep, WriteStep, SbrkStep, GetpidStep, PauseStep, LoadStep,
   StoreStep, CompareStep, CodeStep, KilledStep DEF Step

(* UnixInv is inductive.                                                   *)
LEMMA NextUnixInv ==
  ASSUME UnixInv, [Next]_k
  PROVE  UnixInv'
<1>1. CASE \E p \in Slots : Step(p)
  <2>1. Idle(k')
    BY <1>1, StepIdle
  <2>2. Sound(k')
    BY ONLY <2>1, IdleSound
  <2> QED BY <2>2 DEF UnixInv, KnownPanics, Sound, X0, Y0
<1>2. CASE Finished \/ Halted \/ UNCHANGED k
  <2>1. k' = k
    BY <1>2 DEF Finished, Halted
  <2> QED BY ONLY <2>1, UnixInv DEF UnixInv, KnownPanics
<1> QED BY <1>1, <1>2 DEF Next

-----------------------------------------------------------------------------
(* mkfs: the disk at first.                                                *)

(* The disk as mkfs makes it.                                              *)
Named(c) == \A j \in 1 .. Len(c) : c[j][2] \in 0 .. NINODES
RootOf(names) ==
  <<Entry(".", ROOTINO), Entry("..", ROOTINO)>> \o
  [j \in DOMAIN names |-> Entry(names[j], ROOTINO + j)]
PaddedTo(root, room) == root \o [j \in 1 .. room - Len(root) |-> FreeEntry]
MadeInode(type, data) ==
  [FreeInode EXCEPT !.type = type, !.nlink = 1, !.data = data,
                    !.nblk = BlocksOf(Len(data)),
                    !.ind = BlocksOf(Len(data)) > NDIRECT]
Text(name) ==
  IF name = "README" THEN <<"read", "\n", "me", "\n">> ELSE <<"ELF", name>>
Formatted(names, room) ==
  [i \in Inums |->
     IF i = ROOTINO THEN MadeInode("dir", PaddedTo(RootOf(names), room))
     ELSE IF i - ROOTINO \in DOMAIN names
     THEN MadeInode("file", Text(names[i - ROOTINO])) ELSE FreeInode]

(* mkfs is these parts.                                                    *)
LEMMA MkfsUnfold ==
  ASSUME NEW files, NEW names, names = Names0 \o files
  PROVE  mkfs(files) =
           Formatted(names, (Len(RootOf(names)) \div BSIZE + 1) * BSIZE)
BY DEF mkfs, Formatted, RootOf, PaddedTo, MadeInode, Text, Inums

(* Names of two sequences.                                                 *)
LEMMA NamedJoin ==
  ASSUME NEW c, IsSeq(c), Named(c), NEW d, IsSeq(d), Named(d)
  PROVE  IsSeq(c \o d) /\ Named(c \o d)
<1>1. PICK e : e = c \o d
  OBVIOUS
<1>2. IsSeq(e) /\ Len(e) = Len(c) + Len(d)
  BY <1>1, JoinedIs
<1>3. Len(c) \in Nat /\ Len(d) \in Nat
  BY SeqIs
<1>4. ASSUME NEW j \in 1 .. Len(e)
      PROVE  e[j][2] \in 0 .. NINODES
  <2>1. j \in 1 .. Len(c) + Len(d)
    BY <1>2
  <2>2. c \in Seq(ToSet(c)) /\ d \in Seq(ToSet(d))
    BY DEF IsSeq
  <2>3. e[j] = IF j <= Len(c) THEN c[j] ELSE d[j - Len(c)]
    BY ONLY <1>1, <2>1, <2>2
  <2>4. CASE j <= Len(c)
    <3>1. j \in 1 .. Len(c) /\ e[j] = c[j]
      BY ONLY <1>3, <2>1, <2>3, <2>4
    <3> QED BY <3>1 DEF Named
  <2>5. CASE ~(j <= Len(c))
    <3>1. j - Len(c) \in 1 .. Len(d) /\ e[j] = d[j - Len(c)]
      BY ONLY <1>3, <2>1, <2>3, <2>5
    <3> QED BY <3>1 DEF Named
  <2> QED BY <2>4, <2>5
<1> QED BY <1>1, <1>2, <1>4 DEF Named

(* Entries from a function.                                                *)
LEMMA FcnNamed ==
  ASSUME NEW n \in Nat, NEW f, f = [j \in 1 .. n |-> f[j]],
         \A j \in 1 .. n : f[j][2] \in 0 .. NINODES
  PROVE  IsSeq(f) /\ Named(f)
<1> DEFINE S == {f[j] : j \in 1 .. n}
<1>1. f \in [1 .. n -> S]
  OBVIOUS
<1> HIDE DEF S
<1>2. IsSeq(f) /\ Len(f) = n
  BY ONLY <1>1, n \in Nat, FcnIsSeq
<1> QED BY <1>2 DEF Named

(* The names of the files on the disk.                                     *)
LEMMA NamesSeq ==
  ASSUME NEW files, IsSeq(files), NEW names, names = Names0 \o files
  PROVE  IsSeq(names) /\ Len(names) \in Nat /\ DOMAIN names = 1 .. Len(names)
<1>1. IsSeq(Names0)
  <2>1. Names0 \in [1 .. 3 -> {"README", "init", "sh"}] /\ 3 \in Nat
    BY DEF Names0
  <2> QED BY ONLY <2>1, FcnIsSeq
<1>2. IsSeq(names)
  BY <1>1, JoinedIs
<1> QED BY <1>2, SeqIs

(* The entries of the root directory.                                      *)
LEMMA RootIs ==
  ASSUME NEW names, IsSeq(names), Len(names) < NINODES, NEW root,
         root = RootOf(names)
  PROVE  IsSeq(root) /\ Named(root) /\ Len(root) \in Nat
<1>1. Len(names) \in Nat /\ DOMAIN names = 1 .. Len(names)
  BY SeqIs
<1>2. NINODES \in Nat \ {0}
  BY FilesAssumption
<1>3. PICK c : c = <<Entry(".", ROOTINO), Entry("..", ROOTINO)>>
  OBVIOUS
<1>4. PICK d : d = [j \in DOMAIN names |-> Entry(names[j], ROOTINO + j)]
  OBVIOUS
<1>5. IsSeq(c) /\ Named(c)
  <2>1. 2 \in Nat /\ c = [j \in 1 .. 2 |-> c[j]]
    BY <1>3
  <2>2. \A j \in 1 .. 2 : c[j][2] \in 0 .. NINODES
    BY <1>2, <1>3 DEF Entry, ROOTINO
  <2> QED BY ONLY <2>1, <2>2, FcnNamed
<1>6. IsSeq(d) /\ Named(d)
  <2>1. d = [j \in 1 .. Len(names) |-> d[j]]
    BY <1>1, <1>4
  <2>2. \A j \in 1 .. Len(names) : d[j][2] \in 0 .. NINODES
    <3>1. TAKE j \in 1 .. Len(names)
    <3>2. d[j][2] = 1 + j
      BY <1>1, <1>4, <3>1 DEF Entry, ROOTINO
    <3> QED BY ONLY <1>1, <1>2, <3>1, <3>2, Len(names) < NINODES
  <2> QED BY ONLY <1>1, <2>1, <2>2, FcnNamed
<1>7. root = c \o d
  BY <1>3, <1>4 DEF RootOf
<1>8. IsSeq(root) /\ Named(root)
  BY ONLY <1>5, <1>6, <1>7, NamedJoin
<1> QED BY <1>8, SeqIs

(* A directory filled up to a block.                                       *)
LEMMA PaddedIs ==
  ASSUME NEW root, IsSeq(root), Named(root), Len(root) \in Nat, NEW room,
         room = (Len(root) \div BSIZE + 1) * BSIZE
  PROVE  IsSeq(PaddedTo(root, room)) /\ Named(PaddedTo(root, room))
<1>1. PICK n : n = room - Len(root)
  OBVIOUS
<1>2. n \in Nat
  <2>1. BSIZE \in Nat \ {0}
    BY FilesAssumption
  <2>2. PICK l, b, q : l = Len(root) /\ b = BSIZE /\ q = l \div b
    OBVIOUS
  <2>3. l \in Int /\ b \in Nat \ {0} /\ n = (q + 1) * b - l
    BY <1>1, <2>1, <2>2
  <2>4. q \in Int /\ l < (q + 1) * b /\ (q + 1) * b \in Int
    BY ONLY <2>2, <2>3
  <2> QED BY ONLY <2>3, <2>4
<1>3. PICK d : d = [j \in 1 .. n |-> FreeEntry]
  OBVIOUS
<1>4. \A j \in 1 .. n : d[j][2] \in 0 .. NINODES
  <2>1. NINODES \in Nat
    BY FilesAssumption
  <2>2. FreeEntry[2] = 0
    BY DEF FreeEntry, Entry
  <2>3. \A j \in 1 .. n : d[j] = FreeEntry
    BY ONLY <1>3
  <2> QED BY ONLY <2>1, <2>2, <2>3
<1>5. d = [j \in 1 .. n |-> d[j]]
  BY ONLY <1>3
<1>6. IsSeq(d) /\ Named(d)
  BY ONLY <1>2, <1>4, <1>5, FcnNamed
<1>7. PaddedTo(root, room) = root \o d
  BY <1>1, <1>3 DEF PaddedTo
<1> QED BY <1>6, <1>7, NamedJoin

(* A file that has been written.                                           *)
LEMMA WrittenIs ==
  ASSUME NEW type, type # "free", NEW data, IsSeq(data),
         type = "dir" => Named(data), NEW d, d = MadeInode(type, data)
  PROVE  InodeOk(d) /\ d.type = type
<1>1. PICK n : n = BlocksOf(Len(data))
  OBVIOUS
<1>2. n \in Nat
  <2>1. BSIZE \in Nat \ {0} /\ Len(data) \in Nat
    BY SeqIs, FilesAssumption
  <2>2. PICK l, b : l = Len(data) + BSIZE - 1 /\ b = BSIZE
    OBVIOUS
  <2>3. l \in Nat /\ b \in Nat \ {0}
    BY ONLY <2>1, <2>2
  <2>4. n = l \div b
    BY <1>1, <2>2 DEF BlocksOf
  <2>5. l \div b >= 0 /\ l \div b \in Int
    BY ONLY <2>3
  <2> QED BY ONLY <2>4, <2>5
<1>4. NDIRECT \in Nat
  BY FilesAssumption
<1>3. PICK b : b = (n > NDIRECT)
  OBVIOUS
<1>9. b \in BOOLEAN /\ (~b => n <= NDIRECT)
  <2>1. (n > NDIRECT) \in BOOLEAN
    BY ONLY <1>2, <1>4
  <2>2. b \in BOOLEAN
    BY ONLY <1>3, <2>1, Zenon
  <2>3. ~b => ~(n > NDIRECT)
    BY ONLY <1>3, Zenon
  <2>4. ~(n > NDIRECT) => n <= NDIRECT
    BY ONLY <1>2, <1>4
  <2> QED BY ONLY <2>2, <2>3, <2>4
<1>5. d = [type |-> type, nlink |-> 1, major |-> 0, data |-> data,
           nblk |-> n, ind |-> b]
  BY ONLY <1>1, <1>3, d = MadeInode(type, data) DEF MadeInode, FreeInode
<1>6. IsInode(d) /\ d.type = type /\ d.data = data /\ d.nblk = n /\ d.ind = b
  BY ONLY <1>2, <1>5, <1>9, IsSeq(data) DEF IsInode
<1>7. ~d.ind => d.nblk <= NDIRECT
  BY ONLY <1>6, <1>9
<1>8. d.type = "dir" => \A j \in 1 .. Len(d.data) : d.data[j][2] \in 0 .. NINODES
  BY ONLY <1>6, type = "dir" => Named(data) DEF Named
<1> QED BY ONLY <1>6, <1>7, <1>8, type # "free" DEF InodeOk

(* A free inode.                                                           *)
LEMMA FreeInodeOk ==
  InodeOk(FreeInode)
<1>1. IsSeq(<<>>)
  BY NoUnits
<1>2. FreeInode = [type |-> "free", nlink |-> 0, major |-> 0, data |-> <<>>,
                   nblk |-> 0, ind |-> FALSE]
  BY DEF FreeInode
<1>3. NDIRECT \in Nat
  BY FilesAssumption
<1> QED BY ONLY <1>1, <1>2, <1>3 DEF InodeOk, IsInode

(* The contents of a program.                                              *)
LEMMA TextIs ==
  ASSUME NEW name
  PROVE  IsSeq(Text(name))
<1>1. <<"read", "\n", "me", "\n">> \in [1 .. 4 -> {"read", "\n", "me"}] /\ 4 \in Nat
  OBVIOUS
<1>2. <<"ELF", name>> \in [1 .. 2 -> {"ELF", name}] /\ 2 \in Nat
  OBVIOUS
<1>3. IsSeq(<<"read", "\n", "me", "\n">>)
  BY ONLY <1>1, FcnIsSeq
<1>4. IsSeq(<<"ELF", name>>)
  BY ONLY <1>2, FcnIsSeq
<1> QED BY <1>3, <1>4 DEF Text

(* The disk it makes is right.                                             *)
LEMMA MkfsIs ==
  ASSUME NEW files, IsSeq(files), Len(Names0 \o files) < NINODES, NEW ino,
         ino = mkfs(files)
  PROVE  /\ ino = [i \in Inums |-> ino[i]] /\ \A i \in Inums : InodeOk(ino[i])
         /\ ROOTINO \in Inums /\ ino[ROOTINO].type = "dir"
<1>1. PICK names : names = Names0 \o files
  OBVIOUS
<1>2. IsSeq(names) /\ Len(names) < NINODES
  BY <1>1, NamesSeq
<1>3. PICK root : root = RootOf(names)
  OBVIOUS
<1>4. IsSeq(root) /\ Named(root) /\ Len(root) \in Nat
  BY ONLY <1>2, <1>3, RootIs
<1>5. PICK room : room = (Len(root) \div BSIZE + 1) * BSIZE
  OBVIOUS
<1>6. ino = Formatted(names, room)
  BY ONLY <1>1, <1>3, <1>5, ino = mkfs(files), MkfsUnfold
<1>7. PICK pad : pad = PaddedTo(root, room)
  OBVIOUS
<1>8. IsSeq(pad) /\ Named(pad)
  BY ONLY <1>4, <1>5, <1>7, PaddedIs
<1>9. PICK d : d = MadeInode("dir", pad)
  OBVIOUS
<1>10. InodeOk(d) /\ d.type = "dir"
  <2>1. "dir" # "free"
    OBVIOUS
  <2> QED BY ONLY <1>8, <1>9, <2>1, WrittenIs
<1>11. ino = [i \in Inums |-> ino[i]]
  BY ONLY <1>6 DEF Formatted
<1>12. ROOTINO \in Inums
  BY InumsIs
<1>13. ino[ROOTINO] = d
  BY ONLY <1>3, <1>6, <1>7, <1>9, <1>12 DEF Formatted
<1>14. ASSUME NEW i \in Inums
       PROVE  InodeOk(ino[i])
  <2>1. PICK e : e = MadeInode("file", Text(names[i - ROOTINO]))
    OBVIOUS
  <2>2. ino[i] = d \/ ino[i] = e \/ ino[i] = FreeInode
    BY ONLY <1>6, <1>12, <1>13, <2>1, i \in Inums DEF Formatted
  <2>3. InodeOk(e)
    <3>1. PICK t : t = Text(names[i - ROOTINO])
      OBVIOUS
    <3>2. IsSeq(t) /\ "file" # "free" /\ "file" # "dir"
      BY ONLY <3>1, TextIs
    <3>3. e = MadeInode("file", t)
      BY ONLY <2>1, <3>1
    <3> QED BY ONLY <3>2, <3>3, WrittenIs
  <2> QED BY ONLY <1>10, <2>2, <2>3, FreeInodeOk
<1> QED BY <1>10, <1>11, <1>12, <1>13, <1>14

-----------------------------------------------------------------------------
(* The boot: the first process.                                            *)

(* The machine once it has booted: one process, in the root directory.     *)
BootInit(pt, c) ==
  [NoProc EXCEPT !.st = "used", !.pid = 1, !.cwd = ROOTINO, !.pt = pt,
                 !.sz = ImagePages * PGSIZE, !.code = c]
BootPt ==
  [v \in 0 .. ImagePages - 1 |->
     IF v = 0 THEN "rx" ELSE IF v = DataEnd THEN "none" ELSE "rw"]
Booted(ino, q, pages, lines) ==
  [ino |-> ino,
   ref |-> [i \in 1 .. NINODES |-> IF i = ROOTINO THEN 1 ELSE 0],
   bfree |-> NBLOCKS - Blocks(ino), file |-> [f \in 1 .. NFILE |-> NoFile],
   pipe |-> <<>>, pages |-> pages, free |-> pages - ImagePages - 2,
   panic |-> "", proc |-> [p \in Slots |-> IF p = InitProc THEN q ELSE NoProc],
   nextpid |-> 2, tty |-> lines]

(* The first state is these parts.                                         *)
LEMMA BootIs ==
  ASSUME NEW b
  PROVE  Boot(b) = Booted(mkfs(b.files),
                     BootInit(BootPt, Program("init", <<"init">>)), b.pages,
                     b.lines)
BY DEF Boot, Booted, BootInit, BootPt

(* The first process.                                                      *)
LEMMA BootInitIs ==
  ASSUME NEW c, NEW q, q = BootInit(BootPt, c)
  PROVE  /\ SlotOk(q) /\ q.st = "used" /\ q.cwd = ROOTINO
         /\ DOMAIN q.pt = 0 .. 5 /\ \A d \in Fds : q.fd[d] = 0
<1>1. PICK n : n = NoProc
  OBVIOUS
<1>2. /\ n.fd \in [Fds -> 0 .. NFILE] /\ (\A d \in Fds : n.fd[d] = 0)
      /\ n.done = 0 /\ IsSeq(n.buf) /\ n = [j \in ProcFields |-> n[j]]
  BY <1>1, NoProcIs
<1>3. PICK pt : pt = BootPt
  OBVIOUS
<1>4. DOMAIN pt = 0 .. 5
  BY <1>3 DEF BootPt, ImagePages, DataEnd
<1>5. q = [n EXCEPT !.st = "used", !.pid = 1, !.cwd = ROOTINO, !.pt = pt,
                    !.sz = 18, !.code = c]
  <2>1. ImagePages * PGSIZE = 18
    BY DEF ImagePages, DataEnd, PGSIZE
  <2> QED BY ONLY <1>1, <1>3, <2>1, q = BootInit(BootPt, c) DEF BootInit
<1>6. /\ q = [j \in ProcFields |-> q[j]] /\ q.st = "used" /\ q.cwd = ROOTINO
      /\ q.pt = pt /\ q.sz = 18 /\ q.fd = n.fd /\ q.done = 0 /\ q.buf = n.buf
  BY ONLY <1>2, <1>5 DEF ProcFields
<1>7. IsProc(q)
  BY ONLY <1>2, <1>6 DEF IsProc
<1>8. DOMAIN q.pt \subseteq 0 .. PGROUNDUP(q.sz) - 1
  <2>1. PGROUNDUP(18) = 6
    BY DEF PGROUNDUP, PGSIZE
  <2> QED BY ONLY <1>4, <1>6, <2>1
<1>9. SlotOk(q)
  BY ONLY <1>6, <1>7, <1>8 DEF SlotOk
<1> QED BY ONLY <1>2, <1>4, <1>6, <1>9

(* The boot: q is the first process, the others are not used.              *)
BootProcs(proc, q) ==
  /\ proc = [p \in Slots |-> IF p = InitProc THEN q ELSE NoProc]
  /\ SlotOk(q) /\ q.st = "used" /\ q.cwd = ROOTINO /\ DOMAIN q.pt = 0 .. 5
  /\ \A d \in Fds : q.fd[d] = 0

(* The process table.                                                      *)
LEMMA BootSlots ==
  ASSUME NEW proc, NEW q, BootProcs(proc, q)
  PROVE  /\ 1 \in Slots /\ proc[1] = q /\ \A p \in Slots : p # 1 => proc[p] = NoProc
         /\ proc = [p \in Slots |-> proc[p]]
         /\ \A p \in Slots : \A d \in Fds : proc[p].fd[d] = 0
         /\ \A p \in Slots : SlotOk(proc[p])
<1>1. 1 \in Slots
  BY SyscallsAssumption DEF Slots
<1>2. proc[1] = q /\ \A p \in Slots : p # 1 => proc[p] = NoProc
  BY <1>1 DEF BootProcs, InitProc
<1>3. proc = [p \in Slots |-> proc[p]]
  BY DEF BootProcs
<1>4. SlotOk(NoProc)
  BY ONLY NoProcIs DEF SlotOk
<1>5. SlotOk(q) /\ \A d \in Fds : q.fd[d] = 0
  BY DEF BootProcs
<1>6. \A d \in Fds : NoProc.fd[d] = 0
  BY NoProcIs
<1>7. ASSUME NEW p \in Slots
      PROVE  SlotOk(proc[p]) /\ \A d \in Fds : proc[p].fd[d] = 0
  <2>1. proc[p] = q \/ proc[p] = NoProc
    BY <1>2
  <2> QED BY ONLY <1>4, <1>5, <1>6, <2>1
<1> QED BY ONLY <1>1, <1>2, <1>3, <1>7

(* It is right.                                                            *)
LEMMA BootProcs0 ==
  ASSUME NEW proc, NEW q, BootProcs(proc, q)
  PROVE  Procs0(proc)
<1>1. proc = [p \in Slots |-> proc[p]] /\ \A p \in Slots : SlotOk(proc[p])
  BY BootSlots
<1> QED BY ONLY <1>1 DEF Procs0, SlotOk

(* The root directory is the first process's.                              *)
LEMMA BootRefs ==
  ASSUME NEW proc, NEW q, BootProcs(proc, q), NEW file,
         file = [f \in Filenums |-> NoFile], NEW ref,
         ref = [i \in Inums |-> IF i = ROOTINO THEN 1 ELSE 0]
  PROVE  Refs(ref, proc, file, X0)
<1>1. /\ 1 \in Slots /\ proc[1] = q
      /\ \A p \in Slots : p # 1 => proc[p] = NoProc
  BY BootSlots
<1>2. q.st = "used" /\ q.cwd = ROOTINO
  BY DEF BootProcs
<1>3. NoProc.st = "unused"
  BY NoProcIs
<1>4. NoFile.type = "none"
  BY NoFileIs
<1>5. ASSUME NEW i \in Inums
      PROVE  ref[i] = Cardinality(Cwds(proc, i)) + Cardinality(Opened(file, i))
                      + X0[i]
  <2>1. Opened(file, i) = {}
    BY ONLY <1>4, file = [f \in Filenums |-> NoFile] DEF Opened
  <2>2. Cwds(proc, i) = IF i = ROOTINO THEN {1} ELSE {}
    BY ONLY <1>1, <1>2, <1>3 DEF Cwds
  <2>3. Cardinality({}) = 0 /\ Cardinality({1}) = 1
    BY FS_EmptySet, FS_Singleton
  <2>4. X0[i] = 0
    BY DEF X0
  <2>5. ref[i] = IF i = ROOTINO THEN 1 ELSE 0
    OBVIOUS
  <2>6. CASE i = ROOTINO
    BY ONLY <2>1, <2>2, <2>3, <2>4, <2>5, <2>6
  <2>7. CASE i # ROOTINO
    BY ONLY <2>1, <2>2, <2>3, <2>4, <2>5, <2>7
  <2> QED BY <2>6, <2>7
<1>6. ref \in [Inums -> Nat]
  OBVIOUS
<1> QED BY ONLY <1>5, <1>6 DEF Refs

(* No file is open.                                                        *)
LEMMA BootFiles ==
  ASSUME NEW proc, NEW q, BootProcs(proc, q), NEW file,
         file = [f \in Filenums |-> NoFile]
  PROVE  Files0(file, proc, Y0) /\ Pipes(file, <<>>)
<1>1. \A p \in Slots : \A d \in Fds : proc[p].fd[d] = 0
  BY BootSlots
<1>2. IsFile(NoFile) /\ NoFile.ref = 0 /\ NoFile.type = "none"
  BY NoFileIs
<1>3. ASSUME NEW f \in Filenums
      PROVE  /\ IsFile(file[f]) /\ file[f].type = "none"
             /\ file[f].ref = Cardinality(Descriptors(proc, f)) + Y0[f]
  <2>1. f # 0
    BY DEF Filenums
  <2>2. Descriptors(proc, f) = {}
    BY ONLY <1>1, <2>1 DEF Descriptors
  <2>3. Cardinality({}) = 0
    BY FS_EmptySet
  <2>4. Y0[f] = 0
    BY DEF Y0
  <2>5. file[f] = NoFile
    OBVIOUS
  <2> QED BY ONLY <1>2, <2>2, <2>3, <2>4, <2>5
<1>4. Files0(file, proc, Y0)
  BY <1>3 DEF Files0
<1>5. DOMAIN <<>> = {}
  OBVIOUS
<1>6. Pipes(file, <<>>)
  BY ONLY <1>3, <1>5 DEF Pipes
<1> QED BY ONLY <1>4, <1>6

(* The pages.                                                              *)
LEMMA BootPages ==
  ASSUME NEW proc, NEW q, BootProcs(proc, q), NEW pages \in Nat,
         pages >= ImagePages + 2
  PROVE  Pages0(pages - ImagePages - 2, proc, <<>>, pages, 0)
<1>1. /\ 1 \in Slots /\ proc[1] = q
      /\ \A p \in Slots : p # 1 => proc[p] = NoProc
  BY BootSlots
<1>2. q.st = "used" /\ DOMAIN q.pt = 0 .. 5
  BY DEF BootProcs
<1>3. NoProc.st = "unused" /\ DOMAIN NoProc.pt = {}
  BY NoProcIs
<1>4. Taken(proc) = {1}
  BY ONLY <1>1, <1>2, <1>3 DEF Taken
<1>5. Mapped(proc) = {1} \X (0 .. 5)
  <2>1. \A p \in Slots : p # 1 => {p} \X DOMAIN proc[p].pt = {}
    BY ONLY <1>1, <1>3
  <2>2. {1} \X DOMAIN proc[1].pt = {1} \X (0 .. 5)
    BY ONLY <1>1, <1>2
  <2> QED BY ONLY <1>1, <2>1, <2>2 DEF Mapped
<1>6. Cardinality({1} \X (0 .. 5)) = 6
  <2>1. IsFiniteSet(0 .. 5) /\ Cardinality(0 .. 5) = 6
    <3>1. PICK a, b \in Int : a = 0 /\ b = 5
      BY ONLY SMT
    <3>2. IsFiniteSet(a .. b) /\ Cardinality(a .. b) = IF a > b THEN 0 ELSE b - a + 1
      BY ONLY FS_Interval
    <3> QED BY ONLY <3>1, <3>2
  <2>2. IsFiniteSet({1}) /\ Cardinality({1}) = 1
    BY FS_Singleton
  <2> QED BY <2>1, <2>2, FS_Product
<1>7. Cardinality({1}) = 1 /\ Cardinality({}) = 0
  BY FS_Singleton, FS_EmptySet
<1>8. DOMAIN <<>> = {}
  OBVIOUS
<1>9. ImagePages = 6
  BY DEF ImagePages, DataEnd
<1>10. PICK f : f = pages - ImagePages - 2
  OBVIOUS
<1>11. f \in Nat /\ f + 0 + 0 + 2 * 1 + 6 = pages
  BY ONLY <1>9, <1>10, pages \in Nat, pages >= ImagePages + 2
<1>12. Pages0(f, proc, <<>>, pages, 0)
  BY ONLY <1>4, <1>5, <1>6, <1>7, <1>8, <1>11 DEF Pages0
<1> QED BY <1>10, <1>12

-----------------------------------------------------------------------------
(* The theorems.                                                           *)

(* Blocks are counted by a number.                                         *)
LEMMA BlocksNat ==
  ASSUME NEW ino, ino = [i \in Inums |-> ino[i]], \A i \in Inums : InodeOk(ino[i])
  PROVE  Blocks(ino) \in Nat
<1> DEFINE g == [i \in Inums |-> 1 .. Held(ino[i])]
<1>1. \A i \in Inums : IsFiniteSet(g[i])
  <2>1. TAKE i \in Inums
  <2>2. InodeOk(ino[i])
    OBVIOUS
  <2>3. PICK n : n = Held(ino[i])
    OBVIOUS
  <2>4. n \in Int
    BY <2>2, <2>3 DEF Held, InodeOk, IsInode
  <2>5. PICK a \in Int : a = 1
    BY ONLY SMT
  <2>6. IsFiniteSet(a .. n)
    BY ONLY <2>4, FS_Interval
  <2> QED BY <2>3, <2>5, <2>6
<1>2. IsFiniteSet(Inums)
  BY SetsFinite
<1>3. DOMAIN ino = Inums
  OBVIOUS
<1>4. Blocks(ino) = Cardinality(Pairs(Inums, g))
  BY <1>3 DEF Blocks, Pairs
<1> HIDE DEF g
<1> QED BY <1>1, <1>2, <1>4, PairsFinite

(* The first state is sound.                                               *)
LEMMA BootSound ==
  ASSUME NEW script \in Scripts
  PROVE  Sound(Boot(script))
<1>1. /\ NBLOCKS \in Nat /\ IsSeq(script.lines) /\ IsSeq(script.files)
      /\ Len(Names0 \o script.files) < NINODES
      /\ Blocks(mkfs(script.files)) <= NBLOCKS
      /\ script.pages \in Nat /\ script.pages >= ImagePages + 2
  BY ScriptsAssumption
<1>2. PICK ino, files : files = script.files /\ ino = mkfs(files)
  OBVIOUS
<1>3. /\ ino = [i \in Inums |-> ino[i]] /\ \A i \in Inums : InodeOk(ino[i])
      /\ ROOTINO \in Inums /\ ino[ROOTINO].type = "dir"
  BY ONLY <1>1, <1>2, MkfsIs
<1>4. PICK n : n = Blocks(ino)
  OBVIOUS
<1>5. n \in Nat /\ n <= NBLOCKS
  BY ONLY <1>1, <1>2, <1>3, <1>4, BlocksNat
<1>6. PICK c : c = Program("init", <<"init">>)
  OBVIOUS
<1>7. PICK q : q = BootInit(BootPt, c)
  OBVIOUS
<1>8. /\ SlotOk(q) /\ q.st = "used" /\ q.cwd = ROOTINO
      /\ DOMAIN q.pt = 0 .. 5 /\ \A d \in Fds : q.fd[d] = 0
  BY ONLY <1>7, BootInitIs
<1>9. PICK s : s = Boot(script)
  OBVIOUS
<1>10. s = Booted(ino, q, script.pages, script.lines)
  BY ONLY <1>2, <1>6, <1>7, <1>9, BootIs
<1>11. /\ IsK(s) /\ s.panic = "" /\ s.tty = script.lines /\ s.ino = ino
       /\ s.bfree = NBLOCKS - n /\ s.pipe = <<>> /\ s.pages = script.pages
       /\ s.free = s.pages - ImagePages - 2
       /\ s.ref = [i \in Inums |-> IF i = ROOTINO THEN 1 ELSE 0]
       /\ s.file = [f \in Filenums |-> NoFile]
       /\ s.proc = [p \in Slots |-> IF p = InitProc THEN q ELSE NoProc]
  BY ONLY <1>4, <1>10 DEF Booted, IsK, Inums, Filenums
<1>12. BootProcs(s.proc, q)
  BY ONLY <1>8, <1>11 DEF BootProcs
<1>13. Disk(s.ino, s.bfree)
  <2>1. s.bfree \in Nat /\ s.bfree + Blocks(ino) = NBLOCKS
    <3>1. NBLOCKS \in Nat /\ s.bfree = NBLOCKS - n /\ Blocks(ino) = n
      BY <1>1, <1>4, <1>11
    <3> QED BY ONLY <1>5, <3>1
  <2> QED BY ONLY <1>3, <1>11, <2>1 DEF Disk
<1>14. Refs(s.ref, s.proc, s.file, X0)
  BY ONLY <1>11, <1>12, BootRefs
<1>15. InUseOnly(s.ino, s.proc, s.file)
  <2>1. \A p \in Slots : s.proc[p].st = "used" => s.proc[p].cwd = ROOTINO
    <3>1. TAKE p \in Slots
    <3>2. s.proc[p] = q \/ s.proc[p] = NoProc
      BY ONLY <1>11, <3>1
    <3>3. NoProc.st = "unused"
      BY NoProcIs
    <3> QED BY ONLY <1>8, <3>2, <3>3
  <2>2. \A f \in Filenums : s.file[f].type = "none"
    <3>1. NoFile.type = "none"
      BY NoFileIs
    <3> QED BY ONLY <1>11, <3>1
  <2> QED BY ONLY <1>3, <1>11, <2>1, <2>2 DEF InUseOnly
<1>16. Files0(s.file, s.proc, Y0) /\ Pipes(s.file, s.pipe)
  BY ONLY <1>11, <1>12, BootFiles
<1>17. Pages0(s.free, s.proc, s.pipe, s.pages, 0)
  <2>1. s.pages \in Nat /\ s.pages >= ImagePages + 2
    BY ONLY <1>1, <1>11
  <2>2. Pages0(s.pages - ImagePages - 2, s.proc, <<>>, s.pages, 0)
    BY ONLY <1>12, <2>1, BootPages
  <2> QED BY ONLY <1>11, <2>2
<1>18. Procs0(s.proc)
  BY ONLY <1>12, BootProcs0
<1>19. IsSeq(s.tty)
  BY ONLY <1>1, <1>11
<1>20. Good1(s, X0, Y0, 0)
  BY ONLY <1>11, <1>13, <1>14, <1>15, <1>16, <1>17, <1>18, <1>19 DEF Good1
<1> QED BY ONLY <1>9, <1>11, <1>20 DEF Sound, Known

(* UnixInv holds at first.                                                 *)
LEMMA InitUnixInv ==
  ASSUME Init
  PROVE  UnixInv
<1>1. PICK script \in Scripts : k = Boot(script)
  BY DEF Init
<1>2. Sound(Boot(script))
  BY BootSound
<1>3. Sound(k)
  BY <1>1, <1>2
<1> QED BY <1>3, UnixInvIs

(* In every state the tables agree with one another, until the kernel      *)
(* panics.                                                                 *)
THEOREM UnixInvariant == Spec => []UnixInv
<1>1. Init => UnixInv
  BY InitUnixInv
<1>2. UnixInv /\ [Next]_k => UnixInv'
  BY NextUnixInv
<1> QED BY <1>1, <1>2, PTL DEF Spec

(* The invariant says that nothing is lost,                                *)
LEMMA InvNothingLost ==
  ASSUME UnixInv, Up
  PROVE  NothingLost
<1>1. Good1(k, X0, Y0, 0)
  BY UnixInvIs DEF Sound, Up
<1>2. /\ Pages0(k.free, k.proc, k.pipe, k.pages, 0) /\ Procs0(k.proc)
      /\ Disk(k.ino, k.bfree)
  BY <1>1 DEF Good1
<1>3. InUse = Taken(k.proc)
  BY DEF InUse, Taken
<1>4. UNION {{p} \X DOMAIN k.proc[p].pt : p \in InUse} = Mapped(k.proc)
  <2>1. \A p \in Slots : p \notin InUse => {p} \X DOMAIN k.proc[p].pt = {}
    BY ONLY <1>2 DEF InUse, Procs0
  <2> QED BY <2>1 DEF Mapped, InUse
<1>5. PICK a, b, c : /\ a = Cardinality(DOMAIN k.pipe)
                     /\ b = Cardinality(Taken(k.proc))
                     /\ c = Cardinality(Mapped(k.proc))
  OBVIOUS
<1>6. k.free + a + 2 * b + c = k.pages
  <2>1. k.free \in Nat /\ k.free + 0 + a + 2 * b + c = k.pages
    BY ONLY <1>2, <1>5 DEF Pages0
  <2> QED BY ONLY <2>1
<1>7. k.bfree + Blocks(k.ino) = NBLOCKS
  BY <1>2 DEF Disk
<1> QED BY ONLY <1>3, <1>4, <1>5, <1>6, <1>7 DEF NothingLost

(* and that the counts are right.                                          *)
LEMMA InvRefsCounted ==
  ASSUME UnixInv, Up
  PROVE  RefsCounted
<1>1. Good1(k, X0, Y0, 0)
  BY UnixInvIs DEF Sound, Up
<1>2. /\ Refs(k.ref, k.proc, k.file, X0) /\ InUseOnly(k.ino, k.proc, k.file)
      /\ Files0(k.file, k.proc, Y0) /\ Pipes(k.file, k.pipe)
  BY <1>1 DEF Good1
<1>3. ASSUME NEW f \in DOMAIN k.file
      PROVE  k.file[f].ref = Cardinality({x \in Slots \X (0 .. NOFILE - 1) :
                                            k.proc[x[1]].fd[x[2]] = f})
  <2>1. f \in Filenums
    BY <1>2 DEF Files0
  <2>2. k.file[f].ref = Cardinality(Descriptors(k.proc, f)) + Y0[f]
        /\ k.file[f].ref \in Nat
    BY <1>2, <2>1 DEF Files0, IsFile
  <2>3. Y0[f] = 0
    BY <2>1 DEF Y0
  <2>4. PICK n : n = Cardinality(Descriptors(k.proc, f))
    OBVIOUS
  <2>5. n \in Nat
    <3>1. IsFiniteSet(Slots \X Fds)
      BY SetsFinite, FS_Product
    <3>2. Descriptors(k.proc, f) \subseteq Slots \X Fds
      BY DEF Descriptors
    <3>3. IsFiniteSet(Descriptors(k.proc, f))
      BY ONLY <3>1, <3>2, FS_Subset
    <3> QED BY ONLY <2>4, <3>3, FS_CardinalityType
  <2>6. k.file[f].ref = n
    BY ONLY <2>2, <2>3, <2>4, <2>5
  <2> QED BY <2>4, <2>6 DEF Descriptors, Fds
<1>4. ASSUME NEW i \in DOMAIN k.ref
      PROVE  /\ k.ref[i] = Users(i)
             /\ k.ino[i].type = "free" => k.ref[i] = 0
  <2>1. i \in Inums
    BY <1>2 DEF Refs
  <2>2. PICK a, b : /\ a = Cardinality(Cwds(k.proc, i))
                    /\ b = Cardinality(Opened(k.file, i))
    OBVIOUS
  <2>3. k.ref[i] = a + b + X0[i] /\ X0[i] = 0
    BY <1>2, <2>1, <2>2 DEF Refs, X0
  <2>4. a \in Nat /\ b \in Nat
    <3>1. /\ Cwds(k.proc, i) \subseteq Slots
          /\ Opened(k.file, i) \subseteq Filenums
      BY DEF Cwds, Opened
    <3>2. IsFiniteSet(Cwds(k.proc, i)) /\ IsFiniteSet(Opened(k.file, i))
      BY ONLY <3>1, SetsFinite, FS_Subset
    <3> QED BY ONLY <2>2, <3>2, FS_CardinalityType
  <2>5. k.ref[i] = a + b
    BY ONLY <2>3, <2>4
  <2>6. Users(i) = a + b
    <3>1. {p \in Live : k.proc[p].cwd = i} = Cwds(k.proc, i)
      BY DEF Live, Cwds
    <3>2. DOMAIN k.file = Filenums
      BY <1>2 DEF Files0
    <3> QED BY <2>2, <3>1, <3>2 DEF Users, Opened
  <2>7. ASSUME k.ino[i].type = "free"
        PROVE  a = 0 /\ b = 0
    <3>1. Cwds(k.proc, i) = {}
      BY <1>2, <2>7 DEF InUseOnly, Cwds
    <3>2. Opened(k.file, i) = {}
      BY <1>2, <2>7 DEF InUseOnly, Opened
    <3> QED BY <2>2, <3>1, <3>2, FS_EmptySet
  <2> QED BY ONLY <2>5, <2>6, <2>7
<1>5. ASSUME NEW q \in DOMAIN k.pipe
      PROVE  /\ k.pipe[q].readopen = Ends(q, FALSE)
             /\ k.pipe[q].writeopen = Ends(q, TRUE)
  <2>1. DOMAIN k.file = Filenums
    BY <1>2 DEF Files0
  <2>2. \A w : Ends(q, w) = (EndFiles(k.file, q, w) # {})
    BY <2>1 DEF Ends, EndFiles
  <2>3. /\ k.pipe[q].readopen = (EndFiles(k.file, q, FALSE) # {})
        /\ k.pipe[q].writeopen = (EndFiles(k.file, q, TRUE) # {})
    BY <1>2 DEF Pipes
  <2> QED BY ONLY <2>2, <2>3, Zenon
<1> QED BY ONLY <1>3, <1>4, <1>5 DEF RefsCounted

(* No page and no block is lost, whichever call fails and wherever, as     *)
(* long as the kernel has not panicked: growth over the trapframe, whose   *)
(* page a later shrink frees, leads to a panic in the model.               *)
THEOREM UnixNothingLost == Spec => []NothingLost
<1>1. ASSUME UnixInv PROVE NothingLost
  <2>1. CASE Up
    BY <1>1, <2>1, InvNothingLost
  <2>2. CASE ~Up
    BY <2>2 DEF NothingLost
  <2> QED BY <2>1, <2>2
<1> QED BY <1>1, UnixInvariant, PTL

(* Nor is a count wrong.                                                   *)
THEOREM UnixRefsCounted == Spec => []RefsCounted
<1>1. ASSUME UnixInv PROVE RefsCounted
  <2>1. CASE Up
    BY <1>1, <2>1, InvRefsCounted
  <2>2. CASE ~Up
    BY <2>2 DEF RefsCounted
  <2> QED BY <2>1, <2>2
<1> QED BY <1>1, UnixInvariant, PTL

(* What programs can bring the kernel to panic about: growth beyond the    *)
(* memory of users is part of it, as nothing keeps them from it.           *)
THEOREM UnixPanics == Spec => []KnownPanics
<1>1. UnixInv => KnownPanics
  BY DEF UnixInv
<1> QED BY <1>1, UnixInvariant, PTL
=============================================================================
