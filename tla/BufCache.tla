------------------------------ MODULE BufCache ------------------------------
(***************************************************************************)
(* The buffer cache of kernel/bio.c, over the disk that BlockDevice        *)
(* promises (VirtioDisk keeps the promise), and under the callers' rule    *)
(* that a changed buffer is written, or pinned by the log, before it is    *)
(* released.                                                               *)
(*                                                                         *)
(* Each critical section of bcache.lock is one step: bget() finds or       *)
(* recycles a buffer in one, and waits for its sleep-lock, of which        *)
(* SleepLock shows what it does, in another.  A process that uses several  *)
(* buffers at once counts as several users of one.                         *)
(***************************************************************************)
EXTENDS BlockDevice, Naturals, FiniteSets

CONSTANTS
  Users,
  NoProc,
  NoBlock,     \* b->dev is 0: the buffer has never been used
  MAXPINNED    \* blocks that the log pins at most

VARIABLES
  blockno,     \* b->blockno
  valid,       \* b->valid
  refcnt,      \* b->refcnt
  lru,         \* the list, most recently used first: a numbering of Bufs
  lock,        \* b->lock: who holds the sleep-lock
  pinned,      \* buffers of the blocks in log.lh
  stage,       \* where each process is
  buf          \* the buffer it uses

cacheVars == <<blockno, valid, refcnt, lru, lock, pinned, stage, buf>>
bufVars == <<deviceVars, cacheVars>>

NBUF == Cardinality(Bufs)

Stages == {
  "idle",
  "lock",       \* bget(): has counted itself, wants the sleep-lock
  "bread",      \* bread(): has it, looks at b->valid
  "reading",    \* bread(): in virtio_disk_rw()
  "held",       \* between bread() and brelse()
  "dirty",      \* has changed the data
  "writing",    \* bwrite(): in virtio_disk_rw()
  "unpin",      \* install_trans(), after bwrite()
  "release" }   \* brelse(): has released the sleep-lock

ASSUME CacheAssumption ==
  /\ IsFiniteSet(Bufs) /\ Bufs # {} /\ IsFiniteSet(Users)
  /\ MAXPINNED \in Nat
  /\ NoBlock \notin Blocks /\ NoProc \notin Users

CacheTypeOK ==
  /\ blockno \in [Bufs -> Blocks \cup {NoBlock}]
  /\ valid \in [Bufs -> BOOLEAN]
  /\ refcnt \in [Bufs -> Nat]
  /\ lru \in [1 .. NBUF -> Bufs]
  /\ lock \in [Bufs -> Users \cup {NoProc}]
  /\ pinned \subseteq Bufs
  /\ stage \in [Users -> Stages]
  /\ buf \in [Users -> Bufs]

(* binit() *)
CacheInit ==
  /\ DeviceInit
  /\ blockno = [b \in Bufs |-> NoBlock]
  /\ valid = [b \in Bufs |-> FALSE]
  /\ refcnt = [b \in Bufs |-> 0]
  /\ lru \in [1 .. NBUF -> Bufs] /\ \A b \in Bufs : \E i \in 1 .. NBUF : lru[i] = b
  /\ lock = [b \in Bufs |-> NoProc]
  /\ pinned = {}
  /\ stage = [p \in Users |-> "idle"]
  /\ buf = [p \in Users |-> lru[1]]

-----------------------------------------------------------------------------
Enter(p, there) == stage' = [stage EXCEPT ![p] = there]

Cached(n) == \E b \in Bufs : blockno[b] = n

(* bget(): the block has a buffer. *)
Find(p, n) ==
  /\ stage[p] = "idle"
  /\ \E b \in Bufs :
       /\ blockno[b] = n
       /\ refcnt' = [refcnt EXCEPT ![b] = @ + 1]
       /\ buf' = [buf EXCEPT ![p] = b]
  /\ Enter(p, "lock")
  /\ UNCHANGED <<deviceVars, blockno, valid, lru, lock, pinned>>

(* Mutant: the search was an earlier critical section. *)
RecycleBlindly(p, n) ==
  /\ stage[p] = "idle"
  /\ \E i \in 1 .. NBUF :
       LET b == lru[i] IN
       /\ refcnt[b] = 0
       /\ \A j \in i + 1 .. NBUF : refcnt[lru[j]] # 0
       /\ blockno' = [blockno EXCEPT ![b] = n]
       /\ valid' = [valid EXCEPT ![b] = FALSE]
       /\ refcnt' = [refcnt EXCEPT ![b] = 1]
       /\ buf' = [buf EXCEPT ![p] = b]
  /\ Enter(p, "lock")
  /\ UNCHANGED <<deviceVars, lru, lock, pinned>>

(* Mutant: b->valid = 0 is missing. *)
RecycleStillValid(p, n) ==
  /\ stage[p] = "idle"
  /\ ~Cached(n)
  /\ \E i \in 1 .. NBUF :
       LET b == lru[i] IN
       /\ refcnt[b] = 0
       /\ \A j \in i + 1 .. NBUF : refcnt[lru[j]] # 0
       /\ blockno' = [blockno EXCEPT ![b] = n]
       /\ refcnt' = [refcnt EXCEPT ![b] = 1]
       /\ buf' = [buf EXCEPT ![p] = b]
  /\ Enter(p, "lock")
  /\ UNCHANGED <<deviceVars, valid, lru, lock, pinned>>

(* bget(): it has none; recycle the least recently used unused one. *)
Recycle(p, n) ==
  /\ stage[p] = "idle"
  /\ ~Cached(n)
  /\ \E i \in 1 .. NBUF :
       LET b == lru[i] IN
       /\ refcnt[b] = 0
       /\ \A j \in i + 1 .. NBUF : refcnt[lru[j]] # 0
       /\ blockno' = [blockno EXCEPT ![b] = n]
       /\ valid' = [valid EXCEPT ![b] = FALSE]
       /\ refcnt' = [refcnt EXCEPT ![b] = 1]
       /\ buf' = [buf EXCEPT ![p] = b]
  /\ Enter(p, "lock")
  /\ UNCHANGED <<deviceVars, lru, lock, pinned>>

(* acquiresleep(&b->lock) returns. *)
Lock(p) ==
  /\ stage[p] = "lock"
  /\ lock[buf[p]] = NoProc
  /\ lock' = [lock EXCEPT ![buf[p]] = p]
  /\ Enter(p, "bread")
  /\ UNCHANGED <<deviceVars, blockno, valid, refcnt, lru, pinned, buf>>

(* bread(): nothing to read, or virtio_disk_rw(b, 0) and b->valid = 1. *)
BreadHit(p) ==
  /\ stage[p] = "bread"
  /\ valid[buf[p]]
  /\ Enter(p, "held")
  /\ UNCHANGED <<deviceVars, blockno, valid, refcnt, lru, lock, pinned, buf>>

BreadMiss(p) ==
  /\ stage[p] = "bread"
  /\ ~valid[buf[p]]
  /\ Request(buf[p], blockno[buf[p]], "read")
  /\ Enter(p, "reading")
  /\ UNCHANGED <<blockno, valid, refcnt, lru, lock, pinned, buf>>

BreadDone(p) ==
  /\ stage[p] = "reading"
  /\ Return(buf[p])
  /\ valid' = [valid EXCEPT ![buf[p]] = TRUE]
  /\ Enter(p, "held")
  /\ UNCHANGED <<blockno, refcnt, lru, lock, pinned, buf>>

-----------------------------------------------------------------------------
(* The callers change the data of a buffer they hold. *)
Change(p, v) ==
  /\ stage[p] \in {"held", "dirty"}
  /\ Fill(buf[p], v)
  /\ Enter(p, "dirty")
  /\ UNCHANGED <<blockno, valid, refcnt, lru, lock, pinned, buf>>

(* log_write(): bpin() unless the block is in the log already. *)
PinByLog(p) ==
  /\ stage[p] = "dirty"
  /\ Enter(p, "held")
  /\ IF buf[p] \in pinned
       THEN UNCHANGED <<refcnt, pinned>>
       ELSE /\ Cardinality(pinned) < MAXPINNED
            /\ refcnt' = [refcnt EXCEPT ![buf[p]] = @ + 1]
            /\ pinned' = pinned \cup {buf[p]}
  /\ UNCHANGED <<deviceVars, blockno, valid, lru, lock, buf>>

(* bwrite(): of blocks of the log, or in install_trans(). *)
Bwrite(p) ==
  /\ \/ stage[p] = "dirty" /\ buf[p] \notin pinned
     \/ stage[p] = "held" /\ buf[p] \in pinned
  /\ Request(buf[p], blockno[buf[p]], "write")
  /\ Enter(p, "writing")
  /\ UNCHANGED <<blockno, valid, refcnt, lru, lock, pinned, buf>>

BwriteDone(p) ==
  /\ stage[p] = "writing"
  /\ Return(buf[p])
  /\ Enter(p, IF buf[p] \in pinned THEN "unpin" ELSE "held")
  /\ UNCHANGED <<blockno, valid, refcnt, lru, lock, pinned, buf>>

(* Mutant: bunpin() is forgotten. *)
UnpinNothing(p) ==
  /\ stage[p] = "unpin"
  /\ pinned' = pinned \ {buf[p]}
  /\ Enter(p, "held")
  /\ UNCHANGED <<deviceVars, blockno, valid, refcnt, lru, lock, buf>>

(* bunpin(), as install_trans() calls it. *)
Unpin(p) ==
  /\ stage[p] = "unpin"
  /\ refcnt' = [refcnt EXCEPT ![buf[p]] = @ - 1]
  /\ pinned' = pinned \ {buf[p]}
  /\ Enter(p, "held")
  /\ UNCHANGED <<deviceVars, blockno, valid, lru, lock, buf>>

-----------------------------------------------------------------------------
(* brelse(): first the sleep-lock, *)
Brelse(p) ==
  /\ stage[p] = "held"
  /\ lock' = [lock EXCEPT ![buf[p]] = NoProc]
  /\ Enter(p, "release")
  /\ UNCHANGED <<deviceVars, blockno, valid, refcnt, lru, pinned, buf>>

(* The list with its k-th element moved to the front. *)
ToFront(k) ==
  [i \in 1 .. NBUF |-> IF i = 1 THEN lru[k] ELSE IF i <= k THEN lru[i - 1] ELSE lru[i]]

(* then the count. *)
Uncount(p) ==
  /\ stage[p] = "release"
  /\ refcnt' = [refcnt EXCEPT ![buf[p]] = @ - 1]
  /\ IF refcnt[buf[p]] = 1
       THEN \E k \in 1 .. NBUF : lru[k] = buf[p] /\ lru' = ToFront(k)
       ELSE UNCHANGED lru
  /\ Enter(p, "idle")
  /\ UNCHANGED <<deviceVars, blockno, valid, lock, pinned, buf>>

Disk == \E b \in Bufs : Serve(b) /\ UNCHANGED cacheVars

CacheNext ==
  \/ \E p \in Users :
       \/ \E n \in Blocks : Find(p, n) \/ Recycle(p, n)
       \/ Lock(p) \/ BreadHit(p) \/ BreadMiss(p) \/ BreadDone(p)
       \/ \E v \in Vals : Change(p, v)
       \/ PinByLog(p) \/ Bwrite(p) \/ BwriteDone(p) \/ Unpin(p)
       \/ Brelse(p) \/ Uncount(p)
  \/ Disk

CacheSpec == CacheInit /\ [][CacheNext]_bufVars

-----------------------------------------------------------------------------
(***************************************************************************)
(* No block is in two buffers: bget() looks and recycles without letting   *)
(* go of bcache.lock.                                                      *)
(***************************************************************************)
OneBufferPerBlock ==
  \A b, c \in Bufs : blockno[b] = blockno[c] /\ blockno[b] # NoBlock => b = c

(***************************************************************************)
(* A buffer's count is its users, those still waiting for its lock         *)
(* included, and the log's pin.                                            *)
(***************************************************************************)
UsersOf(b) == {p \in Users : stage[p] # "idle" /\ buf[p] = b}

RefsCounted ==
  \A b \in Bufs :
    refcnt[b] = Cardinality(UsersOf(b)) + (IF b \in pinned THEN 1 ELSE 0)

-----------------------------------------------------------------------------
(* The cache implements BlockStore. *)

Holding == {"held", "dirty", "writing", "unpin"}

CurrentContent ==
  [n \in Blocks |->
     IF \E b \in Bufs : blockno[b] = n /\ valid[b]
       THEN data[CHOOSE b \in Bufs : blockno[b] = n /\ valid[b]]
       ELSE platter[n]]

HolderOf(n) ==
  IF \E p \in Users : stage[p] \in Holding /\ blockno[buf[p]] = n
    THEN CHOOSE p \in Users : stage[p] \in Holding /\ blockno[buf[p]] = n
    ELSE NoProc

StorePromise == INSTANCE BlockStore WITH
  Users <- Users, Nobody <- NoProc, Nothing <- NoBlock,
  content <- CurrentContent,
  holder <- [n \in Blocks |-> HolderOf(n)],
  view <- [p \in Users |-> IF stage[p] \in Holding THEN data[buf[p]] ELSE NoBlock]

ImplementsStore == StorePromise!StoreSpec
=============================================================================
