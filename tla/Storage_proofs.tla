--------------------------- MODULE Storage_proofs ---------------------------
(***************************************************************************)
(* The proofs about the two layers between the file system and the disk:   *)
(* the buffer cache (BufCache), then the log above it (Log). Each part     *)
(* says below what its invariant is.                                       *)
(***************************************************************************)
EXTENDS BufCache, Log, FiniteSetTheorems, SequenceTheorems, TLAPS

-----------------------------------------------------------------------------
(***************************************************************************)
(* Proofs about the buffer cache, for any numbers of buffers, blocks,      *)
(* processes and log blocks.                                               *)
(*                                                                         *)
(* That a count is the number of a buffer's users and pins is inductive    *)
(* only together with who may take a pin away: bunpin() runs under the     *)
(* buffer's sleep-lock on a buffer that is pinned, and nobody else unpins  *)
(* it in the meantime (LocksHeld).  The list keeps every buffer (ListFull).*)
(***************************************************************************)

TypesInv ==
  /\ blockno \in [Bufs -> Blocks \cup {NoBlock}]
  /\ refcnt \in [Bufs -> Nat]
  /\ lru \in [1 .. NBUF -> Bufs]
  /\ lock \in [Bufs -> Users \cup {NoProc}]
  /\ pinned \subseteq Bufs
  /\ stage \in [Users -> Stages]
  /\ buf \in [Users -> Bufs]

Locking == {"bread", "reading", "held", "dirty", "writing", "unpin"}

(* A buffer is read, changed and unpinned under its sleep-lock only. *)
LocksHeld ==
  \A p \in Users :
    /\ stage[p] \in Locking => lock[buf[p]] = p
    /\ stage[p] = "unpin" => buf[p] \in pinned

(* The list has every buffer. *)
ListFull == \A b \in Bufs : \E i \in 1 .. NBUF : lru[i] = b

CacheInv ==
  TypesInv /\ LocksHeld /\ ListFull /\ OneBufferPerBlock /\ RefsCounted

-----------------------------------------------------------------------------
LEMMA SizesAreNat ==
  /\ NBUF \in Nat \ {0}
  /\ \A b \in Bufs : IsFiniteSet(UsersOf(b)) /\ Cardinality(UsersOf(b)) \in Nat
<1> USE CacheAssumption
<1>1. NBUF \in Nat /\ NBUF # 0
  BY FS_CardinalityType, FS_EmptySet DEF NBUF
<1>2. ASSUME NEW b \in Bufs
      PROVE  IsFiniteSet(UsersOf(b)) /\ Cardinality(UsersOf(b)) \in Nat
  <2>1. UsersOf(b) \in SUBSET Users
    BY DEF UsersOf
  <2>2. IsFiniteSet(UsersOf(b))
    BY <2>1, FS_Subset
  <2> QED BY <2>2, FS_CardinalityType
<1> QED BY <1>1, <1>2

LEMMA CacheInitInv == CacheInit => CacheInv
<1> SUFFICES ASSUME CacheInit PROVE CacheInv
  OBVIOUS
<1> USE CacheAssumption, SizesAreNat DEF CacheInit
<1>1. TypesInv
  <2>1. 1 \in 1 .. NBUF
    OBVIOUS
  <2> QED BY <2>1 DEF TypesInv, Stages
<1>2. LocksHeld /\ ListFull /\ OneBufferPerBlock
  BY DEF LocksHeld, Locking, ListFull, OneBufferPerBlock
<1>3. RefsCounted
  <2> SUFFICES ASSUME NEW b \in Bufs
               PROVE  refcnt[b] = Cardinality(UsersOf(b))
                                    + (IF b \in pinned THEN 1 ELSE 0)
    BY DEF RefsCounted
  <2>1. UsersOf(b) = {} /\ refcnt[b] = 0 /\ b \notin pinned
    BY DEF UsersOf
  <2>2. Cardinality(UsersOf(b)) = 0
    BY <2>1, FS_EmptySet
  <2> QED BY <2>1, <2>2
<1> QED BY <1>1, <1>2, <1>3 DEF CacheInv

(* A user who comes, one who goes. *)
LEMMA UserComes ==
  ASSUME CacheInv, NEW p \in Users, stage[p] = "idle", NEW b \in Bufs,
         Enter(p, "lock"), buf' = [buf EXCEPT ![p] = b]
  PROVE  /\ Cardinality(UsersOf(b)') = Cardinality(UsersOf(b)) + 1
         /\ \A d \in Bufs \ {b} : UsersOf(d)' = UsersOf(d)
<1> USE DEF CacheInv, TypesInv, Enter, UsersOf
<1>1. UsersOf(b)' = UsersOf(b) \cup {p} /\ p \notin UsersOf(b)
  OBVIOUS
<1>2. \A d \in Bufs \ {b} : UsersOf(d)' = UsersOf(d)
  OBVIOUS
<1>3. IsFiniteSet(UsersOf(b))
  BY SizesAreNat
<1> HIDE DEF CacheInv, TypesInv, Enter, UsersOf
<1> QED BY <1>1, <1>2, <1>3, FS_AddElement

LEMMA UserGoes ==
  ASSUME CacheInv, NEW p \in Users, stage[p] # "idle", Enter(p, "idle"), buf' = buf
  PROVE  /\ Cardinality(UsersOf(buf[p])) \in Nat \ {0}
         /\ Cardinality(UsersOf(buf[p])') = Cardinality(UsersOf(buf[p])) - 1
         /\ \A d \in Bufs \ {buf[p]} : UsersOf(d)' = UsersOf(d)
<1> DEFINE b == buf[p]
<1> USE DEF CacheInv, TypesInv, Enter, UsersOf
<1>1. UsersOf(b)' = UsersOf(b) \ {p} /\ p \in UsersOf(b) /\ b \in Bufs
  OBVIOUS
<1>2. \A d \in Bufs \ {b} : UsersOf(d)' = UsersOf(d)
  OBVIOUS
<1>3. IsFiniteSet(UsersOf(b)) /\ Cardinality(UsersOf(b)) \in Nat
  BY <1>1, SizesAreNat
<1> HIDE DEF CacheInv, TypesInv, Enter, UsersOf
<1>4. Cardinality(UsersOf(b)) # 0
  BY <1>1, <1>3, FS_EmptySet
<1>5. Cardinality(UsersOf(b) \ {p}) = Cardinality(UsersOf(b)) - 1
  BY <1>1, <1>3, FS_RemoveElement
<1> QED BY <1>1, <1>2, <1>3, <1>4, <1>5

(* A user who stays one. *)
LEMMA UserStays ==
  ASSUME CacheInv, NEW p \in Users, stage[p] # "idle",
         NEW there \in Stages \ {"idle"}, Enter(p, there), buf' = buf
  PROVE  \A d \in Bufs : UsersOf(d)' = UsersOf(d)
BY DEF CacheInv, TypesInv, Enter, UsersOf

-----------------------------------------------------------------------------
LEMMA FindInv ==
  ASSUME CacheInv, NEW p \in Users, NEW n \in Blocks, Find(p, n)
  PROVE  CacheInv'
<1> USE CacheAssumption, SizesAreNat DEF CacheInv
<1>1. PICK b \in Bufs : /\ blockno[b] = n
                        /\ refcnt' = [refcnt EXCEPT ![b] = @ + 1]
                        /\ buf' = [buf EXCEPT ![p] = b]
  BY DEF Find
<1>2. /\ stage[p] = "idle" /\ Enter(p, "lock")
      /\ UNCHANGED <<blockno, lru, lock, pinned>>
  BY DEF Find
<1>3. TypesInv' /\ LocksHeld' /\ ListFull' /\ OneBufferPerBlock'
  <2>1. TypesInv'
    BY <1>1, <1>2 DEF TypesInv, Enter, Stages
  <2>2. LocksHeld'
    BY <1>1, <1>2 DEF TypesInv, LocksHeld, Enter, Locking
  <2> QED BY <1>2, <2>1, <2>2 DEF ListFull, OneBufferPerBlock
<1>4. RefsCounted'
  <2> SUFFICES ASSUME NEW d \in Bufs
               PROVE  refcnt'[d] = Cardinality(UsersOf(d)')
                                     + (IF d \in pinned' THEN 1 ELSE 0)
    BY DEF RefsCounted
  <2>1. CASE d = b
    <3>1. Cardinality(UsersOf(d)') = Cardinality(UsersOf(d)) + 1
      BY <1>1, <1>2, <2>1, UserComes
    <3>2. refcnt'[d] = refcnt[d] + 1 /\ pinned' = pinned
      BY <1>1, <1>2, <2>1 DEF TypesInv
    <3> QED BY <3>1, <3>2 DEF RefsCounted
  <2>2. CASE d # b
    <3>1. UsersOf(d)' = UsersOf(d)
      BY <1>1, <1>2, <2>2, UserComes
    <3>2. refcnt'[d] = refcnt[d] /\ pinned' = pinned
      BY <1>1, <1>2, <2>2 DEF TypesInv
    <3> QED BY <3>1, <3>2 DEF RefsCounted
  <2> QED BY <2>1, <2>2
<1> QED BY <1>3, <1>4

LEMMA RecycleInv ==
  ASSUME CacheInv, NEW p \in Users, NEW n \in Blocks, Recycle(p, n)
  PROVE  CacheInv'
<1> USE CacheAssumption, SizesAreNat DEF CacheInv
<1>1. PICK b \in Bufs : /\ refcnt[b] = 0
                        /\ blockno' = [blockno EXCEPT ![b] = n]
                        /\ refcnt' = [refcnt EXCEPT ![b] = 1]
                        /\ buf' = [buf EXCEPT ![p] = b]
  BY DEF Recycle, TypesInv
<1>2. /\ stage[p] = "idle" /\ Enter(p, "lock") /\ ~Cached(n)
      /\ UNCHANGED <<lru, lock, pinned>>
  BY DEF Recycle
<1>3. TypesInv' /\ LocksHeld' /\ ListFull'
  BY <1>1, <1>2 DEF TypesInv, LocksHeld, ListFull, Enter, Stages, Locking
<1>4. OneBufferPerBlock'
  BY <1>1, <1>2 DEF OneBufferPerBlock, Cached, TypesInv
<1>5. RefsCounted'
  <2> SUFFICES ASSUME NEW d \in Bufs
               PROVE  refcnt'[d] = Cardinality(UsersOf(d)')
                                     + (IF d \in pinned' THEN 1 ELSE 0)
    BY DEF RefsCounted
  <2>1. CASE d = b
    <3>1. Cardinality(UsersOf(b)) = 0 /\ b \notin pinned
      BY <1>1 DEF RefsCounted
    <3>2. Cardinality(UsersOf(b)') = Cardinality(UsersOf(b)) + 1
      BY <1>1, <1>2, UserComes
    <3> QED BY <1>1, <1>2, <2>1, <3>1, <3>2 DEF TypesInv
  <2>2. CASE d # b
    <3>1. UsersOf(d)' = UsersOf(d)
      BY <1>1, <1>2, <2>2, UserComes
    <3>2. refcnt'[d] = refcnt[d] /\ pinned' = pinned
      BY <1>1, <1>2, <2>2 DEF TypesInv
    <3> QED BY <3>1, <3>2 DEF RefsCounted
  <2> QED BY <2>1, <2>2
<1> QED BY <1>3, <1>4, <1>5

(* The steps between bget() and brelse() that change no count. *)
LEMMA InsideInv ==
  ASSUME CacheInv, NEW p \in Users,
         \/ Lock(p) \/ BreadHit(p) \/ BreadMiss(p) \/ BreadDone(p)
         \/ \E v \in Vals : Change(p, v)
         \/ Bwrite(p) \/ BwriteDone(p) \/ Brelse(p)
  PROVE  CacheInv'
<1> USE CacheAssumption DEF CacheInv
<1>1. /\ stage[p] # "idle" /\ UNCHANGED <<blockno, refcnt, lru, pinned, buf>>
      /\ \E there \in Stages \ {"idle"} : Enter(p, there)
  BY DEF Lock, BreadHit, BreadMiss, BreadDone, Change, Bwrite, BwriteDone,
     Brelse, Stages
<1>2. lock' \in [Bufs -> Users \cup {NoProc}]
  BY DEF Lock, BreadHit, BreadMiss, BreadDone, Change, Bwrite, BwriteDone,
     Brelse, TypesInv
<1>3. TypesInv'
  BY <1>1, <1>2 DEF TypesInv, Enter
<1>4. LocksHeld'
  <2>1. CASE Lock(p)
    BY <2>1 DEF Lock, LocksHeld, Enter, TypesInv, Locking
  <2>2. CASE Brelse(p)
    BY <2>2 DEF Brelse, LocksHeld, Enter, TypesInv, Locking
  <2>3. CASE BwriteDone(p)
    BY <2>3 DEF BwriteDone, LocksHeld, Enter, TypesInv, Locking
  <2>4. CASE BreadHit(p) \/ BreadMiss(p) \/ BreadDone(p)
    BY <2>4 DEF BreadHit, BreadMiss, BreadDone, LocksHeld, Enter, TypesInv, Locking
  <2>5. CASE Bwrite(p) \/ \E v \in Vals : Change(p, v)
    BY <2>5 DEF Change, Bwrite, LocksHeld, Enter, TypesInv, Locking
  <2> QED BY <2>1, <2>2, <2>3, <2>4, <2>5
<1>5. ListFull' /\ OneBufferPerBlock'
  BY <1>1 DEF ListFull, OneBufferPerBlock
<1>6. RefsCounted'
  BY <1>1, UserStays DEF RefsCounted
<1> QED BY <1>3, <1>4, <1>5, <1>6

(* bpin() and bunpin(). *)
LEMMA PinInv ==
  ASSUME CacheInv, NEW p \in Users, PinByLog(p) \/ Unpin(p)
  PROVE  CacheInv'
<1> USE CacheAssumption, SizesAreNat DEF CacheInv
<1>1. /\ stage[p] \in {"dirty", "unpin"} /\ Enter(p, "held")
      /\ UNCHANGED <<blockno, lru, lock, buf>>
  BY DEF PinByLog, Unpin
<1>2. \A d \in Bufs : UsersOf(d)' = UsersOf(d)
  BY <1>1, UserStays DEF Stages
<1>3. lock[buf[p]] = p /\ buf[p] \in Bufs
  BY <1>1 DEF LocksHeld, Locking, TypesInv
<1>4. CASE PinByLog(p)
  <2>1. TypesInv'
    <3>1. stage' \in [Users -> Stages]
      BY <1>1 DEF TypesInv, Enter, Stages
    <3>2. refcnt' \in [Bufs -> Nat] /\ pinned' \subseteq Bufs
      <4> HIDE CacheAssumption, SizesAreNat
      <4>1. CASE UNCHANGED <<refcnt, pinned>>
        BY <4>1 DEF TypesInv
      <4>2. CASE /\ refcnt' = [refcnt EXCEPT ![buf[p]] = @ + 1]
                 /\ pinned' = pinned \cup {buf[p]}
        BY <1>3, <4>2 DEF TypesInv
      <4> QED BY <1>4, <4>1, <4>2 DEF PinByLog
    <3> QED BY <1>1, <3>1, <3>2 DEF TypesInv
  <2>2. LocksHeld'
    BY <1>1, <1>4 DEF PinByLog, TypesInv, Enter, LocksHeld, Locking
  <2>3. RefsCounted'
    BY <1>2, <1>3, <1>4 DEF PinByLog, TypesInv, RefsCounted
  <2> QED BY <1>1, <2>1, <2>2, <2>3 DEF ListFull, OneBufferPerBlock
<1>5. CASE Unpin(p)
  <2>1. buf[p] \in pinned
    BY <1>5 DEF Unpin, LocksHeld
  <2>2. refcnt[buf[p]] - 1 = Cardinality(UsersOf(buf[p]))
    BY <1>3, <2>1 DEF RefsCounted
  <2>3. TypesInv'
    BY <1>1, <1>3, <1>5, <2>2 DEF Unpin, TypesInv, Enter, Stages
  <2>4. LocksHeld'
    BY <1>1, <1>3, <1>5 DEF Unpin, TypesInv, Enter, LocksHeld, Locking
  <2>5. RefsCounted'
    BY <1>2, <1>3, <1>5, <2>2 DEF Unpin, TypesInv, RefsCounted
  <2> QED BY <1>1, <2>3, <2>4, <2>5 DEF ListFull, OneBufferPerBlock
<1> QED BY <1>4, <1>5

(* Moving to the front keeps all in the list. *)
LEMMA ToFrontKeeps ==
  ASSUME TypesInv, ListFull, NEW k \in 1 .. NBUF
  PROVE  /\ ToFront(k) \in [1 .. NBUF -> Bufs]
         /\ \A b \in Bufs : \E i \in 1 .. NBUF : ToFront(k)[i] = b
<1> USE SizesAreNat DEF TypesInv, ListFull, ToFront
<1>1. ToFront(k) \in [1 .. NBUF -> Bufs]
  OBVIOUS
<1>2. ASSUME NEW b \in Bufs
      PROVE  \E i \in 1 .. NBUF : ToFront(k)[i] = b
  <2>1. PICK j \in 1 .. NBUF : lru[j] = b
    OBVIOUS
  <2>2. CASE j = k
    <3>1. 1 \in 1 .. NBUF /\ ToFront(k)[1] = b
      BY <2>1, <2>2
    <3> QED BY <3>1
  <2>3. CASE j < k
    <3>1. j + 1 \in 1 .. NBUF /\ ToFront(k)[j + 1] = b
      BY <2>1, <2>3
    <3> QED BY <3>1
  <2>4. CASE j > k
    <3>1. ToFront(k)[j] = b
      BY <2>1, <2>4
    <3> QED BY <3>1
  <2> QED BY <2>2, <2>3, <2>4
<1> QED BY <1>1, <1>2

LEMMA UncountInv ==
  ASSUME CacheInv, NEW p \in Users, Uncount(p)
  PROVE  CacheInv'
<1> USE CacheAssumption, SizesAreNat DEF CacheInv
<1>1. /\ stage[p] = "release" /\ Enter(p, "idle")
      /\ refcnt' = [refcnt EXCEPT ![buf[p]] = @ - 1]
      /\ UNCHANGED <<blockno, lock, pinned, buf>>
  BY DEF Uncount
<1>2. buf[p] \in Bufs
  BY DEF TypesInv
<1>3. refcnt[buf[p]] - 1 \in Nat
  BY <1>1, <1>2, UserGoes DEF RefsCounted
<1>4. lru' \in [1 .. NBUF -> Bufs] /\ ListFull'
  <2>1. CASE lru' = lru
    BY <2>1 DEF ListFull, TypesInv
  <2>2. ASSUME NEW k \in 1 .. NBUF, lru' = ToFront(k)
        PROVE  lru' \in [1 .. NBUF -> Bufs] /\ ListFull'
    BY <2>2, ToFrontKeeps DEF ListFull
  <2> QED BY <2>1, <2>2 DEF Uncount
<1>5. TypesInv'
  BY <1>1, <1>2, <1>3, <1>4 DEF TypesInv, Enter, Stages
<1>6. LocksHeld' /\ OneBufferPerBlock'
  BY <1>1 DEF LocksHeld, OneBufferPerBlock, Enter, TypesInv, Locking
<1>7. RefsCounted'
  <2> SUFFICES ASSUME NEW d \in Bufs
               PROVE  refcnt'[d] = Cardinality(UsersOf(d)')
                                     + (IF d \in pinned' THEN 1 ELSE 0)
    BY DEF RefsCounted
  <2>1. CASE d = buf[p]
    <3>1. Cardinality(UsersOf(d)') = Cardinality(UsersOf(d)) - 1
      BY <1>1, <2>1, UserGoes
    <3>2. refcnt'[d] = refcnt[d] - 1 /\ pinned' = pinned
      BY <1>1, <2>1 DEF TypesInv
    <3> QED BY <3>1, <3>2 DEF RefsCounted
  <2>2. CASE d # buf[p]
    <3>1. UsersOf(d)' = UsersOf(d)
      BY <1>1, <2>2, UserGoes
    <3>2. refcnt'[d] = refcnt[d] /\ pinned' = pinned
      BY <1>1, <2>2 DEF TypesInv
    <3> QED BY <3>1, <3>2 DEF RefsCounted
  <2> QED BY <2>1, <2>2
<1> QED BY <1>4, <1>5, <1>6, <1>7

-----------------------------------------------------------------------------
(* No block in two buffers, every count right, no buffer off the list:     *)
(* for any numbers of buffers, blocks and processes.                       *)
THEOREM CacheInvariant == CacheSpec => []CacheInv
<1>1. CacheInit => CacheInv
  BY CacheInitInv
<1>2. CacheInv /\ [CacheNext]_bufVars => CacheInv'
  <2> SUFFICES ASSUME CacheInv, [CacheNext]_bufVars PROVE CacheInv'
    OBVIOUS
  <2>1. CASE UNCHANGED cacheVars
    BY <2>1 DEF cacheVars, CacheInv, TypesInv, LocksHeld, ListFull,
       OneBufferPerBlock, RefsCounted, UsersOf
  <2>2. ASSUME NEW p \in Users, NEW n \in Blocks, Find(p, n) \/ Recycle(p, n)
        PROVE  CacheInv'
    BY <2>2, FindInv, RecycleInv
  <2>3. CASE Disk \/ UNCHANGED bufVars
    BY <2>1, <2>3 DEF Disk, bufVars
  <2> QED BY <2>2, <2>3, InsideInv, PinInv, UncountInv DEF CacheNext
<1> QED BY <1>1, <1>2, PTL DEF CacheSpec

(* bget() and bread() let no block get into two buffers. *)
THEOREM OneBuffer == CacheSpec => []OneBufferPerBlock
BY CacheInvariant, PTL DEF CacheInv

(* A count is the number of users and pins, so a buffer is recycled only   *)
(* when nobody uses it or waits for it and the log does not pin it.        *)
THEOREM CountsRight == CacheSpec => []RefsCounted
BY CacheInvariant, PTL DEF CacheInv

-----------------------------------------------------------------------------
(***************************************************************************)
(* What is in the buffers.  A request belongs to the process that waits    *)
(* for it; a valid buffer that is neither pinned nor being changed or      *)
(* written has what the disk has, so that recycling it loses nothing.      *)
(***************************************************************************)
DataTypes ==
  /\ platter \in [Blocks -> Vals] /\ data \in [Bufs -> Vals]
  /\ req \in [Bufs -> Reqs \cup {NoReq}]
  /\ valid \in [Bufs -> BOOLEAN]

RequestsOwned ==
  \A b \in Bufs : req[b] # NoReq =>
    \E p \in Users : buf[p] = b /\ stage[p] \in {"reading", "writing"}

Same(b) == data[b] = platter[blockno[b]]

Asked(b, op) ==
  /\ req[b] \in Reqs /\ req[b].op = op /\ req[b].block = blockno[b]
  /\ req[b].served => Same(b)

UsersSee ==
  \A p \in Users :
    /\ stage[p] # "idle" => blockno[buf[p]] \in Blocks
    /\ stage[p] \in Holding => valid[buf[p]]
    /\ stage[p] = "reading" => ~valid[buf[p]] /\ Asked(buf[p], "read")
    /\ stage[p] = "writing" => Asked(buf[p], "write")
    /\ stage[p] = "unpin" => Same(buf[p])

Clean ==
  \A b \in Bufs :
    /\ valid[b] => blockno[b] \in Blocks
    /\ valid[b] /\ b \notin pinned
         /\ (\A p \in Users : buf[p] = b => stage[p] \notin {"dirty", "writing"})
       => Same(b)

DataInv == DataTypes /\ RequestsOwned /\ UsersSee /\ Clean

StoreInv == CacheInv /\ DataInv

LEMMA StoreInitInv == CacheInit => StoreInv
<1> SUFFICES ASSUME CacheInit PROVE StoreInv
  OBVIOUS
<1>1. CacheInv
  BY CacheInitInv
<1>2. DataInv
  BY CacheAssumption DEF CacheInit, DeviceInit, DataInv, DataTypes, RequestsOwned,
     UsersSee, Clean, Holding
<1> QED BY <1>1, <1>2 DEF StoreInv

(* A request is not "no request". *)
LEMMA ReqIsOne == \A r \in Reqs : r # NoReq
BY DEF Reqs, NoReq

(* Two processes inside do not share a buffer. *)
LEMMA Alone ==
  CacheInv => \A p, q \in Users :
    stage[p] \in Locking /\ stage[q] \in Locking /\ buf[p] = buf[q] => p = q
BY DEF CacheInv, LocksHeld

LEMMA NoRefsNoUse ==
  CacheInv => \A b \in Bufs : refcnt[b] = 0 =>
    b \notin pinned /\ \A p \in Users : buf[p] = b => stage[p] = "idle"
<1> SUFFICES ASSUME CacheInv, NEW b \in Bufs, refcnt[b] = 0
             PROVE  b \notin pinned /\ \A p \in Users : buf[p] = b => stage[p] = "idle"
  OBVIOUS
<1>1. Cardinality(UsersOf(b)) = 0 /\ b \notin pinned
  BY SizesAreNat DEF CacheInv, RefsCounted
<1>2. UsersOf(b) = {}
  BY <1>1, SizesAreNat, FS_EmptySet
<1> QED BY <1>1, <1>2 DEF UsersOf

-----------------------------------------------------------------------------
LEMMA BgetData ==
  ASSUME StoreInv, NEW p \in Users, NEW n \in Blocks, Find(p, n) \/ Recycle(p, n)
  PROVE  DataInv'
<1> USE DEF StoreInv, DataInv, deviceVars
<1>1. /\ stage[p] = "idle" /\ Enter(p, "lock")
      /\ UNCHANGED <<platter, data, req, pinned>>
  BY DEF Find, Recycle
<1>2. CASE Find(p, n)
  <2>1. PICK b \in Bufs : blockno[b] = n /\ buf' = [buf EXCEPT ![p] = b]
    BY <1>2 DEF Find
  <2>2. UNCHANGED <<blockno, valid>>
    BY <1>2 DEF Find
  <2>3. DataTypes' /\ RequestsOwned'
    BY <1>1, <2>1, <2>2 DEF DataTypes, RequestsOwned, Enter, CacheInv, TypesInv
  <2>4. UsersSee'
    BY <1>1, <2>1, <2>2 DEF UsersSee, Enter, CacheInv, TypesInv, Holding, Asked, Same
  <2>5. Clean'
    BY <1>1, <2>1, <2>2 DEF Clean, Enter, CacheInv, TypesInv, Same
  <2> QED BY <2>3, <2>4, <2>5
<1>3. CASE Recycle(p, n)
  <2>1. PICK b \in Bufs : /\ refcnt[b] = 0
                          /\ blockno' = [blockno EXCEPT ![b] = n]
                          /\ valid' = [valid EXCEPT ![b] = FALSE]
                          /\ buf' = [buf EXCEPT ![p] = b]
    BY <1>3 DEF Recycle, CacheInv, TypesInv
  <2>2. b \notin pinned /\ \A q \in Users : buf[q] = b => stage[q] = "idle"
    BY <2>1, NoRefsNoUse
  <2>3. DataTypes' /\ RequestsOwned'
    BY <1>1, <2>1 DEF DataTypes, RequestsOwned, Enter, CacheInv, TypesInv
  <2>4. UsersSee'
    BY <1>1, <2>1, <2>2 DEF UsersSee, Enter, CacheInv, TypesInv, Holding, Asked, Same
  <2>5. Clean'
    BY <1>1, <2>1, <2>2 DEF Clean, Enter, CacheInv, TypesInv, Same, DataTypes
  <2> QED BY <2>3, <2>4, <2>5
<1> QED BY <1>2, <1>3

LEMMA BreadData ==
  ASSUME StoreInv, NEW p \in Users,
         Lock(p) \/ BreadHit(p) \/ BreadMiss(p) \/ BreadDone(p)
  PROVE  DataInv'
<1> USE Alone, ReqIsOne
    DEF StoreInv, DataInv, deviceVars, Enter, CacheInv, TypesInv, Locking,
        Holding, Asked, Same
<1>1. CASE Lock(p) \/ BreadHit(p)
  <2>1. UNCHANGED <<platter, data, req, blockno, valid, pinned, buf>>
    BY <1>1 DEF Lock, BreadHit
  <2>2. \/ stage[p] = "lock" /\ stage' = [stage EXCEPT ![p] = "bread"]
        \/ stage[p] = "bread" /\ valid[buf[p]] /\ stage' = [stage EXCEPT ![p] = "held"]
    BY <1>1 DEF Lock, BreadHit
  <2>3. DataTypes' /\ RequestsOwned'
    BY <2>1, <2>2 DEF DataTypes, RequestsOwned
  <2>4. UsersSee'
    BY <2>1, <2>2 DEF UsersSee
  <2>5. Clean'
    BY <2>1, <2>2 DEF Clean
  <2> QED BY <2>3, <2>4, <2>5
<1>2. CASE BreadMiss(p)
  <2>1. DataTypes'
    BY <1>2 DEF BreadMiss, Request, DataTypes, UsersSee, Reqs
  <2>2. RequestsOwned'
    BY <1>2 DEF BreadMiss, Request, RequestsOwned, DataTypes
  <2>3. UsersSee'
    BY <1>2, <2>1 DEF BreadMiss, Request, UsersSee, DataTypes, Reqs
  <2>4. Clean'
    BY <1>2 DEF BreadMiss, Request, Clean
  <2> QED BY <2>1, <2>2, <2>3, <2>4
<1>3. CASE BreadDone(p)
  <2>1. DataTypes' /\ RequestsOwned'
    BY <1>3 DEF BreadDone, Return, DataTypes, RequestsOwned
  <2>2. UsersSee'
    BY <1>3 DEF BreadDone, Return, UsersSee, DataTypes
  <2>3. Clean'
    BY <1>3 DEF BreadDone, Return, UsersSee, Clean, DataTypes
  <2> QED BY <2>1, <2>2, <2>3
<1> QED BY <1>1, <1>2, <1>3

(* The caller changes its buffer, logs it or writes it. *)
LEMMA HeldData ==
  ASSUME StoreInv, NEW p \in Users,
         \/ \E v \in Vals : Change(p, v)
         \/ PinByLog(p) \/ Bwrite(p) \/ BwriteDone(p) \/ Unpin(p)
  PROVE  DataInv'
<1> USE Alone, ReqIsOne
    DEF StoreInv, DataInv, deviceVars, Enter, CacheInv, TypesInv, Locking,
        Holding, Asked, Same
<1>1. ASSUME NEW v \in Vals, Change(p, v)
      PROVE  DataInv'
  <2>1. DataTypes' /\ RequestsOwned'
    BY <1>1 DEF Change, Fill, DataTypes, RequestsOwned
  <2>2. UsersSee'
    BY <1>1 DEF Change, Fill, UsersSee, DataTypes
  <2>3. Clean'
    BY <1>1 DEF Change, Fill, Clean, DataTypes
  <2> QED BY <2>1, <2>2, <2>3
<1>2. CASE PinByLog(p)
  <2>1. pinned' = pinned \cup {buf[p]}
    BY <1>2 DEF PinByLog
  <2>2. DataTypes' /\ RequestsOwned'
    BY <1>2 DEF PinByLog, DataTypes, RequestsOwned
  <2>3. UsersSee'
    BY <1>2 DEF PinByLog, UsersSee
  <2>4. Clean'
    BY <1>2, <2>1 DEF PinByLog, Clean
  <2> QED BY <2>2, <2>3, <2>4
<1>3. CASE Bwrite(p)
  <2>1. DataTypes'
    BY <1>3 DEF Bwrite, Request, DataTypes, UsersSee, Reqs
  <2>2. RequestsOwned'
    BY <1>3 DEF Bwrite, Request, RequestsOwned, DataTypes
  <2>3. UsersSee'
    BY <1>3, <2>1 DEF Bwrite, Request, UsersSee, DataTypes, Reqs
  <2>4. Clean'
    BY <1>3 DEF Bwrite, Request, Clean
  <2> QED BY <2>1, <2>2, <2>3, <2>4
<1>4. CASE BwriteDone(p)
  <2>1. DataTypes' /\ RequestsOwned'
    BY <1>4 DEF BwriteDone, Return, DataTypes, RequestsOwned
  <2>2. UsersSee'
    BY <1>4 DEF BwriteDone, Return, UsersSee, DataTypes
  <2>3. Clean'
    BY <1>4 DEF BwriteDone, Return, UsersSee, Clean, DataTypes
  <2> QED BY <2>1, <2>2, <2>3
<1>5. CASE Unpin(p)
  <2>1. DataTypes' /\ RequestsOwned'
    BY <1>5 DEF Unpin, DataTypes, RequestsOwned
  <2>2. UsersSee'
    BY <1>5 DEF Unpin, UsersSee
  <2>3. Clean'
    BY <1>5 DEF Unpin, UsersSee, Clean
  <2> QED BY <2>1, <2>2, <2>3
<1> QED BY <1>1, <1>2, <1>3, <1>4, <1>5

LEMMA BrelseData ==
  ASSUME StoreInv, NEW p \in Users, Brelse(p) \/ Uncount(p)
  PROVE  DataInv'
<1> USE DEF StoreInv, DataInv, deviceVars, Enter, CacheInv, TypesInv, Holding,
        Asked, Same
<1>1. UNCHANGED <<platter, data, req, blockno, valid, pinned, buf>>
  BY DEF Brelse, Uncount
<1>2. \/ stage[p] = "held" /\ stage' = [stage EXCEPT ![p] = "release"]
      \/ stage[p] = "release" /\ stage' = [stage EXCEPT ![p] = "idle"]
  BY DEF Brelse, Uncount
<1>3. DataTypes' /\ RequestsOwned'
  BY <1>1, <1>2 DEF DataTypes, RequestsOwned
<1>4. UsersSee'
  BY <1>1, <1>2 DEF UsersSee
<1>5. Clean'
  BY <1>1, <1>2 DEF Clean
<1> QED BY <1>3, <1>4, <1>5

(* The device serves the request for buffer b: whose it is, what it does. *)
DiskReads(b) ==
  /\ ~valid[b] /\ platter' = platter
  /\ data' = [data EXCEPT ![b] = platter[blockno[b]]]

DiskWrites(b) ==
  /\ valid[b] /\ data' = data
  /\ platter' = [platter EXCEPT ![blockno[b]] = data[b]]

LEMMA DiskData ==
  ASSUME StoreInv, NEW b \in Bufs, Serve(b), UNCHANGED cacheVars
  PROVE  DataInv' /\ blockno[b] \in Blocks /\ (DiskReads(b) \/ DiskWrites(b))
<1> USE DEF StoreInv, DataInv, cacheVars, CacheInv, TypesInv, DiskReads, DiskWrites
<1>1. PICK p \in Users : buf[p] = b /\ stage[p] \in {"reading", "writing"}
  BY DEF Serve, RequestsOwned
<1>2. /\ req[b] \in Reqs /\ blockno[b] \in Blocks /\ req[b].block = blockno[b]
      /\ \A c \in Bufs : blockno[c] = blockno[b] => c = b
  BY <1>1, CacheAssumption DEF UsersSee, Asked, OneBufferPerBlock
<1>3. req' = [req EXCEPT ![b] = [req[b] EXCEPT !.served = TRUE]]
  BY DEF Serve
<1>4. /\ req'[b] \in Reqs /\ req'[b].op = req[b].op /\ req'[b].block = blockno[b]
      /\ \A c \in Bufs \ {b} : req'[c] = req[c]
      /\ req' \in [Bufs -> Reqs \cup {NoReq}]
  BY <1>2, <1>3 DEF DataTypes, Reqs
<1>5. CASE stage[p] = "reading"
  <2>1. ~valid[b] /\ req[b].op = "read"
    BY <1>1, <1>5 DEF UsersSee, Asked
  <2>2. data' = [data EXCEPT ![b] = platter[blockno[b]]] /\ platter' = platter
    BY <1>2, <2>1 DEF Serve
  <2>3. DataTypes' /\ RequestsOwned'
    BY <1>1, <1>2, <1>4, <2>2 DEF DataTypes, RequestsOwned
  <2>4. UsersSee'
    BY <1>1, <1>4, <2>1, <2>2 DEF UsersSee, Asked, Same, DataTypes, Holding
  <2>5. Clean'
    BY <2>1, <2>2 DEF Clean, Same, DataTypes
  <2> QED BY <1>2, <2>1, <2>2, <2>3, <2>4, <2>5
<1>6. CASE stage[p] = "writing"
  <2>1. valid[b] /\ req[b].op = "write"
    BY <1>1, <1>6 DEF UsersSee, Asked, Holding
  <2>2. platter' = [platter EXCEPT ![blockno[b]] = data[b]] /\ data' = data
    BY <1>2, <2>1 DEF Serve
  <2>3. DataTypes' /\ RequestsOwned'
    BY <1>1, <1>2, <1>4, <2>2 DEF DataTypes, RequestsOwned
  <2>4. UsersSee'
    BY <1>1, <1>2, <1>4, <2>1, <2>2 DEF UsersSee, Asked, Same, DataTypes, Holding
  <2>5. Clean'
    BY <1>1, <1>2, <1>6, <2>1, <2>2 DEF Clean, Same, DataTypes
  <2> QED BY <1>2, <2>1, <2>2, <2>3, <2>4, <2>5
<1> QED BY <1>1, <1>5, <1>6

THEOREM StoreInvariant == CacheSpec => []StoreInv
<1>1. CacheInit => StoreInv
  BY StoreInitInv
<1>2. StoreInv /\ CacheInv' /\ [CacheNext]_bufVars => StoreInv'
  <2> SUFFICES ASSUME StoreInv, [CacheNext]_bufVars PROVE DataInv'
    BY DEF StoreInv
  <2>1. CASE UNCHANGED bufVars
    BY <2>1 DEF bufVars, cacheVars, deviceVars, StoreInv, DataInv, DataTypes,
       RequestsOwned, UsersSee, Clean, Asked, Same
  <2>2. CASE Disk
    BY <2>2, DiskData DEF Disk
  <2> QED BY <2>1, <2>2, BgetData, BreadData, HeldData, BrelseData DEF CacheNext
<1> QED BY <1>1, <1>2, CacheInvariant, PTL DEF CacheSpec

-----------------------------------------------------------------------------
(* The mapping without its CHOOSE. *)
ContentIs ==
  /\ CurrentContent = [n \in Blocks |-> CurrentContent[n]]
  /\ \A b \in Bufs : valid[b] => CurrentContent[blockno[b]] = data[b]
  /\ \A n \in Blocks :
       (\A b \in Bufs : blockno[b] = n => ~valid[b]) => CurrentContent[n] = platter[n]

HoldersAre ==
  /\ \A p \in Users : stage[p] \in Holding => HolderOf(blockno[buf[p]]) = p
  /\ \A n \in Blocks :
       (\A p \in Users : blockno[buf[p]] = n => stage[p] \notin Holding)
         => HolderOf(n) = NoProc

LEMMA MappingIs == StoreInv => ContentIs /\ HoldersAre
<1> SUFFICES ASSUME StoreInv PROVE ContentIs /\ HoldersAre
  OBVIOUS
<1> USE CacheAssumption DEF StoreInv, DataInv, CacheInv, TypesInv
<1>1. CurrentContent = [n \in Blocks |-> CurrentContent[n]]
  BY DEF CurrentContent
<1>2. ASSUME NEW b \in Bufs, valid[b]
      PROVE  CurrentContent[blockno[b]] = data[b]
  <2>1. /\ blockno[b] \in Blocks
        /\ \A c \in Bufs : blockno[c] = blockno[b] => c = b
    BY <1>2 DEF Clean, OneBufferPerBlock
  <2> QED BY <1>2, <2>1 DEF CurrentContent
<1>3. ASSUME NEW n \in Blocks, \A b \in Bufs : blockno[b] = n => ~valid[b]
      PROVE  CurrentContent[n] = platter[n]
  BY <1>3 DEF CurrentContent
<1>4. ASSUME NEW p \in Users, stage[p] \in Holding
      PROVE  HolderOf(blockno[buf[p]]) = p
  <2>1. ASSUME NEW q \in Users, stage[q] \in Holding, blockno[buf[q]] = blockno[buf[p]]
        PROVE  q = p
    <3>1. buf[q] = buf[p]
      BY <1>4, <2>1 DEF UsersSee, OneBufferPerBlock, Holding
    <3> QED BY <1>4, <2>1, <3>1, Alone DEF Holding, Locking
  <2> QED BY <1>4, <2>1 DEF HolderOf
<1>5. ASSUME NEW n \in Blocks, \A p \in Users : blockno[buf[p]] = n => stage[p] \notin Holding
      PROVE  HolderOf(n) = NoProc
  BY <1>5 DEF HolderOf
<1> QED BY <1>1, <1>2, <1>3, <1>4, <1>5 DEF ContentIs, HoldersAre

LEMMA MappingStays == StoreInv' => ContentIs' /\ HoldersAre'
BY MappingIs, PTL

Holder == [n \in Blocks |-> HolderOf(n)]

View == [p \in Users |-> IF stage[p] \in Holding THEN data[buf[p]] ELSE NoBlock]

LEMMA SameHolder ==
  ASSUME StoreInv, StoreInv', NEW n \in Blocks,
         \A p \in Users : stage[p] \in Holding /\ blockno[buf[p]] = n
                          <=> stage'[p] \in Holding /\ blockno'[buf'[p]] = n
  PROVE  HolderOf(n)' = HolderOf(n)
BY MappingIs, MappingStays DEF HoldersAre

LEMMA SameContent ==
  ASSUME StoreInv, StoreInv', NEW n \in Blocks,
         \A b \in Bufs : valid[b] /\ blockno[b] = n <=> valid'[b] /\ blockno'[b] = n,
         \A b \in Bufs : valid[b] /\ blockno[b] = n => data'[b] = data[b],
         (\A b \in Bufs : blockno[b] = n => ~valid[b]) => platter'[n] = platter[n]
  PROVE  CurrentContent'[n] = CurrentContent[n]
<1> USE MappingIs, MappingStays DEF ContentIs
<1>1. CASE \E b \in Bufs : valid[b] /\ blockno[b] = n
  BY <1>1
<1>2. CASE \A b \in Bufs : blockno[b] = n => ~valid[b]
  BY <1>2
<1> QED BY <1>1, <1>2

(* Nothing that a user of the cache sees changes. *)
LEMMA QuietStep ==
  ASSUME StoreInv, StoreInv', UNCHANGED <<platter, data, blockno, valid>>,
         \A q \in Users : /\ stage[q] \in Holding <=> stage'[q] \in Holding
                          /\ stage[q] \in Holding => buf'[q] = buf[q]
  PROVE  UNCHANGED <<CurrentContent, Holder, View>>
<1>1. CurrentContent' = CurrentContent
  <2>1. \A n \in Blocks : CurrentContent'[n] = CurrentContent[n]
    BY SameContent
  <2> QED BY <2>1, MappingIs, MappingStays DEF ContentIs
<1>2. Holder' = Holder
  <2>1. \A n \in Blocks : HolderOf(n)' = HolderOf(n)
    BY SameHolder
  <2> QED BY <2>1 DEF Holder
<1>3. View' = View
  BY DEF View
<1> QED BY <1>1, <1>2, <1>3

(* The steps that are none of the store's. *)
LEMMA InnerStep ==
  ASSUME StoreInv, StoreInv', NEW p \in Users,
         \/ \E n \in Blocks : Find(p, n) \/ Recycle(p, n)
         \/ Lock(p) \/ BreadMiss(p)
         \/ PinByLog(p) \/ Bwrite(p) \/ BwriteDone(p) \/ Unpin(p) \/ Uncount(p)
  PROVE  UNCHANGED <<CurrentContent, Holder, View>>
<1> USE DEF StoreInv, CacheInv, TypesInv, Enter, deviceVars
<1>1. ASSUME NEW n \in Blocks, Find(p, n)
      PROVE  UNCHANGED <<CurrentContent, Holder, View>>
  BY <1>1, QuietStep DEF Find, Holding
<1>2. CASE \/ Lock(p) \/ BreadMiss(p) \/ PinByLog(p) \/ Bwrite(p)
           \/ BwriteDone(p) \/ Unpin(p) \/ Uncount(p)
  <2>1. UNCHANGED <<platter, data, blockno, valid, buf>>
    BY <1>2 DEF Lock, BreadMiss, PinByLog, Bwrite, BwriteDone, Unpin, Uncount, Request, Return
  <2>2. \A q \in Users : stage[q] \in Holding <=> stage'[q] \in Holding
    BY <1>2 DEF Lock, BreadMiss, PinByLog, Bwrite, BwriteDone, Unpin, Uncount, Holding
  <2> QED BY <2>1, <2>2, QuietStep
<1>3. ASSUME NEW n \in Blocks, Recycle(p, n)
      PROVE  UNCHANGED <<CurrentContent, Holder, View>>
  <2>1. PICK b \in Bufs : /\ refcnt[b] = 0
                          /\ blockno' = [blockno EXCEPT ![b] = n]
                          /\ valid' = [valid EXCEPT ![b] = FALSE]
                          /\ buf' = [buf EXCEPT ![p] = b]
    BY <1>3 DEF Recycle
  <2>2. b \notin pinned /\ \A q \in Users : buf[q] = b => stage[q] = "idle"
    BY <2>1, NoRefsNoUse
  <2>3. UNCHANGED <<platter, data>> /\ stage[p] = "idle" /\ stage' = [stage EXCEPT ![p] = "lock"]
        /\ ~Cached(n)
    BY <1>3 DEF Recycle
  <2>4. \A q \in Users : /\ stage[q] \in Holding <=> stage'[q] \in Holding
                         /\ stage[q] \in Holding =>
                              buf'[q] = buf[q] /\ blockno'[buf[q]] = blockno[buf[q]]
    BY <2>1, <2>2, <2>3 DEF Holding
  <2>5. Holder' = Holder
    <3>1. \A m \in Blocks : HolderOf(m)' = HolderOf(m)
      BY <2>4, SameHolder
    <3> QED BY <3>1 DEF Holder
  <2>6. View' = View
    BY <2>3, <2>4 DEF View
  <2>7. CurrentContent' = CurrentContent
    <3>1. ASSUME NEW m \in Blocks
          PROVE  CurrentContent'[m] = CurrentContent[m]
      <4>1. CASE valid[b] /\ blockno[b] = m
        <5>1. CurrentContent[m] = data[b] /\ data[b] = platter[m]
          BY <2>2, <4>1, MappingIs DEF ContentIs, DataInv, Clean, Same
        <5>2. \A c \in Bufs : blockno'[c] = m => ~valid'[c]
          BY <2>1, <4>1, CacheAssumption DEF OneBufferPerBlock, DataInv, DataTypes
        <5>3. CurrentContent'[m] = platter[m]
          BY <2>3, <5>2, MappingStays DEF ContentIs
        <5> QED BY <5>1, <5>3
      <4>2. CASE ~(valid[b] /\ blockno[b] = m)
        BY <2>1, <2>3, <4>2, SameContent DEF DataInv, DataTypes
      <4> QED BY <4>1, <4>2
    <3> QED BY <3>1, MappingIs, MappingStays DEF ContentIs
  <2> QED BY <2>5, <2>6, <2>7
<1> QED BY <1>1, <1>2, <1>3

LEMMA DiskStep ==
  ASSUME StoreInv, StoreInv', NEW b \in Bufs, Serve(b), UNCHANGED cacheVars
  PROVE  UNCHANGED <<CurrentContent, Holder, View>>
<1> USE DEF StoreInv, CacheInv, TypesInv, DataInv, DataTypes, cacheVars
<1>1. blockno[b] \in Blocks /\ (DiskReads(b) \/ DiskWrites(b))
  BY DiskData
<1>2. CurrentContent' = CurrentContent
  <2>1. \A n \in Blocks : CurrentContent'[n] = CurrentContent[n]
    <3> SUFFICES ASSUME NEW n \in Blocks
                 PROVE  CurrentContent'[n] = CurrentContent[n]
      OBVIOUS
    <3>1. \A c \in Bufs : valid[c] => data'[c] = data[c]
      BY <1>1 DEF DiskReads, DiskWrites
    <3>2. (\A c \in Bufs : blockno[c] = n => ~valid[c]) => platter'[n] = platter[n]
      BY <1>1 DEF DiskReads, DiskWrites
    <3> QED BY <3>1, <3>2, SameContent
  <2> QED BY <2>1, MappingIs, MappingStays DEF ContentIs
<1>3. Holder' = Holder
  <2>1. \A n \in Blocks : HolderOf(n)' = HolderOf(n)
    BY SameHolder
  <2> QED BY <2>1 DEF Holder
<1>4. View' = View
  BY <1>1 DEF View, DiskReads, DiskWrites, UsersSee
<1> QED BY <1>2, <1>3, <1>4

(* bread() returns: the caller takes the block. *)
LEMMA TakeStep ==
  ASSUME StoreInv, StoreInv', NEW p \in Users, BreadHit(p) \/ BreadDone(p)
  PROVE  StorePromise!StoreNext
<1> USE CacheAssumption
    DEF StoreInv, CacheInv, TypesInv, DataInv, DataTypes, Enter, deviceVars
<1>0. PICK b \in Bufs, n \in Blocks : b = buf[p] /\ n = blockno[b]
  <2>1. stage[p] # "idle"
    BY DEF BreadHit, BreadDone
  <2> QED BY <2>1 DEF UsersSee
<1> USE <1>0
<1>1. /\ stage[p] \in {"bread", "reading"} /\ stage' = [stage EXCEPT ![p] = "held"]
      /\ UNCHANGED <<platter, data, blockno, buf>>
      /\ valid' = [valid EXCEPT ![b] = TRUE]
  BY DEF BreadHit, BreadDone, Return
<1>2. n \in Blocks /\ b \in Bufs /\ n # NoBlock
  BY <1>1 DEF UsersSee
<1>3. \A q \in Users : blockno[buf[q]] = n => stage[q] \notin Holding
  <2> SUFFICES ASSUME NEW q \in Users, blockno[buf[q]] = n, stage[q] \in Holding
               PROVE  FALSE
    OBVIOUS
  <2>1. buf[q] = b
    BY <1>2 DEF OneBufferPerBlock
  <2> QED BY <1>1, <2>1, Alone DEF Holding, Locking
<1>4. HolderOf(n) = NoProc /\ HolderOf(n)' = p
  BY <1>1, <1>2, <1>3, MappingIs, MappingStays DEF HoldersAre, Holding
<1>5. \A m \in Blocks \ {n} : HolderOf(m)' = HolderOf(m)
  BY <1>1, SameHolder DEF Holding
<1>6. Holder' = [Holder EXCEPT ![n] = p] /\ Holder[n] = NoProc
  BY <1>2, <1>4, <1>5 DEF Holder
<1>7. CurrentContent[n] = data[b]
  <2>1. CASE valid[b]
    BY <2>1, MappingIs DEF ContentIs
  <2>2. CASE ~valid[b]
    <3>1. data[b] = platter[n]
      BY <2>2 DEF BreadHit, BreadDone, Return, UsersSee, Asked, Same
    <3>2. \A c \in Bufs : blockno[c] = n => ~valid[c]
      BY <1>2, <2>2 DEF OneBufferPerBlock
    <3> QED BY <1>2, <3>1, <3>2, MappingIs DEF ContentIs
  <2> QED BY <2>1, <2>2
<1>8. CurrentContent' = CurrentContent
  <2>1. CurrentContent'[n] = data[b]
    BY <1>1, <1>2, MappingStays DEF ContentIs
  <2>2. \A m \in Blocks \ {n} : CurrentContent'[m] = CurrentContent[m]
    BY <1>1, <1>2, SameContent
  <2>3. \A m \in Blocks : CurrentContent'[m] = CurrentContent[m]
    BY <1>7, <2>1, <2>2
  <2> QED BY <2>3, MappingIs, MappingStays DEF ContentIs
<1>9. View' = [View EXCEPT ![p] = CurrentContent[n]] /\ View[p] = NoBlock
  <2>1. View'[p] = data[b] /\ View[p] = NoBlock
    BY <1>1 DEF View, Holding
  <2>2. \A q \in Users \ {p} : View'[q] = View[q]
    BY <1>1 DEF View
  <2> QED BY <1>7, <2>1, <2>2 DEF View
<1>10. StorePromise!Take(p, n)
  BY <1>6, <1>8, <1>9 DEF StorePromise!Take, Holder, View
<1> QED BY <1>10 DEF StorePromise!StoreNext

(* The caller changes the block. *)
LEMMA WriteStep ==
  ASSUME StoreInv, StoreInv', NEW p \in Users, NEW v \in Vals, Change(p, v)
  PROVE  StorePromise!StoreNext
<1> USE CacheAssumption
    DEF StoreInv, CacheInv, TypesInv, DataInv, DataTypes, Enter, deviceVars
<1>0. PICK b \in Bufs, n \in Blocks : b = buf[p] /\ n = blockno[b]
  <2>1. stage[p] # "idle"
    BY DEF Change
  <2> QED BY <2>1 DEF UsersSee
<1> USE <1>0
<1>1. /\ stage[p] \in {"held", "dirty"} /\ stage' = [stage EXCEPT ![p] = "dirty"]
      /\ data' = [data EXCEPT ![b] = v]
      /\ UNCHANGED <<platter, blockno, valid, buf>>
  BY DEF Change, Fill
<1>2. n \in Blocks /\ b \in Bufs /\ n # NoBlock /\ valid[b]
  BY <1>1 DEF UsersSee, Holding
<1>3. Holder' = Holder /\ Holder[n] = p
  <2>1. \A m \in Blocks : HolderOf(m)' = HolderOf(m)
    BY <1>1, SameHolder DEF Holding
  <2>2. HolderOf(n) = p
    BY <1>1, MappingIs DEF HoldersAre, Holding
  <2> QED BY <1>2, <2>1, <2>2 DEF Holder
<1>4. CurrentContent' = [CurrentContent EXCEPT ![n] = v]
  <2>1. CurrentContent'[n] = v
    BY <1>1, <1>2, MappingStays DEF ContentIs
  <2>2. \A m \in Blocks \ {n} : CurrentContent'[m] = CurrentContent[m]
    <3> SUFFICES ASSUME NEW m \in Blocks, m # n
                 PROVE  CurrentContent'[m] = CurrentContent[m]
      OBVIOUS
    <3>1. \A c \in Bufs : blockno[c] = m => data'[c] = data[c]
      BY <1>1
    <3> QED BY <1>1, <3>1, SameContent
  <2> QED BY <1>2, <2>1, <2>2, MappingIs, MappingStays DEF ContentIs
<1>5. View' = [View EXCEPT ![p] = v]
  <2>1. ASSUME NEW q \in Users \ {p}
        PROVE  View'[q] = View[q]
    <3>1. CASE stage[q] \in Holding
      <4>1. buf[q] # b
        BY <1>1, <3>1, Alone DEF Holding, Locking
      <4> QED BY <1>1, <4>1 DEF View
    <3>2. CASE stage[q] \notin Holding
      BY <1>1, <3>2 DEF View
    <3> QED BY <3>1, <3>2
  <2>2. View'[p] = v
    BY <1>1, <1>2 DEF View, Holding
  <2> QED BY <2>1, <2>2 DEF View
<1>6. StorePromise!Write(p, n, v)
  BY <1>2, <1>3, <1>4, <1>5 DEF StorePromise!Write, Holder, View
<1> QED BY <1>6 DEF StorePromise!StoreNext

(* brelse(): the caller gives the block back. *)
LEMMA DropStep ==
  ASSUME StoreInv, StoreInv', NEW p \in Users, Brelse(p)
  PROVE  StorePromise!StoreNext
<1> USE CacheAssumption
    DEF StoreInv, CacheInv, TypesInv, DataInv, DataTypes, Enter, deviceVars
<1>0. PICK b \in Bufs, n \in Blocks : b = buf[p] /\ n = blockno[b]
  <2>1. stage[p] # "idle"
    BY DEF Brelse
  <2> QED BY <2>1 DEF UsersSee
<1> USE <1>0
<1>1. /\ stage[p] = "held" /\ stage' = [stage EXCEPT ![p] = "release"]
      /\ UNCHANGED <<platter, data, blockno, valid, buf>>
  BY DEF Brelse
<1>2. n \in Blocks /\ b \in Bufs /\ n # NoBlock
  BY <1>1 DEF UsersSee
<1>3. HolderOf(n) = p /\ HolderOf(n)' = NoProc
  <2>1. HolderOf(n) = p
    BY <1>1, MappingIs DEF HoldersAre, Holding
  <2>2. ASSUME NEW q \in Users, blockno'[buf'[q]] = n, stage'[q] \in Holding
        PROVE  FALSE
    <3>1. q # p /\ stage[q] \in Holding /\ blockno[buf[q]] = n
      BY <1>1, <2>2 DEF Holding
    <3>2. HolderOf(n) = q
      BY <3>1, MappingIs DEF HoldersAre
    <3> QED BY <2>1, <3>1, <3>2
  <2>3. HolderOf(n)' = NoProc
    BY <1>1, <1>2, <2>2, MappingStays DEF HoldersAre
  <2> QED BY <2>1, <2>3
<1>4. \A m \in Blocks \ {n} : HolderOf(m)' = HolderOf(m)
  BY <1>1, SameHolder DEF Holding
<1>5. Holder' = [Holder EXCEPT ![n] = NoProc] /\ Holder[n] = p
  BY <1>2, <1>3, <1>4 DEF Holder
<1>6. CurrentContent' = CurrentContent
  <2>1. \A m \in Blocks : CurrentContent'[m] = CurrentContent[m]
    BY <1>1, SameContent
  <2> QED BY <2>1, MappingIs, MappingStays DEF ContentIs
<1>7. View' = [View EXCEPT ![p] = NoBlock]
  BY <1>1 DEF View, Holding
<1>8. StorePromise!Drop(p, n)
  BY <1>2, <1>5, <1>6, <1>7 DEF StorePromise!Drop, Holder, View
<1> QED BY <1>8 DEF StorePromise!StoreNext

-----------------------------------------------------------------------------
(* The buffer cache implements BlockStore, for any numbers of buffers,     *)
(* blocks and processes: whoever gets a block from bread() is alone with   *)
(* it until brelse() and finds what was last put there, whatever was       *)
(* recycled, read and written in between.                                  *)
THEOREM CacheImplementation == CacheSpec => ImplementsStore
<1>1. CacheInit => StorePromise!StoreInit
  <2> SUFFICES ASSUME CacheInit PROVE StorePromise!StoreInit
    OBVIOUS
  <2> USE CacheAssumption
  <2>1. StoreInv
    BY StoreInitInv
  <2>2. \A n \in Blocks : HolderOf(n) = NoProc /\ CurrentContent[n] = platter[n]
    BY <2>1, MappingIs DEF ContentIs, HoldersAre, CacheInit, Holding
  <2>3. CurrentContent = platter
    BY <2>1, <2>2, MappingIs DEF ContentIs, StoreInv, DataInv, DataTypes
  <2>4. View = [p \in Users |-> NoBlock]
    BY DEF View, CacheInit, Holding
  <2> QED BY <2>2, <2>3, <2>4 DEF StorePromise!StoreInit, View, CacheInit, DeviceInit
<1>2. StoreInv /\ StoreInv' /\ [CacheNext]_bufVars
        => [StorePromise!StoreNext]_<<CurrentContent, Holder, View>>
  <2> SUFFICES ASSUME StoreInv, StoreInv', [CacheNext]_bufVars
               PROVE  [StorePromise!StoreNext]_<<CurrentContent, Holder, View>>
    OBVIOUS
  <2>1. CASE UNCHANGED bufVars
    BY <2>1, QuietStep DEF bufVars, deviceVars, cacheVars
  <2>2. CASE Disk
    BY <2>2, DiskStep DEF Disk
  <2>3. ASSUME NEW p \in Users,
               \/ BreadHit(p) \/ BreadDone(p)
               \/ Brelse(p) \/ \E v \in Vals : Change(p, v)
        PROVE  StorePromise!StoreNext
    BY <2>3, TakeStep, WriteStep, DropStep
  <2> QED BY <2>1, <2>2, <2>3, InnerStep DEF CacheNext
<1> QED BY <1>1, <1>2, StoreInvariant, PTL
        DEF CacheSpec, ImplementsStore, StorePromise!StoreSpec, StorePromise!storeVars, Holder, View

-----------------------------------------------------------------------------
(***************************************************************************)
(* Proofs about the log: LogInv is an invariant, the log never overflows,  *)
(* nobody oversleeps, pins are right, and the log implements Journal, for  *)
(* any processes, blocks, contents and sizes.                              *)
(***************************************************************************)

Waiting == {"idle", "begin", "sleep"}

-----------------------------------------------------------------------------
(* Lemmas about states.                                                    *)

(* While a process commits, every other one waits or is idle. *)
LEMMA CommitterAlone ==
  ASSUME TypeOK, Actors, NEW p \in Procs, pc[p] \in CommitPhases
  PROVE  /\ committing /\ boot = "up"
         /\ Open = {} /\ outstanding = 0
         /\ \A q \in Procs : q # p => pc[q] \in Waiting
         /\ \A ph \in CommitPhases : At(ph) <=> pc[p] = ph
<1>1. committing /\ boot = "up" /\ Open = {}
  BY DEF Actors, CommitPhases
<1>2. outstanding = 0
  BY <1>1, FS_EmptySet DEF Actors
<1>3. \A q \in Procs : q # p => pc[q] \in Waiting
  BY <1>1 DEF Actors, TypeOK, Phases, CommitPhases, Waiting, Open
<1>4. \A ph \in CommitPhases : At(ph) <=> pc[p] = ph
  BY <1>3 DEF At, Waiting, CommitPhases
<1> QED BY <1>1, <1>2, <1>3, <1>4

(* While operations are open, nobody commits. *)
LEMMA OpenMeansNoCommit ==
  ASSUME TypeOK, Actors, NEW p \in Procs, pc[p] = "op"
  PROVE  /\ ~committing /\ boot = "up" /\ p \in Open
         /\ \A q \in Procs : pc[q] \notin CommitPhases
         /\ \A ph \in CommitPhases : ~At(ph)
         /\ Installed = 0
<1>1. p \in Open /\ ~committing /\ boot = "up"
  BY DEF Actors, Open
<1>2. \A q \in Procs : pc[q] \notin CommitPhases
  BY <1>1 DEF Actors
<1>3. \A ph \in CommitPhases : ~At(ph)
  BY <1>2 DEF At
<1>4. Installed = 0
  BY <1>2 DEF Installed, CommitPhases
<1> QED BY <1>1, <1>2, <1>3, <1>4

(* No credit is outstanding when no operation is. *)
LEMMA NoCredit ==
  ASSUME Open = {}
  PROVE  Credit = {} /\ Cardinality(Credit) = 0
<1>1. Credit = {}
  BY DEF Credit
<1> QED BY <1>1, FS_EmptySet

(* Credit of the operations in S that have written w. *)
Credits(S, w) == {c \in S \X (1 .. MAXOPBLOCKS) : c[2] > Cardinality(w[c[1]])}

(* It is finite, and at most MAXOPBLOCKS for each operation. *)
LEMMA CreditBound ==
  ASSUME NEW S, NEW w, IsFiniteSet(S)
  PROVE  /\ IsFiniteSet(Credits(S, w))
         /\ Cardinality(Credits(S, w)) \in Nat
         /\ Cardinality(Credits(S, w)) <= Cardinality(S) * MAXOPBLOCKS
<1> DEFINE All == S \X (1 .. MAXOPBLOCKS)
<1>1. MAXOPBLOCKS \in Nat
  BY LogAssumption
<1>2. IsFiniteSet(1 .. MAXOPBLOCKS) /\ Cardinality(1 .. MAXOPBLOCKS) = MAXOPBLOCKS
  BY <1>1, FS_Interval
<1>3. IsFiniteSet(All) /\ Cardinality(All) = Cardinality(S) * MAXOPBLOCKS
  BY <1>2, FS_Product
<1>4. Credits(S, w) \in SUBSET All
  BY DEF Credits
<1>5. IsFiniteSet(Credits(S, w)) /\ Cardinality(Credits(S, w)) <= Cardinality(All)
  BY <1>3, <1>4, FS_Subset
<1> QED BY <1>3, <1>5, FS_CardinalityType

-----------------------------------------------------------------------------
(* Init and the steps of LogInv.                                           *)

LEMMA InitInv == Init => LogInv
<1> SUFFICES ASSUME Init PROVE LogInv
  OBVIOUS
<1> USE LogAssumption DEF Init
<1>1. Open = {} /\ IsFiniteSet(Open) /\ Cardinality(Open) = 0
  BY FS_EmptySet DEF Open
<1>2. TypeOK
  <2>1. <<>> \in Seq(Homes) /\ Len(<<>>) = 0
    BY EmptySeq
  <2>2. lh \in Seq(Homes) /\ Len(lh) <= LOGBLOCKS
    BY <2>1
  <2>3. header \in Seq(Homes) /\ Len(header) <= LOGBLOCKS
    BY <2>1
  <2>4. slots \in [1 .. LOGBLOCKS -> Contents] /\ pins \in [Homes -> Nat]
    OBVIOUS
  <2>5. pc \in [Procs -> Phases] /\ wrote \in [Procs -> SUBSET Homes]
    BY DEF Phases
  <2> QED BY <2>2, <2>3, <2>4, <2>5 DEF TypeOK
<1>3. Actors
  BY <1>1 DEF Actors, CommitPhases
<1>4. TailInRange
  BY DEF TailInRange, At
<1>5. SpaceReserved
  BY <1>1, NoCredit, FS_EmptySet DEF SpaceReserved
<1>6. SleepersMustWait
  BY DEF SleepersMustWait
<1>7. Installed = 0
  BY DEF Installed
<1>8. PinnedWhileLogged
  BY <1>7 DEF PinnedWhileLogged
<1>9. CopiesAgree
  BY <1>7 DEF CopiesAgree, At
<1>10. RecoveryAgrees
  BY DEF RecoveryAgrees
<1> QED
  BY <1>2, <1>3, <1>4, <1>5, <1>6, <1>8, <1>9, <1>10 DEF LogInv

(***************************************************************************)
(* Steps before begin_op() has let a process in: only pc changes, and      *)
(* whoever goes to sleep has found a reason.                               *)
(***************************************************************************)
LEMMA WaitingInv ==
  ASSUME LogInv, NEW p \in Procs, Call(p) \/ BeginOpSleep(p) \/ Kill(p)
  PROVE  LogInv'
<1> USE DEF LogInv
<1>1. /\ UNCHANGED <<home, slots, header, cache, pins, lh, outstanding,
                     committing, tail, wrote, boot>>
      /\ pc[p] \in Waiting /\ pc'[p] \in Waiting
      /\ pc' = [pc EXCEPT ![p] = pc'[p]]
      /\ pc'[p] = "sleep" => MustWait
      /\ boot = "up"
  BY DEF Call, BeginOpSleep, Kill, Goto, diskVars, Waiting, TypeOK, Actors
<1>2. \A q \in Procs : pc'[q] = pc[q] \/ (pc[q] \in Waiting /\ pc'[q] \in Waiting)
  BY <1>1 DEF TypeOK
<1>3. \A ph \in CommitPhases : At(ph)' <=> At(ph)
  BY <1>2 DEF At, CommitPhases, Waiting
<1>4. Open' = Open /\ Credit' = Credit /\ Installed' = Installed
  BY <1>1, <1>2, <1>3 DEF Open, Credit, Installed, At, CommitPhases, Waiting
<1>5. TypeOK'
  BY <1>1 DEF TypeOK, Phases, Waiting
<1>6. Actors'
  BY <1>1, <1>2, <1>4 DEF Actors, CommitPhases, Waiting
<1>7. TailInRange'
  BY <1>1, <1>3 DEF TailInRange, CommitPhases
<1>8. SpaceReserved'
  BY <1>1, <1>2, <1>4 DEF SpaceReserved, Logged, Waiting
<1>9. SleepersMustWait'
  <2>1. MustWait' <=> MustWait
    BY <1>1 DEF MustWait
  <2> QED BY <1>1, <2>1 DEF SleepersMustWait, TypeOK
<1>10. PinnedWhileLogged'
  BY <1>1, <1>4 DEF PinnedWhileLogged
<1>11. CopiesAgree'
  BY <1>1, <1>3, <1>4 DEF CopiesAgree, CommitPhases, Logged
<1>12. RecoveryAgrees'
  BY <1>1 DEF RecoveryAgrees
<1> QED
  BY <1>5, <1>6, <1>7, <1>8, <1>9, <1>10, <1>11, <1>12

(* begin_op() lets p in. *)
LEMMA BeginOpInv ==
  ASSUME LogInv, NEW p \in Procs, BeginOp(p)
  PROVE  LogInv'
<1> USE DEF LogInv
<1>1. /\ pc[p] = "begin" /\ pc' = [pc EXCEPT ![p] = "op"]
      /\ outstanding' = outstanding + 1
      /\ ~committing /\ Len(lh) + (outstanding + 1) * MAXOPBLOCKS <= LOGBLOCKS
      /\ UNCHANGED <<home, slots, header, cache, pins, lh, committing, tail,
                     wrote, boot>>
      /\ boot = "up"
  <2>1. ~MustWait
    BY DEF BeginOp
  <2>2. Len(lh) \in Nat /\ outstanding \in Nat /\ MAXOPBLOCKS \in Nat /\ LOGBLOCKS \in Nat
    BY LogAssumption, LenProperties DEF TypeOK
  <2>3. ~committing /\ Len(lh) + (outstanding + 1) * MAXOPBLOCKS <= LOGBLOCKS
    BY <2>1, <2>2 DEF MustWait
  <2> QED BY <2>3 DEF BeginOp, Goto, diskVars, Actors
<1>2. \A q \in Procs : pc[q] \notin CommitPhases /\ pc'[q] \notin CommitPhases
  BY <1>1 DEF Actors, TypeOK, CommitPhases
<1>3. \A ph \in CommitPhases : ~At(ph) /\ ~At(ph)'
  BY <1>2 DEF At
<1>4. Installed = 0 /\ Installed' = 0
  BY <1>2 DEF Installed, CommitPhases
<1>5. Open' = Open \cup {p} /\ p \notin Open
  BY <1>1 DEF Open, TypeOK
<1>6. IsFiniteSet(Open') /\ Cardinality(Open') = outstanding'
  BY <1>1, <1>5, FS_AddElement DEF Actors
<1>7. TypeOK'
  BY <1>1 DEF TypeOK, Phases
<1>8. Actors'
  BY <1>1, <1>2, <1>6 DEF Actors
<1>9. TailInRange'
  BY <1>1, <1>3 DEF TailInRange, CommitPhases
<1>10. SpaceReserved'
  <2>1. Credit' = Credits(Open', wrote')
    BY DEF Credit, Credits
  <2>2. Cardinality(Credit') \in Nat
        /\ Cardinality(Credit') <= (outstanding + 1) * MAXOPBLOCKS
    BY <1>1, <1>6, <2>1, CreditBound
  <2>3. Len(lh) \in Nat /\ MAXOPBLOCKS \in Nat /\ LOGBLOCKS \in Nat
        /\ outstanding \in Nat
    BY LogAssumption, LenProperties DEF TypeOK
  <2>4. (outstanding + 1) * MAXOPBLOCKS \in Nat
    BY <2>3
  <2>5. Len(lh') + Cardinality(Credit') <= LOGBLOCKS
    BY <1>1, <2>2, <2>3, <2>4
  <2> QED BY <1>1, <2>5 DEF SpaceReserved, Logged, TypeOK
<1>11. SleepersMustWait'
  BY <1>1 DEF SleepersMustWait, BeginOp, TypeOK
<1>12. PinnedWhileLogged'
  BY <1>1, <1>4 DEF PinnedWhileLogged
<1>13. CopiesAgree'
  <2>1. lh = <<>> \/ outstanding # 0
    BY <1>1, <1>2 DEF CopiesAgree
  <2>2. outstanding' # 0
    BY <1>1 DEF TypeOK
  <2> QED BY <1>1, <1>3, <1>4, <2>2 DEF CopiesAgree, CommitPhases, Logged
<1>14. RecoveryAgrees'
  BY <1>1 DEF RecoveryAgrees
<1> QED
  BY <1>7, <1>8, <1>9, <1>10, <1>11, <1>12, <1>13, <1>14

(* What absorption, or its absence, does to the log. *)
LEMMA LogGrows ==
  ASSUME TypeOK, NEW p \in Procs, NEW b \in Homes, NEW v \in Contents,
         LogWrite(p, b, v)
  PROVE  /\ lh' \in Seq(Homes) /\ Len(lh') \in Nat /\ Len(lh') <= LOGBLOCKS
         /\ Logged' = Logged \cup {b}
         /\ IF b \in Logged THEN lh' = lh
            ELSE /\ Len(lh') = Len(lh) + 1 /\ lh'[Len(lh')] = b
                 /\ \A i \in 1 .. Len(lh) : lh'[i] = lh[i]
<1>1. lh \in Seq(Homes) /\ Len(lh) \in Nat /\ Len(lh) <= LOGBLOCKS
      /\ LOGBLOCKS \in Nat /\ Len(lh) < LOGBLOCKS
  BY LogAssumption, LenProperties DEF TypeOK, LogWrite
<1>2. CASE b \in Logged
  BY <1>1, <1>2 DEF LogWrite, Logged
<1>3. CASE b \notin Logged
  <2>1. lh' = Append(lh, b)
    BY <1>3 DEF LogWrite
  <2>2. /\ lh' \in Seq(Homes) /\ Len(lh') = Len(lh) + 1
        /\ lh'[Len(lh')] = b
        /\ \A i \in 1 .. Len(lh) : lh'[i] = lh[i]
    BY <1>1, <2>1, AppendProperties
  <2>3. Logged' = Logged \cup {b}
    BY <1>1, <2>2 DEF Logged
  <2> QED BY <1>1, <1>3, <2>2, <2>3
<1> QED BY <1>2, <1>3

(* An operation pays for a new block with one unit of its credit. *)
LEMMA CreditSpent ==
  ASSUME LogInv, NEW p \in Procs, NEW b \in Homes, NEW v \in Contents,
         LogWrite(p, b, v)
  PROVE  /\ IsFiniteSet(wrote'[p])
         /\ Len(lh') + Cardinality(Credit') <= LOGBLOCKS
<1> USE DEF LogInv
<1>1. p \in Open /\ Open' = Open /\ IsFiniteSet(Open)
  BY DEF LogWrite, MayWrite, Open, Actors
<1>2. /\ wrote' = [wrote EXCEPT ![p] = wrote[p] \cup {b}]
      /\ wrote'[p] = wrote[p] \cup {b} /\ \A q \in Procs : q # p => wrote'[q] = wrote[q]
  BY DEF LogWrite, TypeOK
<1>3. IsFiniteSet(wrote[p]) /\ Cardinality(wrote[p]) \in Nat
  BY FS_CardinalityType DEF SpaceReserved
<1>4. /\ IsFiniteSet(wrote'[p])
      /\ Cardinality(wrote'[p]) =
           IF b \in wrote[p] THEN Cardinality(wrote[p]) ELSE Cardinality(wrote[p]) + 1
  BY <1>2, <1>3, FS_AddElement
<1>5. IsFiniteSet(Credit) /\ Cardinality(Credit) \in Nat
  BY <1>1, CreditBound DEF Credit, Credits
<1>6. Len(lh) \in Nat /\ Len(lh') \in Nat /\ LOGBLOCKS \in Nat /\ MAXOPBLOCKS \in Nat
  BY LogAssumption, LogGrows, LenProperties DEF TypeOK
<1>7. CASE b \in wrote[p]
  <2>1. b \in Logged
    BY <1>7 DEF SpaceReserved
  <2>2. lh' = lh
    BY <2>1, LogGrows
  <2>3. wrote' = wrote
    BY <1>2, <1>7 DEF TypeOK
  <2>4. Credit' = Credit
    BY <1>1, <2>3 DEF Credit
  <2> QED BY <1>4, <2>2, <2>4 DEF SpaceReserved
<1>8. CASE b \notin wrote[p]
  <2> DEFINE spent == <<p, Cardinality(wrote[p]) + 1>>
  <2>1. Cardinality(wrote[p]) + 1 <= MAXOPBLOCKS
    <3>1. Cardinality(wrote'[p]) <= OpBlocks
      BY <1>2 DEF LogWrite, MayWrite
    <3>2. OpBlocks \in Nat /\ OpBlocks <= MAXOPBLOCKS
      BY LogAssumption
    <3> QED BY <1>3, <1>4, <1>6, <1>8, <3>1, <3>2
  <2>2. spent \in Credit
    BY <1>1, <1>3, <1>6, <2>1 DEF Credit
  <2>3. Credit' = Credit \ {spent}
    <3>1. ASSUME NEW q \in Open, NEW k \in 1 .. MAXOPBLOCKS
          PROVE  <<q, k>> \in Credit' <=> <<q, k>> \in Credit \ {spent}
      <4>1. CASE q = p
        BY <1>1, <1>3, <1>4, <1>6, <1>8, <4>1 DEF Credit
      <4>2. CASE q # p
        BY <1>1, <1>2, <4>2 DEF Credit, Open
      <4> QED BY <4>1, <4>2
    <3>2. Credit \subseteq Open \X (1 .. MAXOPBLOCKS)
          /\ Credit' \subseteq Open \X (1 .. MAXOPBLOCKS)
      BY <1>1 DEF Credit
    <3> HIDE DEF spent
    <3> QED BY <3>1, <3>2
  <2>4. Cardinality(Credit') = Cardinality(Credit) - 1
    BY <1>5, <2>2, <2>3, FS_RemoveElement
  <2>5. Len(lh') <= Len(lh) + 1
    BY <1>6, LogGrows
  <2>6. Cardinality(Credit') \in Int
    BY <1>5, <2>4
  <2>7. Len(lh) + Cardinality(Credit) <= LOGBLOCKS
    BY DEF SpaceReserved
  <2> QED BY <1>4, <1>5, <1>6, <2>4, <2>5, <2>7
<1> QED BY <1>7, <1>8

(* log_write() of an open operation. *)
LEMMA LogWriteInv ==
  ASSUME LogInv, NEW p \in Procs, NEW b \in Homes, NEW v \in Contents,
         LogWrite(p, b, v)
  PROVE  LogInv'
<1> USE DEF LogInv
<1>1. /\ pc[p] = "op"
      /\ cache' = [cache EXCEPT ![b] = v]
      /\ wrote' = [wrote EXCEPT ![p] = wrote[p] \cup {b}]
      /\ IF b \in Logged THEN pins' = pins
                           ELSE pins' = [pins EXCEPT ![b] = pins[b] + 1]
      /\ UNCHANGED <<home, slots, header, outstanding, committing, tail, pc, boot>>
  BY DEF LogWrite, MayWrite, diskVars
<1>2. /\ ~committing /\ boot = "up" /\ p \in Open /\ Installed = 0
      /\ \A q \in Procs : pc[q] \notin CommitPhases
      /\ \A ph \in CommitPhases : ~At(ph)
  BY <1>1, OpenMeansNoCommit
<1>3. /\ Open' = Open /\ \A ph \in CommitPhases : ~At(ph)'
  BY <1>1, <1>2 DEF Open, At
<1>4. Installed' = 0
  BY <1>1, <1>2 DEF Installed, CommitPhases
<1>5. /\ lh \in Seq(Homes) /\ Len(lh) \in Nat
      /\ \A i \in 1 .. Len(lh) : lh[i] \in Homes
  BY LenProperties, ElementOfSeq DEF TypeOK
<1>6. TypeOK'
  <2>1. pins' \in [Homes -> Nat] /\ cache' \in [Homes -> Contents]
    BY <1>1 DEF TypeOK
  <2>2. wrote' \in [Procs -> SUBSET Homes]
    BY <1>1 DEF TypeOK
  <2> QED BY <1>1, <2>1, <2>2, LogGrows DEF TypeOK
<1>7. Actors'
  BY <1>1, <1>3 DEF Actors
<1>8. TailInRange'
  BY <1>1, <1>2, <1>3 DEF TailInRange, CommitPhases
<1>9. SpaceReserved'
  <2>1. \A q \in Procs : wrote'[q] \subseteq Logged'
    BY <1>1, LogGrows DEF SpaceReserved, TypeOK
  <2>2. \A q \in Procs : IsFiniteSet(wrote'[q])
    BY <1>1, CreditSpent DEF SpaceReserved, TypeOK
  <2>3. \A q \in Procs : pc'[q] # "op" => wrote'[q] = {}
    BY <1>1 DEF SpaceReserved, TypeOK
  <2> QED BY <2>1, <2>2, <2>3, CreditSpent DEF SpaceReserved
<1>10. SleepersMustWait'
  <2> DEFINE need == (outstanding + 1) * MAXOPBLOCKS
  <2>1. need \in Nat /\ Len(lh) <= Len(lh') /\ LOGBLOCKS \in Nat /\ Len(lh') \in Nat
    <3>1. outstanding \in Nat /\ MAXOPBLOCKS \in Nat /\ LOGBLOCKS \in Nat
      BY LogAssumption DEF TypeOK
    <3>2. need \in Nat
      BY <3>1
    <3>3. Len(lh') \in Nat /\ Len(lh) <= Len(lh')
      BY <1>5, LogGrows
    <3> QED BY <3>1, <3>2, <3>3
  <2>2. MustWait => MustWait'
    <3>1. MustWait <=> committing \/ Len(lh) + need > LOGBLOCKS
      BY DEF MustWait
    <3>2. MustWait' <=> committing' \/ Len(lh') + need > LOGBLOCKS
      BY <1>1 DEF MustWait
    <3> HIDE DEF need
    <3> QED BY <1>1, <1>5, <2>1, <3>1, <3>2
  <2> QED BY <1>1, <2>2 DEF SleepersMustWait
<1>11. PinnedWhileLogged'
  <2>1. CASE b \in Logged
    BY <1>1, <1>4, <1>2, <2>1, LogGrows DEF PinnedWhileLogged
  <2>2. CASE b \notin Logged
    <3>1. \A i \in 1 .. Len(lh) : lh[i] # b
      BY <2>2 DEF Logged
    <3>2. /\ Len(lh') = Len(lh) + 1 /\ lh'[Len(lh')] = b
          /\ \A i \in 1 .. Len(lh) : lh'[i] = lh[i]
      BY <2>2, LogGrows
    <3>3. \A i, j \in 1 .. Len(lh') : lh'[i] = lh'[j] => i = j
      BY <1>2, <1>5, <3>1, <3>2 DEF PinnedWhileLogged
    <3>4. ASSUME NEW c \in Homes
          PROVE  pins'[c] = IF \E i \in 1 .. Len(lh') : lh'[i] = c THEN 1 ELSE 0
      <4>1. pins[c] = IF \E i \in 1 .. Len(lh) : lh[i] = c THEN 1 ELSE 0
        BY <1>2 DEF PinnedWhileLogged
      <4>2. CASE c = b
        <5>1. pins'[c] = pins[c] + 1 /\ pins[c] = 0
          BY <1>1, <2>2, <3>1, <4>1, <4>2 DEF TypeOK
        <5>2. Len(lh') \in 1 .. Len(lh') /\ lh'[Len(lh')] = c
          BY <1>5, <3>2, <4>2
        <5> QED BY <5>1, <5>2
      <4>3. CASE c # b
        <5>1. pins'[c] = pins[c]
          BY <1>1, <2>2, <4>3 DEF TypeOK
        <5>2. \A i \in 1 .. Len(lh') : i \in 1 .. Len(lh) \/ i = Len(lh')
          BY <1>5, <3>2
        <5>3. \A i \in 1 .. Len(lh) : i \in 1 .. Len(lh')
          BY <1>5, <3>2
        <5>4. (\E i \in 1 .. Len(lh') : lh'[i] = c) <=> \E i \in 1 .. Len(lh) : lh[i] = c
          BY <3>2, <4>3, <5>2, <5>3
        <5> QED BY <4>1, <5>1, <5>4
      <4> QED BY <4>2, <4>3
    <3> QED BY <1>4, <3>3, <3>4 DEF PinnedWhileLogged
  <2> QED BY <2>1, <2>2
<1>12. CopiesAgree'
  <2>1. \A c \in Homes \ Logged' : cache'[c] = home'[c]
    BY <1>1, <1>2, LogGrows DEF CopiesAgree, TypeOK
  <2>2. outstanding # 0
    BY <1>2, FS_EmptySet DEF Actors
  <2> QED BY <1>1, <1>2, <1>3, <1>4, <2>1, <2>2 DEF CopiesAgree, CommitPhases
<1>13. RecoveryAgrees'
  BY <1>1, <1>2 DEF RecoveryAgrees
<1> QED
  BY <1>6, <1>7, <1>8, <1>9, <1>10, <1>11, <1>12, <1>13

(* end_op() while other operations are under way. *)
LEMMA EndOpNotLastInv ==
  ASSUME LogInv, NEW p \in Procs, EndOpNotLast(p)
  PROVE  LogInv'
<1> USE DEF LogInv
<1>1. /\ pc[p] = "op" /\ outstanding > 1 /\ outstanding' = outstanding - 1
      /\ wrote' = [wrote EXCEPT ![p] = {}]
      /\ pc'[p] = "idle"
      /\ \A q \in Procs \ {p} : pc'[q] = IF pc[q] = "sleep" THEN "begin" ELSE pc[q]
      /\ pc' \in [Procs -> Phases]
      /\ UNCHANGED <<home, slots, header, cache, pins, lh, committing, tail, boot>>
  BY DEF EndOpNotLast, WakeAllAndGoto, diskVars, TypeOK, Phases
<1>2. /\ ~committing /\ boot = "up" /\ p \in Open /\ Installed = 0
      /\ \A q \in Procs : pc[q] \notin CommitPhases
      /\ \A ph \in CommitPhases : ~At(ph)
  BY <1>1, OpenMeansNoCommit
<1>3. \A q \in Procs : pc'[q] \notin CommitPhases /\ pc'[q] # "sleep"
  BY <1>1, <1>2 DEF CommitPhases
<1>4. \A ph \in CommitPhases : ~At(ph)'
  BY <1>3 DEF At
<1>5. Installed' = 0
  BY <1>3 DEF Installed, CommitPhases
<1>6. Open' = Open \ {p}
  BY <1>1 DEF Open
<1>7. IsFiniteSet(Open') /\ Cardinality(Open') = outstanding'
  BY <1>1, <1>2, <1>6, FS_RemoveElement DEF Actors
<1>8. TypeOK'
  <2>1. outstanding' \in Nat
    BY <1>1 DEF TypeOK
  <2> QED BY <1>1, <2>1 DEF TypeOK
<1>9. Actors'
  BY <1>1, <1>2, <1>3, <1>7 DEF Actors
<1>10. TailInRange'
  BY <1>1, <1>2, <1>4 DEF TailInRange, CommitPhases
<1>11. SpaceReserved'
  <2>1. Credit' \in SUBSET Credit
    BY <1>1, <1>6 DEF Credit, Open, TypeOK
  <2>2. IsFiniteSet(Credit) /\ Cardinality(Credit) \in Nat
    BY CreditBound DEF Credit, Credits, Actors
  <2>3. Cardinality(Credit') <= Cardinality(Credit) /\ Cardinality(Credit') \in Nat
    BY <2>1, <2>2, FS_Subset, FS_CardinalityType
  <2>4. Len(lh) \in Nat /\ LOGBLOCKS \in Nat
    BY LogAssumption, LenProperties DEF TypeOK
  <2>5. Len(lh') + Cardinality(Credit') <= LOGBLOCKS
    BY <1>1, <2>2, <2>3, <2>4 DEF SpaceReserved
  <2>6. \A q \in Procs :
          /\ IsFiniteSet(wrote'[q]) /\ wrote'[q] \subseteq Logged'
          /\ pc'[q] # "op" => wrote'[q] = {}
    BY <1>1, FS_EmptySet DEF SpaceReserved, Logged, TypeOK
  <2> QED BY <2>5, <2>6 DEF SpaceReserved
<1>12. SleepersMustWait'
  BY <1>3 DEF SleepersMustWait
<1>13. PinnedWhileLogged'
  BY <1>1, <1>2, <1>5 DEF PinnedWhileLogged
<1>14. CopiesAgree'
  <2>1. outstanding' # 0
    BY <1>1 DEF TypeOK
  <2> QED BY <1>1, <1>2, <1>4, <1>5, <2>1 DEF CopiesAgree, CommitPhases, Logged
<1>15. RecoveryAgrees'
  BY <1>1, <1>2 DEF RecoveryAgrees
<1> QED
  BY <1>8, <1>9, <1>10, <1>11, <1>12, <1>13, <1>14, <1>15

(* end_op() of the last operation, which will commit. *)
LEMMA EndOpLastInv ==
  ASSUME LogInv, NEW p \in Procs, EndOpLast(p)
  PROVE  LogInv'
<1> USE DEF LogInv
<1> DEFINE next == IF lh = <<>> THEN "finish" ELSE "log"
<1>1. /\ pc[p] = "op" /\ outstanding = 1 /\ outstanding' = 0
      /\ committing' = TRUE /\ tail' = 0
      /\ wrote' = [wrote EXCEPT ![p] = {}]
      /\ pc' = [pc EXCEPT ![p] = next]
      /\ UNCHANGED <<home, slots, header, cache, pins, lh, boot>>
  BY DEF EndOpLast, Goto, diskVars
<1>2. /\ boot = "up" /\ p \in Open /\ Installed = 0
      /\ \A q \in Procs : pc[q] \notin CommitPhases
      /\ \A ph \in CommitPhases : ~At(ph)
  BY <1>1, OpenMeansNoCommit
<1>3. Open = {p}
  <2>1. IsFiniteSet(Open) /\ Cardinality(Open) = 1
    BY <1>1 DEF Actors
  <2>2. PICK q : Open = {q}
    BY <2>1, FS_Singleton
  <2> QED BY <1>2, <2>2
<1>4. /\ pc'[p] = next /\ next \in CommitPhases
      /\ \A q \in Procs : q # p => pc'[q] = pc[q]
  BY <1>1 DEF TypeOK, CommitPhases
<1>5. Open' = {}
  BY <1>3, <1>4 DEF Open, CommitPhases
<1>6. \A ph \in CommitPhases : At(ph)' <=> next = ph
  BY <1>2, <1>4 DEF At
<1>7. Installed' = 0
  <2>1. \A q \in Procs : pc'[q] # "erase" /\ pc'[q] # "install"
    BY <1>2, <1>4 DEF CommitPhases
  <2> QED BY <2>1 DEF Installed
<1>8. TypeOK'
  BY <1>1 DEF TypeOK, Phases
<1>9. Actors'
  BY <1>1, <1>2, <1>4, <1>5, FS_EmptySet DEF Actors
<1>10. Len(lh) \in Nat /\ (lh # <<>> => Len(lh) > 0)
  BY EmptySeq, LenProperties DEF TypeOK
<1>11. TailInRange'
  BY <1>1, <1>2, <1>6, <1>10 DEF TailInRange, CommitPhases
<1>12. SpaceReserved'
  <2>1. Credit' = {} /\ Cardinality(Credit') = 0
    BY <1>5, FS_EmptySet DEF Credit
  <2>2. Len(lh') + 0 <= LOGBLOCKS
    BY <1>1, <1>10, LogAssumption DEF TypeOK
  <2>3. \A q \in Procs : wrote'[q] = {}
    BY <1>1, <1>3 DEF SpaceReserved, TypeOK, Open
  <2> QED BY <2>1, <2>2, <2>3, FS_EmptySet DEF SpaceReserved
<1>13. SleepersMustWait'
  BY <1>1 DEF SleepersMustWait, MustWait
<1>14. PinnedWhileLogged'
  BY <1>1, <1>2, <1>7 DEF PinnedWhileLogged
<1>15. CopiesAgree'
  BY <1>1, <1>2, <1>6, <1>7 DEF CopiesAgree, CommitPhases, Logged
<1>16. RecoveryAgrees'
  BY <1>1, <1>2 DEF RecoveryAgrees
<1> QED
  BY <1>8, <1>9, <1>11, <1>12, <1>13, <1>14, <1>15, <1>16

(***************************************************************************)
(* What the steps of commit() have in common: the one that commits stays   *)
(* alone, has no operation open beside it, and no credit is left.          *)
(***************************************************************************)
LEMMA CommitStep ==
  ASSUME LogInv, NEW p \in Procs, pc[p] \in CommitPhases,
         NEW next \in CommitPhases, pc' = [pc EXCEPT ![p] = next],
         UNCHANGED <<outstanding, committing, wrote, boot>>
  PROVE  /\ boot = "up" /\ committing /\ outstanding = 0
         /\ pc' \in [Procs -> Phases]
         /\ \A ph \in CommitPhases : At(ph) <=> pc[p] = ph
         /\ \A ph \in CommitPhases : At(ph)' <=> next = ph
         /\ Actors' /\ SleepersMustWait'
         /\ Credit' = {} /\ Cardinality(Credit') = 0
         /\ \A q \in Procs : wrote'[q] = {}
<1> USE DEF LogInv
<1>1. /\ boot = "up" /\ committing /\ Open = {} /\ outstanding = 0
      /\ \A q \in Procs : q # p => pc[q] \in Waiting
      /\ \A ph \in CommitPhases : At(ph) <=> pc[p] = ph
  BY CommitterAlone
<1>2. /\ pc' \in [Procs -> Phases] /\ pc'[p] = next
      /\ \A q \in Procs : q # p => pc'[q] = pc[q]
  BY DEF TypeOK, Phases, CommitPhases
<1>3. \A ph \in CommitPhases : At(ph)' <=> next = ph
  BY <1>1, <1>2 DEF At, Waiting, CommitPhases
<1>4. Open' = {}
  BY <1>1, <1>2 DEF Open, Waiting, CommitPhases
<1>5. Actors'
  BY <1>1, <1>2, <1>4, FS_EmptySet DEF Actors, Waiting, CommitPhases
<1>6. SleepersMustWait'
  BY <1>1 DEF SleepersMustWait, MustWait
<1>7. Credit' = {} /\ Cardinality(Credit') = 0
  BY <1>4, FS_EmptySet DEF Credit
<1>8. \A q \in Procs : wrote'[q] = {}
  BY <1>1 DEF SpaceReserved, Open
<1> QED BY <1>1, <1>2, <1>3, <1>5, <1>6, <1>7, <1>8

(* Without operations, the log has the space that its length takes. *)
LEMMA NobodyReserves ==
  ASSUME TypeOK', Cardinality(Credit') = 0, \A q \in Procs : wrote'[q] = {}
  PROVE  SpaceReserved'
<1>1. Len(lh') \in Nat /\ Len(lh') <= LOGBLOCKS /\ LOGBLOCKS \in Nat
  BY LogAssumption, LenProperties DEF TypeOK
<1>2. Len(lh') + Cardinality(Credit') <= LOGBLOCKS
  BY <1>1
<1>3. \A q \in Procs : IsFiniteSet(wrote'[q]) /\ wrote'[q] \subseteq Logged'
  BY FS_EmptySet
<1> QED BY <1>2, <1>3 DEF SpaceReserved

(* The log as it is written down. *)
LEMMA LogShape ==
  ASSUME LogInv
  PROVE  /\ lh \in Seq(Homes) /\ Len(lh) \in Nat /\ Len(lh) <= LOGBLOCKS
         /\ LOGBLOCKS \in Nat
         /\ \A i \in 1 .. Len(lh) : lh[i] \in Homes
         /\ lh # <<>> <=> Len(lh) > 0
  BY LogAssumption, LenProperties, ElementOfSeq, EmptySeq DEF LogInv, TypeOK

(* write_log(), one block. *)
LEMMA WriteLogInv ==
  ASSUME LogInv, NEW p \in Procs, WriteLog(p)
  PROVE  LogInv'
<1> USE DEF LogInv
<1> DEFINE next == IF tail + 1 < Len(lh) THEN "log" ELSE "commit"
<1>1. /\ pc[p] = "log" /\ pc[p] \in CommitPhases /\ next \in CommitPhases
      /\ slots' = [slots EXCEPT ![tail + 1] = cache[lh[tail + 1]]]
      /\ tail' = IF tail + 1 < Len(lh) THEN tail + 1 ELSE 0
      /\ pc' = [pc EXCEPT ![p] = next]
      /\ UNCHANGED <<home, header, cache, pins, lh, outstanding, committing,
                     wrote, boot>>
  BY DEF WriteLog, Goto, TypeOK, CommitPhases
<1>2. /\ boot = "up"
      /\ pc' \in [Procs -> Phases]
      /\ \A ph \in CommitPhases : At(ph) <=> pc[p] = ph
      /\ \A ph \in CommitPhases : At(ph)' <=> next = ph
      /\ Actors' /\ SleepersMustWait' /\ Cardinality(Credit') = 0
      /\ \A q \in Procs : wrote'[q] = {}
  BY <1>1, CommitStep
<1>3. /\ Len(lh) \in Nat /\ Len(lh) <= LOGBLOCKS /\ LOGBLOCKS \in Nat
      /\ tail \in Nat /\ tail < Len(lh) /\ tail + 1 \in 1 .. LOGBLOCKS
      /\ lh[tail + 1] \in Homes /\ lh # <<>>
  <2>1. tail \in Nat /\ tail < Len(lh)
    BY <1>1, <1>2 DEF TailInRange, TypeOK, CommitPhases
  <2>2. tail + 1 \in 1 .. Len(lh)
    BY <2>1, LogShape
  <2> QED BY <2>1, <2>2, LogShape
<1>4. Installed = 0 /\ Installed' = 0
  BY <1>1, <1>2 DEF Installed, At, CommitPhases
<1>5. TypeOK'
  <2>1. slots' \in [1 .. LOGBLOCKS -> Contents]
    BY <1>1, <1>3 DEF TypeOK
  <2>2. tail' \in Nat
    BY <1>1, <1>3
  <2> QED BY <1>1, <1>2, <2>1, <2>2 DEF TypeOK
<1>6. TailInRange'
  BY <1>1, <1>2, <1>3 DEF TailInRange, CommitPhases
<1>7. SpaceReserved'
  BY <1>2, <1>5, NobodyReserves
<1>8. PinnedWhileLogged'
  BY <1>1, <1>2, <1>4 DEF PinnedWhileLogged
<1>9. CopiesAgree'
  <2>1. \A i \in 1 .. tail : slots[i] = cache[lh[i]]
    BY <1>1, <1>2 DEF CopiesAgree, CommitPhases
  <2>2. slots'[tail + 1] = cache[lh[tail + 1]]
    BY <1>1, <1>3 DEF TypeOK
  <2>3. ASSUME NEW i \in 1 .. tail + 1
        PROVE  slots'[i] = cache[lh[i]]
    <3>1. CASE i = tail + 1
      BY <2>2, <3>1
    <3>2. CASE i # tail + 1
      <4>1. i \in 1 .. tail /\ i \in 1 .. LOGBLOCKS
        BY <1>3, <3>2
      <4> QED BY <1>1, <2>1, <3>2, <4>1 DEF TypeOK
    <3> QED BY <3>1, <3>2
  <2>4. next = "commit" => tail + 1 = Len(lh)
    BY <1>3
  <2>5. header = <<>> /\ \A b \in Homes \ Logged : cache[b] = home[b]
    BY <1>1, <1>2 DEF CopiesAgree, CommitPhases
  <2>6. next = "log" => tail' = tail + 1
    BY <1>1
  <2> QED
    BY <1>1, <1>2, <1>4, <2>3, <2>4, <2>5, <2>6 DEF CopiesAgree, CommitPhases, Logged
<1>10. RecoveryAgrees'
  BY <1>1, <1>2 DEF RecoveryAgrees
<1> QED BY <1>2, <1>5, <1>6, <1>7, <1>8, <1>9, <1>10

(* write_head(): the commit point. *)
LEMMA CommitInv ==
  ASSUME LogInv, NEW p \in Procs, Commit(p)
  PROVE  LogInv'
<1> USE DEF LogInv
<1>1. /\ pc[p] = "commit" /\ pc[p] \in CommitPhases /\ "install" \in CommitPhases
      /\ header' = lh
      /\ pc' = [pc EXCEPT ![p] = "install"]
      /\ UNCHANGED <<home, slots, cache, pins, lh, outstanding, committing, tail,
                     wrote, boot>>
  BY DEF Commit, Goto, CommitPhases
<1>2. /\ boot = "up"
      /\ pc' \in [Procs -> Phases]
      /\ \A ph \in CommitPhases : At(ph) <=> pc[p] = ph
      /\ \A ph \in CommitPhases : At(ph)' <=> "install" = ph
      /\ Actors' /\ SleepersMustWait' /\ Cardinality(Credit') = 0
      /\ \A q \in Procs : wrote'[q] = {}
  BY <1>1, CommitStep
<1>3. tail = 0 /\ lh # <<>> /\ Len(lh) > 0
  BY <1>1, <1>2, LogShape DEF TailInRange, CommitPhases
<1>4. Installed = 0 /\ Installed' = 0
  BY <1>1, <1>2, <1>3 DEF Installed, At, CommitPhases
<1>5. TypeOK'
  BY <1>1, <1>2 DEF TypeOK
<1>6. TailInRange'
  BY <1>1, <1>2, <1>3 DEF TailInRange, CommitPhases
<1>7. SpaceReserved'
  BY <1>2, <1>5, NobodyReserves
<1>8. PinnedWhileLogged'
  BY <1>1, <1>2, <1>4 DEF PinnedWhileLogged
<1>9. CopiesAgree'
  BY <1>1, <1>2, <1>4 DEF CopiesAgree, CommitPhases, Logged
<1>10. RecoveryAgrees'
  BY <1>1, <1>2 DEF RecoveryAgrees, PinnedWhileLogged
<1> QED BY <1>2, <1>5, <1>6, <1>7, <1>8, <1>9, <1>10

(* install_trans(0), one block: it comes home, and its pin goes. *)
LEMMA InstallInv ==
  ASSUME LogInv, NEW p \in Procs, Install(p)
  PROVE  LogInv'
<1> USE DEF LogInv
<1> DEFINE next == IF tail + 1 < Len(lh) THEN "install" ELSE "erase"
           b == lh[tail + 1]
<1>1. /\ pc[p] = "install" /\ pc[p] \in CommitPhases /\ next \in CommitPhases
      /\ home' = [home EXCEPT ![b] = slots[tail + 1]]
      /\ cache' = [cache EXCEPT ![b] = slots[tail + 1]]
      /\ pins' = [pins EXCEPT ![b] = pins[b] - 1]
      /\ tail' = IF tail + 1 < Len(lh) THEN tail + 1 ELSE 0
      /\ pc' = [pc EXCEPT ![p] = next]
      /\ UNCHANGED <<slots, header, lh, outstanding, committing, wrote, boot>>
  BY DEF Install, Goto, TypeOK, CommitPhases
<1>2. /\ boot = "up"
      /\ pc' \in [Procs -> Phases]
      /\ \A ph \in CommitPhases : At(ph) <=> pc[p] = ph
      /\ \A ph \in CommitPhases : At(ph)' <=> next = ph
      /\ Actors' /\ SleepersMustWait' /\ Cardinality(Credit') = 0
      /\ \A q \in Procs : wrote'[q] = {}
  BY <1>1, CommitStep
<1>3. /\ Len(lh) \in Nat /\ Len(lh) <= LOGBLOCKS /\ LOGBLOCKS \in Nat
      /\ tail \in Nat /\ tail < Len(lh) /\ tail + 1 \in 1 .. Len(lh)
      /\ tail + 1 \in 1 .. LOGBLOCKS /\ slots[tail + 1] \in Contents
      /\ b \in Homes
  <2>1. tail \in Nat /\ tail < Len(lh)
    BY <1>1, <1>2 DEF TailInRange, TypeOK, CommitPhases
  <2>2. tail + 1 \in 1 .. Len(lh) /\ tail + 1 \in 1 .. LOGBLOCKS
    BY <2>1, LogShape
  <2>3. slots[tail + 1] \in Contents
    BY <2>2 DEF TypeOK
  <2>4. b \in Homes
    BY <2>2, LogShape
  <2> HIDE DEF b
  <2> QED BY <2>1, <2>2, <2>3, <2>4, LogShape
<1>4. Installed = tail /\ Installed' = tail + 1
  <2>1. Installed = tail
    BY <1>1, <1>2 DEF Installed, At, CommitPhases
  <2>2. Installed' = IF next = "erase" THEN Len(lh') ELSE tail'
    BY <1>1, <1>2 DEF Installed, At, CommitPhases
  <2>3. next = "erase" => Len(lh') = tail + 1
    BY <1>1, <1>3
  <2>4. next # "erase" => tail' = tail + 1
    BY <1>1
  <2> QED BY <2>1, <2>2, <2>3, <2>4
<1>5. /\ \A i, j \in 1 .. Len(lh) : lh[i] = lh[j] => i = j
      /\ \A c \in Homes :
           pins[c] = IF \E i \in tail + 1 .. Len(lh) : lh[i] = c THEN 1 ELSE 0
  BY <1>2, <1>4 DEF PinnedWhileLogged
<1>6. pins[b] = 1
  <2>1. tail + 1 \in tail + 1 .. Len(lh)
    BY <1>3
  <2> QED BY <1>3, <1>5, <2>1
<1>7. cache[b] = slots[tail + 1] /\ cache' = cache
  <2>1. cache[b] = slots[tail + 1]
    BY <1>1, <1>2, <1>3 DEF CopiesAgree, CommitPhases
  <2> QED BY <1>1, <2>1 DEF TypeOK
<1>8. TypeOK'
  <2>1. pins' \in [Homes -> Nat]
    <3> HIDE DEF b
    <3>1. pins[b] - 1 \in Nat
      BY <1>6
    <3> QED BY <1>1, <3>1 DEF TypeOK
  <2>2. home' \in [Homes -> Contents]
    BY <1>1, <1>3 DEF TypeOK
  <2>3. tail' \in Nat
    BY <1>1, <1>3
  <2> QED BY <1>1, <1>2, <1>7, <2>1, <2>2, <2>3 DEF TypeOK
<1>9. TailInRange'
  BY <1>1, <1>2, <1>3 DEF TailInRange, CommitPhases
<1>10. SpaceReserved'
  BY <1>2, <1>8, NobodyReserves
<1>11. PinnedWhileLogged'
  <2>1. ASSUME NEW c \in Homes
        PROVE  pins'[c] = IF \E i \in tail + 2 .. Len(lh) : lh[i] = c THEN 1 ELSE 0
    <3>1. CASE c = b
      <4>1. pins'[c] = 0
        BY <1>1, <1>3, <1>6, <3>1 DEF TypeOK
      <4>2. \A i \in tail + 2 .. Len(lh) : i \in 1 .. Len(lh) /\ i # tail + 1
        BY <1>3
      <4>3. \A i \in tail + 2 .. Len(lh) : lh[i] # c
        BY <1>3, <1>5, <3>1, <4>2
      <4> QED BY <4>1, <4>3
    <3>2. CASE c # b
      <4>1. pins'[c] = pins[c]
        BY <1>1, <3>2 DEF TypeOK
      <4>2. \A i \in tail + 1 .. Len(lh) : i = tail + 1 \/ i \in tail + 2 .. Len(lh)
        BY <1>3
      <4>3. \A i \in tail + 2 .. Len(lh) : i \in tail + 1 .. Len(lh)
        BY <1>3
      <4>4. (\E i \in tail + 1 .. Len(lh) : lh[i] = c)
              <=> \E i \in tail + 2 .. Len(lh) : lh[i] = c
        BY <3>2, <4>2, <4>3
      <4> QED BY <1>5, <4>1, <4>4
    <3> QED BY <3>1, <3>2
  <2>2. Installed' + 1 = tail + 2
    BY <1>3, <1>4
  <2> HIDE DEF b, next
  <2> QED BY <1>1, <1>5, <2>1, <2>2 DEF PinnedWhileLogged
<1>12. CopiesAgree'
  <2>1. \A c \in Homes \ Logged : cache[c] = home[c] /\ c # b
    BY <1>2, <1>3 DEF CopiesAgree, Logged
  <2>2. \A c \in Homes \ Logged : cache'[c] = home'[c]
    BY <1>1, <1>7, <2>1 DEF TypeOK
  <2>3. header = lh /\ \A i \in 1 .. Len(lh) : slots[i] = cache[lh[i]]
    BY <1>1, <1>2 DEF CopiesAgree, CommitPhases
  <2>4. \A i \in 1 .. tail : home[lh[i]] = slots[i]
    BY <1>2, <1>4 DEF CopiesAgree
  <2>5. ASSUME NEW i \in 1 .. tail + 1
        PROVE  home'[lh[i]] = slots[i]
    <3>1. i \in 1 .. Len(lh) /\ lh[i] \in Homes
      BY <1>3, LogShape
    <3>2. CASE i = tail + 1
      BY <1>1, <1>3, <3>2 DEF TypeOK
    <3>3. CASE i # tail + 1
      <4>1. i \in 1 .. tail
        BY <1>3, <3>3
      <4>2. lh[i] # b
        BY <1>3, <1>5, <3>1, <3>3
      <4> QED BY <1>1, <2>4, <3>1, <4>1, <4>2 DEF TypeOK
    <3> QED BY <3>2, <3>3
  <2> HIDE DEF b
  <2> QED
    BY <1>1, <1>2, <1>4, <1>7, <2>2, <2>3, <2>5 DEF CopiesAgree, CommitPhases, Logged
<1>13. RecoveryAgrees'
  BY <1>1, <1>2 DEF RecoveryAgrees
<1> QED BY <1>2, <1>8, <1>9, <1>10, <1>11, <1>12, <1>13

(* The second write_head(): the log is empty, in memory and on disk. *)
LEMMA EraseInv ==
  ASSUME LogInv, NEW p \in Procs, Erase(p)
  PROVE  LogInv'
<1> USE DEF LogInv
<1>1. /\ pc[p] = "erase" /\ pc[p] \in CommitPhases /\ "finish" \in CommitPhases
      /\ lh' = <<>> /\ header' = <<>>
      /\ pc' = [pc EXCEPT ![p] = "finish"]
      /\ UNCHANGED <<home, slots, cache, pins, outstanding, committing, tail,
                     wrote, boot>>
  BY DEF Erase, Goto, CommitPhases
<1>2. /\ boot = "up"
      /\ pc' \in [Procs -> Phases]
      /\ \A ph \in CommitPhases : At(ph) <=> pc[p] = ph
      /\ \A ph \in CommitPhases : At(ph)' <=> "finish" = ph
      /\ Actors' /\ SleepersMustWait' /\ Cardinality(Credit') = 0
      /\ \A q \in Procs : wrote'[q] = {}
  BY <1>1, CommitStep
<1>3. Installed = Len(lh) /\ Installed' = 0
  BY <1>1, <1>2 DEF Installed, At, CommitPhases
<1>4. Len(lh) \in Nat /\ LOGBLOCKS \in Nat
  BY LogShape
<1>5. lh' \in Seq(Homes) /\ Len(lh') = 0
  BY <1>1, EmptySeq
<1>6. TypeOK'
  BY <1>1, <1>2, <1>4, <1>5 DEF TypeOK
<1>7. TailInRange'
  BY <1>1, <1>2 DEF TailInRange, CommitPhases
<1>8. SpaceReserved'
  BY <1>2, <1>6, NobodyReserves
<1>9. PinnedWhileLogged'
  <2>1. \A c \in Homes : pins[c] = 0
    BY <1>2, <1>3, <1>4 DEF PinnedWhileLogged
  <2>2. \A i \in Installed' + 1 .. Len(lh') : FALSE
    BY <1>3, <1>5
  <2>3. \A i \in 1 .. Len(lh') : FALSE
    BY <1>5
  <2> QED BY <1>1, <2>1, <2>2, <2>3 DEF PinnedWhileLogged
<1>10. CopiesAgree'
  <2>1. ASSUME NEW c \in Homes PROVE cache[c] = home[c]
    <3>1. CASE c \in Logged
      <4>1. PICK i \in 1 .. Len(lh) : lh[i] = c
        BY <3>1 DEF Logged
      <4>2. slots[i] = cache[lh[i]]
        BY <1>1, <1>2 DEF CopiesAgree, CommitPhases
      <4>3. home[lh[i]] = slots[i]
        BY <1>2, <1>3 DEF CopiesAgree
      <4> QED BY <4>1, <4>2, <4>3
    <3>2. CASE c \notin Logged
      BY <1>2, <3>2 DEF CopiesAgree
    <3> QED BY <3>1, <3>2
  <2> QED BY <1>1, <1>2, <1>3, <2>1 DEF CopiesAgree, CommitPhases
<1>11. RecoveryAgrees'
  BY <1>1, <1>2, <1>5 DEF RecoveryAgrees
<1> QED BY <1>2, <1>6, <1>7, <1>8, <1>9, <1>10, <1>11

(* The end of end_op(). *)
LEMMA FinishInv ==
  ASSUME LogInv, NEW p \in Procs, Finish(p)
  PROVE  LogInv'
<1> USE DEF LogInv
<1>1. /\ pc[p] = "finish" /\ pc[p] \in CommitPhases
      /\ committing' = FALSE
      /\ pc'[p] = "idle"
      /\ \A q \in Procs \ {p} : pc'[q] = IF pc[q] = "sleep" THEN "begin" ELSE pc[q]
      /\ pc' \in [Procs -> Phases]
      /\ UNCHANGED <<home, slots, header, cache, pins, lh, outstanding, tail,
                     wrote, boot>>
  BY DEF Finish, WakeAllAndGoto, diskVars, CommitPhases, TypeOK, Phases
<1>2. /\ boot = "up" /\ Open = {} /\ outstanding = 0
      /\ \A q \in Procs : q # p => pc[q] \in Waiting
      /\ \A ph \in CommitPhases : At(ph) <=> pc[p] = ph
  BY <1>1, CommitterAlone
<1>3. \A q \in Procs : pc'[q] \in {"idle", "begin"}
  BY <1>1, <1>2 DEF Waiting
<1>4. /\ Open' = {} /\ Installed' = 0 /\ Installed = 0
      /\ \A ph \in CommitPhases : ~At(ph)'
  BY <1>1, <1>2, <1>3 DEF Open, Installed, At, CommitPhases, Waiting
<1>5. lh = <<>>
  BY <1>1, <1>2 DEF CopiesAgree, CommitPhases
<1>6. TypeOK'
  BY <1>1 DEF TypeOK
<1>7. Actors'
  BY <1>1, <1>2, <1>3, <1>4, FS_EmptySet DEF Actors, CommitPhases
<1>8. TailInRange'
  BY <1>1, <1>2, <1>4 DEF TailInRange, CommitPhases
<1>9. SpaceReserved'
  <2>1. \A q \in Procs : wrote'[q] = {}
    BY <1>1, <1>2 DEF SpaceReserved, Open
  <2>2. Cardinality(Credit') = 0
    BY <1>4, FS_EmptySet DEF Credit
  <2> QED BY <1>6, <2>1, <2>2, NobodyReserves
<1>10. SleepersMustWait'
  BY <1>3 DEF SleepersMustWait
<1>11. PinnedWhileLogged'
  BY <1>1, <1>2, <1>4 DEF PinnedWhileLogged
<1>12. CopiesAgree'
  BY <1>1, <1>2, <1>4, <1>5 DEF CopiesAgree, CommitPhases, Logged
<1>13. RecoveryAgrees'
  BY <1>1, <1>2 DEF RecoveryAgrees
<1> QED BY <1>6, <1>7, <1>8, <1>9, <1>10, <1>11, <1>12, <1>13

-----------------------------------------------------------------------------
(* Crash and recovery.                                                     *)

(***************************************************************************)
(* When no process is under way, as from a crash to the end of recovery,   *)
(* most of the invariant says nothing.                                     *)
(***************************************************************************)
LEMMA NobodyThere ==
  ASSUME TypeOK', \A p \in Procs : pc'[p] = "idle" /\ wrote'[p] = {},
         outstanding' = 0, committing' = FALSE
  PROVE  /\ Actors' /\ SpaceReserved' /\ SleepersMustWait'
         /\ Installed' = 0 /\ \A ph \in CommitPhases : ~At(ph)'
<1>1. Open' = {}
  BY DEF Open
<1>2. Actors'
  BY <1>1, FS_EmptySet DEF Actors, CommitPhases
<1>3. SpaceReserved'
  <2>1. Cardinality(Credit') = 0
    BY <1>1, FS_EmptySet DEF Credit
  <2> QED BY <2>1, NobodyReserves
<1>4. SleepersMustWait'
  BY DEF SleepersMustWait
<1>5. Installed' = 0 /\ \A ph \in CommitPhases : ~At(ph)'
  BY DEF Installed, At, CommitPhases
<1> QED BY <1>2, <1>3, <1>4, <1>5

(* And this is so as long as recovery lasts. *)
LEMMA RecoveryAlone ==
  ASSUME LogInv, boot # "up"
  PROVE  /\ \A p \in Procs : pc[p] = "idle" /\ wrote[p] = {}
         /\ outstanding = 0 /\ committing = FALSE
<1> USE DEF LogInv
<1>1. \A p \in Procs : pc[p] = "idle" /\ wrote[p] = {}
  BY DEF Actors, SpaceReserved
<1>2. Open = {} /\ committing = FALSE
  BY <1>1 DEF Open, Actors, CommitPhases, TypeOK
<1> QED BY <1>1, <1>2, FS_EmptySet DEF Actors

(* The machine crashes. *)
LEMMA CrashInv == ASSUME LogInv, Crash PROVE LogInv'
<1> USE DEF LogInv
<1>1. /\ boot' = "read" /\ cache' = home /\ pins' = [b \in Homes |-> 0]
      /\ lh' = <<>> /\ outstanding' = 0 /\ committing' = FALSE /\ tail' = 0
      /\ pc' = [p \in Procs |-> "idle"] /\ wrote' = [p \in Procs |-> {}]
      /\ UNCHANGED <<home, slots, header>>
  BY DEF Crash, diskVars
<1>2. lh' \in Seq(Homes) /\ Len(lh') <= LOGBLOCKS
  <2>1. lh' \in Seq(Homes) /\ Len(lh') = 0 /\ LOGBLOCKS \in Nat
    BY <1>1, EmptySeq, LogAssumption
  <2> QED BY <2>1
<1>3. TypeOK'
  BY <1>1, <1>2 DEF TypeOK, Phases
<1>4. /\ Actors' /\ SpaceReserved' /\ SleepersMustWait'
      /\ \A ph \in CommitPhases : ~At(ph)'
  <2>1. \A p \in Procs : pc'[p] = "idle" /\ wrote'[p] = {}
    BY <1>1
  <2> QED BY <1>1, <1>3, <2>1, NobodyThere
<1>5. TailInRange'
  BY <1>1, <1>4 DEF TailInRange, CommitPhases
<1>6. PinnedWhileLogged' /\ CopiesAgree'
  BY <1>1 DEF PinnedWhileLogged, CopiesAgree
<1>7. RecoveryAgrees'
  BY <1>1 DEF RecoveryAgrees
<1> QED BY <1>3, <1>4, <1>5, <1>6, <1>7

(* read_head(). *)
LEMMA RecoverHeadInv == ASSUME LogInv, RecoverHead PROVE LogInv'
<1> USE DEF LogInv
<1>1. /\ boot = "read" /\ lh' = header
      /\ boot' = IF header = <<>> THEN "erase" ELSE "install"
      /\ UNCHANGED <<home, slots, header, cache, pins, outstanding, committing,
                     tail, pc, wrote>>
  BY DEF RecoverHead, diskVars
<1>2. /\ \A p \in Procs : pc[p] = "idle" /\ wrote[p] = {}
      /\ outstanding = 0 /\ committing = FALSE
  BY <1>1, RecoveryAlone
<1>3. TypeOK'
  BY <1>1 DEF TypeOK
<1>4. /\ Actors' /\ SpaceReserved' /\ SleepersMustWait'
      /\ \A ph \in CommitPhases : ~At(ph)'
  BY <1>1, <1>2, <1>3, NobodyThere
<1>5. tail = 0 /\ (header # <<>> => Len(header) > 0)
  <2>1. Len(header) \in Nat /\ (Len(header) = 0 => header = <<>>)
    BY LenProperties, EmptySeq DEF TypeOK
  <2> QED BY <1>1, <2>1 DEF TailInRange
<1>6. TailInRange'
  BY <1>1, <1>4, <1>5 DEF TailInRange, CommitPhases
<1>7. PinnedWhileLogged' /\ CopiesAgree'
  BY <1>1 DEF PinnedWhileLogged, CopiesAgree
<1>8. RecoveryAgrees'
  <2>1. boot' = "erase" => Len(lh') = 0
    BY <1>1, EmptySeq
  <2>2. boot' = "install" => tail' = 0
    BY <1>1, <1>5
  <2> QED BY <1>1, <2>1, <2>2 DEF RecoveryAgrees
<1> QED BY <1>3, <1>4, <1>6, <1>7, <1>8

(* install_trans(1), one block. *)
LEMMA RecoverBlockInv == ASSUME LogInv, RecoverBlock PROVE LogInv'
<1> USE DEF LogInv
<1> DEFINE b == lh[tail + 1]
<1>1. /\ boot = "install"
      /\ home' = [home EXCEPT ![b] = slots[tail + 1]]
      /\ cache' = [cache EXCEPT ![b] = slots[tail + 1]]
      /\ tail' = IF tail + 1 < Len(lh) THEN tail + 1 ELSE 0
      /\ boot' = IF tail + 1 < Len(lh) THEN "install" ELSE "erase"
      /\ UNCHANGED <<slots, header, pins, lh, outstanding, committing, pc, wrote>>
  BY DEF RecoverBlock
<1>2. /\ \A p \in Procs : pc[p] = "idle" /\ wrote[p] = {}
      /\ outstanding = 0 /\ committing = FALSE
  BY <1>1, RecoveryAlone
<1>3. /\ Len(lh) \in Nat /\ tail \in Nat /\ tail < Len(lh)
      /\ tail + 1 \in 1 .. Len(lh)
      /\ slots[tail + 1] \in Contents /\ b \in Homes
  <2>1. tail \in Nat /\ tail < Len(lh)
    BY <1>1 DEF TailInRange, TypeOK
  <2>2. tail + 1 \in 1 .. Len(lh) /\ tail + 1 \in 1 .. LOGBLOCKS
    BY <2>1, LogShape
  <2>3. slots[tail + 1] \in Contents
    BY <2>2 DEF TypeOK
  <2>4. b \in Homes
    BY <2>2, LogShape
  <2> HIDE DEF b
  <2> QED BY <2>1, <2>2, <2>3, <2>4, LogShape
<1>4. /\ \A i, j \in 1 .. Len(lh) : lh[i] = lh[j] => i = j
      /\ cache = home /\ pins = [c \in Homes |-> 0] /\ lh = header
      /\ \A i \in 1 .. tail : home[lh[i]] = slots[i]
  BY <1>1 DEF RecoveryAgrees
<1>5. TypeOK'
  <2>1. home' \in [Homes -> Contents] /\ cache' \in [Homes -> Contents]
    BY <1>1, <1>3 DEF TypeOK
  <2>2. tail' \in Nat /\ boot' \in {"install", "erase"}
    BY <1>1, <1>3
  <2> QED BY <1>1, <2>1, <2>2 DEF TypeOK
<1>6. /\ Actors' /\ SpaceReserved' /\ SleepersMustWait'
      /\ \A ph \in CommitPhases : ~At(ph)'
  BY <1>1, <1>2, <1>5, NobodyThere
<1>7. TailInRange'
  <2>1. boot' = "install" => tail' < Len(lh')
    BY <1>1, <1>3
  <2> QED BY <1>1, <1>6, <2>1 DEF TailInRange, CommitPhases
<1>8. PinnedWhileLogged' /\ CopiesAgree'
  BY <1>1 DEF PinnedWhileLogged, CopiesAgree
<1>9. RecoveryAgrees'
  <2>1. ASSUME NEW i \in 1 .. tail + 1
        PROVE  home'[lh[i]] = slots[i]
    <3>1. i \in 1 .. Len(lh) /\ lh[i] \in Homes
      BY <1>3, LogShape
    <3>2. CASE i = tail + 1
      BY <1>1, <1>3, <3>2 DEF TypeOK
    <3>3. CASE i # tail + 1
      <4>1. i \in 1 .. tail
        BY <1>3, <3>3
      <4>2. lh[i] # b
        BY <1>3, <1>4, <3>1, <3>3
      <4> QED BY <1>1, <1>4, <3>1, <4>1, <4>2 DEF TypeOK
    <3> QED BY <3>2, <3>3
  <2>2. boot' = "erase" => tail + 1 = Len(lh)
    BY <1>1, <1>3
  <2>3. boot' # "erase" => boot' = "install" /\ tail' = tail + 1
    BY <1>1
  <2>4. cache' = home'
    BY <1>1, <1>4
  <2> HIDE DEF b
  <2> QED BY <1>1, <1>4, <2>1, <2>2, <2>3, <2>4 DEF RecoveryAgrees
<1> QED BY <1>5, <1>6, <1>7, <1>8, <1>9

(* write_head() with n = 0, and the machine is up. *)
LEMMA RecoverEraseInv == ASSUME LogInv, RecoverErase PROVE LogInv'
<1> USE DEF LogInv
<1>1. /\ boot = "erase" /\ lh' = <<>> /\ header' = <<>> /\ boot' = "up"
      /\ UNCHANGED <<home, slots, cache, pins, outstanding, committing, tail, pc,
                     wrote>>
  BY DEF RecoverErase
<1>2. /\ \A p \in Procs : pc[p] = "idle" /\ wrote[p] = {}
      /\ outstanding = 0 /\ committing = FALSE
  BY <1>1, RecoveryAlone
<1>3. lh' \in Seq(Homes) /\ Len(lh') = 0 /\ Len(lh') <= LOGBLOCKS
  <2>1. lh' \in Seq(Homes) /\ Len(lh') = 0 /\ LOGBLOCKS \in Nat
    BY <1>1, EmptySeq, LogAssumption
  <2> QED BY <2>1
<1>4. TypeOK'
  BY <1>1, <1>3 DEF TypeOK
<1>5. /\ Actors' /\ SpaceReserved' /\ SleepersMustWait' /\ Installed' = 0
      /\ \A ph \in CommitPhases : ~At(ph)'
  BY <1>1, <1>2, <1>4, NobodyThere
<1>6. TailInRange'
  BY <1>1, <1>5 DEF TailInRange, CommitPhases
<1>7. PinnedWhileLogged'
  <2>1. pins' = [b \in Homes |-> 0]
    BY <1>1 DEF RecoveryAgrees
  <2>2. \A i \in 1 .. Len(lh') : FALSE
    BY <1>3
  <2>3. \A i \in Installed' + 1 .. Len(lh') : FALSE
    BY <1>3, <1>5
  <2> QED BY <2>1, <2>2, <2>3 DEF PinnedWhileLogged
<1>8. CopiesAgree'
  BY <1>1, <1>5 DEF CopiesAgree, CommitPhases, RecoveryAgrees
<1>9. RecoveryAgrees'
  BY <1>1, <1>3 DEF RecoveryAgrees
<1> QED BY <1>4, <1>5, <1>6, <1>7, <1>8, <1>9

LEMMA StutterInv == ASSUME LogInv, UNCHANGED vars PROVE LogInv'
  BY DEF LogInv, TypeOK, Actors, TailInRange, SpaceReserved, SleepersMustWait,
         PinnedWhileLogged, CopiesAgree, RecoveryAgrees, vars, diskVars, memVars,
         Open, At, Credit, Logged, Installed, MustWait

-----------------------------------------------------------------------------
(***************************************************************************)
(* LogInv is an invariant of the log under any interleaving of operations, *)
(* commits, crashes and recoveries.                                        *)
(***************************************************************************)
THEOREM LogInvariant == Spec => []LogInv
<1>1. Init => LogInv
  BY InitInv
<1>2. LogInv /\ [Next]_vars => LogInv'
  <2> SUFFICES ASSUME LogInv, [Next]_vars PROVE LogInv'
    OBVIOUS
  <2>1. ASSUME NEW p \in Procs, Call(p) \/ Kill(p) PROVE LogInv'
    BY <2>1, WaitingInv
  <2>2. ASSUME NEW p \in Procs, Progress(p) PROVE LogInv'
    BY <2>2, WaitingInv, BeginOpInv, EndOpNotLastInv, EndOpLastInv, WriteLogInv,
       CommitInv, InstallInv, EraseInv, FinishInv DEF Progress
  <2>3. ASSUME NEW p \in Procs, NEW b \in Homes, NEW v \in Contents, LogWrite(p, b, v)
        PROVE  LogInv'
    BY <2>3, LogWriteInv
  <2>4. CASE Crash
    BY <2>4, CrashInv
  <2>5. CASE Recover
    BY <2>5, RecoverHeadInv, RecoverBlockInv, RecoverEraseInv DEF Recover
  <2>6. CASE UNCHANGED vars
    BY <2>6, StutterInv
  <2> QED BY <2>1, <2>2, <2>3, <2>4, <2>5, <2>6 DEF Next
<1> QED BY <1>1, <1>2, PTL DEF Spec

(* Together with the pins of PinnedWhileLogged: the log has a slot free    *)
(* whenever the machine is up.                                             *)
SlotSpared == boot = "up" => Len(lh) < LOGBLOCKS

(* An open operation that has not used up what it reserved spares a slot.  *)
OpenSparesSlot ==
  \A p \in Open : Cardinality(wrote[p]) <= OpBlocks /\ OpBlocks < MAXOPBLOCKS
                  => Len(lh) < LOGBLOCKS

LEMMA CreditSparesSlot == LogInv => OpenSparesSlot
<1> SUFFICES ASSUME LogInv, NEW p \in Open,
                    Cardinality(wrote[p]) <= OpBlocks, OpBlocks < MAXOPBLOCKS
             PROVE  Len(lh) < LOGBLOCKS
  BY DEF OpenSparesSlot
<1> DEFINE last == <<p, MAXOPBLOCKS>>
<1>1. OpBlocks \in Nat /\ MAXOPBLOCKS \in Nat /\ LOGBLOCKS \in Nat /\ Len(lh) \in Nat
  BY LogAssumption, LogShape
<1>2. IsFiniteSet(Open)
  BY DEF LogInv, Actors
<1>3. Cardinality(wrote[p]) \in Nat
  BY FS_CardinalityType DEF LogInv, SpaceReserved, Open
<1>4. last \in Credit
  BY <1>1, <1>3 DEF Credit
<1>5. IsFiniteSet(Credit) /\ Cardinality(Credit) \in Nat
  BY <1>2, CreditBound DEF Credit, Credits
<1>6. Cardinality(Credit) # 0
  BY <1>4, <1>5, FS_EmptySet
<1>7. Len(lh) + Cardinality(Credit) <= LOGBLOCKS
  BY DEF LogInv, SpaceReserved
<1> QED BY <1>1, <1>5, <1>6, <1>7

(***************************************************************************)
(* log_write() never panics "too big a transaction", whatever the sizes,   *)
(* if an operation writes fewer distinct blocks than begin_op() reserves.  *)
(***************************************************************************)
THEOREM NeverFull == OpBlocks < MAXOPBLOCKS => (Spec => []LogNeverFull)
<1> SUFFICES ASSUME OpBlocks < MAXOPBLOCKS PROVE Spec => []LogNeverFull
  OBVIOUS
<1>1. ASSUME LogInv PROVE LogNeverFull
  <2> SUFFICES ASSUME NEW p \in Procs, NEW b \in Homes, MayWrite(p, b)
               PROVE  Len(lh) < LOGBLOCKS
    BY DEF LogNeverFull
  <2>1. IsFiniteSet(wrote[p]) /\ Cardinality(wrote[p]) \in Nat
    BY <1>1, FS_CardinalityType DEF LogInv, SpaceReserved
  <2>2. Cardinality(wrote[p] \cup {b}) = Cardinality(wrote[p])
        \/ Cardinality(wrote[p] \cup {b}) = Cardinality(wrote[p]) + 1
    BY <2>1, FS_AddElement
  <2>3. p \in Open /\ Cardinality(wrote[p]) <= OpBlocks
    BY <2>1, <2>2, LogAssumption DEF MayWrite, Open
  <2> QED BY <1>1, <2>3, CreditSparesSlot DEF OpenSparesSlot
<1> QED BY <1>1, LogInvariant, PTL

LEMMA StepSparesSlot ==
  ASSUME OpBlocks < MAXOPBLOCKS, LogInv, LogInv', SlotSpared, [Next]_vars
  PROVE  SlotSpared'
<1>1. Len(<<>>) < LOGBLOCKS
  BY LogAssumption
<1>2. ASSUME UNCHANGED <<lh, boot>> PROVE SlotSpared'
  BY <1>2 DEF SlotSpared
<1>3. ASSUME lh' = <<>> PROVE SlotSpared'
  BY <1>1, <1>3 DEF SlotSpared
<1>4. ASSUME NEW p \in Procs, Call(p) \/ Progress(p) \/ Kill(p)
      PROVE  SlotSpared'
  BY <1>2, <1>3, <1>4 DEF Call, Progress, Kill, BeginOpSleep, BeginOp, EndOpNotLast,
     EndOpLast, WriteLog, Commit, Install, Erase, Finish
<1>5. ASSUME NEW p \in Procs, NEW b \in Homes, NEW v \in Contents, LogWrite(p, b, v)
      PROVE  SlotSpared'
  <2>1. pc' = pc /\ wrote' = [wrote EXCEPT ![p] = @ \cup {b}]
        /\ pc[p] = "op" /\ Cardinality(wrote[p] \cup {b}) <= OpBlocks
    BY <1>5 DEF LogWrite, MayWrite
  <2>2. wrote \in [Procs -> SUBSET Homes]
    BY DEF LogInv, TypeOK
  <2>3. p \in Open' /\ Cardinality(wrote'[p]) <= OpBlocks
    BY <2>1, <2>2 DEF Open
  <2>4. LogInv' => OpenSparesSlot'
    BY CreditSparesSlot, PTL
  <2> QED BY <2>3, <2>4 DEF OpenSparesSlot, SlotSpared
<1>6. CASE Crash
  BY <1>3, <1>6 DEF Crash
<1>7. CASE Recover
  <2>1. CASE RecoverHead
    BY <2>1 DEF RecoverHead, SlotSpared
  <2>2. CASE RecoverBlock
    BY <2>2 DEF RecoverBlock, SlotSpared
  <2>3. CASE RecoverErase
    BY <1>3, <2>3 DEF RecoverErase
  <2> QED BY <1>7, <2>1, <2>2, <2>3 DEF Recover
<1>8. CASE UNCHANGED vars
  BY <1>2, <1>8 DEF vars, memVars
<1> QED BY <1>4, <1>5, <1>6, <1>7, <1>8 DEF Next

LEMMA PinsAreLogged ==
  ASSUME LogInv, boot = "up"
  PROVE  IsFiniteSet(Pinned) /\ Cardinality(Pinned) <= Len(lh)
<1> DEFINE f == [i \in 1 .. Len(lh) |-> lh[i]]
<1>1. Len(lh) \in Nat /\ lh \in Seq(Homes)
  BY LogShape DEF LogInv, TypeOK
<1>2. IsFiniteSet(1 .. Len(lh)) /\ Cardinality(1 .. Len(lh)) = Len(lh)
  BY <1>1, FS_Interval
<1>3. f \in Surjection(1 .. Len(lh), Logged)
  BY <1>1 DEF Surjection, Logged
<1>4. IsFiniteSet(Logged) /\ Cardinality(Logged) <= Len(lh)
  BY <1>2, <1>3, FS_Surjection
<1>5. Pinned \subseteq Logged
  <2> SUFFICES ASSUME NEW b \in Homes, pins[b] > 0 PROVE b \in Logged
    BY DEF Pinned
  <2>1. \E i \in Installed + 1 .. Len(lh) : lh[i] = b
    BY DEF LogInv, PinnedWhileLogged
  <2>2. Installed \in Nat
    BY <1>1 DEF Installed, LogInv, TypeOK
  <2> QED BY <1>1, <2>1, <2>2 DEF Logged
<1>6. Cardinality(Pinned) <= Cardinality(Logged) /\ IsFiniteSet(Pinned)
  BY <1>4, <1>5, FS_Subset
<1>7. Cardinality(Pinned) \in Nat /\ Cardinality(Logged) \in Nat
  BY <1>4, <1>6, FS_CardinalityType
<1> QED BY <1>1, <1>4, <1>6, <1>7

(***************************************************************************)
(* If an operation writes fewer distinct blocks than begin_op() reserves,  *)
(* the log never pins all buffers, so that a commit can read its slots.    *)
(***************************************************************************)
THEOREM BufferSpared == OpBlocks < MAXOPBLOCKS => (Spec => []PinsLeaveBuffer)
<1> SUFFICES ASSUME OpBlocks < MAXOPBLOCKS PROVE Spec => []PinsLeaveBuffer
  OBVIOUS
<1>1. Init => SlotSpared
  BY LogAssumption DEF Init, SlotSpared
<1>2. LogInv /\ LogInv' /\ SlotSpared /\ [Next]_vars => SlotSpared'
  BY StepSparesSlot
<1>3. ASSUME LogInv, SlotSpared PROVE PinsLeaveBuffer
  <2> SUFFICES ASSUME boot = "up" PROVE Cardinality(Pinned) < CacheSize
    BY DEF PinsLeaveBuffer
  <2>1. IsFiniteSet(Pinned) /\ Cardinality(Pinned) <= Len(lh)
    BY <1>3, PinsAreLogged
  <2>2. Cardinality(Pinned) \in Nat /\ Len(lh) \in Nat
    BY <1>3, <2>1, FS_CardinalityType, LogShape
  <2> QED BY <1>3, <2>1, <2>2, LogAssumption DEF SlotSpared, CacheSize
<1> QED BY <1>1, <1>2, <1>3, LogInvariant, PTL DEF Spec

(* No process sleeps in begin_op() once it could go on. *)
THEOREM NobodyOversleeps == Spec => []SleepersMustWait
<1>1. LogInv => SleepersMustWait
  BY DEF LogInv
<1> QED BY <1>1, LogInvariant, PTL

(* A buffer is pinned exactly while its block is logged and not installed. *)
THEOREM PinsAreRight == Spec => []PinnedWhileLogged
<1>1. LogInv => PinnedWhileLogged
  BY DEF LogInv
<1> QED BY <1>1, LogInvariant, PTL

(* After the last end_op() everything is at home and the log is empty. *)
THEOREM QuietIsInstalled == Spec => []QuietMeansInstalled
<1>1. ASSUME LogInv PROVE QuietMeansInstalled
  <2> SUFFICES ASSUME boot = "up", outstanding = 0, ~committing
               PROVE  cache = home /\ header = <<>> /\ lh = <<>>
    BY DEF QuietMeansInstalled
  <2>1. lh = <<>> /\ Len(lh) = 0
    BY <1>1, EmptySeq DEF LogInv, CopiesAgree
  <2>2. \A ph \in CommitPhases : ~At(ph)
    BY <1>1 DEF LogInv, Actors, At
  <2>3. header = <<>>
    BY <1>1, <2>2 DEF LogInv, CopiesAgree, CommitPhases
  <2>4. Logged = {}
    BY <2>1 DEF Logged
  <2>5. \A b \in Homes : cache[b] = home[b]
    BY <1>1, <2>4 DEF LogInv, CopiesAgree
  <2>6. cache = home
    BY <1>1, <2>5 DEF LogInv, TypeOK
  <2> QED BY <2>1, <2>3, <2>6
<1> QED BY <1>1, LogInvariant, PTL

-----------------------------------------------------------------------------
(* The log implements Journal.                                             *)

(* AfterRecovery, as an operator of what is on the disk. *)
Recovered(hd, sl, hm) ==
  [b \in Homes |->
     IF \E i \in 1 .. Len(hd) : hd[i] = b
       THEN sl[CHOOSE i \in 1 .. Len(hd) : hd[i] = b]
       ELSE hm[b]]

(* Contents that agree with the slots, and elsewhere with the blocks. *)
Agrees(hd, sl, hm, D) ==
  /\ D = [b \in Homes |-> D[b]]
  /\ \A i \in 1 .. Len(hd) : D[hd[i]] = sl[i]
  /\ \A b \in Homes : (\A i \in 1 .. Len(hd) : hd[i] # b) => D[b] = hm[b]

LEMMA RecoveredIs ==
  ASSUME NEW hd, NEW sl, NEW hm, NEW D, Agrees(hd, sl, hm, D)
  PROVE  Recovered(hd, sl, hm) = D
<1> SUFFICES ASSUME NEW b \in Homes
             PROVE  (IF \E i \in 1 .. Len(hd) : hd[i] = b
                       THEN sl[CHOOSE i \in 1 .. Len(hd) : hd[i] = b]
                       ELSE hm[b]) = D[b]
  BY DEF Recovered, Agrees
<1>1. CASE \E i \in 1 .. Len(hd) : hd[i] = b
  <2> DEFINE k == CHOOSE i \in 1 .. Len(hd) : hd[i] = b
  <2>1. k \in 1 .. Len(hd) /\ hd[k] = b
    BY <1>1
  <2>2. sl[k] = D[b]
    BY <2>1 DEF Agrees
  <2> QED BY <1>1, <2>2
<1>2. CASE ~\E i \in 1 .. Len(hd) : hd[i] = b
  BY <1>2 DEF Agrees
<1> QED BY <1>1, <1>2

(* With an empty header nothing has to be recovered. *)
LEMMA NothingToRecover ==
  ASSUME NEW sl, NEW hm \in [Homes -> Contents]
  PROVE  Recovered(<<>>, sl, hm) = hm
<1>1. \A i \in 1 .. Len(<<>>) : FALSE
  BY EmptySeq
<1>2. \A i \in 1 .. Len(<<>>) : hm[<<>>[i]] = sl[i]
  BY <1>1
<1>3. Agrees(<<>>, sl, hm, hm)
  BY <1>2 DEF Agrees
<1> QED BY <1>3, RecoveredIs

(* Copying a block of the log home changes nothing that recovery finds. *)
LEMMA InstallingIsInvisible ==
  ASSUME LogInv, NEW k \in 1 .. Len(header),
         home' = [home EXCEPT ![header[k]] = slots[k]]
  PROVE  Recovered(header, slots, home') = Recovered(header, slots, home)
<1> DEFINE D == Recovered(header, slots, home)
<1>1. /\ \A i, j \in 1 .. Len(header) : header[i] = header[j] => i = j
      /\ \A i \in 1 .. Len(header) : header[i] \in Homes
  BY ElementOfSeq DEF LogInv, RecoveryAgrees, TypeOK
<1>2. ASSUME NEW i \in 1 .. Len(header)
      PROVE  D[header[i]] = slots[i]
  <2>1. (CHOOSE j \in 1 .. Len(header) : header[j] = header[i]) = i
    BY <1>1
  <2> QED BY <1>1, <2>1 DEF Recovered
<1>3. ASSUME NEW b \in Homes, \A i \in 1 .. Len(header) : header[i] # b
      PROVE  D[b] = home'[b]
  <2>1. D[b] = home[b]
    BY <1>3 DEF Recovered
  <2> QED BY <1>3, <2>1 DEF LogInv, TypeOK
<1>4. D = [b \in Homes |-> D[b]]
  BY DEF Recovered
<1> HIDE DEF D
<1>5. Agrees(header, slots, home', D)
  BY <1>2, <1>3, <1>4 DEF Agrees
<1>6. Recovered(header, slots, home') = D
  BY <1>5, RecoveredIs
<1> QED BY <1>6 DEF D

LEMMA DurableIs ==
  /\ AfterRecovery = Recovered(header, slots, home)
  /\ AfterRecovery' = Recovered(header', slots', home')
  BY DEF AfterRecovery, Recovered

(* The initial states map to initial states. *)
LEMMA InitMaps == Init => Promise!JournalInit
<1> SUFFICES ASSUME Init PROVE Promise!JournalInit
  OBVIOUS
<1>1. home \in [Homes -> Contents] /\ cache = home /\ header = <<>> /\ boot = "up"
  BY DEF Init
<1>2. AfterRecovery = home
  BY <1>1, DurableIs, NothingToRecover
<1>3. Open = {}
  BY DEF Init, Open
<1> QED BY <1>1, <1>2, <1>3 DEF Promise!JournalInit

(* Steps of operations: what they do, Journal sees. *)
LEMMA OperationMaps ==
  ASSUME LogInv, NEW p \in Procs,
         \/ BeginOp(p) \/ EndOpNotLast(p) \/ EndOpLast(p)
         \/ \E b \in Homes, v \in Contents : LogWrite(p, b, v)
  PROVE  Promise!JournalNext
<1> USE DEF LogInv
<1>1. /\ boot = "up" /\ boot' = "up"
      /\ UNCHANGED <<home, slots, header>>
  BY DEF BeginOp, EndOpNotLast, EndOpLast, LogWrite, MayWrite, diskVars, Actors
<1>2. AfterRecovery' = AfterRecovery
  BY <1>1, DurableIs
<1>3. CASE BeginOp(p)
  <2>1. pc[p] = "begin" /\ pc' = [pc EXCEPT ![p] = "op"] /\ cache' = cache
    BY <1>3 DEF BeginOp, Goto
  <2>2. Open' = Open \cup {p} /\ p \notin Open
    BY <2>1 DEF Open, TypeOK
  <2>3. Promise!Begin(p)
    BY <1>1, <1>2, <2>1, <2>2 DEF Promise!Begin
  <2> QED BY <2>3 DEF Promise!JournalNext
<1>4. CASE EndOpNotLast(p) \/ EndOpLast(p)
  <2>1. /\ pc[p] = "op" /\ cache' = cache /\ pc'[p] # "op"
        /\ \A q \in Procs : q # p => (pc'[q] = "op" <=> pc[q] = "op")
    BY <1>4 DEF EndOpNotLast, EndOpLast, Goto, WakeAllAndGoto, TypeOK
  <2>2. p \in Open /\ Open' = Open \ {p}
    BY <2>1 DEF Open
  <2>3. Promise!End(p)
    BY <1>1, <1>2, <2>1, <2>2 DEF Promise!End
  <2> QED BY <2>3 DEF Promise!JournalNext
<1>5. ASSUME NEW b \in Homes, NEW v \in Contents, LogWrite(p, b, v)
      PROVE  Promise!JournalNext
  <2>1. /\ pc[p] = "op" /\ pc' = pc
        /\ cache' = [cache EXCEPT ![b] = v]
    BY <1>5 DEF LogWrite, MayWrite
  <2>2. p \in Open /\ Open' = Open
    BY <2>1 DEF Open
  <2>3. Promise!Write(p, b, v)
    BY <1>1, <1>2, <2>1, <2>2 DEF Promise!Write
  <2> QED BY <2>3 DEF Promise!JournalNext
<1> QED BY <1>3, <1>4, <1>5

(* The write of the header makes everything durable at once. *)
LEMMA CommitMaps ==
  ASSUME LogInv, NEW p \in Procs, Commit(p)
  PROVE  Promise!Commit
<1> USE DEF LogInv
<1>1. /\ pc[p] = "commit" /\ pc[p] \in CommitPhases
      /\ header' = lh /\ pc' = [pc EXCEPT ![p] = "install"]
      /\ UNCHANGED <<home, slots, cache, lh, boot>>
  BY DEF Commit, Goto, CommitPhases
<1>2. /\ boot = "up" /\ Open = {}
      /\ \A q \in Procs : q # p => pc[q] \in Waiting
      /\ \A ph \in CommitPhases : At(ph) <=> pc[p] = ph
  BY <1>1, CommitterAlone
<1>3. Open' = {}
  BY <1>1, <1>2 DEF Open, Waiting, TypeOK
<1>4. \A i \in 1 .. Len(lh) : cache[lh[i]] = slots[i]
  BY <1>1, <1>2 DEF CopiesAgree, CommitPhases
<1>5. \A b \in Homes : (\A i \in 1 .. Len(lh) : lh[i] # b) => cache[b] = home[b]
  BY <1>2 DEF CopiesAgree, Logged
<1>6. Recovered(lh, slots, home) = cache
  <2>1. Agrees(lh, slots, home, cache)
    BY <1>4, <1>5 DEF Agrees, TypeOK
  <2> QED BY <2>1, RecoveredIs
<1>7. AfterRecovery' = cache
  BY <1>1, <1>6, DurableIs
<1> QED BY <1>1, <1>2, <1>3, <1>7 DEF Promise!Commit

(* The other steps of commit(), and waiting, do not show. *)
LEMMA CommittingIsInvisible ==
  ASSUME LogInv, NEW p \in Procs,
         \/ Call(p) \/ Kill(p) \/ BeginOpSleep(p)
         \/ WriteLog(p) \/ Install(p) \/ Erase(p) \/ Finish(p)
  PROVE  UNCHANGED Promise!journalVars
<1> USE DEF LogInv
<1>1. boot = "up" /\ boot' = "up"
  <2>1. pc[p] # "idle" \/ Call(p)
    BY DEF Kill, BeginOpSleep, WriteLog, Install, Erase, Finish
  <2>2. boot = "up"
    BY <2>1 DEF Call, Actors
  <2> QED
    BY <2>2 DEF Call, Kill, BeginOpSleep, WriteLog, Install, Erase, Finish
<1>2. Open' = Open
  <2>1. \A q \in Procs : pc'[q] = "op" <=> pc[q] = "op"
    BY DEF Call, Kill, BeginOpSleep, WriteLog, Install, Erase, Finish, Goto,
           WakeAllAndGoto, TypeOK
  <2> QED BY <2>1 DEF Open
<1>3. CASE Call(p) \/ Kill(p) \/ BeginOpSleep(p) \/ Finish(p)
  <2>1. UNCHANGED <<home, slots, header, cache>>
    BY <1>3 DEF Call, Kill, BeginOpSleep, Finish, diskVars
  <2>2. AfterRecovery' = AfterRecovery
    BY <2>1, DurableIs
  <2> QED BY <1>1, <1>2, <2>1, <2>2 DEF Promise!journalVars
<1>4. CASE WriteLog(p)
  <2>1. pc[p] = "log" /\ pc[p] \in CommitPhases /\ UNCHANGED <<home, header, cache>>
    BY <1>4 DEF WriteLog, CommitPhases
  <2>2. header = <<>>
    BY <1>1, <2>1, CommitterAlone DEF CopiesAgree, CommitPhases
  <2>3. AfterRecovery = home /\ AfterRecovery' = home
    BY <2>1, <2>2, DurableIs, NothingToRecover DEF TypeOK
  <2> QED BY <1>1, <1>2, <2>1, <2>3 DEF Promise!journalVars
<1>5. CASE Install(p)
  <2>1. /\ pc[p] = "install" /\ pc[p] \in CommitPhases
        /\ home' = [home EXCEPT ![lh[tail + 1]] = slots[tail + 1]]
        /\ cache' = [cache EXCEPT ![lh[tail + 1]] = slots[tail + 1]]
        /\ UNCHANGED <<slots, header>>
    BY <1>5 DEF Install, CommitPhases
  <2>2. At("install") /\ header = lh /\ tail + 1 \in 1 .. Len(lh)
        /\ slots[tail + 1] = cache[lh[tail + 1]]
    <3>1. At("install")
      BY <2>1, CommitterAlone DEF CommitPhases
    <3>2. tail \in Nat /\ tail < Len(lh) /\ Len(lh) \in Nat
      BY <3>1, LogShape DEF TailInRange, TypeOK
    <3>3. tail + 1 \in 1 .. Len(lh)
      BY <3>2
    <3> QED BY <1>1, <3>1, <3>3 DEF CopiesAgree
  <2>3. cache' = cache
    BY <2>1, <2>2 DEF TypeOK
  <2>4. Recovered(header, slots, home') = Recovered(header, slots, home)
    BY <2>1, <2>2, InstallingIsInvisible
  <2>5. AfterRecovery' = AfterRecovery
    BY <2>1, <2>4, DurableIs
  <2> QED BY <1>1, <1>2, <2>3, <2>5 DEF Promise!journalVars
<1>6. CASE Erase(p)
  <2>1. /\ pc[p] = "erase" /\ pc[p] \in CommitPhases
        /\ header' = <<>> /\ UNCHANGED <<home, cache>>
    BY <1>6 DEF Erase, CommitPhases
  <2>2. At("erase") /\ header = lh /\ Installed = Len(lh)
    <3>1. At("erase")
      BY <2>1, CommitterAlone DEF CommitPhases
    <3> QED BY <1>1, <3>1 DEF CopiesAgree, Installed, At
  <2>3. \A i \in 1 .. Len(header) : home[header[i]] = slots[i]
    BY <1>1, <2>2 DEF CopiesAgree
  <2>4. AfterRecovery = home
    <3>1. Agrees(header, slots, home, home)
      BY <2>3 DEF Agrees, TypeOK
    <3> QED BY <3>1, DurableIs, RecoveredIs
  <2>5. AfterRecovery' = home
    BY <2>1, DurableIs, NothingToRecover DEF TypeOK
  <2> QED BY <1>1, <1>2, <2>1, <2>4, <2>5 DEF Promise!journalVars
<1> QED BY <1>3, <1>4, <1>5, <1>6

(* A crash loses what is not durable, and nothing else. *)
LEMMA CrashMaps == ASSUME LogInv, Crash PROVE Promise!LoseMemory
<1>1. boot' = "read" /\ UNCHANGED <<home, slots, header>> /\ Open' = {}
  BY DEF Crash, Open, diskVars
<1>2. AfterRecovery' = AfterRecovery
  BY <1>1, DurableIs
<1> QED BY <1>1, <1>2 DEF Promise!LoseMemory

(* Recovery, however often it starts again, does not show. *)
LEMMA RecoveryIsInvisible ==
  ASSUME LogInv, Recover
  PROVE  UNCHANGED Promise!journalVars
<1> USE DEF LogInv
<1>1. boot # "up" /\ pc' = pc
  BY DEF Recover, RecoverHead, RecoverBlock, RecoverErase
<1>2. Open' = Open
  BY <1>1 DEF Open
<1>3. CASE RecoverHead
  <2>1. boot' # "up" /\ UNCHANGED <<home, slots, header>>
    BY <1>3 DEF RecoverHead, diskVars
  <2>2. AfterRecovery' = AfterRecovery
    BY <2>1, DurableIs
  <2> QED BY <1>1, <1>2, <2>1, <2>2 DEF Promise!journalVars
<1>4. CASE RecoverBlock
  <2>1. /\ boot = "install" /\ boot' # "up"
        /\ home' = [home EXCEPT ![lh[tail + 1]] = slots[tail + 1]]
        /\ UNCHANGED <<slots, header>>
    BY <1>4 DEF RecoverBlock
  <2>2. header = lh /\ tail + 1 \in 1 .. Len(lh)
    <3>1. tail \in Nat /\ tail < Len(lh) /\ Len(lh) \in Nat
      BY <2>1, LogShape DEF TailInRange, TypeOK
    <3>2. tail + 1 \in 1 .. Len(lh)
      BY <3>1
    <3> QED BY <2>1, <3>2 DEF RecoveryAgrees
  <2>3. Recovered(header, slots, home') = Recovered(header, slots, home)
    BY <2>1, <2>2, InstallingIsInvisible
  <2>4. AfterRecovery' = AfterRecovery
    BY <2>1, <2>3, DurableIs
  <2> QED BY <1>1, <1>2, <2>1, <2>4 DEF Promise!journalVars
<1>5. CASE RecoverErase
  <2>1. /\ boot = "erase" /\ boot' = "up"
        /\ header' = <<>> /\ UNCHANGED <<home, slots, cache>>
    BY <1>5 DEF RecoverErase
  <2>2. cache = home /\ \A i \in 1 .. Len(header) : home[header[i]] = slots[i]
    BY <2>1 DEF RecoveryAgrees
  <2>3. AfterRecovery = home
    <3>1. Agrees(header, slots, home, home)
      BY <2>2 DEF Agrees, TypeOK
    <3> QED BY <3>1, DurableIs, RecoveredIs
  <2>4. AfterRecovery' = home
    BY <2>1, DurableIs, NothingToRecover DEF TypeOK
  <2> QED BY <1>1, <1>2, <2>1, <2>2, <2>3, <2>4 DEF Promise!journalVars
<1> QED BY <1>3, <1>4, <1>5 DEF Recover

(***************************************************************************)
(* Atomicity and durability: whatever the crashes, and the crashes during  *)
(* recovery, the file system sees a store that loses whole batches of      *)
(* operations or nothing.                                                  *)
(***************************************************************************)
THEOREM LogImplementation == Spec => ImplementsJournal
<1>1. Init => Promise!JournalInit
  BY InitMaps
<1>2. LogInv /\ [Next]_vars => [Promise!JournalNext]_(Promise!journalVars)
  <2> SUFFICES ASSUME LogInv, [Next]_vars
               PROVE  Promise!JournalNext \/ UNCHANGED Promise!journalVars
    OBVIOUS
  <2>1. ASSUME NEW p \in Procs,
               Call(p) \/ Progress(p) \/ Kill(p)
                 \/ \E b \in Homes, v \in Contents : LogWrite(p, b, v)
        PROVE  Promise!JournalNext \/ UNCHANGED Promise!journalVars
    <3>1. Commit(p) => Promise!JournalNext
      BY CommitMaps DEF Promise!JournalNext
    <3> QED
      BY <2>1, <3>1, OperationMaps, CommittingIsInvisible DEF Progress
  <2>2. CASE Crash
    BY <2>2, CrashMaps DEF Promise!JournalNext
  <2>3. CASE Recover
    BY <2>3, RecoveryIsInvisible
  <2>4. CASE UNCHANGED vars
    <3>1. UNCHANGED <<home, slots, header, cache, boot, pc>>
      BY <2>4 DEF vars, diskVars, memVars
    <3>2. AfterRecovery' = AfterRecovery /\ Open' = Open
      BY <3>1, DurableIs DEF Open
    <3> QED BY <3>1, <3>2 DEF Promise!journalVars
  <2> QED BY <2>1, <2>2, <2>3, <2>4 DEF Next
<1> QED
  BY <1>1, <1>2, LogInvariant, PTL DEF Spec, ImplementsJournal, Promise!JournalSpec
=============================================================================
