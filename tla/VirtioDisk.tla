----------------------------- MODULE VirtioDisk -----------------------------
(***************************************************************************)
(* The disk driver of kernel/virtio_disk.c: virtio_disk_rw(), its          *)
(* interrupt handler, and the device on the other side of the rings.       *)
(*                                                                         *)
(* A request takes three descriptors and sleeps, on free[] until they are  *)
(* there and on its buffer until the device is done.  vdisk_lock makes     *)
(* what virtio_disk_rw() does between two sleeps one step; the handler     *)
(* holds it too, but the device goes on working in the meantime, so the    *)
(* handler is taken entry by entry of the used ring.  Nothing is lost      *)
(* between sleep() and wakeup(): see SleepLock.                            *)
(***************************************************************************)
EXTENDS Naturals, Sequences, FiniteSets

CONSTANTS
  Callers, Bufs, Blocks, Vals,
  NUM,         \* descriptors
  NoDesc,
  Requests     \* bound: <<process, request>> pairs that occur

Calls == [op : {"read", "write"}, buf : Bufs, block : Blocks]

ASSUME DiskAssumption ==
  /\ IsFiniteSet(Callers)
  /\ NUM \in Nat /\ NUM >= 3 /\ NoDesc \notin Nat
  /\ Requests \subseteq Callers \X Calls

VARIABLES
  platter,     \* what is on the disk
  data,        \* b->data
  busy,        \* b->disk
  free,        \* disk.free[], as the set of free descriptors
  next,        \* disk.desc[].next; NoDesc without VRING_DESC_F_NEXT
  info,        \* disk.info[].b and disk.ops[]: the request of each chain
  inflight,    \* heads in the avail ring that the device has not finished
  used,        \* heads in the used ring from disk.used_idx on
  isr,         \* the device asks for an interrupt
  handler,     \* virtio_disk_intr(), with vdisk_lock unless it is "off"
  at,          \* where each process is in virtio_disk_rw()
  call,        \* its arguments
  idx          \* idx[0]

ringVars == <<free, next, info, inflight, used>>
diskVars == <<platter, data, busy, ringVars, isr, handler, at, call, idx>>

Descs == 0 .. NUM - 1

NoCall == [op |-> "none"]

DiskPlaces == {
  "out",       \* not in virtio_disk_rw()
  "descs",     \* wants vdisk_lock, to allocate descriptors
  "nodesc",    \* asleep on &disk.free[0]
  "disk",      \* asleep on b
  "woken" }    \* wants vdisk_lock, to look at b->disk

TypeOK ==
  /\ platter \in [Blocks -> Vals] /\ data \in [Bufs -> Vals]
  /\ busy \in [Bufs -> BOOLEAN]
  /\ free \subseteq Descs
  /\ next \in [Descs -> Descs \cup {NoDesc}]
  /\ info \in [Descs -> Calls \cup {NoCall}]
  /\ inflight \subseteq Descs
  /\ used \in Seq(Descs)
  /\ isr \in BOOLEAN
  /\ handler \in {"off", "loop", "end"}
  /\ at \in [Callers -> DiskPlaces]
  /\ call \in [Callers -> Calls \cup {NoCall}]
  /\ idx \in [Callers -> Descs \cup {NoDesc}]

DiskInit ==
  /\ platter \in [Blocks -> Vals]
  /\ \E v \in Vals : data = [b \in Bufs |-> v]
  /\ busy = [b \in Bufs |-> FALSE]
  /\ free = Descs
  /\ next = [d \in Descs |-> NoDesc]
  /\ info = [d \in Descs |-> NoCall]
  /\ inflight = {}
  /\ used = <<>>
  /\ isr = FALSE
  /\ handler = "off"
  /\ at = [p \in Callers |-> "out"]
  /\ call = [p \in Callers |-> NoCall]
  /\ idx = [p \in Callers |-> NoDesc]

-----------------------------------------------------------------------------
VdiskLockFree == handler = "off"

(* bread() and bwrite() come here with a buffer that they have locked. *)
DiskCall(p, r) ==
  /\ at[p] = "out"
  /\ \A q \in Callers : call[q] # NoCall => call[q].buf # r.buf
  /\ at' = [at EXCEPT ![p] = "descs"]
  /\ call' = [call EXCEPT ![p] = r]
  /\ UNCHANGED <<platter, data, busy, ringVars, isr, handler, idx>>

(* The caller's own use of a buffer between two requests. *)
Fill(b, v) ==
  /\ \E r \in Requests : r[2].buf = b /\ r[2].op = "write"
  /\ \A q \in Callers : call[q] # NoCall => call[q].buf # b
  /\ data' = [data EXCEPT ![b] = v]
  /\ UNCHANGED <<platter, busy, ringVars, isr, handler, at, call, idx>>

(* alloc_desc() takes the free descriptor with the least number. *)
Lowest(S) == CHOOSE d \in S : \A e \in S : d <= e

(* wakeup(&disk.free[0]), followed by p moving on. *)
WakeForDescs(p, there) ==
  at' = [q \in Callers |-> IF q = p THEN there
                         ELSE IF at[q] = "nodesc" THEN "descs" ELSE at[q]]

(* alloc3_desc() fails and gives back what it took, which wakes the others. *)
NoDescs(p) ==
  /\ at[p] = "descs" /\ VdiskLockFree
  /\ Cardinality(free) < 3
  /\ IF free = {} THEN at' = [at EXCEPT ![p] = "nodesc"]
                  ELSE WakeForDescs(p, "nodesc")
  /\ UNCHANGED <<platter, data, busy, ringVars, isr, handler, call, idx>>

(* Mutant: the chain of three ends at its second descriptor. *)
SubmitShort(p) ==
  /\ at[p] = "descs" /\ VdiskLockFree
  /\ Cardinality(free) >= 3
  /\ LET h == Lowest(free)
         d == Lowest(free \ {h})
         s == Lowest(free \ {h, d})
     IN /\ free' = free \ {h, d, s}
        /\ next' = [next EXCEPT ![h] = d]
        /\ info' = [info EXCEPT ![h] = call[p]]
        /\ inflight' = inflight \cup {h}
        /\ idx' = [idx EXCEPT ![p] = h]
  /\ busy' = [busy EXCEPT ![call[p].buf] = TRUE]
  /\ at' = [at EXCEPT ![p] = "disk"]
  /\ UNCHANGED <<platter, data, used, isr, handler, call>>

(* The rest of virtio_disk_rw(), to the sleep on b. *)
Submit(p) ==
  /\ at[p] = "descs" /\ VdiskLockFree
  /\ Cardinality(free) >= 3
  /\ LET h == Lowest(free)
         d == Lowest(free \ {h})
         s == Lowest(free \ {h, d})
     IN /\ free' = free \ {h, d, s}
        /\ next' = [next EXCEPT ![h] = d, ![d] = s]
        /\ info' = [info EXCEPT ![h] = call[p]]
        /\ inflight' = inflight \cup {h}
        /\ idx' = [idx EXCEPT ![p] = h]
  /\ busy' = [busy EXCEPT ![call[p].buf] = TRUE]
  /\ at' = [at EXCEPT ![p] = "disk"]
  /\ UNCHANGED <<platter, data, used, isr, handler, call>>

(* Awake again, and the disk still has the buffer. *)
NotYet(p) ==
  /\ at[p] = "woken" /\ VdiskLockFree
  /\ busy[call[p].buf]
  /\ at' = [at EXCEPT ![p] = "disk"]
  /\ UNCHANGED <<platter, data, busy, ringVars, isr, handler, call, idx>>

(* What free_chain() frees. *)
Chain(h) == {h, next[h], next[next[h]]}

(* Mutant: if instead of while. *)
DoneAnyway(p) ==
  /\ at[p] = "woken" /\ VdiskLockFree
  /\ info' = [info EXCEPT ![idx[p]] = NoCall]
  /\ free' = free \cup Chain(idx[p])
  /\ next' = [d \in Descs |-> IF d \in Chain(idx[p]) THEN NoDesc ELSE next[d]]
  /\ idx' = [idx EXCEPT ![p] = NoDesc]
  /\ call' = [call EXCEPT ![p] = NoCall]
  /\ WakeForDescs(p, "out")
  /\ UNCHANGED <<platter, data, busy, inflight, used, isr, handler>>

(* Mutant: free_desc() without wakeup(). *)
DoneQuietly(p) ==
  /\ at[p] = "woken" /\ VdiskLockFree
  /\ ~busy[call[p].buf]
  /\ info' = [info EXCEPT ![idx[p]] = NoCall]
  /\ free' = free \cup Chain(idx[p])
  /\ next' = [d \in Descs |-> IF d \in Chain(idx[p]) THEN NoDesc ELSE next[d]]
  /\ idx' = [idx EXCEPT ![p] = NoDesc]
  /\ call' = [call EXCEPT ![p] = NoCall]
  /\ at' = [at EXCEPT ![p] = "out"]
  /\ UNCHANGED <<platter, data, busy, inflight, used, isr, handler>>

(* The request has finished: free_chain() and return. *)
Done(p) ==
  /\ at[p] = "woken" /\ VdiskLockFree
  /\ ~busy[call[p].buf]
  /\ info' = [info EXCEPT ![idx[p]] = NoCall]
  /\ free' = free \cup Chain(idx[p])
  /\ next' = [d \in Descs |-> IF d \in Chain(idx[p]) THEN NoDesc ELSE next[d]]
  /\ idx' = [idx EXCEPT ![p] = NoDesc]
  /\ call' = [call EXCEPT ![p] = NoCall]
  /\ WakeForDescs(p, "out")
  /\ UNCHANGED <<platter, data, busy, inflight, used, isr, handler>>

(* kkill() wakes whoever sleeps here; both loops test again. *)
DiskKill(p) ==
  /\ at[p] \in {"nodesc", "disk"}
  /\ at' = [at EXCEPT ![p] = IF @ = "disk" THEN "woken" ELSE "descs"]
  /\ UNCHANGED <<platter, data, busy, ringVars, isr, handler, call, idx>>

-----------------------------------------------------------------------------
(* The device finishes any of its requests and asks for an interrupt. *)
Transfer(h) ==
  /\ h \in inflight
  /\ LET r == info[h] IN
       IF r.op = "read"
         THEN data' = [data EXCEPT ![r.buf] = platter[r.block]] /\ UNCHANGED platter
         ELSE platter' = [platter EXCEPT ![r.block] = data[r.buf]] /\ UNCHANGED data
  /\ inflight' = inflight \ {h}
  /\ used' = Append(used, h)
  /\ isr' = TRUE
  /\ UNCHANGED <<busy, free, next, info, handler, at, call, idx>>

(* virtio_disk_intr(): acquire, and acknowledge before looking. *)
IntrBegin ==
  /\ isr /\ VdiskLockFree
  /\ isr' = FALSE
  /\ handler' = "loop"
  /\ UNCHANGED <<platter, data, busy, ringVars, at, call, idx>>

(* Mutant: one completion per interrupt. *)
IntrNextOnce ==
  /\ handler = "loop"
  /\ used # <<>>
  /\ LET b == info[Head(used)].buf IN
       /\ busy' = [busy EXCEPT ![b] = FALSE]
       /\ at' = [p \in Callers |-> IF at[p] = "disk" /\ call[p].buf = b
                                   THEN "woken" ELSE at[p]]
  /\ used' = Tail(used)
  /\ handler' = "end"
  /\ UNCHANGED <<platter, data, free, next, info, inflight, isr, call, idx>>

(* One turn of its loop: b->disk = 0 and wakeup(b). *)
IntrNext ==
  /\ handler = "loop"
  /\ used # <<>>
  /\ LET b == info[Head(used)].buf IN
       /\ busy' = [busy EXCEPT ![b] = FALSE]
       /\ at' = [p \in Callers |-> IF at[p] = "disk" /\ call[p].buf = b
                                   THEN "woken" ELSE at[p]]
  /\ used' = Tail(used)
  /\ UNCHANGED <<platter, data, free, next, info, inflight, isr, handler, call, idx>>

IntrLast ==
  /\ handler = "loop"
  /\ used = <<>>
  /\ handler' = "end"
  /\ UNCHANGED <<platter, data, busy, ringVars, isr, at, call, idx>>

(* Mutant: acknowledge last. *)
IntrEndAck ==
  /\ handler = "end"
  /\ handler' = "off"
  /\ isr' = FALSE
  /\ UNCHANGED <<platter, data, busy, ringVars, at, call, idx>>

IntrEnd ==
  /\ handler = "end"
  /\ handler' = "off"
  /\ UNCHANGED <<platter, data, busy, ringVars, isr, at, call, idx>>

Intr == IntrBegin \/ IntrNext \/ IntrLast \/ IntrEnd

-----------------------------------------------------------------------------
Progress(p) == NoDescs(p) \/ Submit(p) \/ NotYet(p) \/ Done(p)

DiskNext ==
  \/ \E p \in Callers :
       \/ Progress(p) \/ DiskKill(p)
       \/ \E r \in Calls : <<p, r>> \in Requests /\ DiskCall(p, r)
  \/ \E b \in Bufs, v \in Vals : Fill(b, v)
  \/ \E h \in Descs : Transfer(h)
  \/ Intr

DiskSpec == DiskInit /\ [][DiskNext]_diskVars

-----------------------------------------------------------------------------
(* Processes whose request the driver has handed to the device. *)
Submitted == {p \in Callers : at[p] \in {"disk", "woken"}}

(***************************************************************************)
(* Every descriptor is free or in the chain of one request: free_desc()    *)
(* never panics, none leaks, and no chain is reused while its owner has    *)
(* yet to wake up.                                                         *)
(***************************************************************************)
DescriptorsOwned ==
  /\ \A p \in Submitted :
       Chain(idx[p]) \subseteq Descs \ free /\ Cardinality(Chain(idx[p])) = 3
  /\ \A p, q \in Submitted : p # q => Chain(idx[p]) \cap Chain(idx[q]) = {}
  /\ Cardinality(free) + 3 * Cardinality(Submitted) = NUM

(***************************************************************************)
(* No completion goes unnoticed: the sleeper on a buffer is one whose      *)
(* request is with the device or in the used ring, and the used ring does  *)
(* not wait for an interrupt that will not come.                           *)
(***************************************************************************)
CompletionComes ==
  /\ \A p \in Callers : at[p] = "disk" =>
       idx[p] \in inflight \/ \E i \in 1 .. Len(used) : used[i] = idx[p]
  /\ used # <<>> => isr \/ handler = "loop"

-----------------------------------------------------------------------------
(* The driver and the device implement BlockDevice. *)

RequestOf(b) ==
  IF \E p \in Callers : call[p] # NoCall /\ call[p].buf = b
    THEN LET p == CHOOSE p \in Callers : call[p] # NoCall /\ call[p].buf = b
         IN [op |-> call[p].op, block |-> call[p].block,
             served |-> p \in Submitted /\ idx[p] \notin inflight]
    ELSE [op |-> "none"]

Promise == INSTANCE BlockDevice WITH req <- [b \in Bufs |-> RequestOf(b)]

ImplementsDevice == Promise!DeviceSpec

(***************************************************************************)
(* Fairness: the device serves its requests, its interrupts are handled,   *)
(* and a process that finds vdisk_lock free again and again gets it.       *)
(***************************************************************************)
FairDisk ==
  /\ DiskSpec
  /\ \A h \in Descs : WF_diskVars(Transfer(h))
  /\ WF_diskVars(Intr)
  /\ \A p \in Callers : SF_diskVars(Progress(p))

(* A request that the device has gets its answer, and the caller returns. *)
RequestsReturn == \A p \in Callers : at[p] \in {"disk", "woken"} ~> at[p] = "out"

(* Whoever sleeps for lack of descriptors is told to try again. *)
DescriptorsComeBack == \A p \in Callers : at[p] = "nodesc" ~> at[p] = "descs"
=============================================================================
