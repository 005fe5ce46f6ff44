-------------------------------- MODULE Log --------------------------------
(***************************************************************************)
(* The redo log of kernel/log.c and the machine crashing under it.         *)
(*                                                                         *)
(* Processes run file system operations, begin_op() .. end_op(), and call  *)
(* log_write() in between.  Whoever ends the last one commits: write_log,  *)
(* write_head, install_trans, write_head, each disk block a step of its    *)
(* own, so that a crash can come between any two; after it                 *)
(* recover_from_log() runs, and may be cut short by the next crash.        *)
(*                                                                         *)
(* The buffer cache is kept at its worst: a buffer nobody pins is recycled *)
(* at once, so cache[b] differs from the disk only while b is pinned.  One *)
(* block write is atomic.  log.lock makes each of begin_op(), log_write()  *)
(* and the first half of end_op() one step; sleep() and wakeup() on &log   *)
(* are those of SleepLock, where nothing is lost between them.             *)
(***************************************************************************)
EXTENDS Naturals, Sequences, FiniteSets

CONSTANTS
  Procs,
  Homes,       \* home locations on the disk
  Contents,    \* contents of a block
  MAXOPBLOCKS, \* log space reserved for an operation
  LOGBLOCKS,   \* slots of the on-disk log
  OpBlocks     \* distinct blocks an operation really writes at most

ASSUME LogAssumption ==
  /\ {MAXOPBLOCKS, LOGBLOCKS, OpBlocks} \subseteq Nat
  /\ OpBlocks <= MAXOPBLOCKS
  /\ MAXOPBLOCKS <= LOGBLOCKS

VARIABLES
  \* on disk
  home,        \* the blocks themselves
  slots,       \* the data blocks of the log
  header,      \* the block numbers of the log's header; <<>> when n is 0
  \* in memory
  cache,       \* what bread() returns
  pins,        \* references bpin() has added to a buffer
  lh,          \* log.lh, as the sequence of block numbers
  outstanding,
  committing,
  tail,        \* loop variable of write_log() and install_trans()
  pc,          \* where each process is
  wrote,       \* blocks written so far by each operation under way
  boot         \* where recovery is; "up" when it is over

diskVars == <<home, slots, header>>
memVars == <<cache, pins, lh, outstanding, committing, tail, pc, wrote, boot>>
vars == <<diskVars, memVars>>

Phases == {
  "idle",
  "begin",     \* wants log.lock in begin_op()
  "sleep",     \* in begin_op(), asleep on &log
  "op",        \* between begin_op() and end_op()
  "log",       \* in commit(): write_log()
  "commit",    \* write_head(), the commit point
  "install",   \* install_trans(0)
  "erase",     \* the second write_head()
  "finish" }   \* end_op(), after commit()

TypeOK ==
  /\ home \in [Homes -> Contents] /\ cache \in [Homes -> Contents]
  /\ slots \in [1 .. LOGBLOCKS -> Contents]
  /\ header \in Seq(Homes) /\ Len(header) <= LOGBLOCKS
  /\ lh \in Seq(Homes) /\ Len(lh) <= LOGBLOCKS
  /\ pins \in [Homes -> Nat]
  /\ outstanding \in Nat /\ committing \in BOOLEAN /\ tail \in Nat
  /\ pc \in [Procs -> Phases]
  /\ wrote \in [Procs -> SUBSET Homes]
  /\ boot \in {"read", "install", "erase", "up"}

(* A disk with an empty log, after recovery. *)
Init ==
  /\ home \in [Homes -> Contents]
  /\ \E v \in Contents : slots = [i \in 1 .. LOGBLOCKS |-> v]
  /\ header = <<>>
  /\ cache = home
  /\ pins = [b \in Homes |-> 0]
  /\ lh = <<>>
  /\ outstanding = 0
  /\ committing = FALSE
  /\ tail = 0
  /\ pc = [p \in Procs |-> "idle"]
  /\ wrote = [p \in Procs |-> {}]
  /\ boot = "up"

-----------------------------------------------------------------------------
Goto(p, there) == pc' = [pc EXCEPT ![p] = there]

Logged == {lh[i] : i \in 1 .. Len(lh)}

(* NBUF: param.h gives the buffer cache as many buffers as the log slots. *)
CacheSize == LOGBLOCKS

Pinned == {b \in Homes : pins[b] > 0}

(* wakeup(&log), followed by p moving on. *)
WakeAllAndGoto(p, there) ==
  pc' = [q \in Procs |-> IF q = p THEN there
                         ELSE IF pc[q] = "sleep" THEN "begin" ELSE pc[q]]

(* Mutant: the new operation itself is not counted. *)
MustWaitOneLess == committing \/ Len(lh) + outstanding * MAXOPBLOCKS > LOGBLOCKS

(* The reasons for which begin_op() sleeps. *)
MustWait ==
  committing \/ Len(lh) + (outstanding + 1) * MAXOPBLOCKS > LOGBLOCKS

(* A file system call comes to begin_op(). *)
Call(p) ==
  /\ boot = "up"
  /\ pc[p] = "idle"
  /\ Goto(p, "begin")
  /\ UNCHANGED <<diskVars, cache, pins, lh, outstanding, committing, tail, wrote,
                 boot>>

(* begin_op(): one turn of its loop. *)
BeginOpSleep(p) ==
  /\ pc[p] = "begin"
  /\ MustWait
  /\ Goto(p, "sleep")
  /\ UNCHANGED <<diskVars, cache, pins, lh, outstanding, committing, tail, wrote,
                 boot>>

BeginOp(p) ==
  /\ pc[p] = "begin"
  /\ ~MustWait
  /\ outstanding' = outstanding + 1
  /\ Goto(p, "op")
  /\ UNCHANGED <<diskVars, cache, pins, lh, committing, tail, wrote, boot>>

(* The callers' side of the bargain: few distinct blocks, any number of times. *)
MayWrite(p, b) == pc[p] = "op" /\ Cardinality(wrote[p] \cup {b}) <= OpBlocks

(* Mutant: bpin() even if the block is in the log already. *)
LogWritePinsAgain(p, b, v) ==
  /\ MayWrite(p, b)
  /\ Len(lh) < LOGBLOCKS /\ outstanding >= 1
  /\ cache' = [cache EXCEPT ![b] = v]
  /\ wrote' = [wrote EXCEPT ![p] = @ \cup {b}]
  /\ lh' = IF b \in Logged THEN lh ELSE Append(lh, b)
  /\ pins' = [pins EXCEPT ![b] = IF @ < 2 THEN @ + 1 ELSE @]
  /\ UNCHANGED <<diskVars, outstanding, committing, tail, pc, boot>>

(* Modify a buffer, under its sleep-lock, and log_write() it. *)
LogWrite(p, b, v) ==
  /\ MayWrite(p, b)
  /\ Len(lh) < LOGBLOCKS      \* else panic("too big a transaction")
  /\ outstanding >= 1         \* else panic("log_write outside of trans")
  /\ cache' = [cache EXCEPT ![b] = v]
  /\ wrote' = [wrote EXCEPT ![p] = @ \cup {b}]
  /\ IF b \in Logged
       THEN UNCHANGED <<lh, pins>>
       ELSE /\ lh' = Append(lh, b)
            /\ pins' = [pins EXCEPT ![b] = @ + 1]
  /\ UNCHANGED <<diskVars, outstanding, committing, tail, pc, boot>>

(* Mutant: no wakeup() when reserved space is given back. *)
EndOpNotLastQuietly(p) ==
  /\ pc[p] = "op" /\ ~committing /\ outstanding > 1
  /\ outstanding' = outstanding - 1
  /\ wrote' = [wrote EXCEPT ![p] = {}]
  /\ Goto(p, "idle")
  /\ UNCHANGED <<diskVars, cache, pins, lh, committing, tail, boot>>

(* end_op() of an operation that is not the last one. *)
EndOpNotLast(p) ==
  /\ pc[p] = "op"
  /\ ~committing              \* else panic("log.committing")
  /\ outstanding > 1
  /\ outstanding' = outstanding - 1
  /\ wrote' = [wrote EXCEPT ![p] = {}]
  /\ WakeAllAndGoto(p, "idle")
  /\ UNCHANGED <<diskVars, cache, pins, lh, committing, tail, boot>>

(* end_op() of the last one: the caller becomes the one that commits. *)
EndOpLast(p) ==
  /\ pc[p] = "op"
  /\ ~committing              \* else panic("log.committing")
  /\ outstanding = 1
  /\ outstanding' = 0
  /\ committing' = TRUE
  /\ tail' = 0
  /\ wrote' = [wrote EXCEPT ![p] = {}]
  /\ Goto(p, IF lh = <<>> THEN "finish" ELSE "log")
  /\ UNCHANGED <<diskVars, cache, pins, lh, boot>>

-----------------------------------------------------------------------------
(* write_log(): the next block, from the cache to its slot. *)
WriteLog(p) ==
  /\ pc[p] = "log"
  /\ slots' = [slots EXCEPT ![tail + 1] = cache[lh[tail + 1]]]
  /\ IF tail + 1 < Len(lh)
       THEN tail' = tail + 1 /\ UNCHANGED pc
       ELSE tail' = 0 /\ Goto(p, "commit")
  /\ UNCHANGED <<home, header, cache, pins, lh, outstanding, committing, wrote,
                 boot>>

(* write_head(): the real commit. *)
Commit(p) ==
  /\ pc[p] = "commit"
  /\ header' = lh
  /\ Goto(p, "install")
  /\ UNCHANGED <<home, slots, cache, pins, lh, outstanding, committing, tail,
                 wrote, boot>>

(* install_trans(0): the next block, to its home, and bunpin(). *)
Install(p) ==
  /\ pc[p] = "install"
  /\ LET b == lh[tail + 1] IN
     /\ home' = [home EXCEPT ![b] = slots[tail + 1]]
     /\ cache' = [cache EXCEPT ![b] = slots[tail + 1]]
     /\ pins' = [pins EXCEPT ![b] = @ - 1]
  /\ IF tail + 1 < Len(lh)
       THEN tail' = tail + 1 /\ UNCHANGED pc
       ELSE tail' = 0 /\ Goto(p, "erase")
  /\ UNCHANGED <<slots, header, lh, outstanding, committing, wrote, boot>>

(* Mutant: the transaction is erased in memory, not on disk. *)
EraseInMemory(p) ==
  /\ pc[p] = "erase"
  /\ lh' = <<>>
  /\ Goto(p, "finish")
  /\ UNCHANGED <<diskVars, cache, pins, outstanding, committing, tail, wrote, boot>>

(* log.lh.n = 0 and write_head(): the transaction leaves the log. *)
Erase(p) ==
  /\ pc[p] = "erase"
  /\ lh' = <<>>
  /\ header' = <<>>
  /\ Goto(p, "finish")
  /\ UNCHANGED <<home, slots, cache, pins, outstanding, committing, tail, wrote,
                 boot>>

(* Mutant: no wakeup() after commit(). *)
FinishQuietly(p) ==
  /\ pc[p] = "finish"
  /\ committing' = FALSE
  /\ Goto(p, "idle")
  /\ UNCHANGED <<diskVars, cache, pins, lh, outstanding, tail, wrote, boot>>

(* The end of end_op(): commit() is over. *)
Finish(p) ==
  /\ pc[p] = "finish"
  /\ committing' = FALSE
  /\ WakeAllAndGoto(p, "idle")
  /\ UNCHANGED <<diskVars, cache, pins, lh, outstanding, tail, wrote, boot>>

(* kkill() wakes a sleeper of begin_op(), which goes round its loop again. *)
Kill(p) ==
  /\ pc[p] = "sleep"
  /\ Goto(p, "begin")
  /\ UNCHANGED <<diskVars, cache, pins, lh, outstanding, committing, tail, wrote,
                 boot>>

-----------------------------------------------------------------------------
(* The machine stops and restarts: only the disk is left. *)
Crash ==
  /\ boot' = "read"
  /\ cache' = home
  /\ pins' = [b \in Homes |-> 0]
  /\ lh' = <<>>
  /\ outstanding' = 0
  /\ committing' = FALSE
  /\ tail' = 0
  /\ pc' = [p \in Procs |-> "idle"]
  /\ wrote' = [p \in Procs |-> {}]
  /\ UNCHANGED diskVars

(* recover_from_log(): read_head(). *)
RecoverHead ==
  /\ boot = "read"
  /\ lh' = header
  /\ boot' = IF header = <<>> THEN "erase" ELSE "install"
  /\ UNCHANGED <<diskVars, cache, pins, outstanding, committing, tail, pc, wrote>>

(* Mutant: the loop does not advance. *)
RecoverBlockForEver ==
  /\ boot = "install"
  /\ LET b == lh[tail + 1] IN
     /\ home' = [home EXCEPT ![b] = slots[tail + 1]]
     /\ cache' = [cache EXCEPT ![b] = slots[tail + 1]]
  /\ UNCHANGED <<slots, header, pins, lh, outstanding, committing, tail, pc, wrote,
                 boot>>

(* install_trans(1): the next block; nothing is pinned. *)
RecoverBlock ==
  /\ boot = "install"
  /\ LET b == lh[tail + 1] IN
     /\ home' = [home EXCEPT ![b] = slots[tail + 1]]
     /\ cache' = [cache EXCEPT ![b] = slots[tail + 1]]
  /\ IF tail + 1 < Len(lh)
       THEN tail' = tail + 1 /\ UNCHANGED boot
       ELSE tail' = 0 /\ boot' = "erase"
  /\ UNCHANGED <<slots, header, pins, lh, outstanding, committing, pc, wrote>>

(* log.lh.n = 0 and write_head(). *)
RecoverErase ==
  /\ boot = "erase"
  /\ lh' = <<>>
  /\ header' = <<>>
  /\ boot' = "up"
  /\ UNCHANGED <<home, slots, cache, pins, outstanding, committing, tail, pc, wrote>>

Recover == RecoverHead \/ RecoverBlock \/ RecoverErase

-----------------------------------------------------------------------------
(* What a process does once its file system call has begun; the call itself *)
(* writes what it likes, and ends.                                          *)
Progress(p) ==
  \/ BeginOpSleep(p) \/ BeginOp(p)
  \/ EndOpNotLast(p) \/ EndOpLast(p)
  \/ WriteLog(p) \/ Commit(p) \/ Install(p) \/ Erase(p) \/ Finish(p)

Next ==
  \/ \E p \in Procs :
       \/ Call(p) \/ Progress(p) \/ Kill(p)
       \/ \E b \in Homes, v \in Contents : LogWrite(p, b, v)
  \/ Crash \/ Recover

Spec == Init /\ [][Next]_vars

-----------------------------------------------------------------------------
(***************************************************************************)
(* log_write() never panics: an operation that writes no more distinct     *)
(* blocks than it may always finds the log with a slot left, even to write *)
(* again what it has written before.                                       *)
(***************************************************************************)
LogNeverFull ==
  \A p \in Procs, b \in Homes : MayWrite(p, b) => Len(lh) < LOGBLOCKS

(***************************************************************************)
(* The log never takes all buffers of the cache: while operations or a     *)
(* commit go on one buffer is not pinned, which write_log() and            *)
(* install_trans() need to read a slot of the log, or else bget() panics.  *)
(* Pins are kept until their block is installed, so nothing else frees it. *)
(***************************************************************************)
PinsLeaveBuffer == boot = "up" => Cardinality(Pinned) < CacheSize

(***************************************************************************)
(* Nobody oversleeps: whoever sleeps in begin_op() still has to, so no     *)
(* change that lets it go on has come without a wakeup().                  *)
(***************************************************************************)
SleepersMustWait == \A p \in Procs : pc[p] = "sleep" => MustWait

(***************************************************************************)
(* A block is pinned once while its only up-to-date copy is in the cache,  *)
(* and not at all when it has been installed: a pin too few loses a write, *)
(* a pin too many takes a buffer out of the cache for ever.                *)
(***************************************************************************)
Installed == IF \E p \in Procs : pc[p] = "erase" THEN Len(lh)
             ELSE IF \E p \in Procs : pc[p] = "install" THEN tail ELSE 0

PinnedWhileLogged ==
  boot = "up" =>
    /\ \A i, j \in 1 .. Len(lh) : lh[i] = lh[j] => i = j
    /\ \A b \in Homes :
         pins[b] = IF \E i \in Installed + 1 .. Len(lh) : lh[i] = b THEN 1 ELSE 0

(***************************************************************************)
(* When nothing is under way everything is on disk at home: an end_op()    *)
(* that found itself the last one returns with all writes durable.         *)
(***************************************************************************)
QuietMeansInstalled ==
  boot = "up" /\ outstanding = 0 /\ ~committing =>
    cache = home /\ header = <<>> /\ lh = <<>>

-----------------------------------------------------------------------------
(* What makes the above inductive. *)

Open == {p \in Procs : pc[p] = "op"}

CommitPhases == {"log", "commit", "install", "erase", "finish"}

At(phase) == \E p \in Procs : pc[p] = phase

(* One process commits at a time, alone; nobody is there during recovery. *)
Actors ==
  /\ IsFiniteSet(Open) /\ outstanding = Cardinality(Open)
  /\ committing <=> \E p \in Procs : pc[p] \in CommitPhases
  /\ \A p, q \in Procs :
       pc[p] \in CommitPhases /\ pc[q] \in CommitPhases => p = q
  /\ committing => Open = {}
  /\ boot # "up" => \A p \in Procs : pc[p] = "idle"

(* The loops over the log stay inside it. *)
TailInRange ==
  /\ At("log") \/ At("install") \/ boot = "install" => tail < Len(lh)
  /\ At("commit") => tail = 0 /\ lh # <<>>
  /\ boot = "read" => tail = 0

(***************************************************************************)
(* An operation owns a slot of the log for each block that it may still    *)
(* add; slots in use and slots owned never exceed the log.                 *)
(***************************************************************************)
Credit ==
  {c \in Open \X (1 .. MAXOPBLOCKS) : c[2] > Cardinality(wrote[c[1]])}

SpaceReserved ==
  /\ \A p \in Procs :
       /\ IsFiniteSet(wrote[p]) /\ wrote[p] \subseteq Logged
       /\ pc[p] # "op" => wrote[p] = {}
  /\ Len(lh) + Cardinality(Credit) <= LOGBLOCKS

(* Which copies of a block agree, at each stage of a commit. *)
CopiesAgree ==
  boot = "up" =>
    /\ \A b \in Homes \ Logged : cache[b] = home[b]
    /\ header = IF At("install") \/ At("erase") THEN lh ELSE <<>>
    /\ At("log") => \A i \in 1 .. tail : slots[i] = cache[lh[i]]
    /\ At("commit") \/ At("install") \/ At("erase") =>
         \A i \in 1 .. Len(lh) : slots[i] = cache[lh[i]]
    /\ \A i \in 1 .. Installed : home[lh[i]] = slots[i]
    /\ At("finish") \/ (outstanding = 0 /\ ~committing) => lh = <<>>

(* And of recovery. *)
RecoveryAgrees ==
  /\ \A i, j \in 1 .. Len(header) : header[i] = header[j] => i = j
  /\ boot # "up" => cache = home /\ pins = [b \in Homes |-> 0]
  /\ boot \in {"install", "erase"} => lh = header
  /\ boot = "install" => \A i \in 1 .. tail : home[lh[i]] = slots[i]
  /\ boot = "erase" => \A i \in 1 .. Len(lh) : home[lh[i]] = slots[i]

LogInv ==
  /\ TypeOK
  /\ Actors
  /\ TailInRange
  /\ SpaceReserved
  /\ SleepersMustWait
  /\ PinnedWhileLogged
  /\ CopiesAgree
  /\ RecoveryAgrees

-----------------------------------------------------------------------------
(***************************************************************************)
(* The log implements Journal.  What a crash leaves is what recovery will  *)
(* make of the disk: the blocks named in the header come from the slots.   *)
(***************************************************************************)
AfterRecovery ==
  [b \in Homes |->
     IF \E i \in 1 .. Len(header) : header[i] = b
       THEN slots[CHOOSE i \in 1 .. Len(header) : header[i] = b]
       ELSE home[b]]

Promise == INSTANCE Journal WITH
  Clients <- Procs, Addresses <- Homes, Contents <- Contents,
  mem <- IF boot = "up" THEN cache ELSE AfterRecovery,
  durable <- AfterRecovery,
  open <- Open

ImplementsJournal == Promise!JournalSpec

(***************************************************************************)
(* Fairness: recovery and every call that has begun go on; an operation    *)
(* ends.  log.lock is free again and again, so a process in begin_op()     *)
(* eventually makes its test, but it may find others have passed it.       *)
(***************************************************************************)
FairSpec ==
  Spec /\ WF_vars(Recover) /\ \A p \in Procs : WF_vars(Progress(p))

(***************************************************************************)
(* While calls come in, calls get through, unless the machine crashes      *)
(* again and again: the log never ends up with everybody asleep on &log.   *)
(***************************************************************************)
SomebodyGetsThrough ==
  (\E p \in Procs : pc[p] \in {"begin", "sleep"}) ~>
    ((\E p \in Procs : pc[p] = "op") \/ boot # "up")

(* And recovery comes to its end between crashes. *)
RecoveryEnds == <>[][~Crash]_vars => <>[](boot = "up")
=============================================================================
