-------------------------------- MODULE Pipe --------------------------------
(***************************************************************************)
(* One pipe of kernel/pipe.c with the processes that hold its two ends:    *)
(* pipewrite(), piperead(), and pipeclose() when the last descriptor of an *)
(* end is closed.                                                          *)
(*                                                                         *)
(* pi->lock is held from acquire() to release() or sleep(), byte after     *)
(* byte; what other processes can do meanwhile is kill: kkill() takes      *)
(* p->lock only.  The tests of killed() and the calls of sleep() are steps *)
(* of their own, so that a kill may come between them.  sleep() itself is  *)
(* one step here (see SleepLock).  The counts are unsigned and wrap around *)
(* at Wrap, 2^32 in the code.                                              *)
(***************************************************************************)
EXTENDS Naturals, Sequences

CONSTANTS
  Writers, Readers,   \* processes, each with one descriptor of its end
  Bytes,
  PIPESIZE,
  Wrap,               \* what the uint counts wrap around at
  MaxCount,           \* bound: the largest n a process asks for
  Victims,            \* bound: the processes that get killed
  Nobody

Procs == Writers \cup Readers

ASSUME PipeAssumption ==
  /\ Writers # {} /\ Readers # {} /\ Writers \cap Readers = {}
  /\ Nobody \notin Procs
  /\ {PIPESIZE, Wrap, MaxCount} \subseteq Nat \ {0}
  /\ PIPESIZE < Wrap /\ Wrap % PIPESIZE = 0
  /\ Victims \subseteq Procs

VARIABLES
  data, nread, nwrite, readopen, writeopen,   \* struct pipe
  lock,     \* pi->lock: the process that holds it
  fds,      \* the processes that have not closed their descriptor
  pc,       \* where each process is
  left,     \* n - i, the bytes a call has still to move
  killed

vars == <<data, nread, nwrite, readopen, writeopen, lock, fds, pc, left, killed>>

Phases == {
  "idle",
  "enter",    \* wants pi->lock: entry of a call, or end of sleep()
  "loop",     \* pipewrite(): top of the loop; piperead(): test for empty
  "copy",     \* piperead(): second loop
  "nap",      \* decided to sleep
  "asleep" }

TypeOK ==
  /\ data \in [0 .. PIPESIZE - 1 -> Bytes]
  /\ nread \in 0 .. Wrap - 1 /\ nwrite \in 0 .. Wrap - 1
  /\ readopen \in BOOLEAN /\ writeopen \in BOOLEAN
  /\ lock \in Procs \cup {Nobody}
  /\ fds \subseteq Procs
  /\ pc \in [Procs -> Phases]
  /\ left \in [Procs -> 0 .. MaxCount]
  /\ killed \in [Procs -> BOOLEAN]

(* pipealloc(), and the descriptors handed out. *)
Init ==
  /\ \E b \in Bytes : data = [i \in 0 .. PIPESIZE - 1 |-> b]
  /\ nread = 0 /\ nwrite = 0
  /\ readopen = TRUE /\ writeopen = TRUE
  /\ lock = Nobody
  /\ fds = Procs
  /\ pc = [p \in Procs |-> "idle"]
  /\ left = [p \in Procs |-> 0]
  /\ killed = [p \in Procs |-> FALSE]

-----------------------------------------------------------------------------
Goto(p, there) == pc' = [pc EXCEPT ![p] = there]

(* wakeup() on the channel of the processes in S, while p goes there. *)
WakeAndGoto(S, p, there) ==
  pc' = [q \in Procs |-> IF q = p THEN there
                         ELSE IF q \in S /\ pc[q] = "asleep" THEN "enter"
                         ELSE pc[q]]

Empty == nread = nwrite

Full == nwrite = (nread + PIPESIZE) % Wrap

(* read() or write() of n bytes.  A killed process begins no system call. *)
Call(p, n) ==
  /\ p \in fds
  /\ pc[p] = "idle"
  /\ ~killed[p]
  /\ left' = [left EXCEPT ![p] = n]
  /\ Goto(p, "enter")
  /\ UNCHANGED <<data, nread, nwrite, readopen, writeopen, lock, fds, killed>>

Enter(p) ==
  /\ pc[p] = "enter"
  /\ lock = Nobody
  /\ lock' = p
  /\ Goto(p, "loop")
  /\ UNCHANGED <<data, nread, nwrite, readopen, writeopen, fds, left, killed>>

(* release() and return. *)
Leave(p) ==
  /\ lock' = Nobody
  /\ left' = [left EXCEPT ![p] = 0]
  /\ UNCHANGED <<readopen, writeopen, fds, killed>>

(* sleep(), which lets go of pi->lock. *)
Sleep(p) ==
  /\ pc[p] = "nap"
  /\ lock' = Nobody
  /\ Goto(p, "asleep")
  /\ UNCHANGED <<data, nread, nwrite, readopen, writeopen, fds, left, killed>>

-----------------------------------------------------------------------------
(* pipewrite(): nobody to read, or killed: -1 at once. *)
WriteFails(p) ==
  /\ p \in Writers /\ pc[p] = "loop"
  /\ left[p] > 0
  /\ ~readopen \/ killed[p]
  /\ Goto(p, "idle")
  /\ Leave(p)
  /\ UNCHANGED <<data, nread, nwrite>>

(* Mutant: the writer goes to sleep without waking the readers first. *)
WriteWaitsQuietly(p) ==
  /\ p \in Writers /\ pc[p] = "loop"
  /\ left[p] > 0
  /\ readopen /\ ~killed[p]
  /\ Full
  /\ Goto(p, "nap")
  /\ UNCHANGED <<data, nread, nwrite, readopen, writeopen, lock, fds, left, killed>>

(* The buffer is full: wake the readers, and sleep. *)
WriteWaits(p) ==
  /\ p \in Writers /\ pc[p] = "loop"
  /\ left[p] > 0
  /\ readopen /\ ~killed[p]
  /\ Full
  /\ WakeAndGoto(Readers, p, "nap")
  /\ UNCHANGED <<data, nread, nwrite, readopen, writeopen, lock, fds, left, killed>>

(* Mutant: data[++pi->nwrite % PIPESIZE], not data[pi->nwrite++ % PIPESIZE]. *)
WriteByteAhead(p, b) ==
  /\ p \in Writers /\ pc[p] = "loop"
  /\ left[p] > 0
  /\ readopen /\ ~killed[p]
  /\ ~Full
  /\ data' = [data EXCEPT ![(nwrite + 1) % PIPESIZE] = b]
  /\ nwrite' = (nwrite + 1) % Wrap
  /\ left' = [left EXCEPT ![p] = @ - 1]
  /\ UNCHANGED <<nread, readopen, writeopen, lock, fds, pc, killed>>

(* The next byte. *)
WriteByte(p, b) ==
  /\ p \in Writers /\ pc[p] = "loop"
  /\ left[p] > 0
  /\ readopen /\ ~killed[p]
  /\ ~Full
  /\ data' = [data EXCEPT ![nwrite % PIPESIZE] = b]
  /\ nwrite' = (nwrite + 1) % Wrap
  /\ left' = [left EXCEPT ![p] = @ - 1]
  /\ UNCHANGED <<nread, readopen, writeopen, lock, fds, pc, killed>>

(* Mutant: return, not break, when copyin() fails. *)
WriteReturnsQuietly(p) ==
  /\ p \in Writers /\ pc[p] = "loop"
  /\ left[p] = 0 \/ (readopen /\ ~killed[p] /\ ~Full)
  /\ WakeAndGoto(IF left[p] = 0 THEN Readers ELSE {}, p, "idle")
  /\ Leave(p)
  /\ UNCHANGED <<data, nread, nwrite>>

(* All is written, or copyin() fails: wake the readers and return. *)
WriteReturns(p) ==
  /\ p \in Writers /\ pc[p] = "loop"
  /\ left[p] = 0 \/ (readopen /\ ~killed[p] /\ ~Full)
  /\ WakeAndGoto(Readers, p, "idle")
  /\ Leave(p)
  /\ UNCHANGED <<data, nread, nwrite>>

-----------------------------------------------------------------------------
(* piperead(): empty, killed: -1. *)
ReadFails(p) ==
  /\ p \in Readers /\ pc[p] = "loop"
  /\ Empty /\ writeopen
  /\ killed[p]
  /\ Goto(p, "idle")
  /\ Leave(p)
  /\ UNCHANGED <<data, nread, nwrite>>

(* Empty, but a writer is there: sleep. *)
ReadWaits(p) ==
  /\ p \in Readers /\ pc[p] = "loop"
  /\ Empty /\ writeopen
  /\ ~killed[p]
  /\ Goto(p, "nap")
  /\ UNCHANGED <<data, nread, nwrite, readopen, writeopen, lock, fds, left, killed>>

(* There is something to read, or there will never be. *)
ReadGoesOn(p) ==
  /\ p \in Readers /\ pc[p] = "loop"
  /\ ~(Empty /\ writeopen)
  /\ Goto(p, "copy")
  /\ UNCHANGED <<data, nread, nwrite, readopen, writeopen, lock, fds, left, killed>>

(* The byte is out of the pipe before copyout() is tried. *)
ReadByte(p) ==
  /\ pc[p] = "copy"
  /\ left[p] > 0 /\ ~Empty
  /\ nread' = (nread + 1) % Wrap
  /\ \/ left' = [left EXCEPT ![p] = @ - 1]
     \/ left' = [left EXCEPT ![p] = 0]      \* copyout() fails
  /\ UNCHANGED <<data, nwrite, readopen, writeopen, lock, fds, pc, killed>>

ReadReturns(p) ==
  /\ pc[p] = "copy"
  /\ left[p] = 0 \/ Empty
  /\ WakeAndGoto(Writers, p, "idle")
  /\ Leave(p)
  /\ UNCHANGED <<data, nread, nwrite>>

-----------------------------------------------------------------------------
(* fileclose(), and pipeclose() if this was the last descriptor of its end. *)
Close(p) ==
  /\ p \in fds
  /\ pc[p] = "idle"
  /\ lock = Nobody
  /\ fds' = fds \ {p}
  /\ writeopen' = (fds' \cap Writers # {})
  /\ readopen' = (fds' \cap Readers # {})
  /\ LET peers == IF p \in Writers THEN Readers ELSE Writers
         last == IF p \in Writers THEN writeopen' = FALSE ELSE readopen' = FALSE
     IN  WakeAndGoto(IF last THEN peers ELSE {}, p, "idle")
  /\ UNCHANGED <<data, nread, nwrite, lock, left, killed>>

(* kkill(), which may come at any moment. *)
Kill(p) ==
  /\ p \in Victims /\ ~killed[p]
  /\ killed' = [killed EXCEPT ![p] = TRUE]
  /\ pc' = [pc EXCEPT ![p] = IF @ = "asleep" THEN "enter" ELSE @]
  /\ UNCHANGED <<data, nread, nwrite, readopen, writeopen, lock, fds, left>>

-----------------------------------------------------------------------------
(* A call goes on by itself to its end or to sleep(). *)
Work(p) ==
  \/ Enter(p) \/ Sleep(p)
  \/ WriteFails(p) \/ WriteWaits(p) \/ WriteReturns(p)
  \/ \E b \in Bytes : WriteByte(p, b)
  \/ ReadFails(p) \/ ReadWaits(p) \/ ReadGoesOn(p) \/ ReadByte(p) \/ ReadReturns(p)

Next ==
  \E p \in Procs :
    \/ Work(p) \/ Close(p) \/ Kill(p)
    \/ \E n \in 0 .. MaxCount : Call(p, n)

(* When all descriptors are closed nothing is left to do. *)
Over == fds = {} /\ UNCHANGED vars

Spec == Init /\ [][Next \/ Over]_vars

(***************************************************************************)
(* A process in a call runs on, and gets pi->lock if it is free again and  *)
(* again.  Readers come back to read something; writers need not write.  A *)
(* killed process exits, which closes its descriptor.                      *)
(***************************************************************************)
Fairness ==
  /\ \A p \in Procs : SF_vars(Work(p))
  /\ \A p \in Victims : SF_vars(killed[p] /\ Close(p))
  /\ \A p \in Readers : SF_vars(\E n \in 1 .. MaxCount : Call(p, n))

FairSpec == Spec /\ Fairness

-----------------------------------------------------------------------------
(***************************************************************************)
(* "Code that later makes the condition true calls wakeup": no reader is   *)
(* asleep on a pipe it could read from, and no writer on one it could      *)
(* write to, once the process that changed the pipe has let go of its      *)
(* lock.                                                                   *)
(***************************************************************************)
NobodyOversleeps ==
  lock = Nobody =>
    \A p \in Procs : pc[p] = "asleep" =>
      IF p \in Readers THEN Empty /\ writeopen ELSE Full /\ readopen

(***************************************************************************)
(* The counts wrap around and the difference still says how much is in the *)
(* buffer: never less than nothing, never more than PIPESIZE.              *)
(***************************************************************************)
Occupancy == (nwrite + Wrap - nread) % Wrap

Queue == [i \in 1 .. Occupancy |-> data[(nread + i - 1) % PIPESIZE]]

(***************************************************************************)
(* The pipe implements Stream.                                             *)
(***************************************************************************)
Promise == INSTANCE Stream WITH
  Capacity <- PIPESIZE,
  queue <- Queue,
  writable <- writeopen, readable <- readopen

ImplementsStream == Promise!StreamSpec

(***************************************************************************)
(* A write() returns as long as somebody keeps reading, however much       *)
(* larger than the pipe it is.                                             *)
(***************************************************************************)
WritesReturn == \A p \in Writers : pc[p] # "idle" ~> pc[p] = "idle"
=============================================================================
