-------------------------------- MODULE Proc --------------------------------
(***************************************************************************)
(* Life and death of processes: kfork(), kexit(), kwait() and kkill() of   *)
(* kernel/proc.c, with the killed() tests usertrap() makes around every    *)
(* system call, on top of the process table of Sched.                      *)
(*                                                                         *)
(* The family tree (p->parent) is protected by wait_lock, the rest of a    *)
(* slot by its p->lock.  kfork() takes them one after the other, never     *)
(* together, so a child exists for a while without a parent; kexit() and   *)
(* kwait() hold wait_lock around the p->lock of other processes.  Memory,  *)
(* files and exit statuses are left out.                                   *)
(***************************************************************************)
EXTENDS Sched, Naturals

CONSTANTS
  InitProc,      \* initproc
  MaxPid,     \* bound: last pid that allocpid() hands out
  KillArgs    \* bound: pids that kill() is called with, or that fault

ASSUME ProcAssumption ==
  /\ InitProc \in Procs
  /\ MaxPid \in Nat \ {0}
  /\ KillArgs \subseteq 0 .. MaxPid
  /\ Chans = Procs     \* kwait() sleeps on the address of the process itself

VARIABLES
  pid,        \* p->pid; 0 in a free slot
  parent,     \* p->parent
  nextpid,
  waitlock,   \* wait_lock: the CPU that holds it
  scan,       \* slots the loop of kwait() has still to look at
  child,      \* np, in kfork()
  pc,         \* where each process is
  asked,      \* history: pids passed to kill(), or whose process faulted
  strays      \* history: slots that kill(0) marked, until freeproc()

procVars == <<pid, parent, nextpid, waitlock, scan, child, pc, asked, strays>>
vars == <<schedVars, procVars>>

Phases == {
  "user",     \* in user space
  "kernel",   \* in a system call it has yet to choose
  "return",   \* in usertrap(), at the last killed() test
  "linked",   \* kfork(): child allocated, no parent yet
  "start",    \* kfork(): parent set
  "wait",     \* kwait(), wants wait_lock
  "scan",     \* kwait(), in the loop over the children
  "nap",      \* kwait(): found none, decided to sleep
  "doze",     \* in sleep(), holding its p->lock and wait_lock
  "asleep",   \* until swtch() returns
  "exit",     \* kexit(), wants wait_lock
  "adopted",  \* kexit(): has given children to init
  "farewell", \* kexit(): about to wake its parent
  "die" }     \* kexit(): wants its own p->lock, then swtch()

TypeOK ==
  /\ SchedTypeOK
  /\ pid \in [Procs -> 0 .. MaxPid]
  /\ parent \in [Procs -> Procs \cup {NoProc}]
  /\ nextpid \in 1 .. MaxPid + 1
  /\ waitlock \in Cpus \cup {NoCpu}
  /\ scan \subseteq Procs
  /\ child \in [Procs -> Procs \cup {NoProc}]
  /\ pc \in [Procs -> Phases]
  /\ asked \subseteq 0 .. MaxPid /\ strays \subseteq Procs

(* userinit(): the first process has pid 1 and no parent. *)
Init ==
  /\ SchedInit
  /\ state = [p \in Procs |-> IF p = InitProc THEN "RUNNABLE" ELSE "UNUSED"]
  /\ pid = [p \in Procs |-> IF p = InitProc THEN 1 ELSE 0]
  /\ parent = [p \in Procs |-> NoProc]
  /\ nextpid = 2
  /\ waitlock = NoCpu
  /\ scan = {}
  /\ child = [p \in Procs |-> NoProc]
  /\ pc = [p \in Procs |-> "user"]
  /\ asked = {} /\ strays = {}

-----------------------------------------------------------------------------
Goto(p, there) == pc' = [pc EXCEPT ![p] = there]

At(c, p, here) == Live(c, p) /\ pc[p] = here

Children(p) == {q \in Procs : parent[q] = p}

AcquireWaitLock(c) == waitlock = NoCpu /\ waitlock' = c

ReleaseWaitLock == waitlock' = NoCpu

(* usertrap(), system call: a process that was killed goes no further. *)
Syscall(c, p) ==
  /\ At(c, p, "user")
  /\ Goto(p, IF killed[p] THEN "exit" ELSE "kernel")
  /\ UNCHANGED <<schedVars, pid, parent, nextpid, waitlock, scan, child, asked, strays>>

(* usertrap(), interrupt. *)
Interrupt(c, p) ==
  /\ At(c, p, "user")
  /\ Goto(p, "return")
  /\ UNCHANGED <<schedVars, pid, parent, nextpid, waitlock, scan, child, asked, strays>>

(* usertrap(), exception: setkilled() on itself.  init does not fault. *)
Fault(c, p) ==
  /\ At(c, p, "user")
  /\ p # InitProc /\ pid[p] \in KillArgs
  /\ KillOne(p)
  /\ asked' = asked \cup {pid[p]}
  /\ Goto(p, "return")
  /\ UNCHANGED <<pid, parent, nextpid, waitlock, scan, child, strays>>

(* usertrap(), the killed() test on the way back to user space. *)
ReturnToUser(c, p) ==
  /\ At(c, p, "return")
  /\ Goto(p, IF killed[p] THEN "exit" ELSE "user")
  /\ UNCHANGED <<schedVars, pid, parent, nextpid, waitlock, scan, child, asked, strays>>

-----------------------------------------------------------------------------
(* kfork(), up to release(&np->lock).  p->killed of the slot is not reset. *)
Fork(c, p, q) ==
  /\ At(c, p, "kernel")
  /\ nextpid <= MaxPid
  /\ AllocSlot(q)
  /\ pid' = [pid EXCEPT ![q] = nextpid]
  /\ nextpid' = nextpid + 1
  /\ child' = [child EXCEPT ![p] = q]
  /\ pc' = [pc EXCEPT ![p] = "linked", ![q] = "user"]
  /\ UNCHANGED <<parent, waitlock, scan, asked, strays>>

(* kfork() that runs out of memory: freeproc(np) and -1; the pid is gone. *)
ForkNoMemory(c, p, q) ==
  /\ At(c, p, "kernel")
  /\ nextpid <= MaxPid
  /\ AbortSlot(q)
  /\ nextpid' = nextpid + 1
  /\ strays' = strays \ {q}
  /\ Goto(p, "return")
  /\ UNCHANGED <<pid, parent, waitlock, scan, child, asked>>

(* kfork(): np->parent = p under wait_lock. *)
ForkParent(c, p) ==
  /\ At(c, p, "linked")
  /\ waitlock = NoCpu
  /\ parent' = [parent EXCEPT ![child[p]] = p]
  /\ Goto(p, "start")
  /\ UNCHANGED <<schedVars, pid, nextpid, waitlock, scan, child, asked, strays>>

(* kfork(): np->state = RUNNABLE under np->lock. *)
ForkStart(c, p) ==
  /\ At(c, p, "start")
  /\ StartSlot(child[p])
  /\ child' = [child EXCEPT ![p] = NoProc]
  /\ Goto(p, "return")
  /\ UNCHANGED <<pid, parent, nextpid, waitlock, scan, asked, strays>>

-----------------------------------------------------------------------------
(* Any other system call, without waiting. *)
OtherCall(c, p) ==
  /\ At(c, p, "kernel")
  /\ Goto(p, "return")
  /\ UNCHANGED <<schedVars, pid, parent, nextpid, waitlock, scan, child, asked, strays>>

(* sys_exit().  init calls exit() never. *)
ExitCall(c, p) ==
  /\ At(c, p, "kernel")
  /\ p # InitProc
  /\ Goto(p, "exit")
  /\ UNCHANGED <<schedVars, pid, parent, nextpid, waitlock, scan, child, asked, strays>>

(* Mutant: only the children that still run are given to init. *)
ReparentLive(c, p) ==
  /\ At(c, p, "exit")
  /\ AcquireWaitLock(c)
  /\ parent' = [q \in Procs |->
       IF parent[q] = p /\ state[q] # "ZOMBIE" THEN InitProc ELSE parent[q]]
  /\ Goto(p, IF Children(p) = {} THEN "farewell" ELSE "adopted")
  /\ UNCHANGED <<schedVars, pid, nextpid, scan, child, asked, strays>>

(* kexit(): acquire(&wait_lock) and reparent(), but for its wakeup(). *)
Reparent(c, p) ==
  /\ At(c, p, "exit")
  /\ p # InitProc       \* else panic("init exiting")
  /\ AcquireWaitLock(c)
  /\ parent' = [q \in Procs |-> IF parent[q] = p THEN InitProc ELSE parent[q]]
  /\ Goto(p, IF Children(p) = {} THEN "farewell" ELSE "adopted")
  /\ UNCHANGED <<schedVars, pid, nextpid, scan, child, asked, strays>>

(* wakeup(initproc) in reparent().  Only p itself sleeps on p (Places), so  *)
(* of all turns of the loop of wakeup() this one matters.                  *)
WakeInit(c, p) ==
  /\ At(c, p, "adopted")
  /\ WakeOne(InitProc, InitProc)
  /\ Goto(p, "farewell")
  /\ UNCHANGED <<pid, parent, nextpid, waitlock, scan, child, asked, strays>>

(* Mutant: wait_lock is released before the process is a ZOMBIE. *)
WakeParentEarly(c, p) ==
  /\ At(c, p, "farewell")
  /\ WakeOne(parent[p], parent[p])
  /\ ReleaseWaitLock
  /\ Goto(p, "die")
  /\ UNCHANGED <<pid, parent, nextpid, scan, child, asked, strays>>

(* kexit(): wakeup(p->parent). *)
WakeParent(c, p) ==
  /\ At(c, p, "farewell")
  /\ WakeOne(parent[p], parent[p])
  /\ Goto(p, "die")
  /\ UNCHANGED <<pid, parent, nextpid, waitlock, scan, child, asked, strays>>

(* kexit(): ZOMBIE under p->lock, release(&wait_lock), and into sched(). *)
Die(c, p) ==
  /\ At(c, p, "die")
  /\ ExitEnter(c, p)
  /\ ReleaseWaitLock
  /\ UNCHANGED <<pid, parent, nextpid, scan, child, pc, asked, strays>>

-----------------------------------------------------------------------------
(* sys_wait(). *)
WaitCall(c, p) ==
  /\ At(c, p, "kernel")
  /\ Goto(p, "wait")
  /\ UNCHANGED <<schedVars, pid, parent, nextpid, waitlock, scan, child, asked, strays>>

(* kwait(): acquire(&wait_lock), at entry or at the end of sleep(). *)
WaitLock(c, p) ==
  /\ At(c, p, "wait")
  /\ AcquireWaitLock(c)
  /\ scan' = Children(p)
  /\ Goto(p, "scan")
  /\ UNCHANGED <<schedVars, pid, parent, nextpid, child, asked, strays>>

(* A child that is no zombie, seen with its lock held, is passed over. *)
PassOver(c, p, q) ==
  /\ At(c, p, "scan")
  /\ q \in scan
  /\ plock[q] = NoCpu
  /\ state[q] # "ZOMBIE"
  /\ scan' = scan \ {q}
  /\ UNCHANGED <<schedVars, pid, parent, nextpid, waitlock, child, pc, asked, strays>>

(* Mutant: freeproc() leaves p->pid. *)
ReapWithPid(c, p, q) ==
  /\ At(c, p, "scan")
  /\ q \in scan
  /\ FreeSlot(q)
  /\ parent' = [parent EXCEPT ![q] = NoProc]
  /\ ReleaseWaitLock
  /\ scan' = {}
  /\ strays' = strays \ {q}
  /\ Goto(p, "return")
  /\ UNCHANGED <<pid, nextpid, child, asked>>

(* A zombie is freed, and wait() returns its pid. *)
Reap(c, p, q) ==
  /\ At(c, p, "scan")
  /\ q \in scan
  /\ FreeSlot(q)
  /\ pid' = [pid EXCEPT ![q] = 0]
  /\ parent' = [parent EXCEPT ![q] = NoProc]
  /\ ReleaseWaitLock
  /\ scan' = {}
  /\ strays' = strays \ {q}
  /\ Goto(p, "return")
  /\ UNCHANGED <<nextpid, child, asked>>

(* copyout() of the exit status fails: wait() returns -1, the zombie stays. *)
(* init passes no address.                                                  *)
ReapNoCopy(c, p, q) ==
  /\ At(c, p, "scan")
  /\ p # InitProc
  /\ q \in scan
  /\ plock[q] = NoCpu
  /\ state[q] = "ZOMBIE"
  /\ ReleaseWaitLock
  /\ scan' = {}
  /\ Goto(p, "return")
  /\ UNCHANGED <<schedVars, pid, parent, nextpid, child, asked, strays>>

(* No child at all, or killed: wait() returns -1. *)
WaitFails(c, p) ==
  /\ At(c, p, "scan")
  /\ scan = {}
  /\ Children(p) = {} \/ killed[p]
  /\ ReleaseWaitLock
  /\ Goto(p, "return")
  /\ UNCHANGED <<schedVars, pid, parent, nextpid, scan, child, asked, strays>>

(* Mutant: wait_lock is released before sleep(). *)
WaitDecidesUnlocked(c, p) ==
  /\ At(c, p, "scan")
  /\ scan = {}
  /\ Children(p) # {} /\ ~killed[p]
  /\ ReleaseWaitLock
  /\ Goto(p, "nap")
  /\ UNCHANGED <<schedVars, pid, parent, nextpid, scan, child, asked, strays>>

(* Otherwise it will sleep; a kkill() that comes now finds it RUNNING. *)
WaitDecides(c, p) ==
  /\ At(c, p, "scan")
  /\ scan = {}
  /\ Children(p) # {} /\ ~killed[p]
  /\ Goto(p, "nap")
  /\ UNCHANGED <<schedVars, pid, parent, nextpid, waitlock, scan, child, asked, strays>>

(* sleep(p, &wait_lock), in its two steps. *)
Nap(c, p) ==
  /\ At(c, p, "nap")
  /\ SleepLockProc(c, p)
  /\ Goto(p, "doze")
  /\ UNCHANGED <<pid, parent, nextpid, waitlock, scan, child, asked, strays>>

Doze(c, p) ==
  /\ At(c, p, "doze")
  /\ SleepEnter(c, p, p)
  /\ ReleaseWaitLock
  /\ Goto(p, "asleep")
  /\ UNCHANGED <<pid, parent, nextpid, scan, child, asked, strays>>

Awake(c, p) ==
  /\ SleepRet(c, p)
  /\ Goto(p, "wait")
  /\ UNCHANGED <<pid, parent, nextpid, waitlock, scan, child, asked, strays>>

-----------------------------------------------------------------------------
(* kkill(n): the first slot whose p->pid is n, whatever its state; one of  *)
(* the free ones if n is 0, since slots have no order here.                *)
Kill(c, p, n, q) ==
  /\ At(c, p, "kernel")
  /\ pid[q] = n
  /\ KillOne(q)
  /\ asked' = asked \cup {n}
  /\ strays' = IF n = 0 THEN strays \cup {q} ELSE strays
  /\ Goto(p, "return")
  /\ UNCHANGED <<pid, parent, nextpid, waitlock, scan, child>>

(* A timer interrupt, in user space or in the kernel with no spinlock held. *)
Preempt(c, p) ==
  /\ waitlock # c
  /\ YieldEnter(c, p)
  /\ UNCHANGED procVars

Dispatch(c, p) == Pick(c, p) /\ UNCHANGED procVars

Switch(c, p) ==
  /\ Swtch(c, p) \/ ForkRet(c, p) \/ YieldRet(c, p)
  /\ UNCHANGED procVars

-----------------------------------------------------------------------------
(* What the kernel does of itself for p. *)
Work(c, p) ==
  \/ Interrupt(c, p) \/ OtherCall(c, p) \/ ReturnToUser(c, p)
  \/ ForkParent(c, p) \/ ForkStart(c, p)
  \/ Reparent(c, p) \/ WakeInit(c, p) \/ WakeParent(c, p) \/ Die(c, p)
  \/ WaitLock(c, p) \/ WaitFails(c, p) \/ WaitDecides(c, p)
  \/ \E q \in Procs : PassOver(c, p, q) \/ Reap(c, p, q)
  \/ Nap(c, p) \/ Doze(c, p) \/ Awake(c, p)

(* What p asks for, or meets with. *)
Request(c, p) ==
  \/ Syscall(c, p) \/ Fault(c, p)
  \/ \E q \in Procs :
       \/ Fork(c, p, q) \/ ForkNoMemory(c, p, q) \/ ReapNoCopy(c, p, q)
       \/ \E n \in KillArgs : Kill(c, p, n, q)
  \/ ExitCall(c, p) \/ WaitCall(c, p)

Next ==
  \E c \in Cpus, p \in Procs :
    \/ Work(c, p) \/ Request(c, p)
    \/ Preempt(c, p) \/ Dispatch(c, p) \/ Switch(c, p)

Spec == Init /\ [][Next]_vars

(***************************************************************************)
(* As in SleepLock: CPUs complete context switches, a process that is on a *)
(* CPU again and again gets on, scheduler() reaches whoever is RUNNABLE    *)
(* again and again, the timer interrupts whoever runs.  init.c calls       *)
(* wait() for ever; nobody else is obliged to make system calls.           *)
(***************************************************************************)
Fairness ==
  /\ \A c \in Cpus : WF_vars(\E p \in Procs : Switch(c, p))
  /\ \A p \in Procs :
       /\ SF_vars(\E c \in Cpus : Work(c, p))
       /\ SF_vars(\E c \in Cpus : Dispatch(c, p))
       /\ SF_vars(\E c \in Cpus : Preempt(c, p))
  /\ SF_vars(\E c \in Cpus : Syscall(c, InitProc))
  /\ SF_vars(\E c \in Cpus : WaitCall(c, InitProc))

FairSpec == Spec /\ Fairness

-----------------------------------------------------------------------------
Started(p) == state[p] \notin {"UNUSED", "USED"}

(* The part of kexit() in which p holds wait_lock. *)
Exiting(p) == pc[p] \in {"adopted", "farewell", "die"}

(***************************************************************************)
(* A slot has a pid exactly while it is allocated, and no two have the     *)
(* same: kill() by pid reaches at most one process.                        *)
(***************************************************************************)
PidsInUse ==
  /\ TypeOK
  /\ \A p \in Procs : pid[p] = 0 <=> state[p] = "UNUSED"
  /\ \A p, q \in Procs : pid[p] = pid[q] /\ pid[p] # 0 => p = q

(***************************************************************************)
(* A process that has been started, init apart, has a parent, and it is    *)
(* one that has not exited; so kexit() wakes a process that is there, and  *)
(* no process becomes the child of whoever its dead parent's slot is given *)
(* to next.                                                                *)
(***************************************************************************)
FamilyTree ==
  \A q \in Procs :
    IF Started(q) /\ q # InitProc
      THEN LET p == parent[q] IN
           p # NoProc /\ Started(p) /\ state[p] # "ZOMBIE" /\ p # q
      ELSE state[q] = "UNUSED" => parent[q] = NoProc

(***************************************************************************)
(* No exit is missed: a parent is never asleep in wait() while it has a    *)
(* zombie child, except for init between being given that zombie by        *)
(* reparent() and the wakeup() that comes with it.                         *)
(***************************************************************************)
NoSleepOverZombie ==
  \A q \in Procs :
    LET p == parent[q] IN
    state[q] = "ZOMBIE" /\ p # NoProc /\ state[p] = "SLEEPING" =>
      p = InitProc /\ \E r \in Procs : pc[r] = "adopted"

(***************************************************************************)
(* A process that is marked killed faulted or its own pid was passed to    *)
(* kill(): a mark does not outlive its process to hit the next one in the  *)
(* slot.  There is one exception, against kkill()'s "Kill the process with *)
(* the given pid": kill(0) finds a free slot, whose pid is 0, allocproc()  *)
(* does not reset p->killed, and so the next process there, and none after *)
(* it, has the mark.                                                       *)
(***************************************************************************)
MarksDieWithProcess ==
  \A p \in Procs :
    killed[p] /\ state[p] # "UNUSED" => pid[p] \in asked \/ p \in strays

(***************************************************************************)
(* The three system calls, interleaved as they are, keep the promise of    *)
(* Family.  exit() takes effect when it has given its children away, under *)
(* wait_lock; fork() when the child becomes RUNNABLE; wait() when it frees *)
(* the zombie.                                                             *)
(***************************************************************************)
Promise == INSTANCE Family WITH
  Members <- Procs, Root <- InitProc, Nobody <- NoProc,
  status <- [p \in Procs |->
               IF ~Started(p) THEN "free"
               ELSE IF Exiting(p) THEN "dead" ELSE "alive"],
  parentOf <- [p \in Procs |-> IF Started(p) THEN parent[p] ELSE NoProc]

ImplementsFamily == Promise!FamilySpec
=============================================================================
