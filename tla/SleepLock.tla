----------------------------- MODULE SleepLock -----------------------------
(***************************************************************************)
(* One sleep-lock of kernel/sleeplock.c, on top of the process table of    *)
(* Sched: acquiresleep(), releasesleep() and holdingsleep(), with sleep()  *)
(* and wakeup() taken step by step, lock by lock.                          *)
(*                                                                         *)
(* lk is the spinlock lk->lk that protects locked and owner (lk->pid).     *)
(* The hazards are those of a monitor built by hand: a wakeup() that runs  *)
(* between the test of lk->locked and going to sleep, a woken process that *)
(* no longer finds the lock free, a kkill() that wakes a process nobody    *)
(* meant to wake, and a timer interrupt anywhere interrupts are on.        *)
(***************************************************************************)
EXTENDS Sched

CONSTANTS
  LockChan,   \* address of the sleep-lock, which its waiters sleep on
  Victims     \* bound: the processes that get killed, once each

ASSUME SleepLockAssumption == LockChan \in Chans /\ Victims \subseteq Procs

VARIABLES
  lk,      \* lk->lk: the CPU that holds the inner spinlock
  locked,  \* lk->locked
  owner,   \* lk->pid, as the slot of that process
  at,      \* where each process is in the two functions
  toWake   \* slots wakeup()'s loop, run by p, has still to visit

lockVars == <<lk, locked, owner, at, toWake>>
sleepLockVars == <<schedVars, lockVars>>

LockPhases == {
  "idle",     \* outside
  "acquire",  \* wants lk->lk: entry of acquiresleep(), or end of sleep()
  "test",     \* at while(lk->locked), holding lk->lk
  "sleep",    \* in sleep(), holding lk->lk and p->lock
  "doze",     \* in sleep(), lk->lk released
  "asleep",   \* from p->state = SLEEPING until swtch() returns
  "crit",     \* holds the sleep-lock
  "release",  \* wants lk->lk in releasesleep()
  "wake" }    \* in wakeup(lk), holding lk->lk

LockTypeOK ==
  /\ SchedTypeOK
  /\ lk \in Cpus \cup {NoCpu}
  /\ locked \in BOOLEAN
  /\ owner \in Procs \cup {NoProc}
  /\ at \in [Procs -> LockPhases]
  /\ toWake \in [Procs -> SUBSET Procs]

LockInit ==
  /\ SchedInit
  /\ \A p \in Procs : state[p] = "RUNNABLE"
  /\ lk = NoCpu
  /\ locked = FALSE
  /\ owner = NoProc
  /\ at = [p \in Procs |-> "idle"]
  /\ toWake = [p \in Procs |-> {}]

-----------------------------------------------------------------------------
LockGoto(p, there) == at' = [at EXCEPT ![p] = there]

(* p executes on CPU c, at this point of the code. *)
LockAt(c, p, here) == Live(c, p) /\ at[p] = here

(* A caller enters acquiresleep(). *)
Call(c, p) ==
  /\ LockAt(c, p, "idle")
  /\ LockGoto(p, "acquire")
  /\ UNCHANGED <<schedVars, lk, locked, owner, toWake>>

(* acquire(&lk->lk), then the test of the while loop. *)
Acquire(c, p) ==
  /\ LockAt(c, p, "acquire")
  /\ lk = NoCpu
  /\ lk' = c
  /\ LockGoto(p, "test")
  /\ UNCHANGED <<schedVars, locked, owner, toWake>>

(* Mutant: the lock is taken whatever lk->locked says. *)
TakeUntested(c, p) ==
  /\ LockAt(c, p, "test")
  /\ locked' = TRUE
  /\ owner' = p
  /\ lk' = NoCpu
  /\ LockGoto(p, "crit")
  /\ UNCHANGED <<schedVars, toWake>>

(* while(lk->locked) is over: take the sleep-lock and release lk->lk. *)
Take(c, p) ==
  /\ LockAt(c, p, "test")
  /\ ~locked
  /\ locked' = TRUE
  /\ owner' = p
  /\ lk' = NoCpu
  /\ LockGoto(p, "crit")
  /\ UNCHANGED <<schedVars, toWake>>

(* sleep(lk, &lk->lk): first p->lock ... *)
SleepCall(c, p) ==
  /\ LockAt(c, p, "test")
  /\ locked
  /\ SleepLockProc(c, p)
  /\ LockGoto(p, "sleep")
  /\ UNCHANGED <<lk, locked, owner, toWake>>

(* ... then release(lk), from which on another process may take lk->lk ... *)
SleepRelease(c, p) ==
  /\ LockAt(c, p, "sleep")
  /\ lk' = NoCpu
  /\ LockGoto(p, "doze")
  /\ UNCHANGED <<schedVars, locked, owner, toWake>>

(* ... and only then chan, SLEEPING and sched(). *)
LockDoze(c, p) ==
  /\ LockAt(c, p, "doze")
  /\ SleepEnter(c, p, LockChan)
  /\ LockGoto(p, "asleep")
  /\ UNCHANGED <<lk, locked, owner, toWake>>

(* Back from swtch(): p->lock released, lk->lk to be acquired again. *)
LockAwake(c, p) ==
  /\ SleepRet(c, p)
  /\ LockGoto(p, "acquire")
  /\ UNCHANGED <<lk, locked, owner, toWake>>

(* The holder enters releasesleep(). *)
Done(c, p) ==
  /\ LockAt(c, p, "crit")
  /\ LockGoto(p, "release")
  /\ UNCHANGED <<schedVars, lk, locked, owner, toWake>>

(* acquire(&lk->lk), lk->locked = 0, lk->pid = 0, and into wakeup(lk). *)
Unlock(c, p) ==
  /\ LockAt(c, p, "release")
  /\ lk = NoCpu
  /\ lk' = c
  /\ locked' = FALSE
  /\ owner' = NoProc
  /\ toWake' = [toWake EXCEPT ![p] = Procs \ {p}]
  /\ LockGoto(p, "wake")
  /\ UNCHANGED schedVars

(* Mutant: wakeup() skips the slots whose lock is held. *)
WakeSlotIfFree(c, p, q) ==
  /\ LockAt(c, p, "wake")
  /\ q \in toWake[p]
  /\ IF plock[q] = NoCpu THEN WakeOne(q, LockChan) ELSE UNCHANGED schedVars
  /\ toWake' = [toWake EXCEPT ![p] = @ \ {q}]
  /\ UNCHANGED <<lk, locked, owner, at>>

(* wakeup(lk), one slot; the order of the slots does not matter. *)
WakeSlot(c, p, q) ==
  /\ LockAt(c, p, "wake")
  /\ q \in toWake[p]
  /\ WakeOne(q, LockChan)
  /\ toWake' = [toWake EXCEPT ![p] = @ \ {q}]
  /\ UNCHANGED <<lk, locked, owner, at>>

(* The loop is over: release(&lk->lk). *)
WakeDone(c, p) ==
  /\ LockAt(c, p, "wake")
  /\ toWake[p] = {}
  /\ lk' = NoCpu
  /\ LockGoto(p, "idle")
  /\ UNCHANGED <<schedVars, locked, owner, toWake>>

-----------------------------------------------------------------------------
(* A timer interrupt; spinlocks keep them off between push_off and pop_off. *)
LockPreempt(c, p) ==
  /\ lk # c
  /\ YieldEnter(c, p)
  /\ UNCHANGED lockVars

(* Somebody kills q: a wakeup that is not the one q waits for. *)
LockKill(q) ==
  /\ q \in Victims
  /\ ~killed[q]
  /\ KillOne(q)
  /\ UNCHANGED lockVars

LockDispatch(c, p) == Pick(c, p) /\ UNCHANGED lockVars

(* The context switches of Sched that are no step of this lock. *)
LockSwitch(c, p) ==
  /\ Swtch(c, p) \/ ForkRet(c, p) \/ YieldRet(c, p)
  /\ UNCHANGED lockVars

(* What the code of p does of itself, once called. *)
LockWork(c, p) ==
  \/ Acquire(c, p) \/ Take(c, p)
  \/ SleepCall(c, p) \/ SleepRelease(c, p) \/ LockDoze(c, p) \/ LockAwake(c, p)
  \/ Done(c, p) \/ Unlock(c, p)
  \/ \E q \in Procs : WakeSlot(c, p, q)
  \/ WakeDone(c, p)

LockNext ==
  \/ \E c \in Cpus, p \in Procs :
       \/ LockSwitch(c, p) \/ LockWork(c, p)
       \/ Call(c, p) \/ LockPreempt(c, p) \/ LockDispatch(c, p)
  \/ \E q \in Procs : LockKill(q)

LockSpec == LockInit /\ [][LockNext]_sleepLockVars

(***************************************************************************)
(* Every CPU completes a context switch it has begun.  A process that is   *)
(* on a CPU again and again gets on with its code: ticks are far apart,    *)
(* and a spinlock that is free again and again is eventually acquired.     *)
(* Holders return the lock (Done).  The round-robin loop of scheduler()    *)
(* reaches a process that is RUNNABLE again and again, and the timer       *)
(* brings CPUs back to that loop.                                          *)
(***************************************************************************)
LockFairness ==
  /\ \A c \in Cpus : WF_sleepLockVars(\E p \in Procs : LockSwitch(c, p))
  /\ \A p \in Procs :
       /\ SF_sleepLockVars(\E c \in Cpus : LockWork(c, p))
       /\ SF_sleepLockVars(\E c \in Cpus : LockDispatch(c, p))
       /\ SF_sleepLockVars(\E c \in Cpus : LockPreempt(c, p))

LockFairSpec == LockSpec /\ LockFairness

-----------------------------------------------------------------------------
Holders == {p \in Procs : at[p] \in {"crit", "release"}}

(* holdingsleep(), asked by process p. *)
HoldingSleep(p) == locked /\ owner = p

(***************************************************************************)
(* Two processes never both hold the sleep-lock, and the one that does is  *)
(* the one recorded in it: the holdingsleep() panics of bwrite(), brelse() *)
(* and iunlock() cannot fire for a caller that returned from acquiresleep. *)
(***************************************************************************)
HolderRecorded == \A p \in Procs : p \in Holders <=> HoldingSleep(p)

(***************************************************************************)
(* No lost wakeup: whoever is asleep on a sleep-lock that is free is still *)
(* ahead of the loop of a wakeup() in progress.                            *)
(***************************************************************************)
NoLostWakeup ==
  \A p \in Procs : state[p] = "SLEEPING" /\ ~locked =>
    \E r \in Procs : at[r] = "wake" /\ p \in toWake[r]

-----------------------------------------------------------------------------
(* The strengthening that makes these two inductive. *)

(* The inner spinlock is held by the CPU of the process at these places. *)
InnerPlaces == {"test", "sleep", "wake"}

InnerLock ==
  /\ \A p \in Procs : at[p] \in InnerPlaces =>
       \E c \in Cpus : lk = c /\ cpu[c] = p
  /\ \A c \in Cpus : lk = c => cpu[c] # NoProc /\ at[cpu[c]] \in InnerPlaces

(* Where a process may be while it is off, or on its way off, its CPU. *)
Places ==
  \A p \in Procs :
    /\ state[p] \in {"RUNNABLE", "RUNNING", "SLEEPING"}
    /\ ctx[p] = "sleep" <=> at[p] = "asleep"
    /\ at[p] \in {"test", "sleep", "doze", "wake"} => ctx[p] = "live"
    /\ state[p] = "SLEEPING" => at[p] = "asleep" /\ chan[p] = LockChan
    /\ at[p] \in {"sleep", "doze"} => plock[p] # NoCpu

(* Committed to sleep: past the test of lk->locked and not yet woken. *)
Waits(p) == at[p] \in {"sleep", "doze"} \/ state[p] = "SLEEPING"

(* Whoever is committed to sleep either sees the lock taken or is ahead of *)
(* a wakeup().                                                             *)
WakeupComes ==
  \A p \in Procs : Waits(p) /\ ~locked =>
    \E r \in Procs : at[r] = "wake" /\ p \in toWake[r]

SleepLockInv ==
  LockTypeOK /\ SchedInv /\ InnerLock /\ Places /\ HolderRecorded /\ WakeupComes

-----------------------------------------------------------------------------
(***************************************************************************)
(* The sleep-lock implements Mutex, its promise that interested callers    *)
(* get it again and again included.                                        *)
(***************************************************************************)
LockPromise == INSTANCE Mutex WITH
  Clients <- Procs, Nobody <- NoProc,
  holder <- IF locked THEN owner ELSE NoProc,
  wanting <- {p \in Procs :
                at[p] \in {"acquire", "test", "sleep", "doze", "asleep"}}

ImplementsMutex == LockPromise!MutexSpec
ImplementsMutexSafely == LockPromise!MutexSafeSpec
=============================================================================
