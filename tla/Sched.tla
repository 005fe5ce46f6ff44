------------------------------- MODULE Sched -------------------------------
(***************************************************************************)
(* The process table and the context switch of kernel/proc.c: what         *)
(* scheduler(), sched(), yield(), sleep(), wakeup() and kkill() do to      *)
(* p->state, p->chan, p->killed, p->lock and c->proc, and the four places  *)
(* where a slot is allocated, started, retired and freed.                  *)
(*                                                                         *)
(* A spinlock is the CPU that holds it (lk->cpu), or NoCpu.  p->lock is    *)
(* handed over between a process and the scheduler of its CPU: whoever     *)
(* calls swtch() holds it, and the other side releases it.  Holding it     *)
(* across swtch() is what keeps every other CPU off p's kernel stack.      *)
(*                                                                         *)
(* Actions here prime the variables of this module only; the modules that  *)
(* extend it (SleepLock, Proc) conjoin what their callers do.  SchedNext   *)
(* is the most general caller: any process may do any of these operations  *)
(* whenever its own code could.                                            *)
(***************************************************************************)
CONSTANTS
  Procs,    \* slots of proc[NPROC]
  Cpus,     \* harts
  Chans,    \* addresses processes sleep on
  NoProc,   \* c->proc == 0: the CPU is in scheduler()
  NoCpu,    \* a spinlock nobody holds
  NoChan    \* p->chan == 0

ASSUME SchedAssumption ==
  /\ NoProc \notin Procs
  /\ NoCpu \notin Cpus
  /\ NoChan \notin Chans

VARIABLES
  state,    \* p->state
  chan,     \* p->chan
  killed,   \* p->killed
  plock,    \* p->lock
  cpu,      \* whose kernel stack each CPU executes on; NoProc in scheduler()
  ctx       \* where p is or resumes: "live" outside sched(), else the caller
            \* of swtch() that its saved context returns to

schedVars == <<state, chan, killed, plock, cpu, ctx>>

States == {"UNUSED", "USED", "SLEEPING", "RUNNABLE", "RUNNING", "ZOMBIE"}
Contexts == {"live", "forkret", "yield", "sleep", "exit"}

SchedTypeOK ==
  /\ state \in [Procs -> States]
  /\ chan \in [Procs -> Chans \cup {NoChan}]
  /\ killed \in [Procs -> BOOLEAN]
  /\ plock \in [Procs -> Cpus \cup {NoCpu}]
  /\ cpu \in [Cpus -> Procs \cup {NoProc}]
  /\ ctx \in [Procs -> Contexts]

(***************************************************************************)
(* Some slots hold freshly forked processes, the others are unused.        *)
(***************************************************************************)
SchedInit ==
  /\ state \in [Procs -> {"UNUSED", "RUNNABLE"}]
  /\ chan = [p \in Procs |-> NoChan]
  /\ killed = [p \in Procs |-> FALSE]
  /\ plock = [p \in Procs |-> NoCpu]
  /\ cpu = [c \in Cpus |-> NoProc]
  /\ ctx = [p \in Procs |-> "forkret"]

-----------------------------------------------------------------------------
(* Process p executes its own code, kernel or user, on CPU c. *)
Live(c, p) == cpu[c] = p /\ ctx[p] = "live"

(* Some CPU executes on p's kernel stack. *)
OnStack(p) == \E c \in Cpus : cpu[c] = p

(***************************************************************************)
(* scheduler(): acquire p->lock, find p RUNNABLE, mark it RUNNING and      *)
(* swtch() to it with the lock still held.  A slot that is not RUNNABLE    *)
(* is unlocked again, which changes nothing.                               *)
(***************************************************************************)
Pick(c, p) ==
  /\ cpu[c] = NoProc
  /\ plock[p] = NoCpu
  /\ state[p] = "RUNNABLE"
  /\ plock' = [plock EXCEPT ![p] = c]
  /\ state' = [state EXCEPT ![p] = "RUNNING"]
  /\ cpu' = [cpu EXCEPT ![c] = p]
  /\ UNCHANGED <<chan, killed, ctx>>

(* swtch() into scheduler(), which clears c->proc and releases p->lock. *)
Swtch(c, p) ==
  /\ cpu[c] = p
  /\ ctx[p] # "live"
  /\ state[p] # "RUNNING"
  /\ cpu' = [cpu EXCEPT ![c] = NoProc]
  /\ plock' = [plock EXCEPT ![p] = NoCpu]
  /\ UNCHANGED <<state, chan, killed, ctx>>

(* A picked process comes back from swtch() and releases its own lock. *)
Return(c, p, from) ==
  /\ cpu[c] = p
  /\ ctx[p] = from
  /\ state[p] = "RUNNING"
  /\ plock' = [plock EXCEPT ![p] = NoCpu]
  /\ ctx' = [ctx EXCEPT ![p] = "live"]

ForkRet(c, p) ==
  Return(c, p, "forkret") /\ UNCHANGED <<state, chan, killed, cpu>>

YieldRet(c, p) ==
  Return(c, p, "yield") /\ UNCHANGED <<state, chan, killed, cpu>>

SleepRet(c, p) ==
  /\ Return(c, p, "sleep")
  /\ chan' = [chan EXCEPT ![p] = NoChan]
  /\ UNCHANGED <<state, killed, cpu>>

(* p gives up CPU c: it takes p->lock, leaves RUNNING and heads for sched(). *)
Leave(c, p, to, from) ==
  /\ Live(c, p)
  /\ plock' = [plock EXCEPT ![p] = c]
  /\ state' = [state EXCEPT ![p] = to]
  /\ ctx' = [ctx EXCEPT ![p] = from]

(* Mutant: yield() that does not take p->lock. *)
YieldUnlocked(c, p) ==
  /\ Live(c, p) /\ plock[p] = NoCpu
  /\ state' = [state EXCEPT ![p] = "RUNNABLE"]
  /\ ctx' = [ctx EXCEPT ![p] = "yield"]
  /\ UNCHANGED <<chan, killed, plock, cpu>>

(* yield(), from a timer interrupt taken with no spinlock held. *)
YieldEnter(c, p) ==
  /\ plock[p] = NoCpu
  /\ Leave(c, p, "RUNNABLE", "yield")
  /\ UNCHANGED <<chan, killed, cpu>>

(* sleep(): acquire(&p->lock), while the caller still holds lk. *)
SleepLockProc(c, p) ==
  /\ Live(c, p)
  /\ plock[p] = NoCpu
  /\ plock' = [plock EXCEPT ![p] = c]
  /\ UNCHANGED <<state, chan, killed, cpu, ctx>>

(* sleep(): go to sleep on ch; the caller's lk is released in this step. *)
SleepEnter(c, p, ch) ==
  /\ plock[p] = c
  /\ Leave(c, p, "SLEEPING", "sleep")
  /\ chan' = [chan EXCEPT ![p] = ch]
  /\ UNCHANGED <<killed, cpu>>

(* wakeup(ch), one turn of its loop: lock slot q, wake it if it sleeps on ch. *)
WakeOne(q, ch) ==
  /\ plock[q] = NoCpu
  /\ state' = [state EXCEPT ![q] =
                 IF @ = "SLEEPING" /\ chan[q] = ch THEN "RUNNABLE" ELSE @]
  /\ UNCHANGED <<chan, killed, plock, cpu, ctx>>

(* kkill(), on the slot whose pid matched: mark it, and wake it from sleep(). *)
KillOne(q) ==
  /\ plock[q] = NoCpu
  /\ killed' = [killed EXCEPT ![q] = TRUE]
  /\ state' = [state EXCEPT ![q] = IF @ = "SLEEPING" THEN "RUNNABLE" ELSE @]
  /\ UNCHANGED <<chan, plock, cpu, ctx>>

-----------------------------------------------------------------------------
(* allocproc(): take an UNUSED slot; its context will start at forkret(). *)
AllocSlot(q) ==
  /\ plock[q] = NoCpu
  /\ state[q] = "UNUSED"
  /\ state' = [state EXCEPT ![q] = "USED"]
  /\ ctx' = [ctx EXCEPT ![q] = "forkret"]
  /\ UNCHANGED <<chan, killed, plock, cpu>>

(* allocproc() or kfork() fails: freeproc() before p->lock is released. *)
AbortSlot(q) ==
  /\ plock[q] = NoCpu
  /\ state[q] = "UNUSED"
  /\ chan' = [chan EXCEPT ![q] = NoChan]
  /\ killed' = [killed EXCEPT ![q] = FALSE]
  /\ UNCHANGED <<state, plock, cpu, ctx>>

(* The last step of kfork(): the child may run. *)
StartSlot(q) ==
  /\ plock[q] = NoCpu
  /\ state[q] = "USED"
  /\ state' = [state EXCEPT ![q] = "RUNNABLE"]
  /\ UNCHANGED <<chan, killed, plock, cpu, ctx>>

(* Mutant: kexit() that sets ZOMBIE without p->lock. *)
ExitUnlocked(c, p) ==
  /\ Live(c, p) /\ plock[p] = NoCpu
  /\ state' = [state EXCEPT ![p] = "ZOMBIE"]
  /\ ctx' = [ctx EXCEPT ![p] = "exit"]
  /\ UNCHANGED <<chan, killed, plock, cpu>>

(* kexit(): under its own p->lock the process becomes a zombie, for sched(). *)
ExitEnter(c, p) ==
  /\ plock[p] = NoCpu
  /\ Leave(c, p, "ZOMBIE", "exit")
  /\ UNCHANGED <<chan, killed, cpu>>

(* Mutant: kwait() that does not acquire(&pp->lock). *)
FreeUnlocked(q) ==
  /\ state[q] = "ZOMBIE"
  /\ state' = [state EXCEPT ![q] = "UNUSED"]
  /\ chan' = [chan EXCEPT ![q] = NoChan]
  /\ killed' = [killed EXCEPT ![q] = FALSE]
  /\ UNCHANGED <<plock, cpu, ctx>>

(* Mutant: freeproc() that forgets p->killed. *)
FreeKilled(q) ==
  /\ plock[q] = NoCpu
  /\ state[q] = "ZOMBIE"
  /\ state' = [state EXCEPT ![q] = "UNUSED"]
  /\ chan' = [chan EXCEPT ![q] = NoChan]
  /\ UNCHANGED <<killed, plock, cpu, ctx>>

(* kwait(): freeproc() of a zombie, under its p->lock. *)
FreeSlot(q) ==
  /\ plock[q] = NoCpu
  /\ state[q] = "ZOMBIE"
  /\ state' = [state EXCEPT ![q] = "UNUSED"]
  /\ chan' = [chan EXCEPT ![q] = NoChan]
  /\ killed' = [killed EXCEPT ![q] = FALSE]
  /\ UNCHANGED <<plock, cpu, ctx>>

-----------------------------------------------------------------------------
CpuStep(c, p) ==
  \/ Pick(c, p) \/ Swtch(c, p)
  \/ ForkRet(c, p) \/ YieldRet(c, p) \/ SleepRet(c, p)
  \/ YieldEnter(c, p) \/ SleepLockProc(c, p) \/ ExitEnter(c, p)
  \/ \E ch \in Chans : SleepEnter(c, p, ch)

SlotStep(q) ==
  \/ \E ch \in Chans : WakeOne(q, ch)
  \/ KillOne(q)
  \/ AllocSlot(q) \/ AbortSlot(q) \/ StartSlot(q) \/ FreeSlot(q)

SchedNext ==
  \/ \E c \in Cpus, p \in Procs : CpuStep(c, p)
  \/ \E q \in Procs : SlotStep(q)

SchedSpec == SchedInit /\ [][SchedNext]_schedVars

-----------------------------------------------------------------------------
(***************************************************************************)
(* One kernel stack is never executed on by two CPUs, although a process   *)
(* becomes RUNNABLE, and so pickable by every scheduler(), while it still  *)
(* executes the tail of yield() or while a wakeup() overtakes its sleep(). *)
(***************************************************************************)
OneCpuPerStack ==
  \A c, d \in Cpus : cpu[c] = cpu[d] /\ cpu[c] # NoProc => c = d

(***************************************************************************)
(* The stack of a slot that is free, or freshly allocated, is not in use:  *)
(* kwait() cannot free a zombie that has not finished its last swtch().    *)
(***************************************************************************)
NoFreedStack ==
  \A p \in Procs : state[p] \in {"UNUSED", "USED"} => ~OnStack(p)

(***************************************************************************)
(* What sched() panics about: whoever is on its way into swtch() holds its *)
(* own p->lock ("sched p->lock") and has left RUNNING ("sched RUNNING").   *)
(***************************************************************************)
SchedAsserts ==
  \A c \in Cpus, p \in Procs :
    cpu[c] = p /\ state[p] # "RUNNING" => plock[p] = c /\ ctx[p] # "live"

(***************************************************************************)
(* The converse of being on a CPU: a process is marked RUNNING exactly     *)
(* when a CPU executes it and it is not on its way out.                    *)
(***************************************************************************)
RunningIsOnCpu ==
  \A p \in Procs : state[p] = "RUNNING" => OnStack(p)

(***************************************************************************)
(* A process that executes its code is never on a wait channel, so no      *)
(* stray wakeup() can make it RUNNABLE under its feet, and p->lock is only *)
(* ever held by the CPU that executes p.                                   *)
(***************************************************************************)
LockedByOwnCpu == \A p \in Procs, c \in Cpus : plock[p] = c => cpu[c] = p

(* A process not executed by any CPU has its context saved by swtch(). *)
SavedContext == \A p \in Procs : ~OnStack(p) => ctx[p] # "live"

SchedInv ==
  /\ SchedTypeOK
  /\ OneCpuPerStack
  /\ NoFreedStack
  /\ SchedAsserts
  /\ RunningIsOnCpu
  /\ LockedByOwnCpu
  /\ SavedContext
=============================================================================
