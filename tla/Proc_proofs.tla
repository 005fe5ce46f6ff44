----------------------------- MODULE Proc_proofs -----------------------------
(***************************************************************************)
(* Proofs about the processes, for any number of process slots, CPUs and   *)
(* wait channels: the process table of Sched, and the two modules that run *)
(* their code on it, SleepLock and Proc.                                   *)
(*                                                                         *)
(* SchedInv is inductive as it stands.  The argument is the hand-over of   *)
(* p->lock: a process that has left RUNNING while a CPU still executes its *)
(* stack holds its own lock (SchedAsserts), and every step that another    *)
(* CPU takes on the slot (pick it, wake it, free it) finds the lock free.  *)
(*                                                                         *)
(* The steps of SleepLock and of Proc are steps of the process table, so   *)
(* both inherit SchedInv.  SleepLockInv is then inductive: InnerLock gives *)
(* mutual exclusion between the sections that read and write lk->locked,   *)
(* Places says where a process may be interrupted, and WakeupComes carries *)
(* the no-lost-wakeup argument across the window in which sleep() has      *)
(* released lk->lk but is not yet SLEEPING, when p->lock alone protects    *)
(* it.  ProcInv turns on wait_lock (WaitLockHeld): while a parent looks    *)
(* for zombies nobody becomes one, and from the moment a process has woken *)
(* its parent until it is a ZOMBIE the parent cannot go to sleep again     *)
(* (ZombiesSeen); and a process that gives its children away cannot get    *)
(* another (ForksOwned, TreeInv).                                          *)
(***************************************************************************)
EXTENDS Proc, SleepLock, TLAPS

-----------------------------------------------------------------------------
(* The process table. *)

(***************************************************************************)
(* Every slot whose lock is free, and which is not RUNNING, is off every   *)
(* CPU: what scheduler(), wakeup(), kkill() and kwait() rely on once they  *)
(* have acquired p->lock.                                                  *)
(***************************************************************************)
LEMMA FreeLockOffStack ==
  ASSUME SchedTypeOK, SchedAsserts, NEW p \in Procs,
         plock[p] = NoCpu, state[p] # "RUNNING"
  PROVE  ~OnStack(p)
BY SchedAssumption DEF SchedAsserts, OnStack

(* The initial process table satisfies the invariant. *)
LEMMA SchedInitInv == SchedInit => SchedInv
BY SchedAssumption DEF SchedInit, SchedInv, SchedTypeOK, OneCpuPerStack,
   NoFreedStack, SchedAsserts, RunningIsOnCpu, LockedByOwnCpu, SavedContext,
   OnStack, States, Contexts

(* Steps that change which stack a CPU executes on. *)
LEMMA SwitchInv ==
  ASSUME SchedInv, NEW c \in Cpus, NEW p \in Procs, Pick(c, p) \/ Swtch(c, p)
  PROVE  SchedInv'
<1> USE SchedAssumption DEF SchedInv
<1>1. CASE Pick(c, p)
  <2>1. ~OnStack(p)
    BY <1>1, FreeLockOffStack DEF Pick
  <2>2. SchedTypeOK'
    BY <1>1 DEF Pick, SchedTypeOK, States
  <2>3. OneCpuPerStack'
    BY <1>1, <2>1 DEF Pick, SchedTypeOK, OneCpuPerStack, OnStack
  <2>4. NoFreedStack' /\ RunningIsOnCpu' /\ SavedContext'
    BY <1>1, <2>1 DEF Pick, SchedTypeOK, NoFreedStack, RunningIsOnCpu,
       SavedContext, OnStack
  <2>5. SchedAsserts' /\ LockedByOwnCpu'
    BY <1>1, <2>1 DEF Pick, SchedTypeOK, SchedAsserts, LockedByOwnCpu, OnStack
  <2> QED BY <2>2, <2>3, <2>4, <2>5
<1>2. CASE Swtch(c, p)
  <2>1. SchedTypeOK'
    BY <1>2 DEF Swtch, SchedTypeOK
  <2>2. OneCpuPerStack'
    BY <1>2 DEF Swtch, SchedTypeOK, OneCpuPerStack
  <2>3. NoFreedStack' /\ RunningIsOnCpu' /\ SavedContext'
    BY <1>2 DEF Swtch, SchedTypeOK, NoFreedStack, RunningIsOnCpu,
       SavedContext, OnStack
  <2>4. SchedAsserts' /\ LockedByOwnCpu'
    BY <1>2 DEF Swtch, SchedTypeOK, SchedAsserts, LockedByOwnCpu, OneCpuPerStack
  <2> QED BY <2>1, <2>2, <2>3, <2>4
<1> QED BY <1>1, <1>2

(* Steps of a process picked by its CPU: out of swtch(), or towards it. *)
LEMMA LiveStepInv ==
  ASSUME SchedInv, NEW c \in Cpus, NEW p \in Procs,
         \/ ForkRet(c, p) \/ YieldRet(c, p) \/ SleepRet(c, p)
         \/ YieldEnter(c, p) \/ SleepLockProc(c, p) \/ ExitEnter(c, p)
         \/ \E ch \in Chans : SleepEnter(c, p, ch)
  PROVE  SchedInv'
<1> USE SchedAssumption DEF SchedInv
<1> DEFINE Back == ForkRet(c, p) \/ YieldRet(c, p) \/ SleepRet(c, p)
           Out == \/ YieldEnter(c, p) \/ ExitEnter(c, p)
                  \/ \E ch \in Chans : SleepEnter(c, p, ch)
<1>1. CASE Back
  <2>1. SchedTypeOK'
    BY <1>1 DEF ForkRet, YieldRet, SleepRet, Return, SchedTypeOK, Contexts
  <2>2. OneCpuPerStack' /\ NoFreedStack' /\ RunningIsOnCpu'
    BY <1>1 DEF ForkRet, YieldRet, SleepRet, Return, SchedTypeOK,
       OneCpuPerStack, NoFreedStack, RunningIsOnCpu, OnStack
  <2>3. SchedAsserts' /\ LockedByOwnCpu' /\ SavedContext'
    BY <1>1 DEF ForkRet, YieldRet, SleepRet, Return, SchedTypeOK,
       SchedAsserts, LockedByOwnCpu, SavedContext, OnStack
  <2> QED BY <2>1, <2>2, <2>3
<1>2. CASE Out
  <2>1. PICK to \in {"RUNNABLE", "SLEEPING", "ZOMBIE"},
             from \in {"yield", "sleep", "exit"} :
          Leave(c, p, to, from) /\ UNCHANGED cpu
    BY <1>2 DEF YieldEnter, ExitEnter, SleepEnter
  <2>2. SchedTypeOK'
    BY <1>2 DEF YieldEnter, ExitEnter, SleepEnter, Leave, SchedTypeOK,
       States, Contexts
  <2>3. OneCpuPerStack' /\ NoFreedStack' /\ RunningIsOnCpu'
    BY <2>1 DEF Leave, Live, SchedTypeOK, OneCpuPerStack, NoFreedStack,
       RunningIsOnCpu, OnStack
  <2>4. SchedAsserts' /\ LockedByOwnCpu' /\ SavedContext'
    BY <2>1 DEF Leave, Live, SchedTypeOK, OneCpuPerStack, SchedAsserts,
       LockedByOwnCpu, SavedContext, OnStack
  <2> QED BY <2>2, <2>3, <2>4
<1>3. CASE SleepLockProc(c, p)
  <2>1. state[p] = "RUNNING"
    BY <1>3 DEF SleepLockProc, Live, SchedAsserts
  <2> QED
    BY <1>3, <2>1 DEF SleepLockProc, Live, SchedTypeOK, OneCpuPerStack,
       NoFreedStack, RunningIsOnCpu, SchedAsserts, LockedByOwnCpu,
       SavedContext, OnStack
<1> QED BY <1>1, <1>2, <1>3

(* Steps on a slot whose lock was free: they find it off every stack. *)
LEMMA SlotStepInv ==
  ASSUME SchedInv, NEW q \in Procs, SlotStep(q)
  PROVE  SchedInv'
<1> USE SchedAssumption DEF SchedInv
<1>1. UNCHANGED <<plock, cpu>> /\ plock[q] = NoCpu
  BY DEF SlotStep, WakeOne, KillOne, AllocSlot, AbortSlot, StartSlot, FreeSlot
<1>2. /\ \A p \in Procs \ {q} : state'[p] = state[p] /\ ctx'[p] = ctx[p]
      /\ ctx'[q] \in {ctx[q], "forkret"}
      /\ (state'[q] = "RUNNING" <=> state[q] = "RUNNING")
      /\ (state[q] = "RUNNING" => ctx'[q] = ctx[q] /\ state'[q] = state[q])
  BY DEF SlotStep, WakeOne, KillOne, AllocSlot, AbortSlot, StartSlot, FreeSlot,
     SchedTypeOK
<1>3. state[q] # "RUNNING" => ~OnStack(q)
  BY <1>1, FreeLockOffStack
<1>4. SchedTypeOK'
  BY DEF SlotStep, WakeOne, KillOne, AllocSlot, AbortSlot, StartSlot, FreeSlot,
     SchedTypeOK, States, Contexts
<1>5. OneCpuPerStack' /\ LockedByOwnCpu'
  BY <1>1 DEF OneCpuPerStack, LockedByOwnCpu
<1>6. NoFreedStack' /\ RunningIsOnCpu' /\ SavedContext'
  BY <1>1, <1>2, <1>3 DEF NoFreedStack, RunningIsOnCpu, SavedContext, OnStack
<1>7. SchedAsserts'
  BY <1>1, <1>2, <1>3 DEF SchedAsserts, OnStack
<1> QED BY <1>4, <1>5, <1>6, <1>7

(* Every step of the most general caller preserves the invariant. *)
LEMMA SchedNextInv == SchedInv /\ [SchedNext]_schedVars => SchedInv'
<1> SUFFICES ASSUME SchedInv, [SchedNext]_schedVars PROVE SchedInv'
  OBVIOUS
<1>1. ASSUME NEW c \in Cpus, NEW p \in Procs, CpuStep(c, p) PROVE SchedInv'
  BY <1>1, SwitchInv, LiveStepInv DEF CpuStep
<1>2. ASSUME NEW q \in Procs, SlotStep(q) PROVE SchedInv'
  BY <1>2, SlotStepInv
<1>3. CASE UNCHANGED schedVars
  BY <1>3 DEF schedVars, SchedInv, SchedTypeOK, OneCpuPerStack, NoFreedStack,
     SchedAsserts, RunningIsOnCpu, LockedByOwnCpu, SavedContext, OnStack
<1> QED BY <1>1, <1>2, <1>3 DEF SchedNext

(***************************************************************************)
(* The process table keeps its invariant for ever: no stack on two CPUs,   *)
(* no freed stack in use, no panic in sched().                             *)
(***************************************************************************)
THEOREM SchedInvariant == SchedSpec => []SchedInv
BY SchedInitInv, SchedNextInv, PTL DEF SchedSpec

(* The three parts a reader knows the table by, for any slots and CPUs.    *)
(* scheduler() never enters a kernel stack that another CPU is still on.   *)
THEOREM StacksNotShared == SchedSpec => []OneCpuPerStack
BY SchedInvariant, PTL DEF SchedInv

(* A slot on whose stack some CPU runs is never freed by kwait().          *)
THEOREM StacksNotFreed == SchedSpec => []NoFreedStack
BY SchedInvariant, PTL DEF SchedInv

(* Every path into sched() arranges what its four panics ask for.          *)
THEOREM SchedNeverPanics == SchedSpec => []SchedAsserts
BY SchedInvariant, PTL DEF SchedInv

-----------------------------------------------------------------------------
(* The sleep-lock. *)

(* Every step of the sleep-lock is a step of the process table. *)
LEMMA LockStepIsSchedStep == [LockNext]_sleepLockVars => [SchedNext]_schedVars
<1> SUFFICES ASSUME [LockNext]_sleepLockVars PROVE [SchedNext]_schedVars
  OBVIOUS
<1> USE SleepLockAssumption
<1>1. CASE UNCHANGED sleepLockVars
  BY <1>1 DEF sleepLockVars
<1>2. ASSUME NEW c \in Cpus, NEW p \in Procs,
             Call(c, p) \/ LockWork(c, p)
      PROVE  [SchedNext]_schedVars
  <2>1. CASE SleepCall(c, p)
    BY <2>1 DEF SleepCall, SchedNext, CpuStep
  <2>2. CASE LockDoze(c, p)
    BY <2>2 DEF LockDoze, SchedNext, CpuStep
  <2>3. CASE LockAwake(c, p)
    BY <2>3 DEF LockAwake, SchedNext, CpuStep
  <2>4. ASSUME NEW q \in Procs, WakeSlot(c, p, q) PROVE SchedNext
    BY <2>4 DEF WakeSlot, SchedNext, SlotStep
  <2>5. CASE \/ Call(c, p) \/ Acquire(c, p) \/ Take(c, p) \/ SleepRelease(c, p)
             \/ Done(c, p) \/ Unlock(c, p) \/ WakeDone(c, p)
    BY <2>5 DEF Call, Acquire, Take, SleepRelease, Done, Unlock, WakeDone
  <2> QED BY <1>2, <2>1, <2>2, <2>3, <2>4, <2>5 DEF LockWork
<1>3. ASSUME NEW c \in Cpus, NEW p \in Procs,
             LockSwitch(c, p) \/ LockPreempt(c, p) \/ LockDispatch(c, p)
      PROVE  SchedNext
  BY <1>3 DEF LockSwitch, LockPreempt, LockDispatch, SchedNext, CpuStep
<1>4. ASSUME NEW q \in Procs, LockKill(q) PROVE SchedNext
  BY <1>4 DEF LockKill, SchedNext, SlotStep
<1> QED BY <1>1, <1>2, <1>3, <1>4 DEF LockNext

(* Initially nobody holds the lock or wants it. *)
LEMMA SleepLockInitInv == LockInit => SleepLockInv
<1> SUFFICES ASSUME LockInit PROVE SleepLockInv
  OBVIOUS
<1> USE SchedAssumption, SleepLockAssumption
<1>1. SchedInv
  BY SchedInitInv DEF LockInit
<1>2. LockTypeOK
  BY <1>1 DEF LockInit, LockTypeOK, SchedInv, LockPhases
<1>3. InnerLock /\ HolderRecorded /\ WakeupComes
  BY DEF LockInit, InnerLock, InnerPlaces, HolderRecorded, Holders,
     HoldingSleep, WakeupComes, Waits
<1>4. Places
  BY DEF LockInit, SchedInit, Places
<1> QED BY <1>1, <1>2, <1>3, <1>4 DEF SleepLockInv

-----------------------------------------------------------------------------
(* One step of p's own code, except those of the wakeup() loop. *)
LEMMA EntryInv ==
  ASSUME SleepLockInv, SchedInv', NEW c \in Cpus, NEW p \in Procs,
         \/ Call(c, p) \/ Acquire(c, p) \/ Take(c, p)
         \/ Done(c, p) \/ Unlock(c, p) \/ WakeDone(c, p)
  PROVE  SleepLockInv'
<1> USE SchedAssumption DEF SleepLockInv
<1>1. UNCHANGED schedVars /\ Live(c, p) /\ state[p] = "RUNNING"
  BY DEF Call, Acquire, Take, Done, Unlock, WakeDone, LockAt, Live, SchedInv,
     SchedAsserts
<1>2. LockTypeOK'
  <2>1. at' \in [Procs -> LockPhases]
    BY DEF Call, Acquire, Take, Done, Unlock, WakeDone, LockGoto, LockTypeOK,
       LockPhases
  <2>2. toWake' \in [Procs -> SUBSET Procs]
    BY DEF Call, Acquire, Take, Done, Unlock, WakeDone, LockTypeOK
  <2>3. lk' \in Cpus \cup {NoCpu} /\ owner' \in Procs \cup {NoProc}
    BY DEF Call, Acquire, Take, Done, Unlock, WakeDone, LockTypeOK
  <2>4. locked' \in BOOLEAN
    BY DEF Call, Acquire, Take, Done, Unlock, WakeDone, LockTypeOK
  <2> QED BY <2>1, <2>2, <2>3, <2>4 DEF LockTypeOK, SchedInv
<1>3. InnerLock'
  BY <1>1 DEF Call, Acquire, Take, Done, Unlock, WakeDone, LockAt, LockGoto,
     LockTypeOK, InnerLock, InnerPlaces, Live, schedVars, SchedInv,
     SchedTypeOK, OneCpuPerStack
<1>4. Places'
  BY <1>1 DEF Call, Acquire, Take, Done, Unlock, WakeDone, LockAt, LockGoto,
     LockTypeOK, Places, Live, schedVars
<1>5. HolderRecorded'
  BY <1>1 DEF Call, Acquire, Take, Done, Unlock, WakeDone, LockAt, LockGoto,
     LockTypeOK, HolderRecorded, Holders, HoldingSleep
<1>6. WakeupComes'
  BY <1>1 DEF Call, Acquire, Take, Done, Unlock, WakeDone, LockAt, LockGoto,
     LockTypeOK, WakeupComes, Waits, schedVars
<1> QED BY <1>2, <1>3, <1>4, <1>5, <1>6

(* The four steps of sleep(). *)
LEMMA SleepInv ==
  ASSUME SleepLockInv, SchedInv', NEW c \in Cpus, NEW p \in Procs,
         SleepCall(c, p) \/ SleepRelease(c, p) \/ LockDoze(c, p) \/ LockAwake(c, p)
  PROVE  SleepLockInv'
<1> USE SchedAssumption, SleepLockAssumption DEF SleepLockInv
<1> USE DEF SleepCall, SleepRelease, LockDoze, LockAwake, LockAt, LockGoto,
   Live, LockTypeOK
<1>1. LockTypeOK'
  BY DEF SchedInv, LockPhases
<1>2. UNCHANGED cpu
  BY DEF SleepLockProc, SleepEnter, SleepRet, schedVars
<1>3. InnerLock'
  BY <1>2 DEF InnerLock, InnerPlaces, SchedInv, SchedTypeOK, OneCpuPerStack,
     Places, SleepRet, Return
<1>4. Places'
  BY DEF Places, SleepLockProc, SleepEnter, Leave, SleepRet, Return,
     SchedTypeOK, schedVars
<1>5. HolderRecorded'
  BY DEF HolderRecorded, Holders, HoldingSleep, Places, SleepRet, Return
<1>6. WakeupComes'
  BY DEF WakeupComes, Waits, SleepLockProc, SleepEnter, Leave, SleepRet,
     Return, SchedTypeOK, schedVars, Places
<1> QED BY <1>1, <1>3, <1>4, <1>5, <1>6

(* One turn of the wakeup() loop. *)
LEMMA WakeSlotInv ==
  ASSUME SleepLockInv, SchedInv', NEW c \in Cpus, NEW p \in Procs,
         NEW q \in Procs, WakeSlot(c, p, q)
  PROVE  SleepLockInv'
<1> USE SchedAssumption DEF SleepLockInv, WakeSlot, WakeOne, LockAt, Live,
   LockTypeOK
<1>1. LockTypeOK'
  BY DEF SchedInv
<1>2. InnerLock' /\ HolderRecorded'
  BY DEF InnerLock, HolderRecorded, Holders, HoldingSleep
<1>3. Places'
  BY DEF Places, SchedTypeOK
<1>4. ~Waits(q)'
  BY DEF Waits, Places, SchedTypeOK
<1>5. WakeupComes'
  <2> SUFFICES ASSUME NEW w \in Procs, Waits(w)', ~locked'
               PROVE  \E r \in Procs : at'[r] = "wake" /\ w \in toWake'[r]
    BY DEF WakeupComes
  <2>1. w # q /\ Waits(w)
    BY <1>4 DEF Waits, SchedTypeOK
  <2>2. PICK r \in Procs : at[r] = "wake" /\ w \in toWake[r]
    BY <2>1 DEF WakeupComes
  <2> QED BY <2>1, <2>2
<1> QED BY <1>1, <1>2, <1>3, <1>5

(* Context switches, timer interrupts and kills. *)
LEMMA OutsideInv ==
  ASSUME SleepLockInv, SchedInv',
         \/ \E c \in Cpus, p \in Procs :
              LockSwitch(c, p) \/ LockPreempt(c, p) \/ LockDispatch(c, p)
         \/ \E q \in Procs : LockKill(q)
  PROVE  SleepLockInv'
<1> USE SchedAssumption DEF SleepLockInv
<1>1. UNCHANGED lockVars
  BY DEF LockSwitch, LockPreempt, LockDispatch, LockKill
<1>2. \A w \in Procs : Waits(w)' => Waits(w)
  BY <1>1 DEF Waits, LockSwitch, LockPreempt, LockDispatch, LockKill, Swtch,
     ForkRet, YieldRet, Return, YieldEnter, Leave, Pick, KillOne, LockTypeOK,
     SchedTypeOK, lockVars
<1>3. LockTypeOK' /\ HolderRecorded' /\ WakeupComes'
  BY <1>1, <1>2 DEF LockTypeOK, HolderRecorded, Holders, HoldingSleep,
     WakeupComes, SchedInv, lockVars
<1>4. CASE \E c \in Cpus, p \in Procs : LockSwitch(c, p) \/ LockDispatch(c, p)
  <2>1. PICK c \in Cpus, p \in Procs : LockSwitch(c, p) \/ LockDispatch(c, p)
    BY <1>4
  <2>2. ctx[p] # "live" \/ cpu[c] = NoProc
    BY <2>1 DEF LockSwitch, LockDispatch, Swtch, ForkRet, YieldRet, Return, Pick
  <2>3. lk # c
    BY <2>1, <2>2 DEF InnerLock, InnerPlaces, Places, LockTypeOK, SchedTypeOK,
       LockSwitch, LockDispatch, Swtch, ForkRet, YieldRet, Return, Pick
  <2>4. InnerLock'
    BY <1>1, <2>1, <2>3 DEF InnerLock, lockVars, LockTypeOK, SchedTypeOK,
       LockSwitch, LockDispatch, Swtch, ForkRet, YieldRet, Return, Pick
  <2>5. Places'
    BY <1>1, <2>1 DEF Places, lockVars, LockTypeOK, SchedTypeOK, LockSwitch,
       LockDispatch, Swtch, ForkRet, YieldRet, Return, Pick
  <2> QED BY <1>3, <2>4, <2>5
<1>5. CASE \E c \in Cpus, p \in Procs : LockPreempt(c, p)
  <2>1. InnerLock'
    BY <1>1, <1>5 DEF InnerLock, lockVars, LockPreempt, YieldEnter
  <2>2. Places'
    BY <1>1, <1>5 DEF Places, InnerLock, InnerPlaces, lockVars, LockPreempt,
       YieldEnter, Leave, Live, LockTypeOK, SchedInv, SchedTypeOK,
       OneCpuPerStack
  <2> QED BY <1>3, <2>1, <2>2
<1>6. CASE \E q \in Procs : LockKill(q)
  <2>1. InnerLock'
    BY <1>1, <1>6 DEF InnerLock, lockVars, LockKill, KillOne
  <2>2. Places'
    BY <1>1, <1>6 DEF Places, lockVars, LockKill, KillOne, LockTypeOK,
       SchedTypeOK
  <2> QED BY <1>3, <2>1, <2>2
<1> QED BY <1>4, <1>5, <1>6

(* Every step preserves the invariant. *)
LEMMA SleepLockNextInv ==
  SleepLockInv /\ [LockNext]_sleepLockVars => SleepLockInv'
<1> SUFFICES ASSUME SleepLockInv, [LockNext]_sleepLockVars PROVE SleepLockInv'
  OBVIOUS
<1>1. SchedInv'
  BY LockStepIsSchedStep, SchedNextInv DEF SleepLockInv
<1>2. CASE UNCHANGED sleepLockVars
  BY <1>1, <1>2 DEF sleepLockVars, schedVars, lockVars, SleepLockInv,
     LockTypeOK, SchedInv, InnerLock, Places, HolderRecorded, Holders,
     HoldingSleep, WakeupComes, Waits
<1>3. ASSUME NEW c \in Cpus, NEW p \in Procs,
             LockWork(c, p) \/ Call(c, p)
      PROVE  SleepLockInv'
  BY <1>1, <1>3, EntryInv, SleepInv, WakeSlotInv DEF LockWork
<1>4. CASE \/ \E c \in Cpus, p \in Procs :
                LockSwitch(c, p) \/ LockPreempt(c, p) \/ LockDispatch(c, p)
           \/ \E q \in Procs : LockKill(q)
  BY <1>1, <1>4, OutsideInv
<1> QED BY <1>2, <1>3, <1>4 DEF LockNext

-----------------------------------------------------------------------------
(***************************************************************************)
(* The strengthened invariant of the sleep-lock holds in every state.      *)
(***************************************************************************)
THEOREM SleepLockInvariant == LockSpec => []SleepLockInv
BY SleepLockInitInv, SleepLockNextInv, PTL DEF LockSpec

(***************************************************************************)
(* Mutual exclusion: holding the lock and being recorded in it coincide,   *)
(* so no two processes are between acquiresleep() and releasesleep().      *)
(***************************************************************************)
THEOREM MutualExclusion ==
  LockSpec => [](HolderRecorded /\ \A p, q \in Holders : p = q)
<1>1. SleepLockInv => HolderRecorded /\ \A p, q \in Holders : p = q
  BY DEF SleepLockInv, HolderRecorded, Holders, HoldingSleep
<1> QED BY <1>1, SleepLockInvariant, PTL

(***************************************************************************)
(* No wakeup is lost, whatever the interleaving of sleep() and wakeup().   *)
(***************************************************************************)
THEOREM WakeupsNotLost == LockSpec => []NoLostWakeup
<1>1. SleepLockInv => NoLostWakeup
  BY DEF SleepLockInv, WakeupComes, NoLostWakeup, Waits
<1> QED BY <1>1, SleepLockInvariant, PTL

(***************************************************************************)
(* The sleep-lock keeps the safety half of the promise of Mutex.           *)
(***************************************************************************)
THEOREM RefinesMutex == LockSpec => LockPromise!MutexSafeSpec
<1> DEFINE held == IF locked THEN owner ELSE NoProc
           want == {p \in Procs :
                      at[p] \in {"acquire", "test", "sleep", "doze", "asleep"}}
<1>1. LockInit => LockPromise!MutexInit
  BY DEF LockInit, LockPromise!MutexInit
<1>2. SleepLockInv /\ [LockNext]_sleepLockVars
        => [LockPromise!MutexNext]_(LockPromise!mutexVars)
  <2> SUFFICES ASSUME SleepLockInv, [LockNext]_sleepLockVars
               PROVE  [LockPromise!MutexNext]_(LockPromise!mutexVars)
    OBVIOUS
  <2> USE SchedAssumption
  <2>0. LockTypeOK /\ HolderRecorded /\ Places
    BY DEF SleepLockInv
  <2>1. ASSUME NEW c \in Cpus, NEW p \in Procs, Call(c, p)
        PROVE  LockPromise!Want(p)
    BY <2>0, <2>1 DEF Call, LockAt, LockGoto, LockPromise!Want, HolderRecorded,
       Holders, HoldingSleep, LockTypeOK
  <2>2. ASSUME NEW c \in Cpus, NEW p \in Procs, Take(c, p)
        PROVE  LockPromise!Enter(p)
    BY <2>0, <2>2 DEF Take, LockAt, LockGoto, LockPromise!Enter, LockTypeOK
  <2>3. ASSUME NEW c \in Cpus, NEW p \in Procs, Unlock(c, p)
        PROVE  LockPromise!Exit(p)
    BY <2>0, <2>3 DEF Unlock, LockAt, LockGoto, LockPromise!Exit,
       HolderRecorded, Holders, HoldingSleep, LockTypeOK
  <2>4. ASSUME NEW c \in Cpus, NEW p \in Procs,
               \/ Acquire(c, p) \/ SleepCall(c, p) \/ SleepRelease(c, p)
               \/ LockDoze(c, p) \/ LockAwake(c, p) \/ Done(c, p) \/ WakeDone(c, p)
               \/ \E q \in Procs : WakeSlot(c, p, q)
               \/ LockSwitch(c, p) \/ LockPreempt(c, p) \/ LockDispatch(c, p)
        PROVE  UNCHANGED LockPromise!mutexVars
    BY <2>0, <2>4 DEF Acquire, SleepCall, SleepRelease, LockDoze, LockAwake,
       Done, WakeDone, WakeSlot, LockSwitch, LockPreempt, LockDispatch, LockAt,
       LockGoto, LockTypeOK, Places, SleepRet, Return, lockVars,
       LockPromise!mutexVars
  <2>5. ASSUME NEW q \in Procs, LockKill(q) PROVE UNCHANGED LockPromise!mutexVars
    BY <2>5 DEF LockKill, lockVars, LockPromise!mutexVars
  <2>6. CASE UNCHANGED sleepLockVars
    BY <2>6 DEF sleepLockVars, lockVars, LockPromise!mutexVars
  <2> QED
    BY <2>1, <2>2, <2>3, <2>4, <2>5, <2>6 DEF LockNext, LockWork,
       LockPromise!MutexNext, LockPromise!EnterSome, LockPromise!ExitSome
<1> QED
  BY <1>1, <1>2, SleepLockInvariant, PTL DEF LockSpec, LockPromise!MutexSafeSpec

-----------------------------------------------------------------------------
(* fork, exit, wait and kill. *)

(* Who is in which place, and what the other variables are there. *)
PlacesInv ==
  /\ \A p \in Procs :
       /\ pc[p] = "asleep" <=> ctx[p] = "sleep"
       /\ state[p] = "SLEEPING" => ctx[p] = "sleep" /\ chan[p] = p
       /\ ctx[p] = "sleep" => chan[p] = p
       /\ state[p] = "ZOMBIE" => pc[p] = "die" /\ ctx[p] = "exit"
       /\ ctx[p] = "exit" => state[p] \in {"ZOMBIE", "UNUSED"}
       /\ state[p] = "UNUSED" => pc[p] \in {"user", "die"} /\ ctx[p] \in {"forkret", "exit"}
       /\ state[p] = "USED" => pc[p] = "user" /\ ctx[p] = "forkret"
       /\ ctx[p] = "forkret" => pc[p] = "user"
  /\ state[InitProc] \notin {"UNUSED", "USED", "ZOMBIE"} /\ ~Exiting(InitProc)

(* p is between acquire(&wait_lock) and its release. *)
Inside(p) ==
  /\ pc[p] \in {"scan", "nap", "doze", "adopted", "farewell", "die"}
  /\ state[p] \notin {"ZOMBIE", "UNUSED"}

WaitLockHeld ==
  /\ \A p \in Procs : Inside(p) =>
       ctx[p] = "live" /\ waitlock # NoCpu /\ cpu[waitlock] = p
  /\ waitlock # NoCpu => cpu[waitlock] # NoProc /\ Inside(cpu[waitlock])

(* A child in the making belongs to one kfork(). *)
ForksOwned ==
  /\ \A p \in Procs :
       /\ child[p] # NoProc <=> pc[p] \in {"linked", "start"}
       /\ child[p] # NoProc =>
            /\ state[p] \notin {"UNUSED", "USED", "ZOMBIE"}
            /\ state[child[p]] = "USED"
            /\ parent[child[p]] = IF pc[p] = "start" THEN p ELSE NoProc
  /\ \A p, q \in Procs : child[p] = child[q] /\ child[p] # NoProc => p = q

PidsInv ==
  /\ \A p \in Procs : pid[p] = 0 <=> state[p] = "UNUSED"
  /\ \A p \in Procs : pid[p] < nextpid
  /\ \A p, q \in Procs : pid[p] = pid[q] /\ pid[p] # 0 => p = q

(* Whoever has children is alive. *)
TreeInv ==
  /\ parent[InitProc] = NoProc
  /\ \A q \in Procs :
       /\ Started(q) /\ q # InitProc => parent[q] # NoProc
       /\ parent[q] # NoProc =>
            /\ Started(parent[q]) /\ ~Exiting(parent[q]) /\ parent[q] # q
            /\ Started(q) \/ child[parent[q]] = q

(* No zombie is missed: the loop of kwait() has yet to see it, its parent  *)
(* is awake, or a wakeup() for its parent is under way.                    *)
ZombiesSeen ==
  /\ \A q \in Procs : state[q] = "ZOMBIE" /\ parent[q] # NoProc =>
       /\ pc[parent[q]] = "scan" => q \in scan
       /\ pc[parent[q]] \notin {"nap", "doze"}
       /\ state[parent[q]] = "SLEEPING" =>
            parent[q] = InitProc /\ \E r \in Procs : pc[r] = "adopted"
  /\ \A r \in Procs : pc[r] = "die" /\ Inside(r) /\ parent[r] # NoProc =>
       state[parent[r]] # "SLEEPING"

ProcInv ==
  SchedInv /\ TypeOK /\ PlacesInv /\ WaitLockHeld /\ ForksOwned /\ PidsInv /\ TreeInv /\ ZombiesSeen

-----------------------------------------------------------------------------
(* A process that executes its code is RUNNING. *)
LEMMA LiveRuns ==
  ASSUME SchedInv, NEW c \in Cpus, NEW p \in Procs, Live(c, p)
  PROVE  state[p] = "RUNNING" /\ cpu[c] = p /\ ctx[p] = "live"
BY DEF SchedInv, SchedAsserts, Live

(* Whom kexit() wakes is there. *)
LEMMA ParentIsThere ==
  ASSUME ProcInv, NEW c \in Cpus, NEW p \in Procs, Live(c, p), Exiting(p)
  PROVE  parent[p] \in Procs
BY LiveRuns DEF ProcInv, PlacesInv, TreeInv, Started, TypeOK

(* Every step is a step of the process table. *)
LEMMA StepIsSchedStep == ProcInv /\ [Next]_vars => [SchedNext]_schedVars
<1> SUFFICES ASSUME ProcInv, [Next]_vars PROVE [SchedNext]_schedVars
  OBVIOUS
<1> USE ProcAssumption DEF SchedNext
<1>1. CASE UNCHANGED vars
  BY <1>1 DEF vars
<1>2. ASSUME NEW c \in Cpus, NEW p \in Procs,
             \/ Preempt(c, p) \/ Dispatch(c, p) \/ Switch(c, p)
             \/ Nap(c, p) \/ Doze(c, p) \/ Awake(c, p) \/ Die(c, p)
      PROVE  SchedNext
  <2>1. CpuStep(c, p)
    BY <1>2 DEF Preempt, Dispatch, Switch, Nap, Doze, Awake, Die, CpuStep
  <2> QED BY <2>1
<1>3. ASSUME NEW c \in Cpus, NEW p \in Procs, WakeInit(c, p)
      PROVE  SchedNext
  BY <1>3 DEF WakeInit, SlotStep
<1>4. ASSUME NEW c \in Cpus, NEW p \in Procs, WakeParent(c, p)
      PROVE  SchedNext
  <2>1. parent[p] \in Procs
    BY <1>4, ParentIsThere DEF WakeParent, At, Exiting
  <2> QED BY <1>4, <2>1 DEF WakeParent, SlotStep
<1>5. ASSUME NEW c \in Cpus, NEW p \in Procs, ForkStart(c, p)
      PROVE  SchedNext
  <2>1. child[p] \in Procs
    BY <1>5 DEF ForkStart, At, ProcInv, ForksOwned, TypeOK
  <2> QED BY <1>5, <2>1 DEF ForkStart, SlotStep
<1>6. ASSUME NEW c \in Cpus, NEW p \in Procs, NEW q \in Procs,
             \/ Fork(c, p, q) \/ ForkNoMemory(c, p, q) \/ Reap(c, p, q)
             \/ \E n \in KillArgs : Kill(c, p, n, q)
      PROVE  SchedNext
  BY <1>6 DEF Fork, ForkNoMemory, Reap, Kill, SlotStep
<1>7. ASSUME NEW c \in Cpus, NEW p \in Procs, Fault(c, p)
      PROVE  SchedNext
  BY <1>7 DEF Fault, SlotStep
<1>8. ASSUME NEW c \in Cpus, NEW p \in Procs,
             \/ Syscall(c, p) \/ Interrupt(c, p) \/ ReturnToUser(c, p)
             \/ ForkParent(c, p) \/ OtherCall(c, p) \/ ExitCall(c, p)
             \/ Reparent(c, p) \/ WaitCall(c, p) \/ WaitLock(c, p)
             \/ WaitFails(c, p) \/ WaitDecides(c, p)
             \/ \E q \in Procs : PassOver(c, p, q) \/ ReapNoCopy(c, p, q)
      PROVE  UNCHANGED schedVars
  BY <1>8 DEF Syscall, Interrupt, ReturnToUser, ForkParent, OtherCall, ExitCall,
              Reparent, WaitCall, WaitLock, WaitFails, WaitDecides, PassOver, ReapNoCopy
<1> QED BY <1>1, <1>2, <1>3, <1>4, <1>5, <1>6, <1>7, <1>8 DEF Next, Work, Request

LEMMA ProcInitInv == Init => ProcInv
<1> SUFFICES ASSUME Init PROVE ProcInv
  OBVIOUS
<1> USE SchedAssumption, ProcAssumption DEF Init
<1>1. SchedInv
  BY SchedInitInv
<1>2. TypeOK
  BY <1>1 DEF TypeOK, SchedInv, Phases
<1>3. PlacesInv /\ WaitLockHeld /\ ForksOwned
  BY DEF SchedInit, PlacesInv, WaitLockHeld, Inside, ForksOwned, Exiting
<1>4. PidsInv /\ TreeInv /\ ZombiesSeen
  BY DEF SchedInit, PidsInv, TreeInv, ZombiesSeen, Started, Exiting, Inside
<1> QED BY <1>1, <1>2, <1>3, <1>4 DEF ProcInv

-----------------------------------------------------------------------------
(* Steps outside wait_lock; others may be woken by the way. *)
LEMMA PlainInv ==
  ASSUME ProcInv, SchedInv', NEW c \in Cpus, NEW p \in Procs, Live(c, p),
         NEW there \in {"user", "kernel", "return", "wait", "exit"},
         pc[p] \in {"user", "kernel", "return", "wait"},
         pc' = [pc EXCEPT ![p] = there],
         UNCHANGED <<ctx, chan, cpu, pid, parent, nextpid, waitlock, scan, child>>,
         \A q \in Procs :
           state'[q] = state[q] \/ (state[q] = "SLEEPING" /\ state'[q] = "RUNNABLE"),
         asked' \subseteq 0 .. MaxPid, strays' \subseteq Procs
  PROVE  ProcInv'
<1> USE SchedAssumption, ProcAssumption DEF ProcInv, Inside, Exiting, Started
<1>1. state[p] = "RUNNING" /\ cpu[c] = p /\ ctx[p] = "live"
  BY LiveRuns
<1>2. TypeOK'
  BY DEF TypeOK, SchedInv, Phases
<1>3. PlacesInv'
  BY <1>1 DEF PlacesInv, TypeOK
<1>4. WaitLockHeld'
  <2>1. \A q \in Procs : Inside(q)' <=> Inside(q)
    BY DEF TypeOK
  <2>2. waitlock # NoCpu => cpu[waitlock] \in Procs
    BY DEF WaitLockHeld, TypeOK, SchedTypeOK
  <2>3. \A q \in Procs : Inside(q)' => ctx'[q] = "live" /\ waitlock' # NoCpu /\ cpu'[waitlock'] = q
    BY <2>1 DEF WaitLockHeld
  <2>4. waitlock' # NoCpu => cpu'[waitlock'] # NoProc /\ Inside(cpu[waitlock])'
    BY <2>1, <2>2 DEF WaitLockHeld
  <2> HIDE DEF Inside
  <2> QED BY <2>3, <2>4 DEF WaitLockHeld
<1>5. ForksOwned'
  BY <1>1 DEF ForksOwned, TypeOK
<1>6. PidsInv'
  BY <1>1 DEF PidsInv, TypeOK
<1>7. TreeInv'
  BY <1>1 DEF TreeInv, TypeOK
<1>8. ZombiesSeen'
  BY <1>1 DEF ZombiesSeen, TypeOK
<1> QED BY <1>2, <1>3, <1>4, <1>5, <1>6, <1>7, <1>8

(* Steps of scheduler(), swtch() and timer interrupts. *)
LEMMA SwitchesInv ==
  ASSUME ProcInv, SchedInv', NEW c \in Cpus, NEW p \in Procs,
         Preempt(c, p) \/ Dispatch(c, p) \/ Switch(c, p)
  PROVE  ProcInv'
<1> USE SchedAssumption, ProcAssumption DEF ProcInv, Inside, Exiting, Started
<1>1. UNCHANGED <<pid, parent, nextpid, waitlock, scan, child, pc, asked, strays, chan>>
  BY DEF Preempt, Dispatch, Switch, procVars, YieldEnter, Pick, Swtch, ForkRet, YieldRet
<1>2. /\ \A q \in Procs : state'[q] = state[q] \/ {state[q], state'[q]} \subseteq {"RUNNABLE", "RUNNING"}
      /\ \A q \in Procs : ctx'[q] = ctx[q] \/ (q = p /\ state[q] = "RUNNING")
      /\ ctx'[p] = ctx[p] \/ ctx'[p] \in {"live", "yield"}
      /\ ctx[p] \in {"sleep", "exit"} => ctx'[p] = ctx[p]
  <2>1. CASE Preempt(c, p)
    BY <2>1, LiveRuns DEF Preempt, YieldEnter, Leave, TypeOK, SchedTypeOK
  <2>2. CASE Dispatch(c, p)
    BY <2>2 DEF Dispatch, Pick, TypeOK, SchedTypeOK
  <2>3. CASE Switch(c, p)
    BY <2>3 DEF Switch, Swtch, ForkRet, YieldRet, Return, TypeOK, SchedTypeOK
  <2> QED BY <2>1, <2>2, <2>3
<1>3. TypeOK'
  BY <1>1 DEF TypeOK, SchedInv
<1>4. PlacesInv'
  BY <1>1, <1>2 DEF PlacesInv
<1>5. WaitLockHeld'
  <2>1. ASSUME NEW q \in Procs, Inside(q)
        PROVE  ctx'[q] = "live" /\ cpu'[waitlock] = q
    <3>1. waitlock \in Cpus /\ cpu[waitlock] = q /\ ctx[q] = "live" /\ state[q] = "RUNNING"
      BY <2>1, LiveRuns DEF WaitLockHeld, TypeOK, Live
    <3>2. CASE Preempt(c, p)
      BY <3>1, <3>2, <2>1 DEF Preempt, YieldEnter, Leave, Live, TypeOK, SchedTypeOK,
         SchedInv, OneCpuPerStack
    <3>3. CASE Dispatch(c, p)
      BY <3>1, <3>3 DEF Dispatch, Pick, TypeOK, SchedTypeOK
    <3>4. CASE Switch(c, p)
      BY <3>1, <3>4 DEF Switch, Swtch, ForkRet, YieldRet, Return, TypeOK, SchedTypeOK
    <3> QED BY <3>2, <3>3, <3>4
  <2>2. \A q \in Procs : Inside(q)' <=> Inside(q)
    BY <1>1, <1>2
  <2>3. waitlock # NoCpu => cpu[waitlock] \in Procs /\ Inside(cpu[waitlock])
    BY DEF WaitLockHeld, TypeOK, SchedTypeOK
  <2>4. waitlock # NoCpu => cpu'[waitlock] = cpu[waitlock]
    BY <2>1, <2>3 DEF WaitLockHeld
  <2> HIDE DEF Inside
  <2>5. \A q \in Procs : Inside(q)' => ctx'[q] = "live" /\ waitlock' # NoCpu /\ cpu'[waitlock'] = q
    BY <1>1, <2>1, <2>2 DEF WaitLockHeld
  <2>6. waitlock' # NoCpu => cpu'[waitlock'] # NoProc /\ Inside(cpu[waitlock])'
    BY <1>1, <2>2, <2>3, <2>4 DEF Inside
  <2> QED BY <2>5, <2>6 DEF WaitLockHeld
<1>6. ForksOwned'
  BY <1>1, <1>2 DEF ForksOwned, TypeOK
<1>7. PidsInv'
  BY <1>1, <1>2 DEF PidsInv
<1>8. TreeInv'
  BY <1>1, <1>2 DEF TreeInv, TypeOK
<1>9. ZombiesSeen'
  BY <1>1, <1>2 DEF ZombiesSeen, TypeOK
<1> QED BY <1>3, <1>4, <1>5, <1>6, <1>7, <1>8, <1>9

-----------------------------------------------------------------------------
(* The child that kfork() is making. *)
LEMMA ChildIsThere ==
  ASSUME ProcInv, NEW c \in Cpus, NEW p \in Procs, Live(c, p),
         pc[p] \in {"linked", "start"}
  PROVE  \E q \in Procs :
           /\ q = child[p] /\ p # q /\ q # InitProc
           /\ state[q] = "USED" /\ pc[q] = "user" /\ child[q] = NoProc
           /\ parent[q] = (IF pc[p] = "start" THEN p ELSE NoProc)
           /\ \A r \in Procs : child[r] = q => r = p
<1> USE SchedAssumption DEF ProcInv
<1>1. PICK q \in Procs : q = child[p]
  BY DEF ForksOwned, TypeOK
<1>2. /\ state[q] = "USED" /\ state[p] = "RUNNING"
      /\ parent[q] = (IF pc[p] = "start" THEN p ELSE NoProc)
      /\ \A r \in Procs : child[r] = q => r = p
  BY <1>1, LiveRuns DEF ForksOwned
<1>3. pc[q] = "user" /\ q # InitProc
  BY <1>2 DEF PlacesInv
<1>4. child[q] = NoProc
  BY <1>2 DEF ForksOwned
<1> QED BY <1>1, <1>2, <1>3, <1>4

(* The steps of kfork(). *)
LEMMA ForkInv ==
  ASSUME ProcInv, SchedInv', NEW c \in Cpus, NEW p \in Procs, NEW q \in Procs,
         Fork(c, p, q)
  PROVE  ProcInv'
<1> USE SchedAssumption, ProcAssumption DEF ProcInv, Inside, Exiting, Started
<1>1. /\ state[p] = "RUNNING" /\ pc[p] = "kernel" /\ state[q] = "UNUSED" /\ p # q
      /\ nextpid \in Nat /\ nextpid <= MaxPid
      /\ state' = [state EXCEPT ![q] = "USED"] /\ ctx' = [ctx EXCEPT ![q] = "forkret"]
      /\ pid' = [pid EXCEPT ![q] = nextpid] /\ nextpid' = nextpid + 1
      /\ child' = [child EXCEPT ![p] = q]
      /\ pc' = [pc EXCEPT ![p] = "linked", ![q] = "user"]
      /\ UNCHANGED <<parent, waitlock, scan, asked, strays, chan, cpu>>
  BY LiveRuns DEF Fork, At, AllocSlot, TypeOK
<1>2. /\ child[p] = NoProc /\ child[q] = NoProc /\ parent[q] = NoProc /\ q # InitProc
      /\ \A r \in Procs : child[r] # q
      /\ pc[q] \in {"user", "die"}
  BY <1>1 DEF ForksOwned, TreeInv, PlacesInv, TypeOK
<1>3. TypeOK'
  <2>1. pid' \in [Procs -> 0 .. MaxPid] /\ nextpid' \in 1 .. MaxPid + 1
    BY <1>1 DEF TypeOK
  <2> QED BY <1>1, <2>1 DEF TypeOK, SchedInv, Phases
<1>4. PlacesInv'
  BY <1>1, <1>2 DEF PlacesInv, TypeOK, SchedTypeOK
<1>5. WaitLockHeld'
  BY <1>1 DEF WaitLockHeld, TypeOK, SchedTypeOK
<1>6. ForksOwned'
  BY <1>1, <1>2 DEF ForksOwned, TypeOK, SchedTypeOK
<1>7. PidsInv'
  BY <1>1 DEF PidsInv, TypeOK, SchedTypeOK
<1>8. TreeInv'
  BY <1>1, <1>2 DEF TreeInv, TypeOK, SchedTypeOK
<1>9. ZombiesSeen'
  BY <1>1, <1>2 DEF ZombiesSeen, TypeOK, SchedTypeOK
<1> QED BY <1>3, <1>4, <1>5, <1>6, <1>7, <1>8, <1>9

LEMMA ForkNoMemoryInv ==
  ASSUME ProcInv, SchedInv', NEW c \in Cpus, NEW p \in Procs, NEW q \in Procs,
         ForkNoMemory(c, p, q)
  PROVE  ProcInv'
<1> USE SchedAssumption, ProcAssumption DEF ProcInv, Inside, Exiting, Started
<1>1. /\ state[p] = "RUNNING" /\ pc[p] = "kernel" /\ state[q] = "UNUSED" /\ p # q
      /\ nextpid \in Nat /\ nextpid <= MaxPid /\ nextpid' = nextpid + 1
      /\ pc' = [pc EXCEPT ![p] = "return"] /\ chan' = [chan EXCEPT ![q] = NoChan]
      /\ UNCHANGED <<state, ctx, cpu, pid, parent, waitlock, scan, child, asked>>
      /\ strays' = strays \ {q}
  BY LiveRuns DEF ForkNoMemory, At, AbortSlot, TypeOK, Goto
<1>2. TypeOK'
  BY <1>1 DEF TypeOK, SchedInv, Phases
<1>3. PlacesInv'
  BY <1>1 DEF PlacesInv, TypeOK, SchedTypeOK
<1>4. WaitLockHeld'
  BY <1>1 DEF WaitLockHeld, TypeOK, SchedTypeOK
<1>5. ForksOwned'
  BY <1>1 DEF ForksOwned, TypeOK, SchedTypeOK
<1>6. PidsInv'
  BY <1>1 DEF PidsInv, TypeOK, SchedTypeOK
<1>7. TreeInv'
  BY <1>1 DEF TreeInv, TypeOK, SchedTypeOK
<1>8. ZombiesSeen'
  BY <1>1 DEF ZombiesSeen, TypeOK, SchedTypeOK
<1> QED BY <1>2, <1>3, <1>4, <1>5, <1>6, <1>7, <1>8

LEMMA ForkParentInv ==
  ASSUME ProcInv, SchedInv', NEW c \in Cpus, NEW p \in Procs, ForkParent(c, p)
  PROVE  ProcInv'
<1> USE SchedAssumption, ProcAssumption DEF ProcInv, Inside, Exiting, Started
<1>0. PICK q \in Procs :
        /\ q = child[p] /\ p # q /\ q # InitProc
        /\ state[q] = "USED" /\ pc[q] = "user"
        /\ \A r \in Procs : child[r] = q => r = p
  BY ChildIsThere DEF ForkParent, At
<1>1. /\ state[p] = "RUNNING" /\ pc[p] = "linked"
      /\ parent' = [parent EXCEPT ![q] = p] /\ pc' = [pc EXCEPT ![p] = "start"]
      /\ UNCHANGED <<schedVars, pid, nextpid, waitlock, scan, child, asked, strays>>
  BY <1>0, LiveRuns DEF ForkParent, At, Goto
<1> USE <1>0
<1>2. UNCHANGED <<state, chan, cpu, ctx>>
  BY <1>1 DEF schedVars
<1>3. TypeOK'
  BY <1>1 DEF TypeOK, SchedInv, Phases
<1>4. PlacesInv'
  BY <1>1, <1>2 DEF PlacesInv, TypeOK, SchedTypeOK
<1>5. WaitLockHeld'
  BY <1>1, <1>2 DEF WaitLockHeld, TypeOK, SchedTypeOK
<1>6. ForksOwned'
  BY <1>1, <1>2 DEF ForksOwned, TypeOK, SchedTypeOK
<1>7. PidsInv'
  BY <1>1, <1>2 DEF PidsInv, TypeOK, SchedTypeOK
<1>8. TreeInv'
  BY <1>1, <1>2 DEF TreeInv, TypeOK, SchedTypeOK
<1>9. ZombiesSeen'
  BY <1>1, <1>2 DEF ZombiesSeen, TypeOK, SchedTypeOK
<1> QED BY <1>3, <1>4, <1>5, <1>6, <1>7, <1>8, <1>9

LEMMA ForkStartInv ==
  ASSUME ProcInv, SchedInv', NEW c \in Cpus, NEW p \in Procs, ForkStart(c, p)
  PROVE  ProcInv'
<1> USE SchedAssumption, ProcAssumption DEF ProcInv, Inside, Exiting, Started
<1>0. PICK q \in Procs :
        /\ q = child[p] /\ p # q /\ parent[q] = p /\ q # InitProc
        /\ state[q] = "USED" /\ pc[q] = "user" /\ child[q] = NoProc
        /\ \A r \in Procs : child[r] = q => r = p
  BY ChildIsThere DEF ForkStart, At
<1>1. /\ state[p] = "RUNNING" /\ pc[p] = "start"
      /\ state' = [state EXCEPT ![q] = "RUNNABLE"]
      /\ child' = [child EXCEPT ![p] = NoProc] /\ pc' = [pc EXCEPT ![p] = "return"]
      /\ UNCHANGED <<pid, parent, nextpid, waitlock, scan, asked, strays, chan, cpu, ctx>>
  BY <1>0, LiveRuns DEF ForkStart, StartSlot, At, Goto
<1> USE <1>0
<1>2. TypeOK'
  BY <1>1 DEF TypeOK, SchedInv, Phases
<1>3. PlacesInv'
  BY <1>1 DEF PlacesInv, TypeOK, SchedTypeOK
<1>4. WaitLockHeld'
  BY <1>1 DEF WaitLockHeld, TypeOK, SchedTypeOK
<1>5. ForksOwned'
  BY <1>1 DEF ForksOwned, TypeOK, SchedTypeOK
<1>6. PidsInv'
  BY <1>1 DEF PidsInv, TypeOK, SchedTypeOK
<1>7. TreeInv'
  BY <1>1 DEF TreeInv, TypeOK, SchedTypeOK
<1>8. ZombiesSeen'
  BY <1>1 DEF ZombiesSeen, TypeOK, SchedTypeOK
<1> QED BY <1>2, <1>3, <1>4, <1>5, <1>6, <1>7, <1>8

-----------------------------------------------------------------------------
(* Only the process that holds wait_lock is inside. *)
LEMMA OneInside ==
  ASSUME ProcInv, NEW c \in Cpus, NEW p \in Procs, Live(c, p), Inside(p)
  PROVE  waitlock = c /\ \A r \in Procs : Inside(r) => r = p
BY DEF ProcInv, SchedInv, OneCpuPerStack, WaitLockHeld, TypeOK, Live

LEMMA NobodyInside ==
  ASSUME ProcInv, waitlock = NoCpu, NEW p \in Procs
  PROVE  ~Inside(p)
BY DEF ProcInv, WaitLockHeld

(* The steps of kexit(). *)
LEMMA ReparentInv ==
  ASSUME ProcInv, SchedInv', NEW c \in Cpus, NEW p \in Procs, Reparent(c, p)
  PROVE  ProcInv'
<1> USE SchedAssumption, ProcAssumption DEF ProcInv, Exiting, Started
<1>1. /\ state[p] = "RUNNING" /\ cpu[c] = p /\ ctx[p] = "live"
      /\ pc[p] = "exit" /\ p # InitProc
      /\ waitlock = NoCpu /\ waitlock' = c
      /\ parent' = [q \in Procs |-> IF parent[q] = p THEN InitProc ELSE parent[q]]
      /\ \/ pc' = [pc EXCEPT ![p] = "adopted"]
         \/ (pc' = [pc EXCEPT ![p] = "farewell"] /\ \A q \in Procs : parent[q] # p)
      /\ UNCHANGED <<state, chan, cpu, ctx, pid, nextpid, scan, child, asked, strays>>
  BY LiveRuns DEF Reparent, At, Goto, AcquireWaitLock, Children, schedVars
<1>2. \A r \in Procs : ~Inside(r)
  BY <1>1, NobodyInside
<1>3. child[p] = NoProc
  BY <1>1 DEF ForksOwned
<1>4. TypeOK'
  BY <1>1 DEF TypeOK, SchedInv, Phases
<1>5. PlacesInv'
  BY <1>1 DEF PlacesInv, TypeOK, SchedTypeOK
<1>6. WaitLockHeld'
  BY <1>1, <1>2 DEF WaitLockHeld, TypeOK, SchedTypeOK, Inside
<1>7. ForksOwned'
  BY <1>1, <1>3 DEF ForksOwned, TypeOK, SchedTypeOK
<1>8. PidsInv'
  BY <1>1 DEF PidsInv, TypeOK, SchedTypeOK
<1>9. TreeInv'
  BY <1>1, <1>3 DEF TreeInv, TypeOK, SchedTypeOK, PlacesInv
<1>10. ZombiesSeen'
  <2>1. ASSUME NEW q \in Procs, state[q] = "ZOMBIE", parent'[q] # NoProc
        PROVE  /\ pc'[parent'[q]] \notin {"scan", "nap", "doze"}
               /\ state[parent'[q]] = "SLEEPING" =>
                    parent'[q] = InitProc /\ \E r \in Procs : pc'[r] = "adopted"
    <3>1. CASE parent[q] = p
      <4>1. parent'[q] = InitProc /\ pc'[p] = "adopted"
        BY <1>1, <3>1 DEF TypeOK
      <4>2. pc[InitProc] \notin {"scan", "nap", "doze"}
        BY <1>2 DEF Inside, PlacesInv
      <4> QED BY <1>1, <4>1, <4>2 DEF TypeOK
    <3>2. CASE parent[q] # p
      <4>1. parent'[q] = parent[q] /\ parent[q] \in Procs
        BY <1>1, <2>1, <3>2 DEF TypeOK
      <4>2. pc[parent[q]] \notin {"scan", "nap", "doze"}
        BY <1>2, <4>1, <2>1 DEF Inside, TreeInv, PlacesInv
      <4> QED BY <1>1, <2>1, <4>1, <4>2 DEF ZombiesSeen, TypeOK
    <3> QED BY <3>1, <3>2
  <2>2. \A r \in Procs : ~(pc'[r] = "die" /\ Inside(r)')
    BY <1>1, <1>2 DEF Inside, TypeOK
  <2> QED BY <1>1, <2>1, <2>2 DEF ZombiesSeen
<1> QED BY <1>4, <1>5, <1>6, <1>7, <1>8, <1>9, <1>10

LEMMA WakeInitInv ==
  ASSUME ProcInv, SchedInv', NEW c \in Cpus, NEW p \in Procs, WakeInit(c, p)
  PROVE  ProcInv'
<1> USE SchedAssumption, ProcAssumption DEF ProcInv, Exiting, Started, Inside
<1>1. /\ state[p] = "RUNNING" /\ cpu[c] = p /\ ctx[p] = "live"
      /\ pc[p] = "adopted" /\ pc' = [pc EXCEPT ![p] = "farewell"]
      /\ \A q \in Procs : state'[q] = state[q] \/ (state[q] = "SLEEPING" /\ state'[q] = "RUNNABLE")
      /\ state[InitProc] = "SLEEPING" => state'[InitProc] = "RUNNABLE"
      /\ UNCHANGED <<chan, cpu, ctx, pid, parent, nextpid, waitlock, scan, child, asked, strays>>
  BY LiveRuns DEF WakeInit, At, Goto, WakeOne, PlacesInv, TypeOK, SchedTypeOK
<1>2. TypeOK'
  BY <1>1 DEF TypeOK, SchedInv, Phases
<1>3. PlacesInv'
  BY <1>1 DEF PlacesInv, TypeOK, SchedTypeOK
<1>4. WaitLockHeld'
  BY <1>1 DEF WaitLockHeld, TypeOK, SchedTypeOK
<1>5. ForksOwned'
  BY <1>1 DEF ForksOwned, TypeOK, SchedTypeOK
<1>6. PidsInv'
  BY <1>1 DEF PidsInv, TypeOK, SchedTypeOK
<1>7. TreeInv'
  BY <1>1 DEF TreeInv, TypeOK, SchedTypeOK
<1>8. ZombiesSeen'
  BY <1>1 DEF ZombiesSeen, TypeOK, SchedTypeOK
<1> QED BY <1>2, <1>3, <1>4, <1>5, <1>6, <1>7, <1>8

LEMMA WakeParentInv ==
  ASSUME ProcInv, SchedInv', NEW c \in Cpus, NEW p \in Procs, WakeParent(c, p)
  PROVE  ProcInv'
<1> USE SchedAssumption, ProcAssumption DEF ProcInv, Exiting, Started, Inside
<1>0. parent[p] \in Procs
  BY ParentIsThere DEF WakeParent, At
<1>1. /\ state[p] = "RUNNING" /\ cpu[c] = p /\ ctx[p] = "live"
      /\ pc[p] = "farewell" /\ pc' = [pc EXCEPT ![p] = "die"]
      /\ \A q \in Procs : state'[q] = state[q] \/ (state[q] = "SLEEPING" /\ state'[q] = "RUNNABLE")
      /\ state[parent[p]] = "SLEEPING" => state'[parent[p]] = "RUNNABLE"
      /\ UNCHANGED <<chan, cpu, ctx, pid, parent, nextpid, waitlock, scan, child, asked, strays>>
  BY <1>0, LiveRuns DEF WakeParent, At, Goto, WakeOne, PlacesInv, TypeOK, SchedTypeOK
<1>2. TypeOK'
  BY <1>1 DEF TypeOK, SchedInv, Phases
<1>3. PlacesInv'
  BY <1>1 DEF PlacesInv, TypeOK, SchedTypeOK
<1>4. WaitLockHeld'
  BY <1>1 DEF WaitLockHeld, TypeOK, SchedTypeOK
<1>5. ForksOwned'
  BY <1>1 DEF ForksOwned, TypeOK, SchedTypeOK
<1>6. PidsInv'
  BY <1>1 DEF PidsInv, TypeOK, SchedTypeOK
<1>7. TreeInv'
  BY <1>1 DEF TreeInv, TypeOK, SchedTypeOK
<1>8. ZombiesSeen'
  BY <1>0, <1>1 DEF ZombiesSeen, TypeOK, SchedTypeOK
<1> QED BY <1>2, <1>3, <1>4, <1>5, <1>6, <1>7, <1>8

LEMMA DieInv ==
  ASSUME ProcInv, SchedInv', NEW c \in Cpus, NEW p \in Procs, Die(c, p)
  PROVE  ProcInv'
<1> USE SchedAssumption, ProcAssumption DEF ProcInv, Exiting, Started
<1>1. /\ state[p] = "RUNNING" /\ cpu[c] = p /\ ctx[p] = "live" /\ pc[p] = "die"
      /\ state' = [state EXCEPT ![p] = "ZOMBIE"] /\ ctx' = [ctx EXCEPT ![p] = "exit"]
      /\ waitlock' = NoCpu
      /\ UNCHANGED <<chan, cpu, pid, parent, nextpid, scan, child, pc, asked, strays>>
  BY LiveRuns DEF Die, At, ReleaseWaitLock, ExitEnter, Leave
<1>2. \A r \in Procs : Inside(r) <=> r = p
  BY <1>1, OneInside DEF Inside, Live
<1>3. /\ child[p] = NoProc /\ p # InitProc
      /\ \A q \in Procs : parent[q] # p
  BY <1>1 DEF ForksOwned, TreeInv, PlacesInv
<1>4. TypeOK'
  BY <1>1 DEF TypeOK, SchedInv
<1>5. PlacesInv'
  BY <1>1, <1>3 DEF PlacesInv, TypeOK, SchedTypeOK
<1>6. WaitLockHeld'
  BY <1>1, <1>2 DEF WaitLockHeld, TypeOK, SchedTypeOK, Inside
<1>7. ForksOwned'
  BY <1>1, <1>3 DEF ForksOwned, TypeOK, SchedTypeOK
<1>8. PidsInv'
  BY <1>1 DEF PidsInv, TypeOK, SchedTypeOK
<1>9. TreeInv'
  BY <1>1, <1>3 DEF TreeInv, TypeOK, SchedTypeOK
<1>10. ZombiesSeen'
  <2>1. \A r \in Procs : ~Inside(r)'
    BY <1>1, <1>2 DEF Inside, TypeOK, SchedTypeOK
  <2>2. parent[p] # NoProc => parent[p] \in Procs /\ state[parent[p]] # "SLEEPING"
    BY <1>1, <1>2 DEF ZombiesSeen, TypeOK
  <2>3. parent[p] # NoProc => pc[parent[p]] \notin {"scan", "nap", "doze"}
    BY <1>2, <1>3, <2>2 DEF TreeInv, PlacesInv, Inside
  <2>4. \A q \in Procs : q # p /\ state[q] = "ZOMBIE" => state'[q] = "ZOMBIE"
    BY <1>1
  <2> QED BY <1>1, <1>3, <2>1, <2>2, <2>3 DEF ZombiesSeen, TypeOK, SchedTypeOK
<1> QED BY <1>4, <1>5, <1>6, <1>7, <1>8, <1>9, <1>10

-----------------------------------------------------------------------------
(* The steps of kwait(). *)
LEMMA WaitLockInv ==
  ASSUME ProcInv, SchedInv', NEW c \in Cpus, NEW p \in Procs, WaitLock(c, p)
  PROVE  ProcInv'
<1> USE SchedAssumption, ProcAssumption DEF ProcInv, Exiting, Started
<1>1. /\ state[p] = "RUNNING" /\ cpu[c] = p /\ ctx[p] = "live"
      /\ pc[p] = "wait" /\ pc' = [pc EXCEPT ![p] = "scan"]
      /\ waitlock = NoCpu /\ waitlock' = c
      /\ scan' = {q \in Procs : parent[q] = p}
      /\ UNCHANGED <<state, chan, cpu, ctx, pid, parent, nextpid, child, asked, strays>>
  BY LiveRuns DEF WaitLock, At, Goto, AcquireWaitLock, Children, schedVars
<1>2. \A r \in Procs : ~Inside(r)
  BY <1>1, NobodyInside
<1>3. TypeOK'
  BY <1>1 DEF TypeOK, SchedInv, Phases
<1>4. PlacesInv'
  BY <1>1 DEF PlacesInv, TypeOK, SchedTypeOK
<1>5. WaitLockHeld'
  BY <1>1, <1>2 DEF WaitLockHeld, TypeOK, SchedTypeOK, Inside
<1>6. ForksOwned'
  BY <1>1 DEF ForksOwned, TypeOK, SchedTypeOK
<1>7. PidsInv'
  BY <1>1 DEF PidsInv, TypeOK, SchedTypeOK
<1>8. TreeInv'
  BY <1>1 DEF TreeInv, TypeOK, SchedTypeOK
<1>9. ZombiesSeen'
  <2>1. \A q \in Procs : pc'[q] # "scan" \/ q = p \/ state[q] \in {"ZOMBIE", "UNUSED"}
    BY <1>1, <1>2 DEF Inside, TypeOK
  <2>2. \A q \in Procs : state[q] = "ZOMBIE" /\ parent[q] # NoProc =>
          parent[q] \in Procs /\ state[parent[q]] \notin {"ZOMBIE", "UNUSED"}
    BY DEF TreeInv, PlacesInv, TypeOK
  <2> QED BY <1>1, <2>1, <2>2 DEF ZombiesSeen, TypeOK, Inside
<1> QED BY <1>3, <1>4, <1>5, <1>6, <1>7, <1>8, <1>9

LEMMA PassOverInv ==
  ASSUME ProcInv, SchedInv', NEW c \in Cpus, NEW p \in Procs, NEW q \in Procs,
         PassOver(c, p, q)
  PROVE  ProcInv'
<1> USE SchedAssumption, ProcAssumption DEF ProcInv, Exiting, Started, Inside
<1>1. /\ state[q] # "ZOMBIE" /\ scan' = scan \ {q}
      /\ UNCHANGED <<state, chan, cpu, ctx, pid, parent, nextpid, waitlock, child, pc, asked, strays>>
  BY DEF PassOver, schedVars
<1>2. TypeOK'
  BY <1>1 DEF TypeOK, SchedInv
<1>3. PlacesInv' /\ WaitLockHeld' /\ ForksOwned' /\ PidsInv' /\ TreeInv'
  BY <1>1 DEF PlacesInv, WaitLockHeld, ForksOwned, PidsInv, TreeInv
<1>4. ZombiesSeen'
  BY <1>1 DEF ZombiesSeen
<1> QED BY <1>2, <1>3, <1>4

(* kwait() returns: a zombie is freed, stays, or there is none to wait for. *)
LEMMA WaitEndsInv ==
  ASSUME ProcInv, SchedInv', NEW c \in Cpus, NEW p \in Procs, Live(c, p),
         pc[p] = "scan", pc' = [pc EXCEPT ![p] = "return"],
         waitlock' = NoCpu, scan' \subseteq Procs,
         UNCHANGED <<state, chan, cpu, ctx, pid, parent, nextpid, child, asked, strays>>
  PROVE  ProcInv'
<1> USE SchedAssumption, ProcAssumption DEF ProcInv, Exiting, Started
<1>1. state[p] = "RUNNING" /\ cpu[c] = p /\ ctx[p] = "live"
  BY LiveRuns
<1>2. \A r \in Procs : Inside(r) <=> r = p
  BY <1>1, OneInside DEF Inside
<1>3. \A r \in Procs : ~Inside(r)'
  BY <1>2 DEF Inside, TypeOK
<1>4. TypeOK'
  BY DEF TypeOK, SchedInv, Phases
<1>5. PlacesInv'
  BY <1>1 DEF PlacesInv, TypeOK, SchedTypeOK
<1>6. WaitLockHeld'
  BY <1>3 DEF WaitLockHeld
<1>7. ForksOwned'
  BY DEF ForksOwned, TypeOK, SchedTypeOK
<1>8. PidsInv'
  BY DEF PidsInv, TypeOK, SchedTypeOK
<1>9. TreeInv'
  BY DEF TreeInv, TypeOK, SchedTypeOK
<1>10. ZombiesSeen'
  <2>1. \A q \in Procs : state[q] = "ZOMBIE" /\ parent[q] # NoProc =>
          parent[q] \in Procs /\ state[parent[q]] \notin {"ZOMBIE", "UNUSED"}
    BY DEF TreeInv, PlacesInv, TypeOK
  <2>2. \A q \in Procs : pc'[q] # "scan" \/ state[q] \in {"ZOMBIE", "UNUSED"}
    BY <1>3 DEF Inside
  <2> QED BY <1>1, <1>3, <2>1, <2>2 DEF ZombiesSeen, TypeOK
<1> QED BY <1>4, <1>5, <1>6, <1>7, <1>8, <1>9, <1>10

LEMMA ReapInv ==
  ASSUME ProcInv, SchedInv', NEW c \in Cpus, NEW p \in Procs, NEW q \in Procs,
         Reap(c, p, q)
  PROVE  ProcInv'
<1> USE SchedAssumption, ProcAssumption DEF ProcInv, Exiting, Started
<1>1. /\ state[p] = "RUNNING" /\ cpu[c] = p /\ ctx[p] = "live"
      /\ pc[p] = "scan" /\ pc' = [pc EXCEPT ![p] = "return"]
      /\ state[q] = "ZOMBIE" /\ state' = [state EXCEPT ![q] = "UNUSED"]
      /\ chan' = [chan EXCEPT ![q] = NoChan]
      /\ pid' = [pid EXCEPT ![q] = 0] /\ parent' = [parent EXCEPT ![q] = NoProc]
      /\ waitlock' = NoCpu /\ scan' = {}
      /\ UNCHANGED <<cpu, ctx, nextpid, child, asked>> /\ strays' = strays \ {q}
  BY LiveRuns DEF Reap, At, Goto, ReleaseWaitLock, FreeSlot
<1>2. \A r \in Procs : Inside(r) <=> r = p
  BY <1>1, OneInside DEF Inside, Live
<1>3. \A r \in Procs : ~Inside(r)'
  BY <1>1, <1>2 DEF Inside, TypeOK, SchedTypeOK
<1>4. /\ p # q /\ q # InitProc /\ pc[q] = "die" /\ ctx[q] = "exit" /\ child[q] = NoProc
      /\ \A r \in Procs : child[r] # q
      /\ \A r \in Procs : parent[r] # q
  BY <1>1 DEF PlacesInv, ForksOwned, TreeInv
<1>5. TypeOK'
  BY <1>1 DEF TypeOK, SchedInv, Phases
<1>6. PlacesInv'
  BY <1>1, <1>4 DEF PlacesInv, TypeOK, SchedTypeOK
<1>7. WaitLockHeld'
  BY <1>1, <1>3 DEF WaitLockHeld
<1>8. ForksOwned'
  BY <1>1, <1>4 DEF ForksOwned, TypeOK, SchedTypeOK
<1>9. PidsInv'
  BY <1>1 DEF PidsInv, TypeOK, SchedTypeOK
<1>10. TreeInv'
  BY <1>1, <1>4 DEF TreeInv, TypeOK, SchedTypeOK
<1>11. ZombiesSeen'
  <2>1. \A r \in Procs : state'[r] = "ZOMBIE" /\ parent'[r] # NoProc =>
          /\ state[r] = "ZOMBIE" /\ parent'[r] = parent[r] /\ parent[r] # NoProc
          /\ parent[r] \in Procs /\ parent[r] # q
          /\ state[parent[r]] \notin {"ZOMBIE", "UNUSED"}
          /\ state'[parent[r]] = state[parent[r]]
    BY <1>1, <1>4 DEF TreeInv, PlacesInv, TypeOK, SchedTypeOK
  <2>2. \A r \in Procs : pc'[r] # "scan" \/ state[r] \in {"ZOMBIE", "UNUSED"}
    BY <1>1, <1>2 DEF Inside, TypeOK
  <2>3. \A r \in Procs : pc[r] = "adopted" => pc'[r] = "adopted"
    BY <1>1 DEF TypeOK
  <2> QED BY <1>1, <1>3, <2>1, <2>2, <2>3 DEF ZombiesSeen, TypeOK
<1> QED BY <1>5, <1>6, <1>7, <1>8, <1>9, <1>10, <1>11

LEMMA WaitDecidesInv ==
  ASSUME ProcInv, SchedInv', NEW c \in Cpus, NEW p \in Procs, WaitDecides(c, p)
  PROVE  ProcInv'
<1> USE SchedAssumption, ProcAssumption DEF ProcInv, Exiting, Started, Inside
<1>1. /\ state[p] = "RUNNING" /\ cpu[c] = p /\ ctx[p] = "live"
      /\ pc[p] = "scan" /\ pc' = [pc EXCEPT ![p] = "nap"] /\ scan = {}
      /\ UNCHANGED <<state, chan, cpu, ctx, pid, parent, nextpid, waitlock, scan, child, asked, strays>>
  BY LiveRuns DEF WaitDecides, At, Goto, schedVars
<1>2. TypeOK'
  BY <1>1 DEF TypeOK, SchedInv, Phases
<1>3. PlacesInv'
  BY <1>1 DEF PlacesInv, TypeOK, SchedTypeOK
<1>4. WaitLockHeld'
  BY <1>1 DEF WaitLockHeld, TypeOK, SchedTypeOK
<1>5. ForksOwned'
  BY <1>1 DEF ForksOwned, TypeOK, SchedTypeOK
<1>6. PidsInv'
  BY <1>1 DEF PidsInv, TypeOK, SchedTypeOK
<1>7. TreeInv'
  BY <1>1 DEF TreeInv, TypeOK, SchedTypeOK
<1>8. ZombiesSeen'
  BY <1>1 DEF ZombiesSeen, TypeOK, SchedTypeOK
<1> QED BY <1>2, <1>3, <1>4, <1>5, <1>6, <1>7, <1>8

LEMMA NapInv ==
  ASSUME ProcInv, SchedInv', NEW c \in Cpus, NEW p \in Procs, Nap(c, p)
  PROVE  ProcInv'
<1> USE SchedAssumption, ProcAssumption DEF ProcInv, Exiting, Started, Inside
<1>1. /\ state[p] = "RUNNING" /\ cpu[c] = p /\ ctx[p] = "live"
      /\ pc[p] = "nap" /\ pc' = [pc EXCEPT ![p] = "doze"]
      /\ UNCHANGED <<state, chan, cpu, ctx, pid, parent, nextpid, waitlock, scan, child, asked, strays>>
  BY LiveRuns DEF Nap, At, Goto, SleepLockProc
<1>2. TypeOK'
  BY <1>1 DEF TypeOK, SchedInv, Phases
<1>3. PlacesInv'
  BY <1>1 DEF PlacesInv, TypeOK, SchedTypeOK
<1>4. WaitLockHeld'
  BY <1>1 DEF WaitLockHeld, TypeOK, SchedTypeOK
<1>5. ForksOwned'
  BY <1>1 DEF ForksOwned, TypeOK, SchedTypeOK
<1>6. PidsInv'
  BY <1>1 DEF PidsInv, TypeOK, SchedTypeOK
<1>7. TreeInv'
  BY <1>1 DEF TreeInv, TypeOK, SchedTypeOK
<1>8. ZombiesSeen'
  BY <1>1 DEF ZombiesSeen, TypeOK, SchedTypeOK
<1> QED BY <1>2, <1>3, <1>4, <1>5, <1>6, <1>7, <1>8

LEMMA DozeInv ==
  ASSUME ProcInv, SchedInv', NEW c \in Cpus, NEW p \in Procs, Doze(c, p)
  PROVE  ProcInv'
<1> USE SchedAssumption, ProcAssumption DEF ProcInv, Exiting, Started
<1>1. /\ state[p] = "RUNNING" /\ cpu[c] = p /\ ctx[p] = "live"
      /\ pc[p] = "doze" /\ pc' = [pc EXCEPT ![p] = "asleep"]
      /\ state' = [state EXCEPT ![p] = "SLEEPING"] /\ ctx' = [ctx EXCEPT ![p] = "sleep"]
      /\ chan' = [chan EXCEPT ![p] = p] /\ waitlock' = NoCpu
      /\ UNCHANGED <<cpu, pid, parent, nextpid, scan, child, asked, strays>>
  BY LiveRuns DEF Doze, At, Goto, ReleaseWaitLock, SleepEnter, Leave
<1>2. \A r \in Procs : Inside(r) <=> r = p
  BY <1>1, OneInside DEF Inside, Live
<1>3. \A r \in Procs : ~Inside(r)'
  BY <1>1, <1>2 DEF Inside, TypeOK, SchedTypeOK
<1>4. TypeOK'
  BY <1>1 DEF TypeOK, SchedInv, Phases
<1>5. PlacesInv'
  BY <1>1 DEF PlacesInv, TypeOK, SchedTypeOK
<1>6. WaitLockHeld'
  BY <1>1, <1>3 DEF WaitLockHeld
<1>7. ForksOwned'
  BY <1>1 DEF ForksOwned, TypeOK, SchedTypeOK
<1>8. PidsInv'
  BY <1>1 DEF PidsInv, TypeOK, SchedTypeOK
<1>9. TreeInv'
  BY <1>1 DEF TreeInv, TypeOK, SchedTypeOK
<1>10. ZombiesSeen'
  BY <1>1, <1>3 DEF ZombiesSeen, TypeOK, SchedTypeOK
<1> QED BY <1>4, <1>5, <1>6, <1>7, <1>8, <1>9, <1>10

LEMMA AwakeInv ==
  ASSUME ProcInv, SchedInv', NEW c \in Cpus, NEW p \in Procs, Awake(c, p)
  PROVE  ProcInv'
<1> USE SchedAssumption, ProcAssumption DEF ProcInv, Exiting, Started, Inside
<1>1. /\ state[p] = "RUNNING" /\ cpu[c] = p /\ ctx[p] = "sleep"
      /\ pc[p] = "asleep" /\ pc' = [pc EXCEPT ![p] = "wait"]
      /\ ctx' = [ctx EXCEPT ![p] = "live"] /\ chan' = [chan EXCEPT ![p] = NoChan]
      /\ UNCHANGED <<state, cpu, pid, parent, nextpid, waitlock, scan, child, asked, strays>>
  BY DEF Awake, SleepRet, Return, Goto, PlacesInv
<1>2. TypeOK'
  BY <1>1 DEF TypeOK, SchedInv, Phases
<1>3. PlacesInv'
  BY <1>1 DEF PlacesInv, TypeOK, SchedTypeOK
<1>4. WaitLockHeld'
  BY <1>1 DEF WaitLockHeld, TypeOK, SchedTypeOK
<1>5. ForksOwned'
  BY <1>1 DEF ForksOwned, TypeOK, SchedTypeOK
<1>6. PidsInv'
  BY <1>1 DEF PidsInv, TypeOK, SchedTypeOK
<1>7. TreeInv'
  BY <1>1 DEF TreeInv, TypeOK, SchedTypeOK
<1>8. ZombiesSeen'
  BY <1>1 DEF ZombiesSeen, TypeOK, SchedTypeOK
<1> QED BY <1>2, <1>3, <1>4, <1>5, <1>6, <1>7, <1>8

-----------------------------------------------------------------------------
LEMMA ProcNextInv == ProcInv /\ [Next]_vars => ProcInv'
<1> SUFFICES ASSUME ProcInv, [Next]_vars PROVE ProcInv'
  OBVIOUS
<1>1. SchedInv'
  BY StepIsSchedStep, SchedNextInv DEF ProcInv
<1>2. CASE UNCHANGED vars
  BY <1>1, <1>2 DEF vars, schedVars, procVars, ProcInv, TypeOK, SchedTypeOK, PlacesInv, Exiting,
     Inside, WaitLockHeld, ForksOwned, PidsInv, TreeInv, Started, ZombiesSeen
<1>3. ASSUME NEW c \in Cpus, NEW p \in Procs, Work(c, p)
      PROVE  ProcInv'
  <2>1. CASE Interrupt(c, p) \/ OtherCall(c, p) \/ ReturnToUser(c, p)
    BY <1>1, <2>1, PlainInv DEF Interrupt, OtherCall, ReturnToUser, At, Goto, schedVars,
       ProcInv, TypeOK
  <2>2. CASE ForkParent(c, p) \/ ForkStart(c, p)
    BY <1>1, <2>2, ForkParentInv, ForkStartInv
  <2>3. CASE Reparent(c, p) \/ WakeInit(c, p) \/ WakeParent(c, p) \/ Die(c, p)
    BY <1>1, <2>3, ReparentInv, WakeInitInv, WakeParentInv, DieInv
  <2>4. CASE WaitLock(c, p) \/ WaitDecides(c, p)
    BY <1>1, <2>4, WaitLockInv, WaitDecidesInv
  <2>5. CASE WaitFails(c, p)
    BY <1>1, <2>5, WaitEndsInv DEF WaitFails, At, Goto, ReleaseWaitLock, schedVars,
       ProcInv, TypeOK
  <2>6. CASE \E q \in Procs : PassOver(c, p, q) \/ Reap(c, p, q)
    BY <1>1, <2>6, PassOverInv, ReapInv
  <2>7. CASE Nap(c, p) \/ Doze(c, p) \/ Awake(c, p)
    BY <1>1, <2>7, NapInv, DozeInv, AwakeInv
  <2> QED BY <1>3, <2>1, <2>2, <2>3, <2>4, <2>5, <2>6, <2>7 DEF Work
<1>4. ASSUME NEW c \in Cpus, NEW p \in Procs, Request(c, p)
      PROVE  ProcInv'
  <2>1. CASE Syscall(c, p) \/ ExitCall(c, p) \/ WaitCall(c, p)
    BY <1>1, <2>1, PlainInv DEF Syscall, ExitCall, WaitCall, At, Goto, schedVars,
       ProcInv, TypeOK
  <2>2. ASSUME NEW q \in Procs, KillOne(q)
        PROVE  /\ \A r \in Procs : state'[r] = state[r] \/ (state[r] = "SLEEPING" /\ state'[r] = "RUNNABLE")
               /\ UNCHANGED <<chan, cpu, ctx>>
    BY <2>2 DEF KillOne, ProcInv, TypeOK, SchedTypeOK
  <2>3. CASE Fault(c, p)
    <3>1. asked' \subseteq 0 .. MaxPid /\ strays' \subseteq Procs /\ At(c, p, "user") /\ pc' = [pc EXCEPT ![p] = "return"]
          /\ UNCHANGED <<pid, parent, nextpid, waitlock, scan, child>>
      BY <2>3 DEF Fault, ProcInv, TypeOK, Goto
    <3> QED BY <1>1, <2>2, <2>3, <3>1, PlainInv DEF Fault, At
  <2>4. ASSUME NEW q \in Procs, NEW n \in KillArgs, Kill(c, p, n, q)
        PROVE  ProcInv'
    <3>1. asked' \subseteq 0 .. MaxPid /\ strays' \subseteq Procs /\ At(c, p, "kernel") /\ pc' = [pc EXCEPT ![p] = "return"]
          /\ UNCHANGED <<pid, parent, nextpid, waitlock, scan, child>>
      BY <2>4, ProcAssumption DEF Kill, ProcInv, TypeOK, Goto
    <3> QED BY <1>1, <2>2, <2>4, <3>1, PlainInv DEF Kill, At
  <2>5. ASSUME NEW q \in Procs, Fork(c, p, q) \/ ForkNoMemory(c, p, q)
        PROVE  ProcInv'
    BY <1>1, <2>5, ForkInv, ForkNoMemoryInv
  <2>6. ASSUME NEW q \in Procs, ReapNoCopy(c, p, q)
        PROVE  ProcInv'
    BY <1>1, <2>6, WaitEndsInv DEF ReapNoCopy, At, Goto, ReleaseWaitLock, schedVars
  <2> QED BY <1>4, <2>1, <2>3, <2>4, <2>5, <2>6 DEF Request
<1> QED BY <1>1, <1>2, <1>3, <1>4, SwitchesInv DEF Next

-----------------------------------------------------------------------------
(***************************************************************************)
(* ProcInv is an invariant: the strengthening the theorems below rest on.  *)
(***************************************************************************)
THEOREM ProcInvariant == Spec => []ProcInv
BY ProcInitInv, ProcNextInv, PTL DEF Spec

(***************************************************************************)
(* The process table under its real callers, fork(), exit(), wait() and    *)
(* kill(): a zombie that wait() frees has left its kernel stack, and no    *)
(* stack is in use twice, as with the most general callers.                *)
(***************************************************************************)
THEOREM TableIsSafe == Spec => [](OneCpuPerStack /\ NoFreedStack /\ SchedAsserts)
<1>1. ProcInv => OneCpuPerStack /\ NoFreedStack /\ SchedAsserts
  BY DEF ProcInv, SchedInv
<1> QED BY <1>1, ProcInvariant, PTL

(***************************************************************************)
(* allocpid() and freeproc() keep pids unique among the slots in use, so   *)
(* kill() by pid reaches at most one process.                              *)
(***************************************************************************)
THEOREM PidsAreUnique == Spec => []PidsInUse
<1>1. ProcInv => PidsInUse
  BY DEF ProcInv, PidsInv, PidsInUse
<1> QED BY <1>1, ProcInvariant, PTL

(***************************************************************************)
(* Started processes have a living parent, through all the interleavings   *)
(* of kfork(), reparent() and kwait().                                     *)
(***************************************************************************)
THEOREM TreeIsSound == Spec => []FamilyTree
<1>1. ASSUME ProcInv, NEW q \in Procs, Started(q), q # InitProc
      PROVE  parent[q] # NoProc /\ Started(parent[q]) /\ state[parent[q]] # "ZOMBIE" /\ parent[q] # q
  <2>1. parent[q] \in Procs /\ Started(parent[q]) /\ ~Exiting(parent[q]) /\ parent[q] # q
    BY <1>1 DEF ProcInv, TypeOK, TreeInv
  <2> QED BY <1>1, <2>1, SchedAssumption DEF ProcInv, PlacesInv, Exiting
<1>2. ASSUME ProcInv, NEW q \in Procs, state[q] = "UNUSED"
      PROVE  parent[q] = NoProc
  <2>1. SUFFICES ASSUME parent[q] # NoProc PROVE FALSE
    OBVIOUS
  <2>2. parent[q] \in Procs /\ child[parent[q]] = q
    BY <1>2, <2>1 DEF ProcInv, TypeOK, TreeInv, Started
  <2> QED BY <1>2, <2>2, SchedAssumption DEF ProcInv, ForksOwned
<1>3. ProcInv => FamilyTree
  BY <1>1, <1>2 DEF FamilyTree
<1> QED BY <1>3, ProcInvariant, PTL

(***************************************************************************)
(* No exit is missed by a parent in wait(): the wakeup() of kexit() comes  *)
(* before the process is a ZOMBIE, and wait_lock makes up for it.          *)
(***************************************************************************)
THEOREM NoZombieIsMissed == Spec => []NoSleepOverZombie
<1>1. ProcInv => NoSleepOverZombie
  BY DEF ProcInv, ZombiesSeen, NoSleepOverZombie
<1> QED BY <1>1, ProcInvariant, PTL

-----------------------------------------------------------------------------
(* Only kill(0) marks a free slot, and no other mark outlives its process  *)
(* or is set without being asked for.                                      *)
MarksInv ==
  \A p \in Procs :
    killed[p] => p \in strays \/ (state[p] # "UNUSED" /\ pid[p] \in asked)

LEMMA MarksNextInv ==
  ASSUME ProcInv, MarksInv, [Next]_vars
  PROVE  MarksInv'
<1> USE SchedAssumption, ProcAssumption
<1>0. ProcInv'
  BY ProcNextInv
<1>1. CASE UNCHANGED <<killed, pid, asked, strays>>
  <2>1. \A p \in Procs : state[p] # "UNUSED" => state'[p] # "UNUSED"
    BY <1>0, <1>1 DEF ProcInv, PidsInv
  <2> QED BY <1>1, <2>1 DEF MarksInv
<1>2. ASSUME NEW q \in Procs, KillOne(q), asked' = asked \cup {pid[q]},
             strays \subseteq strays', pid[q] = 0 => q \in strays', UNCHANGED pid
      PROVE  MarksInv'
  <2>1. pid[q] # 0 => state[q] # "UNUSED"
    BY DEF ProcInv, PidsInv
  <2>2. \A p \in Procs : state[p] # "UNUSED" => state'[p] # "UNUSED"
    BY <1>2 DEF KillOne, ProcInv, TypeOK, SchedTypeOK
  <2>3. \A p \in Procs : killed'[p] => killed[p] \/ p = q
    BY <1>2 DEF KillOne, ProcInv, TypeOK, SchedTypeOK
  <2> QED BY <1>2, <2>1, <2>2, <2>3 DEF MarksInv
<1>3. ASSUME NEW c \in Cpus, NEW p \in Procs, NEW q \in Procs, Fork(c, p, q)
      PROVE  MarksInv'
  <2>1. (killed[q] => q \in strays) /\ UNCHANGED <<killed, strays>>
    BY <1>3 DEF Fork, AllocSlot, MarksInv
  <2>2. \A r \in Procs : r # q => pid'[r] = pid[r] /\ state'[r] = state[r]
    BY <1>3 DEF Fork, AllocSlot, ProcInv, TypeOK, SchedTypeOK
  <2>3. asked' = asked
    BY <1>3 DEF Fork
  <2> QED BY <2>1, <2>2, <2>3 DEF MarksInv
<1>4. ASSUME NEW c \in Cpus, NEW p \in Procs, NEW q \in Procs,
             ForkNoMemory(c, p, q) \/ Reap(c, p, q)
      PROVE  MarksInv'
  <2>1. \A r \in Procs : killed'[r] => killed[r] /\ r # q
    BY <1>4 DEF ForkNoMemory, AbortSlot, Reap, FreeSlot, ProcInv, TypeOK, SchedTypeOK
  <2>2. \A r \in Procs : r # q => pid'[r] = pid[r] /\ state'[r] = state[r]
    BY <1>4 DEF ForkNoMemory, AbortSlot, Reap, FreeSlot, ProcInv, TypeOK, SchedTypeOK
  <2>3. asked' = asked /\ strays' = strays \ {q}
    BY <1>4 DEF ForkNoMemory, Reap
  <2> QED BY <2>1, <2>2, <2>3 DEF MarksInv
<1>5. CASE UNCHANGED vars
  BY <1>1, <1>5 DEF vars, schedVars, procVars
<1>6. ASSUME NEW c \in Cpus, NEW p \in Procs, Work(c, p)
      PROVE  MarksInv'
  <2>1. CASE \E q \in Procs : Reap(c, p, q)
    BY <1>4, <2>1
  <2>2. CASE \E q \in Procs : PassOver(c, p, q)
    BY <1>1, <2>2 DEF PassOver, schedVars
  <2>3. CASE \/ Interrupt(c, p) \/ OtherCall(c, p) \/ ReturnToUser(c, p)
             \/ ForkParent(c, p) \/ Reparent(c, p)
             \/ WaitLock(c, p) \/ WaitFails(c, p) \/ WaitDecides(c, p)
    BY <1>1, <2>3 DEF Interrupt, OtherCall, ReturnToUser, ForkParent, Reparent, WaitLock,
       WaitFails, WaitDecides, schedVars
  <2>4. CASE ForkStart(c, p) \/ WakeInit(c, p) \/ WakeParent(c, p) \/ Die(c, p)
    BY <1>1, <2>4 DEF ForkStart, StartSlot, WakeInit, WakeParent, WakeOne, Die, ExitEnter
  <2>5. CASE Nap(c, p) \/ Doze(c, p) \/ Awake(c, p)
    BY <1>1, <2>5 DEF Nap, SleepLockProc, Doze, SleepEnter, Awake, SleepRet
  <2> QED BY <1>6, <2>1, <2>2, <2>3, <2>4, <2>5 DEF Work
<1>7. ASSUME NEW c \in Cpus, NEW p \in Procs, Request(c, p)
      PROVE  MarksInv'
  <2>1. CASE Syscall(c, p) \/ ExitCall(c, p) \/ WaitCall(c, p)
    BY <1>1, <2>1 DEF Syscall, ExitCall, WaitCall, schedVars
  <2>2. CASE Fault(c, p)
    <3>1. pid[p] # 0
      BY <2>2 DEF Fault, At, Live, ProcInv, PlacesInv, PidsInv
    <3> QED BY <1>2, <2>2, <3>1 DEF Fault
  <2>3. ASSUME NEW q \in Procs, ReapNoCopy(c, p, q)
        PROVE  MarksInv'
    BY <1>1, <2>3 DEF ReapNoCopy, schedVars
  <2>4. ASSUME NEW q \in Procs, NEW n \in KillArgs, Kill(c, p, n, q)
        PROVE  MarksInv'
    BY <1>2, <2>4 DEF Kill
  <2> QED BY <1>3, <1>4, <1>7, <2>1, <2>2, <2>3, <2>4 DEF Request
<1>8. ASSUME NEW c \in Cpus, NEW p \in Procs, Preempt(c, p) \/ Dispatch(c, p) \/ Switch(c, p)
      PROVE  MarksInv'
  BY <1>1, <1>8 DEF Preempt, YieldEnter, Dispatch, Pick, Switch, Swtch, ForkRet, YieldRet, procVars
<1> QED BY <1>5, <1>6, <1>7, <1>8 DEF Next

(***************************************************************************)
(* A process marked killed faulted or was the target of a kill() by its    *)
(* own pid, not by that of an earlier owner of the slot; or it is the      *)
(* first in a slot that kill(0) marked while it was free.                  *)
(***************************************************************************)
THEOREM KillsWereAsked == Spec => []MarksDieWithProcess
<1>1. Init => MarksInv
  BY DEF Init, SchedInit, MarksInv
<1>2. ProcInv /\ MarksInv /\ [Next]_vars => MarksInv'
  BY MarksNextInv
<1>3. MarksInv => MarksDieWithProcess
  BY DEF MarksInv, MarksDieWithProcess
<1> QED BY <1>1, <1>2, <1>3, ProcInvariant, PTL DEF Spec

-----------------------------------------------------------------------------
(* What kwait() has still to look at are its children. *)
ScanInv == \A p, q \in Procs : pc[p] = "scan" /\ q \in scan => parent[q] = p

LEMMA ScanNextInv ==
  ASSUME ProcInv, ScanInv, [Next]_vars
  PROVE  ScanInv'
<1> USE SchedAssumption, ProcAssumption
<1>1. ASSUME NEW c \in Cpus, NEW p \in Procs, WaitLock(c, p)
      PROVE  ScanInv'
  <2>1. \A r \in Procs : pc[r] # "scan"
    BY <1>1, NobodyInside DEF WaitLock, AcquireWaitLock, Inside, ProcInv, PlacesInv
  <2> QED BY <1>1, <2>1 DEF WaitLock, Goto, Children, ScanInv, ProcInv, TypeOK
<1>2. ASSUME NEW c \in Cpus, NEW p \in Procs, ForkParent(c, p) \/ Reparent(c, p)
      PROVE  ScanInv'
  <2>1. \A r \in Procs : pc[r] # "scan"
    BY <1>2, NobodyInside DEF ForkParent, Reparent, AcquireWaitLock, Inside, ProcInv, PlacesInv
  <2> QED BY <1>2, <2>1 DEF ForkParent, Reparent, Goto, ScanInv, ProcInv, TypeOK
<1>3. ASSUME NEW c \in Cpus, NEW p \in Procs, NEW q \in Procs, Reap(c, p, q)
      PROVE  ScanInv'
  BY <1>3 DEF Reap, ScanInv
<1>4. ASSUME NEW c \in Cpus, NEW p \in Procs, NEW q \in Procs, Fork(c, p, q)
      PROVE  ScanInv'
  BY <1>4 DEF Fork, ScanInv, ProcInv, TypeOK
<1>5. ASSUME UNCHANGED parent, scan' \subseteq scan,
             \A r \in Procs : pc'[r] = "scan" => pc[r] = "scan"
      PROVE  ScanInv'
  BY <1>5 DEF ScanInv
<1>6. CASE UNCHANGED vars
  BY <1>5, <1>6 DEF vars, procVars
<1>7. ASSUME NEW c \in Cpus, NEW p \in Procs, Work(c, p)
      PROVE  ScanInv'
  <2>1. CASE Interrupt(c, p) \/ OtherCall(c, p) \/ ReturnToUser(c, p)
    BY <1>5, <2>1 DEF Interrupt, OtherCall, ReturnToUser, Goto, ProcInv, TypeOK
  <2>2. CASE ForkStart(c, p) \/ WakeInit(c, p) \/ WakeParent(c, p) \/ Die(c, p)
    BY <1>5, <2>2 DEF ForkStart, WakeInit, WakeParent, Die, Goto, ProcInv, TypeOK
  <2>3. CASE WaitFails(c, p) \/ WaitDecides(c, p) \/ Nap(c, p) \/ Doze(c, p) \/ Awake(c, p)
    BY <1>5, <2>3 DEF WaitFails, WaitDecides, Nap, Doze, Awake, Goto, ProcInv, TypeOK
  <2>4. CASE \E q \in Procs : PassOver(c, p, q)
    BY <1>5, <2>4 DEF PassOver
  <2> QED BY <1>1, <1>2, <1>3, <1>7, <2>1, <2>2, <2>3, <2>4 DEF Work
<1>8. ASSUME NEW c \in Cpus, NEW p \in Procs, Request(c, p)
      PROVE  ScanInv'
  <2>1. CASE Syscall(c, p) \/ Fault(c, p) \/ ExitCall(c, p) \/ WaitCall(c, p)
    BY <1>5, <2>1 DEF Syscall, Fault, ExitCall, WaitCall, Goto, ProcInv, TypeOK
  <2>2. ASSUME NEW q \in Procs, ForkNoMemory(c, p, q) \/ ReapNoCopy(c, p, q)
        PROVE  ScanInv'
    BY <1>5, <2>2 DEF ForkNoMemory, ReapNoCopy, Goto, ProcInv, TypeOK
  <2>3. ASSUME NEW q \in Procs, NEW n \in KillArgs, Kill(c, p, n, q)
        PROVE  ScanInv'
    BY <1>5, <2>3 DEF Kill, Goto, ProcInv, TypeOK
  <2> QED BY <1>4, <1>8, <2>1, <2>2, <2>3 DEF Request
<1>9. ASSUME NEW c \in Cpus, NEW p \in Procs, Preempt(c, p) \/ Dispatch(c, p) \/ Switch(c, p)
      PROVE  ScanInv'
  BY <1>5, <1>9 DEF Preempt, Dispatch, Switch, procVars
<1> QED BY <1>6, <1>7, <1>8, <1>9 DEF Next

-----------------------------------------------------------------------------
(* What the refinement shows of a slot. *)
Status(p) == IF ~Started(p) THEN "free" ELSE IF Exiting(p) THEN "dead" ELSE "alive"
ParentOf(p) == IF Started(p) THEN parent[p] ELSE NoProc

(* A step that changes neither is one Family does not see. *)
LEMMA FamilyStutters ==
  ASSUME \A q \in Procs : Status(q)' = Status(q) /\ ParentOf(q)' = ParentOf(q)
  PROVE  UNCHANGED Promise!familyVars
BY DEF Promise!familyVars, Status, ParentOf

LEMMA InitIsFamilyInit ==
  ASSUME Init PROVE Promise!FamilyInit
BY SchedAssumption, ProcAssumption
   DEF Init, SchedInit, Promise!FamilyInit, Started, Exiting

(* fork() takes effect when the child becomes RUNNABLE. *)
LEMMA ForkStartForks ==
  ASSUME ProcInv, NEW c \in Cpus, NEW p \in Procs, ForkStart(c, p)
  PROVE  Promise!FamilyNext
<1> USE SchedAssumption, ProcAssumption DEF ProcInv, Exiting, Started
<1>0. PICK q \in Procs :
        q = child[p] /\ p # q /\ parent[q] = p /\ state[q] = "USED" /\ pc[q] = "user"
  BY ChildIsThere DEF ForkStart, At
<1>1. /\ state[p] = "RUNNING" /\ pc[p] = "start"
      /\ state' = [state EXCEPT ![q] = "RUNNABLE"]
      /\ pc' = [pc EXCEPT ![p] = "return"] /\ parent' = parent
  BY <1>0, LiveRuns DEF ForkStart, StartSlot, At, Goto
<1> USE <1>0
<1>2. Status(p) = "alive" /\ Status(q) = "free"
  BY <1>1 DEF Status
<1>3. \A r \in Procs : Status(r)' = IF r = q THEN "alive" ELSE Status(r)
  BY <1>1 DEF Status, TypeOK, SchedTypeOK
<1>4. \A r \in Procs : ParentOf(r)' = IF r = q THEN p ELSE ParentOf(r)
  BY <1>1 DEF ParentOf, TypeOK, SchedTypeOK
<1> HIDE DEF ProcInv, Exiting, Started
<1>5. Promise!Fork(p, q)
  BY <1>2, <1>3, <1>4 DEF Promise!Fork, Status, ParentOf
<1> QED BY <1>5 DEF Promise!FamilyNext

(* exit() takes effect when the children are given away. *)
LEMMA ReparentExits ==
  ASSUME ProcInv, NEW c \in Cpus, NEW p \in Procs, Reparent(c, p)
  PROVE  Promise!FamilyNext
<1> USE SchedAssumption, ProcAssumption DEF ProcInv, Exiting, Started
<1>1. /\ state[p] = "RUNNING" /\ pc[p] = "exit" /\ p # InitProc /\ state' = state
      /\ parent' = [q \in Procs |-> IF parent[q] = p THEN InitProc ELSE parent[q]]
      /\ pc' = [pc EXCEPT ![p] = "adopted"] \/ pc' = [pc EXCEPT ![p] = "farewell"]
  BY LiveRuns DEF Reparent, At, Goto, schedVars
<1>2. Status(p) = "alive"
  BY <1>1 DEF Status
<1>3. \A r \in Procs : Status(r)' = IF r = p THEN "dead" ELSE Status(r)
  BY <1>1 DEF Status, TypeOK
<1>4. \A r \in Procs : ParentOf(r)' = IF ParentOf(r) = p THEN InitProc ELSE ParentOf(r)
  BY <1>1 DEF ParentOf, TypeOK
<1> HIDE DEF ProcInv, Exiting, Started
<1>5. Promise!Exit(p)
  BY <1>1, <1>2, <1>3, <1>4 DEF Promise!Exit, Status, ParentOf
<1> QED BY <1>5 DEF Promise!FamilyNext

(* wait() takes effect when the zombie is freed. *)
LEMMA ReapCollects ==
  ASSUME ProcInv, ScanInv, NEW c \in Cpus, NEW p \in Procs, NEW q \in Procs, Reap(c, p, q)
  PROVE  Promise!FamilyNext
<1> USE SchedAssumption, ProcAssumption DEF ProcInv, Exiting, Started
<1>1. /\ state[p] = "RUNNING" /\ pc[p] = "scan" /\ parent[q] = p
      /\ state[q] = "ZOMBIE" /\ pc[q] = "die"
      /\ state' = [state EXCEPT ![q] = "UNUSED"]
      /\ parent' = [parent EXCEPT ![q] = NoProc] /\ pc' = [pc EXCEPT ![p] = "return"]
  BY LiveRuns DEF Reap, At, Goto, FreeSlot, ScanInv, PlacesInv
<1>2. Status(p) = "alive" /\ Status(q) = "dead" /\ ParentOf(q) = p
  BY <1>1 DEF Status, ParentOf
<1>3. \A r \in Procs : Status(r)' = IF r = q THEN "free" ELSE Status(r)
  BY <1>1 DEF Status, TypeOK, SchedTypeOK
<1>4. \A r \in Procs : ParentOf(r)' = IF r = q THEN NoProc ELSE ParentOf(r)
  BY <1>1 DEF ParentOf, TypeOK, SchedTypeOK
<1> HIDE DEF ProcInv, Exiting, Started
<1>5. Promise!Collect(p, q)
  BY <1>2, <1>3, <1>4 DEF Promise!Collect, Status, ParentOf
<1> QED BY <1>5 DEF Promise!FamilyNext

(* All other steps are inside a call, or have no part in the family.       *)
LEMMA StepIsFamilyStep ==
  ASSUME ProcInv, ScanInv, [Next]_vars
  PROVE  [Promise!FamilyNext]_(Promise!familyVars)
<1> USE SchedAssumption, ProcAssumption DEF Exiting, Started
<1>1. ASSUME UNCHANGED parent,
             \A r \in Procs : Started(r)' = Started(r) /\ (Started(r) => Exiting(r)' = Exiting(r))
      PROVE  UNCHANGED Promise!familyVars
  <2>1. \A q \in Procs : Status(q)' = Status(q) /\ ParentOf(q)' = ParentOf(q)
    BY <1>1 DEF Status, ParentOf
  <2> QED BY <2>1, FamilyStutters
<1>2. CASE UNCHANGED vars
  BY <1>1, <1>2 DEF vars, schedVars, procVars
<1>3. ASSUME NEW c \in Cpus, NEW p \in Procs, Work(c, p)
      PROVE  [Promise!FamilyNext]_(Promise!familyVars)
  <2>1. CASE Interrupt(c, p) \/ OtherCall(c, p) \/ ReturnToUser(c, p)
    BY <1>1, <2>1 DEF Interrupt, OtherCall, ReturnToUser, At, Goto, schedVars, ProcInv, TypeOK
  <2>2. CASE ForkStart(c, p) \/ Reparent(c, p) \/ \E q \in Procs : Reap(c, p, q)
    BY <2>2, ForkStartForks, ReparentExits, ReapCollects
  <2>3. CASE ForkParent(c, p)
    <3>1. PICK q \in Procs : q = child[p] /\ state[q] = "USED"
      BY <2>3, ChildIsThere DEF ForkParent, At
    <3>2. /\ UNCHANGED state /\ pc[p] = "linked" /\ pc' = [pc EXCEPT ![p] = "start"]
          /\ parent' = [parent EXCEPT ![q] = p]
      BY <2>3, <3>1 DEF ForkParent, At, Goto, schedVars
    <3>3. \A r \in Procs : Status(r)' = Status(r) /\ ParentOf(r)' = ParentOf(r)
      BY <3>1, <3>2 DEF Status, ParentOf, ProcInv, TypeOK
    <3> QED BY <3>3, FamilyStutters
  <2>4. CASE WakeInit(c, p) \/ WakeParent(c, p)
    <3>1. \A r \in Procs : Started(r)' = Started(r)
      BY <2>4, ParentIsThere DEF WakeInit, WakeParent, WakeOne, At, ProcInv, TypeOK, SchedTypeOK
    <3>2. \A r \in Procs : Exiting(r)' = Exiting(r)
      BY <2>4 DEF WakeInit, WakeParent, At, Goto, ProcInv, TypeOK
    <3> QED BY <1>1, <2>4, <3>1, <3>2 DEF WakeInit, WakeParent
  <2>5. CASE Die(c, p)
    <3>1. state[p] = "RUNNING" /\ state' = [state EXCEPT ![p] = "ZOMBIE"] /\ UNCHANGED <<pc, parent>>
      BY <2>5, LiveRuns DEF Die, ExitEnter, Leave, At, ProcInv
    <3> QED BY <1>1, <3>1 DEF ProcInv, TypeOK, SchedTypeOK
  <2>6. CASE \/ WaitLock(c, p) \/ WaitFails(c, p) \/ WaitDecides(c, p)
             \/ \E q \in Procs : PassOver(c, p, q)
    BY <1>1, <2>6 DEF WaitLock, WaitFails, WaitDecides, PassOver, At, Goto, schedVars,
       ProcInv, TypeOK
  <2>7. CASE Nap(c, p) \/ Awake(c, p)
    BY <1>1, <2>7 DEF Nap, SleepLockProc, Awake, SleepRet, Return, At, Goto,
       ProcInv, TypeOK, PlacesInv
  <2>8. CASE Doze(c, p)
    <3>1. /\ state[p] = "RUNNING" /\ state' = [state EXCEPT ![p] = "SLEEPING"]
          /\ pc[p] = "doze" /\ pc' = [pc EXCEPT ![p] = "asleep"] /\ UNCHANGED parent
      BY <2>8, LiveRuns DEF Doze, SleepEnter, Leave, At, Goto, ProcInv
    <3> QED BY <1>1, <3>1 DEF ProcInv, TypeOK, SchedTypeOK
  <2> QED BY <1>3, <2>1, <2>2, <2>3, <2>4, <2>5, <2>6, <2>7, <2>8 DEF Work
<1>4. ASSUME NEW c \in Cpus, NEW p \in Procs, Request(c, p)
      PROVE  [Promise!FamilyNext]_(Promise!familyVars)
  <2>1. CASE Syscall(c, p) \/ ExitCall(c, p) \/ WaitCall(c, p)
    BY <1>1, <2>1 DEF Syscall, ExitCall, WaitCall, At, Goto, schedVars, ProcInv, TypeOK
  <2>2. CASE Fault(c, p)
    BY <1>1, <2>2 DEF Fault, KillOne, At, Goto, ProcInv, TypeOK, SchedTypeOK
  <2>3. ASSUME NEW q \in Procs, Fork(c, p, q)
        PROVE  [Promise!FamilyNext]_(Promise!familyVars)
    <3>1. /\ state[q] = "UNUSED" /\ state' = [state EXCEPT ![q] = "USED"]
          /\ state[p] = "RUNNING" /\ pc[p] = "kernel"
          /\ pc' = [pc EXCEPT ![p] = "linked", ![q] = "user"] /\ UNCHANGED parent
      BY <2>3, LiveRuns DEF Fork, AllocSlot, At, ProcInv
    <3> QED BY <1>1, <3>1 DEF ProcInv, TypeOK, SchedTypeOK
  <2>4. ASSUME NEW q \in Procs, ForkNoMemory(c, p, q) \/ ReapNoCopy(c, p, q)
        PROVE  [Promise!FamilyNext]_(Promise!familyVars)
    BY <1>1, <2>4 DEF ForkNoMemory, AbortSlot, ReapNoCopy, schedVars, At, Goto, ProcInv, TypeOK
  <2>5. ASSUME NEW q \in Procs, NEW n \in KillArgs, Kill(c, p, n, q)
        PROVE  [Promise!FamilyNext]_(Promise!familyVars)
    BY <1>1, <2>5 DEF Kill, KillOne, At, Goto, ProcInv, TypeOK, SchedTypeOK
  <2> QED BY <1>4, <2>1, <2>2, <2>3, <2>4, <2>5 DEF Request
<1>5. ASSUME NEW c \in Cpus, NEW p \in Procs, Preempt(c, p) \/ Dispatch(c, p) \/ Switch(c, p)
      PROVE  UNCHANGED Promise!familyVars
  <2>1. UNCHANGED <<pc, parent>>
    BY <1>5 DEF Preempt, Dispatch, Switch, procVars
  <2>2. \A r \in Procs : Started(r)' = Started(r)
    <3>1. CASE Preempt(c, p)
      BY <3>1, LiveRuns DEF Preempt, YieldEnter, Leave, ProcInv, TypeOK, SchedTypeOK
    <3>2. CASE Dispatch(c, p) \/ Switch(c, p)
      BY <3>2 DEF Dispatch, Pick, Switch, Swtch, ForkRet, YieldRet, ProcInv, TypeOK, SchedTypeOK
    <3> QED BY <1>5, <3>1, <3>2
  <2> QED BY <1>1, <2>1, <2>2
<1> QED BY <1>2, <1>3, <1>4, <1>5 DEF Next

(***************************************************************************)
(* fork(), exit() and wait(), in their many steps, change the tree of      *)
(* processes in one step each: the safety part of what Family promises.    *)
(***************************************************************************)
THEOREM KeepsFamily == Spec => Promise!FamilySafeSpec
<1>1. Init => Promise!FamilyInit /\ ScanInv
  BY InitIsFamilyInit DEF Init, ScanInv
<1>2. ProcInv /\ ScanInv /\ [Next]_vars => ScanInv'
  BY ScanNextInv
<1>3. ProcInv /\ ScanInv /\ [Next]_vars => [Promise!FamilyNext]_(Promise!familyVars)
  BY StepIsFamilyStep
<1> QED BY <1>1, <1>2, <1>3, ProcInvariant, PTL DEF Spec, Promise!FamilySafeSpec
=============================================================================
