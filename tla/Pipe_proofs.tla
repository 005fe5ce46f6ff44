----------------------------- MODULE Pipe_proofs -----------------------------
(***************************************************************************)
(* Proofs about the pipe, for any readers, writers, sizes and bytes.       *)
(*                                                                         *)
(* NobodyOversleeps says nothing of the time while pi->lock is held, so it *)
(* is not inductive.  PipeInv adds who holds the lock and what its holder  *)
(* owes: a reader may be asleep on a pipe with something in it only while  *)
(* a writer is in its loop, a writer on one with room only while a reader  *)
(* copies.  From both places the way out is past a wakeup(), with one      *)
(* exception: pipewrite() returns at once when it finds itself killed.     *)
(* That is why the theorem assumes that no writer is killed.               *)
(***************************************************************************)
EXTENDS Pipe, Integers, TLAPS

Holding == {"loop", "copy", "nap"}

(* pi->lock is held by the one process between acquire() and release(). *)
LockHeld ==
  /\ \A p \in Procs : lock = p <=> pc[p] \in Holding
  /\ \A p \in Procs : pc[p] = "copy" => p \in Readers

(* An end is open while a descriptor is; who is in a call has one. *)
EndsOpen ==
  /\ readopen = (fds \cap Readers # {})
  /\ writeopen = (fds \cap Writers # {})
  /\ \A p \in Procs : pc[p] # "idle" => p \in fds

MustWait(p) == IF p \in Readers THEN Empty /\ writeopen ELSE Full /\ readopen

(* The lock's holder has still to call wakeup() on p's channel. *)
WakeupOwed(p) ==
  \E q \in Procs :
    IF p \in Readers THEN q \in Writers /\ pc[q] = "loop"
                     ELSE q \in Readers /\ pc[q] = "copy"

SleepersInv ==
  \A p \in Procs :
    /\ pc[p] = "nap" => MustWait(p)
    /\ pc[p] = "asleep" => MustWait(p) \/ WakeupOwed(p)

KilledInv == \A p \in Procs : killed[p] => p \in Victims

PipeInv == TypeOK /\ LockHeld /\ EndsOpen /\ SleepersInv /\ KilledInv

-----------------------------------------------------------------------------
LEMMA PipeInitInv == Init => PipeInv
<1> SUFFICES ASSUME Init PROVE PipeInv
  OBVIOUS
<1> USE PipeAssumption DEF Init
<1>1. TypeOK
  <2>1. nread \in 0 .. Wrap - 1 /\ 0 \in 0 .. MaxCount
    OBVIOUS
  <2> QED BY <2>1 DEF TypeOK, Phases
<1>2. LockHeld /\ SleepersInv /\ KilledInv
  BY DEF LockHeld, Holding, SleepersInv, KilledInv
<1>3. EndsOpen
  BY DEF EndsOpen, Procs
<1> QED BY <1>1, <1>2, <1>3 DEF PipeInv

(* No step of a call breaks a type: the counts stay below Wrap. *)
LEMMA TypesKept == TypeOK /\ [Next \/ Over]_vars => TypeOK'
<1> SUFFICES ASSUME TypeOK, [Next \/ Over]_vars PROVE TypeOK'
  OBVIOUS
<1> USE PipeAssumption DEF TypeOK, Phases
<1>0. MaxCount \in Nat /\ 0 \in 0 .. MaxCount
  OBVIOUS
<1>1. CASE UNCHANGED vars \/ Over
  BY <1>1 DEF vars, Over
<1>2. ASSUME NEW p \in Procs, Enter(p) \/ Sleep(p) \/ ReadWaits(p) \/ ReadGoesOn(p)
      PROVE  TypeOK'
  BY <1>2 DEF Enter, Sleep, ReadWaits, ReadGoesOn, Goto
<1>3. ASSUME NEW p \in Procs, WriteFails(p) \/ ReadFails(p)
      PROVE  TypeOK'
  <2>1. left' \in [Procs -> 0 .. MaxCount] /\ lock' = Nobody
    BY <1>0, <1>3, ZenonT(60) DEF WriteFails, ReadFails, Leave
  <2>2. pc' \in [Procs -> Phases]
    BY <1>3 DEF WriteFails, ReadFails, Goto
  <2> QED BY <1>3, <2>1, <2>2 DEF WriteFails, ReadFails, Leave
<1>4. ASSUME NEW p \in Procs, WriteWaits(p) \/ WriteReturns(p) \/ ReadReturns(p)
      PROVE  TypeOK'
  BY <1>0, <1>4 DEF WriteWaits, WriteReturns, ReadReturns, WakeAndGoto, Leave
<1>5. ASSUME NEW p \in Procs, NEW b \in Bytes, WriteByte(p, b)
      PROVE  TypeOK'
  <2>1. nwrite % PIPESIZE \in 0 .. PIPESIZE - 1 /\ nwrite' \in 0 .. Wrap - 1
    BY <1>5 DEF WriteByte
  <2>2. left' \in [Procs -> 0 .. MaxCount]
    BY <1>5 DEF WriteByte
  <2> QED BY <1>5, <2>1, <2>2 DEF WriteByte
<1>6. ASSUME NEW p \in Procs, ReadByte(p)
      PROVE  TypeOK'
  <2>1. nread' \in 0 .. Wrap - 1
    BY <1>6 DEF ReadByte
  <2>2. left[p] \in Nat /\ left[p] > 0 /\ left[p] - 1 \in 0 .. MaxCount
    BY <1>0, <1>6 DEF ReadByte
  <2>3. left' \in [Procs -> 0 .. MaxCount]
    BY <1>0, <1>6, <2>2 DEF ReadByte
  <2> QED BY <1>6, <2>1, <2>3 DEF ReadByte
<1>7. ASSUME NEW p \in Procs, Close(p)
      PROVE  TypeOK'
  BY <1>7 DEF Close, WakeAndGoto
<1>8. ASSUME NEW p \in Procs, Kill(p)
      PROVE  TypeOK'
  BY <1>8 DEF Kill
<1>9. ASSUME NEW p \in Procs, NEW n \in 0 .. MaxCount, Call(p, n)
      PROVE  TypeOK'
  BY <1>9 DEF Call, Goto
<1> QED BY <1>1, <1>2, <1>3, <1>4, <1>5, <1>6, <1>7, <1>8, <1>9 DEF Next, Work

-----------------------------------------------------------------------------
(* What holds whoever is killed. *)
PlacesInv == TypeOK /\ LockHeld /\ EndsOpen /\ KilledInv

LEMMA PlacesKept == PlacesInv /\ [Next \/ Over]_vars => PlacesInv'
<1> SUFFICES ASSUME PlacesInv, [Next \/ Over]_vars PROVE PlacesInv'
  OBVIOUS
<1>0. TypeOK /\ TypeOK'
  BY TypesKept DEF PlacesInv
<1> USE PipeAssumption, <1>0 DEF PlacesInv, LockHeld, EndsOpen, KilledInv, Holding
<1>1. CASE UNCHANGED vars \/ Over
  BY <1>1 DEF vars, Over
<1>2. ASSUME NEW p \in Procs, Work(p)
      PROVE  PlacesInv'
  <2>1. UNCHANGED <<readopen, writeopen, fds, killed>>
    BY <1>2 DEF Work, Enter, Sleep, WriteFails, WriteWaits, WriteByte,
       WriteReturns, ReadFails, ReadWaits, ReadGoesOn, ReadByte, ReadReturns,
       Leave
  <2>2. pc[p] \in Holding \cup {"enter"}
    BY <1>2 DEF Work, Enter, Sleep, WriteFails, WriteWaits, WriteByte,
       WriteReturns, ReadFails, ReadWaits, ReadGoesOn, ReadByte, ReadReturns
  <2>3. LockHeld' /\ \A q \in Procs : pc'[q] # "idle" => pc[q] # "idle"
    <3>1. CASE Enter(p) \/ Sleep(p) \/ ReadWaits(p) \/ ReadGoesOn(p)
      <4>1. CASE Enter(p)
        BY <4>1 DEF Enter, Goto, TypeOK
      <4>2. CASE Sleep(p)
        BY <4>2 DEF Sleep, Goto, TypeOK
      <4>3. CASE ReadWaits(p) \/ ReadGoesOn(p)
        BY <4>3 DEF ReadWaits, ReadGoesOn, Goto, TypeOK
      <4> QED BY <3>1, <4>1, <4>2, <4>3
    <3>2. CASE WriteFails(p) \/ ReadFails(p)
      <4>1. /\ lock = p /\ lock' = Nobody /\ pc[p] = "loop"
            /\ pc' = [pc EXCEPT ![p] = "idle"]
        BY <3>2 DEF WriteFails, ReadFails, Goto, Leave
      <4> QED BY <4>1 DEF TypeOK
    <3>3. CASE WriteWaits(p) \/ WriteReturns(p) \/ ReadReturns(p)
      <4>1. PICK S \in SUBSET Procs, there \in {"nap", "idle"} :
              /\ WakeAndGoto(S, p, there)
              /\ lock' = IF there = "nap" THEN lock ELSE Nobody
        BY <3>3, Zenon DEF WriteWaits, WriteReturns, ReadReturns, Leave, Procs
      <4>2. lock = p /\ pc[p] \in {"loop", "copy"}
        BY <3>3 DEF WriteWaits, WriteReturns, ReadReturns
      <4>3. /\ pc'[p] = there
            /\ \A q \in Procs \ {p} :
                 pc'[q] = pc[q] \/ (pc[q] = "asleep" /\ pc'[q] = "enter")
        BY <4>1 DEF WakeAndGoto
      <4>4. \A q \in Procs : pc'[q] = "copy" => q \in Readers
        BY <4>3
      <4> QED BY <4>1, <4>2, <4>3, <4>4
    <3>4. CASE ReadByte(p) \/ \E b \in Bytes : WriteByte(p, b)
      BY <3>4 DEF ReadByte, WriteByte
    <3> QED BY <1>2, <3>1, <3>2, <3>3, <3>4 DEF Work
  <2> QED BY <2>1, <2>3
<1>3. ASSUME NEW p \in Procs, Close(p)
      PROVE  PlacesInv'
  <2>1. LockHeld' /\ KilledInv'
    BY <1>3 DEF Close, WakeAndGoto
  <2>2. EndsOpen'
    BY <1>3 DEF Close, WakeAndGoto
  <2> QED BY <2>1, <2>2
<1>4. ASSUME NEW p \in Procs, Kill(p)
      PROVE  PlacesInv'
  BY <1>4 DEF Kill, TypeOK
<1>5. ASSUME NEW p \in Procs, NEW n \in 0 .. MaxCount, Call(p, n)
      PROVE  PlacesInv'
  BY <1>5 DEF Call, Goto, TypeOK
<1> QED BY <1>1, <1>2, <1>3, <1>4, <1>5 DEF Next

-----------------------------------------------------------------------------
(* Nobody sleeps through the change he waits for, if no writer is killed. *)
LEMMA SleepersKept ==
  ASSUME Victims \cap Writers = {}, PlacesInv, PlacesInv', SleepersInv,
         [Next \/ Over]_vars
  PROVE  SleepersInv'
<1> USE PipeAssumption DEF SleepersInv, MustWait, WakeupOwed
<1>0. /\ TypeOK /\ LockHeld /\ EndsOpen /\ KilledInv
      /\ \A p \in Writers : ~killed[p]
  BY DEF PlacesInv, KilledInv, Procs, TypeOK
<1>1. CASE UNCHANGED vars \/ Over
  BY <1>1 DEF vars, Over, Empty, Full
<1>2. ASSUME NEW p \in Procs, Enter(p) \/ Sleep(p)
      PROVE  SleepersInv'
  BY <1>0, <1>2 DEF Enter, Sleep, Goto, Empty, Full, TypeOK, LockHeld, Holding
<1>3. ASSUME NEW p \in Procs, WriteFails(p)
      PROVE  SleepersInv'
  BY <1>0, <1>3 DEF WriteFails, Leave, Goto, Empty, Full, TypeOK, LockHeld,
     Holding, EndsOpen, Procs
<1>4. ASSUME NEW p \in Procs, WriteWaits(p) \/ WriteReturns(p)
      PROVE  SleepersInv'
  BY <1>0, <1>4 DEF WriteWaits, WriteReturns, Leave, WakeAndGoto, Empty, Full,
     LockHeld, Holding, Procs
<1>5. ASSUME NEW p \in Procs, NEW b \in Bytes, WriteByte(p, b)
      PROVE  SleepersInv'
  BY <1>0, <1>5 DEF WriteByte, Full, LockHeld, Holding, Procs
<1>6. ASSUME NEW p \in Procs, ReadFails(p) \/ ReadWaits(p) \/ ReadGoesOn(p)
      PROVE  SleepersInv'
  BY <1>0, <1>6 DEF ReadFails, ReadWaits, ReadGoesOn, Leave, Goto, Empty, Full,
     TypeOK, LockHeld, Holding, Procs
<1>7. ASSUME NEW p \in Procs, ReadByte(p)
      PROVE  SleepersInv'
  BY <1>0, <1>7 DEF ReadByte, Empty, LockHeld, Holding, Procs
<1>8. ASSUME NEW p \in Procs, ReadReturns(p)
      PROVE  SleepersInv'
  BY <1>0, <1>8 DEF ReadReturns, Leave, WakeAndGoto, Empty, Full, LockHeld,
     Holding, Procs
<1>9. ASSUME NEW p \in Procs, Close(p)
      PROVE  SleepersInv'
  BY <1>0, <1>9 DEF Close, WakeAndGoto, Empty, Full, LockHeld, EndsOpen,
     Holding, Procs
<1>10. ASSUME NEW p \in Procs, Kill(p)
      PROVE  SleepersInv'
  BY <1>0, <1>10 DEF Kill, Empty, Full, TypeOK
<1>11. ASSUME NEW p \in Procs, NEW n \in 0 .. MaxCount, Call(p, n)
      PROVE  SleepersInv'
  BY <1>0, <1>11 DEF Call, Goto, Empty, Full, TypeOK
<1> QED BY <1>1, <1>2, <1>3, <1>4, <1>5, <1>6, <1>7, <1>8, <1>9, <1>10, <1>11
        DEF Next, Work

-----------------------------------------------------------------------------
(* What % does, for any modulus. *)
LEMMA Times ==
  ASSUME NEW n \in Nat \ {0}, NEW d \in Nat \ {0}
  PROVE  n * d >= n
OBVIOUS

LEMMA DivMod ==
  ASSUME NEW n \in Nat \ {0}, NEW a \in Nat
  PROVE  /\ a % n \in 0 .. n - 1 /\ a \div n \in Nat
         /\ a = n * (a \div n) + (a % n)
OBVIOUS

LEMMA SameRest ==
  ASSUME NEW n \in Nat \ {0}, NEW q1 \in Int, NEW q2 \in Int,
         NEW r1 \in 0 .. n - 1, NEW r2 \in 0 .. n - 1,
         n * q1 + r1 = n * q2 + r2
  PROVE  r1 = r2
<1>1. n * (q1 - q2) = r2 - r1 /\ n * (q2 - q1) = r1 - r2
  OBVIOUS
<1>2. CASE q1 = q2
  BY <1>1, <1>2
<1>3. CASE q1 > q2
  BY <1>1, <1>3, Times
<1>4. CASE q2 > q1
  BY <1>1, <1>4, Times
<1> QED BY <1>2, <1>3, <1>4

LEMMA SmallRest ==
  ASSUME NEW n \in Nat \ {0}, NEW a \in 0 .. n - 1
  PROVE  a % n = a /\ (a + n) % n = a
<1>1. a \in Nat /\ a + n \in Nat
  OBVIOUS
<1>2. /\ a % n \in 0 .. n - 1 /\ a \div n \in Nat
      /\ a = n * (a \div n) + (a % n)
  BY <1>1, DivMod
<1>3. /\ (a + n) % n \in 0 .. n - 1 /\ (a + n) \div n \in Nat
      /\ a + n = n * ((a + n) \div n) + ((a + n) % n)
  BY <1>1, DivMod
<1>4. a = n * 0 + a /\ a + n = n * 1 + a
  OBVIOUS
<1>5. a % n = a
  BY <1>2, <1>4, SameRest
<1>6. (a + n) % n = a
  BY <1>3, <1>4, SameRest
<1> QED BY <1>5, <1>6

(* A multiple of the modulus makes no difference. *)
LEMMA Shift ==
  ASSUME NEW n \in Nat \ {0}, NEW a \in Nat, NEW m \in Nat, m % n = 0
  PROVE  (a + m) % n = a % n
<1> DEFINE q == a \div n        r == a % n        k == m \div n
           q2 == (a + m) \div n  r2 == (a + m) % n
<1>1. a = n * q + r /\ m = n * k /\ a + m = n * q2 + r2
  BY DivMod
<1>2. /\ q \in Int /\ k \in Int /\ q2 \in Int
      /\ r \in 0 .. n - 1 /\ r2 \in 0 .. n - 1
  BY DivMod
<1> HIDE DEF q, r, k, q2, r2
<1>3. n * (q + k) + r = n * q2 + r2
  BY <1>1, <1>2
<1>4. r = r2
  BY <1>2, <1>3, SameRest
<1> QED BY <1>4 DEF r, r2

(* Two slots less than a buffer apart are not the same. *)
LEMMA Apart ==
  ASSUME NEW n \in Nat \ {0}, NEW a \in Nat, NEW d \in 1 .. n - 1
  PROVE  (a + d) % n # a % n
<1> DEFINE q == a \div n        r == a % n
           q2 == (a + d) \div n  r2 == (a + d) % n
<1>1. a = n * q + r /\ a + d = n * q2 + r2
  BY DivMod
<1>2. q \in Int /\ q2 \in Int /\ r \in 0 .. n - 1 /\ r2 \in 0 .. n - 1
  BY DivMod
<1> HIDE DEF q, r, q2, r2
<1> SUFFICES ASSUME r = r2 PROVE FALSE
  BY DEF r, r2
<1>3. n * (q2 - q) = d /\ n * (q - q2) = -d
  BY <1>1, <1>2
<1>4. CASE q2 - q >= 1
  BY <1>4, <1>3, <1>2, Times
<1>5. CASE q2 - q <= 0
  <2>1. n * (q - q2) >= 0
    BY <1>5, <1>2
  <2> QED BY <2>1, <1>3, <1>2
<1> QED BY <1>4, <1>5, <1>2

-----------------------------------------------------------------------------
(* The difference of the counts, over a wrap too. *)
LEMMA Distance ==
  ASSUME NEW r \in 0 .. Wrap - 1, NEW w \in 0 .. Wrap - 1
  PROVE  (w + Wrap - r) % Wrap = IF r <= w THEN w - r ELSE w + Wrap - r
<1> USE PipeAssumption
<1>1. CASE r <= w
  <2> DEFINE d == w - r
  <2>1. d \in 0 .. Wrap - 1 /\ w + Wrap - r = d + Wrap
    BY <1>1
  <2> QED BY <1>1, <2>1, SmallRest
<1>2. CASE w < r
  <2>1. w + Wrap - r \in 0 .. Wrap - 1 /\ Wrap \in Nat \ {0}
    BY <1>2
  <2>2. (w + Wrap - r) % Wrap = w + Wrap - r
    BY <2>1, SmallRest
  <2>3. ~(r <= w)
    BY <1>2
  <2> QED BY <2>2, <2>3
<1> QED BY <1>1, <1>2

LEMMA Difference ==
  ASSUME TypeOK
  PROVE  /\ Occupancy \in 0 .. Wrap - 1
         /\ Occupancy = IF nread <= nwrite THEN nwrite - nread
                                          ELSE nwrite + Wrap - nread
<1>1. nread \in 0 .. Wrap - 1 /\ nwrite \in 0 .. Wrap - 1 /\ Wrap \in Nat \ {0}
  BY PipeAssumption DEF TypeOK
<1>2. Occupancy = IF nread <= nwrite THEN nwrite - nread
                                    ELSE nwrite + Wrap - nread
  BY <1>1, Distance DEF Occupancy
<1> QED BY <1>1, <1>2

(* The slot of the next byte is Occupancy further than that of the first. *)
LEMMA NextSlot ==
  ASSUME TypeOK
  PROVE  nwrite % PIPESIZE = (nread + Occupancy) % PIPESIZE
<1> USE PipeAssumption DEF TypeOK
<1>1. CASE nread <= nwrite
  <2>1. nread + Occupancy = nwrite
    BY <1>1, Difference
  <2> QED BY <2>1
<1>2. CASE nwrite < nread
  <2>1. nread + Occupancy = nwrite + Wrap
    BY <1>2, Difference
  <2>2. nwrite \in Nat /\ Wrap \in Nat /\ PIPESIZE \in Nat \ {0}
    OBVIOUS
  <2>3. (nwrite + Wrap) % PIPESIZE = nwrite % PIPESIZE
    BY <2>2, Shift
  <2> QED BY <2>1, <2>3
<1> QED BY <1>1, <1>2

-----------------------------------------------------------------------------
(* Never more than PIPESIZE bytes: Full is tested by equality. *)
CountsInv == Occupancy <= PIPESIZE

LEMMA FullMeansFull ==
  ASSUME TypeOK, CountsInv
  PROVE  /\ Full <=> Occupancy = PIPESIZE
         /\ Empty <=> Occupancy = 0
<1>0. /\ nread \in 0 .. Wrap - 1 /\ nwrite \in 0 .. Wrap - 1
      /\ Wrap \in Nat \ {0} /\ PIPESIZE \in Nat \ {0} /\ PIPESIZE < Wrap
      /\ Occupancy <= PIPESIZE
      /\ Occupancy = IF nread <= nwrite THEN nwrite - nread
                                        ELSE nwrite + Wrap - nread
  BY PipeAssumption, Difference DEF TypeOK, CountsInv
<1>1. Empty <=> Occupancy = 0
  BY <1>0 DEF Empty
<1>2. CASE nread + PIPESIZE < Wrap
  <2>1. nread + PIPESIZE \in 0 .. Wrap - 1
    BY <1>0, <1>2
  <2>2. (nread + PIPESIZE) % Wrap = nread + PIPESIZE
    BY <1>0, <2>1, SmallRest
  <2>3. nwrite = nread + PIPESIZE <=> Occupancy = PIPESIZE
    BY <1>0, <1>2
  <2> QED BY <1>1, <2>2, <2>3 DEF Full
<1>3. CASE nread + PIPESIZE >= Wrap
  <2> DEFINE a == nread + PIPESIZE - Wrap
  <2>1. a \in 0 .. Wrap - 1 /\ a + Wrap = nread + PIPESIZE
    BY <1>0, <1>3
  <2>2. (nread + PIPESIZE) % Wrap = a
    BY <1>0, <2>1, SmallRest
  <2>3. nwrite = a <=> Occupancy = PIPESIZE
    BY <1>0, <1>3
  <2> QED BY <1>1, <2>2, <2>3 DEF Full
<1> QED BY <1>0, <1>2, <1>3

(* One more in the pipe, or one fewer. *)
LEMMA NextCount ==
  ASSUME NEW a \in 0 .. Wrap - 1
  PROVE  (a + 1) % Wrap = IF a + 1 = Wrap THEN 0 ELSE a + 1
<1> USE PipeAssumption
<1>1. CASE a + 1 = Wrap
  <2>1. 0 \in 0 .. Wrap - 1 /\ a + 1 = 0 + Wrap
    BY <1>1
  <2> QED BY <1>1, <2>1, SmallRest
<1>2. CASE a + 1 # Wrap
  <2>1. a + 1 \in 0 .. Wrap - 1
    BY <1>2
  <2> QED BY <1>2, <2>1, SmallRest
<1> QED BY <1>1, <1>2

LEMMA WriteAppends ==
  ASSUME TypeOK, TypeOK', CountsInv, NEW p \in Procs, NEW b \in Bytes,
         WriteByte(p, b)
  PROVE  /\ Occupancy < PIPESIZE /\ Occupancy' = Occupancy + 1
         /\ Queue' = Append(Queue, b)
<1> USE PipeAssumption
<1>1. Occupancy < PIPESIZE /\ Occupancy \in Nat
  <2>1. Occupancy \in Nat /\ PIPESIZE \in Nat
    BY Difference
  <2>2. ~Full /\ Occupancy <= PIPESIZE
    BY DEF WriteByte, CountsInv
  <2> QED BY <2>1, <2>2, FullMeansFull
<1>2. nread' = nread /\ nwrite' = IF nwrite + 1 = Wrap THEN 0 ELSE nwrite + 1
  BY NextCount DEF WriteByte, TypeOK
<1>3. Occupancy' = Occupancy + 1
  <2>1. Occupancy' = IF nread' <= nwrite' THEN nwrite' - nread'
                                          ELSE nwrite' + Wrap - nread'
    BY Distance DEF Occupancy, TypeOK
  <2>2. Occupancy = IF nread <= nwrite THEN nwrite - nread
                                       ELSE nwrite + Wrap - nread
    BY Difference
  <2>3. /\ nread \in Nat /\ nwrite \in Nat /\ Wrap \in Nat /\ PIPESIZE \in Nat
        /\ nread < Wrap /\ nwrite < Wrap /\ PIPESIZE < Wrap
    BY DEF TypeOK
  <2> HIDE PipeAssumption
  <2>4. CASE nwrite + 1 = Wrap
    BY <1>1, <1>2, <2>1, <2>2, <2>3, <2>4
  <2>5. CASE nwrite + 1 # Wrap
    BY <1>1, <1>2, <2>1, <2>2, <2>3, <2>5
  <2> QED BY <2>4, <2>5
<1>4. \A i \in 1 .. Occupancy :
        data'[(nread' + i - 1) % PIPESIZE] = data[(nread + i - 1) % PIPESIZE]
  <2> TAKE i \in 1 .. Occupancy
  <2> DEFINE a == nread + i - 1  d == Occupancy - i + 1
  <2>1. /\ PIPESIZE \in Nat \ {0} /\ a \in Nat /\ d \in 1 .. PIPESIZE - 1
        /\ a + d = nread + Occupancy
    BY <1>1 DEF TypeOK
  <2>2. (nread + Occupancy) % PIPESIZE # a % PIPESIZE
    BY <2>1, Apart
  <2>3. a % PIPESIZE # nwrite % PIPESIZE
    BY <2>2, NextSlot
  <2>4. a % PIPESIZE \in 0 .. PIPESIZE - 1
    BY <2>1, DivMod
  <2>5. data'[a % PIPESIZE] = data[a % PIPESIZE]
    BY <2>3, <2>4 DEF WriteByte, TypeOK
  <2> QED BY <1>2, <2>5
<1>5. data'[(nread' + Occupancy) % PIPESIZE] = b
  <2>1. nwrite % PIPESIZE \in 0 .. PIPESIZE - 1
    <3>1. nwrite \in Nat /\ PIPESIZE \in Nat \ {0}
      BY DEF TypeOK
    <3> QED BY <3>1, DivMod
  <2>2. data'[nwrite % PIPESIZE] = b
    BY <2>1 DEF WriteByte, TypeOK
  <2> QED BY <1>2, <2>2, NextSlot
<1> QED BY <1>1, <1>3, <1>4, <1>5 DEF Queue

LEMMA ReadTakes ==
  ASSUME TypeOK, TypeOK', CountsInv, NEW p \in Procs, ReadByte(p)
  PROVE  /\ Occupancy > 0 /\ Occupancy' = Occupancy - 1
         /\ Queue # <<>> /\ Queue' = Tail(Queue)
<1> USE PipeAssumption
<1>1. Occupancy > 0 /\ Occupancy \in Nat
  <2>1. Occupancy \in Nat /\ ~Empty
    BY Difference DEF ReadByte
  <2> QED BY <2>1, FullMeansFull
<1>2. nwrite' = nwrite /\ nread' = IF nread + 1 = Wrap THEN 0 ELSE nread + 1
  BY NextCount DEF ReadByte, TypeOK
<1>3. /\ nread \in Nat /\ nwrite \in Nat /\ Wrap \in Nat
      /\ PIPESIZE \in Nat \ {0}
      /\ nread < Wrap /\ nwrite < Wrap /\ PIPESIZE < Wrap
  BY DEF TypeOK
<1>4. Occupancy' = Occupancy - 1
  <2>1. Occupancy' = IF nread' <= nwrite' THEN nwrite' - nread'
                                          ELSE nwrite' + Wrap - nread'
    BY Distance DEF Occupancy, TypeOK
  <2>2. Occupancy = IF nread <= nwrite THEN nwrite - nread
                                       ELSE nwrite + Wrap - nread
    BY Difference
  <2> HIDE PipeAssumption
  <2>3. CASE nread + 1 = Wrap
    BY <1>1, <1>2, <1>3, <2>1, <2>2, <2>3
  <2>4. CASE nread + 1 # Wrap
    BY <1>1, <1>2, <1>3, <2>1, <2>2, <2>4
  <2> QED BY <2>3, <2>4
<1>5. \A i \in 1 .. Occupancy - 1 :
        (nread' + i - 1) % PIPESIZE = (nread + (i + 1) - 1) % PIPESIZE
  <2> TAKE i \in 1 .. Occupancy - 1
  <2>1. CASE nread + 1 = Wrap
    <3>1. /\ i - 1 \in Nat
          /\ nread' + i - 1 = i - 1 /\ nread + (i + 1) - 1 = (i - 1) + Wrap
      BY <1>1, <1>2, <1>3, <2>1
    <3>2. ((i - 1) + Wrap) % PIPESIZE = (i - 1) % PIPESIZE
      BY <1>3, <3>1, Shift
    <3> QED BY <3>1, <3>2
  <2>2. CASE nread + 1 # Wrap
    <3>1. nread' + i - 1 = nread + (i + 1) - 1
      BY <1>1, <1>2, <1>3, <2>2
    <3> QED BY <3>1
  <2> QED BY <2>1, <2>2
<1>6. data' = data
  BY DEF ReadByte
<1> HIDE PipeAssumption
<1> QED BY <1>1, <1>4, <1>5, <1>6 DEF Queue

-----------------------------------------------------------------------------
(* Only WriteByte and ReadByte touch the buffer, only Close the ends. *)
LEMMA QuietStep ==
  ASSUME NEW p \in Procs, Work(p), ~ReadByte(p), \A b \in Bytes : ~WriteByte(p, b)
  PROVE  UNCHANGED <<data, nread, nwrite, readopen, writeopen>>
BY DEF Work, Enter, Sleep, WriteFails, WriteWaits, WriteReturns, ReadFails,
   ReadWaits, ReadGoesOn, ReadReturns, Leave

(* A descriptor is closed: an end closes with its last one, once. *)
LEMMA CloseStep ==
  ASSUME PlacesInv, NEW p \in Procs, Close(p)
  PROVE  \/ Promise!CloseWrite \/ Promise!CloseRead
         \/ UNCHANGED <<Queue, writeopen, readopen>>
<1> USE PipeAssumption
<1>1. UNCHANGED <<Occupancy, Queue>>
  BY DEF Close, Occupancy, Queue
<1>2. CASE p \in Writers
  <2>1. fds' \cap Readers = fds \cap Readers
    BY <1>2 DEF Close
  <2>2. readopen' = readopen /\ (writeopen' => writeopen)
    BY <2>1 DEF Close, PlacesInv, EndsOpen
  <2>3. writeopen \in BOOLEAN /\ writeopen' \in BOOLEAN
    BY DEF PlacesInv, TypeOK, Close
  <2> QED BY <1>1, <2>2, <2>3 DEF Promise!CloseWrite
<1>3. CASE p \in Readers
  <2>1. fds' \cap Writers = fds \cap Writers
    BY <1>3 DEF Close
  <2>2. writeopen' = writeopen /\ (readopen' => readopen)
    BY <2>1 DEF Close, PlacesInv, EndsOpen
  <2>3. readopen \in BOOLEAN /\ readopen' \in BOOLEAN
    BY DEF PlacesInv, TypeOK, Close
  <2> QED BY <1>1, <2>2, <2>3 DEF Promise!CloseRead
<1> QED BY <1>2, <1>3 DEF Procs

StreamInv == PlacesInv /\ CountsInv

(* Every step of the pipe is a step of the stream, or none. *)
LEMMA StreamStep ==
  ASSUME StreamInv, StreamInv', [Next \/ Over]_vars
  PROVE  [Promise!StreamNext]_<<Queue, writeopen, readopen>>
<1> USE DEF Promise!StreamNext
<1>0. TypeOK /\ TypeOK' /\ EndsOpen /\ LockHeld
  BY DEF StreamInv, PlacesInv
<1>1. CASE UNCHANGED vars \/ Over
  BY <1>1 DEF vars, Over, Queue, Occupancy
<1>2. ASSUME NEW p \in Procs, NEW b \in Bytes, WriteByte(p, b)
      PROVE  Promise!Put(b)
  <2>1. Occupancy < PIPESIZE /\ Queue' = Append(Queue, b)
    BY <1>0, <1>2, WriteAppends DEF StreamInv
  <2>2. Len(Queue) = Occupancy
    BY <1>0, PipeAssumption, Difference DEF Queue
  <2>3. writeopen /\ readopen /\ UNCHANGED <<writeopen, readopen>>
    BY <1>0, <1>2 DEF WriteByte, EndsOpen
  <2> QED BY <2>1, <2>2, <2>3 DEF Promise!Put
<1>3. ASSUME NEW p \in Procs, ReadByte(p)
      PROVE  Promise!Get
  <2>1. Queue # <<>> /\ Queue' = Tail(Queue)
    BY <1>0, <1>3, ReadTakes DEF StreamInv
  <2>2. readopen /\ UNCHANGED <<writeopen, readopen>>
    BY <1>0, <1>3 DEF ReadByte, EndsOpen, LockHeld
  <2> QED BY <2>1, <2>2 DEF Promise!Get
<1>4. ASSUME NEW p \in Procs, Close(p)
      PROVE  [Promise!StreamNext]_<<Queue, writeopen, readopen>>
  BY <1>4, CloseStep DEF StreamInv
<1>5. ASSUME NEW p \in Procs, UNCHANGED <<data, nread, nwrite, readopen, writeopen>>
      PROVE  UNCHANGED <<Queue, writeopen, readopen>>
  BY <1>5 DEF Queue, Occupancy
<1>6. ASSUME NEW p \in Procs, Kill(p) \/ \E n \in 0 .. MaxCount : Call(p, n)
      PROVE  UNCHANGED <<data, nread, nwrite, readopen, writeopen>>
  BY <1>6 DEF Kill, Call
<1> QED BY <1>1, <1>2, <1>3, <1>4, <1>5, <1>6, QuietStep DEF Next

(* The count in the buffer stays within it. *)
LEMMA CountsKept ==
  ASSUME StreamInv, PlacesInv', [Next \/ Over]_vars
  PROVE  CountsInv'
<1>0. /\ TypeOK /\ TypeOK' /\ CountsInv /\ Occupancy \in Nat
      /\ PIPESIZE \in Nat
  BY PipeAssumption, Difference DEF StreamInv, PlacesInv
<1>1. ASSUME NEW p \in Procs, NEW b \in Bytes, WriteByte(p, b)
      PROVE  CountsInv'
  BY <1>0, <1>1, WriteAppends DEF CountsInv
<1>2. ASSUME NEW p \in Procs, ReadByte(p)
      PROVE  CountsInv'
  BY <1>0, <1>2, ReadTakes DEF CountsInv
<1>3. ASSUME UNCHANGED <<nread, nwrite>>
      PROVE  CountsInv'
  BY <1>0, <1>3 DEF CountsInv, Occupancy
<1>4. CASE UNCHANGED vars \/ Over
  BY <1>3, <1>4 DEF vars, Over
<1>5. ASSUME NEW p \in Procs,
             Close(p) \/ Kill(p) \/ \E n \in 0 .. MaxCount : Call(p, n)
      PROVE  CountsInv'
  BY <1>3, <1>5 DEF Close, Kill, Call
<1> QED BY <1>1, <1>2, <1>3, <1>4, <1>5, QuietStep DEF Next

LEMMA StreamInitInv == Init => StreamInv /\ Queue = <<>>
<1> SUFFICES ASSUME Init PROVE StreamInv /\ Queue = <<>>
  OBVIOUS
<1>1. PlacesInv
  BY PipeInitInv DEF PipeInv, PlacesInv
<1>2. Occupancy = 0
  BY <1>1, Difference DEF Init, PlacesInv
<1>3. CountsInv
  BY <1>2, PipeAssumption DEF CountsInv
<1>4. Queue = <<>>
  BY <1>2 DEF Queue
<1> QED BY <1>1, <1>3, <1>4 DEF StreamInv

-----------------------------------------------------------------------------
(* The counts wrap around, and still at most PIPESIZE bytes are in the     *)
(* pipe; pi->lock is held exactly by who is inside; the ends are as open   *)
(* as their descriptors.  Kills make no difference to any of it.           *)
THEOREM StreamInvariant == Spec => []StreamInv
<1>1. Init => StreamInv
  BY StreamInitInv
<1>2. StreamInv /\ [Next \/ Over]_vars => StreamInv'
  BY PlacesKept, CountsKept DEF StreamInv
<1> QED BY <1>1, <1>2, PTL DEF Spec

(* The ring buffer of pipe.c, its counts wrapping around at 2^32, is a     *)
(* first-in first-out stream of at most PIPESIZE bytes: nothing is lost in *)
(* the pipe, doubled or overtaken, for any number of readers and writers.  *)
THEOREM Implementation == Spec => ImplementsStream
<1>1. Init => Promise!StreamInit
  BY StreamInitInv DEF Promise!StreamInit, Init
<1>2. StreamInv /\ StreamInv' /\ [Next \/ Over]_vars
        => [Promise!StreamNext]_<<Queue, writeopen, readopen>>
  BY StreamStep
<1> QED BY <1>1, <1>2, StreamInvariant, PTL
        DEF Spec, ImplementsStream, Promise!StreamSpec, Promise!streamVars

(* If no writer is killed, no reader sleeps on a pipe it could read from   *)
(* and no writer on one it could write to, once pi->lock is free again:    *)
(* whoever changes the pipe is past a wakeup() before he lets go of it.    *)
THEOREM NoneOversleeps ==
  ASSUME Victims \cap Writers = {}
  PROVE  Spec => []NobodyOversleeps
<1>1. Init => PlacesInv /\ SleepersInv
  BY PipeInitInv DEF PipeInv, PlacesInv
<1>2. PlacesInv /\ SleepersInv /\ [Next \/ Over]_vars => (PlacesInv /\ SleepersInv)'
  BY PlacesKept, SleepersKept
<1>3. PlacesInv /\ SleepersInv => NobodyOversleeps
  <2> SUFFICES ASSUME PlacesInv, SleepersInv, lock = Nobody,
                      NEW p \in Procs, pc[p] = "asleep"
               PROVE  MustWait(p)
    BY DEF NobodyOversleeps, MustWait
  <2>1. ~WakeupOwed(p)
    BY PipeAssumption DEF WakeupOwed, PlacesInv, LockHeld, Holding, Procs
  <2> QED BY <2>1 DEF SleepersInv
<1> QED BY <1>1, <1>2, <1>3, PTL DEF Spec
=============================================================================
