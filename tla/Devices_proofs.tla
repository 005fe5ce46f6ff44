--------------------------- MODULE Devices_proofs ---------------------------
(***************************************************************************)
(* The proofs about the two device drivers: the disk's (VirtioDisk), then  *)
(* the console and the UART (Terminal). They share nothing; each part says *)
(* below what its invariant is.                                            *)
(***************************************************************************)
EXTENDS VirtioDisk, Terminal, FiniteSetTheorems, SequenceTheorems, TLAPS

-----------------------------------------------------------------------------
(***************************************************************************)
(* Proofs about the disk driver, for any numbers of processes, buffers,    *)
(* blocks and descriptors.                                                 *)
(*                                                                         *)
(* The descriptors in use are the chains of the processes that wait for    *)
(* the device (ChainsOwned); the heads that the device has or has returned *)
(* are heads of these chains, each once (RingsRight); and b->disk is set   *)
(* exactly as long as the head is in one of the two rings (BusyRight),     *)
(* which is why a process that wakes up and finds it clear may free its    *)
(* chain.                                                                  *)
(***************************************************************************)

InUsed(h) == \E i \in 1 .. Len(used) : used[i] = h

(* A process is in virtio_disk_rw() with its own buffer. *)
CallsRight ==
  /\ \A p \in Callers : at[p] = "out" <=> call[p] = NoCall
  /\ \A p, q \in Callers :
       call[p] # NoCall /\ call[q] # NoCall /\ call[p].buf = call[q].buf => p = q

ChainsOwned ==
  /\ \A p \in Submitted :
       /\ idx[p] \in Descs /\ next[idx[p]] \in Descs /\ next[next[idx[p]]] \in Descs
       /\ idx[p] # next[idx[p]] /\ next[idx[p]] # next[next[idx[p]]]
       /\ idx[p] # next[next[idx[p]]]
       /\ Chain(idx[p]) \cap free = {}
       /\ info[idx[p]] = call[p]
  /\ \A p, q \in Submitted : p # q => Chain(idx[p]) \cap Chain(idx[q]) = {}

RingsRight ==
  /\ \A h \in Descs : h \in inflight \/ InUsed(h) => \E p \in Submitted : idx[p] = h
  /\ \A i \in 1 .. Len(used) : used[i] \notin inflight
  /\ \A i, j \in 1 .. Len(used) : used[i] = used[j] => i = j

BusyRight ==
  /\ \A p \in Submitted :
       busy[call[p].buf] <=> idx[p] \in inflight \/ InUsed(idx[p])
  /\ \A p \in Callers : at[p] = "disk" => busy[call[p].buf]

InterruptDue == used # <<>> => isr \/ handler = "loop"

DriverInv ==
  TypeOK /\ CallsRight /\ ChainsOwned /\ RingsRight /\ BusyRight /\ InterruptDue

-----------------------------------------------------------------------------
LEMMA CallIsOne == \A k \in Calls : k # NoCall
BY DEF Calls, NoCall

LEMMA DriverInitInv == DiskInit => DriverInv
<1> SUFFICES ASSUME DiskInit PROVE DriverInv
  OBVIOUS
<1> USE DiskAssumption DEF DiskInit
<1>1. TypeOK
  <2>1. data \in [Bufs -> Vals] /\ used \in Seq(Descs)
    OBVIOUS
  <2> QED BY <2>1 DEF TypeOK, DiskPlaces
<1>2. Submitted = {} /\ Len(used) = 0
  BY DEF Submitted
<1>3. CallsRight /\ ChainsOwned /\ RingsRight /\ BusyRight /\ InterruptDue
  BY <1>2 DEF CallsRight, ChainsOwned, RingsRight, BusyRight, InterruptDue, InUsed
<1> QED BY <1>1, <1>3 DEF DriverInv

(* A set of naturals has a least element. *)
LEMMA LowestIsIn ==
  ASSUME NEW S \in SUBSET Nat, S # {}
  PROVE  Lowest(S) \in S
<1> DEFINE T == {0 .. d : d \in S}
<1>1. T \subseteq FiniteSubsetsOf(Nat) /\ T # {}
  <2>1. \A d \in S : IsFiniteSet(0 .. d) /\ 0 .. d \in SUBSET Nat
    BY FS_Interval
  <2> QED BY <2>1 DEF FiniteSubsetsOf
<1>2. PICK x \in T : \A y \in T : <<y, x>> \notin StrictSubsetOrdering(Nat)
  <2> HIDE DEF T
  <2> QED BY <1>1, FS_StrictSubsetOrderingWellFounded, WFMin
<1>3. PICK d \in S : x = 0 .. d
  OBVIOUS
<1>4. ASSUME NEW g \in S, g < d
      PROVE  FALSE
  <2>1. 0 .. g \subseteq 0 .. d /\ 0 .. g # 0 .. d
    <3>1. d \in 0 .. d /\ d \notin 0 .. g
      BY <1>4
    <3> QED BY <1>4, <3>1
  <2>2. 0 .. g \in T /\ 0 .. g \in SUBSET Nat /\ 0 .. d \in SUBSET Nat
    OBVIOUS
  <2>3. <<0 .. g, x>> \in StrictSubsetOrdering(Nat)
    BY <1>3, <2>1, <2>2 DEF StrictSubsetOrdering
  <2> QED BY <1>2, <2>2, <2>3
<1>5. \A g \in S : d <= g
  BY <1>4
<1> QED BY <1>5 DEF Lowest

-----------------------------------------------------------------------------
(* Steps that neither submit nor finish anything. *)
LEMMA WaitingInv ==
  ASSUME DriverInv,
         \/ \E p \in Callers : NoDescs(p) \/ NotYet(p) \/ DiskKill(p)
         \/ \E b \in Bufs, v \in Vals : Fill(b, v)
         \/ IntrBegin \/ IntrLast \/ IntrEnd
  PROVE  DriverInv' /\ Submitted' = Submitted
<1> USE DEF DriverInv, ringVars
<1>1. UNCHANGED <<platter, busy, free, next, info, inflight, used, call, idx>>
  BY DEF NoDescs, NotYet, DiskKill, Fill, IntrBegin, IntrLast, IntrEnd
<1>2. /\ at' \in [Callers -> DiskPlaces]
      /\ \A p \in Callers :
           /\ at'[p] = "out" <=> at[p] = "out"
           /\ at'[p] \in {"disk", "woken"} <=> at[p] \in {"disk", "woken"}
           /\ at'[p] = "disk" => at[p] = "disk" \/ busy[call[p].buf]
  <2>1. CASE \E p \in Callers : NoDescs(p)
    BY <2>1 DEF NoDescs, WakeForDescs, TypeOK, DiskPlaces
  <2>2. CASE \E p \in Callers : NotYet(p) \/ DiskKill(p)
    BY <2>2 DEF NotYet, DiskKill, TypeOK, DiskPlaces
  <2>3. CASE at' = at
    BY <2>3 DEF TypeOK
  <2> QED BY <2>1, <2>2, <2>3 DEF Fill, IntrBegin, IntrLast, IntrEnd
<1>3. Submitted' = Submitted
  BY <1>2 DEF Submitted
<1>4. TypeOK'
  <2>1. data' \in [Bufs -> Vals] /\ isr' \in BOOLEAN /\ handler' \in {"off", "loop", "end"}
    BY DEF NoDescs, NotYet, DiskKill, Fill, IntrBegin, IntrLast, IntrEnd, TypeOK
  <2> QED BY <1>1, <1>2, <2>1 DEF TypeOK
<1>5. CallsRight'
  BY <1>1, <1>2 DEF CallsRight
<1>6. ChainsOwned'
  BY <1>1, <1>3 DEF ChainsOwned, Chain
<1>7. RingsRight'
  BY <1>1, <1>3 DEF RingsRight, InUsed
<1>8. BusyRight'
  <2>1. \A p \in Submitted :
          busy[call[p].buf] <=> idx[p] \in inflight \/ InUsed(idx[p])
    BY DEF BusyRight
  <2>2. \A p \in Callers : at'[p] = "disk" => busy[call[p].buf]
    BY <1>2 DEF BusyRight
  <2> QED BY <1>1, <1>3, <2>1, <2>2 DEF BusyRight, InUsed
<1>9. InterruptDue'
  BY <1>1 DEF InterruptDue, NoDescs, NotYet, DiskKill, Fill, IntrBegin, IntrLast, IntrEnd
<1> QED BY <1>3, <1>4, <1>5, <1>6, <1>7, <1>8, <1>9

LEMMA CallInv ==
  ASSUME DriverInv, NEW p \in Callers, NEW k \in Calls, DiskCall(p, k)
  PROVE  DriverInv' /\ Submitted' = Submitted
<1> USE DEF DriverInv, ringVars, DiskCall
<1>1. UNCHANGED <<platter, data, busy, free, next, info, inflight, used, isr, handler, idx>>
  OBVIOUS
<1>2. Submitted' = Submitted /\ p \notin Submitted
  BY DEF Submitted, TypeOK
<1>3. TypeOK'
  BY DEF TypeOK, DiskPlaces
<1>4. CallsRight'
  BY CallIsOne DEF TypeOK, CallsRight
<1>5. \A q \in Submitted : call'[q] = call[q]
  BY <1>2 DEF TypeOK, Submitted
<1>6. ChainsOwned'
  BY <1>1, <1>2, <1>5 DEF ChainsOwned, Chain
<1>7. RingsRight'
  BY <1>1, <1>2 DEF RingsRight, InUsed
<1>8. BusyRight'
  <2>1. \A q \in Submitted :
          busy[call'[q].buf] <=> idx[q] \in inflight \/ InUsed(idx[q])
    BY <1>5 DEF BusyRight
  <2>2. \A q \in Callers : at'[q] = "disk" => busy[call'[q].buf]
    BY <1>5 DEF BusyRight, TypeOK, Submitted
  <2> QED BY <1>1, <1>2, <2>1, <2>2 DEF BusyRight, InUsed
<1>9. InterruptDue'
  BY <1>1 DEF InterruptDue
<1> QED BY <1>2, <1>3, <1>4, <1>6, <1>7, <1>8, <1>9

(* What alloc3_desc() returns. *)
LEMMA ThreeFree ==
  ASSUME TypeOK, Cardinality(free) >= 3
  PROVE  LET h == Lowest(free)
             d == Lowest(free \ {h})
             s == Lowest(free \ {h, d})
         IN  /\ h \in free /\ d \in free /\ s \in free
             /\ h # d /\ h # s /\ d # s
             /\ Cardinality(free \ {h, d, s}) = Cardinality(free) - 3
<1> DEFINE h == Lowest(free)
           d == Lowest(free \ {h})
           s == Lowest(free \ {h, d})
<1> USE DiskAssumption
<1>1. IsFiniteSet(free) /\ free \in SUBSET Nat
  <2>1. 0 \in Int /\ NUM - 1 \in Int /\ free \in SUBSET Descs
    BY DEF TypeOK
  <2>2. IsFiniteSet(Descs) /\ free \in SUBSET Nat
    BY <2>1, FS_Interval DEF Descs
  <2> QED BY <2>1, <2>2, FS_Subset
<1> DEFINE n == Cardinality(free)
<1>2. n \in Nat /\ n >= 3
  BY <1>1, FS_CardinalityType
<1>3. h \in free
  <2>1. free # {}
    BY <1>2, FS_EmptySet
  <2> QED BY <1>1, <2>1, LowestIsIn
<1> HIDE DEF h
<1>4. IsFiniteSet(free \ {h}) /\ Cardinality(free \ {h}) = n - 1
  BY <1>1, <1>3, FS_RemoveElement
<1>5. d \in free \ {h}
  <2>1. free \ {h} # {}
    BY <1>2, <1>4, FS_EmptySet
  <2>2. free \ {h} \in SUBSET Nat
    BY <1>1
  <2> QED BY <2>1, <2>2, LowestIsIn
<1> HIDE DEF d
<1>6. /\ IsFiniteSet(free \ {h, d}) /\ Cardinality(free \ {h, d}) = n - 2
  <2>1. (free \ {h}) \ {d} = free \ {h, d}
    OBVIOUS
  <2>2. Cardinality((free \ {h}) \ {d}) = (n - 1) - 1 /\ IsFiniteSet((free \ {h}) \ {d})
    BY <1>4, <1>5, FS_RemoveElement
  <2> QED BY <1>2, <2>1, <2>2
<1>7. s \in free \ {h, d}
  <2>1. free \ {h, d} # {}
    BY <1>2, <1>6, FS_EmptySet
  <2>2. free \ {h, d} \in SUBSET Nat
    BY <1>1
  <2> QED BY <2>1, <2>2, LowestIsIn
<1> HIDE DEF s
<1>8. Cardinality(free \ {h, d, s}) = n - 3
  <2>1. (free \ {h, d}) \ {s} = free \ {h, d, s}
    OBVIOUS
  <2>2. Cardinality((free \ {h, d}) \ {s}) = (n - 2) - 1
    BY <1>6, <1>7, FS_RemoveElement
  <2>3. Cardinality(free \ {h, d, s}) = (n - 2) - 1
    BY ONLY <2>1, <2>2
  <2> HIDE DEF n
  <2> QED BY ONLY <1>2, <2>3
<1> QED BY <1>3, <1>5, <1>7, <1>8 DEF h, d, s

LEMMA SubmitInv ==
  ASSUME DriverInv, NEW p \in Callers, Submit(p)
  PROVE  /\ DriverInv'
         /\ p \notin Submitted /\ Submitted' = Submitted \cup {p}
         /\ Cardinality(free') = Cardinality(free) - 3
<1> USE DEF DriverInv
<1>1. PICK h \in free, d \in free, s \in free :
        /\ h # d /\ h # s /\ d # s
        /\ Cardinality(free \ {h, d, s}) = Cardinality(free) - 3
        /\ free' = free \ {h, d, s}
        /\ next' = [next EXCEPT ![h] = d, ![d] = s]
        /\ info' = [info EXCEPT ![h] = call[p]]
        /\ inflight' = inflight \cup {h}
        /\ idx' = [idx EXCEPT ![p] = h]
  BY ThreeFree DEF Submit
<1>2. /\ at[p] = "descs" /\ at' = [at EXCEPT ![p] = "disk"]
      /\ busy' = [busy EXCEPT ![call[p].buf] = TRUE]
      /\ UNCHANGED <<platter, data, used, isr, handler, call>>
  BY DEF Submit
<1>3. p \notin Submitted /\ Submitted' = Submitted \cup {p}
  BY <1>2 DEF Submitted, TypeOK
<1>4. call[p] \in Calls /\ call[p].buf \in Bufs /\ call[p] # NoCall
  BY <1>2 DEF TypeOK, CallsRight, Calls
<1>5. /\ h \in Descs /\ d \in Descs /\ s \in Descs
      /\ next' \in [Descs -> Descs \cup {NoDesc}]
      /\ next'[h] = d /\ next'[d] = s
      /\ \A g \in Descs \ free : next'[g] = next[g]
  BY <1>1 DEF TypeOK
<1>6. TypeOK'
  <2>1. /\ free' \subseteq Descs /\ inflight' \subseteq Descs
        /\ idx' \in [Callers -> Descs \cup {NoDesc}]
        /\ info' \in [Descs -> Calls \cup {NoCall}]
    BY <1>1, <1>4, <1>5 DEF TypeOK
  <2>2. at' \in [Callers -> DiskPlaces] /\ busy' \in [Bufs -> BOOLEAN]
    BY <1>2 DEF TypeOK, DiskPlaces
  <2> QED BY <1>2, <1>5, <2>1, <2>2 DEF TypeOK
<1>7. CallsRight'
  BY <1>2 DEF CallsRight, TypeOK
<1>8. \A q \in Submitted :
        /\ q # p /\ idx'[q] = idx[q] /\ idx[q] \notin free /\ idx[q] # h
        /\ next'[idx[q]] = next[idx[q]] /\ next'[next[idx[q]]] = next[next[idx[q]]]
        /\ info'[idx[q]] = info[idx[q]]
        /\ call[q] # NoCall /\ call[q].buf # call[p].buf
  <2> SUFFICES ASSUME NEW q \in Submitted
               PROVE  /\ q # p /\ idx'[q] = idx[q] /\ idx[q] \notin free /\ idx[q] # h
                      /\ next'[idx[q]] = next[idx[q]]
                      /\ next'[next[idx[q]]] = next[next[idx[q]]]
                      /\ info'[idx[q]] = info[idx[q]]
                      /\ call[q] # NoCall /\ call[q].buf # call[p].buf
    OBVIOUS
  <2>1. q \in Callers /\ q # p /\ at[q] # "out"
    BY <1>3 DEF Submitted
  <2>2. /\ idx[q] \in Descs \ free /\ next[idx[q]] \in Descs \ free
    BY DEF ChainsOwned, Chain
  <2>3. idx'[q] = idx[q] /\ idx[q] # h /\ info'[idx[q]] = info[idx[q]]
    BY <1>1, <2>1, <2>2 DEF TypeOK
  <2>4. call[q] # NoCall /\ call[q].buf # call[p].buf
    BY <1>4, <2>1 DEF CallsRight
  <2> QED BY <1>5, <2>1, <2>2, <2>3, <2>4
<1>9. idx'[p] = h /\ info'[h] = call[p]
  BY <1>1, <1>5 DEF TypeOK
<1>10. ChainsOwned'
  <2>1. \A q \in Submitted : Chain(idx[q])' = Chain(idx[q])
    BY <1>8 DEF Chain
  <2>2. Chain(idx[p])' = {h, d, s}
    BY <1>5, <1>9 DEF Chain
  <2>3. \A q \in Submitted : Chain(idx[q]) \cap free = {}
    BY DEF ChainsOwned
  <2>4. ASSUME NEW q \in Submitted'
        PROVE  /\ idx'[q] \in Descs /\ next'[idx'[q]] \in Descs
               /\ next'[next'[idx'[q]]] \in Descs
               /\ idx'[q] # next'[idx'[q]] /\ next'[idx'[q]] # next'[next'[idx'[q]]]
               /\ idx'[q] # next'[next'[idx'[q]]]
               /\ info'[idx'[q]] = call'[q]
    <3>1. CASE q = p
      BY <1>1, <1>2, <1>5, <1>9, <3>1
    <3>2. CASE q \in Submitted
      BY <1>2, <1>8, <3>2 DEF ChainsOwned
    <3> QED BY <1>3, <3>1, <3>2
  <2>5. ASSUME NEW q \in Submitted'
        PROVE  Chain(idx[q])' \cap free' = {}
    BY <1>1, <1>3, <2>1, <2>2, <2>3
  <2>6. ASSUME NEW q \in Submitted', NEW k \in Submitted', q # k
        PROVE  Chain(idx[q])' \cap Chain(idx[k])' = {}
    <3>1. CASE q \in Submitted /\ k \in Submitted
      BY <2>1, <2>6, <3>1 DEF ChainsOwned
    <3>2. CASE q = p \/ k = p
      BY <1>1, <1>3, <2>1, <2>2, <2>3, <2>6, <3>2
    <3> QED BY <1>3, <3>1, <3>2
  <2> QED BY <2>4, <2>5, <2>6 DEF ChainsOwned
<1>11. RingsRight'
  <2>1. h \notin inflight /\ ~InUsed(h)
    BY <1>5, <1>8 DEF RingsRight
  <2>2. \A i \in 1 .. Len(used) : used[i] # h
    BY <2>1 DEF InUsed
  <2>3. \A g \in Descs : g \in inflight' \/ InUsed(g)' => \E q \in Submitted' : idx'[q] = g
    <3> SUFFICES ASSUME NEW g \in Descs, g \in inflight' \/ InUsed(g)'
                 PROVE  \E q \in Submitted' : idx'[q] = g
      OBVIOUS
    <3>1. CASE g = h
      BY <1>3, <1>9, <3>1
    <3>2. CASE g # h
      <4>1. g \in inflight \/ InUsed(g)
        BY <1>1, <1>2, <3>2 DEF InUsed
      <4> QED BY <1>3, <1>8, <4>1 DEF RingsRight
    <3> QED BY <3>1, <3>2
  <2> QED BY <1>1, <1>2, <2>2, <2>3 DEF RingsRight
<1>12. BusyRight'
  <2>1. \A q \in Submitted :
          busy'[call[q].buf] <=> idx[q] \in inflight' \/ InUsed(idx[q])'
    <3> SUFFICES ASSUME NEW q \in Submitted
                 PROVE  busy'[call[q].buf] <=> idx[q] \in inflight' \/ InUsed(idx[q])'
      OBVIOUS
    <3>1. busy'[call[q].buf] = busy[call[q].buf]
      <4>1. call[q].buf \in Bufs
        BY <1>8 DEF TypeOK, Calls, Submitted
      <4> QED BY <1>2, <1>8, <4>1 DEF TypeOK
    <3>2. idx[q] \in inflight' <=> idx[q] \in inflight
      BY <1>1, <1>8
    <3>3. InUsed(idx[q])' <=> InUsed(idx[q])
      BY <1>2, <1>8 DEF InUsed
    <3> QED BY <3>1, <3>2, <3>3 DEF BusyRight
  <2>2. busy'[call[p].buf] /\ idx'[p] \in inflight'
    BY <1>1, <1>2, <1>4, <1>9 DEF TypeOK
  <2>3. ASSUME NEW q \in Callers, at'[q] = "disk"
        PROVE  busy'[call[q].buf]
    <3>1. CASE q = p
      BY <2>2, <3>1
    <3>2. CASE q # p
      <4>1. at[q] = "disk" /\ busy[call[q].buf] /\ q \in Submitted
        BY <1>2, <2>3, <3>2 DEF TypeOK, BusyRight, Submitted
      <4>2. call[q].buf \in Bufs
        BY <1>8, <4>1 DEF TypeOK, Calls
      <4> QED BY <1>2, <4>1, <4>2 DEF TypeOK
    <3> QED BY <3>1, <3>2
  <2>4. \A q \in Submitted' :
          busy'[call'[q].buf] <=> idx'[q] \in inflight' \/ InUsed(idx[q])'
    <3>1. ASSUME NEW q \in Submitted
          PROVE  InUsed(idx[q])' <=> \E i \in 1 .. Len(used') : used'[i] = idx[q]
      BY <1>8 DEF InUsed
    <3> QED BY <1>2, <1>3, <1>8, <2>1, <2>2
  <2> QED BY <1>2, <2>3, <2>4 DEF BusyRight
<1>13. InterruptDue'
  BY <1>2 DEF InterruptDue
<1> QED BY <1>1, <1>3, <1>6, <1>7, <1>10, <1>11, <1>12, <1>13

LEMMA DoneInv ==
  ASSUME DriverInv, NEW p \in Callers, Done(p)
  PROVE  /\ DriverInv'
         /\ p \in Submitted /\ Submitted' = Submitted \ {p}
         /\ idx[p] \notin inflight
         /\ Cardinality(free') = Cardinality(free) + 3
<1> USE DEF DriverInv
<1>1. PICK h \in Descs, d \in Descs, s \in Descs :
        /\ h = idx[p] /\ d = next[h] /\ s = next[d]
        /\ h # d /\ h # s /\ d # s
        /\ {h, d, s} \cap free = {}
        /\ Chain(idx[p]) = {h, d, s}
  BY DEF Done, ChainsOwned, Submitted, Chain
<1>2. /\ at[p] = "woken" /\ ~busy[call[p].buf]
      /\ free' = free \cup {h, d, s}
      /\ info' = [info EXCEPT ![h] = NoCall]
      /\ next' = [g \in Descs |-> IF g \in {h, d, s} THEN NoDesc ELSE next[g]]
      /\ idx' = [idx EXCEPT ![p] = NoDesc]
      /\ call' = [call EXCEPT ![p] = NoCall]
      /\ at' = [q \in Callers |-> IF q = p THEN "out"
                                ELSE IF at[q] = "nodesc" THEN "descs" ELSE at[q]]
      /\ UNCHANGED <<platter, data, busy, inflight, used, isr, handler>>
  BY <1>1 DEF Done, WakeForDescs
<1>3. p \in Submitted /\ Submitted' = Submitted \ {p}
  BY <1>2 DEF Submitted, TypeOK
<1>4. h \notin inflight /\ ~InUsed(h)
  BY <1>1, <1>2, <1>3 DEF BusyRight
<1>5. TypeOK'
  <2>1. /\ free' \subseteq Descs /\ idx' \in [Callers -> Descs \cup {NoDesc}]
        /\ next' \in [Descs -> Descs \cup {NoDesc}]
    BY <1>1, <1>2 DEF TypeOK
  <2>2. /\ info' \in [Descs -> Calls \cup {NoCall}]
        /\ call' \in [Callers -> Calls \cup {NoCall}]
    BY <1>1, <1>2 DEF TypeOK
  <2>3. at' \in [Callers -> DiskPlaces]
    BY <1>2 DEF TypeOK, DiskPlaces
  <2> QED BY <1>2, <2>1, <2>2, <2>3 DEF TypeOK
<1>6. CallsRight'
  <2>1. \A q \in Callers : at'[q] = "out" <=> call'[q] = NoCall
    BY <1>2 DEF CallsRight, TypeOK
  <2>2. \A q \in Callers : call'[q] # NoCall => call'[q] = call[q] /\ call[q] # NoCall
    BY <1>2 DEF TypeOK
  <2> QED BY <2>1, <2>2 DEF CallsRight
<1>7. \A q \in Submitted' :
        /\ q \in Submitted /\ q # p
        /\ idx'[q] = idx[q] /\ call'[q] = call[q]
        /\ Chain(idx[q]) \cap {h, d, s} = {}
        /\ next'[idx[q]] = next[idx[q]] /\ next'[next[idx[q]]] = next[next[idx[q]]]
        /\ info'[idx[q]] = info[idx[q]]
  <2> SUFFICES ASSUME NEW q \in Submitted'
               PROVE  /\ q \in Submitted /\ q # p
                      /\ idx'[q] = idx[q] /\ call'[q] = call[q]
                      /\ Chain(idx[q]) \cap {h, d, s} = {}
                      /\ next'[idx[q]] = next[idx[q]]
                      /\ next'[next[idx[q]]] = next[next[idx[q]]]
                      /\ info'[idx[q]] = info[idx[q]]
    OBVIOUS
  <2>1. q \in Submitted /\ q # p /\ q \in Callers
    BY <1>3 DEF Submitted
  <2>2. Chain(idx[q]) \cap {h, d, s} = {}
    BY <1>1, <1>3, <2>1 DEF ChainsOwned
  <2>3. /\ idx[q] \in Descs /\ next[idx[q]] \in Descs
        /\ idx[q] \notin {h, d, s} /\ next[idx[q]] \notin {h, d, s}
    BY <2>1, <2>2 DEF ChainsOwned, Chain
  <2>4. idx'[q] = idx[q] /\ call'[q] = call[q] /\ info'[idx[q]] = info[idx[q]]
    BY <1>2, <2>1, <2>3 DEF TypeOK
  <2> QED BY <1>2, <2>1, <2>2, <2>3, <2>4
<1>8. \A q \in Submitted' : Chain(idx[q])' = Chain(idx[q])
  BY <1>7 DEF Chain
<1>9. ChainsOwned'
  <2>1. ASSUME NEW q \in Submitted'
        PROVE  /\ idx'[q] \in Descs /\ next'[idx'[q]] \in Descs
               /\ next'[next'[idx'[q]]] \in Descs
               /\ idx'[q] # next'[idx'[q]] /\ next'[idx'[q]] # next'[next'[idx'[q]]]
               /\ idx'[q] # next'[next'[idx'[q]]]
               /\ info'[idx'[q]] = call'[q]
    BY <1>7 DEF ChainsOwned
  <2>2. ASSUME NEW q \in Submitted'
        PROVE  Chain(idx[q])' \cap free' = {}
    <3>1. Chain(idx[q]) \cap free = {} /\ Chain(idx[q]) \cap {h, d, s} = {}
      BY <1>7 DEF ChainsOwned
    <3> QED BY <1>2, <1>8, <3>1
  <2>3. ASSUME NEW q \in Submitted', NEW k \in Submitted', q # k
        PROVE  Chain(idx[q])' \cap Chain(idx[k])' = {}
    BY <1>7, <1>8, <2>3 DEF ChainsOwned
  <2> QED BY <2>1, <2>2, <2>3 DEF ChainsOwned
<1>10. RingsRight'
  <2>1. ASSUME NEW g \in Descs, g \in inflight \/ InUsed(g)
        PROVE  \E q \in Submitted' : idx'[q] = g
    <3>1. PICK q \in Submitted : idx[q] = g
      BY <2>1 DEF RingsRight
    <3>2. q \in Submitted'
      BY <1>1, <1>3, <1>4, <2>1, <3>1
    <3> QED BY <1>7, <3>1, <3>2
  <2> QED BY <1>2, <2>1 DEF RingsRight, InUsed
<1>11. BusyRight'
  <2>1. \A q \in Submitted' : InUsed(idx[q])' <=> InUsed(idx[q])
    BY <1>2, <1>7 DEF InUsed
  <2>2. \A q \in Callers : at'[q] = "disk" => at[q] = "disk" /\ call'[q] = call[q]
    BY <1>2 DEF TypeOK
  <2> QED BY <1>2, <1>7, <2>1, <2>2 DEF BusyRight
<1>12. InterruptDue'
  BY <1>2 DEF InterruptDue
<1>13. Cardinality(free') = Cardinality(free) + 3
  <2>1. IsFiniteSet(free)
    <3>1. 0 \in Int /\ NUM - 1 \in Int
      BY DiskAssumption
    <3>2. IsFiniteSet(Descs)
      BY <3>1, FS_Interval DEF Descs
    <3> QED BY <3>2, FS_Subset DEF TypeOK
  <2>2. Cardinality(free) \in Nat
    BY <2>1, FS_CardinalityType
  <2>3. /\ IsFiniteSet(free \cup {h})
        /\ Cardinality(free \cup {h}) = Cardinality(free) + 1
    BY <1>1, <2>1, FS_AddElement
  <2>4. /\ IsFiniteSet((free \cup {h}) \cup {d})
        /\ Cardinality((free \cup {h}) \cup {d}) = Cardinality(free \cup {h}) + 1
    <3>1. d \notin free \cup {h}
      BY <1>1
    <3> QED BY <2>3, <3>1, FS_AddElement
  <2>5. Cardinality(((free \cup {h}) \cup {d}) \cup {s})
          = Cardinality((free \cup {h}) \cup {d}) + 1
    <3>1. s \notin (free \cup {h}) \cup {d}
      BY <1>1
    <3> QED BY <2>4, <3>1, FS_AddElement
  <2>6. free' = ((free \cup {h}) \cup {d}) \cup {s}
    BY <1>2
  <2> QED BY <2>2, <2>3, <2>4, <2>5, <2>6
<1> QED BY <1>1, <1>3, <1>4, <1>5, <1>6, <1>9, <1>10, <1>11, <1>12, <1>13

LEMMA TransferInv ==
  ASSUME DriverInv, NEW h \in Descs, Transfer(h)
  PROVE  DriverInv' /\ Submitted' = Submitted
<1> USE DEF DriverInv
<1>1. /\ h \in inflight /\ inflight' = inflight \ {h}
      /\ used' = Append(used, h) /\ isr' = TRUE
      /\ UNCHANGED <<busy, free, next, info, handler, at, call, idx>>
  BY DEF Transfer
<1>2. PICK p \in Submitted : idx[p] = h
  BY <1>1 DEF RingsRight
<1>3. info[h] = call[p] /\ info[h] \in Calls
  BY <1>2 DEF ChainsOwned, CallsRight, TypeOK, Submitted
<1>4. Submitted' = Submitted
  BY <1>1 DEF Submitted
<1>5. TypeOK'
  <2>1. data' \in [Bufs -> Vals] /\ platter' \in [Blocks -> Vals]
    BY <1>3 DEF Transfer, TypeOK, Calls
  <2>2. used' \in Seq(Descs)
    BY <1>1 DEF TypeOK
  <2> QED BY <1>1, <2>1, <2>2 DEF TypeOK
<1>6. CallsRight'
  BY <1>1 DEF CallsRight
<1>7. ChainsOwned'
  BY <1>1, <1>4 DEF ChainsOwned, Chain
<1>8. /\ Len(used') = Len(used) + 1 /\ Len(used) \in Nat
      /\ \A i \in 1 .. Len(used) : used'[i] = used[i]
      /\ used'[Len(used) + 1] = h
  BY <1>1 DEF TypeOK
<1>9. \A g \in Descs : InUsed(g)' <=> InUsed(g) \/ g = h
  <2> TAKE g \in Descs
  <2>1. InUsed(g)' => InUsed(g) \/ g = h
    BY <1>8 DEF InUsed
  <2>2. InUsed(g) => InUsed(g)'
    BY <1>8 DEF InUsed
  <2>3. g = h => InUsed(g)'
    <3>1. Len(used) + 1 \in 1 .. Len(used')
      BY <1>8
    <3> QED BY <1>8, <3>1 DEF InUsed
  <2> QED BY <2>1, <2>2, <2>3
<1>10. \A i \in 1 .. Len(used) : used[i] \in Descs /\ used[i] # h
  BY <1>1 DEF RingsRight, TypeOK
<1>11. RingsRight'
  <2>1. \A g \in Descs : g \in inflight' \/ InUsed(g)' => g \in inflight \/ InUsed(g)
    BY <1>1, <1>9
  <2>2. \A g \in Descs : g \in inflight' \/ InUsed(g)' => \E q \in Submitted' : idx'[q] = g
    BY <1>1, <1>4, <2>1 DEF RingsRight
  <2>3. \A i \in 1 .. Len(used') : used'[i] \notin inflight'
    BY <1>1, <1>8 DEF RingsRight
  <2>4. \A i, j \in 1 .. Len(used') : used'[i] = used'[j] => i = j
    BY <1>8, <1>10 DEF RingsRight
  <2> QED BY <2>2, <2>3, <2>4 DEF RingsRight
<1>12. BusyRight'
  <2>1. \A q \in Submitted : idx[q] \in Descs
    BY DEF ChainsOwned
  <2>2. ASSUME NEW q \in Submitted
        PROVE  InUsed(idx[q])' <=> InUsed(idx[q]) \/ idx[q] = h
    <3>1. idx'[q] = idx[q]
      BY <1>1
    <3>2. PICK g \in Descs : g = idx[q]
      BY <2>1
    <3>3. InUsed(idx[q])' <=> InUsed(g)'
      BY <3>1, <3>2 DEF InUsed
    <3> QED BY <1>9, <3>2, <3>3
  <2>3. ASSUME NEW q \in Submitted
        PROVE  idx[q] \in inflight' \/ InUsed(idx[q])' <=> idx[q] \in inflight \/ InUsed(idx[q])
    BY <1>1, <2>2
  <2>4. \A q \in Submitted : busy[call[q].buf] <=> idx[q] \in inflight' \/ InUsed(idx[q])'
    BY <2>3 DEF BusyRight
  <2>5. \A q \in Submitted' : busy'[call'[q].buf] <=> idx'[q] \in inflight' \/ InUsed(idx[q])'
    BY <1>1, <1>4, <2>4
  <2>6. \A q \in Callers : at'[q] = "disk" => busy'[call'[q].buf]
    BY <1>1 DEF BusyRight
  <2> QED BY <2>5, <2>6 DEF BusyRight
<1>13. InterruptDue'
  BY <1>1 DEF InterruptDue
<1> QED BY <1>4, <1>5, <1>6, <1>7, <1>11, <1>12, <1>13

LEMMA IntrNextInv ==
  ASSUME DriverInv, IntrNext
  PROVE  DriverInv' /\ Submitted' = Submitted
<1> USE DEF DriverInv
<1>1. /\ handler = "loop" /\ used # <<>> /\ used' = Tail(used)
      /\ UNCHANGED <<platter, data, free, next, info, inflight, isr, handler, call, idx>>
  BY DEF IntrNext
<1>2. /\ Len(used) \in Nat /\ Len(used) >= 1
      /\ used[1] \in Descs /\ Head(used) = used[1]
      /\ Len(used') = Len(used) - 1 /\ used' \in Seq(Descs)
      /\ \A i \in 1 .. Len(used') : used'[i] = used[i + 1]
  BY <1>1 DEF TypeOK
<1>3. PICK p \in Submitted : idx[p] = used[1]
  BY <1>2 DEF RingsRight, InUsed
<1>4. /\ p \in Callers /\ at[p] # "out"
      /\ info[used[1]] = call[p] /\ call[p] # NoCall /\ call[p].buf \in Bufs
  BY <1>3 DEF ChainsOwned, CallsRight, TypeOK, Submitted, Calls
<1>5. /\ busy' = [busy EXCEPT ![call[p].buf] = FALSE]
      /\ at' = [q \in Callers |-> IF at[q] = "disk" /\ call[q].buf = call[p].buf
                                  THEN "woken" ELSE at[q]]
  BY <1>2, <1>4 DEF IntrNext
<1>6. Submitted' = Submitted
  BY <1>5 DEF Submitted, TypeOK
<1>7. TypeOK'
  <2>1. busy' \in [Bufs -> BOOLEAN] /\ at' \in [Callers -> DiskPlaces]
    BY <1>4, <1>5 DEF TypeOK, DiskPlaces
  <2> QED BY <1>1, <1>2, <2>1 DEF TypeOK
<1>8. CallsRight'
  BY <1>1, <1>5 DEF CallsRight, TypeOK
<1>9. ChainsOwned'
  BY <1>1, <1>6 DEF ChainsOwned, Chain
<1>10. \A g \in Descs : InUsed(g)' <=> InUsed(g) /\ g # used[1]
  <2> TAKE g \in Descs
  <2>1. ASSUME InUsed(g)' PROVE InUsed(g) /\ g # used[1]
    <3>1. PICK i \in 1 .. Len(used') : used'[i] = g
      BY <2>1 DEF InUsed
    <3>2. i + 1 \in 1 .. Len(used) /\ i + 1 # 1 /\ 1 \in 1 .. Len(used) /\ used[i + 1] = g
      BY <1>2, <3>1
    <3> QED BY <3>2 DEF InUsed, RingsRight
  <2>2. ASSUME InUsed(g), g # used[1] PROVE InUsed(g)'
    <3>1. PICK i \in 1 .. Len(used) : used[i] = g
      BY <2>2 DEF InUsed
    <3>2. i - 1 \in 1 .. Len(used') /\ used'[i - 1] = g
      BY <1>2, <2>2, <3>1
    <3> QED BY <3>2 DEF InUsed
  <2> QED BY <2>1, <2>2
<1>11. \A q \in Submitted : q # p =>
         call[q] # NoCall /\ call[q].buf \in Bufs /\ call[q].buf # call[p].buf
         /\ idx[q] # used[1]
  <2> SUFFICES ASSUME NEW q \in Submitted, q # p
               PROVE  call[q] # NoCall /\ call[q].buf \in Bufs /\ call[q].buf # call[p].buf
                      /\ idx[q] # used[1]
    OBVIOUS
  <2>1. q \in Callers /\ at[q] # "out" /\ call[q] # NoCall
    BY DEF Submitted, CallsRight
  <2>2. call[q].buf \in Bufs /\ call[q].buf # call[p].buf
    BY <1>4, <2>1 DEF CallsRight, TypeOK, Calls
  <2>3. idx[q] # idx[p]
    BY DEF ChainsOwned, Chain
  <2> QED BY <1>3, <2>1, <2>2, <2>3
<1>12. RingsRight'
  <2>1. \A g \in Descs : g \in inflight' \/ InUsed(g)' => \E q \in Submitted' : idx'[q] = g
    BY <1>1, <1>6, <1>10 DEF RingsRight
  <2>2. \A i \in 1 .. Len(used') : i + 1 \in 1 .. Len(used) /\ used'[i] = used[i + 1]
    BY <1>2
  <2>3. \A i \in 1 .. Len(used') : used'[i] \notin inflight'
    BY <1>1, <2>2 DEF RingsRight
  <2>4. \A i, j \in 1 .. Len(used') : used'[i] = used'[j] => i = j
    <3> TAKE i, j \in 1 .. Len(used')
    <3>1. used'[i] = used'[j] => i + 1 = j + 1
      BY <2>2 DEF RingsRight
    <3>2. i \in Int /\ j \in Int
      OBVIOUS
    <3> QED BY <3>1, <3>2
  <2> QED BY <2>1, <2>3, <2>4 DEF RingsRight
<1>13. BusyRight'
  <2>1. ASSUME NEW q \in Submitted
        PROVE  InUsed(idx[q])' <=> InUsed(idx[q]) /\ idx[q] # used[1]
    <3>1. PICK g \in Descs : g = idx[q]
      BY DEF ChainsOwned
    <3>2. InUsed(idx[q])' <=> InUsed(g)'
      BY <1>1, <3>1 DEF InUsed
    <3> QED BY <1>10, <3>1, <3>2
  <2>2. ASSUME NEW q \in Submitted, q # p
        PROVE  /\ busy'[call[q].buf] = busy[call[q].buf]
               /\ InUsed(idx[q])' <=> InUsed(idx[q])
    BY <1>5, <1>11, <2>1, <2>2 DEF TypeOK
  <2>3. ~busy'[call[p].buf] /\ idx[p] \notin inflight /\ ~InUsed(idx[p])'
    <3>1. used[1] \notin inflight
      BY <1>2 DEF RingsRight
    <3> QED BY <1>3, <1>4, <1>5, <2>1, <3>1 DEF TypeOK
  <2>4. ASSUME NEW q \in Submitted
        PROVE  busy'[call[q].buf] <=> idx[q] \in inflight \/ InUsed(idx[q])'
    <3>1. CASE q = p
      BY <2>3, <3>1
    <3>2. CASE q # p
      BY <2>2, <3>2 DEF BusyRight
    <3> QED BY <3>1, <3>2
  <2>5. ASSUME NEW q \in Callers, at'[q] = "disk"
        PROVE  busy'[call[q].buf]
    <3>1. at[q] = "disk" /\ call[q].buf # call[p].buf /\ q \in Submitted /\ q # p
      BY <1>5, <2>5 DEF TypeOK, Submitted
    <3> QED BY <2>2, <3>1 DEF BusyRight
  <2>6. \A q \in Submitted' : busy'[call'[q].buf] <=> idx'[q] \in inflight' \/ InUsed(idx[q])'
    BY <1>1, <1>6, <2>4
  <2>7. \A q \in Callers : at'[q] = "disk" => busy'[call'[q].buf]
    BY <1>1, <2>5
  <2> QED BY <2>6, <2>7 DEF BusyRight
<1>14. InterruptDue'
  BY <1>1 DEF InterruptDue
<1> QED BY <1>6, <1>7, <1>8, <1>9, <1>12, <1>13, <1>14

-----------------------------------------------------------------------------
(* No descriptor is lost. *)
CountRight == Cardinality(free) + 3 * Cardinality(Submitted) = NUM

LEMMA SizesFinite ==
  ASSUME TypeOK
  PROVE  /\ IsFiniteSet(Submitted) /\ Cardinality(Submitted) \in Nat
         /\ IsFiniteSet(free) /\ Cardinality(free) \in Nat
<1> USE DiskAssumption
<1>1. IsFiniteSet(Submitted)
  <2>1. Submitted \subseteq Callers
    BY DEF Submitted
  <2> QED BY <2>1, FS_Subset
<1>2. IsFiniteSet(free)
  <2>1. 0 \in Int /\ NUM - 1 \in Int
    OBVIOUS
  <2>2. IsFiniteSet(Descs)
    BY <2>1, FS_Interval DEF Descs
  <2> QED BY <2>2, FS_Subset DEF TypeOK
<1> QED BY <1>1, <1>2, FS_CardinalityType

LEMMA CountInit == DiskInit => CountRight
<1> SUFFICES ASSUME DiskInit PROVE CountRight
  OBVIOUS
<1> USE DiskAssumption
<1>1. Cardinality(free) = NUM
  <2>1. 0 \in Int /\ NUM - 1 \in Int /\ 0 <= NUM - 1
    OBVIOUS
  <2>2. Cardinality(0 .. NUM - 1) = (NUM - 1) - 0 + 1
    BY <2>1, FS_Interval
  <2> QED BY <2>2 DEF DiskInit, Descs
<1>2. Submitted = {}
  BY DEF Submitted, DiskInit
<1>3. Cardinality(Submitted) = 0
  BY <1>2, FS_EmptySet
<1> QED BY <1>1, <1>3 DEF CountRight

LEMMA StepInv ==
  ASSUME DriverInv, CountRight, [DiskNext]_diskVars
  PROVE  DriverInv' /\ CountRight'
<1>0. TypeOK
  BY DEF DriverInv
<1> DEFINE Quiet == \/ \E p \in Callers : NoDescs(p) \/ NotYet(p) \/ DiskKill(p)
                    \/ \E b \in Bufs, v \in Vals : Fill(b, v)
                    \/ IntrBegin \/ IntrLast \/ IntrEnd
<1>1. CASE Quiet
  <2>1. DriverInv' /\ Submitted' = Submitted
    BY <1>1, WaitingInv
  <2>2. free' = free
    BY <1>1 DEF NoDescs, NotYet, DiskKill, Fill, IntrBegin, IntrLast, IntrEnd, ringVars
  <2> QED BY <2>1, <2>2 DEF CountRight
<1>2. CASE \E p \in Callers, k \in Calls : DiskCall(p, k)
  <2>1. DriverInv' /\ Submitted' = Submitted
    BY <1>2, CallInv
  <2>2. free' = free
    BY <1>2 DEF DiskCall, ringVars
  <2> QED BY <2>1, <2>2 DEF CountRight
<1>3. ASSUME NEW p \in Callers, Submit(p)
      PROVE  DriverInv' /\ CountRight'
  <2>1. /\ DriverInv'
        /\ p \notin Submitted /\ Submitted' = Submitted \cup {p}
        /\ Cardinality(free') = Cardinality(free) - 3
    BY <1>3, SubmitInv
  <2>2. /\ Cardinality(Submitted \cup {p}) = Cardinality(Submitted) + 1
        /\ Cardinality(Submitted) \in Nat /\ Cardinality(free) \in Nat
    BY <1>0, <2>1, SizesFinite, FS_AddElement
  <2> QED BY <2>1, <2>2, DiskAssumption DEF CountRight
<1>4. ASSUME NEW p \in Callers, Done(p)
      PROVE  DriverInv' /\ CountRight'
  <2>1. /\ DriverInv'
        /\ p \in Submitted /\ Submitted' = Submitted \ {p}
        /\ Cardinality(free') = Cardinality(free) + 3
    BY <1>4, DoneInv
  <2>2. /\ Cardinality(Submitted \ {p}) = Cardinality(Submitted) - 1
        /\ Cardinality(Submitted) \in Nat /\ Cardinality(free) \in Nat
    BY <1>0, <2>1, SizesFinite, FS_RemoveElement
  <2> QED BY <2>1, <2>2, DiskAssumption DEF CountRight
<1>5. CASE (\E h \in Descs : Transfer(h)) \/ IntrNext
  <2>1. DriverInv' /\ Submitted' = Submitted
    BY <1>5, TransferInv, IntrNextInv
  <2>2. free' = free
    BY <1>5 DEF Transfer, IntrNext
  <2> QED BY <2>1, <2>2 DEF CountRight
<1>6. CASE UNCHANGED diskVars
  BY <1>6 DEF diskVars, ringVars, DriverInv, CountRight, TypeOK, CallsRight, ChainsOwned,
              RingsRight, BusyRight, InterruptDue, InUsed, Submitted, Chain
<1> QED BY <1>1, <1>2, <1>3, <1>4, <1>5, <1>6 DEF DiskNext, Progress, Intr

(* The inductive invariant of the driver and its device. *)
THEOREM DriverInvariant == DiskSpec => [](DriverInv /\ CountRight)
<1>1. DiskInit => DriverInv /\ CountRight
  BY DriverInitInv, CountInit
<1>2. (DriverInv /\ CountRight) /\ [DiskNext]_diskVars => (DriverInv /\ CountRight)'
  BY StepInv
<1> QED BY <1>1, <1>2, PTL DEF DiskSpec

(* Three descriptors that differ are three. *)
LEMMA ThreeInChain ==
  ASSUME NEW h, NEW d, NEW s, h # d, d # s, h # s
  PROVE  Cardinality({h, d, s}) = 3
<1>1. IsFiniteSet({h}) /\ Cardinality({h}) = 1
  BY FS_Singleton
<1>2. IsFiniteSet({h} \cup {d}) /\ Cardinality({h} \cup {d}) = 2
  BY <1>1, FS_AddElement
<1>3. Cardinality(({h} \cup {d}) \cup {s}) = 3
  BY <1>2, FS_AddElement
<1>4. ({h} \cup {d}) \cup {s} = {h, d, s}
  OBVIOUS
<1> QED BY <1>3, <1>4

(* Every descriptor is free or in the chain of one request, for any number *)
(* of processes and of descriptors.                                        *)
THEOREM DescriptorsAreOwned == DiskSpec => []DescriptorsOwned
<1>1. DriverInv /\ CountRight => DescriptorsOwned
  <2> SUFFICES ASSUME DriverInv, CountRight PROVE DescriptorsOwned
    OBVIOUS
  <2>1. ASSUME NEW p \in Submitted
        PROVE  Chain(idx[p]) \subseteq Descs \ free /\ Cardinality(Chain(idx[p])) = 3
    <3>1. PICK h \in Descs, d \in Descs, s \in Descs :
            h # d /\ d # s /\ h # s /\ Chain(idx[p]) = {h, d, s}
      BY DEF DriverInv, ChainsOwned, Chain
    <3>2. Chain(idx[p]) \cap free = {}
      BY DEF DriverInv, ChainsOwned
    <3>3. Cardinality({h, d, s}) = 3
      BY <3>1, ThreeInChain
    <3> QED BY <3>1, <3>2, <3>3
  <2>2. \A p, q \in Submitted : p # q => Chain(idx[p]) \cap Chain(idx[q]) = {}
    BY DEF DriverInv, ChainsOwned
  <2> QED BY <2>1, <2>2 DEF DescriptorsOwned, CountRight
<1> QED BY <1>1, DriverInvariant, PTL

(* Whoever sleeps on a buffer will be woken: its request is with the       *)
(* device, or in the used ring with an interrupt to come.                  *)
THEOREM CompletionsCome == DiskSpec => []CompletionComes
<1>1. DriverInv => CompletionComes
  <2> SUFFICES ASSUME DriverInv PROVE CompletionComes
    OBVIOUS
  <2>1. ASSUME NEW p \in Callers, at[p] = "disk"
        PROVE  idx[p] \in inflight \/ \E i \in 1 .. Len(used) : used[i] = idx[p]
    <3>1. p \in Submitted /\ busy[call[p].buf]
      BY <2>1 DEF Submitted, DriverInv, BusyRight
    <3> QED BY <3>1 DEF DriverInv, BusyRight, InUsed
  <2> QED BY <2>1 DEF CompletionComes, DriverInv, InterruptDue
<1> QED BY <1>1, DriverInvariant, PTL

-----------------------------------------------------------------------------
(* The driver and its device implement BlockDevice. *)
ReqMap == [b \in Bufs |-> RequestOf(b)]

Served(p) == p \in Submitted /\ idx[p] \notin inflight

RequestIs(p) == [op |-> call[p].op, block |-> call[p].block, served |-> Served(p)]

(* Which request a buffer has: that of its only caller. *)
RequestsAre ==
  /\ \A p \in Callers : call[p] # NoCall => RequestOf(call[p].buf) = RequestIs(p)
  /\ \A b \in Bufs : (\A p \in Callers : call[p] # NoCall => call[p].buf # b)
                      => RequestOf(b) = NoCall

LEMMA MappingIs == DriverInv => RequestsAre
<1> SUFFICES ASSUME DriverInv PROVE RequestsAre
  OBVIOUS
<1>1. ASSUME NEW p \in Callers, call[p] # NoCall
      PROVE  RequestOf(call[p].buf) = RequestIs(p)
  <2>1. \A q \in Callers : call[q] # NoCall /\ call[q].buf = call[p].buf => q = p
    BY <1>1 DEF DriverInv, CallsRight
  <2>2. (CHOOSE q \in Callers : call[q] # NoCall /\ call[q].buf = call[p].buf) = p
    BY <1>1, <2>1
  <2> QED BY <1>1, <2>2 DEF RequestOf, RequestIs, Served
<1>2. ASSUME NEW b \in Bufs, \A p \in Callers : call[p] # NoCall => call[p].buf # b
      PROVE  RequestOf(b) = NoCall
  BY <1>2 DEF RequestOf, NoCall
<1> QED BY <1>1, <1>2 DEF RequestsAre

LEMMA MappingStays == DriverInv' => RequestsAre'
BY MappingIs, PTL

LEMMA SameRequest ==
  ASSUME DriverInv, DriverInv', NEW b \in Bufs,
         \A p \in Callers : call[p] # NoCall /\ call[p].buf = b =>
           call'[p] = call[p] /\ (Served(p)' <=> Served(p)),
         \A p \in Callers : call'[p] # NoCall /\ call'[p].buf = b => call'[p] = call[p]
  PROVE  ReqMap'[b] = ReqMap[b]
<1> USE MappingIs, MappingStays DEF RequestsAre
<1>1. CASE \A p \in Callers : call[p] # NoCall => call[p].buf # b
  <2>1. \A p \in Callers : call'[p] # NoCall => call'[p].buf # b
    BY <1>1
  <2>2. RequestOf(b) = NoCall
    BY <1>1
  <2>3. RequestOf(b)' = NoCall
    BY <2>1
  <2> QED BY <2>2, <2>3 DEF ReqMap
<1>2. ASSUME NEW p \in Callers, call[p] # NoCall, call[p].buf = b
      PROVE  ReqMap'[b] = ReqMap[b]
  <2>1. call'[p] = call[p] /\ (Served(p)' <=> Served(p))
    BY <1>2
  <2>2. RequestOf(b) = RequestIs(p)
    BY <1>2
  <2>3. RequestOf(b)' = RequestIs(p)'
    BY <1>2, <2>1
  <2>4. RequestIs(p)' = RequestIs(p)
    <3>1. Served(p)' = Served(p)
      BY <2>1 DEF Served
    <3> QED BY <2>1, <3>1, Zenon DEF RequestIs
  <2> QED BY <2>2, <2>3, <2>4 DEF ReqMap
<1> QED BY <1>1, <1>2

(* What the driver does between the promises. *)
LEMMA InnerStep ==
  ASSUME DriverInv, DriverInv', UNCHANGED <<platter, data, call>>,
         \A p \in Callers : Served(p)' <=> Served(p)
  PROVE  UNCHANGED <<platter, data, ReqMap>>
<1>1. \A b \in Bufs : ReqMap'[b] = ReqMap[b]
  BY SameRequest
<1> QED BY <1>1 DEF ReqMap

LEMMA RequestStep ==
  ASSUME DriverInv, DriverInv', NEW p \in Callers, NEW k \in Calls, DiskCall(p, k)
  PROVE  Promise!DeviceNext
<1> USE DEF DriverInv
<1>1. /\ call[p] = NoCall /\ call' = [call EXCEPT ![p] = k]
      /\ at[p] = "out" /\ at' = [at EXCEPT ![p] = "descs"]
      /\ UNCHANGED <<platter, data, idx, inflight>>
      /\ k.buf \in Bufs /\ k.block \in Blocks /\ k.op \in {"read", "write"} /\ k # NoCall
      /\ \A q \in Callers : call[q] # NoCall => call[q].buf # k.buf
  BY CallIsOne DEF DiskCall, CallsRight, Calls, ringVars
<1>2. \A q \in Callers : (Served(q)' <=> Served(q)) /\ (q # p => call'[q] = call[q])
  BY <1>1 DEF Served, Submitted, TypeOK
<1>3. ReqMap[k.buf] = NoCall
  BY <1>1, MappingIs DEF RequestsAre, ReqMap
<1>4. ReqMap'[k.buf] = [op |-> k.op, block |-> k.block, served |-> FALSE]
  <2>1. call'[p] = k /\ Served(p)' = FALSE
    BY <1>1 DEF TypeOK, Served, Submitted
  <2>2. RequestOf(k.buf)' = RequestIs(p)'
    BY <1>1, <2>1, MappingStays DEF RequestsAre
  <2>3. RequestIs(p)' = [op |-> k.op, block |-> k.block, served |-> FALSE]
    BY <2>1, Zenon DEF RequestIs
  <2> QED BY <1>1, <2>2, <2>3 DEF ReqMap
<1>5. \A b \in Bufs \ {k.buf} : ReqMap'[b] = ReqMap[b]
  <2> SUFFICES ASSUME NEW b \in Bufs, b # k.buf
               PROVE  ReqMap'[b] = ReqMap[b]
    OBVIOUS
  <2>1. \A q \in Callers : call[q] # NoCall /\ call[q].buf = b =>
          call'[q] = call[q] /\ (Served(q)' <=> Served(q))
    BY <1>1, <1>2
  <2>2. \A q \in Callers : call'[q] # NoCall /\ call'[q].buf = b => call'[q] = call[q]
    BY <1>1, <1>2 DEF TypeOK
  <2> QED BY <2>1, <2>2, SameRequest
<1>6. ReqMap' = [ReqMap EXCEPT ![k.buf] = [op |-> k.op, block |-> k.block, served |-> FALSE]]
  BY <1>1, <1>4, <1>5 DEF ReqMap
<1>7. Promise!Request(k.buf, k.block, k.op)
  BY <1>1, <1>3, <1>6 DEF Promise!Request, Promise!NoReq, NoCall, ReqMap
<1> QED BY <1>1, <1>7 DEF Promise!DeviceNext

LEMMA FillStep ==
  ASSUME DriverInv, DriverInv', NEW b \in Bufs, NEW v \in Vals, Fill(b, v)
  PROVE  Promise!DeviceNext
<1>1. ReqMap[b] = NoCall
  BY MappingIs DEF RequestsAre, ReqMap, Fill
<1>2. \A p \in Callers : Served(p)' <=> Served(p)
  BY DEF Fill, ringVars, Served, Submitted
<1>3. UNCHANGED <<platter, call>> /\ data' = [data EXCEPT ![b] = v]
  BY DEF Fill
<1>4. ReqMap' = ReqMap
  <2>1. \A c \in Bufs : ReqMap'[c] = ReqMap[c]
    BY <1>2, <1>3, SameRequest
  <2> QED BY <2>1 DEF ReqMap
<1>5. Promise!Fill(b, v)
  BY <1>1, <1>3, <1>4 DEF Promise!Fill, Promise!NoReq, NoCall, ReqMap
<1> QED BY <1>5 DEF Promise!DeviceNext

(* A request that is marked as served is the same request otherwise. *)
LEMMA MarkServed ==
  ASSUME NEW o, NEW n, NEW f, NEW t, NEW x, NEW y,
         x = [op |-> o, block |-> n, served |-> f],
         y = [op |-> o, block |-> n, served |-> t]
  PROVE  [x EXCEPT !.served = t] = y
<1>1. [x EXCEPT !.served = t] = [i \in DOMAIN x |-> IF i = "served" THEN t ELSE x[i]]
  OBVIOUS
<1>2. DOMAIN x = {"op", "block", "served"}
  OBVIOUS
<1>3. y = [i \in {"op", "block", "served"} |-> y[i]]
  OBVIOUS
<1>4. \A i \in {"op", "block", "served"} : y[i] = IF i = "served" THEN t ELSE x[i]
  OBVIOUS
<1> QED BY <1>1, <1>2, <1>3, <1>4

LEMMA ServeStep ==
  ASSUME DriverInv, DriverInv', NEW h \in Descs, Transfer(h)
  PROVE  Promise!DeviceNext
<1> USE DEF DriverInv
<1>1. PICK p \in Submitted : idx[p] = h
  BY DEF Transfer, RingsRight
<1>2. PICK k \in Calls : k = call[p] /\ k = info[h] /\ k # NoCall
  BY <1>1, CallIsOne DEF ChainsOwned, CallsRight, TypeOK, Submitted
<1>3. /\ p \in Callers /\ k.buf \in Bufs /\ k.op \in {"read", "write"}
      /\ h \in inflight /\ inflight' = inflight \ {h}
      /\ UNCHANGED <<call, at, idx>>
  BY <1>2 DEF Transfer, Calls, Submitted
<1>4. Submitted' = Submitted /\ Served(p)' = TRUE /\ Served(p) = FALSE
  BY <1>1, <1>3 DEF Submitted, Served
<1>5. ReqMap[k.buf] = [op |-> k.op, block |-> k.block, served |-> FALSE]
  <2>1. RequestOf(k.buf) = RequestIs(p)
    BY <1>2, <1>3, MappingIs DEF RequestsAre
  <2>2. RequestIs(p) = [op |-> k.op, block |-> k.block, served |-> FALSE]
    BY <1>2, <1>4, Zenon DEF RequestIs
  <2> QED BY <1>3, <2>1, <2>2 DEF ReqMap
<1>6. ReqMap'[k.buf] = [op |-> k.op, block |-> k.block, served |-> TRUE]
  <2>1. RequestOf(k.buf)' = RequestIs(p)'
    BY <1>2, <1>3, MappingStays DEF RequestsAre
  <2>2. RequestIs(p)' = [op |-> k.op, block |-> k.block, served |-> TRUE]
    <3>1. call'[p] = k
      BY <1>2, <1>3
    <3> QED BY <1>4, <3>1, Zenon DEF RequestIs
  <2> QED BY <1>3, <2>1, <2>2 DEF ReqMap
<1>7. \A b \in Bufs \ {k.buf} : ReqMap'[b] = ReqMap[b]
  <2> SUFFICES ASSUME NEW b \in Bufs, b # k.buf
               PROVE  ReqMap'[b] = ReqMap[b]
    OBVIOUS
  <2>1. ASSUME NEW q \in Callers, call[q] # NoCall, call[q].buf = b
        PROVE  Served(q)' <=> Served(q)
    <3>1. q # p
      BY <1>2, <2>1
    <3>2. ASSUME q \in Submitted PROVE idx[q] # h
      <4>1. Chain(idx[q]) \cap Chain(idx[p]) = {}
        BY <3>1, <3>2 DEF ChainsOwned
      <4>2. idx[q] \in Chain(idx[q]) /\ h \in Chain(idx[p])
        BY <1>1 DEF Chain
      <4> QED BY <4>1, <4>2
    <3> QED BY <1>3, <1>4, <3>2 DEF Served
  <2> QED BY <1>3, <2>1, SameRequest
<1>8. ReqMap' = [ReqMap EXCEPT ![k.buf].served = TRUE]
  <2>1. [ReqMap[k.buf] EXCEPT !.served = TRUE] = ReqMap'[k.buf]
    <3> DEFINE x == ReqMap[k.buf]
               y == ReqMap'[k.buf]
    <3>1. /\ x = [op |-> k.op, block |-> k.block, served |-> FALSE]
          /\ y = [op |-> k.op, block |-> k.block, served |-> TRUE]
      BY <1>5, <1>6
    <3> HIDE DEF x, y
    <3>2. PICK f \in BOOLEAN, t \in BOOLEAN : f = FALSE /\ t = TRUE
      BY Zenon
    <3>3. /\ x = [op |-> k.op, block |-> k.block, served |-> f]
          /\ y = [op |-> k.op, block |-> k.block, served |-> t]
      BY <3>1, <3>2, Zenon
    <3>4. [x EXCEPT !.served = t] = y
      BY <3>3, MarkServed
    <3>5. [x EXCEPT !.served = TRUE] = y
      BY <3>2, <3>4, Zenon
    <3> QED BY <3>5 DEF x, y
  <2> QED BY <1>3, <1>7, <2>1 DEF ReqMap
<1>9. Promise!Serve(k.buf)
  <2>1. ReqMap[k.buf] # [op |-> "none"] /\ ~ReqMap[k.buf].served
        /\ ReqMap[k.buf].op = k.op /\ ReqMap[k.buf].block = k.block
    BY <1>3, <1>5
  <2>2. IF k.op = "read"
          THEN data' = [data EXCEPT ![k.buf] = platter[k.block]] /\ UNCHANGED platter
          ELSE platter' = [platter EXCEPT ![k.block] = data[k.buf]] /\ UNCHANGED data
    BY <1>2 DEF Transfer
  <2> HIDE DEF DriverInv
  <2> QED BY <1>8, <2>1, <2>2 DEF Promise!Serve, Promise!NoReq, ReqMap
<1> QED BY <1>3, <1>9 DEF Promise!DeviceNext

LEMMA ReturnStep ==
  ASSUME DriverInv, DriverInv', NEW p \in Callers, Done(p)
  PROVE  Promise!DeviceNext
<1> USE DEF DriverInv
<1>1. /\ p \in Submitted /\ Submitted' = Submitted \ {p}
      /\ idx[p] \notin inflight
  BY DoneInv
<1>2. /\ call' = [call EXCEPT ![p] = NoCall] /\ idx' = [idx EXCEPT ![p] = NoDesc]
      /\ UNCHANGED <<platter, data, inflight>>
  BY DEF Done
<1>3. PICK k \in Calls : k = call[p] /\ k # NoCall
  BY <1>1, CallIsOne DEF CallsRight, TypeOK, Submitted
<1>4. k.buf \in Bufs /\ Served(p) = TRUE
  BY <1>1 DEF Calls, Served
<1>5. ReqMap[k.buf] = [op |-> k.op, block |-> k.block, served |-> TRUE]
  <2>1. RequestOf(k.buf) = RequestIs(p)
    BY <1>3, MappingIs DEF RequestsAre
  <2>2. RequestIs(p) = [op |-> k.op, block |-> k.block, served |-> TRUE]
    BY <1>3, <1>4, Zenon DEF RequestIs
  <2> QED BY <1>4, <2>1, <2>2 DEF ReqMap
<1>6. \A q \in Callers : call[q] # NoCall /\ call[q].buf = k.buf => q = p
  BY <1>3 DEF CallsRight
<1>7. /\ call'[p] = NoCall
      /\ \A q \in Callers \ {p} : call'[q] = call[q] /\ (Served(q)' <=> Served(q))
  BY <1>1, <1>2 DEF TypeOK, Served
<1>8. ReqMap'[k.buf] = NoCall
  <2>1. \A q \in Callers : call'[q] # NoCall => call'[q].buf # k.buf
    BY <1>6, <1>7
  <2>2. RequestOf(k.buf)' = NoCall
    BY <1>4, <2>1, MappingStays DEF RequestsAre
  <2> QED BY <1>4, <2>2 DEF ReqMap
<1>9. \A b \in Bufs \ {k.buf} : ReqMap'[b] = ReqMap[b]
  <2> SUFFICES ASSUME NEW b \in Bufs, b # k.buf
               PROVE  ReqMap'[b] = ReqMap[b]
    OBVIOUS
  <2>1. \A q \in Callers : call[q] # NoCall /\ call[q].buf = b => q # p
    BY <1>3
  <2> QED BY <1>7, <2>1, SameRequest
<1>10. ReqMap' = [ReqMap EXCEPT ![k.buf] = NoCall]
  BY <1>4, <1>8, <1>9 DEF ReqMap
<1>11. Promise!Return(k.buf)
  BY <1>2, <1>4, <1>5, <1>10 DEF Promise!Return, Promise!NoReq, NoCall, ReqMap
<1> QED BY <1>4, <1>11 DEF Promise!DeviceNext

(* The driver and its device implement BlockDevice, for any numbers of     *)
(* processes, buffers, blocks and descriptors: a request moves its block   *)
(* once, between the call and the return.                                  *)
THEOREM Implementation == DiskSpec => ImplementsDevice
<1>1. DiskInit => Promise!DeviceInit
  <2> SUFFICES ASSUME DiskInit PROVE Promise!DeviceInit
    OBVIOUS
  <2>1. \A b \in Bufs : RequestOf(b) = NoCall
    BY DriverInitInv, MappingIs DEF RequestsAre, DiskInit
  <2> QED BY <2>1 DEF DiskInit, Promise!DeviceInit, Promise!NoReq, NoCall
<1>2. DriverInv /\ DriverInv' /\ [DiskNext]_diskVars
        => [Promise!DeviceNext]_<<platter, data, ReqMap>>
  <2> SUFFICES ASSUME DriverInv, DriverInv', [DiskNext]_diskVars
               PROVE  [Promise!DeviceNext]_<<platter, data, ReqMap>>
    OBVIOUS
  <2>1. ASSUME NEW p \in Callers, Submit(p)
        PROVE  UNCHANGED <<platter, data, ReqMap>>
    <3>1. p \notin Submitted /\ Submitted' = Submitted \cup {p}
      BY <2>1, SubmitInv
    <3>2. PICK h \in free :
            idx' = [idx EXCEPT ![p] = h] /\ inflight' = inflight \cup {h}
      BY <2>1, ThreeFree DEF Submit, DriverInv
    <3>3. ~Served(p) /\ ~Served(p)'
      BY <3>1, <3>2 DEF Served, DriverInv, TypeOK
    <3>4. \A q \in Submitted : idx[q] # h /\ idx'[q] = idx[q]
      BY <3>1, <3>2 DEF DriverInv, ChainsOwned, Chain, TypeOK
    <3>5. \A q \in Callers \ {p} : Served(q)' <=> Served(q)
      BY <3>1, <3>2, <3>4 DEF Served
    <3> QED BY <2>1, <3>3, <3>5, InnerStep DEF Submit
  <2>2. CASE \/ \E p \in Callers : NoDescs(p) \/ NotYet(p) \/ DiskKill(p)
             \/ IntrBegin \/ IntrLast \/ IntrEnd \/ IntrNext
    <3>1. Submitted' = Submitted
      BY <2>2, WaitingInv, IntrNextInv
    <3>2. UNCHANGED <<platter, data, call, idx, inflight>>
      BY <2>2 DEF NoDescs, NotYet, DiskKill, IntrBegin, IntrLast, IntrEnd, IntrNext, ringVars
    <3> QED BY <3>1, <3>2, InnerStep DEF Served
  <2>3. CASE UNCHANGED diskVars
    <3>1. UNCHANGED <<platter, data, call, idx, inflight, at>>
      BY <2>3 DEF diskVars, ringVars
    <3> QED BY <3>1, InnerStep DEF Served, Submitted
  <2> QED BY <2>1, <2>2, <2>3, RequestStep, FillStep, ServeStep, ReturnStep
          DEF DiskNext, Progress, Intr
<1>3. <<platter, data, ReqMap>>' = <<platter, data, ReqMap>>
        => UNCHANGED Promise!deviceVars
  BY DEF Promise!deviceVars, ReqMap
<1>4. DriverInv /\ DriverInv' /\ [DiskNext]_diskVars
        => [Promise!DeviceNext]_(Promise!deviceVars)
  BY <1>2, <1>3
<1> QED BY <1>1, <1>4, DriverInvariant, PTL DEF DiskSpec, ImplementsDevice, Promise!DeviceSpec

-----------------------------------------------------------------------------
(***************************************************************************)
(* Proofs about the console's input, for any processes, keys, buffer size  *)
(* and wrap of the indices: it is the line editor and queue of Tty.        *)
(*                                                                         *)
(* What has to be shown is that the three indices stay in order round the  *)
(* wrap and a buffer apart (OrderInv), although the room for a character   *)
(* is tested before its echo and used after (StoreInv), and what a read    *)
(* has got so far is told by how many characters it still wants (ReadsInv).*)
(***************************************************************************)

Jobs == [call : {"read", "write", "pause"}, n : 0 .. Wrap - 1]

ReadPlaces == {"read", "reading", "nap", "onread"}
Places == ReadPlaces \cup
  {"idle", "return", "write", "onwrite", "pause", "tick", "onpause"}
Contexts ==
  [pc : Places, left : Int, from : Int, cbuf : Chars \cup {Nothing}]

Handlers ==
  [pc : {"none", "isr", "tx", "rx", "console", "store", "done"},
   c : Keys \cup {Nothing}, echo : Int, idle : BOOLEAN]
Remaining ==
  [jobs : [Procs -> SUBSET Jobs], keys : Int, prints : Int, victims : SUBSET Procs]

TypesInv ==
  /\ buf \in [0 .. INPUT_BUF_SIZE - 1 -> Chars]
  /\ r \in 0 .. Wrap - 1 /\ w \in 0 .. Wrap - 1 /\ e \in 0 .. Wrap - 1
  /\ ticks \in 0 .. Wrap - 1
  /\ rhr \in Keys \cup {Nothing}
  /\ intr \in Handlers
  /\ proc \in [Procs -> Contexts]
  /\ budget \in Remaining

(* A read that has got nothing yet wants all it asked for; it does not go  *)
(* on after the end of a line.                                             *)
ReadsInv ==
  \A p \in Procs : proc[p].pc \in ReadPlaces =>
    /\ proc[p].left <= proc[p].from
    /\ proc[p].left = proc[p].from => proc[p].cbuf = Nothing
    /\ proc[p].cbuf \notin {Newline, Eof}

(* From r to w to e is no more than once round the buffer. *)
OrderInv == Minus(w, r) + Minus(e, w) <= INPUT_BUF_SIZE

(* There is still room for the character that has been echoed. *)
StoreInv ==
  intr.pc = "store" =>
    intr.c \in Chars /\ Minus(w, r) + Minus(e, w) < INPUT_BUF_SIZE

TerminalInv == TypesInv /\ ReadsInv /\ OrderInv /\ StoreInv

-----------------------------------------------------------------------------
(* What a step does to a process. *)
LEMMA GotoContext ==
  ASSUME TypesInv, NEW p \in Procs, NEW there \in Places, Goto(p, there)
  PROVE  /\ proc' \in [Procs -> Contexts]
         /\ proc'[p].pc = there /\ proc'[p].left = proc[p].left
         /\ proc'[p].from = proc[p].from /\ proc'[p].cbuf = proc[p].cbuf
         /\ \A q \in Procs : q # p => proc'[q] = proc[q]
BY DEF TypesInv, Goto, Contexts

LEMMA IdleContext ==
  ASSUME TypesInv, NEW p \in Procs, proc' = [proc EXCEPT ![p] = Idle]
  PROVE  /\ proc' \in [Procs -> Contexts]
         /\ proc'[p].pc = "idle" /\ proc'[p].cbuf = Nothing
         /\ \A q \in Procs : q # p => proc'[q] = proc[q]
<1>1. Idle \in Contexts /\ Idle.pc = "idle" /\ Idle.cbuf = Nothing
  BY DEF Idle, At, Contexts, Places
<1> QED BY <1>1 DEF TypesInv

LEMMA AwakePlaces ==
  /\ Awake["onread"] = "read" /\ Awake["onwrite"] = "write" /\ Awake["onpause"] = "pause"
  /\ DOMAIN Awake = {"onread", "onwrite", "onpause"}
BY DEF Awake

LEMMA WakeupContext ==
  ASSUME TypesInv, NEW here \in {"onread", "onwrite", "onpause"}, Wakeup(here)
  PROVE  /\ proc' \in [Procs -> Contexts]
         /\ \A p \in Procs :
              /\ proc'[p].pc = proc[p].pc \/ (proc[p].pc = here /\ proc'[p].pc = Awake[here])
              /\ proc'[p].left = proc[p].left /\ proc'[p].from = proc[p].from
              /\ proc'[p].cbuf = proc[p].cbuf
<1>1. Awake[here] \in Places
  BY AwakePlaces DEF Places, ReadPlaces
<1> QED BY <1>1 DEF TypesInv, Wakeup, Contexts

-----------------------------------------------------------------------------
(* What % does, for any modulus. *)
LEMMA Times ==
  ASSUME NEW n \in Nat \ {0}, NEW d \in Nat \ {0}
  PROVE  n * d >= n
OBVIOUS

LEMMA DivMod ==
  ASSUME NEW n \in Nat \ {0}, NEW a \in Int
  PROVE  /\ a % n \in 0 .. n - 1 /\ a \div n \in Int
         /\ a = n * (a \div n) + (a % n)
OBVIOUS

LEMMA SameRest ==
  ASSUME NEW n \in Nat \ {0}, NEW q1 \in Int, NEW q2 \in Int,
         NEW r1 \in 0 .. n - 1, NEW r2 \in 0 .. n - 1,
         n * q1 + r1 = n * q2 + r2
  PROVE  r1 = r2
<1>1. n * (q1 - q2) = r2 - r1 /\ n * (q2 - q1) = r1 - r2
  OBVIOUS
<1>2. CASE q1 = q2
  BY <1>1, <1>2
<1>3. CASE q1 > q2
  BY <1>1, <1>3, Times
<1>4. CASE q2 > q1
  BY <1>1, <1>4, Times
<1> QED BY <1>2, <1>3, <1>4

LEMMA Rest ==
  ASSUME NEW n \in Nat \ {0}, NEW a \in Int, NEW q \in Int, NEW d \in 0 .. n - 1,
         a = n * q + d
  PROVE  a % n = d
<1>1. /\ a % n \in 0 .. n - 1 /\ a \div n \in Int
      /\ a = n * (a \div n) + (a % n)
  BY DivMod
<1> QED BY <1>1, SameRest

LEMMA Shift ==
  ASSUME NEW n \in Nat \ {0}, NEW a \in Int, NEW m \in Nat, m % n = 0
  PROVE  (a + m) % n = a % n
<1>1. PICK q \in Int : a = n * q + (a % n)
  BY DivMod
<1>2. m \div n \in Int /\ m = n * (m \div n) + (m % n)
  BY DivMod
<1>3. PICK k \in Int : m = n * k
  BY <1>2
<1>4. n * (q + k) = n * q + n * k
  OBVIOUS
<1>5. a % n \in 0 .. n - 1
  BY DivMod
<1>6. a + m = n * (q + k) + (a % n) /\ q + k \in Int /\ a + m \in Int
  <2> DEFINE d == a % n  nq == n * q  nk == n * k
  <2>1. d \in Int /\ nq \in Int /\ nk \in Int /\ a = nq + d /\ m = nk
    BY <1>1, <1>3, <1>5
  <2>2. n * (q + k) = nq + nk
    BY <1>4
  <2> HIDE DEF d, nq, nk
  <2>3. a + m = (nq + nk) + d
    BY <2>1
  <2> QED BY <2>2, <2>3 DEF d
<1> QED BY <1>5, <1>6, Rest

(* Two slots less than a buffer apart are not the same. *)
LEMMA Apart ==
  ASSUME NEW n \in Nat \ {0}, NEW a \in Nat, NEW d \in 1 .. n - 1
  PROVE  (a + d) % n # a % n
<1> DEFINE q == a \div n        r1 == a % n
           q2 == (a + d) \div n  r2 == (a + d) % n
<1>1. a = n * q + r1 /\ a + d = n * q2 + r2
  BY DivMod
<1>2. q \in Int /\ q2 \in Int /\ r1 \in 0 .. n - 1 /\ r2 \in 0 .. n - 1
  BY DivMod
<1> HIDE DEF q, r1, q2, r2
<1> SUFFICES ASSUME r1 = r2 PROVE FALSE
  BY DEF r1, r2
<1>3. n * (q2 - q) = d /\ n * (q - q2) = -d
  BY <1>1, <1>2
<1>4. CASE q2 - q >= 1
  BY <1>4, <1>3, <1>2, Times
<1>5. CASE q2 - q <= 0
  <2>1. n * (q - q2) >= 0
    BY <1>5, <1>2
  <2> QED BY <2>1, <1>3, <1>2
<1> QED BY <1>4, <1>5, <1>2

-----------------------------------------------------------------------------
(* The distance from x to y, over a wrap too, and a step ahead. *)
LEMMA Distance ==
  ASSUME NEW x \in 0 .. Wrap - 1, NEW y \in 0 .. Wrap - 1
  PROVE  /\ Minus(y, x) = IF x <= y THEN y - x ELSE y - x + Wrap
         /\ Minus(y, x) \in 0 .. Wrap - 1
<1>0. Wrap \in Nat \ {0}
  BY TerminalAssumption
<1>1. CASE x <= y
  <2>1. y - x \in 0 .. Wrap - 1 /\ y - x = Wrap * 0 + (y - x)
    BY <1>0, <1>1
  <2> QED BY <1>0, <1>1, <2>1, Rest DEF Minus
<1>2. CASE ~(x <= y)
  <2>1. y - x + Wrap \in 0 .. Wrap - 1 /\ y - x = Wrap * (-1) + (y - x + Wrap)
    BY <1>0, <1>2
  <2> QED BY <1>0, <1>2, <2>1, Rest DEF Minus
<1> QED BY <1>1, <1>2

LEMMA Ahead ==
  ASSUME NEW x \in 0 .. Wrap - 1, NEW i \in 0 .. Wrap
  PROVE  /\ Plus(x, i) = IF x + i < Wrap THEN x + i ELSE x + i - Wrap
         /\ Plus(x, i) \in 0 .. Wrap - 1
<1>0. Wrap \in Nat \ {0}
  BY TerminalAssumption
<1>1. CASE x + i < Wrap
  <2>1. x + i \in 0 .. Wrap - 1 /\ x + i = Wrap * 0 + (x + i)
    BY <1>0, <1>1
  <2> QED BY <1>0, <1>1, <2>1, Rest DEF Plus
<1>2. CASE ~(x + i < Wrap)
  <2>1. x + i - Wrap \in 0 .. Wrap - 1 /\ x + i = Wrap * 1 + (x + i - Wrap)
    BY <1>0, <1>2
  <2> QED BY <1>0, <1>2, <2>1, Rest DEF Plus
<1> QED BY <1>1, <1>2

LEMMA Back ==
  ASSUME NEW x \in 0 .. Wrap - 1
  PROVE  Minus(x, 1) = IF x = 0 THEN Wrap - 1 ELSE x - 1
<1>0. Wrap \in Nat \ {0, 1}
  BY TerminalAssumption
<1>1. 1 \in 0 .. Wrap - 1
  BY <1>0
<1> QED BY <1>0, <1>1, Distance

(* Distances add up while they are less than a wrap. *)
LEMMA SumOfDistances ==
  ASSUME NEW x \in 0 .. Wrap - 1, NEW y \in 0 .. Wrap - 1, NEW z \in 0 .. Wrap - 1,
         Minus(y, x) + Minus(z, y) < Wrap
  PROVE  Minus(z, x) = Minus(y, x) + Minus(z, y)
<1>0. Wrap \in Nat \ {0}
  BY TerminalAssumption
<1>1. /\ Minus(y, x) = IF x <= y THEN y - x ELSE y - x + Wrap
      /\ Minus(z, y) = IF y <= z THEN z - y ELSE z - y + Wrap
      /\ Minus(z, x) = IF x <= z THEN z - x ELSE z - x + Wrap
  BY Distance
<1> QED BY <1>0, <1>1

LEMMA StepsOfDistance ==
  ASSUME NEW x \in 0 .. Wrap - 1, NEW y \in 0 .. Wrap - 1
  PROVE  /\ x # y => Minus(y, x) > 0 /\ Minus(y, Plus(x, 1)) = Minus(y, x) - 1
         /\ Minus(y, x) + 1 < Wrap => Minus(Plus(y, 1), x) = Minus(y, x) + 1
         /\ x # y => Minus(Minus(y, 1), x) = Minus(y, x) - 1
         /\ Minus(x, x) = 0
<1>0. Wrap \in Nat \ {0, 1} /\ 1 \in 0 .. Wrap
  BY TerminalAssumption
<1>1. /\ Plus(x, 1) = (IF x + 1 < Wrap THEN x + 1 ELSE x + 1 - Wrap)
      /\ Plus(y, 1) = (IF y + 1 < Wrap THEN y + 1 ELSE y + 1 - Wrap)
      /\ Plus(x, 1) \in 0 .. Wrap - 1 /\ Plus(y, 1) \in 0 .. Wrap - 1
  BY <1>0, Ahead
<1>2. Minus(y, 1) = (IF y = 0 THEN Wrap - 1 ELSE y - 1) /\ Minus(y, 1) \in 0 .. Wrap - 1
  BY <1>0, Back
<1> DEFINE x1 == Plus(x, 1)  y1 == Plus(y, 1)  y0 == Minus(y, 1)
<1> HIDE DEF x1, y1, y0
<1>d. /\ Minus(y, x) = IF x <= y THEN y - x ELSE y - x + Wrap
      /\ Minus(y, x1) = IF x1 <= y THEN y - x1 ELSE y - x1 + Wrap
      /\ Minus(y1, x) = IF x <= y1 THEN y1 - x ELSE y1 - x + Wrap
      /\ Minus(y0, x) = IF x <= y0 THEN y0 - x ELSE y0 - x + Wrap
  BY <1>1, <1>2, Distance DEF x1, y1, y0
<1>3. x # y => Minus(y, x) > 0 /\ Minus(y, Plus(x, 1)) = Minus(y, x) - 1
  BY <1>0, <1>1, <1>d DEF x1
<1>4. Minus(y, x) + 1 < Wrap => Minus(Plus(y, 1), x) = Minus(y, x) + 1
  BY <1>0, <1>1, <1>d DEF y1
<1>5. x # y => Minus(Minus(y, 1), x) = Minus(y, x) - 1
  BY <1>0, <1>2, <1>d DEF y0
<1>6. Minus(x, x) = 0
  BY <1>0, Distance
<1> QED BY <1>3, <1>4, <1>5, <1>6

(* The slot a distance ahead; the wrap does not show in it. *)
LEMMA SlotAhead ==
  ASSUME NEW x \in 0 .. Wrap - 1, NEW i \in 0 .. Wrap
  PROVE  /\ Slot(Plus(x, i)) = (x + i) % INPUT_BUF_SIZE
         /\ Slot(Plus(x, i)) \in 0 .. INPUT_BUF_SIZE - 1
<1>0. /\ Wrap \in Nat \ {0} /\ INPUT_BUF_SIZE \in Nat \ {0}
      /\ Wrap % INPUT_BUF_SIZE = 0
  BY TerminalAssumption
<1>1. CASE x + i < Wrap
  <2>1. Plus(x, i) = x + i
    BY <1>1, Ahead
  <2> QED BY <1>0, <2>1, DivMod DEF Slot
<1>2. CASE ~(x + i < Wrap)
  <2>1. Plus(x, i) = x + i - Wrap
    BY <1>2, Ahead
  <2>2. x + i - Wrap \in Int /\ x + i \in Int
    BY <1>0
  <2>3. ((x + i - Wrap) + Wrap) % INPUT_BUF_SIZE = (x + i - Wrap) % INPUT_BUF_SIZE
    BY <1>0, <2>2, Shift
  <2>4. (x + i - Wrap) + Wrap = x + i
    BY <1>0
  <2> QED BY <1>0, <2>1, <2>2, <2>3, <2>4, DivMod DEF Slot
<1> QED BY <1>1, <1>2

(* Going on from where one is, and to where one wants to be. *)
LEMMA Onwards ==
  ASSUME NEW x \in 0 .. Wrap - 1, NEW i \in Nat, NEW j \in Nat, i + j <= Wrap
  PROVE  Plus(Plus(x, i), j) = Plus(x, i + j)
<1>0. Wrap \in Nat \ {0}
  BY TerminalAssumption
<1> DEFINE y == Plus(x, i)
<1>1. i \in 0 .. Wrap /\ j \in 0 .. Wrap /\ i + j \in 0 .. Wrap
  BY <1>0
<1>2. y = (IF x + i < Wrap THEN x + i ELSE x + i - Wrap) /\ y \in 0 .. Wrap - 1
  BY <1>1, Ahead
<1> HIDE DEF y
<1>3. /\ Plus(y, j) = IF y + j < Wrap THEN y + j ELSE y + j - Wrap
      /\ Plus(x, i + j) = IF x + (i + j) < Wrap THEN x + (i + j) ELSE x + (i + j) - Wrap
  BY <1>1, <1>2, Ahead
<1>4. Plus(y, j) = Plus(x, i + j)
  BY <1>0, <1>1, <1>2, <1>3
<1> QED BY <1>4 DEF y

LEMMA Arrival ==
  ASSUME NEW x \in 0 .. Wrap - 1, NEW y \in 0 .. Wrap - 1
  PROVE  Plus(x, Minus(y, x)) = y /\ Plus(x, 0) = x
<1>0. Wrap \in Nat \ {0}
  BY TerminalAssumption
<1> DEFINE d == Minus(y, x)
<1>1. d = (IF x <= y THEN y - x ELSE y - x + Wrap) /\ d \in 0 .. Wrap - 1
  BY Distance
<1> HIDE DEF d
<1>2. /\ Plus(x, d) = IF x + d < Wrap THEN x + d ELSE x + d - Wrap
      /\ Plus(x, 0) = IF x + 0 < Wrap THEN x + 0 ELSE x + 0 - Wrap
  <2>1. d \in 0 .. Wrap /\ 0 \in 0 .. Wrap
    BY <1>0, <1>1
  <2> QED BY ONLY <2>1, Ahead
<1>3. Plus(x, d) = y /\ Plus(x, 0) = x
  BY <1>0, <1>1, <1>2
<1> QED BY <1>3 DEF d

LEMMA OtherSlot ==
  ASSUME NEW x \in 0 .. Wrap - 1, NEW i \in Nat, NEW k \in Nat,
         i < k, k - i < INPUT_BUF_SIZE, k <= Wrap
  PROVE  Slot(Plus(x, i)) # Slot(Plus(x, k))
<1>0. Wrap \in Nat \ {0} /\ INPUT_BUF_SIZE \in Nat \ {0}
  BY TerminalAssumption
<1>1. i \in 0 .. Wrap /\ k \in 0 .. Wrap
  BY <1>0
<1>2. /\ Slot(Plus(x, i)) = (x + i) % INPUT_BUF_SIZE
      /\ Slot(Plus(x, k)) = (x + k) % INPUT_BUF_SIZE
  BY <1>1, SlotAhead
<1>3. /\ x + i \in Nat /\ k - i \in 1 .. INPUT_BUF_SIZE - 1
      /\ x + k = (x + i) + (k - i)
  BY <1>0
<1>4. ((x + i) + (k - i)) % INPUT_BUF_SIZE # (x + i) % INPUT_BUF_SIZE
  BY <1>0, <1>3, Apart
<1> QED BY <1>2, <1>3, <1>4

-----------------------------------------------------------------------------
(* The characters between two indices, in any buffer. *)
Window(b, x, n) == [i \in 1 .. n |-> b[Slot(Plus(x, i - 1))]]

LEMMA WindowSeq ==
  ASSUME NEW b \in [0 .. INPUT_BUF_SIZE - 1 -> Chars], NEW x \in 0 .. Wrap - 1,
         NEW n \in 0 .. Wrap
  PROVE  /\ Window(b, x, n) \in Seq(Chars)
         /\ Len(Window(b, x, n)) = n
         /\ \A i \in 1 .. n : Window(b, x, n)[i] = b[Slot(Plus(x, i - 1))]
<1>0. n \in Nat
  BY TerminalAssumption
<1>1. ASSUME NEW i \in 1 .. n PROVE b[Slot(Plus(x, i - 1))] \in Chars
  <2>1. i - 1 \in 0 .. Wrap
    BY TerminalAssumption
  <2> QED BY <2>1, SlotAhead
<1> QED BY <1>0, <1>1 DEF Window

(* A character is taken. *)
LEMMA WindowTail ==
  ASSUME NEW b \in [0 .. INPUT_BUF_SIZE - 1 -> Chars], NEW x \in 0 .. Wrap - 1,
         NEW n \in 1 .. Wrap
  PROVE  /\ Window(b, x, n) # <<>>
         /\ Head(Window(b, x, n)) = b[Slot(x)]
         /\ Window(b, Plus(x, 1), n - 1) = Tail(Window(b, x, n))
<1>0. Wrap \in Nat /\ n \in 0 .. Wrap /\ n - 1 \in 0 .. Wrap /\ 1 \in 0 .. Wrap
  BY TerminalAssumption
<1> DEFINE s == Window(b, x, n)  t == Window(b, Plus(x, 1), n - 1)
<1>1. /\ s \in Seq(Chars) /\ Len(s) = n
      /\ \A i \in 1 .. n : s[i] = b[Slot(Plus(x, i - 1))]
  BY <1>0, WindowSeq
<1>2. Plus(x, 1) \in 0 .. Wrap - 1
  BY <1>0, Ahead
<1>3. /\ t \in Seq(Chars) /\ Len(t) = n - 1
      /\ \A i \in 1 .. n - 1 : t[i] = b[Slot(Plus(Plus(x, 1), i - 1))]
  BY <1>0, <1>2, WindowSeq
<1>4. ASSUME NEW i \in 1 .. n - 1
      PROVE  t[i] = s[i + 1]
  <2>1. i - 1 \in Nat /\ 1 \in Nat /\ 1 + (i - 1) <= Wrap /\ 1 + (i - 1) = i
        /\ i + 1 \in 1 .. n /\ (i + 1) - 1 = i
    BY <1>0
  <2>2. Plus(Plus(x, 1), i - 1) = Plus(x, 1 + (i - 1))
    BY <2>1, Onwards
  <2> QED BY <1>1, <1>3, <2>1, <2>2
<1>5. Plus(x, 0) = x
  BY Arrival
<1> HIDE DEF s, t
<1>6. s # <<>> /\ Head(s) = b[Slot(x)]
  BY <1>0, <1>1, <1>5
<1>7. t = Tail(s)
  BY <1>0, <1>1, <1>3, <1>4
<1> QED BY <1>6, <1>7 DEF s, t

(* One is erased. *)
LEMMA WindowFront ==
  ASSUME NEW b \in [0 .. INPUT_BUF_SIZE - 1 -> Chars], NEW x \in 0 .. Wrap - 1,
         NEW n \in 1 .. Wrap
  PROVE  /\ Window(b, x, n) # <<>>
         /\ Window(b, x, n - 1) = Front(Window(b, x, n))
<1>0. Wrap \in Nat /\ n \in 0 .. Wrap /\ n - 1 \in 0 .. Wrap
  BY TerminalAssumption
<1> DEFINE s == Window(b, x, n)  t == Window(b, x, n - 1)
<1>1. /\ s \in Seq(Chars) /\ Len(s) = n
      /\ \A i \in 1 .. n : s[i] = b[Slot(Plus(x, i - 1))]
  BY <1>0, WindowSeq
<1>2. /\ t \in Seq(Chars) /\ Len(t) = n - 1
      /\ \A i \in 1 .. n - 1 : t[i] = b[Slot(Plus(x, i - 1))]
  BY <1>0, WindowSeq
<1> HIDE DEF s, t
<1>3. s # <<>>
  BY <1>0, <1>1
<1>4. t = SubSeq(s, 1, Len(s) - 1)
  BY <1>0, <1>1, <1>2
<1> QED BY <1>3, <1>4 DEF s, t, Front

Put(b, s, c) == [b EXCEPT ![s] = c]

(* One is stored behind the last, in a buffer that has room for it. *)
LEMMA WindowStore ==
  ASSUME NEW b \in [0 .. INPUT_BUF_SIZE - 1 -> Chars], NEW x \in 0 .. Wrap - 1,
         NEW n \in 0 .. INPUT_BUF_SIZE - 1, NEW k \in 0 .. n, NEW c \in Chars
  PROVE  /\ Put(b, Slot(Plus(x, n)), c) \in [0 .. INPUT_BUF_SIZE - 1 -> Chars]
         /\ Window(Put(b, Slot(Plus(x, n)), c), x, k) = Window(b, x, k)
         /\ Window(Put(b, Slot(Plus(x, n)), c), x, n + 1) = Append(Window(b, x, n), c)
<1> DEFINE d == Put(b, Slot(Plus(x, n)), c)
<1>0. /\ Wrap \in Nat /\ INPUT_BUF_SIZE \in Nat /\ INPUT_BUF_SIZE < Wrap
      /\ n \in 0 .. Wrap /\ n + 1 \in 0 .. Wrap /\ k \in 0 .. Wrap
  BY TerminalAssumption
<1>1. Slot(Plus(x, n)) \in 0 .. INPUT_BUF_SIZE - 1
  BY <1>0, SlotAhead
<1>2. /\ d \in [0 .. INPUT_BUF_SIZE - 1 -> Chars] /\ d[Slot(Plus(x, n))] = c
      /\ \A s \in 0 .. INPUT_BUF_SIZE - 1 : s # Slot(Plus(x, n)) => d[s] = b[s]
  BY <1>1 DEF Put
<1> HIDE DEF d
<1>3. ASSUME NEW i \in 1 .. n
      PROVE  d[Slot(Plus(x, i - 1))] = b[Slot(Plus(x, i - 1))]
  <2>1. /\ i - 1 \in Nat /\ n \in Nat /\ i - 1 < n /\ n - (i - 1) < INPUT_BUF_SIZE
        /\ n <= Wrap /\ i - 1 \in 0 .. Wrap
    BY <1>0
  <2>2. Slot(Plus(x, i - 1)) # Slot(Plus(x, n))
    BY <2>1, OtherSlot
  <2>3. Slot(Plus(x, i - 1)) \in 0 .. INPUT_BUF_SIZE - 1
    BY <2>1, SlotAhead
  <2> QED BY <1>2, <2>2, <2>3
<1>4. Window(d, x, k) = Window(b, x, k)
  BY <1>0, <1>3 DEF Window
<1> DEFINE s == Window(b, x, n)  t == Window(d, x, n + 1)
<1>5. /\ s \in Seq(Chars) /\ Len(s) = n
      /\ \A i \in 1 .. n : s[i] = b[Slot(Plus(x, i - 1))]
  BY <1>0, WindowSeq
<1>6. /\ t \in Seq(Chars) /\ Len(t) = n + 1
      /\ \A i \in 1 .. n + 1 : t[i] = d[Slot(Plus(x, i - 1))]
  BY <1>0, <1>2, WindowSeq
<1>7. t[n + 1] = c
  <2>1. n + 1 \in 1 .. n + 1 /\ (n + 1) - 1 = n
    BY <1>0
  <2> QED BY <1>2, <1>6, <2>1
<1> HIDE DEF s, t
<1>8. t = Append(s, c)
  BY <1>0, <1>3, <1>5, <1>6, <1>7
<1> QED BY <1>2, <1>4, <1>8 DEF s, t, d

(* Two stretches, one behind the other, are one. *)
LEMMA WindowJoin ==
  ASSUME NEW b \in [0 .. INPUT_BUF_SIZE - 1 -> Chars], NEW x \in 0 .. Wrap - 1,
         NEW m \in Nat, NEW n \in Nat, m + n <= Wrap
  PROVE  Window(b, x, m) \o Window(b, Plus(x, m), n) = Window(b, x, m + n)
<1>0. /\ Wrap \in Nat /\ m \in 0 .. Wrap /\ n \in 0 .. Wrap /\ m + n \in 0 .. Wrap
  BY TerminalAssumption
<1>1. Plus(x, m) \in 0 .. Wrap - 1
  BY <1>0, Ahead
<1> DEFINE s == Window(b, x, m)  t == Window(b, Plus(x, m), n)  u == Window(b, x, m + n)
<1>2. /\ s \in Seq(Chars) /\ Len(s) = m
      /\ \A i \in 1 .. m : s[i] = b[Slot(Plus(x, i - 1))]
  BY <1>0, WindowSeq
<1>3. /\ t \in Seq(Chars) /\ Len(t) = n
      /\ \A i \in 1 .. n : t[i] = b[Slot(Plus(Plus(x, m), i - 1))]
  BY <1>0, <1>1, WindowSeq
<1>4. /\ u \in Seq(Chars) /\ Len(u) = m + n
      /\ \A i \in 1 .. m + n : u[i] = b[Slot(Plus(x, i - 1))]
  BY <1>0, WindowSeq
<1>5. ASSUME NEW i \in 1 .. n
      PROVE  t[i] = u[m + i]
  <2>1. /\ i - 1 \in Nat /\ m + (i - 1) <= Wrap /\ m + i \in 1 .. m + n
        /\ m + (i - 1) = (m + i) - 1
    BY <1>0
  <2>2. Plus(Plus(x, m), i - 1) = Plus(x, m + (i - 1))
    BY <2>1, Onwards
  <2> QED BY <1>3, <1>4, <2>1, <2>2
<1> HIDE DEF s, t, u
<1>6. s \o t = u
  <2>1. /\ s \o t \in Seq(Chars) /\ Len(s \o t) = m + n
        /\ \A i \in 1 .. m + n : (s \o t)[i] = IF i <= m THEN s[i] ELSE t[i - m]
    BY ZenonT(40), <1>2, <1>3, ConcatProperties
  <2>2. ASSUME NEW i \in 1 .. m + n
        PROVE  (s \o t)[i] = u[i]
    <3>1. CASE i <= m
      BY SMTT(30), <1>2, <1>4, <2>1, <3>1
    <3>2. CASE ~(i <= m)
      <4>1. i - m \in 1 .. n /\ m + (i - m) = i
        BY <3>2
      <4> QED BY <1>5, <2>1, <3>2, <4>1
    <3> QED BY <3>1, <3>2
  <2> QED BY <1>0, <1>4, <2>1, <2>2
<1> QED BY <1>6 DEF s, t, u

-----------------------------------------------------------------------------
(* What the three kinds of change to cons do to its line and queue. *)
LEMMA Gaps ==
  ASSUME TypesInv, OrderInv
  PROVE  /\ Minus(w, r) \in Nat /\ Minus(e, w) \in Nat
         /\ Minus(e, r) = Minus(w, r) + Minus(e, w)
         /\ INPUT_BUF_SIZE \in Nat /\ Wrap \in Nat /\ INPUT_BUF_SIZE < Wrap
<1>1. /\ Wrap \in Nat /\ INPUT_BUF_SIZE \in Nat /\ INPUT_BUF_SIZE < Wrap
      /\ r \in 0 .. Wrap - 1 /\ w \in 0 .. Wrap - 1 /\ e \in 0 .. Wrap - 1
  BY TerminalAssumption DEF TypesInv
<1>2. Minus(w, r) \in 0 .. Wrap - 1 /\ Minus(e, w) \in 0 .. Wrap - 1
  BY <1>1, Distance
<1>3. Minus(w, r) + Minus(e, w) < Wrap
  BY <1>1, <1>2 DEF OrderInv
<1>4. Minus(e, r) = Minus(w, r) + Minus(e, w)
  BY <1>1, <1>3, SumOfDistances
<1> QED BY <1>1, <1>2, <1>4

LEMMA TakeStep ==
  ASSUME TypesInv, OrderInv, r # w, r' = Plus(r, 1), UNCHANGED <<buf, w, e>>
  PROVE  /\ Between(r, w) # <<>> /\ Head(Between(r, w)) = NextChar
         /\ Between(r, w)' = Tail(Between(r, w))
         /\ Between(w, e)' = Between(w, e)
         /\ r' \in 0 .. Wrap - 1
         /\ Minus(w, r)' = Minus(w, r) - 1 /\ Minus(e, w)' = Minus(e, w)
<1> DEFINE m == Minus(w, r)
<1>1. /\ buf \in [0 .. INPUT_BUF_SIZE - 1 -> Chars]
      /\ r \in 0 .. Wrap - 1 /\ w \in 0 .. Wrap - 1 /\ 1 \in 0 .. Wrap
  BY TerminalAssumption DEF TypesInv
<1>2. m > 0 /\ Minus(w, Plus(r, 1)) = m - 1
  BY <1>1, StepsOfDistance
<1>3. m \in 1 .. Wrap
  <2>1. m \in 0 .. Wrap - 1 /\ Wrap \in Nat
    BY <1>1, Distance, TerminalAssumption
  <2> QED BY <1>2, <2>1
<1>4. Window(buf, r, m) # <<>> /\ Head(Window(buf, r, m)) = buf[Slot(r)]
      /\ Window(buf, Plus(r, 1), m - 1) = Tail(Window(buf, r, m))
  BY <1>1, <1>3, WindowTail
<1>5. Between(r, w) = Window(buf, r, m)
  BY DEF Between, Window
<1>6. Between(r, w)' = Window(buf, Plus(r, 1), m - 1)
  BY <1>2 DEF Between, Window
<1>7. Between(w, e)' = Between(w, e)
  BY DEF Between
<1>8. r' \in 0 .. Wrap - 1 /\ Minus(w, r)' = m - 1 /\ Minus(e, w)' = Minus(e, w)
  BY <1>1, <1>2, Ahead
<1> QED BY <1>4, <1>5, <1>6, <1>7, <1>8 DEF NextChar

LEMMA EraseStep ==
  ASSUME TypesInv, OrderInv, e # w, e' = Minus(e, 1), UNCHANGED <<buf, r, w>>
  PROVE  /\ Between(w, e) # <<>> /\ Between(w, e)' = Front(Between(w, e))
         /\ Between(r, w)' = Between(r, w)
         /\ e' \in 0 .. Wrap - 1
         /\ Minus(w, r)' = Minus(w, r) /\ Minus(e, w)' = Minus(e, w) - 1
<1> DEFINE n == Minus(e, w)
<1>1. /\ buf \in [0 .. INPUT_BUF_SIZE - 1 -> Chars]
      /\ e \in 0 .. Wrap - 1 /\ w \in 0 .. Wrap - 1 /\ 1 \in 0 .. Wrap - 1
  BY TerminalAssumption DEF TypesInv
<1>2. n > 0 /\ Minus(Minus(e, 1), w) = n - 1
  BY <1>1, StepsOfDistance
<1>3. n \in 1 .. Wrap
  <2>1. n \in 0 .. Wrap - 1 /\ Wrap \in Nat
    BY <1>1, Distance, TerminalAssumption
  <2> QED BY <1>2, <2>1
<1>4. Window(buf, w, n) # <<>> /\ Window(buf, w, n - 1) = Front(Window(buf, w, n))
  BY <1>1, <1>3, WindowFront
<1>5. Between(w, e) = Window(buf, w, n)
  BY DEF Between, Window
<1>6. Between(w, e)' = Window(buf, w, n - 1)
  BY <1>2 DEF Between, Window
<1>7. Between(r, w)' = Between(r, w)
  BY DEF Between
<1>8. e' \in 0 .. Wrap - 1 /\ Minus(w, r)' = Minus(w, r) /\ Minus(e, w)' = n - 1
  BY <1>1, <1>2, Distance
<1> QED BY <1>4, <1>5, <1>6, <1>7, <1>8

LEMMA StoreStep ==
  ASSUME TypesInv, OrderInv, Minus(w, r) + Minus(e, w) < INPUT_BUF_SIZE,
         NEW c \in Chars, buf' = [buf EXCEPT ![Slot(e)] = c],
         e' = Plus(e, 1), r' = r, w' \in {w, e'}
  PROVE  /\ buf' \in [0 .. INPUT_BUF_SIZE - 1 -> Chars] /\ e' \in 0 .. Wrap - 1
         /\ Len(Between(r, w)) = Minus(w, r) /\ Len(Between(w, e)) = Minus(e, w)
         /\ Minus(e, r)' = Minus(w, r) + Minus(e, w) + 1
         /\ Minus(w, r)' + Minus(e, w)' = Minus(w, r) + Minus(e, w) + 1
         /\ w' = w => /\ Between(w, e)' = Append(Between(w, e), c)
                      /\ Between(r, w)' = Between(r, w)
         /\ w' = e' => /\ Between(w, e)' = <<>>
                       /\ Between(r, w)' = Between(r, w) \o Append(Between(w, e), c)
<1>0. PICK m \in Nat, n \in Nat : m = Minus(w, r) /\ n = Minus(e, w)
  BY Gaps
<1> USE <1>0
<1>1. /\ buf \in [0 .. INPUT_BUF_SIZE - 1 -> Chars] /\ 1 \in 0 .. Wrap
      /\ e \in 0 .. Wrap - 1 /\ w \in 0 .. Wrap - 1 /\ r \in 0 .. Wrap - 1
      /\ Wrap \in Nat /\ INPUT_BUF_SIZE \in Nat /\ INPUT_BUF_SIZE < Wrap
  BY SMTT(30), TerminalAssumption DEF TypesInv
<1>2. m + n < INPUT_BUF_SIZE /\ Minus(e, r) = m + n
  BY <1>0, Gaps
<1>3. Plus(w, n) = e /\ Plus(r, m) = w /\ Plus(r, m + n) = e
  BY <1>1, <1>2, Arrival
<1>4. e' \in 0 .. Wrap - 1
  BY <1>1, Ahead
<1>5. Minus(e, w)' = IF w' = w THEN n + 1 ELSE 0
  <2>1. Minus(Plus(e, 1), w) = n + 1
    BY <1>1, <1>2, StepsOfDistance
  <2>2. Minus(e', e') = 0
    BY <1>4, StepsOfDistance
  <2> QED BY <1>2, <2>1, <2>2
<1>6. Minus(Plus(e, 1), r) = m + n + 1
  BY <1>1, <1>2, StepsOfDistance
<1>7. Minus(w, r)' = IF w' = w THEN m ELSE m + n + 1
  BY <1>6
<1>8. /\ buf' \in [0 .. INPUT_BUF_SIZE - 1 -> Chars]
      /\ Window(buf', w, n + 1) = Append(Window(buf, w, n), c)
      /\ Window(buf', r, m) = Window(buf, r, m)
      /\ Window(buf', r, m) \o Window(buf', w, n + 1) = Window(buf', r, m + n + 1)
  <2>1. buf' = Put(buf, Slot(e), c)
    BY DEF Put
  <2>2. PICK j \in Nat : j = m + n
    OBVIOUS
  <2>3. /\ n \in 0 .. INPUT_BUF_SIZE - 1 /\ j \in 0 .. INPUT_BUF_SIZE - 1
        /\ 0 \in 0 .. n /\ m \in 0 .. j /\ n + 1 \in Nat /\ m + (n + 1) <= Wrap
        /\ m + (n + 1) = m + n + 1 /\ Plus(r, j) = e
    <3>1. m + n < INPUT_BUF_SIZE /\ INPUT_BUF_SIZE < Wrap
          /\ INPUT_BUF_SIZE \in Nat /\ Wrap \in Nat
      BY <1>1, <1>2
    <3>2. Plus(r, j) = e
      BY <1>3, <2>2
    <3> QED BY ONLY <2>2, <3>1, <3>2
  <2> HIDE <1>0
  <2>4. /\ Put(buf, Slot(Plus(w, n)), c) \in [0 .. INPUT_BUF_SIZE - 1 -> Chars]
        /\ Window(Put(buf, Slot(Plus(w, n)), c), w, n + 1) = Append(Window(buf, w, n), c)
    BY ONLY ZenonT(40), <1>1, <2>3, WindowStore
  <2>5. Window(Put(buf, Slot(Plus(r, j)), c), r, m) = Window(buf, r, m)
    BY ONLY ZenonT(40), <1>1, <2>3, WindowStore
  <2>6. buf' \in [0 .. INPUT_BUF_SIZE - 1 -> Chars]
    BY <1>3, <2>1, <2>4
  <2>7. Window(buf', r, m) \o Window(buf', Plus(r, m), n + 1) = Window(buf', r, m + (n + 1))
    BY ONLY ZenonT(40), <1>1, <2>3, <2>6, WindowJoin
  <2> QED BY <1>3, <2>1, <2>3, <2>4, <2>5, <2>6, <2>7
<1>10. Between(w, e) = Window(buf, w, n) /\ Between(r, w) = Window(buf, r, m)
  BY DEF Between, Window
<1>11. Len(Between(r, w)) = m /\ Len(Between(w, e)) = n
  <2>1. m \in 0 .. Wrap /\ n \in 0 .. Wrap
    BY <1>1, <1>2
  <2> QED BY <1>1, <1>10, <2>1, WindowSeq
<1>12. ASSUME w' = w
       PROVE  /\ Between(w, e)' = Append(Between(w, e), c)
              /\ Between(r, w)' = Between(r, w)
  <2>1. Between(w, e)' = Window(buf', w, n + 1)
    BY <1>5, <1>12 DEF Between, Window
  <2>2. Between(r, w)' = Window(buf', r, m)
    BY <1>7, <1>12 DEF Between, Window
  <2> QED BY <1>8, <1>10, <2>1, <2>2
<1>13. ASSUME w' = e'
       PROVE  /\ Between(w, e)' = <<>>
              /\ Between(r, w)' = Between(r, w) \o Append(Between(w, e), c)
  <2>0. Minus(e, w)' = 0 /\ Minus(w, r)' = m + n + 1
    <3>1. Minus(e', e') = 0
      BY <1>4, StepsOfDistance
    <3> QED BY <1>6, <1>13, <3>1
  <2>1. Between(w, e)' = <<>>
    BY <2>0 DEF Between
  <2>2. Between(r, w)' = Window(buf', r, m + n + 1)
    BY <2>0 DEF Between, Window
  <2> QED BY <1>8, <1>10, <2>1, <2>2
<1>14. Minus(w, r)' + Minus(e, w)' = m + n + 1
  BY <1>2, <1>5, <1>7
<1>15. Minus(e, r)' = m + n + 1
  BY <1>6
<1> QED BY <1>4, <1>8, <1>11, <1>12, <1>13, <1>14, <1>15

-----------------------------------------------------------------------------
(* A step leaves what the readers have got. *)
Kept ==
  /\ proc' \in [Procs -> Contexts] /\ ReadsInv'
  /\ \A p \in Procs : proc'[p].cbuf = proc[p].cbuf

LEMMA GotoKeeps ==
  ASSUME TypesInv, ReadsInv, NEW p \in Procs, NEW there \in Places, Goto(p, there),
         there \in ReadPlaces => proc[p].pc \in ReadPlaces
  PROVE  Kept
<1>1. /\ proc' \in [Procs -> Contexts]
      /\ proc'[p].pc = there /\ proc'[p].left = proc[p].left
      /\ proc'[p].from = proc[p].from /\ proc'[p].cbuf = proc[p].cbuf
      /\ \A q \in Procs : q # p => proc'[q] = proc[q]
  BY GotoContext
<1> QED BY <1>1 DEF ReadsInv, Kept

LEMMA WakeupKeeps ==
  ASSUME TypesInv, ReadsInv, NEW here \in {"onread", "onwrite", "onpause"}, Wakeup(here)
  PROVE  Kept
<1>1. /\ proc' \in [Procs -> Contexts]
      /\ \A p \in Procs :
           /\ proc'[p].pc = proc[p].pc \/ (proc[p].pc = here /\ proc'[p].pc = Awake[here])
           /\ proc'[p].left = proc[p].left /\ proc'[p].from = proc[p].from
           /\ proc'[p].cbuf = proc[p].cbuf
  BY WakeupContext
<1>2. ASSUME NEW p \in Procs, proc'[p].pc \in ReadPlaces PROVE proc[p].pc \in ReadPlaces
  BY <1>1, <1>2, AwakePlaces DEF ReadPlaces
<1> QED BY <1>1, <1>2 DEF ReadsInv, Kept

LEMMA SameKeeps ==
  ASSUME TypesInv, ReadsInv, UNCHANGED proc
  PROVE  Kept
BY DEF TypesInv, ReadsInv, Kept

(* What is kept, and the buffer with it, is nothing new to Tty. *)
LEMMA Quiet ==
  ASSUME TerminalInv, Kept, UNCHANGED cons, intr' \in Handlers, StoreInv',
         ticks' \in 0 .. Wrap - 1, rhr' \in Keys \cup {Nothing}, budget' \in Remaining
  PROVE  TerminalInv' /\ UNCHANGED Console!ttyVars
<1>1. TypesInv'
  BY DEF TerminalInv, TypesInv, Kept, cons
<1>2. ReadsInv' /\ OrderInv'
  BY DEF TerminalInv, OrderInv, Kept, cons
<1>3. Between(w, e)' = Between(w, e) /\ Between(r, w)' = Between(r, w)
  BY DEF Between, cons
<1>4. [p \in Procs |-> proc[p].cbuf]' = [p \in Procs |-> proc[p].cbuf]
  BY DEF Kept
<1> QED BY <1>1, <1>2, <1>3, <1>4 DEF TerminalInv, Console!ttyVars

(* So is a step of a process that leaves the rest alone. *)
LEMMA QuietProc ==
  ASSUME TerminalInv, Kept, UNCHANGED <<cons, intr, ticks, rhr, budget>>
  PROVE  TerminalInv' /\ UNCHANGED Console!ttyVars
<1>1. StoreInv'
  BY DEF TerminalInv, StoreInv, cons
<1>2. /\ intr' \in Handlers /\ ticks' \in 0 .. Wrap - 1
      /\ rhr' \in Keys \cup {Nothing} /\ budget' \in Remaining
  BY DEF TerminalInv, TypesInv
<1>3. UNCHANGED cons
  OBVIOUS
<1> QED BY <1>1, <1>2, <1>3, Quiet

(* And one of the interrupt handler, unless it has a character to store. *)
LEMMA QuietIntr ==
  ASSUME TerminalInv, Kept, UNCHANGED <<cons, ticks, budget>>, intr' \in Handlers,
         rhr' \in Keys \cup {Nothing},
         intr'.pc = "store" => intr.pc = "store" /\ intr'.c = intr.c
  PROVE  TerminalInv' /\ UNCHANGED Console!ttyVars
<1>1. StoreInv'
  BY DEF TerminalInv, StoreInv, cons
<1>2. ticks' \in 0 .. Wrap - 1 /\ budget' \in Remaining
  BY DEF TerminalInv, TypesInv
<1>3. UNCHANGED cons
  OBVIOUS
<1> QED BY <1>1, <1>2, <1>3, Quiet

-----------------------------------------------------------------------------
(* What the readers have got changes for one of them. *)
LEMMA LastChanges ==
  ASSUME TypesInv, NEW p \in Procs, proc' \in [Procs -> Contexts],
         \A q \in Procs : q # p => proc'[q].cbuf = proc[q].cbuf
  PROVE  [q \in Procs |-> proc[q].cbuf]'
           = [[q \in Procs |-> proc[q].cbuf] EXCEPT ![p] = proc'[p].cbuf]
BY DEF TypesInv

(* A call is over, and with it what a read has got. *)
LEMMA IdleStep ==
  ASSUME TerminalInv, NEW p \in Procs, proc' = [proc EXCEPT ![p] = Idle],
         UNCHANGED <<cons, intr, ticks, rhr, budget>>
  PROVE  TerminalInv' /\ [Console!TtyNext]_(Console!ttyVars)
<1>1. /\ proc' \in [Procs -> Contexts]
      /\ proc'[p].pc = "idle" /\ proc'[p].cbuf = Nothing
      /\ \A q \in Procs : q # p => proc'[q] = proc[q]
  BY IdleContext DEF TerminalInv
<1>2. ReadsInv'
  BY <1>1 DEF TerminalInv, ReadsInv, ReadPlaces
<1>3. CASE proc[p].cbuf = Nothing
  <2>1. Kept
    BY <1>1, <1>2, <1>3 DEF Kept
  <2> QED BY <2>1, QuietProc
<1>4. CASE proc[p].cbuf # Nothing
  <2>1. TypesInv' /\ OrderInv' /\ StoreInv'
    BY <1>1 DEF TerminalInv, TypesInv, OrderInv, StoreInv, cons
  <2>2. Between(w, e)' = Between(w, e) /\ Between(r, w)' = Between(r, w)
    BY DEF Between, cons
  <2>3. [q \in Procs |-> proc[q].cbuf]'
          = [[q \in Procs |-> proc[q].cbuf] EXCEPT ![p] = Nothing]
    BY <1>1, LastChanges DEF TerminalInv
  <2>4. Console!Finish(p)
    BY <1>4, <2>2, <2>3 DEF Console!Finish
  <2> QED BY <1>2, <2>1, <2>4 DEF TerminalInv, Console!TtyNext
<1> QED BY <1>3, <1>4

(* A character is taken out of the buffer. *)
LEMMA TakenStep ==
  ASSUME TerminalInv, NEW p \in Procs, Reading(p), r' = Plus(r, 1),
         UNCHANGED <<buf, w, e, intr, ticks, rhr, budget>>,
         NEW there \in Contexts, proc' = [proc EXCEPT ![p] = there],
         there.pc = "return" \/
         (there.pc = "reading" /\ there.left < there.from
          /\ there.cbuf \notin {Newline, Eof})
  PROVE  TerminalInv'
<1>1. /\ r' \in 0 .. Wrap - 1
      /\ Minus(w, r)' = Minus(w, r) - 1 /\ Minus(e, w)' = Minus(e, w)
  BY TakeStep DEF TerminalInv, Reading
<1>2. Minus(w, r) \in Int /\ Minus(e, w) \in Int /\ INPUT_BUF_SIZE \in Int
  BY Gaps DEF TerminalInv
<1>3. proc' \in [Procs -> Contexts] /\ proc'[p] = there
      /\ \A q \in Procs : q # p => proc'[q] = proc[q]
  BY DEF TerminalInv, TypesInv
<1>4. TypesInv'
  BY <1>1, <1>3 DEF TerminalInv, TypesInv
<1>5. ReadsInv'
  <2>1. there.left \in Int /\ there.from \in Int
    BY DEF Contexts
  <2>2. there.pc = "return" => there.pc \notin ReadPlaces
    BY DEF ReadPlaces
  <2> QED BY <1>3, <2>1, <2>2 DEF TerminalInv, ReadsInv
<1>6. OrderInv'
  BY <1>1, <1>2 DEF TerminalInv, OrderInv
<1>7. StoreInv'
  BY <1>1, <1>2 DEF TerminalInv, StoreInv
<1> QED BY <1>4, <1>5, <1>6, <1>7 DEF TerminalInv

LEMMA ReadEofStep ==
  ASSUME TerminalInv, NEW p \in Procs, ReadEof(p)
  PROVE  TerminalInv' /\ [Console!TtyNext]_(Console!ttyVars)
<1>0. /\ proc[p] \in Contexts /\ Reading(p) /\ NextChar = Eof
      /\ UNCHANGED <<buf, w, e, intr, ticks, rhr, budget>>
  BY DEF TerminalInv, TypesInv, ReadEof, InProc, uart
<1>1. CASE proc[p].left < proc[p].from
  <2>1. Goto(p, "return") /\ UNCHANGED cons
    BY <1>1 DEF ReadEof, cons
  <2>2. "return" \in Places /\ "return" \notin ReadPlaces
    BY DEF Places, ReadPlaces
  <2>3. Kept
    BY <2>1, <2>2, GotoKeeps DEF TerminalInv
  <2> QED BY <1>0, <2>1, <2>3, QuietProc
<1>2. CASE ~(proc[p].left < proc[p].from)
  <2> DEFINE there == [proc[p] EXCEPT !.cbuf = Eof, !.pc = "return"]
  <2>1. r' = Plus(r, 1) /\ proc' = [proc EXCEPT ![p] = there]
    BY <1>2 DEF ReadEof
  <2>2. there \in Contexts /\ there.pc = "return" /\ there.cbuf = Eof
    BY <1>0 DEF Contexts, Places, Chars
  <2> HIDE DEF there
  <2>3. TerminalInv'
    BY <1>0, <2>1, <2>2, TakenStep
  <2>4. proc[p].cbuf = Nothing
    <3>1. proc[p].pc \in ReadPlaces /\ proc[p].left \in Int /\ proc[p].from \in Int
      BY <1>0 DEF Reading, ReadPlaces, Contexts
    <3> QED BY <1>2, <3>1 DEF TerminalInv, ReadsInv
  <2>5. /\ Between(r, w) # <<>> /\ Head(Between(r, w)) = Eof
        /\ Between(r, w)' = Tail(Between(r, w)) /\ Between(w, e)' = Between(w, e)
    BY <1>0, <2>1, TakeStep DEF TerminalInv, Reading
  <2>6. /\ proc' \in [Procs -> Contexts] /\ proc'[p].cbuf = Eof
        /\ \A q \in Procs : q # p => proc'[q].cbuf = proc[q].cbuf
    BY <2>1, <2>2 DEF TerminalInv, TypesInv
  <2>7. [q \in Procs |-> proc[q].cbuf]'
          = [[q \in Procs |-> proc[q].cbuf] EXCEPT ![p] = Eof]
    BY <2>6, LastChanges DEF TerminalInv
  <2>8. Console!TakeEof(p)
    BY <2>4, <2>5, <2>7 DEF Console!TakeEof
  <2> QED BY <2>3, <2>8 DEF Console!TtyNext
<1> QED BY <1>1, <1>2

LEMMA ReadCharStep ==
  ASSUME TerminalInv, NEW p \in Procs, ReadChar(p)
  PROVE  TerminalInv' /\ [Console!TtyNext]_(Console!ttyVars)
<1>0. /\ proc[p] \in Contexts /\ Reading(p) /\ NextChar # Eof
      /\ UNCHANGED <<buf, w, e, intr, ticks, rhr, budget>>
  BY DEF TerminalInv, TypesInv, ReadChar, InProc, uart
<1>1. proc[p].pc = "reading" /\ proc[p].left <= proc[p].from
      /\ proc[p].cbuf \notin {Newline, Eof}
  BY <1>0 DEF TerminalInv, ReadsInv, Reading, ReadPlaces
<1> DEFINE there == [proc[p] EXCEPT !.cbuf = NextChar, !.left = @ - 1,
                       !.pc = IF NextChar = Newline THEN "return" ELSE @]
<1>2. r' = Plus(r, 1) /\ proc' = [proc EXCEPT ![p] = there]
  <2>1. proc' = [proc EXCEPT
                   ![p].cbuf = NextChar, ![p].left = @ - 1,
                   ![p].pc = IF NextChar = Newline THEN "return" ELSE @]
    BY DEF ReadChar
  <2> QED BY <1>0, <2>1 DEF ReadChar, TerminalInv, TypesInv
<1>3. NextChar \in Chars
  <2>1. r \in 0 .. Wrap - 1 /\ 0 \in 0 .. Wrap /\ Plus(r, 0) = r
    BY TerminalAssumption, Arrival DEF TerminalInv, TypesInv
  <2>2. Slot(r) \in 0 .. INPUT_BUF_SIZE - 1
    BY <2>1, SlotAhead
  <2> QED BY <2>2 DEF TerminalInv, TypesInv, NextChar
<1>4. /\ there.cbuf = NextChar /\ there.left = proc[p].left - 1
      /\ there.from = proc[p].from
      /\ there.pc = IF NextChar = Newline THEN "return" ELSE "reading"
  BY <1>0, <1>1 DEF Contexts
<1>5. there \in Contexts
  <2>1. proc[p].left - 1 \in Int
    BY <1>0 DEF Contexts
  <2>2. (IF NextChar = Newline THEN "return" ELSE proc[p].pc) \in Places
    BY <1>1 DEF Places, ReadPlaces
  <2> QED BY <1>0, <1>3, <2>1, <2>2 DEF Contexts
<1> HIDE DEF there
<1>6. there.left < there.from
  <2>1. proc[p].left \in Int /\ proc[p].from \in Int
    BY <1>0 DEF Contexts
  <2> QED BY <1>1, <1>4, <2>1
<1>7. TerminalInv'
  BY <1>0, <1>2, <1>4, <1>5, <1>6, TakenStep
<1>8. /\ Between(r, w) # <<>> /\ Head(Between(r, w)) = NextChar
      /\ Between(r, w)' = Tail(Between(r, w)) /\ Between(w, e)' = Between(w, e)
  BY <1>0, <1>2, TakeStep DEF TerminalInv, Reading
<1>9. /\ proc' \in [Procs -> Contexts] /\ proc'[p].cbuf = NextChar
      /\ \A q \in Procs : q # p => proc'[q].cbuf = proc[q].cbuf
  BY <1>2, <1>4, <1>5 DEF TerminalInv, TypesInv
<1>10. [q \in Procs |-> proc[q].cbuf]'
         = [[q \in Procs |-> proc[q].cbuf] EXCEPT ![p] = NextChar]
  BY <1>9, LastChanges DEF TerminalInv
<1>11. Console!Take(p)
  BY <1>0, <1>1, <1>8, <1>10 DEF Console!Take
<1> QED BY <1>7, <1>11 DEF Console!TtyNext

LEMMA ReadFaultStep ==
  ASSUME TerminalInv, NEW p \in Procs, ReadFault(p)
  PROVE  TerminalInv' /\ [Console!TtyNext]_(Console!ttyVars)
<1>0. /\ proc[p] \in Contexts /\ Reading(p) /\ NextChar # Eof
      /\ UNCHANGED <<buf, w, e, intr, ticks, rhr, budget>>
  BY DEF TerminalInv, TypesInv, ReadFault, InProc, uart
<1>1. proc[p].cbuf \notin {Newline, Eof}
  BY <1>0 DEF TerminalInv, ReadsInv, Reading, ReadPlaces
<1> DEFINE there == [proc[p] EXCEPT !.cbuf = Nothing, !.pc = "return"]
<1>2. r' = Plus(r, 1) /\ proc' = [proc EXCEPT ![p] = there]
  BY DEF ReadFault
<1>3. there \in Contexts /\ there.pc = "return" /\ there.cbuf = Nothing
  BY <1>0 DEF Contexts, Places
<1> HIDE DEF there
<1>4. TerminalInv'
  BY <1>0, <1>2, <1>3, TakenStep
<1>5. /\ Between(r, w) # <<>> /\ Head(Between(r, w)) = NextChar
      /\ Between(r, w)' = Tail(Between(r, w)) /\ Between(w, e)' = Between(w, e)
  BY <1>0, <1>2, TakeStep DEF TerminalInv, Reading
<1>6. /\ proc' \in [Procs -> Contexts] /\ proc'[p].cbuf = Nothing
      /\ \A q \in Procs : q # p => proc'[q].cbuf = proc[q].cbuf
  BY <1>2, <1>3 DEF TerminalInv, TypesInv
<1>7. [q \in Procs |-> proc[q].cbuf]'
        = [[q \in Procs |-> proc[q].cbuf] EXCEPT ![p] = Nothing]
  BY <1>6, LastChanges DEF TerminalInv
<1>8. Console!Lose(p)
  BY <1>0, <1>1, <1>5, <1>7 DEF Console!Lose
<1> QED BY <1>4, <1>8 DEF Console!TtyNext

LEMMA ReadStep ==
  ASSUME TerminalInv, NEW p \in Procs, consoleread(p)
  PROVE  TerminalInv' /\ [Console!TtyNext]_(Console!ttyVars)
<1>0. TypesInv /\ ReadsInv
  BY DEF TerminalInv
<1>1. CASE ReadEnter(p)
  <2>1. Goto(p, "reading") /\ proc[p].pc = "read"
        /\ UNCHANGED <<cons, intr, ticks, rhr, budget>>
    BY <1>1 DEF ReadEnter, InProc, uart
  <2>2. Kept
    BY <1>0, <2>1, GotoKeeps DEF Places, ReadPlaces
  <2> QED BY <2>1, <2>2, QuietProc
<1>2. CASE ReadWaits(p)
  <2>1. /\ Goto(p, IF p \in killed THEN "return" ELSE "nap") /\ proc[p].pc = "reading"
        /\ UNCHANGED <<cons, intr, ticks, rhr, budget>>
    BY <1>2 DEF ReadWaits, InProc, uart
  <2>2. (IF p \in killed THEN "return" ELSE "nap") \in Places /\ "reading" \in ReadPlaces
    BY DEF Places, ReadPlaces
  <2>3. Kept
    BY <1>0, <2>1, <2>2, GotoKeeps
  <2> QED BY <2>1, <2>3, QuietProc
<1>3. CASE ReadSleeps(p)
  <2>1. Goto(p, "onread") /\ proc[p].pc = "nap"
        /\ UNCHANGED <<cons, intr, ticks, rhr, budget>>
    BY <1>3 DEF ReadSleeps, InProc, uart
  <2>2. Kept
    BY <1>0, <2>1, GotoKeeps DEF Places, ReadPlaces
  <2> QED BY <2>1, <2>2, QuietProc
<1>4. CASE ReadEof(p)
  BY <1>4, ReadEofStep
<1>5. CASE ReadChar(p)
  BY <1>5, ReadCharStep
<1>6. CASE ReadFault(p)
  BY <1>6, ReadFaultStep
<1>7. CASE ReadReturns(p)
  <2>1. proc' = [proc EXCEPT ![p] = Idle] /\ UNCHANGED <<cons, intr, ticks, rhr, budget>>
    BY <1>7 DEF ReadReturns, InProc, uart
  <2> QED BY <2>1, IdleStep
<1> QED BY <1>1, <1>2, <1>3, <1>4, <1>5, <1>6, <1>7 DEF consoleread

LEMMA WriteStep ==
  ASSUME TerminalInv, NEW p \in Procs, consolewrite(p)
  PROVE  TerminalInv' /\ [Console!TtyNext]_(Console!ttyVars)
<1>1. CASE uartwrite(p)
  <2> DEFINE left == proc[p].left - IF tx_busy THEN 0 ELSE 1
             chunk == ~tx_busy /\ (proc[p].from - left) % BUFSIZE = 0
             there == [proc[p] EXCEPT !.left = left,
                         !.pc = IF chunk \/ left = 0 THEN "write" ELSE "onwrite"]
  <2>1. proc' = [proc EXCEPT ![p] = there]
        /\ UNCHANGED <<cons, intr, ticks, rhr, budget>>
    BY <1>1 DEF uartwrite, Send, uart
  <2>2. proc[p] \in Contexts
    BY DEF TerminalInv, TypesInv
  <2>3. left \in Int
    BY <2>2 DEF Contexts
  <2> HIDE DEF left, chunk
  <2>4. there.pc \in {"write", "onwrite"} /\ there.cbuf = proc[p].cbuf /\ there \in Contexts
    BY <2>2, <2>3 DEF Contexts, Places
  <2> HIDE DEF there
  <2>5. /\ proc' \in [Procs -> Contexts] /\ proc'[p] = there
        /\ \A q \in Procs : q # p => proc'[q] = proc[q]
    BY <2>1, <2>4 DEF TerminalInv, TypesInv
  <2>6. there.pc \notin ReadPlaces
    BY <2>4 DEF ReadPlaces
  <2>7. Kept
    BY <2>4, <2>5, <2>6 DEF TerminalInv, ReadsInv, Kept
  <2> QED BY <2>1, <2>7, QuietProc
<1>2. CASE WriteFault(p) \/ WriteReturns(p)
  <2>1. proc' = [proc EXCEPT ![p] = Idle] /\ UNCHANGED <<cons, intr, ticks, rhr, budget>>
    BY <1>2 DEF WriteFault, WriteReturns, InProc, uart
  <2> QED BY <2>1, IdleStep
<1> QED BY <1>1, <1>2 DEF consolewrite

LEMMA PauseStep ==
  ASSUME TerminalInv, NEW p \in Procs, sys_pause(p)
  PROVE  TerminalInv' /\ [Console!TtyNext]_(Console!ttyVars)
<1>0. TypesInv /\ ReadsInv /\ UNCHANGED <<cons, intr, ticks, rhr, budget>>
  BY DEF TerminalInv, sys_pause, PauseTest, PauseSleeps, InProc, uart
<1>1. CASE Goto(p, "tick") \/ Goto(p, "onpause")
  <2>1. Kept
    BY <1>0, <1>1, GotoKeeps DEF Places, ReadPlaces
  <2> QED BY <1>0, <2>1, QuietProc
<1>2. CASE proc' = [proc EXCEPT ![p] = Idle]
  BY <1>0, <1>2, IdleStep
<1> QED BY <1>1, <1>2 DEF sys_pause, PauseTest, PauseSleeps

LEMMA CallStep ==
  ASSUME TerminalInv, NEW p \in Procs, NEW job \in budget.jobs[p], Call(p, job)
  PROVE  TerminalInv' /\ UNCHANGED Console!ttyVars
<1>1. job \in Jobs /\ budget \in Remaining /\ ticks \in 0 .. Wrap - 1
  BY DEF TerminalInv, TypesInv, Remaining
<1> DEFINE from == IF job.call = "pause" THEN ticks ELSE job.n
           there == At(job.call, job.n, from, Nothing)
<1>2. /\ proc[p] = Idle /\ proc' = [proc EXCEPT ![p] = there]
      /\ budget' = [budget EXCEPT !.jobs[p] = @ \ {job}]
      /\ UNCHANGED <<cons, intr, ticks, rhr>>
  BY DEF Call, uart
<1>3. job.n \in Int /\ from \in Int /\ job.call \in {"read", "write", "pause"}
  BY <1>1, TerminalAssumption DEF Jobs
<1>4. /\ there \in Contexts /\ there.pc = job.call /\ there.left = job.n
      /\ there.from = from /\ there.cbuf = Nothing
  BY <1>3 DEF At, Contexts, Places, ReadPlaces
<1>5. there.pc \in ReadPlaces => there.left = there.from
  BY <1>3, <1>4 DEF ReadPlaces
<1>6. Nothing \notin {Newline, Eof} /\ Idle.cbuf = Nothing
  BY TerminalAssumption DEF Keys, Chars, Idle, At
<1> HIDE DEF there
<1>7. /\ proc' \in [Procs -> Contexts] /\ proc'[p] = there
      /\ \A q \in Procs : q # p => proc'[q] = proc[q]
  BY <1>2, <1>4 DEF TerminalInv, TypesInv
<1>8. Kept
  <2>1. ReadsInv'
    BY <1>3, <1>4, <1>5, <1>6, <1>7 DEF TerminalInv, ReadsInv
  <2> QED BY <1>2, <1>4, <1>6, <1>7, <2>1 DEF Kept
<1>9. budget' \in Remaining
  BY <1>1, <1>2 DEF Remaining
<1>10. StoreInv' /\ intr' \in Handlers /\ ticks' \in 0 .. Wrap - 1
       /\ rhr' \in Keys \cup {Nothing} /\ UNCHANGED cons
  BY <1>2 DEF TerminalInv, TypesInv, StoreInv, cons
<1> QED BY <1>8, <1>9, <1>10, Quiet

LEMMA KillStep ==
  ASSUME TerminalInv, NEW p \in Procs, Kill(p)
  PROVE  TerminalInv' /\ UNCHANGED Console!ttyVars
<1>0. /\ TypesInv /\ ReadsInv /\ budget \in Remaining
      /\ budget' = [budget EXCEPT !.victims = @ \ {p}]
      /\ UNCHANGED <<cons, intr, ticks, rhr>>
  BY DEF TerminalInv, TypesInv, Kill, uart
<1>1. Kept
  <2>1. CASE UNCHANGED proc
    BY <1>0, <2>1, SameKeeps
  <2>2. CASE proc[p].pc \in DOMAIN Awake /\ Goto(p, Awake[proc[p].pc])
    <3>1. /\ Awake[proc[p].pc] \in Places
          /\ Awake[proc[p].pc] \in ReadPlaces => proc[p].pc \in ReadPlaces
      BY <2>2, AwakePlaces DEF Places, ReadPlaces
    <3> QED BY <1>0, <2>2, <3>1, GotoKeeps
  <2> QED BY <2>1, <2>2 DEF Kill
<1>2. budget' \in Remaining
  BY <1>0 DEF Remaining
<1>3. StoreInv' /\ intr' \in Handlers /\ ticks' \in 0 .. Wrap - 1
      /\ rhr' \in Keys \cup {Nothing} /\ UNCHANGED cons
  BY <1>0 DEF TerminalInv, TypesInv, StoreInv, cons
<1> QED BY <1>1, <1>2, <1>3, Quiet

-----------------------------------------------------------------------------
(* The clock, the UART, and who else sends. *)
LEMMA OutsideStep ==
  ASSUME TerminalInv,
         Transmit \/ PrintWaits \/ PrintSends \/ clockintr \/ \E c \in Keys : Key(c)
  PROVE  TerminalInv' /\ UNCHANGED Console!ttyVars
<1>0. TypesInv /\ ReadsInv /\ budget \in Remaining
  BY DEF TerminalInv, TypesInv
<1>1. UNCHANGED <<cons, intr>>
  BY DEF Transmit, PrintWaits, PrintSends, clockintr, Key
<1>2. Kept
  <2>1. CASE clockintr
    BY <1>0, <2>1, WakeupKeeps DEF clockintr
  <2>2. CASE UNCHANGED proc
    BY <1>0, <2>2, SameKeeps
  <2> QED BY <2>1, <2>2 DEF Transmit, PrintWaits, PrintSends, Key
<1>3. ticks' \in 0 .. Wrap - 1
  <2>1. 1 \in 0 .. Wrap /\ ticks \in 0 .. Wrap - 1
    BY <1>0, TerminalAssumption DEF TypesInv
  <2>2. Plus(ticks, 1) \in 0 .. Wrap - 1
    BY <2>1, Ahead
  <2> QED BY <2>1, <2>2 DEF Transmit, PrintWaits, PrintSends, clockintr, Key
<1>4. rhr' \in Keys \cup {Nothing}
  BY <1>0 DEF TypesInv, Transmit, PrintWaits, PrintSends, Send, clockintr, Key, uart
<1>5. budget' \in Remaining
  BY <1>0 DEF Remaining, Transmit, PrintWaits, PrintSends, clockintr, Key
<1>6. StoreInv' /\ intr' \in Handlers /\ UNCHANGED cons
  BY <1>0, <1>1 DEF TerminalInv, TypesInv, StoreInv, cons
<1> QED BY <1>2, <1>3, <1>4, <1>5, <1>6, Quiet

(* The interrupt handler, while the buffer stays as it is. *)
LEMMA HandlerStep ==
  ASSUME TerminalInv,
         \/ plic_claim \/ ReadISR \/ TxIdle \/ uartgetc \/ plic_complete
         \/ EchoWaits \/ EchoSends \/ Ignore \/ ConsoleDone
  PROVE  TerminalInv' /\ UNCHANGED Console!ttyVars
<1>0. TypesInv /\ ReadsInv /\ intr \in Handlers /\ rhr \in Keys \cup {Nothing}
  BY DEF TerminalInv, TypesInv
<1>1. UNCHANGED <<cons, ticks, budget>>
  BY DEF plic_claim, ReadISR, TxIdle, uartgetc, plic_complete, EchoWaits, EchoSends,
         Ignore, ConsoleDone, InIntr
<1>2. Kept
  <2>1. CASE Wakeup("onwrite")
    BY <1>0, <2>1, WakeupKeeps
  <2>2. CASE UNCHANGED proc
    BY <1>0, <2>2, SameKeeps
  <2> QED BY <2>1, <2>2 DEF plic_claim, ReadISR, TxIdle, uartgetc, plic_complete,
             EchoWaits, EchoSends, Ignore, ConsoleDone
<1>3. rhr' \in Keys \cup {Nothing}
  BY <1>0 DEF plic_claim, ReadISR, TxIdle, uartgetc, plic_complete,
              EchoWaits, EchoSends, Send, Ignore, ConsoleDone, uart
<1>4. /\ intr' \in Handlers
      /\ intr'.pc = "store" => intr.pc = "store" /\ intr'.c = intr.c
  <2>1. CASE plic_claim \/ ReadISR \/ TxIdle \/ Ignore
    BY <1>0, <2>1 DEF Handlers, plic_claim, ReadISR, TxIdle, Ignore, IntrAt
  <2>2. CASE uartgetc \/ ConsoleDone
    BY <1>0, <2>2 DEF Handlers, uartgetc, ConsoleDone
  <2>3. CASE EchoWaits \/ EchoSends
    <3>1. intr.echo \in Int /\ intr.echo - 1 \in Int
      BY <1>0 DEF Handlers
    <3>2. CASE EchoWaits
      BY <1>0, <3>2 DEF Handlers, EchoWaits
    <3>3. CASE EchoSends
      BY <1>0, <3>1, <3>3 DEF Handlers, EchoSends
    <3> QED BY <2>3, <3>2, <3>3
  <2>4. CASE plic_complete
    BY <2>4 DEF Handlers, plic_complete, NoIntr
  <2> QED BY <2>1, <2>2, <2>3, <2>4
<1> QED BY <1>1, <1>2, <1>3, <1>4, QuietIntr

(* A character is echoed only if there is room: then it can be stored. *)
LEMMA EchoCharStep ==
  ASSUME TerminalInv, EchoChar
  PROVE  TerminalInv' /\ UNCHANGED Console!ttyVars
<1>0. /\ TypesInv /\ ReadsInv /\ OrderInv /\ intr \in Handlers
      /\ rhr' \in Keys \cup {Nothing} /\ ticks' \in 0 .. Wrap - 1 /\ budget' \in Remaining
      /\ UNCHANGED <<cons, proc>>
  BY DEF TerminalInv, TypesInv, EchoChar, InIntr, uart
<1>1. intr' = [intr EXCEPT !.echo = 1, !.pc = "store"] /\ intr.c \in Chars
      /\ Minus(e, r) < INPUT_BUF_SIZE
  BY DEF EchoChar, Switch, Room
<1>2. intr' \in Handlers /\ intr'.c = intr.c
  <2>1. 1 \in Int
    OBVIOUS
  <2> QED BY <1>0, <1>1, <2>1 DEF Handlers
<1>3. Minus(e, r) = Minus(w, r) + Minus(e, w)
  BY <1>0, Gaps
<1>4. StoreInv'
  BY <1>0, <1>1, <1>2, <1>3 DEF StoreInv, cons
<1>5. Kept /\ UNCHANGED cons
  BY <1>0, SameKeeps
<1> QED BY <1>0, <1>2, <1>4, <1>5, Quiet

LEMMA EraseOneStep ==
  ASSUME TerminalInv, EraseOne
  PROVE  TerminalInv' /\ [Console!TtyNext]_(Console!ttyVars)
<1>0. /\ TypesInv /\ ReadsInv /\ OrderInv /\ intr \in Handlers
      /\ e # w /\ e' = Minus(e, 1)
      /\ UNCHANGED <<buf, r, w, rhr, proc, ticks, budget>>
  BY DEF TerminalInv, TypesInv, EraseOne, CanErase, InIntr, uart
<1>1. intr.pc = "console" /\ intr' = [intr EXCEPT !.echo = 3,
                               !.pc = IF intr.c = KillLine THEN @ ELSE "done"]
  BY DEF EraseOne, Switch
<1>2. intr' \in Handlers /\ intr'.pc # "store"
  <2>0. 3 \in Int
    OBVIOUS
  <2>1. CASE intr.c = KillLine
    BY <1>0, <1>1, <2>0, <2>1 DEF Handlers
  <2>2. CASE intr.c # KillLine
    BY <1>0, <1>1, <2>0, <2>2 DEF Handlers
  <2> QED BY <2>1, <2>2
<1>3. /\ Between(w, e) # <<>> /\ Between(w, e)' = Front(Between(w, e))
      /\ Between(r, w)' = Between(r, w)
      /\ e' \in 0 .. Wrap - 1
      /\ Minus(w, r)' = Minus(w, r) /\ Minus(e, w)' = Minus(e, w) - 1
  BY <1>0, EraseStep
<1>4. Minus(w, r) \in Int /\ Minus(e, w) \in Int /\ INPUT_BUF_SIZE \in Int
  BY <1>0, Gaps
<1>5. TypesInv'
  BY <1>0, <1>2, <1>3 DEF TypesInv
<1>6. ReadsInv' /\ StoreInv' /\ OrderInv'
  BY <1>0, <1>2, <1>3, <1>4 DEF ReadsInv, StoreInv, OrderInv
<1>7. [p \in Procs |-> proc[p].cbuf]' = [p \in Procs |-> proc[p].cbuf]
  BY <1>0
<1>8. Console!Erase
  BY <1>3, <1>7 DEF Console!Erase, Front, Console!Front
<1> QED BY <1>5, <1>6, <1>8 DEF TerminalInv, Console!TtyNext

LEMMA StoreCharStep ==
  ASSUME TerminalInv, Store
  PROVE  TerminalInv' /\ [Console!TtyNext]_(Console!ttyVars)
<1> DEFINE m == Minus(w, r)  n == Minus(e, w)  c == intr.c
           full == Minus(e', r) = INPUT_BUF_SIZE
<1>0. /\ TypesInv /\ ReadsInv /\ OrderInv /\ intr \in Handlers
      /\ c \in Chars /\ m + n < INPUT_BUF_SIZE
      /\ buf' = [buf EXCEPT ![Slot(e)] = c] /\ e' = Plus(e, 1)
      /\ intr' = [intr EXCEPT !.pc = "done"]
      /\ UNCHANGED <<r, rhr, ticks, budget>>
  BY DEF TerminalInv, TypesInv, StoreInv, Store, IntrAt, InIntr, uart
<1>1. /\ c \in {Newline, Eof} \/ full => w' = e' /\ Wakeup("onread")
      /\ ~(c \in {Newline, Eof} \/ full) => w' = w /\ UNCHANGED proc
  BY DEF Store
<1>2. Kept
  BY <1>0, <1>1, WakeupKeeps, SameKeeps
<1>3. m \in Nat /\ n \in Nat /\ INPUT_BUF_SIZE \in Nat
  BY <1>0, Gaps
<1>4. /\ buf' \in [0 .. INPUT_BUF_SIZE - 1 -> Chars] /\ e' \in 0 .. Wrap - 1
      /\ Len(Between(r, w)) = m /\ Len(Between(w, e)) = n
      /\ Minus(e, r)' = m + n + 1
      /\ Minus(w, r)' + Minus(e, w)' = m + n + 1
      /\ w' = w => /\ Between(w, e)' = Append(Between(w, e), c)
                   /\ Between(r, w)' = Between(r, w)
      /\ w' = e' => /\ Between(w, e)' = <<>>
                    /\ Between(r, w)' = Between(r, w) \o Append(Between(w, e), c)
  <2>1. w' \in {w, e'} /\ r' = r
    BY <1>0, <1>1
  <2> QED BY <1>0, <2>1, StoreStep
<1>5. TypesInv'
  <2>1. intr' \in Handlers
    BY <1>0 DEF Handlers
  <2>2. w' \in 0 .. Wrap - 1
    BY <1>0, <1>1, <1>4 DEF TypesInv
  <2> QED BY <1>0, <1>2, <1>4, <2>1, <2>2 DEF TypesInv, Kept
<1>6. ReadsInv' /\ StoreInv' /\ OrderInv'
  <2>1. intr'.pc = "done"
    BY <1>0 DEF Handlers
  <2>2. Minus(w, r)' + Minus(e, w)' <= INPUT_BUF_SIZE
    BY <1>0, <1>3, <1>4
  <2> QED BY <1>2, <2>1, <2>2 DEF Kept, StoreInv, OrderInv
<1>7. Console!Type(c)
  <2>1. Between(w, e) \in Seq(Chars)
    <3>1. /\ buf \in [0 .. INPUT_BUF_SIZE - 1 -> Chars] /\ w \in 0 .. Wrap - 1
          /\ n \in 0 .. Wrap
      BY <1>0, <1>3, Gaps, TerminalAssumption DEF TypesInv
    <3>2. Window(buf, w, n) \in Seq(Chars)
      BY <3>1, WindowSeq
    <3> QED BY <3>2 DEF Between, Window
  <2>2. Len(Append(Between(w, e), c)) = n + 1
    BY <1>0, <1>4, <2>1
  <2>3. Len(Between(r, w)) + Len(Append(Between(w, e), c)) = m + n + 1
    BY <1>3, <1>4, <2>2
  <2>4. full <=> m + n + 1 = INPUT_BUF_SIZE
    BY <1>0, <1>4
  <2>5. m + n + 1 <= INPUT_BUF_SIZE
    BY <1>0, <1>3
  <2>6. [p \in Procs |-> proc[p].cbuf]' = [p \in Procs |-> proc[p].cbuf]
    BY <1>2 DEF Kept
  <2>7. CASE c \in {Newline, Eof} \/ full
    BY <1>1, <1>4, <2>3, <2>4, <2>5, <2>6, <2>7 DEF Console!Type
  <2>8. CASE ~(c \in {Newline, Eof} \/ full)
    BY <1>1, <1>4, <2>3, <2>4, <2>5, <2>6, <2>8 DEF Console!Type
  <2> QED BY <2>7, <2>8
<1> QED BY <1>0, <1>5, <1>6, <1>7 DEF TerminalInv, Console!TtyNext

-----------------------------------------------------------------------------
LEMMA TerminalInit ==
  ASSUME Init
  PROVE  TerminalInv /\ Console!TtyInit
<1>1. Start \in 0 .. Wrap - 1 /\ INPUT_BUF_SIZE \in Nat /\ Wrap \in Nat
      /\ Budgets \subseteq Remaining
  BY TerminalAssumption DEF Remaining, Jobs
<1>2. Minus(w, r) = 0 /\ Minus(e, w) = 0
  BY <1>1, StepsOfDistance DEF Init
<1>3. Idle \in Contexts /\ Idle.pc = "idle" /\ Idle.cbuf = Nothing
  BY DEF Idle, At, Contexts, Places
<1>4. NoIntr \in Handlers /\ NoIntr.pc = "none"
  BY DEF NoIntr, Handlers
<1>5. TypesInv
  <2>1. buf \in [0 .. INPUT_BUF_SIZE - 1 -> Chars]
    BY DEF Init, Chars
  <2> QED BY <1>1, <1>3, <1>4, <2>1 DEF Init, TypesInv
<1>6. ReadsInv
  BY <1>3 DEF Init, ReadsInv, ReadPlaces
<1>7. OrderInv /\ StoreInv
  BY <1>1, <1>2, <1>4 DEF Init, OrderInv, StoreInv
<1>8. Console!TtyInit
  BY <1>2, <1>3 DEF Init, Between, Console!TtyInit
<1> QED BY <1>5, <1>6, <1>7, <1>8 DEF TerminalInv

LEMMA TerminalStep ==
  ASSUME TerminalInv, [Next]_vars
  PROVE  TerminalInv' /\ [Console!TtyNext]_(Console!ttyVars)
<1>1. CASE UNCHANGED vars
  <2>1. Kept /\ UNCHANGED <<cons, intr, ticks, rhr, budget>>
    BY <1>1, SameKeeps DEF TerminalInv, vars, cons
  <2> QED BY <2>1, QuietProc
<1>2. ASSUME NEW p \in Procs, Runs(p)
      PROVE  TerminalInv' /\ [Console!TtyNext]_(Console!ttyVars)
  BY <1>2, ReadStep, WriteStep, PauseStep DEF Runs
<1>3. ASSUME NEW p \in Procs, Kill(p) \/ \E job \in budget.jobs[p] : Call(p, job)
      PROVE  TerminalInv' /\ [Console!TtyNext]_(Console!ttyVars)
  BY <1>3, KillStep, CallStep
<1>4. CASE \/ \E c \in Keys : Key(c)
           \/ Transmit \/ PrintWaits \/ PrintSends \/ clockintr
  BY <1>4, OutsideStep
<1>5. CASE Handler
  <2>1. CASE EraseOne
    BY <2>1, EraseOneStep
  <2>2. CASE EchoChar
    BY <2>2, EchoCharStep
  <2>3. CASE Store
    BY <2>3, StoreCharStep
  <2>4. CASE \/ plic_claim \/ ReadISR \/ TxIdle \/ uartgetc \/ plic_complete
             \/ EchoWaits \/ EchoSends \/ Ignore \/ ConsoleDone
    BY <2>4, HandlerStep
  <2> QED BY <1>5, <2>1, <2>2, <2>3, <2>4 DEF Handler, uartintr, consoleintr
<1> QED BY <1>1, <1>2, <1>3, <1>4, <1>5 DEF Next

(* In every reachable state the three indices of cons are in order, no     *)
(* more than a buffer apart, and there is room for the character whose     *)
(* echo consoleintr() is still sending: readers have only made more.       *)
THEOREM TerminalInvariant == Spec => []TerminalInv
<1>1. Init => TerminalInv
  BY TerminalInit
<1>2. TerminalInv /\ [Next]_vars => TerminalInv'
  BY TerminalStep
<1> QED BY <1>1, <1>2, PTL DEF Spec

(* The console's input is the line editor and queue of lines of Tty, for   *)
(* any buffer size that divides the wrap of its indices: what is typed is  *)
(* read once, in order, by whichever readers.                              *)
THEOREM ConsoleImplementsTty == Spec => ImplementsTty
<1>1. Init => Console!TtyInit
  BY TerminalInit
<1>2. TerminalInv /\ [Next]_vars => [Console!TtyNext]_(Console!ttyVars)
  BY TerminalStep
<1> QED BY <1>1, <1>2, TerminalInvariant, PTL
        DEF Spec, ImplementsTty, Console!TtySpec
=============================================================================
