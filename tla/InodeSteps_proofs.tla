------------------------- MODULE InodeSteps_proofs --------------------------
(***************************************************************************)
(* Proofs about inodes, the first half: what the lists of instructions     *)
(* mean (todo of Inode), the inductive invariant IInv, and that every step *)
(* which leaves the disk alone keeps it. Inode_proofs has the steps that   *)
(* change the disk, crashes, and the theorems.                             *)
(*                                                                         *)
(* A process in the middle of a call is known by what it has still to do.  *)
(* An instruction plays roles for inodes: it uses a reference, has a       *)
(* directory, has a new inode, has counted a link that is not yet made, is *)
(* about to free an inode. IInv says how often a role may be played for an *)
(* inode (Count) and what that means for its slot and for the disk:        *)
(*                                                                         *)
(*   - the references in a slot are those of the instructions and of the   *)
(*     open files, no more and no less (RefInv); so an inode with a user   *)
(*     is not the one that iput() frees, when it finds the last reference  *)
(*     under itable.lock (EraseInv), although it lets that lock go before  *)
(*     it has freed it;                                                    *)
(*   - links are counted before they are made and until they are taken     *)
(*     back (ClaimInv), so that nlink covers the names at every moment,    *)
(*     and a crash at any of them leaves no name without its inode;        *)
(*   - what a process has locked follows from what it has still to do      *)
(*     (LockInv), and a valid slot says what the disk says, unless its     *)
(*     holder is at work on it (AgreeInv);                                 *)
(*   - names form a tree (Tree, in DiskInv): this is what the ".."         *)
(*     entries, the counts of directories and the order of locks rest on.  *)
(***************************************************************************)
EXTENDS Inode, FiniteSetTheorems, SequenceTheorems, WellFoundedInduction,
        TLAPS

-----------------------------------------------------------------------------
(* Instructions, and lists of them.                                        *)

(***************************************************************************)
(* What the instructions of a process are, and what they stand for.        *)
(***************************************************************************)
IpOps == {"lock", "unlock", "put", "erase", "forget", "drop", "takeback",
          "open"}
OldOps == {"open", "linkold", "found"}
NewOps == {"linknew", "remove", "fill"}
DirOps == {"unlink", "create"}

AnyPath == Seq(Entries) \ {<<>>}
GoalsOf(names, dps, ips) == [do : names, dp : dps, ip : ips, call : Calls]
Goals == GoalsOf({"open", "linkold", "unlink", "create"}, {0}, {0})
         \cup GoalsOf({"linknew"}, {0}, Inums)
Looks == [do : {"look"}, ip : Inums, path : AnyPath, parent : BOOLEAN,
          goal : Goals]
Instr ==
  [do : {"begin", "end"}] \cup [do : IpOps, ip : Inums] \cup Looks
  \cup GoalsOf(OldOps, {0}, Inums) \cup GoalsOf(NewOps, Inums, Inums)
  \cup GoalsOf(DirOps, Inums, {0})

(* Whether instruction x is about inode i in a role: it has a reference    *)
(* that it uses, and for some a link they will take back ("back") or made  *)
(* a name for ("old"); it has a directory; it has a new inode; it has the  *)
(* last reference to an inode that is freed; it frees, and forgets, one;   *)
(* it has a directory and another inode locked.                            *)
UseOps == {"put", "look", "open", "linkold", "remove", "found"}
Plays(x, role, i) ==
  \/ role = "use" /\ x.do \in UseOps /\ x.ip = i
  \/ role = "back" /\ x.do = "takeback" /\ x.ip = i
  \/ role = "old" /\ x.do = "linknew" /\ x.ip = i
  \/ role = "old" /\ x.do = "look" /\ x.goal.ip = i
  \/ role = "dir" /\ x.do \in NewOps \cup DirOps /\ x.dp = i
  \/ role = "new" /\ x.do = "fill" /\ x.ip = i
  \/ role \in {"drop", "erase", "forget"} /\ x.do = role /\ x.ip = i
  \/ role = "pair" /\ x.do \in {"remove", "fill"} /\ x.dp = i
Weight(x, role, i) == IF Plays(x, role, i) THEN 1 ELSE 0

(* How often the instructions s, and those of all processes, have i in a   *)
(* role.  Instructions are numbered from the last one.                     *)
Marks(s, role, i) == {m \in 1 .. Len(s) : Plays(s[Len(s) + 1 - m], role, i)}
Has(s, role, i) == Cardinality(Marks(s, role, i))
AllMarks(td, role, i) ==
  UNION {{p} \X Marks(td[p], role, i) : p \in Procs}
Count(td, role, i) == Cardinality(AllMarks(td, role, i))

(* The locks an instruction needs, and those a process holds by what it    *)
(* has still to do: it needs them before it takes them.                    *)
Needs(x, i) ==
  \/ /\ x.do \in {"unlock", "erase", "forget", "takeback", "look", "open",
                  "linkold", "found", "remove", "fill"}
     /\ x.ip = i
  \/ x.do \in NewOps \cup DirOps /\ x.dp = i
Locking(s, i) ==
  \E k \in 1 .. Len(s) :
    Needs(s[k], i) /\ \A j \in 1 .. k - 1 : s[j] # On("lock", i)

(* A reference to i is among what s has, not only for the end of iput().   *)
Keeps(s, i) == \E r \in {"use", "back", "old", "dir", "new"} : Has(s, r, i) > 0

Cons(x, s) == <<x>> \o s

(* An instruction one after the other.                                     *)
LEMMA ConsIs ==
  ASSUME NEW S, NEW x \in S, NEW s \in Seq(S)
  PROVE  /\ Cons(x, s) \in Seq(S)
         /\ Len(s) \in Nat /\ Len(Cons(x, s)) = Len(s) + 1
         /\ Cons(x, s)[1] = x
         /\ \A k \in 1 .. Len(s) : Cons(x, s)[k + 1] = s[k]
         /\ Cons(x, s) # <<>>
         /\ Head(Cons(x, s)) = x
         /\ Tail(Cons(x, s)) = s
<1>1. /\ <<x>> \in Seq(S) /\ Len(<<x>>) = 1 /\ <<x>>[1] = x
      /\ Len(s) \in Nat
  BY LenProperties
<1>2. /\ Cons(x, s) \in Seq(S)
      /\ Len(Cons(x, s)) = Len(s) + 1
      /\ \A i \in 1 .. 1 + Len(s) :
           Cons(x, s)[i] = IF i <= 1 THEN <<x>>[i] ELSE s[i - 1]
  BY <1>1, ConcatProperties DEF Cons
<1>3. Cons(x, s)[1] = x /\ \A k \in 1 .. Len(s) : Cons(x, s)[k + 1] = s[k]
  BY <1>1, <1>2
<1>4. Cons(x, s) # <<>>
  BY <1>1, <1>2
<1>5. Head(Cons(x, s)) = x
  BY <1>2, <1>3, <1>4
<1>6. Tail(Cons(x, s)) = s
  <2>1. /\ Tail(Cons(x, s)) \in Seq(S) /\ Len(Tail(Cons(x, s))) = Len(s)
        /\ \A k \in 1 .. Len(s) : Tail(Cons(x, s))[k] = Cons(x, s)[k + 1]
    BY <1>1, <1>2, <1>4, HeadTailProperties
  <2> QED BY <2>1, <1>3, SeqEqual
<1> QED BY <1>1, <1>2, <1>3, <1>4, <1>5, <1>6

(* A list that is not empty has a first instruction and a rest.            *)
LEMMA ConsOf ==
  ASSUME NEW S, NEW s \in Seq(S), s # <<>>
  PROVE  Head(s) \in S /\ Tail(s) \in Seq(S) /\ s = Cons(Head(s), Tail(s))
<1>1. /\ Head(s) \in S /\ Tail(s) \in Seq(S) /\ Len(Tail(s)) = Len(s) - 1
      /\ \A i \in 1 .. Len(Tail(s)) : Tail(s)[i] = s[i + 1]
  BY HeadTailProperties
<1>2. Len(s) \in Nat \ {0} /\ Head(s) = s[1]
  BY EmptySeq
<1>3. PICK h \in S, t \in Seq(S) : h = Head(s) /\ t = Tail(s)
  BY <1>1
<1>4. /\ Cons(h, t) \in Seq(S)
      /\ Len(Cons(h, t)) = Len(t) + 1
      /\ Cons(h, t)[1] = h
      /\ \A k \in 1 .. Len(t) : Cons(h, t)[k + 1] = t[k]
  BY ConsIs
<1>5. ASSUME NEW i \in 1 .. Len(s) PROVE Cons(h, t)[i] = s[i]
  <2>1. CASE i = 1
    BY <2>1, <1>2, <1>3, <1>4
  <2>2. CASE i # 1
    <3>1. i - 1 \in 1 .. Len(t) /\ (i - 1) + 1 = i
      BY <2>2, <1>1, <1>2, <1>3
    <3> QED BY <3>1, <1>1, <1>3, <1>4
  <2> QED BY <2>1, <2>2
<1>6. Cons(h, t) = s
  BY <1>1, <1>2, <1>3, <1>4, <1>5, SeqEqual
<1> QED BY <1>1, <1>3, <1>6

(* Short lists, written out, are built one instruction after the other.    *)
LEMMA PairIs ==
  ASSUME NEW S, NEW a \in S, NEW b \in S
  PROVE  <<a, b>> = <<a>> \o <<b>>
<1>1. /\ <<a>> \in Seq(S) /\ <<b>> \in Seq(S) /\ <<a, b>> \in Seq(S)
      /\ Len(<<a>>) = 1 /\ Len(<<b>>) = 1 /\ Len(<<a, b>>) = 2
  OBVIOUS
<1>2. /\ <<a>> \o <<b>> \in Seq(S) /\ Len(<<a>> \o <<b>>) = 2
      /\ \A i \in 1 .. 2 :
           (<<a>> \o <<b>>)[i] = IF i <= 1 THEN <<a>>[i] ELSE <<b>>[i - 1]
  BY <1>1, ConcatProperties
<1>3. \A i \in 1 .. 2 : (<<a>> \o <<b>>)[i] = <<a, b>>[i]
  BY <1>1, <1>2
<1> QED BY <1>1, <1>2, <1>3, SeqEqual

(* Several instructions before others.                                     *)
LEMMA ConsConcat ==
  ASSUME NEW S, NEW s \in Seq(S),
         NEW a \in S, NEW b \in S, NEW c \in S, NEW d \in S, NEW e \in S
  PROVE  /\ <<>> \o s = s
         /\ <<a>> \o s = Cons(a, s)
         /\ <<a, b>> \o s = Cons(a, Cons(b, s))
         /\ <<a, b, c>> \o s = Cons(a, Cons(b, Cons(c, s)))
         /\ <<a, b, c, d>> \o s = Cons(a, Cons(b, Cons(c, Cons(d, s))))
         /\ <<a, b, c, d, e>> \o s =
              Cons(a, Cons(b, Cons(c, Cons(d, Cons(e, s)))))
<1>1. <<>> \o s = s
  BY ConcatEmptySeq
<1>2. /\ <<a>> \in Seq(S) /\ <<b>> \in Seq(S) /\ <<c>> \in Seq(S)
      /\ <<d>> \in Seq(S) /\ <<e>> \in Seq(S)
      /\ <<b, c>> \in Seq(S) /\ <<b, c, d>> \in Seq(S)
      /\ <<b, c, d, e>> \in Seq(S) /\ <<c, d>> \in Seq(S) /\ <<d, e>> \in Seq(S)
      /\ <<c, d, e>> \in Seq(S)
  OBVIOUS
<1>3. <<a, b>> = <<a>> \o <<b>> /\ <<b, c>> = <<b>> \o <<c>>
      /\ <<c, d>> = <<c>> \o <<d>> /\ <<d, e>> = <<d>> \o <<e>>
  BY PairIs
<1>9. <<a, b, c>> = <<a>> \o <<b, c>> /\ <<b, c, d>> = <<b>> \o <<c, d>>
      /\ <<c, d, e>> = <<c>> \o <<d, e>>
  OBVIOUS
<1>10. <<a, b, c, d>> = <<a>> \o <<b, c, d>>
       /\ <<b, c, d, e>> = <<b>> \o <<c, d, e>>
  OBVIOUS
<1>11. <<a, b, c, d, e>> = <<a>> \o <<b, c, d, e>>
  OBVIOUS
<1>4. \A u, v \in Seq(S) : (u \o v) \o s = u \o (v \o s)
  BY ConcatAssociative
<1>5. <<a, b>> \o s = Cons(a, Cons(b, s)) /\ <<b, c>> \o s = Cons(b, Cons(c, s))
      /\ <<c, d>> \o s = Cons(c, Cons(d, s))
      /\ <<d, e>> \o s = Cons(d, Cons(e, s))
  BY <1>2, <1>3, <1>4 DEF Cons
<1>6. <<a, b, c>> \o s = Cons(a, Cons(b, Cons(c, s)))
      /\ <<b, c, d>> \o s = Cons(b, Cons(c, Cons(d, s)))
      /\ <<c, d, e>> \o s = Cons(c, Cons(d, Cons(e, s)))
  BY <1>2, <1>9, <1>4, <1>5 DEF Cons
<1>7. <<a, b, c, d>> \o s = Cons(a, Cons(b, Cons(c, Cons(d, s))))
      /\ <<b, c, d, e>> \o s = Cons(b, Cons(c, Cons(d, Cons(e, s))))
  BY <1>2, <1>10, <1>4, <1>6 DEF Cons
<1>8. <<a, b, c, d, e>> \o s =
              Cons(a, Cons(b, Cons(c, Cons(d, Cons(e, s)))))
  BY <1>2, <1>11, <1>4, <1>7 DEF Cons
<1> QED BY <1>1, <1>5, <1>6, <1>7, <1>8 DEF Cons

(* The same with a list s behind them.                                     *)
LEMMA PairConcat ==
  ASSUME NEW S, NEW s \in Seq(S), NEW a \in S, NEW b \in S
  PROVE  <<a, b>> \o s = Cons(a, Cons(b, s))
<1>1. <<a>> \in Seq(S) /\ <<b>> \in Seq(S)
  OBVIOUS
<1>2. <<a, b>> = <<a>> \o <<b>>
  BY PairIs
<1>3. (<<a>> \o <<b>>) \o s = <<a>> \o (<<b>> \o s)
  BY <1>1, ConcatAssociative
<1> QED BY <1>2, <1>3 DEF Cons

(* As PairConcat, for three.                                               *)
LEMMA TripleConcat ==
  ASSUME NEW S, NEW s \in Seq(S), NEW a \in S, NEW b \in S, NEW c \in S
  PROVE  <<a, b, c>> \o s = Cons(a, Cons(b, Cons(c, s)))
<1>1. <<a>> \in Seq(S) /\ <<b, c>> \in Seq(S) /\ <<a, b, c>> = <<a>> \o <<b, c>>
  OBVIOUS
<1>2. (<<a>> \o <<b, c>>) \o s = <<a>> \o (<<b, c>> \o s)
  BY <1>1, ConcatAssociative
<1>3. <<b, c>> \o s = Cons(b, Cons(c, s))
  BY PairConcat
<1> QED BY <1>1, <1>2, <1>3 DEF Cons

(* What an instruction says that does not depend on the state.             *)
Ups == \E call \in Calls : \E path \in Paths(call) :
         \E k \in DOMAIN path : path[k] = ".."
EndsWith(path, name) == path[Len(path)] = name
Parents == {"linknew", "unlink", "create"}
Static(x) ==
  /\ x.do = "look" =>
       /\ Ups \/ \A k \in DOMAIN x.path : x.path[k] # ".."
       /\ x.parent <=> x.goal.do \in Parents
       /\ x.parent => EndsWith(x.path, NameOf(x.goal.call))
       /\ x.goal.do = "linknew" => x.goal.call.op = "link"
       /\ Ups /\ x.goal.do = "create" /\ x.goal.call.op = "mkdir" =>
            x.ip = ROOTINO /\ Len(x.path) = 1
       /\ x.goal.do = "linkold" => x.goal.call.op = "link"
  /\ x.do \in {"linkold", "linknew"} => x.call.op = "link"
  /\ x.do \in {"remove", "fill"} => x.dp # x.ip
  /\ Ups /\ x.do \in {"create", "fill"} =>
       (x.call.op = "mkdir" => x.dp = ROOTINO)
  /\ x.do = "remove" => NameOf(x.call) \in Names

(* Instruction x may come before the instructions s of a process that has  *)
(* the inodes F in an open file.                                           *)
Plain == {"begin", "end", "put", "drop"}
OfLock(x, s) ==
  /\ Locking(s, x.ip) /\ Keeps(s, x.ip) /\ Has(s, "forget", x.ip) = 0
  /\ Has(s, "pair", x.ip) = 0
  /\ \/ \A j \in Inums \ {x.ip} : ~Locking(s, j)
     \/ /\ s # <<>> /\ Tail(s) = EndOp
        /\ Head(s).do \in {"remove", "fill"} /\ Head(s).ip = x.ip
OfUnlock(x, s, F) == ~Locking(s, x.ip) /\ (Keeps(s, x.ip) \/ x.ip \in F)
OfErase(x, s) ==
  /\ Locking(s, x.ip) /\ Has(s, "drop", x.ip) > 0 /\ Has(s, "forget", x.ip) > 0
  /\ Has(s, "erase", x.ip) = 0
OfForget(x, s) == ~Locking(s, x.ip) /\ Has(s, "drop", x.ip) > 0
Ok(x, s, F) ==
  /\ x \in Instr /\ Static(x)
  /\ x.do = "lock" => OfLock(x, s)
  /\ x.do = "unlock" => OfUnlock(x, s, F)
  /\ x.do = "erase" => OfErase(x, s)
  /\ x.do = "forget" => OfForget(x, s)
  /\ x.do \notin Plain \cup {"lock", "unlock", "erase", "forget"} => s = EndOp

WellFormed(s, F) ==
  \A k \in 1 .. Len(s) : Ok(s[k], SubSeq(s, k + 1, Len(s)), F)

(* What is true of s when it is true of the instruction before it.         *)
LEMMA MarksType ==
  ASSUME NEW s \in Seq(Instr), NEW role, NEW i
  PROVE  IsFiniteSet(Marks(s, role, i)) /\ Has(s, role, i) \in Nat
<1>1. Len(s) \in Nat
  OBVIOUS
<1>2. IsFiniteSet(1 .. Len(s))
  BY <1>1, FS_Interval
<1>3. Marks(s, role, i) \in SUBSET (1 .. Len(s))
  BY DEF Marks
<1> QED BY <1>2, <1>3, FS_Subset, FS_CardinalityType DEF Has

(* What an instruction adds to the counts of those behind it.              *)
LEMMA ConsHas ==
  ASSUME NEW x \in Instr, NEW s \in Seq(Instr), NEW role, NEW i
  PROVE  /\ Has(Cons(x, s), role, i) = Has(s, role, i) + Weight(x, role, i)
         /\ Has(s, role, i) \in Nat
<1>0. /\ Cons(x, s) \in Seq(Instr)
      /\ Len(s) \in Nat /\ Len(Cons(x, s)) = Len(s) + 1
      /\ Cons(x, s)[1] = x
      /\ \A k \in 1 .. Len(s) : Cons(x, s)[k + 1] = s[k]
      /\ Cons(x, s) # <<>> /\ Tail(Cons(x, s)) = s
  <2>1. /\ Cons(x, s) \in Seq(Instr) /\ Len(Cons(x, s)) = Len(s) + 1
        /\ Cons(x, s)[1] = x
        /\ \A k \in 1 .. Len(s) : Cons(x, s)[k + 1] = s[k]
    BY ConsIs
  <2>2. Cons(x, s) # <<>>
    BY ConsIs
  <2>3. Tail(Cons(x, s)) = s
    BY ConsIs
  <2> QED BY <2>1, <2>2, <2>3
<1>1. PICK t \in Seq(Instr) : t = Cons(x, s)
  BY <1>0
<1>2. PICK n \in Nat : n = Len(s)
  OBVIOUS
<1>3. Len(t) = n + 1 /\ t[1] = x /\ \A k \in 1 .. n : t[k + 1] = s[k]
  BY <1>0, <1>1, <1>2
<1>4. ASSUME NEW m \in 1 .. n PROVE t[n + 2 - m] = s[n + 1 - m]
  <2>1. n + 1 - m \in 1 .. n /\ (n + 1 - m) + 1 = n + 2 - m
    OBVIOUS
  <2> QED BY <2>1, <1>3
<1>5. Marks(t, role, i) =
        IF Plays(x, role, i) THEN Marks(s, role, i) \cup {n + 1}
                             ELSE Marks(s, role, i)
  <2>1. ASSUME NEW m \in 1 .. n
        PROVE  m \in Marks(t, role, i) <=> m \in Marks(s, role, i)
    <3>1. Len(t) + 1 - m = n + 2 - m /\ m \in 1 .. Len(t)
      BY <1>3
    <3> QED BY <3>1, <1>2, <1>4 DEF Marks
  <2>2. n + 1 \in Marks(t, role, i) <=> Plays(x, role, i)
    <3>1. Len(t) + 1 - (n + 1) = 1 /\ n + 1 \in 1 .. Len(t)
      BY <1>3
    <3> QED BY <3>1, <1>3 DEF Marks
  <2>3. Marks(s, role, i) \subseteq 1 .. n /\ Marks(t, role, i) \subseteq 1 .. n + 1
    BY <1>2, <1>3 DEF Marks
  <2>4. 1 .. n + 1 = (1 .. n) \cup {n + 1} /\ n + 1 \notin 1 .. n
    OBVIOUS
  <2>5. CASE Plays(x, role, i)
    BY <2>1, <2>2, <2>3, <2>4, <2>5, Zenon
  <2>6. CASE ~Plays(x, role, i)
    <3>1. ASSUME NEW m
          PROVE  m \in Marks(t, role, i) <=> m \in Marks(s, role, i)
      BY <2>1, <2>2, <2>3, <2>4, <2>6
    <3>2. Marks(t, role, i) = Marks(s, role, i)
      BY <3>1, Zenon
    <3> QED BY <3>2, <2>6
  <2> QED BY <2>5, <2>6
<1>6. n + 1 \notin Marks(s, role, i)
  BY <1>2 DEF Marks
<1>7. IsFiniteSet(Marks(s, role, i)) /\ Cardinality(Marks(s, role, i)) \in Nat
  BY MarksType DEF Has
<1>8. Cardinality(Marks(s, role, i) \cup {n + 1})
        = Cardinality(Marks(s, role, i)) + 1
  BY <1>6, <1>7, FS_AddElement
<1> QED BY <1>1, <1>5, <1>7, <1>8 DEF Has, Weight

(* What is held before an instruction: what it needs, and what those       *)
(* behind it need unless it is what locks it.                              *)
LEMMA ConsLocking ==
  ASSUME NEW x \in Instr, NEW s \in Seq(Instr), NEW i
  PROVE  Locking(Cons(x, s), i) <=>
           Needs(x, i) \/ (x # On("lock", i) /\ Locking(s, i))
<1>0. /\ Cons(x, s) \in Seq(Instr)
      /\ Len(s) \in Nat /\ Len(Cons(x, s)) = Len(s) + 1
      /\ Cons(x, s)[1] = x
      /\ \A k \in 1 .. Len(s) : Cons(x, s)[k + 1] = s[k]
      /\ Cons(x, s) # <<>> /\ Tail(Cons(x, s)) = s
  <2>1. /\ Cons(x, s) \in Seq(Instr) /\ Len(Cons(x, s)) = Len(s) + 1
        /\ Cons(x, s)[1] = x
        /\ \A k \in 1 .. Len(s) : Cons(x, s)[k + 1] = s[k]
    BY ConsIs
  <2>2. Cons(x, s) # <<>>
    BY ConsIs
  <2>3. Tail(Cons(x, s)) = s
    BY ConsIs
  <2> QED BY <2>1, <2>2, <2>3
<1>1. PICK t \in Seq(Instr) : t = Cons(x, s)
  BY <1>0
<1>2. PICK n \in Nat : n = Len(s)
  OBVIOUS
<1>3. Len(t) = n + 1 /\ t[1] = x /\ \A k \in 1 .. n : t[k + 1] = s[k]
  BY <1>0, <1>1, <1>2
<1>4. ASSUME Needs(x, i) PROVE Locking(t, i)
  <2>1. 1 \in 1 .. Len(t) /\ 1 .. 1 - 1 = {}
    BY <1>3
  <2> QED BY <1>3, <1>4, <2>1 DEF Locking
<1>5. ASSUME x # On("lock", i), Locking(s, i) PROVE Locking(t, i)
  <2>1. PICK k \in 1 .. n :
          Needs(s[k], i) /\ \A j \in 1 .. k - 1 : s[j] # On("lock", i)
    BY <1>2, <1>5 DEF Locking
  <2>2. k + 1 \in 1 .. Len(t) /\ Needs(t[k + 1], i)
    BY <1>3, <2>1
  <2>3. ASSUME NEW j \in 1 .. (k + 1) - 1 PROVE t[j] # On("lock", i)
    <3>1. CASE j = 1
      BY <3>1, <1>3, <1>5
    <3>2. CASE j # 1
      <4>1. j - 1 \in 1 .. n /\ j - 1 \in 1 .. k - 1 /\ (j - 1) + 1 = j
        BY <3>2
      <4> QED BY <4>1, <1>3, <2>1
    <3> QED BY <3>1, <3>2
  <2> QED BY <2>2, <2>3 DEF Locking
<1>6. ASSUME Locking(t, i), ~Needs(x, i)
      PROVE  x # On("lock", i) /\ Locking(s, i)
  <2>1. PICK k \in 1 .. n + 1 :
          Needs(t[k], i) /\ \A j \in 1 .. k - 1 : t[j] # On("lock", i)
    BY <1>3, <1>6 DEF Locking
  <2>2. k # 1
    BY <2>1, <1>3, <1>6
  <2>3. k - 1 \in 1 .. n /\ (k - 1) + 1 = k /\ 1 \in 1 .. k - 1
    BY <2>2
  <2>4. Needs(s[k - 1], i) /\ x # On("lock", i)
    BY <2>1, <2>3, <1>3
  <2>5. ASSUME NEW j \in 1 .. (k - 1) - 1 PROVE s[j] # On("lock", i)
    <3>1. j \in 1 .. n /\ j + 1 \in 1 .. k - 1
      OBVIOUS
    <3> QED BY <3>1, <2>1, <1>3
  <2> QED BY <1>2, <2>3, <2>4, <2>5 DEF Locking
<1> QED BY <1>1, <1>4, <1>5, <1>6

(* Well-formed lists, from the last instruction to the first.              *)
LEMMA ConsWellFormed ==
  ASSUME NEW x \in Instr, NEW s \in Seq(Instr), NEW F
  PROVE  WellFormed(Cons(x, s), F) <=> Ok(x, s, F) /\ WellFormed(s, F)
<1>0. /\ Cons(x, s) \in Seq(Instr)
      /\ Len(s) \in Nat /\ Len(Cons(x, s)) = Len(s) + 1
      /\ Cons(x, s)[1] = x
      /\ \A k \in 1 .. Len(s) : Cons(x, s)[k + 1] = s[k]
      /\ Cons(x, s) # <<>> /\ Tail(Cons(x, s)) = s
  <2>1. /\ Cons(x, s) \in Seq(Instr) /\ Len(Cons(x, s)) = Len(s) + 1
        /\ Cons(x, s)[1] = x
        /\ \A k \in 1 .. Len(s) : Cons(x, s)[k + 1] = s[k]
    BY ConsIs
  <2>2. Cons(x, s) # <<>>
    BY ConsIs
  <2>3. Tail(Cons(x, s)) = s
    BY ConsIs
  <2> QED BY <2>1, <2>2, <2>3
<1>1. PICK t \in Seq(Instr) : t = Cons(x, s)
  BY <1>0
<1>2. PICK n \in Nat : n = Len(s)
  OBVIOUS
<1>3. Len(t) = n + 1 /\ t[1] = x /\ \A k \in 1 .. n : t[k + 1] = s[k]
  BY <1>0, <1>1, <1>2
<1>4. SubSeq(t, 1 + 1, Len(t)) = s
  <2>1. Tail(t) = SubSeq(t, 2, Len(t))
    BY <1>0, <1>1, TailIsSubSeq
  <2> QED BY <2>1, <1>0, <1>1
<1>5. ASSUME NEW k \in 1 .. n
      PROVE  SubSeq(t, (k + 1) + 1, Len(t)) = SubSeq(s, k + 1, Len(s))
  <2>1. \A i \in (k + 1) + 1 .. n + 1 : t[i] \in Instr
    BY <1>3, ElementOfSeq
  <2>2. \A i \in k + 1 .. n : s[i] \in Instr
    BY <1>2, ElementOfSeq
  <2>7. n + 1 \in Int /\ (k + 1) + 1 \in Int /\ k + 1 \in Int /\ n \in Int
    OBVIOUS
  <2>8. PICK a \in Int, b \in Int : a = (k + 1) + 1 /\ b = k + 1
    BY <2>7
  <2>3. PICK u \in Seq(Instr) :
          /\ u = SubSeq(t, (k + 1) + 1, Len(t))
          /\ Len(u) = IF (k + 1) + 1 <= n + 1 THEN (n + 1) - ((k + 1) + 1) + 1 ELSE 0
          /\ \A i \in 1 .. (n + 1) - ((k + 1) + 1) + 1 : u[i] = t[((k + 1) + 1) + i - 1]
    <3>1. \A i \in a .. Len(t) : t[i] \in Instr
      BY <2>1, <2>8, <1>3
    <3>2. Len(t) \in Int
      BY <1>3
    <3>3. /\ SubSeq(t, a, Len(t)) \in Seq(Instr)
          /\ Len(SubSeq(t, a, Len(t))) = IF a <= Len(t) THEN Len(t) - a + 1 ELSE 0
          /\ \A i \in 1 .. Len(t) - a + 1 : SubSeq(t, a, Len(t))[i] = t[a + i - 1]
      BY <3>1, <3>2, SubSeqProperties
    <3> QED BY <3>3, <2>8, <1>3
  <2>4. PICK v \in Seq(Instr) :
          /\ v = SubSeq(s, k + 1, Len(s))
          /\ Len(v) = IF k + 1 <= n THEN n - (k + 1) + 1 ELSE 0
          /\ \A i \in 1 .. n - (k + 1) + 1 : v[i] = s[(k + 1) + i - 1]
    <3>1. \A i \in b .. Len(s) : s[i] \in Instr
      BY <2>2, <2>8, <1>2
    <3>2. Len(s) \in Int
      BY <1>2
    <3>3. /\ SubSeq(s, b, Len(s)) \in Seq(Instr)
          /\ Len(SubSeq(s, b, Len(s))) = IF b <= Len(s) THEN Len(s) - b + 1 ELSE 0
          /\ \A i \in 1 .. Len(s) - b + 1 : SubSeq(s, b, Len(s))[i] = s[b + i - 1]
      BY <3>1, <3>2, SubSeqProperties
    <3> QED BY <3>3, <2>8, <1>2
  <2>5. Len(u) = Len(v) /\ Len(u) = n - k
    BY <2>3, <2>4
  <2>6. ASSUME NEW i \in 1 .. n - k PROVE u[i] = v[i]
    <3>1. /\ i \in 1 .. (n + 1) - ((k + 1) + 1) + 1 /\ i \in 1 .. n - (k + 1) + 1
          /\ k + i \in 1 .. n
          /\ ((k + 1) + 1) + i - 1 = (k + i) + 1 /\ (k + 1) + i - 1 = k + i
      OBVIOUS
    <3> QED BY <3>1, <2>3, <2>4, <1>3
  <2> QED BY <2>3, <2>4, <2>5, <2>6, SeqEqual
<1>6. WellFormed(t, F) => Ok(x, s, F) /\ WellFormed(s, F)
  <2> SUFFICES ASSUME WellFormed(t, F) PROVE Ok(x, s, F) /\ WellFormed(s, F)
    OBVIOUS
  <2>1. 1 \in 1 .. Len(t)
    BY <1>3
  <2>2. Ok(t[1], SubSeq(t, 1 + 1, Len(t)), F)
    BY <2>1 DEF WellFormed
  <2>3. ASSUME NEW k \in 1 .. n PROVE Ok(s[k], SubSeq(s, k + 1, Len(s)), F)
    <3>1. k + 1 \in 1 .. Len(t)
      BY <1>3
    <3>2. Ok(t[k + 1], SubSeq(t, (k + 1) + 1, Len(t)), F)
      BY <3>1 DEF WellFormed
    <3> QED BY <3>2, <1>3, <1>5
  <2> QED BY <2>2, <2>3, <1>2, <1>3, <1>4 DEF WellFormed
<1>7. ASSUME Ok(x, s, F), WellFormed(s, F) PROVE WellFormed(t, F)
  <2>1. ASSUME NEW k \in 1 .. n + 1
        PROVE  Ok(t[k], SubSeq(t, k + 1, Len(t)), F)
    <3>1. CASE k = 1
      BY <3>1, <1>3, <1>4, <1>7
    <3>2. CASE k # 1
      <4>1. PICK j \in 1 .. n : k = j + 1
        <5>1. k - 1 \in 1 .. n /\ k = (k - 1) + 1
          BY <3>2
        <5> QED BY <5>1
      <4>2. Ok(s[j], SubSeq(s, j + 1, Len(s)), F)
        BY <1>2, <1>7 DEF WellFormed
      <4> QED BY <4>1, <4>2, <1>3, <1>5
    <3> QED BY <3>1, <3>2
  <2> QED BY <1>3, <2>1 DEF WellFormed
<1> QED BY <1>1, <1>6, <1>7

(* No instructions, and the last one.                                      *)
LEMMA EmptyIs ==
  /\ <<>> \in Seq(Instr)
  /\ \A role, i : Has(<<>>, role, i) = 0
  /\ \A i : ~Locking(<<>>, i)
  /\ \A F : WellFormed(<<>>, F)
<1>1. Len(<<>>) = 0 /\ 1 .. 0 = {} /\ <<>> \in Seq(Instr)
  OBVIOUS
<1>2. \A role, i : Marks(<<>>, role, i) = {}
  BY <1>1 DEF Marks
<1> QED BY <1>1, <1>2, FS_EmptySet DEF Has, Locking, WellFormed

(* end_op() alone counts for nothing and locks nothing.                    *)
LEMMA EndIs ==
  /\ EndOp \in Seq(Instr) /\ [do |-> "end"] \in Instr
  /\ EndOp = Cons([do |-> "end"], <<>>) /\ EndOp # <<>>
  /\ \A role, i : Has(EndOp, role, i) = 0
  /\ \A i : ~Locking(EndOp, i)
  /\ \A F : WellFormed(EndOp, F)
<1>1. PICK x \in Instr : x = [do |-> "end"]
  BY DEF Instr
<1>2. EndOp = Cons(x, <<>>)
  BY <1>1, EmptyIs, ConcatProperties, ConcatEmptySeq DEF EndOp, Cons
<1>3. \A role, i : ~Plays(x, role, i)
  BY <1>1 DEF Plays, UseOps, NewOps, DirOps
<1>4. \A i : ~Needs(x, i)
  BY <1>1 DEF Needs, NewOps, DirOps
<1>5. \A F : Ok(x, <<>>, F)
  BY <1>1 DEF Ok, Static, Plain
<1>6. \A role, i : Has(Cons(x, <<>>), role, i) = 0
  <2> SUFFICES ASSUME NEW role, NEW i PROVE Has(Cons(x, <<>>), role, i) = 0
    OBVIOUS
  <2>1. Has(Cons(x, <<>>), role, i) = Has(<<>>, role, i) + Weight(x, role, i)
    BY EmptyIs, ConsHas
  <2> QED BY <2>1, <1>3, EmptyIs DEF Weight
<1>7. \A i : ~Locking(Cons(x, <<>>), i)
  BY <1>4, EmptyIs, ConsLocking
<1>8. \A F : WellFormed(Cons(x, <<>>), F)
  BY <1>5, EmptyIs, ConsWellFormed
<1> QED BY <1>1, <1>2, <1>6, <1>7, <1>8, EmptyIs, ConsIs

(* What comes later is counted earlier as well.                            *)
LEMMA RestHas ==
  ASSUME NEW s \in Seq(Instr), NEW k \in 1 .. Len(s), NEW role, NEW i
  PROVE  /\ SubSeq(s, k + 1, Len(s)) \in Seq(Instr)
         /\ Has(SubSeq(s, k + 1, Len(s)), role, i) <= Has(s, role, i)
         /\ Has(SubSeq(s, k + 1, Len(s)), role, i) \in Nat
         /\ Has(s, role, i) \in Nat
<1>1. PICK n \in Nat, a \in Int : n = Len(s) /\ a = k + 1
  OBVIOUS
<1>2. \A j \in a .. n : s[j] \in Instr
  BY <1>1, ElementOfSeq
<1>3. /\ SubSeq(s, a, n) \in Seq(Instr)
      /\ Len(SubSeq(s, a, n)) = IF a <= n THEN n - a + 1 ELSE 0
      /\ \A j \in 1 .. n - a + 1 : SubSeq(s, a, n)[j] = s[a + j - 1]
  BY <1>1, <1>2, SubSeqProperties
<1>4. PICK t \in Seq(Instr) : t = SubSeq(s, a, n)
  BY <1>3
<1>5. Len(t) = n - k /\ \A j \in 1 .. n - k : t[j] = s[k + j]
  BY <1>1, <1>3, <1>4
<1>6. ASSUME NEW m \in Marks(t, role, i) PROVE m \in Marks(s, role, i)
  <2>1. m \in 1 .. n - k /\ Plays(t[(n - k) + 1 - m], role, i)
    BY <1>5 DEF Marks
  <2>2. (n - k) + 1 - m \in 1 .. n - k /\ k + ((n - k) + 1 - m) = n + 1 - m
    BY <2>1, <1>1
  <2>3. m \in 1 .. n
    BY <2>1, <1>1
  <2> QED BY <2>1, <2>2, <2>3, <1>1, <1>5 DEF Marks
<1>7. IsFiniteSet(Marks(s, role, i)) /\ Has(s, role, i) \in Nat /\ Has(t, role, i) \in Nat
  BY MarksType
<1>8. Has(t, role, i) <= Has(s, role, i)
  BY <1>6, <1>7, FS_Subset DEF Has
<1> QED BY <1>1, <1>4, <1>7, <1>8

(* A count is positive when an instruction plays the role.                 *)
LEMMA HasElement ==
  ASSUME NEW s \in Seq(Instr), NEW role, NEW i
  PROVE  /\ \A k \in 1 .. Len(s) : Plays(s[k], role, i) => Has(s, role, i) > 0
         /\ Has(s, role, i) > 0 => \E k \in 1 .. Len(s) : Plays(s[k], role, i)
<1>1. PICK n \in Nat : n = Len(s)
  OBVIOUS
<1>2. IsFiniteSet(Marks(s, role, i)) /\ Has(s, role, i) \in Nat
  BY MarksType
<1>3. Has(s, role, i) > 0 <=> Marks(s, role, i) # {}
  BY <1>2, FS_EmptySet DEF Has
<1>4. ASSUME NEW k \in 1 .. n, Plays(s[k], role, i) PROVE Has(s, role, i) > 0
  <2>1. n + 1 - k \in 1 .. n /\ n + 1 - (n + 1 - k) = k
    OBVIOUS
  <2>2. n + 1 - k \in Marks(s, role, i)
    BY <2>1, <1>1, <1>4 DEF Marks
  <2> QED BY <2>2, <1>3
<1>5. ASSUME Has(s, role, i) > 0 PROVE \E k \in 1 .. n : Plays(s[k], role, i)
  <2>1. PICK m : m \in Marks(s, role, i)
    BY <1>3, <1>5
  <2>2. m \in 1 .. n /\ Plays(s[n + 1 - m], role, i)
    BY <2>1, <1>1 DEF Marks
  <2>3. n + 1 - m \in 1 .. n
    BY <2>2
  <2> QED BY <2>2, <2>3
<1> QED BY <1>1, <1>4, <1>5

(***************************************************************************)
(* Whoever has an inode locked has a reference to it, in what there is     *)
(* still to do or in the open file.                                        *)
(***************************************************************************)
Refers(s, i) == Keeps(s, i) \/ Has(s, "drop", i) > 0

(* Nobody holds the lock of an inode without a reference to it.            *)
LEMMA LockingRefers ==
  ASSUME NEW s \in Seq(Instr), NEW F, WellFormed(s, F), NEW i \in Inums,
         Locking(s, i)
  PROVE  Refers(s, i) \/ i \in F
<1>1. PICK k \in 1 .. Len(s) : Needs(s[k], i)
  BY DEF Locking
<1>2. PICK t \in Seq(Instr) : t = SubSeq(s, k + 1, Len(s))
  BY RestHas
<1>3. \A role : Has(t, role, i) <= Has(s, role, i) /\ Has(t, role, i) \in Nat
                /\ Has(s, role, i) \in Nat
  BY <1>2, RestHas
<1>4. Keeps(t, i) => Keeps(s, i)
  BY <1>3 DEF Keeps
<1>5. Has(t, "drop", i) > 0 => Has(s, "drop", i) > 0
  BY <1>3
<1>6. Ok(s[k], t, F)
  BY <1>2 DEF WellFormed
<1>7. CASE s[k].do = "unlock"
  <2>1. s[k].ip = i
    BY <1>1, <1>7 DEF Needs, NewOps, DirOps
  <2> QED BY <2>1, <1>4, <1>6, <1>7 DEF Ok, OfUnlock, Refers
<1>8. CASE s[k].do = "erase"
  <2>1. s[k].ip = i
    BY <1>1, <1>8 DEF Needs, NewOps, DirOps
  <2> QED BY <2>1, <1>5, <1>6, <1>8 DEF Ok, OfErase, Refers
<1>9. CASE s[k].do = "forget"
  <2>1. s[k].ip = i
    BY <1>1, <1>9 DEF Needs, NewOps, DirOps
  <2> QED BY <2>1, <1>5, <1>6, <1>9 DEF Ok, OfForget, Refers
<1>10. CASE s[k].do \notin {"unlock", "erase", "forget"}
  <2>1. PICK role \in {"use", "back", "old", "dir", "new"} : Plays(s[k], role, i)
    BY <1>1, <1>10 DEF Needs, Plays, UseOps, NewOps, DirOps
  <2>2. Has(s, role, i) > 0
    BY <2>1, HasElement
  <2> QED BY <2>1, <2>2 DEF Refers, Keeps
<1> QED BY <1>7, <1>8, <1>9, <1>10

(* An inode is forgotten, and a directory changed, by who has it locked.   *)
LEMMA RoleLocks ==
  ASSUME NEW s \in Seq(Instr), NEW F, WellFormed(s, F), NEW i \in Inums,
         NEW role \in {"forget", "pair"}, Has(s, role, i) > 0
  PROVE  Locking(s, i)
<1>1. PICK k \in 1 .. Len(s) : Plays(s[k], role, i)
  BY HasElement
<1>2. Needs(s[k], i)
  BY <1>1 DEF Plays, Needs, NewOps, DirOps
<1>3. ASSUME NEW j \in 1 .. k - 1, s[j] = On("lock", i) PROVE FALSE
  <2>1. j \in 1 .. Len(s) /\ s[j].do = "lock" /\ s[j].ip = i
    BY <1>3 DEF On
  <2>2. PICK t \in Seq(Instr) : t = SubSeq(s, j + 1, Len(s))
    BY <2>1, RestHas
  <2>3. Has(t, role, i) = 0
    BY <2>1, <2>2 DEF WellFormed, Ok, OfLock
  <2>4. PICK n \in Nat, a \in Int : n = Len(s) /\ a = j + 1
    BY <2>1
  <2>5. \A m \in a .. n : s[m] \in Instr
    BY <2>1, <2>4, ElementOfSeq
  <2>6. /\ Len(SubSeq(s, a, n)) = IF a <= n THEN n - a + 1 ELSE 0
        /\ \A m \in 1 .. n - a + 1 : SubSeq(s, a, n)[m] = s[a + m - 1]
    BY <2>4, <2>5, SubSeqProperties
  <2>7. Len(t) = n - j /\ \A m \in 1 .. n - j : t[m] = s[j + m]
    BY <2>1, <2>2, <2>4, <2>6
  <2>8. k - j \in 1 .. n - j /\ j + (k - j) = k
    BY <2>4
  <2>9. Plays(t[k - j], role, i)
    BY <2>7, <2>8, <1>1
  <2>10. Has(t, role, i) > 0
    BY <2>7, <2>8, <2>9, HasElement
  <2> QED BY <2>3, <2>10
<1>4. Locking(s, i)
  BY <1>2, <1>3 DEF Locking
<1> QED BY <1>4

(* Who frees an inode has the reference that iput() drops at its end.      *)
LEMMA ForgetDrops ==
  ASSUME NEW s \in Seq(Instr), NEW F, WellFormed(s, F), NEW i \in Inums,
         Has(s, "forget", i) > 0
  PROVE  Has(s, "drop", i) > 0
<1>1. PICK k \in 1 .. Len(s) : Plays(s[k], "forget", i)
  BY HasElement
<1>2. s[k].do = "forget" /\ s[k].ip = i
  BY <1>1 DEF Plays
<1>5. PICK t \in Seq(Instr) : t = SubSeq(s, k + 1, Len(s))
  BY RestHas
<1>6. Has(t, "drop", i) > 0
  BY <1>2, <1>5 DEF WellFormed, Ok, OfForget
<1>7. Has(t, "drop", i) <= Has(s, "drop", i) /\ Has(t, "drop", i) \in Nat
      /\ Has(s, "drop", i) \in Nat
  BY <1>5, RestHas
<1> QED BY <1>6, <1>7

(* Who is to free an inode has its last reference still to drop.           *)
LEMMA EraseDrops ==
  ASSUME NEW s \in Seq(Instr), NEW F, WellFormed(s, F), NEW i \in Inums,
         Has(s, "erase", i) > 0
  PROVE  Has(s, "drop", i) > 0
<1>1. PICK k \in 1 .. Len(s) : Plays(s[k], "erase", i)
  BY HasElement
<1>2. s[k].do = "erase" /\ s[k].ip = i
  BY <1>1 DEF Plays
<1>5. PICK t \in Seq(Instr) : t = SubSeq(s, k + 1, Len(s))
  BY RestHas
<1>6. Has(t, "drop", i) > 0
  BY <1>2, <1>5 DEF WellFormed, Ok, OfErase
<1>7. Has(t, "drop", i) <= Has(s, "drop", i) /\ Has(t, "drop", i) \in Nat
      /\ Has(s, "drop", i) \in Nat
  BY <1>5, RestHas
<1> QED BY <1>6, <1>7

-----------------------------------------------------------------------------

(* All processes.                                                          *)
Todos == [Procs -> Seq(Instr)]

(* What process p has, and what the others have.                           *)
MarksOf(td, p, role, i) == {p} \X Marks(td[p], role, i)
Other(td, p, role, i) ==
  Cardinality({x \in AllMarks(td, role, i) : x[1] # p})

(* The counts are of finite sets, because processes are finitely many.     *)
LEMMA AllMarksFinite ==
  ASSUME NEW td \in Todos, NEW role, NEW i
  PROVE  IsFiniteSet(AllMarks(td, role, i))
<1> DEFINE All == {MarksOf(td, p, role, i) : p \in Procs}
<1>1. IsFiniteSet(All)
  <2> DEFINE f == [p \in Procs |-> MarksOf(td, p, role, i)]
  <2>1. f \in Surjection(Procs, All)
    BY DEF Surjection
  <2> QED BY <2>1, FS_Surjection, InodeAssumption
<1>2. ASSUME NEW T \in All PROVE IsFiniteSet(T)
  <2>1. PICK p \in Procs : T = {p} \X Marks(td[p], role, i)
    BY DEF MarksOf
  <2>2. td[p] \in Seq(Instr)
    BY DEF Todos
  <2>3. IsFiniteSet(Marks(td[p], role, i)) /\ IsFiniteSet({p})
    BY <2>2, MarksType, FS_Singleton
  <2> QED BY <2>1, <2>3, FS_Product
<1>3. IsFiniteSet(UNION All)
  BY <1>1, <1>2, FS_UNION
<1> QED BY <1>3 DEF AllMarks, MarksOf

(* A count over all processes is that of p and that of the others.         *)
LEMMA CountSplit ==
  ASSUME NEW td \in Todos, NEW p \in Procs, NEW role, NEW i
  PROVE  /\ Count(td, role, i) = Has(td[p], role, i) + Other(td, p, role, i)
         /\ Count(td, role, i) \in Nat
         /\ Has(td[p], role, i) \in Nat
         /\ Other(td, p, role, i) \in Nat
<1> DEFINE A == AllMarks(td, role, i)
           P == MarksOf(td, p, role, i)
           R == {x \in A : x[1] # p}
<1>1. IsFiniteSet(A)
  BY AllMarksFinite
<1>2. \A x \in A : x[1] = p <=> x \in P
  BY DEF AllMarks, MarksOf
<1>3. P \subseteq A /\ R \subseteq A /\ A = P \cup R /\ P \cap R = {}
  <2>1. P \subseteq A
    BY DEF AllMarks, MarksOf
  <2> QED BY <2>1, <1>2
<1>4. IsFiniteSet(P) /\ IsFiniteSet(R)
  BY <1>1, <1>3, FS_Subset
<1>5. Cardinality(A) = Cardinality(P) + Cardinality(R)
      /\ Cardinality(A) \in Nat /\ Cardinality(P) \in Nat /\ Cardinality(R) \in Nat
  <2>1. Cardinality(P \cup R) = Cardinality(P) + Cardinality(R) - Cardinality(P \cap R)
    BY <1>4, FS_Union
  <2>2. Cardinality(P \cap R) = 0
    BY <1>3, FS_EmptySet
  <2>3. Cardinality(A) \in Nat /\ Cardinality(P) \in Nat /\ Cardinality(R) \in Nat
    BY <1>1, <1>4, FS_CardinalityType
  <2> QED BY <1>3, <2>1, <2>2, <2>3
<1>6. Cardinality(P) = Has(td[p], role, i) /\ Has(td[p], role, i) \in Nat
  <2>1. td[p] \in Seq(Instr)
    BY DEF Todos
  <2>2. IsFiniteSet(Marks(td[p], role, i)) /\ Has(td[p], role, i) \in Nat
    BY <2>1, MarksType
  <2>3. IsFiniteSet({p}) /\ Cardinality({p}) = 1
    BY FS_Singleton
  <2>4. Cardinality(P) = 1 * Has(td[p], role, i)
    BY <2>2, <2>3, FS_Product DEF MarksOf, Has
  <2> QED BY <2>2, <2>4
<1> QED BY <1>5, <1>6 DEF Count, Other

(* The others count for as much as before when only p does something.      *)
LEMMA OtherSame ==
  ASSUME NEW td \in Todos, NEW ue \in Todos, NEW p \in Procs,
         \A q \in Procs \ {p} : ue[q] = td[q], NEW role, NEW i
  PROVE  Other(ue, p, role, i) = Other(td, p, role, i)
<1>1. \A x : x \in AllMarks(ue, role, i) /\ x[1] # p
            <=> x \in AllMarks(td, role, i) /\ x[1] # p
  BY DEF AllMarks
<1>2. {x \in AllMarks(ue, role, i) : x[1] # p}
        = {x \in AllMarks(td, role, i) : x[1] # p}
  BY <1>1
<1> QED BY <1>2 DEF Other

(* One process does something: what it has less, and what it has more.     *)
Replaced(td, ue, p, t, role, i) ==
  /\ Count(ue, role, i) + Has(td[p], role, i)
       = Count(td, role, i) + Has(t, role, i)
  /\ Count(ue, role, i) \in Nat /\ Count(td, role, i) \in Nat
  /\ Has(td[p], role, i) \in Nat /\ Has(t, role, i) \in Nat
  /\ Has(td[p], role, i) <= Count(td, role, i)

(* Replacing the list of one process changes counts by that list.          *)
LEMMA CountStep ==
  ASSUME NEW td \in Todos, NEW p \in Procs, NEW t \in Seq(Instr),
         NEW ue, ue = [td EXCEPT ![p] = t]
  PROVE  \A role, i : Replaced(td, ue, p, t, role, i)
<1>1. PICK u \in Todos : u = ue
  BY DEF Todos
<1>2. u[p] = t /\ \A q \in Procs \ {p} : u[q] = td[q]
  BY <1>1 DEF Todos
<1> SUFFICES ASSUME NEW role, NEW i
             PROVE  Replaced(td, u, p, t, role, i)
  BY <1>1, Zenon
<1>3. Other(u, p, role, i) = Other(td, p, role, i)
  BY <1>2, OtherSame
<1>4. /\ Count(u, role, i) = Has(u[p], role, i) + Other(u, p, role, i)
      /\ Count(u, role, i) \in Nat /\ Has(u[p], role, i) \in Nat
  BY CountSplit
<1>5. /\ Count(td, role, i) = Has(td[p], role, i) + Other(td, p, role, i)
      /\ Count(td, role, i) \in Nat /\ Has(td[p], role, i) \in Nat
      /\ Other(td, p, role, i) \in Nat
  BY CountSplit
<1> QED BY <1>2, <1>3, <1>4, <1>5 DEF Replaced

(* Two processes count for no more than all of them.                       *)
LEMMA CountTwo ==
  ASSUME NEW td \in Todos, NEW p \in Procs, NEW q \in Procs, p # q,
         NEW role, NEW i
  PROVE  Count(td, role, i) >= Has(td[p], role, i) + Has(td[q], role, i)
<1> DEFINE A == AllMarks(td, role, i)
           Q == MarksOf(td, q, role, i)
           R == {x \in A : x[1] # p}
<1>1. IsFiniteSet(A)
  BY AllMarksFinite
<1>2. Q \subseteq R /\ R \subseteq A
  BY DEF AllMarks, MarksOf
<1>3. IsFiniteSet(R)
  BY <1>1, <1>2, FS_Subset
<1>4. Cardinality(Q) <= Cardinality(R)
  BY <1>2, <1>3, FS_Subset
<1>6. Cardinality(Q) = Has(td[q], role, i) /\ Has(td[q], role, i) \in Nat
  <2>1. td[q] \in Seq(Instr)
    BY DEF Todos
  <2>2. IsFiniteSet(Marks(td[q], role, i)) /\ Has(td[q], role, i) \in Nat
    BY <2>1, MarksType
  <2>3. IsFiniteSet({q}) /\ Cardinality({q}) = 1
    BY FS_Singleton
  <2>4. Cardinality(Q) = 1 * Has(td[q], role, i)
    BY <2>2, <2>3, FS_Product DEF MarksOf, Has
  <2> QED BY <2>2, <2>4
<1>7. Has(td[q], role, i) <= Other(td, p, role, i)
  BY <1>4, <1>6 DEF Other
<1>8. /\ Count(td, role, i) = Has(td[p], role, i) + Other(td, p, role, i)
      /\ Has(td[p], role, i) \in Nat /\ Other(td, p, role, i) \in Nat
  BY CountSplit
<1> QED BY <1>6, <1>7, <1>8

(* A positive count is positive for some process.                          *)
LEMMA CountSome ==
  ASSUME NEW td \in Todos, NEW role, NEW i
  PROVE  /\ Count(td, role, i) \in Nat
         /\ Count(td, role, i) > 0 => \E p \in Procs : Has(td[p], role, i) > 0
         /\ \A p \in Procs : /\ Has(td[p], role, i) \in Nat
                             /\ Has(td[p], role, i) <= Count(td, role, i)
<1>1. IsFiniteSet(AllMarks(td, role, i)) /\ Count(td, role, i) \in Nat
  BY AllMarksFinite, FS_CardinalityType DEF Count
<1>2. \A p \in Procs : /\ Has(td[p], role, i) \in Nat
                       /\ Has(td[p], role, i) <= Count(td, role, i)
  <2> SUFFICES ASSUME NEW p \in Procs
               PROVE  /\ Has(td[p], role, i) \in Nat
                      /\ Has(td[p], role, i) <= Count(td, role, i)
    OBVIOUS
  <2>1. /\ Count(td, role, i) = Has(td[p], role, i) + Other(td, p, role, i)
        /\ Has(td[p], role, i) \in Nat /\ Other(td, p, role, i) \in Nat
    BY CountSplit
  <2> QED BY <2>1
<1>3. ASSUME Count(td, role, i) > 0
      PROVE  \E p \in Procs : Has(td[p], role, i) > 0
  <2>1. PICK x : x \in AllMarks(td, role, i)
    BY <1>1, <1>3, FS_EmptySet DEF Count
  <2>2. PICK p \in Procs : x \in {p} \X Marks(td[p], role, i)
    BY <2>1 DEF AllMarks
  <2>3. Marks(td[p], role, i) # {} /\ td[p] \in Seq(Instr)
    BY <2>2 DEF Todos
  <2>4. Has(td[p], role, i) \in Nat /\ Has(td[p], role, i) # 0
    BY <2>3, MarksType, FS_EmptySet DEF Has
  <2> QED BY <2>4
<1> QED BY <1>1, <1>2, <1>3

(* The fields of an instruction, by what it does.                          *)
LEMMA InstrFields ==
  ASSUME NEW x \in Instr
  PROVE  /\ x.do \in IpOps \ {"open"} => x.ip \in Inums /\ x = On(x.do, x.ip)
         /\ x.do = "open" => x.ip \in Inums
         /\ x.do = "look" => x \in Looks
         /\ x.do \in {"linkold", "found"} =>
              x.ip \in Inums /\ x.dp = 0 /\ x.call \in Calls
         /\ x.do \in NewOps =>
              x.ip \in Inums /\ x.dp \in Inums /\ x.call \in Calls
         /\ x.do \in DirOps => x.ip = 0 /\ x.dp \in Inums /\ x.call \in Calls
<1>1. \/ x \in [do : {"begin", "end"}]
      \/ x \in [do : IpOps, ip : Inums]
      \/ x \in Looks
      \/ x \in GoalsOf(OldOps, {0}, Inums)
      \/ x \in GoalsOf(NewOps, Inums, Inums)
      \/ x \in GoalsOf(DirOps, Inums, {0})
  BY DEF Instr
<1>2. CASE x \in [do : {"begin", "end"}]
  BY <1>2 DEF IpOps, NewOps, DirOps
<1>3. CASE x \in [do : IpOps, ip : Inums]
  BY <1>3 DEF IpOps, NewOps, DirOps, On
<1>4. CASE x \in Looks
  BY <1>4 DEF IpOps, NewOps, DirOps, Looks
<1>5. CASE x \in GoalsOf(OldOps, {0}, Inums)
  BY <1>5 DEF IpOps, NewOps, DirOps, OldOps, GoalsOf
<1>6. CASE x \in GoalsOf(NewOps, Inums, Inums)
  BY <1>6 DEF IpOps, NewOps, DirOps, GoalsOf
<1>7. CASE x \in GoalsOf(DirOps, Inums, {0})
  BY <1>7 DEF IpOps, NewOps, DirOps, GoalsOf
<1> QED BY <1>1, <1>2, <1>3, <1>4, <1>5, <1>6, <1>7

(* The fields of an instruction about one inode.                           *)
LEMMA OnIs ==
  ASSUME NEW op \in IpOps, NEW j \in Inums
  PROVE  On(op, j) \in Instr /\ On(op, j).do = op /\ On(op, j).ip = j
BY DEF On, Instr

(* A look, and the goal it has.                                            *)
LEMMA LookFields ==
  ASSUME NEW w \in Looks
  PROVE  /\ w \in Instr /\ w.do = "look" /\ w.ip \in Inums
         /\ w.path \in AnyPath /\ w.parent \in BOOLEAN /\ w.goal \in Goals
         /\ w.goal.call \in Calls /\ w.goal.dp = 0
         /\ w.goal.do \in {"open", "linkold", "unlink", "create", "linknew"}
         /\ w.goal.do = "linknew" => w.goal.ip \in Inums
         /\ w.goal.do # "linknew" => w.goal.ip = 0
<1>1. /\ w \in Instr /\ w.do = "look" /\ w.ip \in Inums
      /\ w.path \in AnyPath /\ w.parent \in BOOLEAN /\ w.goal \in Goals
  BY DEF Looks, Instr
<1>2. PICK g \in Goals : g = w.goal
  BY <1>1
<1>3. /\ g.call \in Calls /\ g.dp = 0
      /\ g.do \in {"open", "linkold", "unlink", "create", "linknew"}
      /\ g.do = "linknew" => g.ip \in Inums
      /\ g.do # "linknew" => g.ip = 0
  <2>1. CASE g \in GoalsOf({"open", "linkold", "unlink", "create"}, {0}, {0})
    BY <2>1 DEF GoalsOf
  <2>2. CASE g \in GoalsOf({"linknew"}, {0}, Inums)
    BY <2>2 DEF GoalsOf
  <2> QED BY <2>1, <2>2 DEF Goals
<1> QED BY <1>1, <1>2, <1>3

(* What an instruction counts for, role by role.                           *)
Roles == {"use", "back", "old", "dir", "new", "drop", "erase", "forget",
          "pair"}
Is(i, j) == IF i = j THEN 1 ELSE 0

(* What each kind of instruction counts for, in each role.                 *)
LEMMA Weights ==
  ASSUME NEW x, NEW i
  PROVE  /\ x.do \in {"begin", "end", "lock", "unlock"} =>
              \A r \in Roles : Weight(x, r, i) = 0
         /\ x.do \in {"put", "open", "linkold", "found"} =>
              /\ Weight(x, "use", i) = Is(x.ip, i)
              /\ \A r \in Roles \ {"use"} : Weight(x, r, i) = 0
         /\ x.do = "look" =>
              /\ Weight(x, "use", i) = Is(x.ip, i)
              /\ Weight(x, "old", i) = Is(x.goal.ip, i)
              /\ \A r \in Roles \ {"use", "old"} : Weight(x, r, i) = 0
         /\ x.do = "takeback" =>
              /\ Weight(x, "back", i) = Is(x.ip, i)
              /\ \A r \in Roles \ {"back"} : Weight(x, r, i) = 0
         /\ x.do = "linknew" =>
              /\ Weight(x, "old", i) = Is(x.ip, i)
              /\ Weight(x, "dir", i) = Is(x.dp, i)
              /\ \A r \in Roles \ {"old", "dir"} : Weight(x, r, i) = 0
         /\ x.do \in DirOps =>
              /\ Weight(x, "dir", i) = Is(x.dp, i)
              /\ \A r \in Roles \ {"dir"} : Weight(x, r, i) = 0
         /\ x.do = "remove" =>
              /\ Weight(x, "use", i) = Is(x.ip, i)
              /\ Weight(x, "dir", i) = Is(x.dp, i)
              /\ Weight(x, "pair", i) = Is(x.dp, i)
              /\ \A r \in Roles \ {"use", "dir", "pair"} : Weight(x, r, i) = 0
         /\ x.do = "fill" =>
              /\ Weight(x, "new", i) = Is(x.ip, i)
              /\ Weight(x, "dir", i) = Is(x.dp, i)
              /\ Weight(x, "pair", i) = Is(x.dp, i)
              /\ \A r \in Roles \ {"new", "dir", "pair"} : Weight(x, r, i) = 0
         /\ x.do \in {"drop", "erase", "forget"} =>
              /\ Weight(x, x.do, i) = Is(x.ip, i)
              /\ \A r \in Roles \ {x.do} : Weight(x, r, i) = 0
<1> USE DEF Weight, Plays, Is, Roles, UseOps, NewOps, DirOps
<1>1. x.do \in {"begin", "end", "lock", "unlock"} =>
              \A r \in Roles : Weight(x, r, i) = 0
  OBVIOUS
<1>2. x.do \in {"put", "open", "linkold", "found"} =>
              /\ Weight(x, "use", i) = Is(x.ip, i)
              /\ \A r \in Roles \ {"use"} : Weight(x, r, i) = 0
  OBVIOUS
<1>3. x.do = "look" =>
              /\ Weight(x, "use", i) = Is(x.ip, i)
              /\ Weight(x, "old", i) = Is(x.goal.ip, i)
              /\ \A r \in Roles \ {"use", "old"} : Weight(x, r, i) = 0
  OBVIOUS
<1>4. x.do = "takeback" =>
              /\ Weight(x, "back", i) = Is(x.ip, i)
              /\ \A r \in Roles \ {"back"} : Weight(x, r, i) = 0
  OBVIOUS
<1>5. x.do = "linknew" =>
              /\ Weight(x, "old", i) = Is(x.ip, i)
              /\ Weight(x, "dir", i) = Is(x.dp, i)
              /\ \A r \in Roles \ {"old", "dir"} : Weight(x, r, i) = 0
  OBVIOUS
<1>6. x.do \in DirOps =>
              /\ Weight(x, "dir", i) = Is(x.dp, i)
              /\ \A r \in Roles \ {"dir"} : Weight(x, r, i) = 0
  OBVIOUS
<1>7. x.do = "remove" =>
              /\ Weight(x, "use", i) = Is(x.ip, i)
              /\ Weight(x, "dir", i) = Is(x.dp, i)
              /\ Weight(x, "pair", i) = Is(x.dp, i)
              /\ \A r \in Roles \ {"use", "dir", "pair"} : Weight(x, r, i) = 0
  OBVIOUS
<1>8. x.do = "fill" =>
              /\ Weight(x, "new", i) = Is(x.ip, i)
              /\ Weight(x, "dir", i) = Is(x.dp, i)
              /\ Weight(x, "pair", i) = Is(x.dp, i)
              /\ \A r \in Roles \ {"new", "dir", "pair"} : Weight(x, r, i) = 0
  OBVIOUS
<1>9. x.do \in {"drop", "erase", "forget"} =>
              /\ Weight(x, x.do, i) = Is(x.ip, i)
              /\ \A r \in Roles \ {x.do} : Weight(x, r, i) = 0
  OBVIOUS
<1> QED BY <1>1, <1>2, <1>3, <1>4, <1>5, <1>6, <1>7, <1>8, <1>9, Zenon

(* Several instructions before others.                                     *)
LEMMA ListHas ==
  ASSUME NEW s \in Seq(Instr), NEW role, NEW i,
         NEW a \in Instr, NEW b \in Instr, NEW c \in Instr, NEW d \in Instr,
         NEW e \in Instr
  PROVE  /\ Has(Cons(a, s), role, i) = Weight(a, role, i) + Has(s, role, i)
         /\ Has(Cons(a, Cons(b, s)), role, i) =
              Weight(a, role, i) + Weight(b, role, i) + Has(s, role, i)
         /\ Has(Cons(a, Cons(b, Cons(c, s))), role, i) =
              Weight(a, role, i) + Weight(b, role, i) + Weight(c, role, i)
              + Has(s, role, i)
         /\ Has(Cons(a, Cons(b, Cons(c, Cons(d, s)))), role, i) =
              Weight(a, role, i) + Weight(b, role, i) + Weight(c, role, i)
              + Weight(d, role, i) + Has(s, role, i)
         /\ Has(Cons(a, Cons(b, Cons(c, Cons(d, Cons(e, s))))), role, i) =
              Weight(a, role, i) + Weight(b, role, i) + Weight(c, role, i)
              + Weight(d, role, i) + Weight(e, role, i) + Has(s, role, i)
         /\ Has(s, role, i) \in Nat
<1>0. ASSUME NEW x \in Instr PROVE Weight(x, role, i) \in Nat
  BY DEF Weight
<1>1. ASSUME NEW u \in Seq(Instr), NEW x \in Instr
      PROVE  /\ Cons(x, u) \in Seq(Instr)
             /\ Has(Cons(x, u), role, i) = Weight(x, role, i) + Has(u, role, i)
             /\ Has(u, role, i) \in Nat
  <2>1. Cons(x, u) \in Seq(Instr)
    BY ConsIs
  <2>2. /\ Has(Cons(x, u), role, i) = Has(u, role, i) + Weight(x, role, i)
        /\ Has(u, role, i) \in Nat
    BY ConsHas
  <2> QED BY <2>1, <2>2, <1>0
<1>2. ASSUME NEW u \in Seq(Instr), NEW x \in Instr, NEW y \in Instr
      PROVE  /\ Cons(x, Cons(y, u)) \in Seq(Instr)
             /\ Has(Cons(x, Cons(y, u)), role, i) =
                  Weight(x, role, i) + Weight(y, role, i) + Has(u, role, i)
  <2>1. PICK v \in Seq(Instr) :
          v = Cons(y, u) /\ Has(v, role, i) = Weight(y, role, i) + Has(u, role, i)
    BY <1>1
  <2>2. /\ Cons(x, v) \in Seq(Instr)
        /\ Has(Cons(x, v), role, i) = Weight(x, role, i) + Has(v, role, i)
        /\ Has(u, role, i) \in Nat
    BY <1>1
  <2>3. Weight(x, role, i) \in Nat /\ Weight(y, role, i) \in Nat
    BY <1>0
  <2> QED BY <2>1, <2>2, <2>3
<1>3. Has(Cons(a, Cons(b, Cons(c, s))), role, i) =
              Weight(a, role, i) + Weight(b, role, i) + Weight(c, role, i)
              + Has(s, role, i)
  <2>1. PICK v \in Seq(Instr) : v = Cons(c, s)
    BY <1>1
  <2> QED BY <2>1, <1>0, <1>1, <1>2
<1>4. PICK v \in Seq(Instr) :
        /\ v = Cons(c, Cons(d, s))
        /\ Has(v, role, i) = Weight(c, role, i) + Weight(d, role, i) + Has(s, role, i)
  BY <1>2
<1>5. Has(Cons(a, Cons(b, Cons(c, Cons(d, s)))), role, i) =
              Weight(a, role, i) + Weight(b, role, i) + Weight(c, role, i)
              + Weight(d, role, i) + Has(s, role, i)
  <2>1. Has(Cons(a, Cons(b, v)), role, i)
          = Weight(a, role, i) + Weight(b, role, i) + Has(v, role, i)
    BY <1>2
  <2>2. /\ Weight(a, role, i) \in Nat /\ Weight(b, role, i) \in Nat
        /\ Weight(c, role, i) \in Nat /\ Weight(d, role, i) \in Nat
        /\ Has(s, role, i) \in Nat
    BY <1>0, <1>1
  <2> QED BY <2>1, <2>2, <1>4
<1>6. PICK v6 \in Seq(Instr) :
        /\ v6 = Cons(d, Cons(e, s))
        /\ Has(v6, role, i) = Weight(d, role, i) + Weight(e, role, i) + Has(s, role, i)
  BY <1>2
<1>7. PICK v7 \in Seq(Instr) :
        /\ v7 = Cons(c, v6)
        /\ Has(v7, role, i) = Weight(c, role, i) + Has(v6, role, i)
  BY <1>1
<1>8. Has(Cons(a, Cons(b, v7)), role, i) =
              Weight(a, role, i) + Weight(b, role, i) + Weight(c, role, i)
              + Weight(d, role, i) + Weight(e, role, i) + Has(s, role, i)
  <2>1. Has(Cons(a, Cons(b, v7)), role, i)
          = Weight(a, role, i) + Weight(b, role, i) + Has(v7, role, i)
    BY <1>2
  <2>2. /\ Weight(a, role, i) \in Nat /\ Weight(b, role, i) \in Nat
        /\ Weight(c, role, i) \in Nat /\ Weight(d, role, i) \in Nat
        /\ Weight(e, role, i) \in Nat /\ Has(s, role, i) \in Nat
    BY <1>0, <1>1
  <2> QED BY <2>1, <2>2, <1>6, <1>7
<1> QED BY <1>1, <1>2, <1>3, <1>5, <1>6, <1>7, <1>8

-----------------------------------------------------------------------------
(* The inductive invariant.                                                *)

Flat(d) == Ups => \A i \in Inums : d[i].ents[".."] \in {0, ROOTINO}

SlotType == [ref : Nat, valid : BOOLEAN, type : Types, nlink : Nat]
FileType == [ref : Nat, ip : 0 .. NINODES]
TypesInv ==
  /\ itab \in [Inums -> SlotType]
  /\ lock \in [Inums -> Procs \cup {Nobody}]
  /\ ftab \in [Files -> FileType]
  /\ fd \in [Procs -> 0 .. NFILE]
  /\ calls \in [Procs -> Nat]
  /\ todo \in Todos
  /\ scan \in 0 .. NINODES + 1
  /\ ops \subseteq Procs

DiskInv == Tree(dino) /\ Tree(disk) /\ Flat(dino) /\ Flat(disk)

(* The instructions of every process follow from one another, and it has   *)
(* locked what they say.                                                   *)
HeldFile(p) == IF fd[p] = 0 THEN {} ELSE {ftab[fd[p]].ip}
TodoInv == \A p \in Procs : WellFormed(todo[p], HeldFile(p))
LockInv == \A p \in Procs, i \in Inums : lock[i] = p <=> Locking(todo[p], i)

(* An open file is shared by those who have it.                            *)
Sharers(f) == {p \in Procs : fd[p] = f}
FileInv ==
  \A f \in Files : /\ ftab[f].ref = Cardinality(Sharers(f))
                   /\ ftab[f].ref = 0 <=> ftab[f].ip = 0

(* What unlink() and create() have found, both inodes locked; a directory  *)
(* that is walked through, or written to, has a "..".                      *)
GoalOk(d, x) ==
  /\ x.do = "remove" => d[x.dp].ents[NameOf(x.call)] = x.ip
  /\ x.do = "fill" => /\ d[x.ip].type = TypeOf(x.call)
                      /\ d[x.dp].ents[NameOf(x.call)] = 0
  /\ x.do = "look" /\ d[x.ip].type = "dir" => d[x.ip].ents[".."] # 0
  /\ x.do \in {"linknew", "remove", "fill", "unlink", "create"} =>
       d[x.dp].ents[".."] # 0
GoalsOk(d, s) == \A k \in 1 .. Len(s) : GoalOk(d, s[k])
GoalInv == \A p \in Procs : GoalsOk(dino, todo[p])

(* Every reference of an inode is somebody's.                              *)
Uses(td, i) == Count(td, "use", i) + Count(td, "back", i)
               + Count(td, "old", i) + Count(td, "dir", i)
FilesOf(ft, i) == Cardinality({f \in Files : ft[f].ip = i})
RefInv(i) ==
  Uses(todo, i) + Count(todo, "new", i) + Count(todo, "drop", i)
    + FilesOf(ftab, i) = itab[i].ref

(* What is used is there; what is new has no name yet, and one owner;      *)
(* what is freed has no link and no other reference.                       *)
UsedInv(i) ==
  Uses(todo, i) + FilesOf(ftab, i) > 0 =>
    dino[i].type # "free" /\ Count(todo, "new", i) = 0
NewInv(i) ==
  /\ Count(todo, "new", i) <= 1
  /\ Count(todo, "new", i) > 0 =>
       dino[i].type # "free" /\ dino[i].nlink = 0 /\ dino[i].ents = NoEntries
EraseInv(i) ==
  Count(todo, "erase", i) > 0 =>
    dino[i].type # "free" /\ dino[i].nlink = 0 /\ itab[i].ref = 1
DirInv(i) == Count(todo, "dir", i) > 0 => dino[i].type = "dir"
OldInv(i) == Count(todo, "old", i) > 0 => dino[i].type = "file"

(* Links are counted before they are made, and until they are taken back.  *)
ClaimInv(i) ==
  Cardinality(Links(dino, i)) + Count(todo, "back", i) + Count(todo, "old", i)
    <= dino[i].nlink

(* A slot says what the disk says, except while iput() frees the inode.    *)
AgreeInv(i) ==
  itab[i].valid /\ Count(todo, "forget", i) = 0 =>
    /\ dino[i].type # "free"
    /\ itab[i].type = dino[i].type /\ itab[i].nlink = dino[i].nlink
HeldInv(i) == lock[i] # Nobody => itab[i].valid

InodeOk(i) ==
  /\ RefInv(i) /\ UsedInv(i) /\ NewInv(i) /\ EraseInv(i) /\ DirInv(i)
  /\ OldInv(i) /\ ClaimInv(i) /\ AgreeInv(i) /\ HeldInv(i)
InodesInv == \A i \in Inums : InodeOk(i)

IInv ==
  /\ NoPanic /\ TypesInv /\ DiskInv /\ TodoInv /\ LockInv /\ FileInv
  /\ GoalInv /\ InodesInv

(* The next instruction of a process.                                      *)
LEMMA HeadIs ==
  ASSUME TypesInv, TodoInv, GoalInv, NEW p \in Procs, NEW op, Ready(p, op)
  PROVE  \E x \in Instr, s \in Seq(Instr) :
           /\ todo[p] = Cons(x, s) /\ It(p) = x /\ x.do = op /\ Tail(todo[p]) = s
           /\ Ok(x, s, HeldFile(p)) /\ WellFormed(s, HeldFile(p))
           /\ GoalOk(dino, x) /\ GoalsOk(dino, s)
<1>1. todo[p] \in Seq(Instr) /\ todo[p] # <<>>
  BY DEF TypesInv, Todos, Ready
<1>2. PICK x \in Instr, s \in Seq(Instr) :
        x = Head(todo[p]) /\ s = Tail(todo[p]) /\ todo[p] = Cons(x, s)
  BY <1>1, ConsOf
<1>3. x = It(p) /\ x.do = op
  BY <1>2 DEF It, Ready
<1>4. Ok(x, s, HeldFile(p)) /\ WellFormed(s, HeldFile(p))
  <2>1. PICK F : F = HeldFile(p)
    OBVIOUS
  <2>2. WellFormed(Cons(x, s), F)
    BY <1>2, <2>1 DEF TodoInv
  <2>3. x \in Instr /\ s \in Seq(Instr)
    BY <1>2
  <2> QED BY ONLY <2>1, <2>2, <2>3, ConsWellFormed, Zenon
<1>5. /\ Len(todo[p]) = Len(s) + 1 /\ todo[p][1] = x /\ Len(s) \in Nat
      /\ \A k \in 1 .. Len(s) : todo[p][k + 1] = s[k]
  <2>1. /\ Len(Cons(x, s)) = Len(s) + 1 /\ Cons(x, s)[1] = x
        /\ \A k \in 1 .. Len(s) : Cons(x, s)[k + 1] = s[k]
    BY ConsIs
  <2> QED BY <1>2, <2>1
<1>6. GoalsOk(dino, todo[p])
  BY DEF GoalInv
<1>7. GoalOk(dino, x)
  BY <1>5, <1>6 DEF GoalsOk
<1>8. ASSUME NEW k \in 1 .. Len(s) PROVE GoalOk(dino, s[k])
  <2>1. k + 1 \in 1 .. Len(todo[p])
    BY <1>5
  <2> QED BY <2>1, <1>5, <1>6 DEF GoalsOk
<1> QED BY <1>2, <1>3, <1>4, <1>7, <1>8 DEF GoalsOk

(* What is known of each instruction is known of the list.                 *)
LEMMA ConsGoals ==
  ASSUME NEW d, NEW x \in Instr, NEW s \in Seq(Instr),
         GoalOk(d, x), GoalsOk(d, s)
  PROVE  GoalsOk(d, Cons(x, s))
<1>1. /\ Len(Cons(x, s)) = Len(s) + 1 /\ Cons(x, s)[1] = x /\ Len(s) \in Nat
      /\ \A k \in 1 .. Len(s) : Cons(x, s)[k + 1] = s[k]
  BY ConsIs
<1>2. ASSUME NEW k \in 1 .. Len(s) + 1 PROVE GoalOk(d, Cons(x, s)[k])
  <2>1. CASE k = 1
    BY <2>1, <1>1
  <2>2. CASE k # 1
    <3>1. PICK j \in 1 .. Len(s) : k = j + 1
      <4>1. k - 1 \in 1 .. Len(s) /\ k = (k - 1) + 1
        BY <2>2, <1>1
      <4> QED BY <4>1
    <3>2. GoalOk(d, s[j])
      BY DEF GoalsOk
    <3> QED BY <3>1, <3>2, <1>1
  <2> QED BY <2>1, <2>2
<1> QED BY <1>1, <1>2 DEF GoalsOk

(* Nothing has to be known for end_op().                                   *)
LEMMA EndGoals == \A d : GoalsOk(d, EndOp) /\ GoalsOk(d, <<>>)
<1>1. EndOp = <<[do |-> "end"]>> /\ Len(EndOp) = 1 /\ EndOp[1].do = "end"
  BY DEF EndOp
<1>2. Len(<<>>) = 0
  OBVIOUS
<1>3. ASSUME NEW d, NEW k \in 1 .. Len(EndOp) PROVE GoalOk(d, EndOp[k])
  <2>1. k = 1
    BY <1>1
  <2> QED BY <2>1, <1>1 DEF GoalOk
<1> QED BY <1>2, <1>3 DEF GoalsOk

(* One process replaces its next instruction x, before s, by t.            *)
Moved(td, ue, x, s, t, role, i) ==
  /\ Count(ue, role, i) + Weight(x, role, i) + Has(s, role, i)
       = Count(td, role, i) + Has(t, role, i)
  /\ Count(ue, role, i) \in Nat /\ Count(td, role, i) \in Nat
  /\ Has(s, role, i) \in Nat /\ Has(t, role, i) \in Nat
  /\ Weight(x, role, i) \in {0, 1}
  /\ Weight(x, role, i) + Has(s, role, i) <= Count(td, role, i)

(* CountStep for the first instruction of a list.                          *)
LEMMA Counts ==
  ASSUME NEW td \in Todos, NEW p \in Procs, NEW x \in Instr,
         NEW s \in Seq(Instr), td[p] = Cons(x, s), NEW t \in Seq(Instr),
         NEW ue, ue = [td EXCEPT ![p] = t]
  PROVE  ue \in Todos /\ \A role, i : Moved(td, ue, x, s, t, role, i)
<1>1. ue \in Todos
  BY DEF Todos
<1>2. ASSUME NEW role, NEW i PROVE Moved(td, ue, x, s, t, role, i)
  <2>1. Replaced(td, ue, p, t, role, i)
    BY CountStep
  <2>2. Has(td[p], role, i) = Has(s, role, i) + Weight(x, role, i)
        /\ Has(s, role, i) \in Nat
    BY ConsHas
  <2>3. Weight(x, role, i) \in {0, 1}
    BY DEF Weight
  <2> QED BY <2>1, <2>2, <2>3 DEF Moved, Replaced
<1> QED BY <1>1, <1>2

-----------------------------------------------------------------------------
(* How lists change, and what that does to the counts.                     *)

(* The lists of instructions that actions put before others: what they     *)
(* have locked, what they count for, and when they are well formed.        *)
LockT(i, s) == Cons(On("lock", i), s)
UnlockT(i, s) == Cons(On("unlock", i), s)
PutT(i, s) == Cons(On("put", i), s)
LastT(x) == Cons(x, EndOp)

(* ilock() before s: s may hold i, what it counts for stays.               *)
LEMMA LockIs ==
  ASSUME NEW i \in Inums, NEW s \in Seq(Instr)
  PROVE  /\ LockT(i, s) \in Seq(Instr)
         /\ \A j : Locking(LockT(i, s), j) <=> j # i /\ Locking(s, j)
         /\ \A r \in Roles : \A j : Has(LockT(i, s), r, j) = Has(s, r, j)
         /\ \A F : OfLock(On("lock", i), s) /\ WellFormed(s, F)
                     => WellFormed(LockT(i, s), F)
         /\ \A d : GoalsOk(d, s) => GoalsOk(d, LockT(i, s))
<1>1. PICK x \in Instr : x = On("lock", i) /\ x.do = "lock" /\ x.ip = i
  BY OnIs DEF IpOps
<1>2. Cons(x, s) \in Seq(Instr)
  BY ConsIs
<1>3. \A j : Locking(Cons(x, s), j) <=> j # i /\ Locking(s, j)
  <2> SUFFICES ASSUME NEW j
               PROVE  Locking(Cons(x, s), j) <=> j # i /\ Locking(s, j)
    OBVIOUS
  <2>1. Locking(Cons(x, s), j) <=>
           Needs(x, j) \/ (x # On("lock", j) /\ Locking(s, j))
    BY ConsLocking
  <2>2. ~Needs(x, j)
    BY <1>1 DEF Needs, NewOps, DirOps
  <2>3. x # On("lock", j) <=> j # i
    BY <1>1 DEF On
  <2> QED BY <2>1, <2>2, <2>3
<1>4. \A r \in Roles : \A j : Has(Cons(x, s), r, j) = Has(s, r, j)
  <2> SUFFICES ASSUME NEW r \in Roles, NEW j
               PROVE  Has(Cons(x, s), r, j) = Has(s, r, j)
    OBVIOUS
  <2>1. /\ Has(Cons(x, s), r, j) = Has(s, r, j) + Weight(x, r, j)
        /\ Has(s, r, j) \in Nat
    BY ConsHas
  <2>2. Weight(x, r, j) = 0
    BY <1>1, Weights
  <2> QED BY <2>1, <2>2
<1>5. \A F : OfLock(x, s) /\ WellFormed(s, F) => WellFormed(Cons(x, s), F)
  <2> SUFFICES ASSUME NEW F, OfLock(x, s), WellFormed(s, F)
               PROVE  WellFormed(Cons(x, s), F)
    OBVIOUS
  <2>1. Ok(x, s, F)
    BY <1>1 DEF Ok, Static, Plain
  <2> QED BY <2>1, ConsWellFormed
<1>6. \A d : GoalsOk(d, s) => GoalsOk(d, Cons(x, s))
  <2> SUFFICES ASSUME NEW d, GoalsOk(d, s) PROVE GoalsOk(d, Cons(x, s))
    OBVIOUS
  <2>1. GoalOk(d, x)
    BY <1>1 DEF GoalOk
  <2> QED BY <2>1, ConsGoals
<1> QED BY <1>1, <1>2, <1>3, <1>4, <1>5, <1>6 DEF LockT

(* iunlock() before s: i is held as well.                                  *)
LEMMA UnlockIs ==
  ASSUME NEW i \in Inums, NEW s \in Seq(Instr)
  PROVE  /\ UnlockT(i, s) \in Seq(Instr)
         /\ \A j : Locking(UnlockT(i, s), j) <=> j = i \/ Locking(s, j)
         /\ \A r \in Roles : \A j : Has(UnlockT(i, s), r, j) = Has(s, r, j)
         /\ \A F : OfUnlock(On("unlock", i), s, F) /\ WellFormed(s, F)
                     => WellFormed(UnlockT(i, s), F)
         /\ \A d : GoalsOk(d, s) => GoalsOk(d, UnlockT(i, s))
<1>1. PICK x \in Instr : x = On("unlock", i) /\ x.do = "unlock" /\ x.ip = i
  BY OnIs DEF IpOps
<1>2. Cons(x, s) \in Seq(Instr)
  BY ConsIs
<1>3. \A j : Locking(Cons(x, s), j) <=> j = i \/ Locking(s, j)
  <2> SUFFICES ASSUME NEW j
               PROVE  Locking(Cons(x, s), j) <=> j = i \/ Locking(s, j)
    OBVIOUS
  <2>1. Locking(Cons(x, s), j) <=>
           Needs(x, j) \/ (x # On("lock", j) /\ Locking(s, j))
    BY ConsLocking
  <2>2. Needs(x, j) <=> i = j
    BY <1>1 DEF Needs, NewOps, DirOps
  <2>3. x # On("lock", j)
    BY <1>1 DEF On
  <2> QED BY <2>1, <2>2, <2>3
<1>4. \A r \in Roles : \A j : Has(Cons(x, s), r, j) = Has(s, r, j)
  <2> SUFFICES ASSUME NEW r \in Roles, NEW j
               PROVE  Has(Cons(x, s), r, j) = Has(s, r, j)
    OBVIOUS
  <2>1. /\ Has(Cons(x, s), r, j) = Has(s, r, j) + Weight(x, r, j)
        /\ Has(s, r, j) \in Nat
    BY ConsHas
  <2>2. Weight(x, r, j) = 0
    BY <1>1, Weights
  <2> QED BY <2>1, <2>2
<1>5. \A F : OfUnlock(x, s, F) /\ WellFormed(s, F) => WellFormed(Cons(x, s), F)
  <2> SUFFICES ASSUME NEW F, OfUnlock(x, s, F), WellFormed(s, F)
               PROVE  WellFormed(Cons(x, s), F)
    OBVIOUS
  <2>1. Ok(x, s, F)
    BY <1>1 DEF Ok, Static, Plain
  <2> QED BY <2>1, ConsWellFormed
<1>6. \A d : GoalsOk(d, s) => GoalsOk(d, Cons(x, s))
  <2> SUFFICES ASSUME NEW d, GoalsOk(d, s) PROVE GoalsOk(d, Cons(x, s))
    OBVIOUS
  <2>1. GoalOk(d, x)
    BY <1>1 DEF GoalOk
  <2> QED BY <2>1, ConsGoals
<1> QED BY <1>1, <1>2, <1>3, <1>4, <1>5, <1>6 DEF UnlockT

(* iput() before s: one more reference.                                    *)
LEMMA PutIs ==
  ASSUME NEW i \in Inums, NEW s \in Seq(Instr)
  PROVE  /\ PutT(i, s) \in Seq(Instr)
         /\ \A j : Locking(PutT(i, s), j) <=> Locking(s, j)
         /\ \A j : Has(PutT(i, s), "use", j) = Has(s, "use", j) + Is(i, j)
         /\ \A r \in Roles \ {"use"} : \A j : Has(PutT(i, s), r, j) = Has(s, r, j)
         /\ \A F : WellFormed(s, F) => WellFormed(PutT(i, s), F)
         /\ \A d : GoalsOk(d, s) => GoalsOk(d, PutT(i, s))
         /\ Keeps(PutT(i, s), i)
<1>1. PICK x \in Instr : x = On("put", i) /\ x.do = "put" /\ x.ip = i
  BY OnIs DEF IpOps
<1>2. Cons(x, s) \in Seq(Instr)
  BY ConsIs
<1>3. \A j : Locking(Cons(x, s), j) <=> Locking(s, j)
  <2> SUFFICES ASSUME NEW j PROVE Locking(Cons(x, s), j) <=> Locking(s, j)
    OBVIOUS
  <2>1. Locking(Cons(x, s), j) <=>
           Needs(x, j) \/ (x # On("lock", j) /\ Locking(s, j))
    BY ConsLocking
  <2>2. ~Needs(x, j)
    BY <1>1 DEF Needs, NewOps, DirOps
  <2>3. x # On("lock", j)
    BY <1>1 DEF On
  <2> QED BY <2>1, <2>2, <2>3
<1>4. \A r \in Roles \ {"use"} : \A j : Has(Cons(x, s), r, j) = Has(s, r, j)
  <2> SUFFICES ASSUME NEW r \in Roles \ {"use"}, NEW j
               PROVE  Has(Cons(x, s), r, j) = Has(s, r, j)
    OBVIOUS
  <2>1. /\ Has(Cons(x, s), r, j) = Has(s, r, j) + Weight(x, r, j)
        /\ Has(s, r, j) \in Nat
    BY ConsHas
  <2>2. Weight(x, r, j) = 0
    BY <1>1, Weights
  <2> QED BY <2>1, <2>2
<1>7. \A j : /\ Has(Cons(x, s), "use", j) = Has(s, "use", j) + Is(i, j)
             /\ Has(s, "use", j) \in Nat
  <2> SUFFICES ASSUME NEW j
               PROVE  /\ Has(Cons(x, s), "use", j) = Has(s, "use", j) + Is(i, j)
                      /\ Has(s, "use", j) \in Nat
    OBVIOUS
  <2>1. /\ Has(Cons(x, s), "use", j) = Has(s, "use", j) + Weight(x, "use", j)
        /\ Has(s, "use", j) \in Nat
    BY ConsHas
  <2>2. Weight(x, "use", j) = Is(i, j)
    BY <1>1, Weights
  <2> QED BY <2>1, <2>2
<1>5. \A F : WellFormed(s, F) => WellFormed(Cons(x, s), F)
  <2> SUFFICES ASSUME NEW F, WellFormed(s, F) PROVE WellFormed(Cons(x, s), F)
    OBVIOUS
  <2>1. Ok(x, s, F)
    BY <1>1 DEF Ok, Static, Plain
  <2> QED BY <2>1, ConsWellFormed
<1>6. \A d : GoalsOk(d, s) => GoalsOk(d, Cons(x, s))
  <2> SUFFICES ASSUME NEW d, GoalsOk(d, s) PROVE GoalsOk(d, Cons(x, s))
    OBVIOUS
  <2>1. GoalOk(d, x)
    BY <1>1 DEF GoalOk
  <2> QED BY <2>1, ConsGoals
<1>8. Keeps(Cons(x, s), i)
  <2>1. Has(Cons(x, s), "use", i) > 0
    BY <1>7 DEF Is
  <2> QED BY <2>1 DEF Keeps
<1> QED BY <1>1, <1>2, <1>3, <1>4, <1>5, <1>6, <1>7, <1>8 DEF PutT

(* The instructions that are the last of a call, but for end_op().         *)
Middle == {"takeback", "look", "open"} \cup OldOps \cup NewOps \cup DirOps

(* Such an instruction and end_op(): what it needs is held, what it counts *)
(* for is counted.                                                         *)
LEMMA LastIs ==
  ASSUME NEW x \in Instr, x.do \in Middle, Static(x)
  PROVE  /\ LastT(x) \in Seq(Instr) /\ LastT(x) # <<>>
         /\ Head(LastT(x)) = x /\ Tail(LastT(x)) = EndOp
         /\ \A j : Locking(LastT(x), j) <=> Needs(x, j)
         /\ \A r, j : Has(LastT(x), r, j) = Weight(x, r, j)
         /\ \A F : WellFormed(LastT(x), F)
         /\ \A d : GoalOk(d, x) => GoalsOk(d, LastT(x))
         /\ \A j : (\E r \in {"use", "back", "old", "dir", "new"} :
                      Plays(x, r, j)) => Keeps(LastT(x), j)
<1>1. PICK s \in Seq(Instr) :
        /\ s = EndOp /\ s # <<>>
        /\ \A r, j : Has(s, r, j) = 0
        /\ \A j : ~Locking(s, j)
        /\ \A F : WellFormed(s, F)
        /\ \A d : GoalsOk(d, s)
  <2>1. EndOp \in Seq(Instr) /\ EndOp # <<>>
    BY EndIs
  <2>2. \A r, j : Has(EndOp, r, j) = 0
    BY EndIs
  <2>3. \A j : ~Locking(EndOp, j)
    BY EndIs
  <2>4. \A F : WellFormed(EndOp, F)
    BY EndIs
  <2> QED BY <2>1, <2>2, <2>3, <2>4, EndGoals
<1>2. Cons(x, s) \in Seq(Instr) /\ Cons(x, s) # <<>>
  BY ConsIs
<1>3. Head(Cons(x, s)) = x
  BY ConsIs
<1>4. Tail(Cons(x, s)) = s
  BY ConsIs
<1>5. ASSUME NEW j PROVE Locking(Cons(x, s), j) <=> Needs(x, j)
  BY <1>1, ConsLocking
<1>6. ASSUME NEW r, NEW j PROVE Has(Cons(x, s), r, j) = Weight(x, r, j)
  <2>1. Has(Cons(x, s), r, j) = Has(s, r, j) + Weight(x, r, j)
    BY ConsHas
  <2> QED BY <2>1, <1>1 DEF Weight
<1>7. ASSUME NEW F PROVE WellFormed(Cons(x, s), F)
  <2>1. Ok(x, s, F)
    BY <1>1 DEF Ok, Plain, Middle, OldOps, NewOps, DirOps
  <2> QED BY <2>1, <1>1, ConsWellFormed
<1>8. ASSUME NEW d, GoalOk(d, x) PROVE GoalsOk(d, Cons(x, s))
  BY <1>1, <1>8, ConsGoals
<1>9. ASSUME NEW j, NEW r \in {"use", "back", "old", "dir", "new"},
             Plays(x, r, j)
      PROVE  Keeps(Cons(x, s), j)
  <2>1. Has(Cons(x, s), r, j) = 1
    BY <1>6, <1>9 DEF Weight
  <2> QED BY <2>1 DEF Keeps
<1> QED BY <1>1, <1>2, <1>3, <1>4, <1>5, <1>6, <1>7, <1>8, <1>9 DEF LastT

(* Files that are open on an inode.                                        *)
LEMMA FilesOfNat == \A ft, i : FilesOf(ft, i) \in Nat
<1> SUFFICES ASSUME NEW ft, NEW i PROVE FilesOf(ft, i) \in Nat
  OBVIOUS
<1>1. IsFiniteSet(Files)
  BY InodeAssumption, FS_Interval DEF Files
<1>2. IsFiniteSet({f \in Files : ft[f].ip = i})
  BY <1>1, FS_Subset
<1> QED BY <1>2, FS_CardinalityType DEF FilesOf

(* The links of an inode are finitely many.                                *)
LEMMA LinksFinite ==
  ASSUME NEW d, NEW i
  PROVE  IsFiniteSet(Links(d, i)) /\ Cardinality(Links(d, i)) \in Nat
<1>1. IsFiniteSet(Inums) /\ IsFiniteSet(Entries)
  <2>1. IsFiniteSet(Inums)
    BY InodeAssumption, FS_Interval DEF Inums
  <2>2. IsFiniteSet(Names \cup {".."})
    BY InodeAssumption, FS_Singleton, FS_Union
  <2> QED BY <2>1, <2>2 DEF Entries
<1>2. IsFiniteSet(Inums \X Entries)
  BY <1>1, FS_Product
<1>3. Links(d, i) \subseteq Inums \X Entries
  BY DEF Links
<1> QED BY <1>2, <1>3, FS_Subset, FS_CardinalityType

(* What a process does with its own list of instructions and locks.        *)
LEMMA LocalStep ==
  ASSUME TypesInv, TodoInv, LockInv, FileInv,
         NEW p \in Procs, NEW t \in Seq(Instr), todo' = [todo EXCEPT ![p] = t],
         ftab' = ftab, fd' = fd, WellFormed(t, HeldFile(p)),
         lock' \in [Inums -> Procs \cup {Nobody}],
         \A j \in Inums : lock'[j] = p <=> Locking(t, j),
         \A j \in Inums, q \in Procs \ {p} : lock'[j] = q <=> lock[j] = q
  PROVE  todo' \in Todos /\ TodoInv' /\ LockInv' /\ FileInv'
<1>1. todo' \in Todos /\ todo'[p] = t /\ \A q \in Procs \ {p} : todo'[q] = todo[q]
  BY DEF TypesInv, Todos
<1>2. \A q \in Procs : HeldFile(q)' = HeldFile(q)
  BY DEF HeldFile
<1>3. TodoInv'
  BY <1>1, <1>2 DEF TodoInv
<1>4. LockInv'
  BY <1>1 DEF LockInv
<1>5. FileInv'
  BY DEF FileInv, Sharers
<1> QED BY <1>1, <1>3, <1>4, <1>5

(* A step keeps what is known of instructions if it does for those of the  *)
(* process and those of the others.                                        *)
LEMMA GoalStep ==
  ASSUME TypesInv, GoalInv, NEW p \in Procs, NEW t \in Seq(Instr),
         todo' = [todo EXCEPT ![p] = t], GoalsOk(dino', t),
         \A q \in Procs \ {p} : GoalsOk(dino', todo[q])
  PROVE  GoalInv'
<1>1. todo'[p] = t /\ \A q \in Procs \ {p} : todo'[q] = todo[q]
  BY DEF TypesInv, Todos
<1> QED BY <1>1 DEF GoalInv

(* An inode whose contents stay as they are.                               *)
QuietCounts(td, ue, d, i) ==
  /\ Count(ue, "new", i) <= Count(td, "new", i)
  /\ Count(ue, "erase", i) <= Count(td, "erase", i)
  /\ Count(ue, "dir", i) <= Count(td, "dir", i) \/ d[i].type = "dir"
  /\ Count(ue, "old", i) <= Count(td, "old", i)
  /\ Count(ue, "back", i) + Count(ue, "old", i)
       <= Count(td, "back", i) + Count(td, "old", i)

(* Uses is a number, and 0 only if each of the four counts is.             *)
LEMMA UsesNat ==
  ASSUME NEW td \in Todos, NEW i
  PROVE  /\ Uses(td, i) \in Nat
         /\ Uses(td, i) = 0 =>
              \A r \in {"use", "back", "old", "dir"} : Count(td, r, i) = 0
         /\ \A r : Count(td, r, i) \in Nat
<1>1. \A r : Count(td, r, i) \in Nat
  BY CountSome
<1> QED BY <1>1 DEF Uses

(* The invariant of one inode over a step that leaves it alone on disk:    *)
(* counts may go down, or up where the disk allows it.                     *)
LEMMA QuietInode ==
  ASSUME TypesInv, DiskInv, todo' \in Todos, NEW i \in Inums, InodeOk(i),
         dino' = dino,
         QuietCounts(todo, todo', dino, i),
         Uses(todo', i) + FilesOf(ftab', i) > 0 =>
           \/ Uses(todo, i) + FilesOf(ftab, i) > 0
           \/ dino[i].type # "free" /\ Count(todo, "new", i) = 0,
         Count(todo', "erase", i) > 0 => itab'[i].ref = itab[i].ref,
         RefInv(i)', AgreeInv(i)', HeldInv(i)'
  PROVE  InodeOk(i)'
<1>1. todo \in Todos
  BY DEF TypesInv
<1>2. /\ \A r : Count(todo, r, i) \in Nat
      /\ \A r : Count(todo', r, i) \in Nat
  BY <1>1, UsesNat
<1>3. UsedInv(i)' /\ NewInv(i)' /\ EraseInv(i)' /\ DirInv(i)' /\ OldInv(i)'
  <2>1. UsedInv(i)'
    BY <1>2 DEF QuietCounts, InodeOk, UsedInv
  <2>2. NewInv(i)'
    BY <1>2 DEF QuietCounts, InodeOk, NewInv
  <2>3. EraseInv(i)'
    BY <1>2 DEF QuietCounts, InodeOk, EraseInv
  <2>4. DirInv(i)'
    BY <1>2 DEF QuietCounts, InodeOk, DirInv
  <2>5. OldInv(i)'
    BY <1>2 DEF QuietCounts, InodeOk, OldInv
  <2> QED BY <2>1, <2>2, <2>3, <2>4, <2>5
<1>4. ClaimInv(i)'
  <2>1. IsFiniteSet(Links(dino, i)) /\ Cardinality(Links(dino, i)) \in Nat
    BY LinksFinite
  <2>2. dino[i].nlink \in Nat
    BY DEF DiskInv, Tree, DiskType
  <2>3. Links(dino', i) = Links(dino, i) /\ dino'[i].nlink = dino[i].nlink
    OBVIOUS
  <2>4. Cardinality(Links(dino, i)) + Count(todo, "back", i)
          + Count(todo, "old", i) <= dino[i].nlink
    BY DEF InodeOk, ClaimInv
  <2>5. Count(todo', "back", i) + Count(todo', "old", i)
          <= Count(todo, "back", i) + Count(todo, "old", i)
    BY DEF QuietCounts
  <2>6. /\ Count(todo, "back", i) \in Nat /\ Count(todo, "old", i) \in Nat
        /\ Count(todo', "back", i) \in Nat /\ Count(todo', "old", i) \in Nat
    BY <1>2
  <2> QED BY <2>1, <2>2, <2>3, <2>4, <2>5, <2>6 DEF ClaimInv
<1> QED BY <1>3, <1>4 DEF InodeOk

(* A step that changes the references of slots, and nothing else of them.  *)
LEMMA QuietStep ==
  ASSUME IInv, NEW p \in Procs, NEW t \in Seq(Instr),
         todo' = [todo EXCEPT ![p] = t],
         dino' = dino, disk' \in {disk, dino}, ftab' = ftab, fd' = fd,
         lock' = lock, panic' = "", ops' \subseteq Procs,
         calls' \in [Procs -> Nat], scan' \in 0 .. NINODES + 1,
         WellFormed(t, HeldFile(p)), GoalsOk(dino, t),
         \A j \in Inums : Locking(t, j) <=> Locking(todo[p], j),
         itab' \in [Inums -> SlotType],
         \A i \in Inums : /\ itab'[i].valid = itab[i].valid
                          /\ itab'[i].type = itab[i].type
                          /\ itab'[i].nlink = itab[i].nlink,
         \A i \in Inums :
           /\ QuietCounts(todo, todo', dino, i)
           /\ Count(todo', "forget", i) = Count(todo, "forget", i)
           /\ RefInv(i)'
           /\ Uses(todo', i) > 0 =>
                \/ Uses(todo, i) + FilesOf(ftab, i) > 0
                \/ dino[i].type # "free" /\ Count(todo, "new", i) = 0
           /\ Count(todo', "erase", i) > 0 => itab'[i].ref = itab[i].ref
  PROVE  IInv'
<1> USE DEF IInv
<1>1. todo' \in Todos /\ TodoInv' /\ LockInv' /\ FileInv'
  <2>1. lock \in [Inums -> Procs \cup {Nobody}]
    BY DEF TypesInv
  <2>2. \A j \in Inums : lock'[j] = p <=> Locking(t, j)
    BY DEF LockInv
  <2> QED BY <2>1, <2>2, LocalStep
<1>2. GoalInv'
  <2>1. \A q \in Procs \ {p} : GoalsOk(dino', todo[q])
    BY DEF GoalInv
  <2> QED BY <2>1, GoalStep
<1>3. TypesInv'
  BY <1>1 DEF TypesInv
<1>4. DiskInv'
  BY DEF DiskInv
<1>5. ASSUME NEW i \in Inums PROVE InodeOk(i)'
  <2>1. InodeOk(i)
    BY DEF InodesInv
  <2>2. AgreeInv(i)'
    BY <2>1 DEF InodeOk, AgreeInv
  <2>3. HeldInv(i)'
    BY <2>1 DEF InodeOk, HeldInv
  <2>4. /\ Uses(todo, i) \in Nat /\ Uses(todo', i) \in Nat
        /\ FilesOf(ftab, i) \in Nat
    BY <1>1, UsesNat, FilesOfNat DEF TypesInv
  <2>5. Uses(todo', i) + FilesOf(ftab', i) > 0 =>
           \/ Uses(todo, i) + FilesOf(ftab, i) > 0
           \/ dino[i].type # "free" /\ Count(todo, "new", i) = 0
    <3>1. FilesOf(ftab', i) = FilesOf(ftab, i)
      OBVIOUS
    <3>2. CASE Uses(todo', i) > 0
      BY <3>2
    <3>3. CASE ~(Uses(todo', i) > 0)
      <4>1. Uses(todo', i) = 0
        BY ONLY <2>4, <3>3
      <4>2. Uses(todo', i) + FilesOf(ftab', i) > 0 =>
              Uses(todo, i) + FilesOf(ftab, i) > 0
        BY ONLY <2>4, <3>1, <4>1
      <4> QED BY <4>2
    <3> QED BY <3>2, <3>3
  <2> QED BY <1>1, <2>1, <2>2, <2>3, <2>5, QuietInode
<1> QED BY <1>1, <1>2, <1>3, <1>4, <1>5 DEF NoPanic, InodesInv

(* The same, in terms of what the process had to do and has to do now.     *)
Holds(s, i) ==
  Has(s, "use", i) + Has(s, "back", i) + Has(s, "old", i) + Has(s, "dir", i)
Total(s, i) == Holds(s, i) + Has(s, "new", i) + Has(s, "drop", i)

(* Replaced as four numbers, for arithmetic.                               *)
LEMMA Figures ==
  ASSUME NEW td, NEW ue, NEW p, NEW t, NEW i, NEW role, Replaced(td, ue, p, t, role, i)
  PROVE  \E a, b, c, d \in Nat :
           /\ a = Count(ue, role, i) /\ b = Has(td[p], role, i)
           /\ c = Count(td, role, i) /\ d = Has(t, role, i)
           /\ a + b = c + d /\ b <= c
BY DEF Replaced

(* Uses change as the list of the process that does something.             *)
UsesMoved(td, ue, p, t, i) ==
  /\ Uses(ue, i) + Holds(td[p], i) = Uses(td, i) + Holds(t, i)
  /\ Uses(ue, i) \in Nat /\ Uses(td, i) \in Nat
  /\ Holds(td[p], i) \in Nat /\ Holds(t, i) \in Nat
  /\ Holds(td[p], i) <= Uses(td, i)

(* CountStep for the four roles together.                                  *)
LEMMA UsesStep ==
  ASSUME NEW td \in Todos, NEW p \in Procs, NEW t \in Seq(Instr),
         NEW ue, ue = [td EXCEPT ![p] = t], NEW i
  PROVE  UsesMoved(td, ue, p, t, i)
<1>1. \A role : Replaced(td, ue, p, t, role, i)
  BY CountStep
<1>20. Replaced(td, ue, p, t, "use", i)
  BY <1>1
<1>2. PICK a1, b1, c1, d1 \in Nat :
           /\ a1 = Count(ue, "use", i) /\ b1 = Has(td[p], "use", i)
           /\ c1 = Count(td, "use", i) /\ d1 = Has(t, "use", i)
           /\ a1 + b1 = c1 + d1 /\ b1 <= c1
  BY ONLY <1>20, Figures
<1>21. a1 + b1 = c1 + d1
  BY <1>2
<1>30. Replaced(td, ue, p, t, "back", i)
  BY <1>1
<1>3. PICK a2, b2, c2, d2 \in Nat :
           /\ a2 = Count(ue, "back", i) /\ b2 = Has(td[p], "back", i)
           /\ c2 = Count(td, "back", i) /\ d2 = Has(t, "back", i)
           /\ a2 + b2 = c2 + d2 /\ b2 <= c2
  BY ONLY <1>30, Figures
<1>31. a2 + b2 = c2 + d2
  BY <1>3
<1>40. Replaced(td, ue, p, t, "old", i)
  BY <1>1
<1>4. PICK a3, b3, c3, d3 \in Nat :
           /\ a3 = Count(ue, "old", i) /\ b3 = Has(td[p], "old", i)
           /\ c3 = Count(td, "old", i) /\ d3 = Has(t, "old", i)
           /\ a3 + b3 = c3 + d3 /\ b3 <= c3
  BY ONLY <1>40, Figures
<1>41. a3 + b3 = c3 + d3
  BY <1>4
<1>50. Replaced(td, ue, p, t, "dir", i)
  BY <1>1
<1>5. PICK a4, b4, c4, d4 \in Nat :
           /\ a4 = Count(ue, "dir", i) /\ b4 = Has(td[p], "dir", i)
           /\ c4 = Count(td, "dir", i) /\ d4 = Has(t, "dir", i)
           /\ a4 + b4 = c4 + d4 /\ b4 <= c4
  BY ONLY <1>50, Figures
<1>51. a4 + b4 = c4 + d4
  BY <1>5
<1>6. /\ Uses(ue, i) = a1 + a2 + a3 + a4 /\ Holds(td[p], i) = b1 + b2 + b3 + b4
      /\ Uses(td, i) = c1 + c2 + c3 + c4 /\ Holds(t, i) = d1 + d2 + d3 + d4
  BY <1>2, <1>3, <1>4, <1>5 DEF Uses, Holds
<1>7. a1 + a2 + a3 + a4 + (b1 + b2 + b3 + b4)
        = c1 + c2 + c3 + c4 + (d1 + d2 + d3 + d4)
  BY ONLY <1>21, <1>31, <1>41, <1>51
<1>8. b1 + b2 + b3 + b4 <= c1 + c2 + c3 + c4
  <2>1. b1 <= c1 /\ b2 <= c2 /\ b3 <= c3 /\ b4 <= c4
    BY <1>2, <1>3, <1>4, <1>5
  <2> QED BY ONLY <2>1
<1>9. /\ a1 + a2 + a3 + a4 \in Nat /\ b1 + b2 + b3 + b4 \in Nat
      /\ c1 + c2 + c3 + c4 \in Nat /\ d1 + d2 + d3 + d4 \in Nat
  OBVIOUS
<1> QED BY ONLY <1>6, <1>7, <1>8, <1>9 DEF UsesMoved

(* UsesMoved as four numbers.                                              *)
LEMMA UsesFigures ==
  ASSUME NEW td, NEW ue, NEW p, NEW t, NEW i, UsesMoved(td, ue, p, t, i)
  PROVE  \E u, h, v, k \in Nat :
           /\ u = Uses(ue, i) /\ h = Holds(td[p], i)
           /\ v = Uses(td, i) /\ k = Holds(t, i)
           /\ u + h = v + k /\ h <= v
BY DEF UsesMoved

(* A process that had to do s has to do t, and claims no more of inode i.  *)
QuietHas(s, t, d, i) ==
  /\ Has(t, "new", i) <= Has(s, "new", i)
  /\ Has(t, "erase", i) <= Has(s, "erase", i)
  /\ Has(t, "forget", i) = Has(s, "forget", i)
  /\ Has(t, "dir", i) <= Has(s, "dir", i) \/ d[i].type = "dir"
  /\ Has(t, "old", i) <= Has(s, "old", i)
  /\ Has(t, "back", i) + Has(t, "old", i) <= Has(s, "back", i) + Has(s, "old", i)

(* The same of the counts over all processes.                              *)
QuietMoved(td, ue, d, i) ==
  QuietCounts(td, ue, d, i) /\ Count(ue, "forget", i) = Count(td, "forget", i)

(* From the lists of one process to the counts.                            *)
LEMMA QuietFrom ==
  ASSUME NEW td \in Todos, NEW p \in Procs, NEW t \in Seq(Instr),
         NEW ue, ue = [td EXCEPT ![p] = t], NEW d, NEW i, QuietHas(td[p], t, d, i)
  PROVE  QuietMoved(td, ue, d, i)
<1>1. \A role : Replaced(td, ue, p, t, role, i)
  BY CountStep
<1>20. Replaced(td, ue, p, t, "new", i)
  BY <1>1
<1>2. PICK a1, b1, c1, d1 \in Nat :
           /\ a1 = Count(ue, "new", i) /\ b1 = Has(td[p], "new", i)
           /\ c1 = Count(td, "new", i) /\ d1 = Has(t, "new", i)
           /\ a1 + b1 = c1 + d1 /\ b1 <= c1
  BY ONLY <1>20, Figures
<1>30. Replaced(td, ue, p, t, "erase", i)
  BY <1>1
<1>3. PICK a2, b2, c2, d2 \in Nat :
           /\ a2 = Count(ue, "erase", i) /\ b2 = Has(td[p], "erase", i)
           /\ c2 = Count(td, "erase", i) /\ d2 = Has(t, "erase", i)
           /\ a2 + b2 = c2 + d2 /\ b2 <= c2
  BY ONLY <1>30, Figures
<1>40. Replaced(td, ue, p, t, "forget", i)
  BY <1>1
<1>4. PICK a3, b3, c3, d3 \in Nat :
           /\ a3 = Count(ue, "forget", i) /\ b3 = Has(td[p], "forget", i)
           /\ c3 = Count(td, "forget", i) /\ d3 = Has(t, "forget", i)
           /\ a3 + b3 = c3 + d3 /\ b3 <= c3
  BY ONLY <1>40, Figures
<1>50. Replaced(td, ue, p, t, "dir", i)
  BY <1>1
<1>5. PICK a4, b4, c4, d4 \in Nat :
           /\ a4 = Count(ue, "dir", i) /\ b4 = Has(td[p], "dir", i)
           /\ c4 = Count(td, "dir", i) /\ d4 = Has(t, "dir", i)
           /\ a4 + b4 = c4 + d4 /\ b4 <= c4
  BY ONLY <1>50, Figures
<1>60. Replaced(td, ue, p, t, "back", i)
  BY <1>1
<1>6. PICK a5, b5, c5, d5 \in Nat :
           /\ a5 = Count(ue, "back", i) /\ b5 = Has(td[p], "back", i)
           /\ c5 = Count(td, "back", i) /\ d5 = Has(t, "back", i)
           /\ a5 + b5 = c5 + d5 /\ b5 <= c5
  BY ONLY <1>60, Figures
<1>70. Replaced(td, ue, p, t, "old", i)
  BY <1>1
<1>7. PICK a6, b6, c6, d6 \in Nat :
           /\ a6 = Count(ue, "old", i) /\ b6 = Has(td[p], "old", i)
           /\ c6 = Count(td, "old", i) /\ d6 = Has(t, "old", i)
           /\ a6 + b6 = c6 + d6 /\ b6 <= c6
  BY ONLY <1>70, Figures
<1>8. /\ d1 <= b1 /\ d2 <= b2 /\ d3 = b3 /\ (d4 <= b4 \/ d[i].type = "dir")
      /\ d6 <= b6 /\ d5 + d6 <= b5 + b6
  BY <1>2, <1>3, <1>4, <1>5, <1>6, <1>7 DEF QuietHas
<1>9. /\ a1 + b1 = c1 + d1 /\ a2 + b2 = c2 + d2 /\ a3 + b3 = c3 + d3
      /\ a4 + b4 = c4 + d4 /\ a5 + b5 = c5 + d5 /\ a6 + b6 = c6 + d6
  BY <1>2, <1>3, <1>4, <1>5, <1>6, <1>7
<1>10. /\ a1 <= c1 /\ a2 <= c2 /\ a3 = c3 /\ (a4 <= c4 \/ d[i].type = "dir")
       /\ a6 <= c6 /\ a5 + a6 <= c5 + c6
  BY ONLY <1>8, <1>9
<1> QED BY <1>2, <1>3, <1>4, <1>5, <1>6, <1>7, <1>10 DEF QuietCounts, QuietMoved

(* The reference count of a slot changes as what the process has.          *)
LEMMA RefStep ==
  ASSUME TypesInv, NEW p \in Procs, NEW t \in Seq(Instr),
         todo' = [todo EXCEPT ![p] = t], ftab' = ftab,
         NEW i \in Inums, RefInv(i), itab[i].ref \in Nat, itab'[i].ref \in Nat,
         itab'[i].ref + Total(todo[p], i) = itab[i].ref + Total(t, i)
  PROVE  RefInv(i)'
<1>1. todo \in Todos
  BY DEF TypesInv
<1>2. PICK ue \in Todos : ue = todo' /\ ue = [todo EXCEPT ![p] = t]
  BY <1>1 DEF Todos
<1>3. /\ Replaced(todo, ue, p, t, "new", i)
      /\ Replaced(todo, ue, p, t, "drop", i)
  BY <1>1, <1>2, CountStep
<1>20. UsesMoved(todo, ue, p, t, i)
  BY <1>1, <1>2, UsesStep
<1>4. PICK u, h, v, k \in Nat :
         /\ u = Uses(ue, i) /\ h = Holds(todo[p], i)
         /\ v = Uses(todo, i) /\ k = Holds(t, i)
         /\ u + h = v + k /\ h <= v
  BY ONLY <1>20, UsesFigures
<1>5. PICK f \in Nat : f = FilesOf(ftab, i) /\ f = FilesOf(ftab', i)
  BY FilesOfNat
<1>6. PICK a1, b1, c1, d1 \in Nat :
           /\ a1 = Count(ue, "new", i) /\ b1 = Has(todo[p], "new", i)
           /\ c1 = Count(todo, "new", i) /\ d1 = Has(t, "new", i)
           /\ a1 + b1 = c1 + d1 /\ b1 <= c1
  BY ONLY <1>3, Figures
<1>7. PICK a2, b2, c2, d2 \in Nat :
           /\ a2 = Count(ue, "drop", i) /\ b2 = Has(todo[p], "drop", i)
           /\ c2 = Count(todo, "drop", i) /\ d2 = Has(t, "drop", i)
           /\ a2 + b2 = c2 + d2 /\ b2 <= c2
  BY ONLY <1>3, Figures
<1>8. PICK m, n \in Nat : m = itab[i].ref /\ n = itab'[i].ref
  OBVIOUS
<1>9. /\ v + c1 + c2 + f = m
      /\ n + (h + b1 + b2) = m + (k + d1 + d2)
  BY <1>4, <1>5, <1>6, <1>7, <1>8 DEF RefInv, Total
<1>10. u + h = v + k /\ a1 + b1 = c1 + d1 /\ a2 + b2 = c2 + d2
  BY <1>4, <1>6, <1>7
<1>11. u + a1 + a2 + f = n
  BY ONLY <1>9, <1>10
<1>12. Uses(ue, i) + Count(ue, "new", i) + Count(ue, "drop", i)
        + FilesOf(ftab', i) = itab'[i].ref
  BY <1>4, <1>5, <1>6, <1>7, <1>8, <1>11
<1> QED BY <1>2, <1>12 DEF RefInv

(* A step that leaves the disk, locks and open files alone: what it has to *)
(* show of the process that takes it, and of each inode.                   *)
LEMMA HasStep ==
  ASSUME IInv, NEW p \in Procs, NEW t \in Seq(Instr),
         todo' = [todo EXCEPT ![p] = t],
         dino' = dino, disk' \in {disk, dino}, ftab' = ftab, fd' = fd,
         lock' = lock, panic' = "", ops' \subseteq Procs,
         calls' \in [Procs -> Nat], scan' \in 0 .. NINODES + 1,
         WellFormed(t, HeldFile(p)), GoalsOk(dino, t),
         \A j \in Inums : Locking(t, j) <=> Locking(todo[p], j),
         itab' \in [Inums -> SlotType],
         \A i \in Inums : /\ itab'[i].valid = itab[i].valid
                          /\ itab'[i].type = itab[i].type
                          /\ itab'[i].nlink = itab[i].nlink,
         \A i \in Inums :
           /\ QuietHas(todo[p], t, dino, i)
           /\ itab'[i].ref + Total(todo[p], i) = itab[i].ref + Total(t, i)
           /\ Holds(t, i) > 0 =>
                \/ Holds(todo[p], i) > 0
                \/ dino[i].type # "free" /\ Count(todo, "new", i) = 0
           /\ itab'[i].ref = itab[i].ref \/ Count(todo, "erase", i) = 0
  PROVE  IInv'
<1>0. TypesInv /\ todo \in Todos /\ todo[p] \in Seq(Instr) /\ todo' \in Todos
  BY DEF IInv, TypesInv, Todos
<1>1. ASSUME NEW i \in Inums
      PROVE  /\ QuietCounts(todo, todo', dino, i)
             /\ Count(todo', "forget", i) = Count(todo, "forget", i)
             /\ RefInv(i)'
             /\ Uses(todo', i) > 0 =>
                  \/ Uses(todo, i) + FilesOf(ftab, i) > 0
                  \/ dino[i].type # "free" /\ Count(todo, "new", i) = 0
             /\ Count(todo', "erase", i) > 0 => itab'[i].ref = itab[i].ref
  <2>1. /\ QuietCounts(todo, todo', dino, i)
        /\ Count(todo', "forget", i) = Count(todo, "forget", i)
    <3>1. QuietHas(todo[p], t, dino, i)
      OBVIOUS
    <3>2. PICK ue : ue = todo' /\ ue = [todo EXCEPT ![p] = t]
      OBVIOUS
    <3>3. QuietMoved(todo, ue, dino, i)
      BY <1>0, <3>1, <3>2, QuietFrom
    <3> QED BY <3>2, <3>3 DEF QuietMoved
  <2>2. RefInv(i)'
    <3>1. RefInv(i) /\ itab[i].ref \in Nat /\ itab'[i].ref \in Nat
      BY DEF IInv, InodesInv, InodeOk, TypesInv, SlotType
    <3>2. itab'[i].ref + Total(todo[p], i) = itab[i].ref + Total(t, i)
      OBVIOUS
    <3> QED BY <1>0, <3>1, <3>2, RefStep
  <2>30. UsesMoved(todo, todo', p, t, i)
    <3>2. PICK ue : ue = todo' /\ ue = [todo EXCEPT ![p] = t]
      OBVIOUS
    <3>3. UsesMoved(todo, ue, p, t, i)
      BY <1>0, <3>2, UsesStep
    <3> QED BY <3>2, <3>3
  <2>3. PICK u, h, v, k \in Nat :
         /\ u = Uses(todo', i) /\ h = Holds(todo[p], i)
         /\ v = Uses(todo, i) /\ k = Holds(t, i)
         /\ u + h = v + k /\ h <= v
    BY ONLY <2>30, UsesFigures
  <2>4. Holds(t, i) > 0 =>
                \/ Holds(todo[p], i) > 0
                \/ dino[i].type # "free" /\ Count(todo, "new", i) = 0
    OBVIOUS
  <2>5. FilesOf(ftab, i) \in Nat
    BY FilesOfNat
  <2>6. Uses(todo', i) > 0 =>
                  \/ Uses(todo, i) + FilesOf(ftab, i) > 0
                  \/ dino[i].type # "free" /\ Count(todo, "new", i) = 0
    BY ONLY <2>3, <2>4, <2>5
  <2>7. Count(todo', "erase", i) <= Count(todo, "erase", i)
        /\ Count(todo', "erase", i) \in Nat /\ Count(todo, "erase", i) \in Nat
    BY <2>1, <1>0, UsesNat DEF QuietCounts
  <2>8. itab'[i].ref = itab[i].ref \/ Count(todo, "erase", i) = 0
    OBVIOUS
  <2>9. Count(todo', "erase", i) > 0 => itab'[i].ref = itab[i].ref
    BY ONLY <2>7, <2>8
  <2> QED BY <2>1, <2>2, <2>6, <2>9
<1> QED BY <1>1, QuietStep

(* References in a list of instructions.                                   *)
LEMMA SumsNat ==
  ASSUME NEW s \in Seq(Instr), NEW i
  PROVE  Holds(s, i) \in Nat /\ Total(s, i) \in Nat
<1>1. \A r : Has(s, r, i) \in Nat
  BY MarksType
<1>2. PICK a, b, c, d \in Nat :
        /\ a = Has(s, "use", i) /\ b = Has(s, "back", i)
        /\ c = Has(s, "old", i) /\ d = Has(s, "dir", i)
  BY <1>1
<1>3. PICK e, f \in Nat : e = Has(s, "new", i) /\ f = Has(s, "drop", i)
  BY <1>1
<1>4. Holds(s, i) = a + b + c + d
  BY <1>2 DEF Holds
<1>5. Total(s, i) = a + b + c + d + e + f
  BY <1>3, <1>4 DEF Total
<1> QED BY <1>4, <1>5

(* References of two lists that differ in uses only.                       *)
LEMMA SameSums ==
  ASSUME NEW s \in Seq(Instr), NEW t \in Seq(Instr), NEW i, NEW n \in Nat,
         Has(t, "use", i) = Has(s, "use", i) + n,
         \A r \in Roles \ {"use"} : Has(t, r, i) = Has(s, r, i)
  PROVE  /\ Holds(t, i) = Holds(s, i) + n
         /\ Total(t, i) = Total(s, i) + n
<1>1. \A r : Has(s, r, i) \in Nat
  BY MarksType
<1>2. PICK a, b, c, d \in Nat :
        /\ a = Has(s, "use", i) /\ b = Has(s, "back", i)
        /\ c = Has(s, "old", i) /\ d = Has(s, "dir", i)
  BY <1>1
<1>3. PICK e, f \in Nat : e = Has(s, "new", i) /\ f = Has(s, "drop", i)
  BY <1>1
<1>4. Holds(s, i) = a + b + c + d
  BY <1>2 DEF Holds
<1>5. Total(s, i) = a + b + c + d + e + f
  BY <1>3, <1>4 DEF Total
<1>6. /\ Has(t, "use", i) = a + n /\ Has(t, "back", i) = b
      /\ Has(t, "old", i) = c /\ Has(t, "dir", i) = d
      /\ Has(t, "new", i) = e /\ Has(t, "drop", i) = f
  BY <1>2, <1>3 DEF Roles
<1>7. Holds(t, i) = a + n + b + c + d
  BY <1>6 DEF Holds
<1>8. Total(t, i) = a + n + b + c + d + e + f
  BY <1>6, <1>7 DEF Total
<1> QED BY ONLY <1>4, <1>5, <1>7, <1>8

(* References in a list behind ilock().                                    *)
LEMMA LockSums ==
  ASSUME NEW i \in Inums, NEW s \in Seq(Instr), NEW j
  PROVE  /\ Holds(LockT(i, s), j) = Holds(s, j)
         /\ Total(LockT(i, s), j) = Total(s, j)
<1>1. LockT(i, s) \in Seq(Instr)
  BY LockIs
<1>2. \A r \in Roles : Has(LockT(i, s), r, j) = Has(s, r, j)
  BY LockIs
<1>3. Has(s, "use", j) \in Nat
  BY MarksType
<1>4. Has(LockT(i, s), "use", j) = Has(s, "use", j) + 0
  BY <1>2, <1>3 DEF Roles
<1>5. /\ Holds(LockT(i, s), j) = Holds(s, j) + 0
      /\ Total(LockT(i, s), j) = Total(s, j) + 0
  BY <1>1, <1>2, <1>4, SameSums
<1> QED BY <1>5, SumsNat

(* References in a list behind iunlock().                                  *)
LEMMA UnlockSums ==
  ASSUME NEW i \in Inums, NEW s \in Seq(Instr), NEW j
  PROVE  /\ Holds(UnlockT(i, s), j) = Holds(s, j)
         /\ Total(UnlockT(i, s), j) = Total(s, j)
<1>1. UnlockT(i, s) \in Seq(Instr)
  BY UnlockIs
<1>2. \A r \in Roles : Has(UnlockT(i, s), r, j) = Has(s, r, j)
  BY UnlockIs
<1>3. Has(s, "use", j) \in Nat
  BY MarksType
<1>4. Has(UnlockT(i, s), "use", j) = Has(s, "use", j) + 0
  BY <1>2, <1>3 DEF Roles
<1>5. /\ Holds(UnlockT(i, s), j) = Holds(s, j) + 0
      /\ Total(UnlockT(i, s), j) = Total(s, j) + 0
  BY <1>1, <1>2, <1>4, SameSums
<1> QED BY <1>5, SumsNat

(* References in a list behind iput().                                     *)
LEMMA PutSums ==
  ASSUME NEW i \in Inums, NEW s \in Seq(Instr), NEW j
  PROVE  /\ Holds(PutT(i, s), j) = Holds(s, j) + Is(i, j)
         /\ Total(PutT(i, s), j) = Total(s, j) + Is(i, j)
<1>1. PutT(i, s) \in Seq(Instr)
  BY PutIs
<1>2. \A r \in Roles \ {"use"} : Has(PutT(i, s), r, j) = Has(s, r, j)
  BY PutIs
<1>3. Is(i, j) \in Nat
  BY DEF Is
<1>4. Has(PutT(i, s), "use", j) = Has(s, "use", j) + Is(i, j)
  BY PutIs
<1> QED BY <1>1, <1>2, <1>3, <1>4, SameSums

(* iunlockput() before other instructions.                                 *)
DoneT(i, s) == UnlockT(i, PutT(i, s))

(* iunlockput() before s: i is held, and one more reference.               *)
LEMMA DoneIs ==
  ASSUME NEW i \in Inums, NEW s \in Seq(Instr), ~Locking(s, i)
  PROVE  /\ DoneT(i, s) \in Seq(Instr)
         /\ \A j : Locking(DoneT(i, s), j) <=> j = i \/ Locking(s, j)
         /\ \A r \in Roles \ {"use"} : \A j : Has(DoneT(i, s), r, j) = Has(s, r, j)
         /\ \A F : WellFormed(s, F) => WellFormed(DoneT(i, s), F)
         /\ \A d : GoalsOk(d, s) => GoalsOk(d, DoneT(i, s))
         /\ \A j : Holds(DoneT(i, s), j) = Holds(s, j) + Is(i, j)
         /\ \A j : Total(DoneT(i, s), j) = Total(s, j) + Is(i, j)
<1>1. PICK t \in Seq(Instr) : t = PutT(i, s)
  BY PutIs
<1>2. \A j : Locking(t, j) <=> Locking(s, j)
  BY <1>1, PutIs
<1>3. \A r \in Roles \ {"use"} : \A j : Has(t, r, j) = Has(s, r, j)
  BY <1>1, PutIs
<1>4. \A F : WellFormed(s, F) => WellFormed(t, F)
  BY <1>1, PutIs
<1>5. \A d : GoalsOk(d, s) => GoalsOk(d, t)
  BY <1>1, PutIs
<1>6. Keeps(t, i)
  BY <1>1, PutIs
<1>7. PICK u \in Seq(Instr) : u = UnlockT(i, t)
  BY UnlockIs
<1>8. \A j : Locking(u, j) <=> j = i \/ Locking(s, j)
  BY <1>7, <1>2, UnlockIs
<1>9. \A r \in Roles \ {"use"} : \A j : Has(u, r, j) = Has(s, r, j)
  BY <1>7, <1>3, UnlockIs
<1>10. ASSUME NEW F, WellFormed(s, F) PROVE WellFormed(u, F)
  <2>1. OfUnlock(On("unlock", i), t, F)
    BY <1>2, <1>6, OnIs DEF OfUnlock, IpOps
  <2>2. WellFormed(t, F)
    BY <1>4, <1>10
  <2> QED BY <2>1, <2>2, <1>7, UnlockIs
<1>11. \A d : GoalsOk(d, s) => GoalsOk(d, u)
  BY <1>5, <1>7, UnlockIs
<1>12. ASSUME NEW j
       PROVE  /\ Holds(u, j) = Holds(s, j) + Is(i, j)
              /\ Total(u, j) = Total(s, j) + Is(i, j)
  <2>1. /\ Holds(t, j) = Holds(s, j) + Is(i, j)
        /\ Total(t, j) = Total(s, j) + Is(i, j)
    BY <1>1, PutSums
  <2>2. Holds(u, j) = Holds(t, j) /\ Total(u, j) = Total(t, j)
    BY <1>7, UnlockSums
  <2> QED BY <2>1, <2>2
<1>13. u = DoneT(i, s)
  BY <1>1, <1>7 DEF DoneT
<1> QED BY <1>8, <1>9, <1>10, <1>11, <1>12, <1>13, Zenon

(* The last thing to do in a call.                                         *)
LEMMA LastSums ==
  ASSUME NEW x \in Instr, x.do \in Middle, Static(x), NEW j
  PROVE  /\ x.do = "takeback" =>
              Holds(LastT(x), j) = Is(x.ip, j) /\ Total(LastT(x), j) = Is(x.ip, j)
         /\ x.do \in OldOps =>
              Holds(LastT(x), j) = Is(x.ip, j) /\ Total(LastT(x), j) = Is(x.ip, j)
         /\ x.do = "look" =>
              /\ Holds(LastT(x), j) = Is(x.ip, j) + Is(x.goal.ip, j)
              /\ Total(LastT(x), j) = Is(x.ip, j) + Is(x.goal.ip, j)
         /\ x.do \in {"linknew", "remove"} =>
              /\ Holds(LastT(x), j) = Is(x.ip, j) + Is(x.dp, j)
              /\ Total(LastT(x), j) = Is(x.ip, j) + Is(x.dp, j)
         /\ x.do \in DirOps =>
              Holds(LastT(x), j) = Is(x.dp, j) /\ Total(LastT(x), j) = Is(x.dp, j)
         /\ x.do = "fill" =>
              /\ Holds(LastT(x), j) = Is(x.dp, j)
              /\ Total(LastT(x), j) = Is(x.ip, j) + Is(x.dp, j)
<1>1. \A r : Has(LastT(x), r, j) = Weight(x, r, j)
  BY LastIs
<1>2. PICK a, b, c, d \in {0, 1} :
        /\ a = Weight(x, "use", j) /\ b = Weight(x, "back", j)
        /\ c = Weight(x, "old", j) /\ d = Weight(x, "dir", j)
  BY DEF Weight
<1>3. PICK e, f \in {0, 1} : e = Weight(x, "new", j) /\ f = Weight(x, "drop", j)
  BY DEF Weight
<1>4. Holds(LastT(x), j) = a + b + c + d
  BY <1>1, <1>2 DEF Holds
<1>5. Total(LastT(x), j) = a + b + c + d + e + f
  BY <1>1, <1>3, <1>4 DEF Total
<1>6. CASE x.do = "takeback"
  <2>1. a = 0 /\ b = Is(x.ip, j) /\ c = 0 /\ d = 0 /\ e = 0 /\ f = 0
    BY <1>2, <1>3, <1>6, Weights DEF Roles
  <2> QED BY <2>1, <1>4, <1>5, <1>6 DEF OldOps, DirOps
<1>7. CASE x.do \in OldOps
  <2>1. a = Is(x.ip, j) /\ b = 0 /\ c = 0 /\ d = 0 /\ e = 0 /\ f = 0
    BY <1>2, <1>3, <1>7, Weights DEF Roles, OldOps
  <2> QED BY <2>1, <1>4, <1>5, <1>7 DEF OldOps, DirOps
<1>8. CASE x.do = "look"
  <2>1. a = Is(x.ip, j) /\ b = 0 /\ c = Is(x.goal.ip, j) /\ d = 0 /\ e = 0
        /\ f = 0
    BY <1>2, <1>3, <1>8, Weights DEF Roles
  <2> QED BY <2>1, <1>4, <1>5, <1>8 DEF OldOps, DirOps
<1>9. CASE x.do = "linknew"
  <2>1. a = 0 /\ b = 0 /\ c = Is(x.ip, j) /\ d = Is(x.dp, j) /\ e = 0 /\ f = 0
    BY <1>2, <1>3, <1>9, Weights DEF Roles
  <2> QED BY <2>1, <1>4, <1>5, <1>9 DEF OldOps, DirOps
<1>10. CASE x.do = "remove"
  <2>1. a = Is(x.ip, j) /\ b = 0 /\ c = 0 /\ d = Is(x.dp, j) /\ e = 0 /\ f = 0
    BY <1>2, <1>3, <1>10, Weights DEF Roles
  <2> QED BY <2>1, <1>4, <1>5, <1>10 DEF OldOps, DirOps
<1>11. CASE x.do \in DirOps
  <2>1. a = 0 /\ b = 0 /\ c = 0 /\ d = Is(x.dp, j) /\ e = 0 /\ f = 0
    BY <1>2, <1>3, <1>11, Weights DEF Roles
  <2> QED BY <2>1, <1>4, <1>5, <1>11 DEF OldOps, DirOps
<1>12. CASE x.do = "fill"
  <2>1. a = 0 /\ b = 0 /\ c = 0 /\ d = Is(x.dp, j) /\ e = Is(x.ip, j) /\ f = 0
    BY <1>2, <1>3, <1>12, Weights DEF Roles
  <2> QED BY <2>1, <1>4, <1>5, <1>12 DEF OldOps, DirOps
<1> QED BY <1>6, <1>7, <1>8, <1>9, <1>10, <1>11, <1>12
        DEF Middle, OldOps, NewOps, DirOps

(* A process has locked, and the slot says what the disk says.             *)
Held(p, j) ==
  /\ lock[j] = p /\ itab[j].valid
  /\ itab[j].type = dino[j].type /\ itab[j].nlink = dino[j].nlink

(* Somebody who has an inode in one of these roles has it locked.          *)
LEMMA LockedBy ==
  ASSUME IInv, NEW role \in {"forget", "pair"}, NEW j \in Inums,
         Count(todo, role, j) > 0
  PROVE  \E q \in Procs : lock[j] = q /\ Has(todo[q], role, j) > 0
<1>1. todo \in Todos
  BY DEF IInv, TypesInv
<1>2. PICK q \in Procs : Has(todo[q], role, j) > 0
  BY <1>1, CountSome
<1>3. todo[q] \in Seq(Instr) /\ WellFormed(todo[q], HeldFile(q))
  BY <1>1 DEF Todos, IInv, TodoInv
<1>4. Locking(todo[q], j)
  BY <1>2, <1>3, RoleLocks
<1> QED BY <1>2, <1>4 DEF IInv, LockInv

(* What is locked, and is not being freed, is valid and says what the disk *)
(* says.                                                                   *)
LEMMA HeldIs ==
  ASSUME IInv, NEW p \in Procs, NEW j \in Inums, Locking(todo[p], j),
         Has(todo[p], "forget", j) = 0
  PROVE  Held(p, j) /\ Count(todo, "forget", j) = 0
<1>1. lock[j] = p /\ itab[j].valid /\ InodeOk(j)
  <2>1. lock[j] = p /\ p # Nobody
    BY InodeAssumption DEF IInv, LockInv
  <2>2. InodeOk(j)
    BY DEF IInv, InodesInv
  <2> QED BY <2>1, <2>2 DEF InodeOk, HeldInv
<1>2. todo \in Todos
  BY DEF IInv, TypesInv
<1>3. Count(todo, "forget", j) = 0
  <2>1. Count(todo, "forget", j) \in Nat
    BY <1>2, CountSome
  <2>2. ~(Count(todo, "forget", j) > 0)
    BY <1>1, LockedBy
  <2> QED BY <2>1, <2>2
<1> QED BY <1>1, <1>3 DEF Held, InodeOk, AgreeInv

(* What a process needs is in use.                                         *)
LEMMA HoldsIs ==
  ASSUME IInv, NEW p \in Procs, NEW j \in Inums, Holds(todo[p], j) > 0
  PROVE  /\ dino[j].type # "free" /\ Count(todo, "new", j) = 0
         /\ Uses(todo, j) > 0
<1>1. todo \in Todos /\ InodeOk(j)
  BY DEF IInv, TypesInv, InodesInv
<1>2. PICK t \in Seq(Instr) : t = todo[p]
  BY <1>1 DEF Todos
<1>3. PICK ue : ue = [todo EXCEPT ![p] = t]
  OBVIOUS
<1>4. UsesMoved(todo, ue, p, t, j)
  BY <1>1, <1>3, UsesStep
<1>5. PICK u, h, v, k \in Nat :
         /\ u = Uses(ue, j) /\ h = Holds(todo[p], j)
         /\ v = Uses(todo, j) /\ k = Holds(t, j)
         /\ u + h = v + k /\ h <= v
  BY ONLY <1>4, UsesFigures
<1>6. PICK f \in Nat : f = FilesOf(ftab, j)
  BY FilesOfNat
<1>7. v > 0 /\ v + f > 0
  BY <1>5, <1>6
<1> QED BY <1>1, <1>5, <1>6, <1>7 DEF InodeOk, UsedInv

(* The next instruction of a process in the middle of a call.              *)
LEMMA MiddleIs ==
  ASSUME IInv, NEW p \in Procs, NEW op \in Middle, Ready(p, op)
  PROVE  \E x \in Instr :
           /\ It(p) = x /\ x.do = op /\ todo[p] = LastT(x)
           /\ Tail(todo[p]) = EndOp /\ Static(x) /\ GoalOk(dino, x)
           /\ \A j \in Inums : Needs(x, j) => Held(p, j)
<1>1. PICK x \in Instr, s \in Seq(Instr) :
           /\ todo[p] = Cons(x, s) /\ It(p) = x /\ x.do = op /\ Tail(todo[p]) = s
           /\ Ok(x, s, HeldFile(p)) /\ WellFormed(s, HeldFile(p))
           /\ GoalOk(dino, x) /\ GoalsOk(dino, s)
  BY HeadIs DEF IInv
<1>2. s = EndOp /\ Static(x)
  BY <1>1 DEF Ok, Middle, Plain, OldOps, NewOps, DirOps
<1>3. todo[p] = LastT(x)
  BY <1>1, <1>2 DEF LastT
<1>4. \A j : Locking(todo[p], j) <=> Needs(x, j)
  BY <1>1, <1>2, <1>3, LastIs
<1>5. \A j : Has(todo[p], "forget", j) = 0
  <2>1. \A j : Has(todo[p], "forget", j) = Weight(x, "forget", j)
    BY <1>1, <1>2, <1>3, LastIs
  <2>2. \A j : Weight(x, "forget", j) = 0
    BY <1>1 DEF Weight, Plays, Middle, OldOps, NewOps, DirOps
  <2> QED BY <2>1, <2>2
<1>6. ASSUME NEW j \in Inums, Needs(x, j) PROVE Held(p, j)
  BY <1>4, <1>5, <1>6, HeldIs
<1> QED BY <1>1, <1>2, <1>3, <1>6

(* The instructions of a call as they are written in the actions.          *)
LEMMA EndSums == \A j : Holds(EndOp, j) = 0 /\ Total(EndOp, j) = 0
<1> SUFFICES ASSUME NEW j PROVE Holds(EndOp, j) = 0 /\ Total(EndOp, j) = 0
  OBVIOUS
<1>1. \A r : Has(EndOp, r, j) = 0
  BY EndIs
<1>2. Holds(EndOp, j) = 0
  BY <1>1 DEF Holds
<1> QED BY <1>1, <1>2 DEF Total

(* iunlockput() and the rest, as the actions write them.                   *)
LEMMA Written ==
  ASSUME NEW i \in Inums, NEW s \in Seq(Instr), NEW u \in Seq(Instr),
         NEW x \in Instr
  PROVE  /\ iunlockput(i) \o s = DoneT(i, s)
         /\ (iunlockput(i) \o u) \o s = DoneT(i, u \o s)
         /\ <<x>> \o EndOp = LastT(x)
         /\ <<On("lock", i), x>> \o EndOp = LockT(i, LastT(x))
         /\ iunlockput(i) \in Seq(Instr)
<1>1. PICK a \in Instr, b \in Instr, c \in Instr :
        a = On("unlock", i) /\ b = On("put", i) /\ c = On("lock", i)
  BY OnIs DEF IpOps
<1>2. \A v \in Seq(Instr) : <<a, b>> \o v = Cons(a, Cons(b, v))
  BY PairConcat
<1>3. \A v \in Seq(Instr) : iunlockput(i) \o v = DoneT(i, v)
  BY <1>1, <1>2 DEF iunlockput, DoneT, UnlockT, PutT
<1>4. iunlockput(i) \in Seq(Instr)
  BY <1>1 DEF iunlockput
<1>5. (iunlockput(i) \o u) \o s = iunlockput(i) \o (u \o s) /\ u \o s \in Seq(Instr)
  BY <1>4, ConcatAssociative, ConcatProperties
<1>6. <<x>> \o EndOp = LastT(x)
  BY DEF LastT, Cons
<1>7. <<c, x>> \o EndOp = Cons(c, Cons(x, EndOp))
  BY EndIs, PairConcat
<1> QED BY <1>1, <1>3, <1>4, <1>5, <1>6, <1>7 DEF LockT, LastT

(* The second of them by itself.                                           *)
LEMMA WrittenDone ==
  ASSUME NEW i \in Inums, NEW s \in Seq(Instr), NEW u \in Seq(Instr)
  PROVE  (iunlockput(i) \o u) \o s = DoneT(i, u \o s)
<1>1. PICK x \in Instr : x = [do |-> "end"]
  BY EndIs
<1> QED BY ONLY <1>1, i \in Inums, s \in Seq(Instr), u \in Seq(Instr), Written,
   Zenon

(* The call ends with iunlockput() of the only inode it has locked.        *)
LEMMA DoneEnd ==
  ASSUME NEW i \in Inums
  PROVE  /\ DoneT(i, EndOp) \in Seq(Instr)
         /\ \A j : Locking(DoneT(i, EndOp), j) <=> j = i
         /\ \A r \in Roles \ {"use"} : \A j : Has(DoneT(i, EndOp), r, j) = 0
         /\ \A F : WellFormed(DoneT(i, EndOp), F)
         /\ \A d : GoalsOk(d, DoneT(i, EndOp))
         /\ \A j : Holds(DoneT(i, EndOp), j) = Is(i, j)
         /\ \A j : Total(DoneT(i, EndOp), j) = Is(i, j)
<1>1. PICK s \in Seq(Instr) :
        /\ s = EndOp
        /\ \A j : ~Locking(s, j)
        /\ \A r, j : Has(s, r, j) = 0
        /\ \A F : WellFormed(s, F)
  BY EndIs, Zenon
<1>2. \A d : GoalsOk(d, s)
  BY <1>1, EndGoals
<1>3. \A j : Holds(s, j) = 0 /\ Total(s, j) = 0
  BY <1>1, EndSums
<1>4. DoneT(i, s) \in Seq(Instr)
  BY <1>1, DoneIs
<1>5. \A j : Locking(DoneT(i, s), j) <=> j = i
  BY <1>1, DoneIs
<1>6. \A r \in Roles \ {"use"} : \A j : Has(DoneT(i, s), r, j) = 0
  BY <1>1, DoneIs
<1>7. \A F : WellFormed(DoneT(i, s), F)
  BY <1>1, DoneIs
<1>8. \A d : GoalsOk(d, DoneT(i, s))
  BY <1>1, <1>2, DoneIs
<1>9. \A j : Is(i, j) \in Nat
  BY DEF Is
<1>10. ASSUME NEW j
       PROVE  Holds(DoneT(i, s), j) = Is(i, j) /\ Total(DoneT(i, s), j) = Is(i, j)
  <2>1. /\ Holds(DoneT(i, s), j) = Holds(s, j) + Is(i, j)
        /\ Total(DoneT(i, s), j) = Total(s, j) + Is(i, j)
    BY <1>1, DoneIs
  <2> QED BY <2>1, <1>3, <1>9
<1> QED BY <1>1, <1>4, <1>5, <1>6, <1>7, <1>8, <1>10, Zenon

(* t is iunlockput(i) before s.                                            *)
DoneFor(t, i, s) ==
  /\ \A j : Locking(t, j) <=> j = i \/ Locking(s, j)
  /\ \A r \in Roles \ {"use"} : \A j : Has(t, r, j) = Has(s, r, j)
  /\ \A F : WellFormed(s, F) => WellFormed(t, F)
  /\ \A d : GoalsOk(d, s) => GoalsOk(d, t)
  /\ \A j : Holds(t, j) = Holds(s, j) + Is(i, j)
  /\ \A j : Total(t, j) = Total(s, j) + Is(i, j)

(* There is such a t.                                                      *)
LEMMA DonePick ==
  ASSUME NEW i \in Inums, NEW s \in Seq(Instr), ~Locking(s, i)
  PROVE  \E t \in Seq(Instr) : t = DoneT(i, s) /\ DoneFor(t, i, s)
<1>1. PICK t \in Seq(Instr) : t = DoneT(i, s)
  BY DoneIs
<1>2. \A j : Locking(t, j) <=> j = i \/ Locking(s, j)
  BY <1>1, DoneIs
<1>3. \A r \in Roles \ {"use"} : \A j : Has(t, r, j) = Has(s, r, j)
  BY <1>1, DoneIs
<1>4. \A F : WellFormed(s, F) => WellFormed(t, F)
  BY <1>1, DoneIs
<1>5. \A d : GoalsOk(d, s) => GoalsOk(d, t)
  BY <1>1, DoneIs
<1>6. \A j : Holds(t, j) = Holds(s, j) + Is(i, j)
  BY <1>1, DoneIs
<1>7. \A j : Total(t, j) = Total(s, j) + Is(i, j)
  BY <1>1, DoneIs
<1> QED BY <1>1, <1>2, <1>3, <1>4, <1>5, <1>6, <1>7, Zenon DEF DoneFor

(* A call that gives up what it has locked and ends.                       *)
LEMMA DoneStep ==
  ASSUME IInv, NEW p \in Procs, NEW x \in Instr, x.do \in Middle, Static(x),
         todo[p] = LastT(x), NEW i \in Inums,
         \A j \in Inums : Needs(x, j) <=> j = i,
         \A j \in Inums : Holds(LastT(x), j) = Is(i, j)
                          /\ Total(LastT(x), j) = Is(i, j),
         todo' = [todo EXCEPT ![p] = DoneT(i, EndOp)],
         dino' = dino, itab' = itab, Elsewhere
  PROVE  IInv'
<1>1. PICK t \in Seq(Instr) :
         /\ t = DoneT(i, EndOp)
         /\ \A j : Locking(t, j) <=> j = i
         /\ \A r \in Roles \ {"use"} : \A j : Has(t, r, j) = 0
         /\ \A F : WellFormed(t, F)
         /\ \A d : GoalsOk(d, t)
         /\ \A j : Holds(t, j) = Is(i, j)
         /\ \A j : Total(t, j) = Is(i, j)
  BY DoneEnd, Zenon
<1>2. \A r, j : Has(LastT(x), r, j) = Weight(x, r, j)
  BY LastIs
<1>3. \A j : Locking(LastT(x), j) <=> Needs(x, j)
  BY LastIs
<1>4. ASSUME NEW j \in Inums PROVE QuietHas(todo[p], t, dino, j)
  <2>1. Weight(x, "forget", j) = 0
    BY DEF Weight, Plays, Middle, OldOps, NewOps, DirOps
  <2>2. \A r : Has(todo[p], r, j) \in {0, 1}
    BY <1>2 DEF Weight
  <2>3. PICK b, o \in {0, 1} : b = Has(todo[p], "back", j) /\ o = Has(todo[p], "old", j)
    BY <2>2
  <2>4. b + o >= 0
    OBVIOUS
  <2>5. \A r \in {"new", "erase", "forget", "dir", "old", "back"} : Has(t, r, j) = 0
    BY <1>1 DEF Roles
  <2> QED BY <1>2, <2>1, <2>2, <2>3, <2>4, <2>5 DEF QuietHas
<1>5. \A j \in Inums : Locking(t, j) <=> Locking(todo[p], j)
  BY <1>1, <1>3
<1>6. ASSUME NEW j \in Inums
      PROVE  /\ itab'[j].ref + Total(todo[p], j) = itab[j].ref + Total(t, j)
             /\ Holds(t, j) > 0 => Holds(todo[p], j) > 0
             /\ itab'[j].ref = itab[j].ref
  <2>1. Total(todo[p], j) = Total(t, j) /\ Holds(todo[p], j) = Holds(t, j)
    BY <1>1
  <2> QED BY <2>1
<1>7. /\ itab \in [Inums -> SlotType] /\ ops \subseteq Procs
      /\ calls \in [Procs -> Nat] /\ scan \in 0 .. NINODES + 1 /\ panic = ""
  BY DEF IInv, TypesInv, NoPanic
<1>8. /\ disk' = disk /\ ops' = ops /\ lock' = lock /\ ftab' = ftab /\ fd' = fd
      /\ calls' = calls /\ scan' = scan /\ panic' = panic
  BY DEF Elsewhere
<1> QED BY <1>1, <1>4, <1>5, <1>6, <1>7, <1>8, HasStep

-----------------------------------------------------------------------------
(* Steps of namex() and of calls that only look and take references.       *)

(* To lock an inode and do something with it, the last thing in a call.    *)
LEMMA LockLast ==
  ASSUME NEW i \in Inums, NEW g \in Instr, g.do \in Middle \ {"remove", "fill"},
         Static(g), \A j \in Inums : Needs(g, j) <=> j = i,
         \E r \in {"use", "back", "old", "dir", "new"} : Plays(g, r, i)
  PROVE  /\ LockT(i, LastT(g)) \in Seq(Instr)
         /\ \A j \in Inums : ~Locking(LockT(i, LastT(g)), j)
         /\ \A r \in Roles : \A j : Has(LockT(i, LastT(g)), r, j) = Weight(g, r, j)
         /\ \A F : WellFormed(LockT(i, LastT(g)), F)
         /\ \A d : GoalOk(d, g) => GoalsOk(d, LockT(i, LastT(g)))
         /\ \A j : Holds(LockT(i, LastT(g)), j) = Holds(LastT(g), j)
         /\ \A j : Total(LockT(i, LastT(g)), j) = Total(LastT(g), j)
<1>1. PICK s \in Seq(Instr) :
         /\ s = LastT(g)
         /\ \A j : Locking(s, j) <=> Needs(g, j)
         /\ \A r, j : Has(s, r, j) = Weight(g, r, j)
         /\ \A F : WellFormed(s, F)
         /\ \A d : GoalOk(d, g) => GoalsOk(d, s)
  BY LastIs, Zenon
<1>2. Keeps(s, i)
  BY <1>1, LastIs
<1>3. \A d : GoalOk(d, g) => GoalsOk(d, s)
  BY <1>1
<1>4. OfLock(On("lock", i), s)
  <2>1. On("lock", i).ip = i
    BY DEF On
  <2>2. Has(s, "forget", i) = 0 /\ Has(s, "pair", i) = 0
    BY <1>1 DEF Weight, Plays, Middle, OldOps, NewOps, DirOps
  <2> QED BY <2>1, <2>2, <1>1, <1>2 DEF OfLock
<1>5. LockT(i, s) \in Seq(Instr)
  BY LockIs
<1>6. \A j \in Inums : ~Locking(LockT(i, s), j)
  BY <1>1, LockIs
<1>7. ASSUME NEW r \in Roles, NEW j
      PROVE  Has(LockT(i, s), r, j) = Weight(g, r, j)
  <2>1. Has(LockT(i, s), r, j) = Has(s, r, j)
    BY LockIs
  <2> QED BY <2>1, <1>1
<1>8. \A F : WellFormed(LockT(i, s), F)
  BY <1>1, <1>4, LockIs
<1>9. \A d : GoalOk(d, g) => GoalsOk(d, LockT(i, s))
  BY <1>3, LockIs
<1>10. \A j : Holds(LockT(i, s), j) = Holds(s, j)
              /\ Total(LockT(i, s), j) = Total(s, j)
  BY LockSums
<1> QED BY <1>1, <1>5, <1>6, <1>7, <1>8, <1>9, <1>10, Zenon

(* t locks what g needs, and does g.                                       *)
LockFor(t, g) ==
  /\ \A j \in Inums : ~Locking(t, j)
  /\ \A r \in Roles : \A j : Has(t, r, j) = Weight(g, r, j)
  /\ \A F : WellFormed(t, F)
  /\ \A d : GoalOk(d, g) => GoalsOk(d, t)
  /\ \A j : Holds(t, j) = Holds(LastT(g), j)
  /\ \A j : Total(t, j) = Total(LastT(g), j)

(* There is such a t.                                                      *)
LEMMA LockPick ==
  ASSUME NEW i \in Inums, NEW g \in Instr, g.do \in Middle \ {"remove", "fill"},
         Static(g), \A j \in Inums : Needs(g, j) <=> j = i,
         \E r \in {"use", "back", "old", "dir", "new"} : Plays(g, r, i)
  PROVE  \E t \in Seq(Instr) : t = LockT(i, LastT(g)) /\ LockFor(t, g)
<1>1. /\ LockT(i, LastT(g)) \in Seq(Instr)
      /\ \A j \in Inums : ~Locking(LockT(i, LastT(g)), j)
      /\ \A r \in Roles : \A j : Has(LockT(i, LastT(g)), r, j) = Weight(g, r, j)
      /\ \A F : WellFormed(LockT(i, LastT(g)), F)
      /\ \A d : GoalOk(d, g) => GoalsOk(d, LockT(i, LastT(g)))
      /\ \A j : Holds(LockT(i, LastT(g)), j) = Holds(LastT(g), j)
      /\ \A j : Total(LockT(i, LastT(g)), j) = Total(LastT(g), j)
  BY LockLast, Zenon
<1> QED BY <1>1, Zenon DEF LockFor

(* iget() of the slot of an inode that has a link.                         *)
LEMMA IgetIs ==
  ASSUME TypesInv, NEW i \in Inums, iget(i)
  PROVE  /\ itab' \in [Inums -> SlotType]
         /\ \A j \in Inums : /\ itab'[j].valid = itab[j].valid
                             /\ itab'[j].type = itab[j].type
                             /\ itab'[j].nlink = itab[j].nlink
                             /\ itab'[j].ref = itab[j].ref + Is(i, j)
                             /\ itab[j].ref \in Nat
<1>1. itab[i] \in SlotType /\ itab[i].ref + 1 \in Nat
  BY DEF TypesInv, SlotType
<1>2. itab' = [itab EXCEPT ![i] = [itab[i] EXCEPT !.ref = itab[i].ref + 1]]
  BY DEF iget
<1>3. [itab[i] EXCEPT !.ref = itab[i].ref + 1] \in SlotType
  BY <1>1 DEF SlotType
<1>4. itab' \in [Inums -> SlotType]
  BY <1>2, <1>3 DEF TypesInv
<1>5. ASSUME NEW j \in Inums
      PROVE  /\ itab'[j].valid = itab[j].valid
             /\ itab'[j].type = itab[j].type
             /\ itab'[j].nlink = itab[j].nlink
             /\ itab'[j].ref = itab[j].ref + Is(i, j)
             /\ itab[j].ref \in Nat
  <2>1. itab[j] \in SlotType /\ itab[j].ref \in Nat
    BY DEF TypesInv, SlotType
  <2>2. CASE j = i
    BY <2>1, <2>2, <1>1, <1>2 DEF TypesInv, SlotType, Is
  <2>3. CASE j # i
    BY <2>1, <2>3, <1>2 DEF TypesInv, Is
  <2> QED BY <2>2, <2>3
<1> QED BY <1>4, <1>5

(* An inode with a link is in use, not new and not being freed.            *)
LEMMA LinkedIs ==
  ASSUME IInv, NEW i \in Inums, dino[i].nlink > 0
  PROVE  /\ dino[i].type # "free" /\ Count(todo, "new", i) = 0
         /\ Count(todo, "erase", i) = 0
<1>1. dino[i].type # "free"
  BY DEF IInv, DiskInv, Tree, OnlyDirs
<1>2. InodeOk(i) /\ todo \in Todos
  BY DEF IInv, InodesInv, TypesInv
<1>3. Count(todo, "new", i) \in Nat /\ Count(todo, "erase", i) \in Nat
  BY <1>2, CountSome
<1>4. ~(Count(todo, "new", i) > 0) /\ ~(Count(todo, "erase", i) > 0)
  BY <1>2 DEF InodeOk, NewInv, EraseInv
<1> QED BY <1>1, <1>3, <1>4

(* An entry that some path may go along leads to an inode with a link.     *)
LEMMA RootLinked ==
  ASSUME NEW d, Tree(d) PROVE d[ROOTINO].nlink > 0
<1>1. ROOTINO \in Inums /\ ".." \in Entries
  BY InodeAssumption DEF ROOTINO, Inums, Entries
<1>2. <<ROOTINO, "..">> \in Links(d, ROOTINO)
  BY <1>1 DEF Links, Named, Tree, RootIsDir
<1>3. Cardinality(Links(d, ROOTINO)) # 0
  BY <1>2, LinksFinite, FS_EmptySet
<1>4. Cardinality(Links(d, ROOTINO)) \in Nat /\ d[ROOTINO].nlink \in Nat
  BY <1>1, LinksFinite DEF Tree, DiskType
<1> QED BY <1>1, <1>3, <1>4 DEF Tree, EnoughLinks

(* An entry of a directory leads to an inode with a link; ".." does, too,  *)
(* where paths have it, because it is the root.                            *)
LEMMA EntryLinked ==
  ASSUME NEW d, Tree(d), Flat(d), NEW j \in Inums, NEW e \in Entries,
         e = ".." => Ups, NEW i, i = d[j].ents[e], i # 0
  PROVE  i \in Inums /\ d[i].nlink > 0
<1>1. d[j].ents[e] \in 0 .. NINODES
  BY DEF Tree, DiskType
<1>2. i \in Inums
  BY <1>1 DEF Inums
<1>3. CASE e \in Names
  <2>1. <<j, e>> \in Links(d, i)
    BY <1>3 DEF Links
  <2>2. Cardinality(Links(d, i)) # 0
    BY <2>1, LinksFinite, FS_EmptySet
  <2>3. Cardinality(Links(d, i)) \in Nat /\ d[i].nlink \in Nat
    BY <1>2, LinksFinite DEF Tree, DiskType
  <2> QED BY <1>2, <2>2, <2>3 DEF Tree, EnoughLinks
<1>4. CASE e = ".."
  <2>1. i = ROOTINO
    BY <1>4 DEF Flat
  <2> QED BY <1>2, <2>1, RootLinked
<1> QED BY <1>3, <1>4 DEF Entries

(* The last element of a path is a name a directory can have.              *)
LEMMA NameIs ==
  ASSUME NEW call \in Calls
  PROVE  NameOf(call) \in Entries /\ (NameOf(call) = ".." => Ups)
<1>1. PICK path : path \in Paths(call) /\ NameOf(call) = path[Len(path)]
  BY DEF Paths, NameOf
<1>2. path \in Seq(Entries) /\ path # <<>>
  BY <1>1, CallsAssumption
<1>3. Len(path) \in 1 .. Len(path) /\ DOMAIN path = 1 .. Len(path)
  BY <1>2, EmptySeq, LenProperties
<1>4. path[Len(path)] \in Entries
  BY <1>2, <1>3, ElementOfSeq
<1>5. path[Len(path)] = ".." => Ups
  BY <1>1, <1>3 DEF Ups
<1> QED BY <1>1, <1>4, <1>5

(* A step of a call that leaves the disk alone and may take references.    *)
LEMMA CallStep ==
  ASSUME IInv, NEW p \in Procs, NEW x \in Instr, x.do \in Middle, Static(x),
         todo[p] = LastT(x), NEW t \in Seq(Instr),
         todo' = [todo EXCEPT ![p] = t],
         dino' = dino, Elsewhere, WellFormed(t, HeldFile(p)), GoalsOk(dino, t),
         \A j \in Inums : Locking(t, j) <=> Needs(x, j),
         itab' \in [Inums -> SlotType],
         \A j \in Inums : /\ itab'[j].valid = itab[j].valid
                          /\ itab'[j].type = itab[j].type
                          /\ itab'[j].nlink = itab[j].nlink,
         \A j \in Inums :
           /\ QuietHas(LastT(x), t, dino, j)
           /\ itab'[j].ref + Total(LastT(x), j) = itab[j].ref + Total(t, j)
           /\ Holds(t, j) > 0 =>
                \/ Holds(LastT(x), j) > 0
                \/ dino[j].type # "free" /\ Count(todo, "new", j) = 0
           /\ itab'[j].ref = itab[j].ref \/ Count(todo, "erase", j) = 0
  PROVE  IInv'
<1>1. \A j \in Inums : Locking(t, j) <=> Locking(todo[p], j)
  BY LastIs
<1>2. /\ itab \in [Inums -> SlotType] /\ ops \subseteq Procs
      /\ calls \in [Procs -> Nat] /\ scan \in 0 .. NINODES + 1 /\ panic = ""
  BY DEF IInv, TypesInv, NoPanic
<1>3. /\ disk' = disk /\ ops' = ops /\ lock' = lock /\ ftab' = ftab /\ fd' = fd
      /\ calls' = calls /\ scan' = scan /\ panic' = panic
  BY DEF Elsewhere
<1> QED BY <1>1, <1>2, <1>3, HasStep

(* Counts of what is done after the weights of what was to do.             *)
LEMMA QuietWeights ==
  ASSUME NEW x \in Instr, x.do \in Middle, Static(x), NEW t \in Seq(Instr),
         NEW d, NEW j,
         Has(t, "new", j) <= Weight(x, "new", j),
         Has(t, "erase", j) = 0, Has(t, "forget", j) = 0,
         Has(t, "dir", j) <= Weight(x, "dir", j) \/ d[j].type = "dir",
         Has(t, "old", j) <= Weight(x, "old", j),
         Has(t, "back", j) + Has(t, "old", j)
           <= Weight(x, "back", j) + Weight(x, "old", j)
  PROVE  QuietHas(LastT(x), t, d, j)
<1>1. \A r : Has(LastT(x), r, j) = Weight(x, r, j)
  BY LastIs
<1>2. Weight(x, "erase", j) = 0 /\ Weight(x, "forget", j) = 0
  BY DEF Weight, Plays, Middle, OldOps, NewOps, DirOps
<1> QED BY <1>1, <1>2 DEF QuietHas

(* namex() finds nothing (fs.c:686, 695).                                  *)
LEMMA LookFailsInv ==
  ASSUME IInv, NEW p \in Procs, LookFails(p) PROVE IInv'
<1>1. Ready(p, "look")
  BY DEF LookFails
<1>2. PICK x \in Instr :
           /\ It(p) = x /\ x.do = "look" /\ todo[p] = LastT(x)
           /\ Tail(todo[p]) = EndOp /\ Static(x) /\ GoalOk(dino, x)
           /\ \A j \in Inums : Needs(x, j) => Held(p, j)
  BY <1>1, MiddleIs DEF Middle
<1>3. /\ x \in Looks /\ x.ip \in Inums /\ x.goal \in Goals
      /\ x.goal.do = "linknew" => x.goal.ip \in Inums
      /\ x.goal.do # "linknew" => x.goal.ip = 0
  BY <1>2, InstrFields, LookFields
<1>4. PICK i \in Inums : i = x.ip
  BY <1>3
<1>5. \A j \in Inums : Needs(x, j) <=> j = i
  BY <1>2, <1>4 DEF Needs, NewOps, DirOps
<1>6. /\ dino' = dino /\ itab' = itab /\ Elsewhere
      /\ todo' = [todo EXCEPT ![p] = (iunlockput(i) \o Failed(x.goal)) \o EndOp]
  BY <1>2, <1>4 DEF LookFails, Then
<1>7. \A j \in Inums : /\ Holds(LastT(x), j) = Is(i, j) + Is(x.goal.ip, j)
                       /\ Total(LastT(x), j) = Is(i, j) + Is(x.goal.ip, j)
  BY <1>2, <1>4, LastSums DEF Middle
<1>8. CASE x.goal.do # "linknew"
  <2>1. (iunlockput(i) \o <<>>) \o EndOp = DoneT(i, <<>> \o EndOp)
    BY EmptyIs, EndIs, <1>2, Written, ZenonT(60)
  <2>2. <<>> \o EndOp = EndOp
    BY EndIs, ConcatEmptySeq
  <2>3. todo' = [todo EXCEPT ![p] = DoneT(i, EndOp)]
    BY <1>6, <1>8, <2>1, <2>2 DEF Failed
  <2>4. \A j \in Inums : Holds(LastT(x), j) = Is(i, j)
                         /\ Total(LastT(x), j) = Is(i, j)
    BY <1>3, <1>7, <1>8 DEF Is, Inums
  <2>5. x.do \in Middle
    BY <1>2 DEF Middle
  <2>6. Static(x) /\ todo[p] = LastT(x)
    BY <1>2
  <2>7. dino' = dino /\ itab' = itab /\ Elsewhere
    BY <1>6
  <2>8. todo' = [todo EXCEPT ![p] = DoneT(i, EndOp)]
    BY <2>3
  <2>9. IInv /\ p \in Procs /\ x \in Instr /\ i \in Inums
    OBVIOUS
  <2> QED BY ONLY <1>5, <2>4, <2>5, <2>6, <2>7, <2>8, <2>9, DoneStep, Zenon
<1>9. CASE x.goal.do = "linknew"
  <2>1. PICK o \in Inums, g \in Instr :
          /\ o = x.goal.ip /\ g = On("takeback", o) /\ g.do = "takeback"
          /\ g.ip = o
    BY <1>3, <1>9, OnIs DEF IpOps
  <2>2. PICK u \in Seq(Instr) : u = LockT(o, LastT(g)) /\ LockFor(u, g)
    <3>1. Static(g) /\ g.do \in Middle \ {"remove", "fill"}
      BY <2>1 DEF Static, Middle
    <3>2. \A j \in Inums : Needs(g, j) <=> j = o
      BY <2>1 DEF Needs, NewOps, DirOps
    <3>3. Plays(g, "back", o)
      BY <2>1 DEF Plays
    <3> QED BY <3>1, <3>2, <3>3, LockPick
  <2>3. Undo(o) \o EndOp = u
    BY <2>1, <2>2, Written DEF Undo
  <2>4. Undo(o) \in Seq(Instr)
    BY <2>1, OnIs DEF Undo, IpOps
  <2>14. PICK v \in Seq(Instr), e \in Seq(Instr) : v = Undo(o) /\ e = EndOp
    BY <2>4, EndIs
  <2>15. (iunlockput(i) \o v) \o e = DoneT(i, v \o e)
    BY Written, ZenonT(60)
  <2>5. (iunlockput(i) \o Undo(o)) \o EndOp = DoneT(i, u)
    BY <2>3, <2>14, <2>15
  <2>6. PICK t \in Seq(Instr) : t = DoneT(i, u) /\ DoneFor(t, i, u)
    <3>1. ~Locking(u, i)
      BY <2>2 DEF LockFor
    <3> QED BY <3>1, DonePick
  <2>7. todo' = [todo EXCEPT ![p] = t]
    BY <1>6, <1>9, <2>1, <2>5, <2>6 DEF Failed
  <2>8. \A j \in Inums : Locking(t, j) <=> Needs(x, j)
    BY <2>2, <2>6, <1>5 DEF DoneFor, LockFor
  <2>9. WellFormed(t, HeldFile(p)) /\ GoalsOk(dino, t)
    <3>1. \A d : GoalOk(d, g)
      BY <2>1 DEF GoalOk
    <3> QED BY <2>2, <2>6, <3>1 DEF DoneFor, LockFor
  <2>10. ASSUME NEW j \in Inums
         PROVE  /\ Holds(t, j) = Holds(LastT(x), j)
                /\ Total(t, j) = Total(LastT(x), j)
    <3>1. Holds(u, j) = Is(o, j) /\ Total(u, j) = Is(o, j)
      BY <2>1, <2>2, LastSums DEF Middle, Static, LockFor
    <3>2. Is(o, j) \in Nat /\ Is(i, j) \in Nat
      BY DEF Is
    <3> QED BY <3>1, <3>2, <2>1, <2>6, <1>7 DEF DoneFor
  <2>11. ASSUME NEW j \in Inums PROVE QuietHas(LastT(x), t, dino, j)
    <3>1. /\ Weight(g, "back", j) = Is(o, j)
          /\ \A r \in Roles \ {"back"} : Weight(g, r, j) = 0
      BY <2>1, Weights
    <3>2. /\ Weight(x, "old", j) = Is(o, j)
          /\ \A r \in Roles \ {"use", "old"} : Weight(x, r, j) = 0
      BY <1>2, <2>1, Weights
    <3>3. \A r \in Roles \ {"use"} : Has(t, r, j) = Weight(g, r, j)
      BY <2>2, <2>6 DEF DoneFor, LockFor
    <3>4. Is(o, j) \in {0, 1}
      BY DEF Is
    <3>5. /\ Has(t, "new", j) = 0 /\ Weight(x, "new", j) = 0
          /\ Has(t, "erase", j) = 0 /\ Has(t, "forget", j) = 0
          /\ Has(t, "dir", j) = 0 /\ Weight(x, "dir", j) = 0
          /\ Has(t, "old", j) = 0 /\ Weight(x, "old", j) = Is(o, j)
          /\ Has(t, "back", j) = Is(o, j) /\ Weight(x, "back", j) = 0
      BY <3>1, <3>2, <3>3 DEF Roles
    <3> QED BY <1>2, <3>4, <3>5, QuietWeights DEF Middle
  <2>12. itab \in [Inums -> SlotType]
    BY DEF IInv, TypesInv
  <2>13. \A j \in Inums :
           /\ QuietHas(LastT(x), t, dino, j)
           /\ itab'[j].ref + Total(LastT(x), j) = itab[j].ref + Total(t, j)
           /\ Holds(t, j) > 0 => Holds(LastT(x), j) > 0
           /\ itab'[j].ref = itab[j].ref
    BY <1>6, <2>10, <2>11
  <2> QED BY <1>2, <1>6, <2>7, <2>8, <2>9, <2>12, <2>13, CallStep DEF Middle
<1> QED BY <1>8, <1>9

(* A goal of a walk, reached.                                              *)
LEMMA GoalAt ==
  ASSUME NEW h \in Goals, h.do \in Parents, NEW i \in Inums
  PROVE  \E g \in Instr :
           /\ g = [h EXCEPT !.dp = i]
           /\ g.do = h.do /\ g.dp = i /\ g.ip = h.ip /\ g.call = h.call
<1>1. CASE h \in GoalsOf({"open", "linkold", "unlink", "create"}, {0}, {0})
  <2>1. [h EXCEPT !.dp = i] \in GoalsOf(DirOps, Inums, {0})
    BY <1>1 DEF GoalsOf, DirOps, Parents
  <2> QED BY <1>1, <2>1 DEF Instr, GoalsOf
<1>2. CASE h \in GoalsOf({"linknew"}, {0}, Inums)
  <2>1. [h EXCEPT !.dp = i] \in GoalsOf(NewOps, Inums, Inums)
    BY <1>2 DEF GoalsOf, NewOps
  <2> QED BY <1>2, <2>1 DEF Instr, GoalsOf
<1> QED BY <1>1, <1>2 DEF Goals

(* The goal of a walk to the last element, reached.                        *)
LEMMA GoalOn ==
  ASSUME NEW h \in Goals, h.do \notin Parents, NEW n \in Inums
  PROVE  \E g \in Instr :
           /\ g = [h EXCEPT !.ip = n]
           /\ g.do = h.do /\ g.dp = 0 /\ g.ip = n /\ g.call = h.call
           /\ h.ip = 0 /\ h.do \in {"open", "linkold"}
<1>1. CASE h \in GoalsOf({"open", "linkold", "unlink", "create"}, {0}, {0})
  <2>1. [h EXCEPT !.ip = n] \in GoalsOf(OldOps, {0}, Inums)
    BY <1>1 DEF GoalsOf, OldOps, Parents
  <2> QED BY <1>1, <2>1 DEF Instr, GoalsOf, Parents
<1>2. CASE h \in GoalsOf({"linknew"}, {0}, Inums)
  BY <1>2 DEF GoalsOf, Parents
<1> QED BY <1>1, <1>2 DEF Goals

(* namex() stops at the parent (fs.c:690).                                 *)
LEMMA LookParentInv ==
  ASSUME IInv, NEW p \in Procs, LookParent(p) PROVE IInv'
<1>1. Ready(p, "look")
  BY DEF LookParent
<1>2. PICK x \in Instr :
           /\ It(p) = x /\ x.do = "look" /\ todo[p] = LastT(x)
           /\ Tail(todo[p]) = EndOp /\ Static(x) /\ GoalOk(dino, x)
           /\ \A j \in Inums : Needs(x, j) => Held(p, j)
  BY <1>1, MiddleIs DEF Middle
<1>3. /\ x \in Looks /\ x.ip \in Inums /\ x.goal \in Goals /\ x.parent \in BOOLEAN
      /\ x.goal.do = "linknew" => x.goal.ip \in Inums
      /\ x.goal.do # "linknew" => x.goal.ip = 0
  BY <1>2, InstrFields, LookFields
<1>4. PICK i \in Inums : i = x.ip
  BY <1>3
<1>5. \A j \in Inums : Needs(x, j) <=> j = i
  BY <1>2, <1>4 DEF Needs, NewOps, DirOps
<1>6. x.parent /\ Len(x.path) = 1 /\ itab[i].type = "dir"
  BY <1>2, <1>4 DEF LookParent, AtParent, Last
<1>7. x.goal.do \in Parents
  BY <1>2, <1>6 DEF Static
<1>8. PICK g \in Instr :
           /\ g = [x.goal EXCEPT !.dp = i]
           /\ g.do = x.goal.do /\ g.dp = i /\ g.ip = x.goal.ip
           /\ g.call = x.goal.call
  BY <1>3, <1>7, GoalAt
<1>9. /\ dino' = dino /\ itab' = itab /\ Elsewhere
      /\ todo' = [todo EXCEPT ![p] = <<On("unlock", i), On("lock", i), g>> \o EndOp]
  BY <1>2, <1>4, <1>8 DEF LookParent, Then
<1>10. PICK u \in Seq(Instr) : u = LockT(i, LastT(g)) /\ LockFor(u, g)
  <2>1. Static(g)
    BY <1>2, <1>4, <1>6, <1>7, <1>8 DEF Static, Parents
  <2>2. g.do \in Middle \ {"remove", "fill"}
    BY <1>7, <1>8 DEF Middle, Parents, NewOps, DirOps
  <2>3. \A j \in Inums : Needs(g, j) <=> j = i
    BY <1>7, <1>8 DEF Needs, NewOps, DirOps, Parents
  <2>4. Plays(g, "dir", i)
    BY <1>7, <1>8 DEF Plays, NewOps, DirOps, Parents
  <2> QED BY <2>1, <2>2, <2>3, <2>4, LockPick
<1>11. PICK t \in Seq(Instr) : t = UnlockT(i, u)
  BY UnlockIs
<1>12. <<On("unlock", i), On("lock", i), g>> \o EndOp = t
  <2>1. PICK a \in Instr, b \in Instr : a = On("unlock", i) /\ b = On("lock", i)
    BY OnIs DEF IpOps
  <2>2. <<a, b, g>> \o EndOp = Cons(a, Cons(b, Cons(g, EndOp)))
    BY EndIs, TripleConcat
  <2> QED BY <2>1, <2>2, <1>10, <1>11 DEF UnlockT, LockT, LastT
<1>13. \A j \in Inums : Locking(t, j) <=> Needs(x, j)
  BY <1>5, <1>10, <1>11, UnlockIs DEF LockFor
<1>14. WellFormed(t, HeldFile(p)) /\ GoalsOk(dino, t)
  <2>0. GoalOk(dino, g)
    <3>1. Held(p, i)
      BY <1>2, <1>5
    <3>2. dino[i].ents[".."] # 0
      BY <1>2, <1>4, <1>6, <3>1 DEF GoalOk, Held
    <3> QED BY <1>7, <1>8, <3>2 DEF GoalOk, Parents
  <2>1. WellFormed(u, HeldFile(p)) /\ GoalsOk(dino, u) /\ ~Locking(u, i)
    BY <1>10, <2>0 DEF LockFor
  <2>2. Keeps(u, i)
    <3>1. Has(u, "dir", i) = 1
      BY <1>7, <1>8, <1>10 DEF LockFor, Weight, Plays, Roles, NewOps, DirOps,
         Parents
    <3> QED BY <3>1 DEF Keeps
  <2>3. OfUnlock(On("unlock", i), u, HeldFile(p))
    BY <2>1, <2>2 DEF OfUnlock, On
  <2> QED BY <2>1, <2>3, <1>11, UnlockIs
<1>15. ASSUME NEW j \in Inums
       PROVE  /\ Holds(t, j) = Holds(LastT(x), j)
              /\ Total(t, j) = Total(LastT(x), j)
  <2>1. Holds(t, j) = Holds(LastT(g), j) /\ Total(t, j) = Total(LastT(g), j)
    BY <1>10, <1>11, UnlockSums DEF LockFor
  <2>2. /\ Holds(LastT(x), j) = Is(i, j) + Is(x.goal.ip, j)
        /\ Total(LastT(x), j) = Is(i, j) + Is(x.goal.ip, j)
    BY <1>2, <1>4, LastSums DEF Middle
  <2>3. Static(g)
    BY <1>2, <1>4, <1>6, <1>7, <1>8 DEF Static, Parents
  <2>4. /\ Holds(LastT(g), j) = Is(i, j) + Is(x.goal.ip, j)
        /\ Total(LastT(g), j) = Is(i, j) + Is(x.goal.ip, j)
    <3>0. g.do \in Middle /\ g \in Instr
      BY <1>7, <1>8 DEF Middle, Parents, NewOps, DirOps
    <3>3. Is(i, j) \in Nat /\ Is(x.goal.ip, j) \in Nat
      BY DEF Is
    <3>4. /\ g.do = "linknew" =>
                /\ Holds(LastT(g), j) = Is(g.ip, j) + Is(g.dp, j)
                /\ Total(LastT(g), j) = Is(g.ip, j) + Is(g.dp, j)
          /\ g.do \in DirOps =>
                /\ Holds(LastT(g), j) = Is(g.dp, j)
                /\ Total(LastT(g), j) = Is(g.dp, j)
      <4>1. \/ g.do = "linknew" /\ g.do \notin DirOps
            \/ g.do \in DirOps /\ g.do # "linknew"
        BY <1>7, <1>8 DEF Parents, DirOps
      <4> QED BY ONLY <4>1, <3>0, <2>3, LastSums, Zenon
    <3>5. g.ip = x.goal.ip /\ g.dp = i
      BY <1>8
    <3>1. CASE g.do = "linknew"
      BY ONLY <3>1, <3>3, <3>4, <3>5
    <3>2. CASE g.do \in DirOps
      <4>1. x.goal.ip = 0
        BY <3>2, <1>3, <1>8 DEF DirOps
      <4>2. Is(x.goal.ip, j) = 0
        BY <4>1 DEF Is, Inums
      <4> QED BY ONLY <3>2, <4>2, <3>3, <3>4, <3>5
    <3> QED BY <3>1, <3>2, <1>7, <1>8 DEF Parents, DirOps
  <2> QED BY <2>1, <2>2, <2>4
<1>16. ASSUME NEW j \in Inums PROVE QuietHas(LastT(x), t, dino, j)
  <2>1. \A r \in Roles : Has(t, r, j) = Weight(g, r, j)
    BY <1>10, <1>11, UnlockIs DEF LockFor
  <2>2. Weight(x, "old", j) = Is(x.goal.ip, j) /\ Weight(x, "back", j) = 0
        /\ Weight(x, "new", j) = 0
    BY <1>2, Weights DEF Roles
  <2>3. /\ Weight(g, "new", j) = 0 /\ Weight(g, "erase", j) = 0
        /\ Weight(g, "forget", j) = 0 /\ Weight(g, "back", j) = 0
    BY <1>7, <1>8 DEF Weight, Plays, Parents
  <2>4. Weight(g, "old", j) = Is(x.goal.ip, j) \/ Weight(g, "old", j) = 0
    BY <1>7, <1>8 DEF Weight, Plays, Is, Parents
  <2>5. Weight(g, "dir", j) = 0 \/ dino[j].type = "dir"
    <3>1. Held(p, i)
      BY <1>2, <1>5
    <3>2. dino[i].type = "dir"
      BY <3>1, <1>6 DEF Held
    <3> QED BY <3>2, <1>8 DEF Weight, Plays
  <2>6. Is(x.goal.ip, j) \in {0, 1} /\ Weight(x, "dir", j) \in {0, 1}
    BY DEF Is, Weight
  <2> QED BY <1>2, <2>1, <2>2, <2>3, <2>4, <2>5, <2>6, QuietWeights DEF Middle,
     Roles
<1>17. \A j \in Inums :
           /\ QuietHas(LastT(x), t, dino, j)
           /\ itab'[j].ref + Total(LastT(x), j) = itab[j].ref + Total(t, j)
           /\ Holds(t, j) > 0 => Holds(LastT(x), j) > 0
           /\ itab'[j].ref = itab[j].ref
  BY <1>9, <1>15, <1>16
<1>18. itab \in [Inums -> SlotType]
  BY DEF IInv, TypesInv
<1>19. x.do \in Middle
  BY <1>2 DEF Middle
<1> QED BY <1>2, <1>9, <1>12, <1>13, <1>14, <1>17, <1>18, <1>19, CallStep

(* A step of a call that takes a reference to an inode that has a link.    *)
LEMMA GetStep ==
  ASSUME IInv, NEW p \in Procs, NEW x \in Instr, x.do \in Middle, Static(x),
         todo[p] = LastT(x), NEW t \in Seq(Instr),
         todo' = [todo EXCEPT ![p] = t],
         dino' = dino, Elsewhere, WellFormed(t, HeldFile(p)), GoalsOk(dino, t),
         \A j \in Inums : Locking(t, j) <=> Needs(x, j),
         NEW n \in Inums, dino[n].nlink > 0, iget(n),
         \A j \in Inums :
           /\ QuietHas(LastT(x), t, dino, j)
           /\ Holds(t, j) = Holds(LastT(x), j) + Is(n, j)
           /\ Total(t, j) = Total(LastT(x), j) + Is(n, j)
  PROVE  IInv'
<1>1. TypesInv
  BY DEF IInv
<1>2. /\ itab' \in [Inums -> SlotType]
      /\ \A j \in Inums : /\ itab'[j].valid = itab[j].valid
                          /\ itab'[j].type = itab[j].type
                          /\ itab'[j].nlink = itab[j].nlink
                          /\ itab'[j].ref = itab[j].ref + Is(n, j)
                          /\ itab[j].ref \in Nat
  BY <1>1, IgetIs
<1>3. /\ dino[n].type # "free" /\ Count(todo, "new", n) = 0
      /\ Count(todo, "erase", n) = 0
  BY LinkedIs
<1>4. ASSUME NEW j \in Inums
      PROVE  /\ itab'[j].ref + Total(LastT(x), j) = itab[j].ref + Total(t, j)
             /\ Holds(t, j) > 0 =>
                  \/ Holds(LastT(x), j) > 0
                  \/ dino[j].type # "free" /\ Count(todo, "new", j) = 0
             /\ itab'[j].ref = itab[j].ref \/ Count(todo, "erase", j) = 0
  <2>1. PICK a \in Nat, b \in Nat : a = Holds(LastT(x), j) /\ b = Total(LastT(x), j)
    BY SumsNat, LastIs
  <2>2. PICK r \in Nat, k \in {0, 1} : r = itab[j].ref /\ k = Is(n, j)
    BY <1>2 DEF Is
  <2>3. Holds(t, j) = a + k /\ Total(t, j) = b + k /\ itab'[j].ref = r + k
    BY <2>1, <2>2, <1>2
  <2>4. k = 0 \/ j = n
    BY <2>2 DEF Is
  <2>5. CASE k = 0
    BY ONLY <2>5, <2>1, <2>2, <2>3
  <2>6. CASE j = n
    <3>1. r + k + b = r + (b + k)
      BY <2>1, <2>2, SMTT(40)
    <3> QED BY <2>6, <3>1, <1>3, <2>1, <2>2, <2>3
  <2> QED BY <2>4, <2>5, <2>6
<1>5. \A j \in Inums :
           /\ QuietHas(LastT(x), t, dino, j)
           /\ itab'[j].ref + Total(LastT(x), j) = itab[j].ref + Total(t, j)
           /\ Holds(t, j) > 0 =>
                \/ Holds(LastT(x), j) > 0
                \/ dino[j].type # "free" /\ Count(todo, "new", j) = 0
           /\ itab'[j].ref = itab[j].ref \/ Count(todo, "erase", j) = 0
  BY <1>4
<1>6. itab' \in [Inums -> SlotType]
  BY <1>2
<1>7. \A j \in Inums : /\ itab'[j].valid = itab[j].valid
                       /\ itab'[j].type = itab[j].type
                       /\ itab'[j].nlink = itab[j].nlink
  BY <1>2
<1>8. IInv /\ p \in Procs /\ x \in Instr /\ x.do \in Middle /\ Static(x)
      /\ todo[p] = LastT(x) /\ t \in Seq(Instr)
      /\ todo' = [todo EXCEPT ![p] = t]
      /\ dino' = dino /\ Elsewhere /\ WellFormed(t, HeldFile(p)) /\ GoalsOk(dino, t)
      /\ \A j \in Inums : Locking(t, j) <=> Needs(x, j)
  OBVIOUS
<1> QED BY ONLY <1>5, <1>6, <1>7, <1>8, CallStep, Zenon

(* What the name of a call leads to.                                       *)
LEMMA FoundIs ==
  ASSUME IInv, NEW x, x.dp \in Inums, x.call \in Calls, NEW n,
         n = Found(x), n # 0
  PROVE  n \in Inums /\ dino[n].nlink > 0
<1>1. Tree(dino) /\ Flat(dino)
  BY DEF IInv, DiskInv
<1>2. PICK e \in Entries : e = NameOf(x.call) /\ (e = ".." => Ups)
  BY NameIs
<1>3. n = dino[x.dp].ents[e]
  BY <1>2 DEF Found
<1> QED BY <1>1, <1>2, <1>3, EntryLinked

(* A path, and what is left of it.                                         *)
LEMMA PathIs ==
  ASSUME NEW path \in AnyPath
  PROVE  /\ Len(path) \in Nat \ {0} /\ Head(path) \in Entries
         /\ Head(path) = path[1] /\ 1 \in DOMAIN path
         /\ Len(path) # 1 =>
              /\ Tail(path) \in AnyPath
              /\ \A k \in DOMAIN Tail(path) : \E m \in DOMAIN path :
                   Tail(path)[k] = path[m]
              /\ \A e : EndsWith(path, e) => EndsWith(Tail(path), e)
<1>1. /\ path \in Seq(Entries) /\ path # <<>>
  BY DEF AnyPath
<1>2. /\ Len(path) \in Nat \ {0} /\ Head(path) = path[1] /\ Head(path) \in Entries
      /\ DOMAIN path = 1 .. Len(path)
  BY <1>1, EmptySeq, HeadTailProperties
<1>3. /\ Tail(path) \in Seq(Entries) /\ Len(Tail(path)) = Len(path) - 1
      /\ \A k \in 1 .. Len(path) - 1 : Tail(path)[k] = path[k + 1]
  BY <1>1, HeadTailProperties
<1>4. DOMAIN Tail(path) = 1 .. Len(path) - 1
  BY <1>3
<1>5. CASE Len(path) # 1
  <2>0. PICK m \in Nat : m = Len(path) /\ m # 0
    BY <1>2
  <2>1. PICK n \in Nat : n = Len(path) - 1 /\ n > 0
    <3>1. m # 1
      BY <2>0, <1>5
    <3>2. m - 1 \in Nat /\ m - 1 > 0
      BY ONLY <2>0, <3>1, m \in Nat
    <3> QED BY <2>0, <3>2
  <2>2. Tail(path) # <<>>
    <3>1. Len(Tail(path)) = n
      BY <1>3, <2>1
    <3>2. Len(<<>>) = 0
      OBVIOUS
    <3> QED BY <3>1, <3>2, <2>1
  <2>3. ASSUME NEW k \in 1 .. n
        PROVE  k + 1 \in DOMAIN path /\ Tail(path)[k] = path[k + 1]
    BY <1>2, <1>3, <2>1
  <2>4. Len(Tail(path)) = n /\ n \in 1 .. n /\ n + 1 = Len(path)
    BY <1>2, <1>3, <2>1
  <2>5. Tail(path)[Len(Tail(path))] = path[Len(path)]
    BY <2>3, <2>4
  <2>6. \A k \in DOMAIN Tail(path) : \E l \in DOMAIN path : Tail(path)[k] = path[l]
    BY <1>4, <2>1, <2>3
  <2> QED BY <1>2, <1>3, <2>2, <2>5, <2>6 DEF AnyPath, EndsWith
<1> QED BY <1>2, <1>5

(* iunlockput() of i, and then to lock o for g.                            *)
GoFor(t, i, o, g) ==
  /\ \A j \in Inums : Locking(t, j) <=> j = i
  /\ \A r \in Roles \ {"use"} : \A j : Has(t, r, j) = Weight(g, r, j)
  /\ \A F : WellFormed(t, F)
  /\ \A d : GoalOk(d, g) => GoalsOk(d, t)
  /\ \A j : Holds(t, j) = Holds(LastT(g), j) + Is(i, j)
  /\ \A j : Total(t, j) = Total(LastT(g), j) + Is(i, j)
  /\ (iunlockput(i) \o <<On("lock", o), g>>) \o EndOp = t

(* There is a list that does that.                                         *)
LEMMA GoPick ==
  ASSUME NEW i \in Inums, NEW o \in Inums, NEW g \in Instr,
         g.do \in Middle \ {"remove", "fill"}, Static(g),
         \A j \in Inums : Needs(g, j) <=> j = o,
         \E r \in {"use", "back", "old", "dir", "new"} : Plays(g, r, o)
  PROVE  \E t \in Seq(Instr) : GoFor(t, i, o, g)
<1>1. PICK u \in Seq(Instr) : u = LockT(o, LastT(g)) /\ LockFor(u, g)
  BY LockPick
<1>2. PICK t \in Seq(Instr) : t = DoneT(i, u) /\ DoneFor(t, i, u)
  <2>1. ~Locking(u, i)
    BY <1>1 DEF LockFor
  <2> QED BY <2>1, DonePick
<1>3. PICK l \in Instr : l = On("lock", o)
  BY OnIs DEF IpOps
<1>4. PICK v \in Seq(Instr), e \in Seq(Instr) : v = <<l, g>> /\ e = EndOp
  <2>1. <<l, g>> \in Seq(Instr)
    OBVIOUS
  <2> QED BY <2>1, EndIs
<1>5. (iunlockput(i) \o v) \o e = DoneT(i, v \o e)
  BY ONLY i \in Inums, v \in Seq(Instr), e \in Seq(Instr), WrittenDone
<1>6. v \o e = u
  <2>1. <<On("lock", o), g>> \o EndOp = LockT(o, LastT(g))
    BY EmptyIs, Written
  <2> QED BY <2>1, <1>1, <1>3, <1>4
<1>7. (iunlockput(i) \o <<On("lock", o), g>>) \o EndOp = t
  BY <1>2, <1>3, <1>4, <1>5, <1>6
<1>8. \A j \in Inums : Locking(t, j) <=> j = i
  BY <1>1, <1>2 DEF LockFor, DoneFor
<1>9. \A r \in Roles \ {"use"} : \A j : Has(t, r, j) = Weight(g, r, j)
  BY <1>1, <1>2 DEF LockFor, DoneFor
<1>10. (\A F : WellFormed(t, F)) /\ (\A d : GoalOk(d, g) => GoalsOk(d, t))
  BY <1>1, <1>2 DEF LockFor, DoneFor
<1>11. \A j : /\ Holds(t, j) = Holds(LastT(g), j) + Is(i, j)
              /\ Total(t, j) = Total(LastT(g), j) + Is(i, j)
  BY <1>1, <1>2 DEF LockFor, DoneFor
<1> QED BY <1>7, <1>8, <1>9, <1>10, <1>11 DEF GoFor

(* One level down.                                                         *)
LEMMA NextGoal ==
  ASSUME NEW x \in Looks, Static(x), ~AtParent(x), NEW n \in Inums
  PROVE  \E g \in Instr :
           /\ g = IF Last(x) THEN [x.goal EXCEPT !.ip = n]
                  ELSE Walk(n, Tail(x.path), x.parent, x.goal)
           /\ g.do \in {"open", "linkold", "look"} /\ Static(g)
           /\ \A j \in Inums : Needs(g, j) <=> j = n
           /\ Plays(g, "use", n)
           /\ \A r \in Roles \ {"use"}, j \in Inums :
                Weight(g, r, j) = Weight(x, r, j)
           /\ \A j \in Inums :
                /\ Holds(LastT(g), j) = Is(n, j) + Is(x.goal.ip, j)
                /\ Total(LastT(g), j) = Is(n, j) + Is(x.goal.ip, j)
<1>1. /\ x \in Instr /\ x.do = "look" /\ x.ip \in Inums /\ x.goal \in Goals
      /\ x.path \in AnyPath /\ x.parent \in BOOLEAN
      /\ x.goal.do = "linknew" => x.goal.ip \in Inums
      /\ x.goal.do # "linknew" => x.goal.ip = 0
  BY LookFields
<1>2. \A r \in Roles \ {"use"} : \A j :
        Weight(x, r, j) = IF r = "old" THEN Is(x.goal.ip, j) ELSE 0
  <2>1. ASSUME NEW j
        PROVE  /\ Weight(x, "old", j) = Is(x.goal.ip, j)
               /\ \A r \in Roles \ {"use", "old"} : Weight(x, r, j) = 0
    BY <1>1, Weights
  <2> QED BY <2>1
<1>3. CASE Last(x)
  <2>1. ~x.parent /\ x.goal.do \notin Parents
    BY <1>1, <1>3 DEF Static, AtParent
  <2>2. PICK g \in Instr :
           /\ g = [x.goal EXCEPT !.ip = n]
           /\ g.do = x.goal.do /\ g.dp = 0 /\ g.ip = n /\ g.call = x.goal.call
           /\ x.goal.ip = 0 /\ x.goal.do \in {"open", "linkold"}
    BY <1>1, <2>1, GoalOn
  <2>3. Static(g)
    BY <1>1, <2>2 DEF Static
  <2>4. \A j \in Inums : Needs(g, j) <=> j = n
    BY <2>2 DEF Needs, NewOps, DirOps
  <2>5. Plays(g, "use", n)
    BY <2>2 DEF Plays, UseOps
  <2>6. ASSUME NEW r \in Roles \ {"use"}, NEW j \in Inums
        PROVE  Weight(g, r, j) = Weight(x, r, j)
    <3>1. Weight(g, r, j) = 0
      <4>1. g.do \in {"put", "open", "linkold", "found"}
        BY <2>2
      <4> QED BY <4>1, Weights
    <3>2. Is(x.goal.ip, j) = 0
      BY <2>2 DEF Is, Inums
    <3> QED BY <3>1, <3>2, <1>2
  <2>7. ASSUME NEW j \in Inums
        PROVE  /\ Holds(LastT(g), j) = Is(n, j) + Is(x.goal.ip, j)
               /\ Total(LastT(g), j) = Is(n, j) + Is(x.goal.ip, j)
    <3>1. g.do \in Middle /\ g.do \in OldOps
      BY <2>2 DEF Middle, OldOps
    <3>2. Holds(LastT(g), j) = Is(n, j) /\ Total(LastT(g), j) = Is(n, j)
      BY <2>2, <2>3, <3>1, LastSums
    <3>3. Is(x.goal.ip, j) = 0 /\ Is(n, j) \in Nat
      BY <2>2 DEF Is, Inums
    <3> QED BY <3>2, <3>3
  <2> QED BY <1>3, <2>2, <2>3, <2>4, <2>5, <2>6, <2>7
<1>4. CASE ~Last(x)
  <2>1. /\ Tail(x.path) \in AnyPath
        /\ \A k \in DOMAIN Tail(x.path) : \E m \in DOMAIN x.path :
             Tail(x.path)[k] = x.path[m]
        /\ \A e : EndsWith(x.path, e) => EndsWith(Tail(x.path), e)
    BY <1>1, <1>4, PathIs DEF Last
  <2>2. PICK g \in Looks :
          /\ g = Walk(n, Tail(x.path), x.parent, x.goal)
          /\ g.do = "look" /\ g.ip = n /\ g.path = Tail(x.path)
          /\ g.parent = x.parent /\ g.goal = x.goal
    <3>1. PICK path \in AnyPath : path = Tail(x.path)
      BY <2>1
    <3>2. PICK parent \in BOOLEAN, goal \in Goals :
            parent = x.parent /\ goal = x.goal
      BY <1>1
    <3>3. PICK g \in Looks :
            g = [do |-> "look", ip |-> n, path |-> path, parent |-> parent,
                 goal |-> goal]
      BY DEF Looks
    <3> QED BY <3>1, <3>2, <3>3 DEF Walk
  <2>3. g \in Instr
    BY DEF Instr
  <2>4. Static(g)
    <3>1. Ups \/ \A k \in DOMAIN g.path : g.path[k] # ".."
      <4>1. x.do = "look" /\ (Ups \/ \A k \in DOMAIN x.path : x.path[k] # "..")
        BY <1>1 DEF Static
      <4>2. g.path = Tail(x.path)
        BY <2>2
      <4> QED BY ONLY <2>1, <4>1, <4>2, Zenon
    <3>2. /\ g.parent <=> g.goal.do \in Parents
          /\ g.parent => EndsWith(g.path, NameOf(g.goal.call))
          /\ g.goal.do = "linknew" => g.goal.call.op = "link"
          /\ g.goal.do = "linkold" => g.goal.call.op = "link"
      BY <1>1, <2>1, <2>2 DEF Static
    <3>3. ~(Ups /\ g.goal.do = "create" /\ g.goal.call.op = "mkdir")
      BY <1>1, <1>4, <2>2 DEF Static, Last
    <3> QED BY <2>2, <3>1, <3>2, <3>3 DEF Static
  <2>5. \A j \in Inums : Needs(g, j) <=> j = n
    BY <2>2 DEF Needs, NewOps, DirOps
  <2>6. Plays(g, "use", n)
    BY <2>2 DEF Plays, UseOps
  <2>7. ASSUME NEW r \in Roles \ {"use"}, NEW j \in Inums
        PROVE  Weight(g, r, j) = Weight(x, r, j)
    BY <1>2, <2>2, Weights
  <2>8. ASSUME NEW j \in Inums
        PROVE  /\ Holds(LastT(g), j) = Is(n, j) + Is(x.goal.ip, j)
               /\ Total(LastT(g), j) = Is(n, j) + Is(x.goal.ip, j)
    <3>1. g.do \in Middle
      BY <2>2 DEF Middle
    <3> QED BY <2>2, <2>3, <2>4, <3>1, LastSums
  <2> QED BY <1>4, <2>2, <2>3, <2>4, <2>5, <2>6, <2>7, <2>8
<1> QED BY <1>3, <1>4

(* namex() goes on to the next element (fs.c:699): iget() takes the        *)
(* reference while the directory is locked, so the entry still counts.     *)
LEMMA LookDownInv ==
  ASSUME IInv, NEW p \in Procs, LookDown(p) PROVE IInv'
<1>1. Ready(p, "look")
  BY DEF LookDown
<1>2. PICK x \in Instr :
           /\ It(p) = x /\ x.do = "look" /\ todo[p] = LastT(x)
           /\ Tail(todo[p]) = EndOp /\ Static(x) /\ GoalOk(dino, x)
           /\ \A j \in Inums : Needs(x, j) => Held(p, j)
  BY <1>1, MiddleIs DEF Middle
<1>3. /\ x \in Looks /\ x.ip \in Inums /\ x.goal \in Goals /\ x.path \in AnyPath
      /\ ~AtParent(x) /\ x.do \in Middle
  BY <1>2, InstrFields, LookFields DEF LookDown, Middle
<1>4. PICK i \in Inums : i = x.ip
  BY <1>3
<1>5. \A j \in Inums : Needs(x, j) <=> j = i
  BY <1>2, <1>4 DEF Needs, NewOps, DirOps
<1>6. PICK n \in Inums : n = Child(x) /\ dino[n].nlink > 0
  <2>1. Tree(dino) /\ Flat(dino)
    BY DEF IInv, DiskInv
  <2>2. Head(x.path) \in Entries /\ (Head(x.path) = ".." => Ups)
    BY <1>2, <1>3, PathIs DEF Static
  <2>3. Child(x) # 0
    BY <1>2 DEF LookDown
  <2>4. PICK e \in Entries : e = Head(x.path) /\ (e = ".." => Ups)
    BY <2>2
  <2>5. PICK m : m = dino[i].ents[e]
    OBVIOUS
  <2>6. m = Child(x)
    BY <1>4, <2>4, <2>5 DEF Child
  <2> QED BY <2>1, <2>3, <2>4, <2>5, <2>6, EntryLinked
<1>7. PICK g \in Instr :
           /\ g = IF Last(x) THEN [x.goal EXCEPT !.ip = n]
                  ELSE Walk(n, Tail(x.path), x.parent, x.goal)
           /\ g.do \in {"open", "linkold", "look"} /\ Static(g)
           /\ \A j \in Inums : Needs(g, j) <=> j = n
           /\ Plays(g, "use", n)
           /\ \A r \in Roles \ {"use"}, j \in Inums :
                Weight(g, r, j) = Weight(x, r, j)
           /\ \A j \in Inums :
                /\ Holds(LastT(g), j) = Is(n, j) + Is(x.goal.ip, j)
                /\ Total(LastT(g), j) = Is(n, j) + Is(x.goal.ip, j)
  BY <1>2, <1>3, NextGoal
<1>8. PICK t \in Seq(Instr) : GoFor(t, i, n, g)
  <2>1. g.do \in Middle \ {"remove", "fill"}
    BY <1>7 DEF Middle, OldOps
  <2>2. \E r \in {"use", "back", "old", "dir", "new"} : Plays(g, r, n)
    BY <1>7
  <2>3. \A j \in Inums : Needs(g, j) <=> j = n
    BY <1>7
  <2>4. Static(g)
    BY <1>7
  <2> QED BY <2>1, <2>2, <2>3, <2>4, GoPick
<1>9. todo' = [todo EXCEPT ![p] = t]
  <2>1. todo' = [todo EXCEPT ![p] =
                   (iunlockput(i) \o <<On("lock", n), g>>) \o EndOp]
    BY <1>2, <1>4, <1>6, <1>7 DEF LookDown, Then
  <2> QED BY <2>1, <1>8 DEF GoFor
<1>10. dino' = dino /\ Elsewhere /\ iget(n)
  BY <1>2, <1>6 DEF LookDown
<1>11. WellFormed(t, HeldFile(p)) /\ GoalsOk(dino, t)
       /\ \A j \in Inums : Locking(t, j) <=> Needs(x, j)
  <2>1. GoalOk(dino, g)
    <3>1. g.do = "look" => g.ip = n
      BY <1>7 DEF Plays, UseOps
    <3>2. dino[n].type = "dir" => dino[n].ents[".."] # 0
      BY <1>6 DEF IInv, DiskInv, Tree, OnlyDirs
    <3> QED BY <1>7, <3>1, <3>2 DEF GoalOk
  <2> QED BY <1>5, <1>8, <2>1 DEF GoFor
<1>12. ASSUME NEW j \in Inums
       PROVE  /\ QuietHas(LastT(x), t, dino, j)
              /\ Holds(t, j) = Holds(LastT(x), j) + Is(n, j)
              /\ Total(t, j) = Total(LastT(x), j) + Is(n, j)
  <2>1. PICK a \in {0, 1}, b \in {0, 1}, c \in {0, 1} :
          a = Is(n, j) /\ b = Is(x.goal.ip, j) /\ c = Is(i, j)
    BY DEF Is
  <2>2. /\ Holds(LastT(x), j) = c + b /\ Total(LastT(x), j) = c + b
    BY <1>2, <1>3, <1>4, <2>1, LastSums
  <2>3. /\ Holds(t, j) = (a + b) + c /\ Total(t, j) = (a + b) + c
    BY <1>7, <1>8, <2>1 DEF GoFor
  <2>4. \A r \in Roles \ {"use"} : Has(t, r, j) = Weight(x, r, j)
    BY <1>7, <1>8 DEF GoFor
  <2>5. /\ Weight(x, "erase", j) = 0 /\ Weight(x, "forget", j) = 0
        /\ Weight(x, "new", j) = 0 /\ Weight(x, "dir", j) = 0
        /\ Weight(x, "back", j) = 0 /\ Weight(x, "old", j) = b
    BY <1>2, <2>1, Weights DEF Roles
  <2>6. QuietHas(LastT(x), t, dino, j)
    <3>1. /\ Has(t, "erase", j) = 0 /\ Has(t, "forget", j) = 0
          /\ Has(t, "new", j) = 0 /\ Has(t, "dir", j) = 0
          /\ Has(t, "back", j) = 0 /\ Has(t, "old", j) = b
      BY <2>4, <2>5 DEF Roles
    <3>2. /\ Has(t, "new", j) <= Weight(x, "new", j)
          /\ Has(t, "dir", j) <= Weight(x, "dir", j)
          /\ Has(t, "old", j) <= Weight(x, "old", j)
          /\ Has(t, "back", j) + Has(t, "old", j)
               <= Weight(x, "back", j) + Weight(x, "old", j)
      BY <3>1, <2>5, <2>1
    <3> QED BY <1>2, <1>3, <3>1, <3>2, QuietWeights
  <2>7. (a + b) + c = (c + b) + a
    BY <2>1
  <2> QED BY <2>1, <2>2, <2>3, <2>6, <2>7
<1>13. IInv /\ p \in Procs /\ x \in Instr /\ x.do \in Middle /\ Static(x)
       /\ todo[p] = LastT(x) /\ t \in Seq(Instr) /\ n \in Inums
       /\ dino[n].nlink > 0
  BY <1>2, <1>3, <1>6
<1> QED BY ONLY <1>9, <1>10, <1>11, <1>12, <1>13, GetStep, Zenon

(* A step of a call that leaves the slots alone as well.                   *)
LEMMA SameStep ==
  ASSUME IInv, NEW p \in Procs, NEW x \in Instr, x.do \in Middle, Static(x),
         todo[p] = LastT(x), NEW t \in Seq(Instr),
         todo' = [todo EXCEPT ![p] = t],
         dino' = dino, itab' = itab, Elsewhere,
         WellFormed(t, HeldFile(p)), GoalsOk(dino, t),
         \A j \in Inums : Locking(t, j) <=> Needs(x, j),
         \A j \in Inums :
           /\ QuietHas(LastT(x), t, dino, j)
           /\ Holds(t, j) = Holds(LastT(x), j)
           /\ Total(t, j) = Total(LastT(x), j)
  PROVE  IInv'
<1>1. itab' \in [Inums -> SlotType]
      /\ \A j \in Inums : /\ itab'[j].valid = itab[j].valid
                          /\ itab'[j].type = itab[j].type
                          /\ itab'[j].nlink = itab[j].nlink
  BY DEF IInv, TypesInv
<1>2. \A j \in Inums :
           /\ QuietHas(LastT(x), t, dino, j)
           /\ itab'[j].ref + Total(LastT(x), j) = itab[j].ref + Total(t, j)
           /\ Holds(t, j) > 0 =>
                \/ Holds(LastT(x), j) > 0
                \/ dino[j].type # "free" /\ Count(todo, "new", j) = 0
           /\ itab'[j].ref = itab[j].ref \/ Count(todo, "erase", j) = 0
  OBVIOUS
<1>3. IInv /\ p \in Procs /\ x \in Instr /\ x.do \in Middle /\ Static(x)
      /\ todo[p] = LastT(x) /\ t \in Seq(Instr)
      /\ todo' = [todo EXCEPT ![p] = t]
      /\ dino' = dino /\ Elsewhere /\ WellFormed(t, HeldFile(p)) /\ GoalsOk(dino, t)
      /\ \A j \in Inums : Locking(t, j) <=> Needs(x, j)
  OBVIOUS
<1> QED BY ONLY <1>1, <1>2, <1>3, CallStep, Zenon

(* A call that has one inode locked gives up.                              *)
LEMMA OneDone ==
  ASSUME IInv, NEW p \in Procs, NEW x \in Instr, x.do \in OldOps \cup DirOps,
         Static(x), todo[p] = LastT(x), Tail(todo[p]) = EndOp,
         NEW i, i = (IF x.do \in OldOps THEN x.ip ELSE x.dp),
         Then(p, iunlockput(i)), dino' = dino, itab' = itab, Elsewhere
  PROVE  IInv'
<1>1. i \in Inums
  BY InstrFields DEF OldOps, DirOps
<1>2. \A j \in Inums : Needs(x, j) <=> j = i
  BY <1>1 DEF Needs, NewOps, DirOps, OldOps
<1>3. x.do \in Middle
  BY DEF Middle
<1>4. ASSUME NEW j \in Inums
      PROVE  Holds(LastT(x), j) = Is(i, j) /\ Total(LastT(x), j) = Is(i, j)
  BY <1>3, LastSums DEF OldOps, DirOps
<1>5. todo' = [todo EXCEPT ![p] = DoneT(i, EndOp)]
  <2>1. iunlockput(i) \o EndOp = DoneT(i, EndOp)
    BY <1>1, EndIs, Written
  <2> QED BY <2>1 DEF Then
<1>6. IInv /\ p \in Procs /\ x \in Instr /\ i \in Inums /\ Static(x)
      /\ todo[p] = LastT(x) /\ dino' = dino /\ itab' = itab /\ Elsewhere
  BY <1>1
<1> QED BY ONLY <1>2, <1>3, <1>4, <1>5, <1>6, DoneStep, Zenon

(* create() finds the name, and open() goes on with it (sysfile.c:259).    *)
LEMMA OpenFoundInv ==
  ASSUME IInv, NEW p \in Procs, OpenFound(p) PROVE IInv'
<1>1. Ready(p, "found")
  BY DEF OpenFound
<1>2. PICK x \in Instr :
           /\ It(p) = x /\ x.do = "found" /\ todo[p] = LastT(x)
           /\ Tail(todo[p]) = EndOp /\ Static(x) /\ GoalOk(dino, x)
           /\ \A j \in Inums : Needs(x, j) => Held(p, j)
  BY <1>1, MiddleIs DEF Middle, OldOps
<1>3. PICK i \in Inums : i = x.ip
  BY <1>2, InstrFields
<1>4. dino' = dino /\ itab' = itab /\ Elsewhere
  BY DEF OpenFound
<1>5. CASE Then(p, iunlockput(i))
  <2>1. x.do \in OldOps \cup DirOps /\ i = (IF x.do \in OldOps THEN x.ip ELSE x.dp)
    BY <1>2, <1>3 DEF OldOps
  <2>2. Static(x) /\ todo[p] = LastT(x) /\ Tail(todo[p]) = EndOp
    BY <1>2
  <2>3. IInv /\ p \in Procs /\ x \in Instr
    OBVIOUS
  <2> QED BY ONLY <1>4, <1>5, <2>1, <2>2, <2>3, OneDone, Zenon
<1>6. CASE Then(p, <<On("open", i)>>)
  <2>1. PICK g \in Instr : g = On("open", i) /\ g.do = "open" /\ g.ip = i
    BY OnIs DEF IpOps
  <2>2. Static(g) /\ g.do \in Middle
    BY <2>1 DEF Static, Middle, NewOps, DirOps, OldOps, Parents
  <2>3. /\ LastT(g) \in Seq(Instr)
        /\ \A j : Locking(LastT(g), j) <=> Needs(g, j)
        /\ \A r, j : Has(LastT(g), r, j) = Weight(g, r, j)
        /\ \A F : WellFormed(LastT(g), F)
        /\ \A d : GoalOk(d, g) => GoalsOk(d, LastT(g))
    BY <2>2, LastIs
  <2>4. PICK t \in Seq(Instr) : t = LastT(g)
    BY <2>3
  <2>5. todo' = [todo EXCEPT ![p] = t]
    <3>1. <<g>> \o EndOp = LastT(g)
      BY <2>1, EmptyIs, Written
    <3> QED BY <3>1, <1>2, <1>6, <2>1, <2>4 DEF Then
  <2>6. WellFormed(t, HeldFile(p)) /\ GoalsOk(dino, t)
    BY <2>1, <2>3, <2>4 DEF GoalOk
  <2>7. \A j \in Inums : Locking(t, j) <=> Needs(x, j)
    BY <1>2, <1>3, <2>1, <2>3, <2>4 DEF Needs, NewOps, DirOps
  <2>8. x.do \in Middle
    BY <1>2 DEF Middle, OldOps
  <2>9. ASSUME NEW j \in Inums
        PROVE  /\ QuietHas(LastT(x), t, dino, j)
               /\ Holds(t, j) = Holds(LastT(x), j)
               /\ Total(t, j) = Total(LastT(x), j)
    <3>1. x.do \in OldOps /\ g.do \in OldOps
      BY <1>2, <2>1 DEF OldOps
    <3>2. /\ Holds(LastT(x), j) = Is(i, j) /\ Total(LastT(x), j) = Is(i, j)
      BY <1>2, <1>3, <2>8, <3>1, LastSums
    <3>3. /\ Holds(LastT(g), j) = Is(i, j) /\ Total(LastT(g), j) = Is(i, j)
      BY <2>1, <2>2, <3>1, LastSums
    <3>4. \A r \in Roles \ {"use"} : Has(t, r, j) = 0 /\ Weight(x, r, j) = 0
      <4>1. g.do \in {"put", "open", "linkold", "found"}
            /\ x.do \in {"put", "open", "linkold", "found"}
        BY <1>2, <2>1
      <4>2. \A r \in Roles \ {"use"} : Weight(g, r, j) = 0
        BY <4>1, Weights
      <4>3. \A r \in Roles \ {"use"} : Weight(x, r, j) = 0
        BY <4>1, Weights
      <4>4. \A r \in Roles : Has(t, r, j) = Weight(g, r, j)
        BY <2>3, <2>4
      <4> QED BY <4>2, <4>3, <4>4
    <3>5. QuietHas(LastT(x), t, dino, j)
      BY <1>2, <2>8, <3>4, QuietWeights DEF Roles
    <3> QED BY <2>4, <3>2, <3>3, <3>5
  <2>10. IInv /\ p \in Procs /\ x \in Instr /\ t \in Seq(Instr)
         /\ Static(x) /\ todo[p] = LastT(x)
    BY <1>2
  <2> QED BY ONLY <1>4, <2>5, <2>6, <2>7, <2>8, <2>9, <2>10, SameStep, Zenon
<1> QED BY <1>2, <1>3, <1>5, <1>6 DEF OpenFound

(* create() finds the name: its reference, under the lock of the directory *)
(* (sysfile.c:254).                                                        *)
LEMMA CreateFoundInv ==
  ASSUME IInv, NEW p \in Procs, CreateFound(p) PROVE IInv'
<1>1. Ready(p, "create")
  BY DEF CreateFound
<1>2. PICK x \in Instr :
           /\ It(p) = x /\ x.do = "create" /\ todo[p] = LastT(x)
           /\ Tail(todo[p]) = EndOp /\ Static(x) /\ GoalOk(dino, x)
           /\ \A j \in Inums : Needs(x, j) => Held(p, j)
  BY <1>1, MiddleIs DEF Middle, DirOps
<1>3. x.dp \in Inums /\ x.call \in Calls /\ x.do \in Middle /\ x.do \in DirOps
  BY <1>2, InstrFields DEF Middle, DirOps
<1>4. PICK i \in Inums : i = x.dp
  BY <1>3
<1>5. \A j \in Inums : Needs(x, j) <=> j = i
  BY <1>2, <1>4 DEF Needs, NewOps, DirOps
<1>6. PICK n \in Inums : n = Found(x) /\ dino[n].nlink > 0
  <2>1. Found(x) # 0
    BY <1>2 DEF CreateFound
  <2> QED BY <2>1, <1>3, FoundIs
<1>7. PICK g \in Instr :
           /\ g = Goal("found", 0, n, x.call)
           /\ g.do = "found" /\ g.ip = n /\ g.dp = 0
  <2>1. PICK c \in Calls : c = x.call
    BY <1>3
  <2>2. Goal("found", 0, n, c) \in GoalsOf(OldOps, {0}, Inums)
    BY DEF Goal, GoalsOf, OldOps
  <2>3. PICK g \in Instr : g = Goal("found", 0, n, c)
    BY <2>2 DEF Instr
  <2> QED BY <2>1, <2>3 DEF Goal
<1>71. g.do \in Middle \ {"remove", "fill"} /\ g.do \in OldOps
  BY <1>7 DEF Middle, OldOps
<1>72. Static(g)
  BY <1>7 DEF Static
<1>8. PICK t \in Seq(Instr) : GoFor(t, i, n, g)
  <2>1. Plays(g, "use", n)
    BY <1>7 DEF Plays, UseOps
  <2>2. \A j \in Inums : Needs(g, j) <=> j = n
    BY <1>7 DEF Needs, NewOps, DirOps
  <2> QED BY <2>1, <2>2, <1>71, <1>72, GoPick
<1>9. todo' = [todo EXCEPT ![p] = t]
  <2>1. todo' = [todo EXCEPT ![p] =
                   (iunlockput(i) \o <<On("lock", n), g>>) \o EndOp]
    BY <1>2, <1>4, <1>6, <1>7 DEF CreateFound, Then
  <2> QED BY <2>1, <1>8 DEF GoFor
<1>10. dino' = dino /\ Elsewhere /\ iget(n)
  BY <1>2, <1>6 DEF CreateFound
<1>11. WellFormed(t, HeldFile(p)) /\ GoalsOk(dino, t)
       /\ \A j \in Inums : Locking(t, j) <=> Needs(x, j)
  <2>1. GoalOk(dino, g)
    BY <1>7 DEF GoalOk
  <2> QED BY <1>5, <1>8, <2>1 DEF GoFor
<1>12. ASSUME NEW j \in Inums
       PROVE  /\ QuietHas(LastT(x), t, dino, j)
              /\ Holds(t, j) = Holds(LastT(x), j) + Is(n, j)
              /\ Total(t, j) = Total(LastT(x), j) + Is(n, j)
  <2>1. PICK a \in {0, 1}, c \in {0, 1} : a = Is(n, j) /\ c = Is(i, j)
    BY DEF Is
  <2>2. /\ Holds(LastT(x), j) = c /\ Total(LastT(x), j) = c
    BY <1>2, <1>3, <1>4, <2>1, LastSums
  <2>3. /\ Holds(t, j) = a + c /\ Total(t, j) = a + c
    <3>1. Holds(LastT(g), j) = a /\ Total(LastT(g), j) = a
      BY <1>7, <1>71, <1>72, <2>1, LastSums
    <3> QED BY <3>1, <1>8, <2>1 DEF GoFor
  <2>4. \A r \in Roles \ {"use"} : Has(t, r, j) = 0
    <3>1. g.do \in {"put", "open", "linkold", "found"}
      BY <1>7
    <3>2. \A r \in Roles \ {"use"} : Weight(g, r, j) = 0
      BY <3>1, Weights
    <3> QED BY <3>2, <1>8 DEF GoFor
  <2>5. /\ Weight(x, "new", j) = 0
        /\ Weight(x, "back", j) = 0 /\ Weight(x, "old", j) = 0
        /\ Weight(x, "dir", j) \in {0, 1}
    BY <1>3, Weights DEF Roles, Weight
  <2>6. QuietHas(LastT(x), t, dino, j)
    <3>1. /\ Has(t, "erase", j) = 0 /\ Has(t, "forget", j) = 0
          /\ Has(t, "new", j) = 0 /\ Has(t, "dir", j) = 0
          /\ Has(t, "back", j) = 0 /\ Has(t, "old", j) = 0
      BY <2>4 DEF Roles
    <3>2. /\ Has(t, "new", j) <= Weight(x, "new", j)
          /\ Has(t, "dir", j) <= Weight(x, "dir", j)
          /\ Has(t, "old", j) <= Weight(x, "old", j)
          /\ Has(t, "back", j) + Has(t, "old", j)
               <= Weight(x, "back", j) + Weight(x, "old", j)
      BY <3>1, <2>5
    <3> QED BY <1>2, <1>3, <3>1, <3>2, QuietWeights
  <2>7. a + c = c + a
    BY <2>1
  <2> QED BY <2>1, <2>2, <2>3, <2>6, <2>7
<1>13. IInv /\ p \in Procs /\ x \in Instr /\ x.do \in Middle /\ Static(x)
       /\ todo[p] = LastT(x) /\ t \in Seq(Instr) /\ n \in Inums
       /\ dino[n].nlink > 0
  BY <1>2, <1>3, <1>6
<1> QED BY ONLY <1>9, <1>10, <1>11, <1>12, <1>13, GetStep, Zenon

(* The link of link() is to be taken back.                                 *)
UndoFor(t, i, o) ==
  /\ (iunlockput(i) \o Undo(o)) \o EndOp = t
  /\ \A j \in Inums : Locking(t, j) <=> j = i
  /\ \A F : WellFormed(t, F)
  /\ \A d : GoalsOk(d, t)
  /\ \A j \in Inums : /\ Holds(t, j) = Is(o, j) + Is(i, j)
                      /\ Total(t, j) = Is(o, j) + Is(i, j)
                      /\ Has(t, "back", j) = Is(o, j)
  /\ \A j \in Inums :
       \A r \in Roles \ {"use", "back"} : Has(t, r, j) = 0

(* There is a list that does that.                                         *)
LEMMA UndoPick ==
  ASSUME NEW i \in Inums, NEW x \in Instr, x.do = "linknew", x.dp = i,
         NEW o, o = x.ip
  PROVE  \E t \in Seq(Instr) : UndoFor(t, i, o)
<1>1. o \in Inums
  BY InstrFields DEF NewOps
<1>2. PICK g \in Instr :
        g = On("takeback", o) /\ g.do = "takeback" /\ g.ip = o
  BY <1>1, OnIs DEF IpOps
<1>3. Static(g) /\ g.do \in Middle \ {"remove", "fill"}
  BY <1>2 DEF Static, Middle
<1>4. PICK t \in Seq(Instr) : GoFor(t, i, o, g)
  <2>1. \A j \in Inums : Needs(g, j) <=> j = o
    BY <1>2 DEF Needs, NewOps, DirOps
  <2>2. Plays(g, "back", o)
    BY <1>2 DEF Plays
  <2> QED BY <1>1, <1>3, <2>1, <2>2, GoPick
<1>5. (iunlockput(i) \o Undo(o)) \o EndOp = t
  BY <1>2, <1>4 DEF GoFor, Undo
<1>6. ASSUME NEW j \in Inums
      PROVE  /\ Holds(t, j) = Is(o, j) + Is(i, j)
             /\ Total(t, j) = Is(o, j) + Is(i, j)
             /\ Has(t, "back", j) = Is(o, j)
             /\ \A r \in Roles \ {"use", "back"} : Has(t, r, j) = 0
  <2>1. Holds(LastT(g), j) = Is(o, j) /\ Total(LastT(g), j) = Is(o, j)
    BY <1>2, <1>3, LastSums
  <2>2. Weight(g, "back", j) = Is(o, j)
        /\ \A r \in Roles \ {"back"} : Weight(g, r, j) = 0
    BY <1>2, Weights
  <2>3. "back" \in Roles \ {"use"}
    BY DEF Roles
  <2> QED BY <1>4, <2>1, <2>2, <2>3 DEF GoFor
<1>7. \A d : GoalOk(d, g)
  BY <1>2 DEF GoalOk
<1> QED BY <1>4, <1>5, <1>6, <1>7 DEF GoFor, UndoFor

(* The counts of link() taking its link back.                              *)
LEMMA UndoQuiet ==
  ASSUME NEW x \in Instr, x.do = "linknew", Static(x), NEW t \in Seq(Instr),
         NEW d, NEW j \in Inums, Has(t, "back", j) = Is(x.ip, j),
         \A r \in Roles \ {"use", "back"} : Has(t, r, j) = 0
  PROVE  QuietHas(LastT(x), t, d, j)
<1>1. PICK b \in {0, 1} : b = Is(x.ip, j)
  BY DEF Is
<1>2. /\ Weight(x, "new", j) = 0 /\ Weight(x, "back", j) = 0
      /\ Weight(x, "old", j) = b /\ Weight(x, "dir", j) \in {0, 1}
  BY <1>1, Weights DEF Roles, Weight
<1>3. /\ Has(t, "erase", j) = 0 /\ Has(t, "forget", j) = 0
      /\ Has(t, "new", j) = 0 /\ Has(t, "dir", j) = 0
      /\ Has(t, "back", j) = b /\ Has(t, "old", j) = 0
  BY <1>1 DEF Roles
<1>4. /\ Has(t, "new", j) <= Weight(x, "new", j)
      /\ Has(t, "dir", j) <= Weight(x, "dir", j)
      /\ Has(t, "old", j) <= Weight(x, "old", j)
      /\ Has(t, "back", j) + Has(t, "old", j)
           <= Weight(x, "back", j) + Weight(x, "old", j)
  BY <1>1, <1>2, <1>3
<1>5. x.do \in Middle
  BY DEF Middle, NewOps
<1> QED BY <1>3, <1>4, <1>5, QuietWeights

(* link() cannot make the entry: the link counted for it stays claimed     *)
(* until it is taken back.                                                 *)
LEMMA LinkNewFailsInv ==
  ASSUME IInv, NEW p \in Procs, Ready(p, "linknew"),
         Then(p, iunlockput(It(p).dp) \o Undo(It(p).ip)),
         dino' = dino, itab' = itab, Elsewhere
  PROVE  IInv'
<1>2. PICK x \in Instr :
           /\ It(p) = x /\ x.do = "linknew" /\ todo[p] = LastT(x)
           /\ Tail(todo[p]) = EndOp /\ Static(x) /\ GoalOk(dino, x)
           /\ \A j \in Inums : Needs(x, j) => Held(p, j)
  BY MiddleIs DEF Middle, NewOps
<1>3. PICK i \in Inums, o \in Inums : i = x.dp /\ o = x.ip
  BY <1>2, InstrFields DEF NewOps
<1>4. PICK t \in Seq(Instr) : UndoFor(t, i, o)
  <2>1. x.do = "linknew" /\ x.dp = i /\ o = x.ip
    BY <1>2, <1>3
  <2> QED BY ONLY <2>1, x \in Instr, i \in Inums, UndoPick, Zenon
<1>5. todo' = [todo EXCEPT ![p] = t]
  BY <1>2, <1>3, <1>4 DEF UndoFor, Then
<1>6. WellFormed(t, HeldFile(p)) /\ GoalsOk(dino, t)
  BY <1>4 DEF UndoFor
<1>7. \A j \in Inums : Locking(t, j) <=> Needs(x, j)
  BY <1>2, <1>3, <1>4 DEF UndoFor, Needs, NewOps
<1>8. x.do \in Middle
  BY <1>2 DEF Middle, NewOps
<1>9. ASSUME NEW j \in Inums
      PROVE  /\ QuietHas(LastT(x), t, dino, j)
             /\ Holds(t, j) = Holds(LastT(x), j)
             /\ Total(t, j) = Total(LastT(x), j)
  <2>1. QuietHas(LastT(x), t, dino, j)
    BY <1>2, <1>3, <1>4, UndoQuiet DEF UndoFor
  <2>2. /\ Holds(LastT(x), j) = Is(o, j) + Is(i, j)
        /\ Total(LastT(x), j) = Is(o, j) + Is(i, j)
    BY <1>2, <1>3, <1>8, LastSums
  <2> QED BY <2>1, <2>2, <1>4 DEF UndoFor
<1>10. IInv /\ p \in Procs /\ x \in Instr /\ t \in Seq(Instr)
       /\ Static(x) /\ todo[p] = LastT(x)
       /\ dino' = dino /\ itab' = itab /\ Elsewhere
  BY <1>2
<1> QED BY ONLY <1>5, <1>6, <1>7, <1>8, <1>9, <1>10, SameStep, Zenon

(* dirlink() finds the name taken, and gives back the reference it got     *)
(* with it (fs.c:609).                                                     *)
LEMMA LinkTakenInv ==
  ASSUME IInv, NEW p \in Procs, LinkTaken(p) PROVE IInv'
<1>1. Ready(p, "linknew")
  BY DEF LinkTaken
<1>2. PICK x \in Instr :
           /\ It(p) = x /\ x.do = "linknew" /\ todo[p] = LastT(x)
           /\ Tail(todo[p]) = EndOp /\ Static(x) /\ GoalOk(dino, x)
           /\ \A j \in Inums : Needs(x, j) => Held(p, j)
  BY <1>1, MiddleIs DEF Middle, NewOps
<1>20. x.call \in Calls
  BY <1>2, InstrFields DEF NewOps
<1>3. PICK i \in Inums, o \in Inums : i = x.dp /\ o = x.ip
  BY <1>2, InstrFields DEF NewOps
<1>4. PICK n \in Inums : n = Found(x) /\ dino[n].nlink > 0
  <2>1. Found(x) # 0
    BY <1>2 DEF LinkTaken
  <2> QED BY <2>1, <1>20, <1>3, FoundIs
<1>5. PICK u \in Seq(Instr) : UndoFor(u, i, o)
  <2>1. x.do = "linknew" /\ x.dp = i /\ o = x.ip
    BY <1>2, <1>3
  <2> QED BY ONLY <2>1, x \in Instr, i \in Inums, UndoPick, Zenon
<1>6. /\ PutT(n, u) \in Seq(Instr)
      /\ \A j : Locking(PutT(n, u), j) <=> Locking(u, j)
      /\ \A r \in Roles \ {"use"} : \A j : Has(PutT(n, u), r, j) = Has(u, r, j)
      /\ \A F : WellFormed(u, F) => WellFormed(PutT(n, u), F)
      /\ \A d : GoalsOk(d, u) => GoalsOk(d, PutT(n, u))
  BY PutIs
<1>7. PICK t \in Seq(Instr) : t = PutT(n, u)
  BY <1>6
<1>8. ((<<On("put", n)>> \o iunlockput(i)) \o Undo(o)) \o EndOp = t
  <2>1. PICK a \in Seq(Instr), b \in Seq(Instr), c \in Seq(Instr),
             e \in Seq(Instr) :
          /\ a = <<On("put", n)>> /\ b = iunlockput(i) /\ c = Undo(o)
          /\ e = EndOp
    <3>1. <<On("put", n)>> \in Seq(Instr) /\ iunlockput(i) \in Seq(Instr)
          /\ Undo(o) \in Seq(Instr)
      BY OnIs DEF iunlockput, Undo, IpOps
    <3> QED BY <3>1, EndIs
  <2>2. b \o c \in Seq(Instr)
    BY ONLY <2>1, ConcatProperties
  <2>3. (a \o b) \o c = a \o (b \o c)
    BY ONLY <2>1, ConcatAssociative
  <2>4. (a \o (b \o c)) \o e = a \o ((b \o c) \o e)
    <3>1. PICK bc \in Seq(Instr) : bc = b \o c
      BY <2>2
    <3>2. (a \o bc) \o e = a \o (bc \o e)
      BY ONLY <2>1, <3>1, ConcatAssociative, SMTT(40)
    <3> QED BY <3>1, <3>2
  <2>5. a \o ((b \o c) \o e) = PutT(n, u)
    BY <2>1, <1>5 DEF UndoFor, PutT, Cons
  <2>6. ((a \o b) \o c) \o e = PutT(n, u)
    BY <2>3, <2>4, <2>5
  <2> QED BY <2>1, <2>6, <1>7
<1>9. todo' = [todo EXCEPT ![p] = t]
  BY <1>2, <1>3, <1>4, <1>8 DEF LinkTaken, Then
<1>10. dino' = dino /\ Elsewhere /\ iget(n)
  BY <1>2, <1>4 DEF LinkTaken
<1>11. WellFormed(t, HeldFile(p)) /\ GoalsOk(dino, t)
  BY <1>5, <1>6, <1>7 DEF UndoFor
<1>12. \A j \in Inums : Locking(t, j) <=> Needs(x, j)
  BY <1>2, <1>3, <1>5, <1>6, <1>7 DEF UndoFor, Needs, NewOps
<1>13. x.do \in Middle
  BY <1>2 DEF Middle, NewOps
<1>14. ASSUME NEW j \in Inums
       PROVE  /\ QuietHas(LastT(x), t, dino, j)
              /\ Holds(t, j) = Holds(LastT(x), j) + Is(n, j)
              /\ Total(t, j) = Total(LastT(x), j) + Is(n, j)
  <2>1. QuietHas(LastT(x), t, dino, j)
    <3>1. Has(t, "back", j) = Is(x.ip, j)
      <4>1. "back" \in Roles \ {"use"}
        BY DEF Roles
      <4> QED BY <4>1, <1>3, <1>5, <1>6, <1>7 DEF UndoFor
    <3>2. \A r \in Roles \ {"use", "back"} : Has(t, r, j) = 0
      BY <1>5, <1>6, <1>7 DEF UndoFor
    <3> QED BY <1>2, <3>1, <3>2, UndoQuiet
  <2>2. /\ Holds(LastT(x), j) = Is(o, j) + Is(i, j)
        /\ Total(LastT(x), j) = Is(o, j) + Is(i, j)
    BY <1>2, <1>3, <1>13, LastSums
  <2>3. /\ Holds(t, j) = Holds(u, j) + Is(n, j)
        /\ Total(t, j) = Total(u, j) + Is(n, j)
    BY <1>7, PutSums
  <2> QED BY <2>1, <2>2, <2>3, <1>5 DEF UndoFor
<1>15. IInv /\ p \in Procs /\ x \in Instr /\ x.do \in Middle /\ Static(x)
       /\ todo[p] = LastT(x) /\ t \in Seq(Instr) /\ n \in Inums
       /\ dino[n].nlink > 0
  BY <1>2, <1>4, <1>13
<1> QED BY ONLY <1>9, <1>10, <1>11, <1>12, <1>14, <1>15, GetStep, Zenon

(* A directory does not have its own name.                                 *)
LEMMA NotOwn ==
  ASSUME NEW d, Tree(d), NEW i \in Inums, NEW e \in Names
  PROVE  d[i].ents[e] # i
<1>1. {i} \in (SUBSET Inums) \ {{}}
  OBVIOUS
<1>2. PICK k \in {i} : \A n \in Names : d[k].ents[n] \notin {i}
  BY <1>1 DEF Tree, NoCircle
<1> QED BY <1>2

(* What unlink() and create() do once both inodes are locked.              *)
BothFor(t, i, n, g, d) ==
  /\ <<On("lock", n), g>> \o EndOp = t
  /\ \A j : Locking(t, j) <=> j = i
  /\ \A F : WellFormed(t, F)
  /\ GoalsOk(d, t)
  /\ \A r \in Roles : \A j : Has(t, r, j) = Weight(g, r, j)
  /\ \A j : Holds(t, j) = Holds(LastT(g), j)
  /\ \A j : Total(t, j) = Total(LastT(g), j)

(* There is a list that does that.                                         *)
LEMMA BothPick ==
  ASSUME NEW i \in Inums, NEW n \in Inums, i # n, NEW g \in Instr,
         g.do \in {"remove", "fill"}, g.ip = n, g.dp = i, Static(g),
         NEW d, GoalOk(d, g)
  PROVE  \E t \in Seq(Instr) : BothFor(t, i, n, g, d)
<1>1. g.do \in Middle
  BY DEF Middle, NewOps
<1>2. /\ LastT(g) \in Seq(Instr) /\ LastT(g) # <<>>
      /\ Head(LastT(g)) = g /\ Tail(LastT(g)) = EndOp
      /\ \A j : Locking(LastT(g), j) <=> Needs(g, j)
      /\ \A F : WellFormed(LastT(g), F)
      /\ GoalsOk(d, LastT(g))
      /\ \A j : (\E r \in {"use", "back", "old", "dir", "new"} :
                   Plays(g, r, j)) => Keeps(LastT(g), j)
  BY <1>1, LastIs
<1>3. \A r, j : Has(LastT(g), r, j) = Weight(g, r, j)
  BY <1>1, LastIs
<1>4. PICK s \in Seq(Instr) : s = LastT(g)
  BY <1>2
<1>5. \A j : Needs(g, j) <=> j = i \/ j = n
  BY DEF Needs, NewOps, DirOps
<1>6. OfLock(On("lock", n), s)
  <2>1. On("lock", n).ip = n
    BY DEF On
  <2>2. Locking(s, n)
    BY <1>2, <1>4, <1>5
  <2>3. Keeps(s, n)
    <3>1. Plays(g, "use", n) \/ Plays(g, "new", n)
      BY DEF Plays, UseOps
    <3> QED BY <3>1, <1>2, <1>4
  <2>4. Has(s, "forget", n) = 0 /\ Has(s, "pair", n) = 0
    <3>1. ~Plays(g, "forget", n) /\ ~Plays(g, "pair", n)
      BY DEF Plays
    <3> QED BY <3>1, <1>3, <1>4 DEF Weight
  <2>5. s # <<>> /\ Tail(s) = EndOp /\ Head(s) = g
    BY <1>2, <1>4
  <2> QED BY <2>1, <2>2, <2>3, <2>4, <2>5 DEF OfLock
<1>7. /\ LockT(n, s) \in Seq(Instr)
      /\ \A j : Locking(LockT(n, s), j) <=> j # n /\ Locking(s, j)
      /\ \A r \in Roles : \A j : Has(LockT(n, s), r, j) = Has(s, r, j)
      /\ \A F : OfLock(On("lock", n), s) /\ WellFormed(s, F)
                     => WellFormed(LockT(n, s), F)
      /\ \A e : GoalsOk(e, s) => GoalsOk(e, LockT(n, s))
  BY LockIs
<1>8. PICK t \in Seq(Instr) : t = LockT(n, s)
  BY <1>7
<1>9. <<On("lock", n), g>> \o EndOp = t
  BY <1>4, <1>8, EmptyIs, Written
<1>10. \A j : Locking(t, j) <=> j = i
  BY <1>2, <1>4, <1>5, <1>7, <1>8
<1>11. (\A F : WellFormed(t, F)) /\ GoalsOk(d, t)
  BY <1>2, <1>4, <1>6, <1>7, <1>8
<1>12. \A r \in Roles : \A j : Has(t, r, j) = Weight(g, r, j)
  BY <1>3, <1>4, <1>7, <1>8
<1>13. \A j : Holds(t, j) = Holds(LastT(g), j) /\ Total(t, j) = Total(LastT(g), j)
  BY <1>4, <1>8, LockSums
<1> QED BY <1>9, <1>10, <1>11, <1>12, <1>13 DEF BothFor

(* unlink() has found the entry and takes a reference (sysfile.c:211): a   *)
(* name in a directory is not the directory, so its lock comes second.     *)
LEMMA UnlinkInv ==
  ASSUME IInv, NEW p \in Procs, Unlink(p) PROVE IInv'
<1>1. Ready(p, "unlink")
  BY DEF Unlink
<1>2. PICK x \in Instr :
           /\ It(p) = x /\ x.do = "unlink" /\ todo[p] = LastT(x)
           /\ Tail(todo[p]) = EndOp /\ Static(x) /\ GoalOk(dino, x)
           /\ \A j \in Inums : Needs(x, j) => Held(p, j)
  BY <1>1, MiddleIs DEF Middle, DirOps
<1>3. /\ x.dp \in Inums /\ x.call \in Calls /\ x.do \in Middle /\ x.do \in DirOps
      /\ x.do \notin OldOps
  BY <1>2, InstrFields DEF Middle, DirOps, OldOps
<1>4. PICK i \in Inums, call \in Calls : i = x.dp /\ call = x.call
  BY <1>3
<1>5. dino' = dino /\ Elsewhere
  BY DEF Unlink
<1>6. CASE NameOf(call) \notin Names \/ Found(x) = 0
  <2>1. Then(p, iunlockput(i)) /\ itab' = itab
    BY <1>2, <1>4, <1>6 DEF Unlink
  <2>2. x.do \in OldOps \cup DirOps /\ i = (IF x.do \in OldOps THEN x.ip ELSE x.dp)
    BY <1>3, <1>4
  <2>3. Static(x) /\ todo[p] = LastT(x) /\ Tail(todo[p]) = EndOp
    BY <1>2
  <2>4. IInv /\ p \in Procs /\ x \in Instr
    OBVIOUS
  <2> QED BY ONLY <1>5, <2>1, <2>2, <2>3, <2>4, OneDone, Zenon
<1>7. CASE NameOf(call) \in Names /\ Found(x) # 0
  <2>1. PICK n \in Inums : n = Found(x) /\ dino[n].nlink > 0
    BY <1>3, <1>7, FoundIs
  <2>2. n = dino[i].ents[NameOf(call)]
    BY <1>4, <2>1 DEF Found
  <2>3. i # n
    BY <1>7, <2>2, NotOwn DEF IInv, DiskInv
  <2>4. PICK g \in Instr :
          /\ g = Goal("remove", i, n, call)
          /\ g.do = "remove" /\ g.dp = i /\ g.ip = n /\ g.call = call
    <3>1. Goal("remove", i, n, call) \in GoalsOf(NewOps, Inums, Inums)
      BY DEF Goal, GoalsOf, NewOps
    <3>2. PICK g \in Instr : g = Goal("remove", i, n, call)
      BY <3>1 DEF Instr
    <3> QED BY <3>2 DEF Goal
  <2>5. Static(g) /\ GoalOk(dino, g)
    <3>1. dino[i].ents[".."] # 0
      BY <1>2, <1>4 DEF GoalOk
    <3> QED BY <1>7, <2>2, <2>3, <2>4, <3>1 DEF Static, GoalOk
  <2>6. PICK t \in Seq(Instr) : BothFor(t, i, n, g, dino)
    BY <2>3, <2>4, <2>5, BothPick
  <2>7. todo' = [todo EXCEPT ![p] = t]
    <3>1. Then(p, <<On("lock", n), g>>)
      BY <1>2, <1>4, <1>7, <2>1, <2>4 DEF Unlink
    <3> QED BY <3>1, <2>6, <1>2 DEF Then, BothFor
  <2>8. iget(n)
    BY <1>2, <1>4, <1>7, <2>1 DEF Unlink
  <2>9. WellFormed(t, HeldFile(p)) /\ GoalsOk(dino, t)
    BY <2>6 DEF BothFor
  <2>10. \A j \in Inums : Locking(t, j) <=> Needs(x, j)
    BY <1>2, <1>4, <2>6 DEF BothFor, Needs, NewOps, DirOps
  <2>11. ASSUME NEW j \in Inums
         PROVE  /\ QuietHas(LastT(x), t, dino, j)
                /\ Holds(t, j) = Holds(LastT(x), j) + Is(n, j)
                /\ Total(t, j) = Total(LastT(x), j) + Is(n, j)
    <3>1. PICK a \in {0, 1}, c \in {0, 1} : a = Is(n, j) /\ c = Is(i, j)
      BY DEF Is
    <3>2. /\ Holds(LastT(x), j) = c /\ Total(LastT(x), j) = c
      BY <1>2, <1>3, <1>4, <3>1, LastSums
    <3>3. /\ Holds(LastT(g), j) = a + c /\ Total(LastT(g), j) = a + c
      <4>1. g.do \in Middle
        BY <2>4 DEF Middle, NewOps
      <4> QED BY <2>4, <2>5, <3>1, <4>1, LastSums
    <3>4. /\ Has(t, "erase", j) = 0 /\ Has(t, "forget", j) = 0
          /\ Has(t, "new", j) = 0 /\ Has(t, "dir", j) = c
          /\ Has(t, "back", j) = 0 /\ Has(t, "old", j) = 0
      BY <2>4, <2>6, <3>1, Weights DEF Roles, BothFor
    <3>5. /\ Weight(x, "new", j) = 0
          /\ Weight(x, "back", j) = 0 /\ Weight(x, "old", j) = 0
          /\ Weight(x, "dir", j) = c
      BY <1>3, <1>4, <3>1, Weights DEF Roles
    <3>6. QuietHas(LastT(x), t, dino, j)
      <4>1. /\ Has(t, "new", j) <= Weight(x, "new", j)
            /\ Has(t, "dir", j) <= Weight(x, "dir", j)
            /\ Has(t, "old", j) <= Weight(x, "old", j)
            /\ Has(t, "back", j) + Has(t, "old", j)
                 <= Weight(x, "back", j) + Weight(x, "old", j)
        BY <3>1, <3>4, <3>5
      <4> QED BY <1>2, <1>3, <3>4, <4>1, QuietWeights
    <3>7. a + c = c + a
      BY <3>1
    <3> QED BY <2>6, <3>1, <3>2, <3>3, <3>6, <3>7 DEF BothFor
  <2>12. IInv /\ p \in Procs /\ x \in Instr /\ x.do \in Middle /\ Static(x)
         /\ todo[p] = LastT(x) /\ t \in Seq(Instr) /\ n \in Inums
         /\ dino[n].nlink > 0
    BY <1>2, <1>3, <2>1
  <2> QED BY ONLY <1>5, <2>7, <2>8, <2>9, <2>10, <2>11, <2>12, GetStep, Zenon
<1> QED BY <1>6, <1>7

(* A call that has a directory and another inode locked gives up.          *)
LEMMA RemoveFailsInv ==
  ASSUME IInv, NEW p \in Procs, RemoveFails(p) PROVE IInv'
<1>1. Ready(p, "remove")
  BY DEF RemoveFails
<1>2. PICK x \in Instr :
           /\ It(p) = x /\ x.do = "remove" /\ todo[p] = LastT(x)
           /\ Tail(todo[p]) = EndOp /\ Static(x) /\ GoalOk(dino, x)
           /\ \A j \in Inums : Needs(x, j) => Held(p, j)
  BY <1>1, MiddleIs DEF Middle, NewOps
<1>3. x.dp \in Inums /\ x.ip \in Inums /\ x.call \in Calls /\ x.do \in Middle
  BY <1>2, InstrFields DEF Middle, NewOps
<1>4. PICK i \in Inums, n \in Inums : i = x.dp /\ n = x.ip /\ i # n
  BY <1>2, <1>3 DEF Static
<1>5. itab[n].nlink > 0
  <2>1. Found(x) = n /\ n # 0
    BY <1>2, <1>4 DEF Found, GoalOk, Inums
  <2>2. dino[n].nlink > 0
    BY <2>1, <1>3, FoundIs
  <2>3. Needs(x, n)
    BY <1>2, <1>4 DEF Needs
  <2> QED BY <1>2, <2>2, <2>3 DEF Held
<1>6. /\ dino' = dino /\ itab' = itab /\ Elsewhere
      /\ todo' = [todo EXCEPT ![p] = (iunlockput(n) \o iunlockput(i)) \o EndOp]
  <2>1. itab[n].nlink \in Nat
    BY DEF IInv, TypesInv, SlotType
  <2>2. panic' = "" /\ panic = ""
    <3>1. ~(itab[n].nlink < 1)
      BY <1>5, <2>1
    <3>2. panic = ""
      BY DEF IInv, NoPanic
    <3> QED BY <3>1, <3>2, <1>2, <1>4 DEF RemoveFails
  <2> QED BY <1>2, <1>4, <2>2 DEF RemoveFails, Then, Elsewhere
<1>7. PICK u \in Seq(Instr) : u = DoneT(i, EndOp) /\ DoneFor(u, i, EndOp)
  BY EndIs, DonePick
<1>8. PICK t \in Seq(Instr) : t = DoneT(n, u) /\ DoneFor(t, n, u)
  <2>1. ~Locking(u, n)
    BY <1>4, <1>7, EndIs DEF DoneFor
  <2> QED BY <2>1, DonePick
<1>9. todo' = [todo EXCEPT ![p] = t]
  <2>1. PICK v \in Seq(Instr), e \in Seq(Instr) : v = iunlockput(i) /\ e = EndOp
    BY EndIs, Written
  <2>2. (iunlockput(n) \o v) \o e = DoneT(n, v \o e)
    BY ONLY n \in Inums, v \in Seq(Instr), e \in Seq(Instr), WrittenDone
  <2>3. v \o e = u
    BY <1>7, <2>1, Written
  <2> QED BY <1>6, <1>8, <2>1, <2>2, <2>3
<1>10. WellFormed(t, HeldFile(p)) /\ GoalsOk(dino, t)
  BY <1>7, <1>8, EndIs, DoneEnd DEF DoneFor
<1>11. \A j \in Inums : Locking(t, j) <=> Needs(x, j)
  BY <1>2, <1>4, <1>7, <1>8, EndIs DEF DoneFor, Needs, NewOps
<1>12. ASSUME NEW j \in Inums
       PROVE  /\ QuietHas(LastT(x), t, dino, j)
              /\ Holds(t, j) = Holds(LastT(x), j)
              /\ Total(t, j) = Total(LastT(x), j)
  <2>1. PICK a \in {0, 1}, c \in {0, 1} : a = Is(n, j) /\ c = Is(i, j)
    BY DEF Is
  <2>2. /\ Holds(LastT(x), j) = a + c /\ Total(LastT(x), j) = a + c
    BY <1>2, <1>3, <1>4, <2>1, LastSums
  <2>3. Holds(t, j) = (0 + c) + a /\ Total(t, j) = (0 + c) + a
    BY <1>7, <1>8, <2>1, EndSums DEF DoneFor
  <2>4. /\ Has(t, "erase", j) = 0 /\ Has(t, "forget", j) = 0
        /\ Has(t, "new", j) = 0 /\ Has(t, "dir", j) = 0
        /\ Has(t, "back", j) = 0 /\ Has(t, "old", j) = 0
    BY <1>7, <1>8, EndIs DEF Roles, DoneFor
  <2>5. /\ Weight(x, "new", j) = 0
        /\ Weight(x, "back", j) = 0 /\ Weight(x, "old", j) = 0
        /\ Weight(x, "dir", j) = c
    BY <1>2, <1>4, <2>1, Weights DEF Roles
  <2>6. /\ Has(t, "new", j) <= Weight(x, "new", j)
        /\ Has(t, "dir", j) <= Weight(x, "dir", j)
        /\ Has(t, "old", j) <= Weight(x, "old", j)
        /\ Has(t, "back", j) + Has(t, "old", j)
             <= Weight(x, "back", j) + Weight(x, "old", j)
    BY <2>1, <2>4, <2>5
  <2>7. QuietHas(LastT(x), t, dino, j)
    BY <1>2, <1>3, <2>4, <2>6, QuietWeights
  <2>8. (0 + c) + a = a + c
    BY <2>1
  <2> QED BY <2>2, <2>3, <2>7, <2>8
<1>13. IInv /\ p \in Procs /\ x \in Instr /\ t \in Seq(Instr)
       /\ Static(x) /\ todo[p] = LastT(x)
       /\ dino' = dino /\ itab' = itab /\ Elsewhere /\ x.do \in Middle
  BY <1>2, <1>3, <1>6
<1> QED BY ONLY <1>9, <1>10, <1>11, <1>12, <1>13, SameStep, Zenon

-----------------------------------------------------------------------------
(* Steps on locks, slots and open files.                                   *)

(* A step that may lock, read and unlock inodes, and leaves the disk alone. *)
StillHas(s, t, d, i) ==
  /\ Has(t, "new", i) <= Has(s, "new", i)
  /\ Has(t, "erase", i) <= Has(s, "erase", i)
  /\ Has(t, "dir", i) <= Has(s, "dir", i) \/ d[i].type = "dir"
  /\ Has(t, "old", i) <= Has(s, "old", i)
  /\ Has(t, "back", i) + Has(t, "old", i) <= Has(s, "back", i) + Has(s, "old", i)

(* From the lists of one process to the counts.                            *)
LEMMA StillFrom ==
  ASSUME NEW td \in Todos, NEW p \in Procs, NEW t \in Seq(Instr),
         NEW ue, ue = [td EXCEPT ![p] = t], NEW d, NEW i, StillHas(td[p], t, d, i)
  PROVE  QuietCounts(td, ue, d, i)
<1>1. \A role : Replaced(td, ue, p, t, role, i)
  BY CountStep
<1>20. Replaced(td, ue, p, t, "new", i)
  BY <1>1
<1>2. PICK a1, b1, c1, d1 \in Nat :
           /\ a1 = Count(ue, "new", i) /\ b1 = Has(td[p], "new", i)
           /\ c1 = Count(td, "new", i) /\ d1 = Has(t, "new", i)
           /\ a1 + b1 = c1 + d1 /\ b1 <= c1
  BY ONLY <1>20, Figures
<1>30. Replaced(td, ue, p, t, "erase", i)
  BY <1>1
<1>3. PICK a2, b2, c2, d2 \in Nat :
           /\ a2 = Count(ue, "erase", i) /\ b2 = Has(td[p], "erase", i)
           /\ c2 = Count(td, "erase", i) /\ d2 = Has(t, "erase", i)
           /\ a2 + b2 = c2 + d2 /\ b2 <= c2
  BY ONLY <1>30, Figures
<1>50. Replaced(td, ue, p, t, "dir", i)
  BY <1>1
<1>5. PICK a4, b4, c4, d4 \in Nat :
           /\ a4 = Count(ue, "dir", i) /\ b4 = Has(td[p], "dir", i)
           /\ c4 = Count(td, "dir", i) /\ d4 = Has(t, "dir", i)
           /\ a4 + b4 = c4 + d4 /\ b4 <= c4
  BY ONLY <1>50, Figures
<1>60. Replaced(td, ue, p, t, "back", i)
  BY <1>1
<1>6. PICK a5, b5, c5, d5 \in Nat :
           /\ a5 = Count(ue, "back", i) /\ b5 = Has(td[p], "back", i)
           /\ c5 = Count(td, "back", i) /\ d5 = Has(t, "back", i)
           /\ a5 + b5 = c5 + d5 /\ b5 <= c5
  BY ONLY <1>60, Figures
<1>70. Replaced(td, ue, p, t, "old", i)
  BY <1>1
<1>7. PICK a6, b6, c6, d6 \in Nat :
           /\ a6 = Count(ue, "old", i) /\ b6 = Has(td[p], "old", i)
           /\ c6 = Count(td, "old", i) /\ d6 = Has(t, "old", i)
           /\ a6 + b6 = c6 + d6 /\ b6 <= c6
  BY ONLY <1>70, Figures
<1>8. /\ d1 <= b1 /\ d2 <= b2 /\ (d4 <= b4 \/ d[i].type = "dir")
      /\ d6 <= b6 /\ d5 + d6 <= b5 + b6
  BY <1>2, <1>3, <1>5, <1>6, <1>7 DEF StillHas
<1>9. a1 <= c1
  BY ONLY <1>2, <1>8
<1>10. a2 <= c2
  BY ONLY <1>3, <1>8
<1>11. a4 <= c4 \/ d[i].type = "dir"
  <2>1. CASE d4 <= b4
    BY ONLY <1>5, <2>1
  <2>2. CASE d[i].type = "dir"
    BY <2>2
  <2> QED BY <1>8, <2>1, <2>2
<1>12. a6 <= c6
  BY ONLY <1>7, <1>8
<1>13. a5 + a6 <= c5 + c6
  <2>1. d5 + d6 <= b5 + b6
    BY <1>8
  <2>2. a5 + b5 = c5 + d5 /\ a6 + b6 = c6 + d6
    BY <1>6, <1>7
  <2> QED BY ONLY <2>1, <2>2
<1> QED BY <1>2, <1>3, <1>5, <1>6, <1>7, <1>9, <1>10, <1>11, <1>12, <1>13
   DEF QuietCounts

(* Uses that are new are those of the process.                             *)
LEMMA UsesAfter ==
  ASSUME NEW td \in Todos, NEW p \in Procs, NEW t \in Seq(Instr),
         NEW ue, ue = [td EXCEPT ![p] = t], NEW i,
         Uses(ue, i) > 0, Uses(td, i) = 0
  PROVE  Holds(t, i) > 0
<1>1. UsesMoved(td, ue, p, t, i)
  BY UsesStep
<1>2. PICK u, h, v, k \in Nat :
         /\ u = Uses(ue, i) /\ h = Holds(td[p], i)
         /\ v = Uses(td, i) /\ k = Holds(t, i)
         /\ u + h = v + k /\ h <= v
  BY ONLY <1>1, UsesFigures
<1>3. u > 0 /\ v = 0
  BY <1>2
<1>4. k > 0
  BY ONLY <1>2, <1>3
<1> QED BY <1>2, <1>4

(* What becomes of a slot: it is as it was, says what the disk says, or is *)
(* not valid.                                                              *)
SameSlot(i) == /\ itab'[i].valid = itab[i].valid
               /\ itab'[i].type = itab[i].type
               /\ itab'[i].nlink = itab[i].nlink
Agrees(s, t, i) ==
  \/ ~itab'[i].valid
  \/ /\ dino[i].type # "free"
     /\ itab'[i].type = dino[i].type /\ itab'[i].nlink = dino[i].nlink
  \/ SameSlot(i) /\ Has(t, "forget", i) = Has(s, "forget", i)
Slotted(s, t, i) ==
  /\ StillHas(s, t, dino, i)
  /\ itab'[i].ref + Total(s, i) = itab[i].ref + Total(t, i)
  /\ Holds(t, i) > 0 =>
       \/ Holds(s, i) > 0
       \/ dino[i].type # "free" /\ Count(todo, "new", i) = 0
  /\ itab'[i].ref = itab[i].ref \/ Count(todo, "erase", i) = 0
  /\ Agrees(s, t, i)
  /\ lock'[i] # Nobody => itab'[i].valid

(* A step that leaves the disk and the open files alone, but may change    *)
(* locks and slots.                                                        *)
LEMMA SlotStep ==
  ASSUME IInv, NEW p \in Procs, NEW t \in Seq(Instr),
         todo' = [todo EXCEPT ![p] = t],
         dino' = dino, disk' \in {disk, dino}, ftab' = ftab, fd' = fd,
         panic' = "", ops' \subseteq Procs,
         calls' \in [Procs -> Nat], scan' \in 0 .. NINODES + 1,
         WellFormed(t, HeldFile(p)), GoalsOk(dino, t),
         lock' \in [Inums -> Procs \cup {Nobody}],
         \A j \in Inums : lock'[j] = p <=> Locking(t, j),
         \A j \in Inums, q \in Procs \ {p} : lock'[j] = q <=> lock[j] = q,
         itab' \in [Inums -> SlotType],
         \A i \in Inums : Slotted(todo[p], t, i)
  PROVE  IInv'
<1> USE DEF IInv
<1>0. TypesInv /\ todo \in Todos /\ todo[p] \in Seq(Instr) /\ todo' \in Todos
  BY DEF TypesInv, Todos
<1>1. todo' \in Todos /\ TodoInv' /\ LockInv' /\ FileInv'
  BY LocalStep
<1>2. GoalInv'
  <2>1. \A q \in Procs \ {p} : GoalsOk(dino', todo[q])
    BY DEF GoalInv
  <2> QED BY <2>1, GoalStep
<1>3. TypesInv'
  BY <1>1 DEF TypesInv
<1>4. DiskInv'
  BY DEF DiskInv
<1>5. PICK ue \in Todos : ue = todo' /\ ue = [todo EXCEPT ![p] = t]
  BY <1>0
<1>6. ASSUME NEW i \in Inums PROVE InodeOk(i)'
  <2>1. InodeOk(i) /\ Slotted(todo[p], t, i)
    BY DEF InodesInv
  <2>2. QuietCounts(todo, todo', dino, i)
    BY <1>0, <1>5, <2>1, StillFrom DEF Slotted
  <2>3. RefInv(i)'
    <3>1. RefInv(i) /\ itab[i].ref \in Nat /\ itab'[i].ref \in Nat
      BY <2>1 DEF InodeOk, TypesInv, SlotType
    <3>2. itab'[i].ref + Total(todo[p], i) = itab[i].ref + Total(t, i)
      BY <2>1 DEF Slotted
    <3> QED BY <1>0, <3>1, <3>2, RefStep
  <2>4. AgreeInv(i)'
    <3>1. Replaced(todo, ue, p, t, "forget", i)
      BY <1>0, <1>5, CountStep
    <3>2. PICK a, b, c, d \in Nat :
           /\ a = Count(ue, "forget", i) /\ b = Has(todo[p], "forget", i)
           /\ c = Count(todo, "forget", i) /\ d = Has(t, "forget", i)
           /\ a + b = c + d /\ b <= c
      BY ONLY <3>1, Figures
    <3>3. Has(t, "forget", i) = Has(todo[p], "forget", i) =>
            Count(ue, "forget", i) = Count(todo, "forget", i)
      <4>1. b = d => a = c
        BY ONLY <3>2
      <4> QED BY <3>2, <4>1
    <3>4. Agrees(todo[p], t, i) /\ AgreeInv(i)
      BY <2>1 DEF Slotted, InodeOk
    <3> QED BY <1>5, <3>3, <3>4 DEF Agrees, AgreeInv, SameSlot
  <2>5. HeldInv(i)'
    BY <2>1 DEF Slotted, HeldInv
  <2>6. /\ Uses(todo, i) \in Nat /\ Uses(ue, i) \in Nat
        /\ FilesOf(ftab, i) \in Nat /\ FilesOf(ftab', i) = FilesOf(ftab, i)
    BY <1>0, UsesNat, FilesOfNat
  <2>7. Uses(ue, i) + FilesOf(ftab', i) > 0 =>
           \/ Uses(todo, i) + FilesOf(ftab, i) > 0
           \/ dino[i].type # "free" /\ Count(todo, "new", i) = 0
    <3>1. SUFFICES ASSUME Uses(ue, i) + FilesOf(ftab', i) > 0,
                          ~(Uses(todo, i) + FilesOf(ftab, i) > 0)
                   PROVE  dino[i].type # "free" /\ Count(todo, "new", i) = 0
      OBVIOUS
    <3>2. Uses(todo, i) = 0 /\ Uses(ue, i) > 0
      BY ONLY <2>6, <3>1
    <3>3. Holds(t, i) > 0
      BY <1>0, <1>5, <3>2, UsesAfter
    <3>4. ~(Holds(todo[p], i) > 0)
      <4>1. UsesMoved(todo, ue, p, t, i)
        BY <1>0, <1>5, UsesStep
      <4>2. PICK u, h, v, k \in Nat :
         /\ u = Uses(ue, i) /\ h = Holds(todo[p], i)
         /\ v = Uses(todo, i) /\ k = Holds(t, i)
         /\ u + h = v + k /\ h <= v
        BY ONLY <4>1, UsesFigures
      <4>3. h = 0
        <5>1. v = 0
          BY <3>2, <4>2
        <5> QED BY ONLY <4>2, <5>1
      <4> QED BY ONLY <4>2, <4>3
    <3> QED BY <2>1, <3>3, <3>4 DEF Slotted
  <2>8. Count(ue, "erase", i) > 0 => itab'[i].ref = itab[i].ref
    <3>1. Count(ue, "erase", i) <= Count(todo, "erase", i)
          /\ Count(ue, "erase", i) \in Nat /\ Count(todo, "erase", i) \in Nat
      BY <1>0, <1>5, <2>2, UsesNat DEF QuietCounts
    <3>2. itab'[i].ref = itab[i].ref \/ Count(todo, "erase", i) = 0
      BY <2>1 DEF Slotted
    <3> QED BY ONLY <3>1, <3>2
  <2>9. /\ Uses(todo', i) + FilesOf(ftab', i) > 0 =>
           \/ Uses(todo, i) + FilesOf(ftab, i) > 0
           \/ dino[i].type # "free" /\ Count(todo, "new", i) = 0
        /\ Count(todo', "erase", i) > 0 => itab'[i].ref = itab[i].ref
    BY <1>5, <2>7, <2>8
  <2>10. TypesInv /\ DiskInv /\ todo' \in Todos /\ i \in Inums /\ InodeOk(i)
         /\ dino' = dino
    BY <1>1, <2>1
  <2> QED BY ONLY <2>2, <2>3, <2>4, <2>5, <2>9, <2>10, QuietInode, Zenon
<1> QED BY <1>1, <1>2, <1>3, <1>4, <1>6 DEF NoPanic, InodesInv

(* What goes with the first instruction.                                   *)
LEMMA PopIs ==
  ASSUME NEW x \in Instr, NEW s \in Seq(Instr), NEW i
  PROVE  /\ \A r \in Roles : Has(Cons(x, s), r, i) = Has(s, r, i) + Weight(x, r, i)
         /\ \A r \in Roles : Has(s, r, i) \in Nat /\ Weight(x, r, i) \in {0, 1}
         /\ Holds(Cons(x, s), i) = Holds(s, i) + Weight(x, "use", i)
              + Weight(x, "back", i) + Weight(x, "old", i) + Weight(x, "dir", i)
         /\ Total(Cons(x, s), i) = Total(s, i) + Weight(x, "use", i)
              + Weight(x, "back", i) + Weight(x, "old", i) + Weight(x, "dir", i)
              + Weight(x, "new", i) + Weight(x, "drop", i)
         /\ Holds(s, i) \in Nat /\ Total(s, i) \in Nat
         /\ \A d : StillHas(Cons(x, s), s, d, i)
<1>1. \A r \in Roles : Has(Cons(x, s), r, i) = Has(s, r, i) + Weight(x, r, i)
                       /\ Has(s, r, i) \in Nat
  BY ConsHas
<1>2. \A r : Weight(x, r, i) \in {0, 1}
  BY DEF Weight
<1>3. PICK a1, a2, a3, a4, a5, a6, a7 \in Nat :
        /\ a1 = Has(s, "use", i) /\ a2 = Has(s, "back", i)
        /\ a3 = Has(s, "old", i) /\ a4 = Has(s, "dir", i)
        /\ a5 = Has(s, "new", i) /\ a6 = Has(s, "drop", i)
        /\ a7 = Has(s, "erase", i)
  BY <1>1 DEF Roles
<1>4. PICK b1, b2, b3, b4, b5, b6, b7 \in Nat :
        /\ b1 = Weight(x, "use", i) /\ b2 = Weight(x, "back", i)
        /\ b3 = Weight(x, "old", i) /\ b4 = Weight(x, "dir", i)
        /\ b5 = Weight(x, "new", i) /\ b6 = Weight(x, "drop", i)
        /\ b7 = Weight(x, "erase", i)
  BY DEF Weight
<1>5. PICK t \in Seq(Instr) : t = Cons(x, s)
  BY ConsIs
<1>6. /\ Has(t, "use", i) = a1 + b1 /\ Has(t, "back", i) = a2 + b2
      /\ Has(t, "old", i) = a3 + b3 /\ Has(t, "dir", i) = a4 + b4
      /\ Has(t, "new", i) = a5 + b5 /\ Has(t, "drop", i) = a6 + b6
      /\ Has(t, "erase", i) = a7 + b7
  BY <1>1, <1>3, <1>4, <1>5 DEF Roles
<1>7. Holds(t, i) = Holds(s, i) + b1 + b2 + b3 + b4 /\ Holds(s, i) \in Nat
  <2>1. /\ Holds(s, i) = a1 + a2 + a3 + a4
        /\ Holds(t, i) = (a1 + b1) + (a2 + b2) + (a3 + b3) + (a4 + b4)
    BY <1>3, <1>6 DEF Holds
  <2>2. /\ (a1 + b1) + (a2 + b2) + (a3 + b3) + (a4 + b4)
           = (a1 + a2 + a3 + a4) + b1 + b2 + b3 + b4
        /\ a1 + a2 + a3 + a4 \in Nat
    BY ONLY a1 \in Nat, a2 \in Nat, a3 \in Nat, a4 \in Nat, a5 \in Nat,
            a6 \in Nat, a7 \in Nat, b1 \in Nat, b2 \in Nat, b3 \in Nat,
            b4 \in Nat, b5 \in Nat, b6 \in Nat, b7 \in Nat
  <2> QED BY <2>1, <2>2
<1>8. Total(t, i) = Total(s, i) + b1 + b2 + b3 + b4 + b5 + b6 /\ Total(s, i) \in Nat
  <2>0. PICK h, k \in Nat : h = Holds(s, i) /\ k = Holds(t, i)
                            /\ k = h + b1 + b2 + b3 + b4
    BY <1>7
  <2>9. k = h + b1 + b2 + b3 + b4
    BY <2>0
  <2>1. /\ Total(s, i) = h + a5 + a6
        /\ Total(t, i) = k + (a5 + b5) + (a6 + b6)
    BY <1>3, <1>6, <2>0 DEF Total
  <2>2. /\ k + (a5 + b5) + (a6 + b6)
           = (h + a5 + a6) + b1 + b2 + b3 + b4 + b5 + b6
        /\ h + a5 + a6 \in Nat
    BY ONLY h \in Nat, k \in Nat, <2>9,
            a1 \in Nat, a2 \in Nat, a3 \in Nat, a4 \in Nat, a5 \in Nat,
            a6 \in Nat, a7 \in Nat, b1 \in Nat, b2 \in Nat, b3 \in Nat,
            b4 \in Nat, b5 \in Nat, b6 \in Nat, b7 \in Nat
  <2> QED BY <2>1, <2>2
<1>9. \A d : StillHas(t, s, d, i)
  <2>1. /\ a5 <= a5 + b5 /\ a7 <= a7 + b7 /\ a4 <= a4 + b4 /\ a3 <= a3 + b3
        /\ a2 + a3 <= (a2 + b2) + (a3 + b3)
    BY ONLY a1 \in Nat, a2 \in Nat, a3 \in Nat, a4 \in Nat, a5 \in Nat,
            a6 \in Nat, a7 \in Nat, b1 \in Nat, b2 \in Nat, b3 \in Nat,
            b4 \in Nat, b5 \in Nat, b6 \in Nat, b7 \in Nat
  <2> QED BY <1>3, <1>6, <2>1 DEF StillHas
<1> QED BY <1>1, <1>2, <1>4, <1>5, <1>7, <1>8, <1>9

(* An instruction is over.                                                 *)
Popped(x, s, i) ==
  /\ itab'[i].ref + Weight(x, "use", i) + Weight(x, "drop", i) = itab[i].ref
  /\ itab'[i].ref = itab[i].ref \/ Count(todo, "erase", i) = 0
  /\ Agrees(Cons(x, s), s, i)
  /\ lock'[i] # Nobody => itab'[i].valid

(* The same when the next instruction is done and nothing takes its place. *)
LEMMA PopStep ==
  ASSUME IInv, NEW p \in Procs, NEW x \in Instr, NEW s \in Seq(Instr),
         x.do \in {"begin", "end", "lock", "unlock", "put", "forget", "drop"},
         todo[p] = Cons(x, s), WellFormed(s, HeldFile(p)), GoalsOk(dino, s),
         Then(p, <<>>), dino' = dino, disk' \in {disk, dino}, ftab' = ftab,
         fd' = fd, panic' = "", ops' \subseteq Procs, calls' = calls,
         scan' = scan,
         lock' \in [Inums -> Procs \cup {Nobody}],
         \A j \in Inums : lock'[j] = p <=> Locking(s, j),
         \A j \in Inums, q \in Procs \ {p} : lock'[j] = q <=> lock[j] = q,
         itab' \in [Inums -> SlotType],
         \A i \in Inums : Popped(x, s, i)
  PROVE  IInv'
<1>1. todo' = [todo EXCEPT ![p] = s]
  <2>1. <<>> \o s = s
    BY ConcatEmptySeq
  <2>2. Tail(todo[p]) = s
    <3>1. Tail(Cons(x, s)) = s
      BY ONLY x \in Instr, s \in Seq(Instr), ConsIs
    <3> QED BY <3>1
  <2> QED BY <2>1, <2>2 DEF Then
<1>2. calls' \in [Procs -> Nat] /\ scan' \in 0 .. NINODES + 1
  BY DEF IInv, TypesInv
<1>3. ASSUME NEW i \in Inums PROVE Slotted(todo[p], s, i)
  <2>1. Popped(x, s, i)
    OBVIOUS
  <2>2. /\ Holds(Cons(x, s), i) = Holds(s, i) + Weight(x, "use", i)
              + Weight(x, "back", i) + Weight(x, "old", i) + Weight(x, "dir", i)
        /\ Total(Cons(x, s), i) = Total(s, i) + Weight(x, "use", i)
              + Weight(x, "back", i) + Weight(x, "old", i) + Weight(x, "dir", i)
              + Weight(x, "new", i) + Weight(x, "drop", i)
        /\ Holds(s, i) \in Nat /\ Total(s, i) \in Nat
        /\ StillHas(Cons(x, s), s, dino, i)
    BY PopIs
  <2>3. /\ Weight(x, "back", i) = 0 /\ Weight(x, "old", i) = 0
        /\ Weight(x, "dir", i) = 0 /\ Weight(x, "new", i) = 0
    BY DEF Weight, Plays, NewOps, DirOps
  <2>4. PICK a \in Nat, b \in Nat, h \in Nat, k \in Nat :
          /\ a = Weight(x, "use", i) /\ b = Weight(x, "drop", i)
          /\ h = Holds(s, i) /\ k = Total(s, i)
    BY <2>2 DEF Weight
  <2>5. /\ Holds(Cons(x, s), i) = h + a /\ Total(Cons(x, s), i) = k + a + b
    <3>1. /\ Holds(Cons(x, s), i) = h + a + 0 + 0 + 0
          /\ Total(Cons(x, s), i) = k + a + 0 + 0 + 0 + 0 + b
      <4>1. /\ Holds(Cons(x, s), i) = Holds(s, i) + Weight(x, "use", i)
                 + Weight(x, "back", i) + Weight(x, "old", i) + Weight(x, "dir", i)
            /\ Total(Cons(x, s), i) = Total(s, i) + Weight(x, "use", i)
                 + Weight(x, "back", i) + Weight(x, "old", i)
                 + Weight(x, "dir", i) + Weight(x, "new", i) + Weight(x, "drop", i)
        BY <2>2
      <4> QED BY ONLY <2>3, <2>4, <4>1, Zenon
    <3>2. h + a + 0 + 0 + 0 = h + a /\ k + a + 0 + 0 + 0 + 0 + b = k + a + b
      BY ONLY h \in Nat, a \in Nat, k \in Nat, b \in Nat
    <3> QED BY <3>1, <3>2
  <2>6. PICK m \in Nat, n \in Nat : m = itab[i].ref /\ n = itab'[i].ref
    BY DEF IInv, TypesInv, SlotType
  <2>7. n + a + b = m
    BY <2>1, <2>4, <2>6 DEF Popped
  <2>8. n + (k + a + b) = m + k
    BY ONLY <2>7, n \in Nat, m \in Nat, k \in Nat, a \in Nat, b \in Nat
  <2>9. h > 0 => h + a > 0
    BY ONLY h \in Nat, a \in Nat
  <2> QED BY <2>1, <2>2, <2>4, <2>5, <2>6, <2>8, <2>9 DEF Popped, Slotted
<1>4. IInv /\ p \in Procs /\ s \in Seq(Instr) /\ dino' = dino
      /\ disk' \in {disk, dino} /\ ftab' = ftab /\ fd' = fd /\ panic' = ""
      /\ ops' \subseteq Procs /\ WellFormed(s, HeldFile(p)) /\ GoalsOk(dino, s)
      /\ lock' \in [Inums -> Procs \cup {Nobody}]
      /\ (\A j \in Inums : lock'[j] = p <=> Locking(s, j))
      /\ (\A j \in Inums, q \in Procs \ {p} : lock'[j] = q <=> lock[j] = q)
      /\ itab' \in [Inums -> SlotType]
  OBVIOUS
<1> QED BY ONLY <1>1, <1>2, <1>3, <1>4, SlotStep, Zenon

(* What a process has locked, after an instruction that is not a lock.     *)
LEMMA PopLocks ==
  ASSUME IInv, NEW p \in Procs, NEW x \in Instr, NEW s \in Seq(Instr),
         todo[p] = Cons(x, s), NEW j \in Inums
  PROVE  /\ Needs(x, j) => lock[j] = p
         /\ ~Needs(x, j) /\ x # On("lock", j) =>
              (lock[j] = p <=> Locking(s, j))
<1>1. lock[j] = p <=> Locking(Cons(x, s), j)
  BY DEF IInv, LockInv
<1>2. Locking(Cons(x, s), j) <=> Needs(x, j) \/ (x # On("lock", j) /\ Locking(s, j))
  BY ConsLocking
<1> QED BY <1>1, <1>2

(* An operation of the log begins, and ends.                               *)
LEMMA OpInv ==
  ASSUME IInv, NEW p \in Procs, NEW op \in {"begin", "end"}, Ready(p, op),
         Then(p, <<>>), dino' = dino, disk' \in {disk, dino}, ops' \subseteq Procs,
         panic' = panic, UNCHANGED <<itab, lock, ftab, fd, calls, scan>>
  PROVE  IInv'
<1>1. PICK x \in Instr, s \in Seq(Instr) :
           /\ todo[p] = Cons(x, s) /\ It(p) = x /\ x.do = op /\ Tail(todo[p]) = s
           /\ Ok(x, s, HeldFile(p)) /\ WellFormed(s, HeldFile(p))
           /\ GoalOk(dino, x) /\ GoalsOk(dino, s)
  BY HeadIs DEF IInv
<1>2. /\ lock' \in [Inums -> Procs \cup {Nobody}] /\ itab' \in [Inums -> SlotType]
      /\ (\A j \in Inums, q \in Procs \ {p} : lock'[j] = q <=> lock[j] = q)
      /\ panic' = "" /\ ftab' = ftab /\ fd' = fd /\ calls' = calls /\ scan' = scan
  BY DEF IInv, TypesInv, NoPanic
<1>3. ASSUME NEW j \in Inums PROVE lock'[j] = p <=> Locking(s, j)
  <2>1. ~Needs(x, j) /\ x # On("lock", j)
    BY <1>1 DEF Needs, NewOps, DirOps, On
  <2> QED BY <1>1, <2>1, PopLocks
<1>4. ASSUME NEW i \in Inums PROVE Popped(x, s, i)
  <2>1. /\ Weight(x, "use", i) = 0 /\ Weight(x, "drop", i) = 0
        /\ Weight(x, "forget", i) = 0
    BY <1>1 DEF Weight, Plays, UseOps
  <2>2. itab[i].ref \in Nat
    BY DEF IInv, TypesInv, SlotType
  <2>3. SameSlot(i) /\ itab'[i].ref = itab[i].ref
    BY DEF SameSlot
  <2>4. Has(Cons(x, s), "forget", i) = Has(s, "forget", i)
    <3>1. Has(Cons(x, s), "forget", i) = Has(s, "forget", i) + 0
          /\ Has(s, "forget", i) \in Nat
      BY <2>1, ConsHas
    <3> QED BY <3>1
  <2>5. Agrees(Cons(x, s), s, i)
    BY <2>3, <2>4 DEF Agrees
  <2>6. lock'[i] # Nobody => itab'[i].valid
    BY DEF IInv, InodesInv, InodeOk, HeldInv
  <2>7. itab'[i].ref + Weight(x, "use", i) + Weight(x, "drop", i) = itab[i].ref
    BY <2>1, <2>2, <2>3
  <2> QED BY <2>3, <2>5, <2>6, <2>7 DEF Popped
<1>5. x.do \in {"begin", "end", "lock", "unlock", "put", "forget", "drop"}
  BY <1>1
<1>6. IInv /\ p \in Procs /\ x \in Instr /\ s \in Seq(Instr) /\ Then(p, <<>>)
      /\ todo[p] = Cons(x, s) /\ WellFormed(s, HeldFile(p)) /\ GoalsOk(dino, s)
      /\ dino' = dino /\ disk' \in {disk, dino} /\ ops' \subseteq Procs
  BY <1>1
<1> QED BY ONLY <1>2, <1>3, <1>4, <1>5, <1>6, PopStep, Zenon

(* begin_op() and end_op(): the last end makes the cache durable, which    *)
(* keeps the invariant of the disk because it has that of the cache.       *)
LEMMA BeginInv ==
  ASSUME IInv, NEW p \in Procs, begin_op(p) \/ end_op(p) PROVE IInv'
<1>1. ops \subseteq Procs
  BY DEF IInv, TypesInv
<1>2. CASE begin_op(p)
  <2>1. Ready(p, "begin") /\ Then(p, <<>>) /\ panic' = panic
    BY <1>2 DEF begin_op
  <2>2. dino' = dino /\ disk' \in {disk, dino} /\ ops' \subseteq Procs
    BY <1>1, <1>2 DEF begin_op
  <2>3. UNCHANGED <<itab, lock, ftab, fd, calls, scan>>
    BY <1>2 DEF begin_op
  <2> QED BY <2>1, <2>2, <2>3, OpInv
<1>3. CASE end_op(p)
  <2>1. Ready(p, "end") /\ Then(p, <<>>) /\ panic' = panic
    BY <1>3 DEF end_op
  <2>2. dino' = dino /\ disk' \in {disk, dino} /\ ops' \subseteq Procs
    BY <1>1, <1>3 DEF end_op
  <2>3. UNCHANGED <<itab, lock, ftab, fd, calls, scan>>
    BY <1>3 DEF end_op
  <2> QED BY <2>1, <2>2, <2>3, OpInv
<1> QED BY <1>2, <1>3

(* References that processes have, and those of open files.                *)
LEMMA RefersTotal ==
  ASSUME NEW s \in Seq(Instr), NEW i, Refers(s, i) PROVE Total(s, i) > 0
<1>1. PICK a1, a2, a3, a4, a5, a6 \in Nat :
        /\ a1 = Has(s, "use", i) /\ a2 = Has(s, "back", i)
        /\ a3 = Has(s, "old", i) /\ a4 = Has(s, "dir", i)
        /\ a5 = Has(s, "new", i) /\ a6 = Has(s, "drop", i)
  BY MarksType
<1>2. a1 > 0 \/ a2 > 0 \/ a3 > 0 \/ a4 > 0 \/ a5 > 0 \/ a6 > 0
  BY <1>1 DEF Refers, Keeps
<1>3. (a1 + a2 + a3 + a4) + a5 + a6 > 0
  BY ONLY <1>2, a1 \in Nat, a2 \in Nat, a3 \in Nat, a4 \in Nat, a5 \in Nat,
          a6 \in Nat
<1> QED BY <1>1, <1>3 DEF Total, Holds

(* The inode of a file a process has is one of an open file.               *)
LEMMA FileRef ==
  ASSUME TypesInv, NEW p \in Procs, NEW i \in Inums, i \in HeldFile(p)
  PROVE  FilesOf(ftab, i) > 0
<1>1. fd[p] # 0 /\ ftab[fd[p]].ip = i /\ fd[p] \in Files
  BY InodeAssumption DEF HeldFile, TypesInv, Files
<1>2. IsFiniteSet(Files)
  BY InodeAssumption, FS_Interval DEF Files
<1>3. /\ IsFiniteSet({f \in Files : ftab[f].ip = i})
      /\ {f \in Files : ftab[f].ip = i} # {}
  BY <1>1, <1>2, FS_Subset
<1> QED BY <1>3, FS_EmptySet, FS_CardinalityType DEF FilesOf

(* A process and the open files have no more references than are counted.  *)
LEMMA RefOne ==
  ASSUME IInv, NEW i \in Inums, NEW p \in Procs
  PROVE  /\ itab[i].ref >= Total(todo[p], i) + FilesOf(ftab, i)
         /\ Total(todo[p], i) \in Nat /\ FilesOf(ftab, i) \in Nat
         /\ itab[i].ref \in Nat
<1>1. RefInv(i) /\ todo \in Todos /\ itab[i].ref \in Nat /\ todo[p] \in Seq(Instr)
  BY DEF IInv, InodesInv, InodeOk, TypesInv, SlotType, Todos
<1>2. PICK a1, a2, a3, a4, a5, a6 \in Nat :
        /\ a1 = Has(todo[p], "use", i) /\ a2 = Has(todo[p], "back", i)
        /\ a3 = Has(todo[p], "old", i) /\ a4 = Has(todo[p], "dir", i)
        /\ a5 = Has(todo[p], "new", i) /\ a6 = Has(todo[p], "drop", i)
  BY <1>1, MarksType
<1>3. PICK b1, b2, b3, b4, b5, b6 \in Nat :
        /\ b1 = Count(todo, "use", i) /\ b2 = Count(todo, "back", i)
        /\ b3 = Count(todo, "old", i) /\ b4 = Count(todo, "dir", i)
        /\ b5 = Count(todo, "new", i) /\ b6 = Count(todo, "drop", i)
  BY <1>1, CountSome
<1>4. a1 <= b1 /\ a2 <= b2 /\ a3 <= b3 /\ a4 <= b4 /\ a5 <= b5 /\ a6 <= b6
  BY <1>1, <1>2, <1>3, CountSome
<1>5. PICK f \in Nat, m \in Nat : f = FilesOf(ftab, i) /\ m = itab[i].ref
  BY <1>1, FilesOfNat
<1>6. /\ (b1 + b2 + b3 + b4) + b5 + b6 + f = m
      /\ Total(todo[p], i) = (a1 + a2 + a3 + a4) + a5 + a6
  BY <1>1, <1>2, <1>3, <1>5 DEF RefInv, Uses, Total, Holds
<1>7. /\ (b1 + b2 + b3 + b4) + b5 + b6 + f >= ((a1 + a2 + a3 + a4) + a5 + a6) + f
      /\ (a1 + a2 + a3 + a4) + a5 + a6 \in Nat
  BY ONLY <1>4, f \in Nat, a1 \in Nat, a2 \in Nat, a3 \in Nat, a4 \in Nat, a5
     \in Nat, a6 \in Nat, b1 \in Nat, b2 \in Nat, b3 \in Nat, b4 \in Nat, b5
     \in Nat, b6 \in Nat
<1> QED BY <1>5, <1>6, <1>7

(* Nor have two processes and the open files.                              *)
LEMMA RefTwo ==
  ASSUME IInv, NEW i \in Inums, NEW p \in Procs, NEW q \in Procs, p # q
  PROVE  itab[i].ref >= Total(todo[p], i) + Total(todo[q], i) + FilesOf(ftab, i)
<1>1. RefInv(i) /\ todo \in Todos /\ itab[i].ref \in Nat
      /\ todo[p] \in Seq(Instr) /\ todo[q] \in Seq(Instr)
  BY DEF IInv, InodesInv, InodeOk, TypesInv, SlotType, Todos
<1>2. PICK a1, a2, a3, a4, a5, a6 \in Nat :
        /\ a1 = Has(todo[p], "use", i) /\ a2 = Has(todo[p], "back", i)
        /\ a3 = Has(todo[p], "old", i) /\ a4 = Has(todo[p], "dir", i)
        /\ a5 = Has(todo[p], "new", i) /\ a6 = Has(todo[p], "drop", i)
  BY <1>1, MarksType
<1>3. PICK c1, c2, c3, c4, c5, c6 \in Nat :
        /\ c1 = Has(todo[q], "use", i) /\ c2 = Has(todo[q], "back", i)
        /\ c3 = Has(todo[q], "old", i) /\ c4 = Has(todo[q], "dir", i)
        /\ c5 = Has(todo[q], "new", i) /\ c6 = Has(todo[q], "drop", i)
  BY <1>1, MarksType
<1>4. PICK b1, b2, b3, b4, b5, b6 \in Nat :
        /\ b1 = Count(todo, "use", i) /\ b2 = Count(todo, "back", i)
        /\ b3 = Count(todo, "old", i) /\ b4 = Count(todo, "dir", i)
        /\ b5 = Count(todo, "new", i) /\ b6 = Count(todo, "drop", i)
  BY <1>1, CountSome
<1>5. /\ a1 + c1 <= b1 /\ a2 + c2 <= b2 /\ a3 + c3 <= b3 /\ a4 + c4 <= b4
      /\ a5 + c5 <= b5 /\ a6 + c6 <= b6
  <2>1. \A r : Count(todo, r, i) >= Has(todo[p], r, i) + Has(todo[q], r, i)
    BY <1>1, CountTwo
  <2>2. /\ b1 >= a1 + c1 /\ b2 >= a2 + c2 /\ b3 >= a3 + c3 /\ b4 >= a4 + c4
        /\ b5 >= a5 + c5 /\ b6 >= a6 + c6
    BY <1>2, <1>3, <1>4, <2>1
  <2> QED BY <2>2
<1>6. PICK f \in Nat, m \in Nat : f = FilesOf(ftab, i) /\ m = itab[i].ref
  BY <1>1, FilesOfNat
<1>7. /\ (b1 + b2 + b3 + b4) + b5 + b6 + f = m
      /\ Total(todo[p], i) = (a1 + a2 + a3 + a4) + a5 + a6
      /\ Total(todo[q], i) = (c1 + c2 + c3 + c4) + c5 + c6
  BY <1>1, <1>2, <1>3, <1>4, <1>6 DEF RefInv, Uses, Total, Holds
<1>8. (b1 + b2 + b3 + b4) + b5 + b6 + f
        >= ((a1 + a2 + a3 + a4) + a5 + a6) + ((c1 + c2 + c3 + c4) + c5 + c6) + f
  BY ONLY <1>5, f \in Nat, a1 \in Nat, a2 \in Nat, a3 \in Nat, a4 \in Nat, a5
     \in Nat, a6 \in Nat, b1 \in Nat, b2 \in Nat, b3 \in Nat, b4 \in Nat, b5
     \in Nat, b6 \in Nat, c1 \in Nat, c2 \in Nat, c3 \in Nat, c4 \in Nat, c5
     \in Nat, c6 \in Nat
<1> QED BY <1>6, <1>7, <1>8

(* The last reference to an inode is dropped when nobody has it locked.    *)
LEMMA LastRefFree ==
  ASSUME IInv, NEW p \in Procs, NEW x \in Instr, NEW s \in Seq(Instr),
         todo[p] = Cons(x, s), WellFormed(s, HeldFile(p)),
         x.do \in {"put", "drop"}, NEW i \in Inums, x.ip = i, itab[i].ref = 1
  PROVE  lock[i] = Nobody
<1>1. SUFFICES ASSUME NEW q \in Procs, lock[i] = q PROVE FALSE
  BY DEF IInv, TypesInv
<1>2. Locking(todo[q], i) /\ todo[q] \in Seq(Instr) /\ TypesInv
      /\ WellFormed(todo[q], HeldFile(q))
  BY <1>1 DEF IInv, LockInv, TypesInv, Todos, TodoInv
<1>3. PICK a \in Nat, b \in Nat : a = Weight(x, "use", i) /\ b = Weight(x, "drop", i)
                                  /\ a + b > 0
  BY DEF Weight, Plays, UseOps
<1>4. PICK k \in Nat : k = Total(s, i) /\ Total(todo[p], i) >= k + 1
  <2>1. /\ Total(Cons(x, s), i) = Total(s, i) + Weight(x, "use", i)
              + Weight(x, "back", i) + Weight(x, "old", i) + Weight(x, "dir", i)
              + Weight(x, "new", i) + Weight(x, "drop", i)
        /\ Total(s, i) \in Nat
    BY PopIs
  <2>2. PICK k \in Nat, c \in Nat, d \in Nat, e \in Nat, f \in Nat :
          /\ k = Total(s, i) /\ c = Weight(x, "back", i) /\ d = Weight(x, "old", i)
          /\ e = Weight(x, "dir", i) /\ f = Weight(x, "new", i)
    BY <2>1 DEF Weight
  <2>3. Total(todo[p], i) = k + a + c + d + e + f + b
    BY <2>1, <2>2, <1>3
  <2>4. k + a + c + d + e + f + b >= k + 1
    <3>1. a + b > 0
      BY <1>3
    <3> QED BY ONLY <3>1, a \in Nat, b \in Nat, k \in Nat, c \in Nat, d \in Nat,
                    e \in Nat, f \in Nat
  <2> QED BY <2>2, <2>3, <2>4
<1>5. PICK t \in Nat, f \in Nat : t = Total(todo[p], i) /\ f = FilesOf(ftab, i)
                                  /\ 1 >= t + f /\ t >= k + 1
  BY <1>4, RefOne
<1>6. f = 0 /\ k = 0
  BY ONLY <1>5, k \in Nat
<1>7. i \notin HeldFile(p) /\ i \notin HeldFile(q)
  <2>1. FilesOf(ftab, i) = 0
    BY <1>5, <1>6
  <2>2. ~(FilesOf(ftab, i) > 0)
    BY <2>1
  <2> QED BY <1>2, <2>2, FileRef
<1>8. Refers(todo[q], i)
  BY <1>2, <1>7, LockingRefers
<1>9. CASE q # p
  <2>1. PICK u \in Nat : u = Total(todo[q], i) /\ u > 0
    BY <1>2, <1>8, RefersTotal, SumsNat
  <2>2. 1 >= t + u + f
    BY <1>5, <1>9, <2>1, RefTwo
  <2> QED BY ONLY <1>5, <2>1, <2>2, k \in Nat
<1>10. CASE q = p
  <2>1. ~Needs(x, i) /\ x # On("lock", i)
    BY DEF Needs, NewOps, DirOps, On
  <2>2. Locking(s, i)
    BY <1>2, <1>10, <2>1, ConsLocking
  <2>3. Refers(s, i)
    BY <1>7, <2>2, LockingRefers
  <2>4. k > 0
    BY <1>4, <2>3, RefersTotal
  <2> QED BY <1>6, <2>4
<1> QED BY <1>9, <1>10

(* A lock is let go, or taken: the rest of what is locked stays.           *)
LockMoved(p, s, i, h) ==
  /\ lock' \in [Inums -> Procs \cup {Nobody}]
  /\ \A j \in Inums : lock'[j] = p <=> Locking(s, j)
  /\ \A j \in Inums, q \in Procs \ {p} : lock'[j] = q <=> lock[j] = q
  /\ \A j \in Inums : lock'[j] = IF j = i THEN h ELSE lock[j]

(* One lock changes hands, and it is the only one.                         *)
LEMMA LockChange ==
  ASSUME IInv, NEW p \in Procs, NEW x \in Instr, NEW s \in Seq(Instr),
         todo[p] = Cons(x, s), NEW i \in Inums, NEW h \in {p, Nobody},
         lock' = [lock EXCEPT ![i] = h], h = p <=> Locking(s, i),
         lock[i] \in {p, Nobody},
         \A j \in Inums \ {i} : ~Needs(x, j) /\ x # On("lock", j)
  PROVE  LockMoved(p, s, i, h)
<1>1. lock \in [Inums -> Procs \cup {Nobody}] /\ Nobody \notin Procs
  BY InodeAssumption DEF IInv, TypesInv
<1>2. \A j \in Inums : lock'[j] = IF j = i THEN h ELSE lock[j]
  BY <1>1
<1>3. lock' \in [Inums -> Procs \cup {Nobody}]
  BY <1>1
<1>4. ASSUME NEW j \in Inums PROVE lock'[j] = p <=> Locking(s, j)
  <2>1. CASE j = i
    BY <2>1, <1>2
  <2>2. CASE j # i
    <3>1. ~Needs(x, j) /\ x # On("lock", j)
      BY <2>2
    <3> QED BY <2>2, <3>1, <1>2, PopLocks
  <2> QED BY <2>1, <2>2
<1>5. ASSUME NEW j \in Inums, NEW q \in Procs \ {p}
      PROVE  lock'[j] = q <=> lock[j] = q
  BY <1>1, <1>2
<1> QED BY <1>2, <1>3, <1>4, <1>5 DEF LockMoved

(* The same, nothing being locked or let go.                               *)
LEMMA LockSame ==
  ASSUME IInv, NEW p \in Procs, NEW x \in Instr, NEW s \in Seq(Instr),
         todo[p] = Cons(x, s), lock' = lock,
         x.do \in {"put", "drop"}
  PROVE  /\ lock' \in [Inums -> Procs \cup {Nobody}]
         /\ \A j \in Inums : lock'[j] = p <=> Locking(s, j)
         /\ \A j \in Inums, q \in Procs \ {p} : lock'[j] = q <=> lock[j] = q
<1>1. lock \in [Inums -> Procs \cup {Nobody}]
  BY DEF IInv, TypesInv
<1>2. ASSUME NEW j \in Inums PROVE lock'[j] = p <=> Locking(s, j)
  <2>1. ~Needs(x, j) /\ x # On("lock", j)
    BY DEF Needs, NewOps, DirOps, On
  <2> QED BY <2>1, PopLocks
<1> QED BY <1>1, <1>2

(* iunlock()                                                               *)
LEMMA UnlockInv ==
  ASSUME IInv, NEW p \in Procs, iunlock(p) PROVE IInv'
<1>1. PICK x \in Instr, s \in Seq(Instr) :
           /\ todo[p] = Cons(x, s) /\ It(p) = x /\ x.do = "unlock"
           /\ Tail(todo[p]) = s
           /\ Ok(x, s, HeldFile(p)) /\ WellFormed(s, HeldFile(p))
           /\ GoalOk(dino, x) /\ GoalsOk(dino, s)
  BY HeadIs DEF IInv, iunlock
<1>2. PICK i \in Inums : i = x.ip
  BY <1>1, InstrFields DEF IpOps
<1>3. ~Locking(s, i) /\ (Keeps(s, i) \/ i \in HeldFile(p))
  BY <1>1, <1>2 DEF Ok, OfUnlock
<1>4. lock[i] = p
  <2>1. Needs(x, i)
    BY <1>1, <1>2 DEF Needs
  <2> QED BY <1>1, <2>1, PopLocks
<1>5. itab[i].ref > 0
  <2>1. PICK t \in Nat, f \in Nat :
          /\ t = Total(todo[p], i) /\ f = FilesOf(ftab, i) /\ itab[i].ref >= t + f
    BY RefOne
  <2>2. PICK m \in Nat : m = itab[i].ref /\ m >= t + f
    BY <2>1, RefOne
  <2>3. CASE Keeps(s, i)
    <3>1. Refers(todo[p], i)
      <4>1. PICK r \in {"use", "back", "old", "dir", "new"} : Has(s, r, i) > 0
        BY <2>3 DEF Keeps
      <4>2. /\ Has(Cons(x, s), r, i) = Has(s, r, i) + Weight(x, r, i)
            /\ Has(s, r, i) \in Nat
        BY ConsHas
      <4>3. Weight(x, r, i) \in Nat
        BY DEF Weight
      <4>4. Has(Cons(x, s), r, i) > 0
        BY <4>1, <4>2, <4>3
      <4> QED BY <1>1, <4>4 DEF Refers, Keeps
    <3>2. todo[p] \in Seq(Instr)
      BY DEF IInv, TypesInv, Todos
    <3>3. t > 0
      BY <2>1, <3>1, <3>2, RefersTotal
    <3>4. m > 0
      BY ONLY <2>2, <3>3
    <3> QED BY <2>2, <3>4
  <2>4. CASE i \in HeldFile(p)
    <3>1. f > 0
      BY <2>1, <2>4, FileRef DEF IInv
    <3>2. m > 0
      BY ONLY <2>2, <3>1
    <3> QED BY <2>2, <3>2
  <2> QED BY <1>3, <2>3, <2>4
<1>6. /\ lock' = [lock EXCEPT ![i] = Nobody] /\ panic' = "" /\ Then(p, <<>>)
      /\ UNCHANGED <<dino, disk, ops, itab, ftab, fd, calls, scan>>
  BY <1>1, <1>2, <1>4, <1>5 DEF iunlock
<1>70. LockMoved(p, s, i, Nobody)
  <2>1. \A j \in Inums \ {i} : ~Needs(x, j) /\ x # On("lock", j)
    BY <1>1, <1>2 DEF Needs, NewOps, DirOps, On
  <2>2. Nobody \in {p, Nobody} /\ (Nobody = p <=> Locking(s, i))
        /\ lock[i] \in {p, Nobody}
    BY <1>3, <1>4, InodeAssumption
  <2>3. lock' = [lock EXCEPT ![i] = Nobody]
    BY <1>6
  <2>4. IInv /\ p \in Procs /\ x \in Instr /\ s \in Seq(Instr)
        /\ todo[p] = Cons(x, s) /\ i \in Inums
    BY <1>1
  <2> QED BY ONLY <2>1, <2>2, <2>3, <2>4, LockChange, Zenon
<1>7. /\ lock' \in [Inums -> Procs \cup {Nobody}]
      /\ \A j \in Inums : lock'[j] = p <=> Locking(s, j)
      /\ \A j \in Inums, q \in Procs \ {p} : lock'[j] = q <=> lock[j] = q
      /\ \A j \in Inums : lock'[j] = IF j = i THEN Nobody ELSE lock[j]
  BY <1>70 DEF LockMoved
<1>8. ASSUME NEW j \in Inums PROVE Popped(x, s, j)
  <2>1. /\ Weight(x, "use", j) = 0 /\ Weight(x, "drop", j) = 0
        /\ Weight(x, "forget", j) = 0
    BY <1>1 DEF Weight, Plays, UseOps
  <2>2. itab[j].ref \in Nat /\ itab'[j] = itab[j]
    BY <1>6 DEF IInv, TypesInv, SlotType
  <2>3. Has(Cons(x, s), "forget", j) = Has(s, "forget", j)
    <3>1. Has(Cons(x, s), "forget", j) = Has(s, "forget", j) + 0
          /\ Has(s, "forget", j) \in Nat
      BY <2>1, ConsHas
    <3> QED BY <3>1
  <2>4. Agrees(Cons(x, s), s, j)
    BY <2>2, <2>3 DEF Agrees, SameSlot
  <2>5. lock'[j] # Nobody => itab'[j].valid
    BY <1>7, <2>2 DEF IInv, InodesInv, InodeOk, HeldInv
  <2>6. itab'[j].ref + Weight(x, "use", j) + Weight(x, "drop", j) = itab[j].ref
    BY <2>1, <2>2
  <2> QED BY <2>2, <2>4, <2>5, <2>6 DEF Popped
<1>9. x.do \in {"begin", "end", "lock", "unlock", "put", "forget", "drop"}
  BY <1>1
<1>10. itab' \in [Inums -> SlotType] /\ ops' \subseteq Procs
  BY <1>6 DEF IInv, TypesInv
<1>11. IInv /\ p \in Procs /\ x \in Instr /\ s \in Seq(Instr) /\ Then(p, <<>>)
      /\ todo[p] = Cons(x, s) /\ WellFormed(s, HeldFile(p)) /\ GoalsOk(dino, s)
      /\ dino' = dino /\ disk' \in {disk, dino} /\ panic' = ""
      /\ ftab' = ftab /\ fd' = fd /\ calls' = calls /\ scan' = scan
  BY <1>1, <1>6
<1> QED BY ONLY <1>7, <1>8, <1>9, <1>10, <1>11, PopStep, Zenon

(* ilock()                                                                 *)
LEMMA IlockInv ==
  ASSUME IInv, NEW p \in Procs, ilock(p) PROVE IInv'
<1>1. PICK x \in Instr, s \in Seq(Instr) :
           /\ todo[p] = Cons(x, s) /\ It(p) = x /\ x.do = "lock"
           /\ Tail(todo[p]) = s
           /\ Ok(x, s, HeldFile(p)) /\ WellFormed(s, HeldFile(p))
           /\ GoalOk(dino, x) /\ GoalsOk(dino, s)
  BY HeadIs DEF IInv, ilock
<1>2. PICK i \in Inums : i = x.ip /\ x = On("lock", i)
  BY <1>1, InstrFields DEF IpOps
<1>3. Locking(s, i) /\ Keeps(s, i)
  BY <1>1, <1>2 DEF Ok, OfLock
<1>4. dino[i].type # "free"
  <2>1. PICK r \in {"use", "back", "old", "dir", "new"} : Has(s, r, i) > 0
    BY <1>3 DEF Keeps
  <2>2. /\ Has(Cons(x, s), r, i) = Has(s, r, i) + Weight(x, r, i)
        /\ Has(s, r, i) \in Nat
    BY ConsHas
  <2>3. Weight(x, r, i) \in Nat
    BY DEF Weight
  <2>4. Has(todo[p], r, i) > 0
    BY <1>1, <2>1, <2>2, <2>3
  <2>5. todo \in Todos /\ InodeOk(i)
    BY DEF IInv, TypesInv, InodesInv
  <2>6. PICK c \in Nat, h \in Nat :
          c = Count(todo, r, i) /\ h = Has(todo[p], r, i) /\ h <= c
    BY <2>5, CountSome
  <2>7. c > 0
    <3>1. h > 0
      BY <2>4, <2>6
    <3> QED BY ONLY <2>6, <3>1
  <2>8. CASE r = "new"
    BY <2>5, <2>6, <2>7, <2>8 DEF InodeOk, NewInv
  <2>9. CASE r # "new"
    <3>1. r \in {"use", "back", "old", "dir"}
      BY <2>9
    <3>2. Uses(todo, i) # 0
      BY <2>5, <2>6, <2>7, <3>1, UsesNat
    <3>3. PICK u \in Nat, f \in Nat : u = Uses(todo, i) /\ f = FilesOf(ftab, i)
      BY <2>5, UsesNat, FilesOfNat
    <3>4. u # 0
      BY <3>2, <3>3
    <3>5. u + f > 0
      BY ONLY <3>4, u \in Nat, f \in Nat
    <3> QED BY <2>5, <3>3, <3>5 DEF InodeOk, UsedInv
  <2> QED BY <2>8, <2>9
<1>5. lock[i] = Nobody /\ lock' = [lock EXCEPT ![i] = p] /\ panic' = ""
      /\ Then(p, <<>>) /\ UNCHANGED <<dino, disk, ops, ftab, fd, calls, scan>>
  BY <1>1, <1>2, <1>4 DEF ilock
<1>6. itab' = IF ~itab[i].valid
              THEN [itab EXCEPT ![i] = [itab[i] EXCEPT
                           !.valid = TRUE, !.type = dino[i].type,
                           !.nlink = dino[i].nlink]]
              ELSE itab
  BY <1>1, <1>2 DEF ilock
<1>70. LockMoved(p, s, i, p)
  <2>1. \A j \in Inums \ {i} : ~Needs(x, j) /\ x # On("lock", j)
    BY <1>1, <1>2 DEF Needs, NewOps, DirOps, On
  <2>2. p \in {p, Nobody} /\ (p = p <=> Locking(s, i)) /\ lock[i] \in {p, Nobody}
    BY <1>3, <1>5
  <2>3. lock' = [lock EXCEPT ![i] = p]
    BY <1>5
  <2>4. IInv /\ p \in Procs /\ x \in Instr /\ s \in Seq(Instr)
        /\ todo[p] = Cons(x, s) /\ i \in Inums
    BY <1>1
  <2> QED BY ONLY <2>1, <2>2, <2>3, <2>4, LockChange, Zenon
<1>7. /\ lock' \in [Inums -> Procs \cup {Nobody}]
      /\ \A j \in Inums : lock'[j] = p <=> Locking(s, j)
      /\ \A j \in Inums, q \in Procs \ {p} : lock'[j] = q <=> lock[j] = q
      /\ \A j \in Inums : lock'[j] = IF j = i THEN p ELSE lock[j]
  BY <1>70 DEF LockMoved
<1>8. itab \in [Inums -> SlotType] /\ dino[i].type \in Types /\ dino[i].nlink \in Nat
  BY DEF IInv, TypesInv, DiskInv, Tree, DiskType
<1>9. /\ itab' \in [Inums -> SlotType]
      /\ \A j \in Inums : itab'[j].ref = itab[j].ref
      /\ \A j \in Inums \ {i} : itab'[j] = itab[j]
      /\ itab'[i].valid
      /\ \/ itab'[i] = itab[i]
         \/ itab'[i].type = dino[i].type /\ itab'[i].nlink = dino[i].nlink
  <2>1. CASE itab[i].valid
    BY <1>6, <1>8, <2>1
  <2>2. CASE ~itab[i].valid
    <3>1. PICK slot : slot = [itab[i] EXCEPT
                           !.valid = TRUE, !.type = dino[i].type,
                           !.nlink = dino[i].nlink]
      OBVIOUS
    <3>2. slot \in SlotType /\ slot.ref = itab[i].ref /\ slot.valid
          /\ slot.type = dino[i].type /\ slot.nlink = dino[i].nlink
      BY <3>1, <1>8 DEF SlotType
    <3>3. itab' = [itab EXCEPT ![i] = slot]
      BY <3>1, <1>6, <2>2
    <3> QED BY <3>2, <3>3, <1>8
  <2> QED BY <2>1, <2>2
<1>10. ASSUME NEW j \in Inums PROVE Popped(x, s, j)
  <2>1. /\ Weight(x, "use", j) = 0 /\ Weight(x, "drop", j) = 0
        /\ Weight(x, "forget", j) = 0
    BY <1>1 DEF Weight, Plays, UseOps
  <2>2. itab[j].ref \in Nat /\ itab'[j].ref = itab[j].ref
    BY <1>8, <1>9 DEF SlotType
  <2>3. Has(Cons(x, s), "forget", j) = Has(s, "forget", j)
    <3>1. Has(Cons(x, s), "forget", j) = Has(s, "forget", j) + 0
          /\ Has(s, "forget", j) \in Nat
      BY <2>1, ConsHas
    <3> QED BY <3>1
  <2>4. Agrees(Cons(x, s), s, j)
    <3>1. \/ itab'[j] = itab[j]
          \/ /\ dino[j].type # "free"
             /\ itab'[j].type = dino[j].type /\ itab'[j].nlink = dino[j].nlink
      BY <1>4, <1>9
    <3> QED BY <3>1, <2>3 DEF Agrees, SameSlot
  <2>5. lock'[j] # Nobody => itab'[j].valid
    <3>1. lock[j] # Nobody => itab[j].valid
      BY DEF IInv, InodesInv, InodeOk, HeldInv
    <3> QED BY <3>1, <1>7, <1>9
  <2>6. itab'[j].ref + Weight(x, "use", j) + Weight(x, "drop", j) = itab[j].ref
    BY <2>1, <2>2
  <2> QED BY <2>2, <2>4, <2>5, <2>6 DEF Popped
<1>11. x.do \in {"begin", "end", "lock", "unlock", "put", "forget", "drop"}
  BY <1>1
<1>12. itab' \in [Inums -> SlotType] /\ ops' \subseteq Procs
  BY <1>5, <1>9 DEF IInv, TypesInv
<1>13. IInv /\ p \in Procs /\ x \in Instr /\ s \in Seq(Instr) /\ Then(p, <<>>)
      /\ todo[p] = Cons(x, s) /\ WellFormed(s, HeldFile(p)) /\ GoalsOk(dino, s)
      /\ dino' = dino /\ disk' \in {disk, dino} /\ panic' = ""
      /\ ftab' = ftab /\ fd' = fd /\ calls' = calls /\ scan' = scan
  BY <1>1, <1>5
<1> QED BY ONLY <1>7, <1>10, <1>11, <1>12, <1>13, PopStep, Zenon

(* One reference less.                                                     *)
LEMMA PopTotal ==
  ASSUME NEW x \in Instr, NEW s \in Seq(Instr), x.do \in {"put", "drop"},
         NEW i, x.ip = i
  PROVE  Total(Cons(x, s), i) = Total(s, i) + 1 /\ Total(s, i) \in Nat
<1>1. /\ Total(Cons(x, s), i) = Total(s, i) + Weight(x, "use", i)
              + Weight(x, "back", i) + Weight(x, "old", i) + Weight(x, "dir", i)
              + Weight(x, "new", i) + Weight(x, "drop", i)
      /\ Total(s, i) \in Nat
  BY PopIs
<1>2. PICK k \in Nat : k = Total(s, i)
  BY <1>1
<1>3. /\ Weight(x, "back", i) = 0 /\ Weight(x, "old", i) = 0
      /\ Weight(x, "dir", i) = 0 /\ Weight(x, "new", i) = 0
  BY DEF Weight, Plays, NewOps, DirOps
<1>4. \/ Weight(x, "use", i) = 1 /\ Weight(x, "drop", i) = 0
      \/ Weight(x, "use", i) = 0 /\ Weight(x, "drop", i) = 1
  BY DEF Weight, Plays, UseOps
<1>5. k + 1 + 0 + 0 + 0 + 0 + 0 = k + 1 /\ k + 0 + 0 + 0 + 0 + 0 + 1 = k + 1
  BY ONLY k \in Nat
<1>6. Total(Cons(x, s), i) = k + 1
  BY ONLY <1>1, <1>2, <1>3, <1>4, <1>5, Zenon
<1> QED BY <1>2, <1>6

(* iput() drops a reference that is not about to free the inode.           *)
LEMMA NoErase ==
  ASSUME IInv, NEW p \in Procs, NEW x \in Instr, NEW s \in Seq(Instr),
         todo[p] = Cons(x, s), WellFormed(s, HeldFile(p)),
         x.do \in {"put", "drop"}, NEW i \in Inums, x.ip = i
  PROVE  Count(todo, "erase", i) = 0 /\ itab[i].ref > 0
<1>1. PICK k \in Nat, m \in Nat, f \in Nat :
        /\ k = Total(s, i) /\ m = itab[i].ref /\ f = FilesOf(ftab, i)
        /\ Total(todo[p], i) = k + 1 /\ m >= (k + 1) + f
  BY PopTotal, RefOne
<1>2. m > 0
  BY ONLY <1>1
<1>3. todo \in Todos /\ InodeOk(i) /\ TodoInv
  BY DEF IInv, TypesInv, InodesInv
<1>4. SUFFICES ASSUME Count(todo, "erase", i) > 0 PROVE FALSE
  <2>1. Count(todo, "erase", i) \in Nat
    BY <1>3, CountSome
  <2> QED BY <1>1, <1>2, <2>1
<1>5. m = 1
  BY <1>1, <1>3, <1>4 DEF InodeOk, EraseInv
<1>6. k = 0
  BY ONLY <1>1, <1>5
<1>7. PICK q \in Procs : Has(todo[q], "erase", i) > 0
  BY <1>3, <1>4, CountSome
<1>8. todo[q] \in Seq(Instr) /\ WellFormed(todo[q], HeldFile(q))
  BY <1>3 DEF Todos, TodoInv
<1>9. CASE q # p
  <2>1. Has(todo[q], "drop", i) > 0
    BY <1>7, <1>8, EraseDrops
  <2>2. PICK u \in Nat : u = Total(todo[q], i) /\ u > 0
    BY <1>8, <2>1, RefersTotal, SumsNat DEF Refers
  <2>3. m >= (k + 1) + u + f
    BY <1>1, <1>9, <2>2, RefTwo
  <2>4. u > 0
    BY <2>2
  <2> QED BY ONLY <1>5, <2>3, <2>4, k \in Nat, u \in Nat, f \in Nat
<1>10. CASE q = p
  <2>1. Weight(x, "erase", i) = 0
    BY DEF Weight, Plays
  <2>2. /\ Has(Cons(x, s), "erase", i) = Has(s, "erase", i) + 0
        /\ Has(s, "erase", i) \in Nat
    BY <2>1, ConsHas
  <2>3. Has(s, "erase", i) > 0
    BY <1>7, <1>10, <2>2
  <2>4. Has(s, "drop", i) > 0
    BY <2>3, EraseDrops
  <2>5. Total(s, i) > 0
    BY <2>4, RefersTotal DEF Refers
  <2> QED BY <1>1, <1>6, <2>5
<1> QED BY <1>9, <1>10

(* A reference is dropped, under itable.lock (fs.c:361).                   *)
LEMMA DropRef ==
  ASSUME IInv, NEW p \in Procs, NEW op \in {"put", "drop"}, Ready(p, op),
         NEW i, i = It(p).ip,
         itab' = [itab EXCEPT ![i] = LessOne(itab[i])],
         Then(p, <<>>), dino' = dino, Elsewhere
  PROVE  IInv'
<1>1. PICK x \in Instr, s \in Seq(Instr) :
           /\ todo[p] = Cons(x, s) /\ It(p) = x /\ x.do = op
           /\ Tail(todo[p]) = s
           /\ Ok(x, s, HeldFile(p)) /\ WellFormed(s, HeldFile(p))
           /\ GoalOk(dino, x) /\ GoalsOk(dino, s)
  BY HeadIs DEF IInv
<1>2. i \in Inums /\ i = x.ip /\ x.do \in {"put", "drop"}
  BY <1>1, InstrFields DEF IpOps
<1>3. Count(todo, "erase", i) = 0 /\ itab[i].ref > 0
  BY <1>1, <1>2, NoErase
<1>4. itab[i].ref = 1 => lock[i] = Nobody
  BY <1>1, <1>2, LastRefFree
<1>5. itab \in [Inums -> SlotType]
  BY DEF IInv, TypesInv
<1>6. PICK m \in Nat : m = itab[i].ref /\ m > 0
  BY <1>2, <1>3, <1>5 DEF SlotType
<1>7. PICK slot : slot = LessOne(itab[i])
  OBVIOUS
<1>8. /\ slot \in SlotType /\ slot.ref = m - 1
      /\ IF m = 1 THEN ~slot.valid
         ELSE /\ slot.valid = itab[i].valid /\ slot.type = itab[i].type
              /\ slot.nlink = itab[i].nlink
  <2>1. itab[i] \in SlotType
    BY <1>2, <1>5
  <2>2. m - 1 \in Nat
    BY ONLY <1>6
  <2>3. CASE m = 1
    <3>1. slot = NoSlot
      BY <1>6, <1>7, <2>3 DEF LessOne
    <3> QED BY <2>3, <3>1 DEF NoSlot, SlotType, Types
  <2>4. CASE m # 1
    <3>1. slot = [itab[i] EXCEPT !.ref = m - 1]
      BY <1>6, <1>7, <2>4 DEF LessOne
    <3> QED BY <2>1, <2>2, <2>4, <3>1 DEF SlotType
  <2> QED BY <2>3, <2>4
<1>9. /\ itab' \in [Inums -> SlotType]
      /\ \A j \in Inums : itab'[j] = IF j = i THEN slot ELSE itab[j]
  BY <1>2, <1>5, <1>7, <1>8
<1>10. /\ lock' \in [Inums -> Procs \cup {Nobody}]
       /\ \A j \in Inums : lock'[j] = p <=> Locking(s, j)
       /\ \A j \in Inums, q \in Procs \ {p} : lock'[j] = q <=> lock[j] = q
  <2>1. lock' = lock
    BY DEF Elsewhere
  <2> QED BY <1>1, <1>2, <2>1, LockSame
<1>11. ASSUME NEW j \in Inums PROVE Popped(x, s, j)
  <2>1. Weight(x, "forget", j) = 0
    BY <1>2 DEF Weight, Plays
  <2>2. Has(Cons(x, s), "forget", j) = Has(s, "forget", j)
    <3>1. Has(Cons(x, s), "forget", j) = Has(s, "forget", j) + 0
          /\ Has(s, "forget", j) \in Nat
      BY <2>1, ConsHas
    <3> QED BY <3>1
  <2>3. lock'[j] # Nobody => lock[j] # Nobody /\ itab[j].valid
    BY DEF Elsewhere, IInv, InodesInv, InodeOk, HeldInv
  <2>4. CASE j # i
    <3>1. Weight(x, "use", j) = 0 /\ Weight(x, "drop", j) = 0
      BY <1>2, <2>4 DEF Weight, Plays
    <3>2. itab'[j] = itab[j] /\ itab[j].ref \in Nat
      BY <1>5, <1>9, <2>4 DEF SlotType
    <3> QED BY <3>1, <3>2, <2>2, <2>3 DEF Popped, Agrees, SameSlot
  <2>5. CASE j = i
    <3>1. \/ Weight(x, "use", j) = 1 /\ Weight(x, "drop", j) = 0
          \/ Weight(x, "use", j) = 0 /\ Weight(x, "drop", j) = 1
      BY <1>2, <2>5 DEF Weight, Plays, UseOps
    <3>2. itab'[j] = slot /\ itab[j].ref = m
      BY <1>6, <1>9, <2>5
    <3>3. (m - 1) + 1 + 0 = m /\ (m - 1) + 0 + 1 = m
      BY ONLY m \in Nat
    <3>4. itab'[j].ref + Weight(x, "use", j) + Weight(x, "drop", j) = itab[j].ref
      BY <1>8, <3>1, <3>2, <3>3
    <3>5. Agrees(Cons(x, s), s, j)
      BY <1>8, <2>2, <2>5, <3>2 DEF Agrees, SameSlot
    <3>6. lock'[j] # Nobody => itab'[j].valid
      BY <1>4, <1>6, <1>8, <2>3, <2>5, <3>2
    <3> QED BY <1>3, <2>5, <3>4, <3>5, <3>6 DEF Popped
  <2> QED BY <2>4, <2>5
<1>12. x.do \in {"begin", "end", "lock", "unlock", "put", "forget", "drop"}
  BY <1>2
<1>13. itab' \in [Inums -> SlotType] /\ ops' \subseteq Procs
  BY <1>9 DEF IInv, TypesInv, Elsewhere
<1>14. /\ dino' = dino /\ disk' \in {disk, dino} /\ panic' = ""
       /\ ftab' = ftab /\ fd' = fd /\ calls' = calls /\ scan' = scan
  BY DEF Elsewhere, IInv, NoPanic
<1>15. IInv /\ p \in Procs /\ x \in Instr /\ s \in Seq(Instr) /\ Then(p, <<>>)
      /\ todo[p] = Cons(x, s) /\ WellFormed(s, HeldFile(p)) /\ GoalsOk(dino, s)
  BY <1>1
<1> QED BY ONLY <1>10, <1>11, <1>12, <1>13, <1>14, <1>15, PopStep, Zenon

(* iput() of a reference that is not the last of an inode without links,   *)
(* and the last decrement of iput().                                       *)
LEMMA IputInv ==
  ASSUME IInv, NEW p \in Procs, iput(p) \/ Drop(p) PROVE IInv'
<1>1. PICK op \in {"put", "drop"} : Ready(p, op)
  BY DEF iput, Drop
<1>2. PICK i : i = It(p).ip
  OBVIOUS
<1>3. itab' = [itab EXCEPT ![i] = LessOne(itab[i])]
  BY <1>2 DEF iput, Drop
<1>4. Then(p, <<>>) /\ dino' = dino /\ Elsewhere
  BY DEF iput, Drop
<1> QED BY <1>1, <1>2, <1>3, <1>4, DropRef

(* The end of freeing an inode.                                            *)
LEMMA ForgetInv ==
  ASSUME IInv, NEW p \in Procs, Forget(p) PROVE IInv'
<1>1. PICK x \in Instr, s \in Seq(Instr) :
           /\ todo[p] = Cons(x, s) /\ It(p) = x /\ x.do = "forget"
           /\ Tail(todo[p]) = s
           /\ Ok(x, s, HeldFile(p)) /\ WellFormed(s, HeldFile(p))
           /\ GoalOk(dino, x) /\ GoalsOk(dino, s)
  BY HeadIs DEF IInv, Forget
<1>2. PICK i \in Inums : i = x.ip
  BY <1>1, InstrFields DEF IpOps
<1>3. ~Locking(s, i)
  BY <1>1, <1>2 DEF Ok, OfForget
<1>4. lock[i] = p
  <2>1. Needs(x, i)
    BY <1>1, <1>2 DEF Needs
  <2> QED BY <1>1, <2>1, PopLocks
<1>5. /\ lock' = [lock EXCEPT ![i] = Nobody] /\ Then(p, <<>>)
      /\ itab' = [itab EXCEPT ![i].valid = FALSE]
      /\ UNCHANGED <<dino, disk, ops, ftab, fd, calls, scan, panic>>
  BY <1>1, <1>2 DEF Forget
<1>6. LockMoved(p, s, i, Nobody)
  <2>1. \A j \in Inums \ {i} : ~Needs(x, j) /\ x # On("lock", j)
    BY <1>1, <1>2 DEF Needs, NewOps, DirOps, On
  <2>2. Nobody \in {p, Nobody} /\ (Nobody = p <=> Locking(s, i))
        /\ lock[i] \in {p, Nobody}
    BY <1>3, <1>4, InodeAssumption
  <2>3. lock' = [lock EXCEPT ![i] = Nobody]
    BY <1>5
  <2>4. IInv /\ p \in Procs /\ x \in Instr /\ s \in Seq(Instr)
        /\ todo[p] = Cons(x, s) /\ i \in Inums
    BY <1>1
  <2> QED BY ONLY <2>1, <2>2, <2>3, <2>4, LockChange, Zenon
<1>7. /\ lock' \in [Inums -> Procs \cup {Nobody}]
      /\ \A j \in Inums : lock'[j] = p <=> Locking(s, j)
      /\ \A j \in Inums, q \in Procs \ {p} : lock'[j] = q <=> lock[j] = q
      /\ \A j \in Inums : lock'[j] = IF j = i THEN Nobody ELSE lock[j]
  BY <1>6 DEF LockMoved
<1>8. itab \in [Inums -> SlotType]
  BY DEF IInv, TypesInv
<1>9. /\ itab' \in [Inums -> SlotType]
      /\ \A j \in Inums : itab'[j].ref = itab[j].ref
      /\ \A j \in Inums \ {i} : itab'[j] = itab[j]
      /\ ~itab'[i].valid
  <2>1. itab' = [itab EXCEPT ![i] = [itab[i] EXCEPT !.valid = FALSE]]
    BY <1>5
  <2>0. PICK old \in SlotType : old = itab[i]
    BY <1>8
  <2>3. PICK new : new = [old EXCEPT !.valid = FALSE]
    OBVIOUS
  <2>4. new \in SlotType /\ new.ref = old.ref /\ new.valid = FALSE
    BY <2>3 DEF SlotType
  <2>2. PICK slot \in SlotType : slot = [itab[i] EXCEPT !.valid = FALSE]
                                 /\ slot.ref = itab[i].ref /\ slot.valid = FALSE
    BY <2>0, <2>3, <2>4
  <2> QED BY <1>8, <2>1, <2>2
<1>10. ASSUME NEW j \in Inums PROVE Popped(x, s, j)
  <2>1. /\ Weight(x, "use", j) = 0 /\ Weight(x, "drop", j) = 0
    BY <1>1 DEF Weight, Plays, UseOps
  <2>2. itab[j].ref \in Nat /\ itab'[j].ref = itab[j].ref
    BY <1>8, <1>9 DEF SlotType
  <2>3. j # i => Has(Cons(x, s), "forget", j) = Has(s, "forget", j)
    <3>1. Has(Cons(x, s), "forget", j) = Has(s, "forget", j) + Weight(x, "forget", j)
          /\ Has(s, "forget", j) \in Nat
      BY ConsHas
    <3>2. j # i => Weight(x, "forget", j) = 0
      BY <1>2 DEF Weight, Plays
    <3> QED BY <3>1, <3>2
  <2>4. Agrees(Cons(x, s), s, j)
    BY <1>9, <2>3 DEF Agrees, SameSlot
  <2>5. lock'[j] # Nobody => itab'[j].valid
    BY <1>7, <1>9 DEF IInv, InodesInv, InodeOk, HeldInv
  <2>6. itab'[j].ref + Weight(x, "use", j) + Weight(x, "drop", j) = itab[j].ref
    BY <2>1, <2>2
  <2> QED BY <2>2, <2>4, <2>5, <2>6 DEF Popped
<1>11. x.do \in {"begin", "end", "lock", "unlock", "put", "forget", "drop"}
  BY <1>1
<1>12. itab' \in [Inums -> SlotType] /\ ops' \subseteq Procs
  BY <1>5, <1>9 DEF IInv, TypesInv
<1>13. /\ dino' = dino /\ disk' \in {disk, dino} /\ panic' = ""
       /\ ftab' = ftab /\ fd' = fd /\ calls' = calls /\ scan' = scan
  BY <1>5 DEF IInv, NoPanic
<1>14. IInv /\ p \in Procs /\ x \in Instr /\ s \in Seq(Instr) /\ Then(p, <<>>)
      /\ todo[p] = Cons(x, s) /\ WellFormed(s, HeldFile(p)) /\ GoalsOk(dino, s)
  BY <1>1, <1>5
<1> QED BY ONLY <1>7, <1>10, <1>11, <1>12, <1>13, <1>14, PopStep, Zenon

(* An inode a process has in a role as often as before.                    *)
SameCounts(td, ue, p, t) ==
  \A r, j : Has(t, r, j) = Has(td[p], r, j) => Count(ue, r, j) = Count(td, r, j)

(* Roles played as often by the list count as much over all processes.     *)
LEMMA CountSame ==
  ASSUME NEW td \in Todos, NEW p \in Procs, NEW t \in Seq(Instr),
         NEW ue, ue = [td EXCEPT ![p] = t]
  PROVE  SameCounts(td, ue, p, t)
<1>1. SUFFICES ASSUME NEW r, NEW j, Has(t, r, j) = Has(td[p], r, j)
               PROVE  Count(ue, r, j) = Count(td, r, j)
  BY DEF SameCounts
<1>2. Replaced(td, ue, p, t, r, j)
  BY CountStep
<1>3. PICK a, b, c, d \in Nat :
           /\ a = Count(ue, r, j) /\ b = Has(td[p], r, j)
           /\ c = Count(td, r, j) /\ d = Has(t, r, j)
           /\ a + b = c + d /\ b <= c
  BY ONLY <1>2, Figures
<1>4. b = d
  BY <1>1, <1>3
<1>5. a = c
  BY ONLY <1>3, <1>4
<1> QED BY <1>3, <1>5

(* iput() is about to free the inode.                                      *)
LEMMA IputLastInv ==
  ASSUME IInv, NEW p \in Procs, iputLast(p) PROVE IInv'
<1>1. PICK x \in Instr, s \in Seq(Instr) :
           /\ todo[p] = Cons(x, s) /\ It(p) = x /\ x.do = "put"
           /\ Tail(todo[p]) = s
           /\ Ok(x, s, HeldFile(p)) /\ WellFormed(s, HeldFile(p))
           /\ GoalOk(dino, x) /\ GoalsOk(dino, s)
  BY HeadIs DEF IInv, iputLast
<1>2. PICK i \in Inums : i = x.ip
  BY <1>1, InstrFields DEF IpOps
<1>3. itab[i].ref = 1 /\ itab[i].valid /\ itab[i].nlink = 0
  BY <1>1, <1>2 DEF iputLast, ToBeFreed
<1>4. lock[i] = Nobody
  BY <1>1, <1>2, <1>3, LastRefFree
<1>5. /\ lock' = [lock EXCEPT ![i] = p] /\ panic' = ""
      /\ Then(p, <<On("erase", i), On("forget", i), On("drop", i)>>)
      /\ UNCHANGED <<dino, itab, disk, ops, ftab, fd, calls, scan>>
  BY <1>1, <1>2, <1>4 DEF iputLast
<1>6. PICK a \in Instr, b \in Instr, c \in Instr :
        /\ a = On("erase", i) /\ b = On("forget", i) /\ c = On("drop", i)
        /\ a.do = "erase" /\ b.do = "forget" /\ c.do = "drop"
        /\ a.ip = i /\ b.ip = i /\ c.ip = i
  BY OnIs DEF IpOps
<1>7. PICK u \in Seq(Instr), v \in Seq(Instr), t \in Seq(Instr) :
        u = Cons(c, s) /\ v = Cons(b, u) /\ t = Cons(a, v)
  <2>1. PICK u \in Seq(Instr) : u = Cons(c, s)
    BY ConsIs
  <2>2. PICK v \in Seq(Instr) : v = Cons(b, u)
    BY ConsIs
  <2>3. PICK t \in Seq(Instr) : t = Cons(a, v)
    BY ConsIs
  <2> QED BY <2>1, <2>2, <2>3
<1>8. todo' = [todo EXCEPT ![p] = t]
  <2>1. <<a, b, c>> \o s = t
    BY <1>7, TripleConcat
  <2> QED BY <2>1, <1>1, <1>5, <1>6 DEF Then
<1>9. ~Locking(s, i)
  <2>1. ~Needs(x, i) /\ x # On("lock", i)
    BY <1>1 DEF Needs, NewOps, DirOps, On
  <2> QED BY <1>1, <1>4, <2>1, PopLocks, InodeAssumption
<1>10. ASSUME NEW r \in Roles, NEW j
       PROVE  /\ Has(todo[p], r, j) = Has(s, r, j) + Weight(x, r, j)
              /\ Has(t, r, j) = Has(s, r, j) + Weight(c, r, j) + Weight(b, r, j)
                                  + Weight(a, r, j)
              /\ Has(u, r, j) = Has(s, r, j) + Weight(c, r, j)
              /\ Has(s, r, j) \in Nat
  <2>1. Has(u, r, j) = Has(s, r, j) + Weight(c, r, j)
    BY <1>7, ConsHas
  <2>2. Has(v, r, j) = Has(u, r, j) + Weight(b, r, j)
    BY <1>7, ConsHas
  <2>3. Has(t, r, j) = Has(v, r, j) + Weight(a, r, j)
    BY <1>7, ConsHas
  <2>4. /\ Has(todo[p], r, j) = Has(s, r, j) + Weight(x, r, j)
        /\ Has(s, r, j) \in Nat
    BY <1>1, ConsHas
  <2> QED BY <2>1, <2>2, <2>3, <2>4
<1>11. WellFormed(t, HeldFile(p)) /\ GoalsOk(dino, t)
  <2>1. Ok(c, s, HeldFile(p))
    BY <1>6 DEF Ok, Static, Plain, NewOps, DirOps
  <2>2. Ok(b, u, HeldFile(p))
    <3>1. ~Locking(u, i)
      <4>1. ~Needs(c, i)
        BY <1>6 DEF Needs, NewOps, DirOps
      <4> QED BY <4>1, <1>7, <1>9, ConsLocking
    <3>2. Has(u, "drop", i) > 0
      <4>1. Weight(c, "drop", i) = 1
        BY <1>6 DEF Weight, Plays
      <4> QED BY <4>1, <1>10 DEF Roles
    <3> QED BY <1>6, <3>1, <3>2 DEF Ok, OfForget, Static, Plain
  <2>3. Ok(a, v, HeldFile(p))
    <3>1. Locking(v, i)
      <4>1. Needs(b, i)
        BY <1>6 DEF Needs
      <4> QED BY <4>1, <1>7, ConsLocking
    <3>2. Has(v, "drop", i) > 0
      <4>1. Weight(c, "drop", i) = 1 /\ Weight(b, "drop", i) = 0
        BY <1>6 DEF Weight, Plays
      <4>2. Has(v, "drop", i) = Has(u, "drop", i) + Weight(b, "drop", i)
            /\ Has(u, "drop", i) \in Nat
        BY <1>7, ConsHas
      <4>3. Has(u, "drop", i) > 0
        BY <4>1, <1>10 DEF Roles
      <4> QED BY <4>1, <4>2, <4>3
    <3>3. Has(v, "forget", i) > 0
      <4>1. Weight(b, "forget", i) = 1
        BY <1>6 DEF Weight, Plays
      <4>2. Has(v, "forget", i) = Has(u, "forget", i) + Weight(b, "forget", i)
            /\ Has(u, "forget", i) \in Nat
        BY <1>7, ConsHas
      <4> QED BY <4>1, <4>2
    <3>4. Has(v, "erase", i) = 0
      <4>1. Count(todo, "erase", i) = 0
        BY <1>1, <1>2, NoErase
      <4>2. Has(todo[p], "erase", i) <= Count(todo, "erase", i)
            /\ Has(todo[p], "erase", i) \in Nat
        BY CountSome DEF IInv, TypesInv
      <4>3. Has(s, "erase", i) = 0
        <5>1. Has(todo[p], "erase", i) = Has(s, "erase", i) + Weight(x, "erase", i)
              /\ Has(s, "erase", i) \in Nat /\ Weight(x, "erase", i) \in {0, 1}
          BY <1>1, PopIs DEF Roles
        <5> QED BY ONLY <5>1, <4>1, <4>2
      <4>4. Weight(b, "erase", i) = 0 /\ Weight(c, "erase", i) = 0
        BY <1>6 DEF Weight, Plays
      <4>5. Has(v, "erase", i) = Has(u, "erase", i) + Weight(b, "erase", i)
            /\ Has(u, "erase", i) = Has(s, "erase", i) + Weight(c, "erase", i)
        BY <1>7, ConsHas
      <4> QED BY <4>3, <4>4, <4>5
    <3> QED BY <1>6, <3>1, <3>2, <3>3, <3>4 DEF Ok, OfErase, Static, Plain
  <2>4. WellFormed(u, HeldFile(p))
    BY <1>1, <1>7, <2>1, ConsWellFormed
  <2>5. WellFormed(v, HeldFile(p))
    BY <1>7, <2>2, <2>4, ConsWellFormed
  <2>6. WellFormed(t, HeldFile(p))
    BY <1>7, <2>3, <2>5, ConsWellFormed
  <2>7. GoalOk(dino, a) /\ GoalOk(dino, b) /\ GoalOk(dino, c)
    BY <1>6 DEF GoalOk
  <2>8. GoalsOk(dino, u)
    BY <1>1, <1>7, <2>7, ConsGoals
  <2>9. GoalsOk(dino, v)
    BY <1>7, <2>7, <2>8, ConsGoals
  <2>10. GoalsOk(dino, t)
    BY <1>7, <2>7, <2>9, ConsGoals
  <2> QED BY <2>6, <2>10
<1>12. \A j : Locking(t, j) <=> j = i \/ Locking(s, j)
  <2>1. \A j : Locking(u, j) <=> Locking(s, j)
    <3>1. \A j : ~Needs(c, j) /\ c # On("lock", j)
      BY <1>6 DEF Needs, NewOps, DirOps, On
    <3> QED BY <3>1, <1>7, ConsLocking
  <2>2. \A j : Locking(v, j) <=> j = i \/ Locking(u, j)
    <3>1. \A j : (Needs(b, j) <=> j = i) /\ b # On("lock", j)
      BY <1>6 DEF Needs, NewOps, DirOps, On
    <3> QED BY <3>1, <1>7, ConsLocking
  <2>3. \A j : Locking(t, j) <=> j = i \/ Locking(v, j)
    <3>1. \A j : (Needs(a, j) <=> j = i) /\ a # On("lock", j)
      BY <1>6 DEF Needs, NewOps, DirOps, On
    <3> QED BY <3>1, <1>7, ConsLocking
  <2> QED BY <2>1, <2>2, <2>3
<1>13. lock \in [Inums -> Procs \cup {Nobody}] /\ Nobody \notin Procs
  BY InodeAssumption DEF IInv, TypesInv
<1>14. /\ lock' \in [Inums -> Procs \cup {Nobody}]
       /\ \A j \in Inums : lock'[j] = IF j = i THEN p ELSE lock[j]
  BY <1>5, <1>13
<1>15. ASSUME NEW j \in Inums PROVE lock'[j] = p <=> Locking(t, j)
  <2>1. CASE j = i
    BY <2>1, <1>12, <1>14
  <2>2. CASE j # i
    <3>1. ~Needs(x, j) /\ x # On("lock", j)
      BY <1>1 DEF Needs, NewOps, DirOps, On
    <3>2. lock[j] = p <=> Locking(s, j)
      BY <1>1, <3>1, PopLocks
    <3> QED BY <2>2, <3>2, <1>12, <1>14
  <2> QED BY <2>1, <2>2
<1>16. ASSUME NEW j \in Inums, NEW q \in Procs \ {p}
       PROVE  lock'[j] = q <=> lock[j] = q
  BY <1>4, <1>13, <1>14
<1>17. /\ TypesInv /\ todo \in Todos /\ DiskInv /\ TodoInv /\ LockInv /\ FileInv
       /\ GoalInv /\ ftab' = ftab /\ fd' = fd /\ dino' = dino /\ itab' = itab
  BY <1>5 DEF IInv, TypesInv
<1>18. todo' \in Todos /\ TodoInv' /\ LockInv' /\ FileInv'
  BY <1>8, <1>11, <1>14, <1>15, <1>16, <1>17, LocalStep
<1>19. GoalInv'
  <2>1. \A q \in Procs \ {p} : GoalsOk(dino', todo[q])
    BY <1>17 DEF GoalInv
  <2>2. GoalsOk(dino', t)
    BY <1>11, <1>17
  <2> QED BY <2>1, <2>2, <1>8, <1>17, GoalStep
<1>20. TypesInv' /\ DiskInv'
  BY <1>5, <1>14, <1>17, <1>18 DEF TypesInv, DiskInv
<1>21. PICK ue \in Todos : ue = todo' /\ ue = [todo EXCEPT ![p] = t]
  BY <1>8, <1>18
<1>22. ASSUME NEW j \in Inums, NEW r \in Roles,
              j # i \/ r \in {"new", "dir", "old", "back"}
       PROVE  Count(ue, r, j) = Count(todo, r, j)
  <2>1. Weight(x, r, j) = 0
    <3>1. ~Plays(x, r, j)
      BY <1>1, <1>2, <1>22 DEF Plays, UseOps, NewOps, DirOps
    <3> QED BY <3>1 DEF Weight
  <2>2. Weight(a, r, j) = 0
    <3>1. ~Plays(a, r, j)
      BY <1>6, <1>22 DEF Plays, UseOps, NewOps, DirOps
    <3> QED BY <3>1 DEF Weight
  <2>3. Weight(b, r, j) = 0
    <3>1. ~Plays(b, r, j)
      BY <1>6, <1>22 DEF Plays, UseOps, NewOps, DirOps
    <3> QED BY <3>1 DEF Weight
  <2>4. Weight(c, r, j) = 0
    <3>1. ~Plays(c, r, j)
      BY <1>6, <1>22 DEF Plays, UseOps, NewOps, DirOps
    <3> QED BY <3>1 DEF Weight
  <2>5. Has(t, r, j) = Has(todo[p], r, j)
    BY <1>10, <2>1, <2>2, <2>3, <2>4
  <2>6. todo \in Todos /\ p \in Procs /\ t \in Seq(Instr)
    BY <1>17
  <2>7. ue = [todo EXCEPT ![p] = t]
    BY <1>21
  <2>8. SameCounts(todo, ue, p, t)
    BY ONLY <2>6, <2>7, CountSame
  <2> QED BY <2>5, <2>8 DEF SameCounts
<1>23. ASSUME NEW j \in Inums, j # i PROVE InodeOk(j)'
  <2>1. \A r \in Roles : Count(ue, r, j) = Count(todo, r, j)
    BY <1>22, <1>23
  <2>2. Uses(ue, j) = Uses(todo, j)
    BY <2>1 DEF Uses, Roles
  <2>3. /\ Count(todo', "new", j) = Count(todo, "new", j)
        /\ Count(todo', "drop", j) = Count(todo, "drop", j)
        /\ Count(todo', "erase", j) = Count(todo, "erase", j)
        /\ Count(todo', "forget", j) = Count(todo, "forget", j)
        /\ Count(todo', "dir", j) = Count(todo, "dir", j)
        /\ Count(todo', "old", j) = Count(todo, "old", j)
        /\ Count(todo', "back", j) = Count(todo, "back", j)
        /\ Uses(todo', j) = Uses(todo, j)
    BY <1>21, <2>1, <2>2 DEF Roles
  <2>4. lock'[j] = lock[j] /\ itab'[j] = itab[j] /\ dino' = dino /\ ftab' = ftab
    BY <1>14, <1>17, <1>23
  <2>5. InodeOk(j)
    BY DEF IInv, InodesInv
  <2>6. RefInv(j)' /\ UsedInv(j)' /\ NewInv(j)' /\ EraseInv(j)'
    BY <2>3, <2>4, <2>5 DEF InodeOk, RefInv, UsedInv, NewInv, EraseInv
  <2>7. DirInv(j)' /\ OldInv(j)' /\ ClaimInv(j)' /\ AgreeInv(j)' /\ HeldInv(j)'
    BY <2>3, <2>4, <2>5 DEF InodeOk, DirInv, OldInv, ClaimInv, AgreeInv, HeldInv
  <2> QED BY <2>6, <2>7 DEF InodeOk
<1>24. InodeOk(i)'
  <2>1. InodeOk(i)
    BY DEF IInv, InodesInv
  <2>2. /\ Count(todo', "new", i) = Count(todo, "new", i)
        /\ Count(todo', "dir", i) = Count(todo, "dir", i)
        /\ Count(todo', "old", i) = Count(todo, "old", i)
        /\ Count(todo', "back", i) = Count(todo, "back", i)
    BY <1>21, <1>22 DEF Roles
  <2>3. Holds(todo[p], i) > 0
    <3>1. /\ Holds(Cons(x, s), i) = Holds(s, i) + Weight(x, "use", i)
              + Weight(x, "back", i) + Weight(x, "old", i) + Weight(x, "dir", i)
          /\ Holds(s, i) \in Nat
      BY PopIs
    <3>2. Weight(x, "use", i) = 1 /\ Weight(x, "back", i) \in Nat
          /\ Weight(x, "old", i) \in Nat /\ Weight(x, "dir", i) \in Nat
      BY <1>1, <1>2 DEF Weight, Plays, UseOps
    <3>3. Holds(Cons(x, s), i) > 0
      BY ONLY <3>1, <3>2
    <3> QED BY <1>1, <3>3
  <2>4. dino[i].type # "free" /\ Count(todo, "new", i) = 0
    BY <2>3, HoldsIs
  <2>5. Count(todo, "forget", i) = 0
    <3>1. ~(Count(todo, "forget", i) > 0)
      <4>1. SUFFICES ASSUME Count(todo, "forget", i) > 0 PROVE FALSE
        OBVIOUS
      <4>2. PICK q \in Procs : lock[i] = q
        BY <4>1, LockedBy
      <4> QED BY <4>2, <1>4, <1>13
    <3>2. Count(todo, "forget", i) \in Nat
      BY <1>17, CountSome
    <3> QED BY <3>1, <3>2
  <2>6. dino[i].nlink = 0 /\ itab[i].type = dino[i].type
    BY <2>1, <2>5, <1>3 DEF InodeOk, AgreeInv
  <2>7. RefInv(i)'
    <3>1. PICK k \in Nat : k = Total(s, i) /\ Total(todo[p], i) = k + 1
      BY <1>1, <1>2, PopTotal
    <3>2. Total(t, i) = k + 1
      <4>1. Total(u, i) = k + 1
        BY <1>6, <1>7, <3>1, PopTotal
      <4>2. /\ Total(Cons(b, u), i) = Total(u, i) + Weight(b, "use", i)
                 + Weight(b, "back", i) + Weight(b, "old", i)
                 + Weight(b, "dir", i) + Weight(b, "new", i) + Weight(b, "drop", i)
        BY PopIs
      <4>3. /\ Total(Cons(a, v), i) = Total(v, i) + Weight(a, "use", i)
                 + Weight(a, "back", i) + Weight(a, "old", i)
                 + Weight(a, "dir", i) + Weight(a, "new", i) + Weight(a, "drop", i)
        BY PopIs
      <4>4. \A r \in {"use", "back", "old", "dir", "new", "drop"} :
              Weight(a, r, i) = 0 /\ Weight(b, r, i) = 0
        BY <1>6 DEF Weight, Plays, UseOps, NewOps, DirOps
      <4>5. Total(v, i) = k + 1
        <5>1. Total(v, i) = (k + 1) + 0 + 0 + 0 + 0 + 0 + 0
          BY <1>7, <4>1, <4>2, <4>4
        <5>2. (k + 1) + 0 + 0 + 0 + 0 + 0 + 0 = k + 1
          BY ONLY k \in Nat
        <5> QED BY <5>1, <5>2
      <4>6. Total(t, i) = (k + 1) + 0 + 0 + 0 + 0 + 0 + 0
        BY <1>7, <4>3, <4>4, <4>5
      <4>7. (k + 1) + 0 + 0 + 0 + 0 + 0 + 0 = k + 1
        BY ONLY k \in Nat
      <4> QED BY <4>6, <4>7
    <3>3. RefInv(i) /\ itab[i].ref \in Nat /\ itab'[i].ref \in Nat
      BY <2>1, <1>3, <1>17 DEF InodeOk
    <3>4. itab'[i].ref + Total(todo[p], i) = itab[i].ref + Total(t, i)
      BY <3>1, <3>2, <1>17
    <3> QED BY <1>8, <1>17, <3>3, <3>4, RefStep
  <2>8. UsedInv(i)' /\ NewInv(i)' /\ EraseInv(i)'
    BY <2>1, <2>2, <2>4, <2>6, <1>3, <1>17
       DEF UsedInv, NewInv, EraseInv
  <2>9. DirInv(i)' /\ OldInv(i)' /\ ClaimInv(i)'
    BY <2>1, <2>2, <1>17 DEF InodeOk, DirInv, OldInv, ClaimInv
  <2>10. AgreeInv(i)' /\ HeldInv(i)'
    BY <2>4, <2>6, <1>3, <1>17 DEF AgreeInv, HeldInv
  <2> QED BY <2>7, <2>8, <2>9, <2>10 DEF InodeOk
<1>25. InodesInv'
  BY <1>23, <1>24 DEF InodesInv
<1> QED BY <1>5, <1>18, <1>19, <1>20, <1>25 DEF IInv, NoPanic

(* link() of a directory fails (sysfile.c:139).                            *)
LEMMA LinkOldFails ==
  ASSUME IInv, NEW p \in Procs, LinkOld(p), itab[It(p).ip].type = "dir"
  PROVE  IInv'
<1>1. Ready(p, "linkold")
  BY DEF LinkOld
<1>2. PICK x \in Instr :
           /\ It(p) = x /\ x.do = "linkold" /\ todo[p] = LastT(x)
           /\ Tail(todo[p]) = EndOp /\ Static(x) /\ GoalOk(dino, x)
           /\ \A j \in Inums : Needs(x, j) => Held(p, j)
  BY <1>1, MiddleIs DEF Middle, OldOps
<1>3. PICK i \in Inums : i = x.ip
  BY <1>2, InstrFields
<1>4. dino' = dino /\ itab' = itab /\ Elsewhere /\ Then(p, iunlockput(i))
  BY <1>2, <1>3 DEF LinkOld
<1>5. x.do \in OldOps \cup DirOps /\ i = (IF x.do \in OldOps THEN x.ip ELSE x.dp)
  BY <1>2, <1>3 DEF OldOps
<1>6. Static(x) /\ todo[p] = LastT(x) /\ Tail(todo[p]) = EndOp
  BY <1>2
<1>7. IInv /\ p \in Procs /\ x \in Instr
  OBVIOUS
<1> QED BY ONLY <1>4, <1>5, <1>6, <1>7, OneDone, Zenon

(* ialloc() finds no inode (sysfile.c:265).                                *)
LEMMA CreateNone ==
  ASSUME IInv, NEW p \in Procs, Ready(p, "create"),
         Then(p, iunlockput(It(p).dp)), dino' = dino, itab' = itab, Elsewhere
  PROVE  IInv'
<1>2. PICK x \in Instr :
           /\ It(p) = x /\ x.do = "create" /\ todo[p] = LastT(x)
           /\ Tail(todo[p]) = EndOp /\ Static(x) /\ GoalOk(dino, x)
           /\ \A j \in Inums : Needs(x, j) => Held(p, j)
  BY MiddleIs DEF Middle, DirOps
<1>3. PICK i \in Inums : i = x.dp
  BY <1>2, InstrFields DEF DirOps
<1>4. dino' = dino /\ itab' = itab /\ Elsewhere /\ Then(p, iunlockput(i))
  BY <1>2, <1>3
<1>5. x.do \in OldOps \cup DirOps /\ i = (IF x.do \in OldOps THEN x.ip ELSE x.dp)
  BY <1>2, <1>3 DEF OldOps, DirOps
<1>6. Static(x) /\ todo[p] = LastT(x) /\ Tail(todo[p]) = EndOp
  BY <1>2
<1>7. IInv /\ p \in Procs /\ x \in Instr
  OBVIOUS
<1> QED BY ONLY <1>4, <1>5, <1>6, <1>7, OneDone, Zenon

(* open() finds that it cannot: a directory to be written, or no file to   *)
(* be had (sysfile.c:331, 344).                                            *)
LEMMA OpenFails ==
  ASSUME IInv, NEW p \in Procs, Ready(p, "open"),
         Then(p, iunlockput(It(p).ip)), dino' = dino, itab' = itab, Elsewhere
  PROVE  IInv'
<1>2. PICK x \in Instr :
           /\ It(p) = x /\ x.do = "open" /\ todo[p] = LastT(x)
           /\ Tail(todo[p]) = EndOp /\ Static(x) /\ GoalOk(dino, x)
           /\ \A j \in Inums : Needs(x, j) => Held(p, j)
  BY MiddleIs DEF Middle, OldOps
<1>3. PICK i \in Inums : i = x.ip
  BY <1>2, InstrFields
<1>4. dino' = dino /\ itab' = itab /\ Elsewhere /\ Then(p, iunlockput(i))
  BY <1>2, <1>3
<1>5. x.do \in OldOps \cup DirOps /\ i = (IF x.do \in OldOps THEN x.ip ELSE x.dp)
  BY <1>2, <1>3 DEF OldOps
<1>6. Static(x) /\ todo[p] = LastT(x) /\ Tail(todo[p]) = EndOp
  BY <1>2
<1>7. IInv /\ p \in Procs /\ x \in Instr
  OBVIOUS
<1> QED BY ONLY <1>4, <1>5, <1>6, <1>7, OneDone, Zenon

(* One more or less in a set.                                              *)
LEMMA SplitOne ==
  ASSUME NEW S, IsFiniteSet(S), NEW y
  PROVE  /\ Cardinality(S) = Cardinality(S \ {y}) + (IF y \in S THEN 1 ELSE 0)
         /\ Cardinality(S \ {y}) \in Nat /\ Cardinality(S) \in Nat
<1>1. IsFiniteSet(S \ {y})
  BY FS_Subset
<1>2. Cardinality(S) \in Nat /\ Cardinality(S \ {y}) \in Nat
  BY <1>1, FS_CardinalityType
<1>3. CASE y \in S
  <2>1. Cardinality((S \ {y}) \cup {y}) = Cardinality(S \ {y}) + 1
    BY <1>1, FS_AddElement
  <2>2. (S \ {y}) \cup {y} = S
    BY <1>3
  <2> QED BY <1>2, <1>3, <2>1, <2>2
<1>4. CASE y \notin S
  <2>1. S \ {y} = S
    BY <1>4
  <2> QED BY <1>2, <1>4, <2>1
<1> QED BY <1>3, <1>4

(* The open files on an inode: f, and the others.                          *)
LEMMA FilesSplit ==
  ASSUME NEW ft, NEW f \in Files, NEW i
  PROVE  /\ FilesOf(ft, i) =
              Cardinality({g \in Files \ {f} : ft[g].ip = i}) + Is(ft[f].ip, i)
         /\ Cardinality({g \in Files \ {f} : ft[g].ip = i}) \in Nat
<1>1. IsFiniteSet(Files)
  <2>1. NFILE \in Int
    BY InodeAssumption
  <2> QED BY <2>1, FS_Interval DEF Files
<1>2. PICK S : S = {g \in Files : ft[g].ip = i}
  OBVIOUS
<1>3. IsFiniteSet(S)
  BY <1>1, <1>2, FS_Subset
<1>4. S \ {f} = {g \in Files \ {f} : ft[g].ip = i}
  BY <1>2
<1>5. f \in S <=> ft[f].ip = i
  BY <1>2
<1>6. /\ Cardinality(S) = Cardinality(S \ {f}) + (IF f \in S THEN 1 ELSE 0)
      /\ Cardinality(S \ {f}) \in Nat
  BY <1>3, SplitOne
<1> QED BY <1>2, <1>4, <1>5, <1>6 DEF FilesOf, Is

(* A file slot changes.                                                    *)
LEMMA FilesMoved ==
  ASSUME NEW ft, NEW gt, NEW f \in Files,
         \A g \in Files \ {f} : gt[g].ip = ft[g].ip, NEW i
  PROVE  FilesOf(gt, i) + Is(ft[f].ip, i) = FilesOf(ft, i) + Is(gt[f].ip, i)
<1>1. {g \in Files \ {f} : gt[g].ip = i} = {g \in Files \ {f} : ft[g].ip = i}
  OBVIOUS
<1>2. PICK c \in Nat : c = Cardinality({g \in Files \ {f} : ft[g].ip = i})
  BY FilesSplit
<1>3. FilesOf(gt, i) = c + Is(gt[f].ip, i)
  BY <1>1, <1>2, FilesSplit
<1>4. FilesOf(ft, i) = c + Is(ft[f].ip, i)
  BY <1>2, FilesSplit
<1>5. PICK a, b \in Nat : a = Is(gt[f].ip, i) /\ b = Is(ft[f].ip, i)
  BY DEF Is
<1>6. (c + a) + b = (c + b) + a
  BY ONLY a \in Nat, b \in Nat, c \in Nat
<1> QED BY <1>3, <1>4, <1>5, <1>6

Having(fs, S, f) == Cardinality({q \in S : fs[q] = f})

(* Those who have a file: p, and the others.                               *)
LEMMA SharersSplit ==
  ASSUME NEW fs, NEW p \in Procs, NEW f
  PROVE  /\ Having(fs, Procs, f) = Having(fs, Procs \ {p}, f) + Is(fs[p], f)
         /\ Having(fs, Procs \ {p}, f) \in Nat
<1>1. IsFiniteSet(Procs)
  BY InodeAssumption
<1>2. PICK S : S = {q \in Procs : fs[q] = f}
  OBVIOUS
<1>3. IsFiniteSet(S)
  BY <1>1, <1>2, FS_Subset
<1>4. S \ {p} = {q \in Procs \ {p} : fs[q] = f}
  BY <1>2
<1>5. p \in S <=> fs[p] = f
  BY <1>2
<1>6. /\ Cardinality(S) = Cardinality(S \ {p}) + (IF p \in S THEN 1 ELSE 0)
      /\ Cardinality(S \ {p}) \in Nat
  BY <1>3, SplitOne
<1> QED BY <1>2, <1>4, <1>5, <1>6 DEF Is, Having

(* A descriptor changes.                                                   *)
LEMMA SharersMoved ==
  ASSUME TypesInv, NEW p \in Procs, NEW v, fd' = [fd EXCEPT ![p] = v], NEW f
  PROVE  /\ Cardinality(Sharers(f)') + Is(fd[p], f) = Cardinality(Sharers(f)) + Is(v, f)
         /\ Cardinality(Sharers(f)) \in Nat /\ Cardinality(Sharers(f)') \in Nat
         /\ fd[p] = f => Cardinality(Sharers(f)) > 0
<1>1. fd'[p] = v /\ \A q \in Procs \ {p} : fd'[q] = fd[q]
  BY DEF TypesInv
<1>2. Having(fd', Procs \ {p}, f) = Having(fd, Procs \ {p}, f)
  <2>1. {q \in Procs \ {p} : fd'[q] = f} = {q \in Procs \ {p} : fd[q] = f}
    BY <1>1
  <2> QED BY <2>1 DEF Having
<1>8. /\ Having(fd, Procs, f) = Having(fd, Procs \ {p}, f) + Is(fd[p], f)
      /\ Having(fd, Procs \ {p}, f) \in Nat
      /\ Having(fd', Procs, f) = Having(fd', Procs \ {p}, f) + Is(fd'[p], f)
  BY SharersSplit
<1>3. PICK c \in Nat : c = Having(fd, Procs \ {p}, f)
  BY <1>8
<1>4. Cardinality(Sharers(f)') = c + Is(v, f)
  BY <1>1, <1>2, <1>3, <1>8 DEF Sharers, Having
<1>5. Cardinality(Sharers(f)) = c + Is(fd[p], f)
  BY <1>3, <1>8 DEF Sharers, Having
<1>6. PICK a, b \in Nat : a = Is(v, f) /\ b = Is(fd[p], f)
  BY DEF Is
<1>7. (c + a) + b = (c + b) + a /\ c + a \in Nat /\ c + b \in Nat /\ (b = 1 => c + b > 0)
  BY ONLY a \in Nat, b \in Nat, c \in Nat
<1>9. fd[p] = f => b = 1
  BY <1>6 DEF Is
<1> QED BY <1>4, <1>5, <1>6, <1>7, <1>9

(* A step that changes open files.                                         *)
Filed(s, t, i) ==
  /\ StillHas(s, t, dino, i)
  /\ Has(t, "forget", i) = Has(s, "forget", i)
  /\ Total(t, i) + FilesOf(ftab', i) = Total(s, i) + FilesOf(ftab, i)
  /\ Holds(t, i) + FilesOf(ftab', i) > 0 => Holds(s, i) + FilesOf(ftab, i) > 0

(* References when a process and the open files exchange some.             *)
LEMMA FiledRef ==
  ASSUME TypesInv, NEW p \in Procs, NEW t \in Seq(Instr),
         todo' = [todo EXCEPT ![p] = t], itab' = itab,
         NEW i \in Inums, RefInv(i), itab[i].ref \in Nat, Filed(todo[p], t, i)
  PROVE  /\ RefInv(i)'
         /\ Uses(todo', i) + FilesOf(ftab', i) > 0 =>
              Uses(todo, i) + FilesOf(ftab, i) > 0
<1>1. todo \in Todos
  BY DEF TypesInv
<1>2. PICK ue \in Todos : ue = todo' /\ ue = [todo EXCEPT ![p] = t]
  BY <1>1 DEF Todos
<1>3. /\ Replaced(todo, ue, p, t, "new", i)
      /\ Replaced(todo, ue, p, t, "drop", i)
  BY <1>1, <1>2, CountStep
<1>20. UsesMoved(todo, ue, p, t, i)
  BY <1>1, <1>2, UsesStep
<1>4. PICK u, h, v, k \in Nat :
         /\ u = Uses(ue, i) /\ h = Holds(todo[p], i)
         /\ v = Uses(todo, i) /\ k = Holds(t, i)
         /\ u + h = v + k /\ h <= v
  BY ONLY <1>20, UsesFigures
<1>5. PICK f, e \in Nat : f = FilesOf(ftab, i) /\ e = FilesOf(ftab', i)
  BY FilesOfNat
<1>6. PICK a1, b1, c1, d1 \in Nat :
           /\ a1 = Count(ue, "new", i) /\ b1 = Has(todo[p], "new", i)
           /\ c1 = Count(todo, "new", i) /\ d1 = Has(t, "new", i)
           /\ a1 + b1 = c1 + d1 /\ b1 <= c1
  BY ONLY <1>3, Figures
<1>7. PICK a2, b2, c2, d2 \in Nat :
           /\ a2 = Count(ue, "drop", i) /\ b2 = Has(todo[p], "drop", i)
           /\ c2 = Count(todo, "drop", i) /\ d2 = Has(t, "drop", i)
           /\ a2 + b2 = c2 + d2 /\ b2 <= c2
  BY ONLY <1>3, Figures
<1>8. PICK m \in Nat : m = itab[i].ref
  OBVIOUS
<1>9. /\ v + c1 + c2 + f = m
      /\ (k + d1 + d2) + e = (h + b1 + b2) + f
  BY <1>4, <1>5, <1>6, <1>7, <1>8 DEF RefInv, Total, Filed
<1>10. u + h = v + k /\ a1 + b1 = c1 + d1 /\ a2 + b2 = c2 + d2 /\ h <= v
  BY <1>4, <1>6, <1>7
<1>11. u + a1 + a2 + e = m
  BY ONLY <1>9, <1>10
<1>12. Uses(ue, i) + Count(ue, "new", i) + Count(ue, "drop", i)
        + FilesOf(ftab', i) = itab'[i].ref
  BY <1>4, <1>5, <1>6, <1>7, <1>8, <1>11
<1>13. k + e > 0 => h + f > 0
  BY <1>4, <1>5 DEF Filed
<1>14. u + e > 0 => v + f > 0
  BY ONLY <1>10, <1>13, u \in Nat, v \in Nat, h \in Nat, k \in Nat, e \in Nat,
     f \in Nat
<1> QED BY <1>2, <1>4, <1>5, <1>12, <1>14 DEF RefInv

(* A step that changes open files, and leaves disk, slots and locks alone. *)
LEMMA FileStep ==
  ASSUME IInv, NEW p \in Procs, NEW t \in Seq(Instr),
         todo' = [todo EXCEPT ![p] = t],
         UNCHANGED <<dino, disk, ops, itab, lock, calls, scan, panic>>,
         ftab' \in [Files -> FileType], fd' \in [Procs -> 0 .. NFILE],
         FileInv', WellFormed(t, HeldFile(p)'),
         \A q \in Procs \ {p} : HeldFile(q)' = HeldFile(q),
         GoalsOk(dino, t),
         \A j \in Inums : Locking(t, j) <=> Locking(todo[p], j),
         \A i \in Inums : Filed(todo[p], t, i)
  PROVE  IInv'
<1> USE DEF IInv
<1>0. TypesInv /\ todo \in Todos /\ todo[p] \in Seq(Instr) /\ todo' \in Todos
      /\ todo'[p] = t /\ \A q \in Procs \ {p} : todo'[q] = todo[q]
  BY DEF TypesInv, Todos
<1>1. TodoInv' /\ LockInv'
  <2>1. TodoInv'
    <3>1. ASSUME NEW q \in Procs PROVE WellFormed(todo'[q], HeldFile(q)')
      <4>1. CASE q = p
        BY <4>1, <1>0
      <4>2. CASE q # p
        <5>1. todo'[q] = todo[q] /\ HeldFile(q)' = HeldFile(q)
          BY <4>2, <1>0
        <5>2. WellFormed(todo[q], HeldFile(q))
          BY DEF TodoInv
        <5> QED BY <5>1, <5>2
      <4> QED BY <4>1, <4>2
    <3> QED BY <3>1 DEF TodoInv
  <2>2. LockInv'
    <3>1. ASSUME NEW q \in Procs, NEW j \in Inums
          PROVE  lock'[j] = q <=> Locking(todo'[q], j)
      <4>1. lock[j] = q <=> Locking(todo[q], j)
        BY DEF LockInv
      <4>2. CASE q = p
        BY <4>1, <4>2, <1>0
      <4>3. CASE q # p
        BY <4>1, <4>3, <1>0
      <4> QED BY <4>2, <4>3
    <3> QED BY <3>1 DEF LockInv
  <2> QED BY <2>1, <2>2
<1>2. GoalInv'
  <2>1. \A q \in Procs \ {p} : GoalsOk(dino', todo[q])
    BY DEF GoalInv
  <2>2. GoalsOk(dino', t)
    OBVIOUS
  <2> QED BY <2>1, <2>2, GoalStep
<1>3. TypesInv'
  BY <1>0 DEF TypesInv
<1>4. DiskInv'
  BY DEF DiskInv
<1>5. PICK ue \in Todos : ue = todo' /\ ue = [todo EXCEPT ![p] = t]
  BY <1>0
<1>6. ASSUME NEW i \in Inums PROVE InodeOk(i)'
  <2>1. InodeOk(i) /\ Filed(todo[p], t, i) /\ itab[i].ref \in Nat /\ RefInv(i)
    BY DEF InodesInv, TypesInv, SlotType, InodeOk
  <2>2. QuietCounts(todo, todo', dino, i)
    BY <1>0, <1>5, <2>1, StillFrom DEF Filed
  <2>3. RefInv(i)' /\ (Uses(todo', i) + FilesOf(ftab', i) > 0 =>
                         Uses(todo, i) + FilesOf(ftab, i) > 0)
    BY <1>0, <2>1, FiledRef
  <2>4. AgreeInv(i)'
    <3>1. SameCounts(todo, ue, p, t)
      BY <1>0, <1>5, CountSame
    <3>2. Count(todo', "forget", i) = Count(todo, "forget", i)
      BY <1>5, <2>1, <3>1 DEF SameCounts, Filed
    <3> QED BY <2>1, <3>2 DEF InodeOk, AgreeInv
  <2>5. HeldInv(i)'
    BY <2>1 DEF InodeOk, HeldInv
  <2> QED BY <1>0, <2>1, <2>2, <2>3, <2>4, <2>5, QuietInode
<1> QED BY <1>0, <1>1, <1>2, <1>3, <1>4, <1>6 DEF NoPanic, InodesInv

(* A set of numbers that is not empty has a least one.                     *)
LEMMA LeastIsIn ==
  ASSUME NEW S \in SUBSET Nat, S # {}
  PROVE  \E d \in S : \A e \in S : d <= e
<1> DEFINE T == {0 .. d : d \in S}
<1>1. T \subseteq FiniteSubsetsOf(Nat) /\ T # {}
  <2>1. \A d \in S : IsFiniteSet(0 .. d) /\ 0 .. d \in SUBSET Nat
    BY FS_Interval
  <2> QED BY <2>1 DEF FiniteSubsetsOf
<1>2. PICK x \in T : \A y \in T : <<y, x>> \notin StrictSubsetOrdering(Nat)
  <2> HIDE DEF T
  <2> QED BY <1>1, FS_StrictSubsetOrderingWellFounded, WFMin
<1>3. PICK d \in S : x = 0 .. d
  OBVIOUS
<1>4. ASSUME NEW e \in S, e < d
      PROVE  FALSE
  <2>1. 0 .. e \in T /\ 0 .. e # 0 .. d /\ 0 .. e \subseteq 0 .. d
    <3>1. d \in 0 .. d /\ d \notin 0 .. e
      BY <1>4
    <3> QED BY <3>1, <1>4
  <2>2. <<0 .. e, 0 .. d>> \in StrictSubsetOrdering(Nat)
    BY <2>1 DEF StrictSubsetOrdering
  <2> QED BY <1>2, <1>3, <2>1, <2>2
<1> QED BY <1>4

(* open() puts its reference into a file (sysfile.c:344-370): it is        *)
(* counted for the file from then on.                                      *)
LEMMA OpenDone ==
  ASSUME IInv, NEW p \in Procs, NEW x \in Instr, x.do = "open",
         Static(x), todo[p] = LastT(x), Tail(todo[p]) = EndOp,
         NEW i \in Inums, i = x.ip, fd[p] = 0,
         NEW f \in Files, ftab[f].ref = 0,
         ftab' = [ftab EXCEPT ![f] = [ref |-> 1, ip |-> i]],
         fd' = [fd EXCEPT ![p] = f],
         Then(p, <<On("unlock", i)>>),
         UNCHANGED <<dino, disk, ops, itab, lock, scan, calls, panic>>
  PROVE  IInv'
<1>1. TypesInv /\ FileInv /\ todo[p] \in Seq(Instr)
  BY DEF IInv, TypesInv, Todos
<1>2. ftab[f].ip = 0 /\ Cardinality(Sharers(f)) = 0
  BY <1>1 DEF FileInv
<1>3. f \in Nat /\ f # 0 /\ i \in 0 .. NINODES /\ i # 0 /\ f \in 0 .. NFILE
  BY InodeAssumption DEF Files, Inums
<1>4. /\ ftab' \in [Files -> FileType]
      /\ ftab'[f].ref = 1 /\ ftab'[f].ip = i /\ \A g \in Files \ {f} : ftab'[g] = ftab[g]
  <2>1. [ref |-> 1, ip |-> i] \in FileType
    BY <1>3 DEF FileType
  <2> QED BY <2>1, <1>1 DEF TypesInv
<1>5. fd' \in [Procs -> 0 .. NFILE] /\ fd'[p] = f /\ \A q \in Procs \ {p} : fd'[q] = fd[q]
  BY <1>1, <1>3 DEF TypesInv
<1>6. ASSUME NEW g
      PROVE  /\ Cardinality(Sharers(g)') + Is(0, g) = Cardinality(Sharers(g)) + Is(f, g)
             /\ Cardinality(Sharers(g)) \in Nat /\ Cardinality(Sharers(g)') \in Nat
             /\ \A q \in Procs : fd[q] = g => Cardinality(Sharers(g)) > 0
  <2>1. /\ Cardinality(Sharers(g)') + Is(fd[p], g) = Cardinality(Sharers(g)) + Is(f, g)
        /\ Cardinality(Sharers(g)) \in Nat /\ Cardinality(Sharers(g)') \in Nat
    BY <1>1, SharersMoved
  <2>2. \A q \in Procs : fd[q] = g => Cardinality(Sharers(g)) > 0
    <3>1. Cardinality(Sharers(g)) = Having(fd, Procs, g)
      BY DEF Having, Sharers
    <3>2. ASSUME NEW q \in Procs, fd[q] = g PROVE Having(fd, Procs, g) > 0
      <4>1. /\ Having(fd, Procs, g) = Having(fd, Procs \ {q}, g) + Is(fd[q], g)
            /\ Having(fd, Procs \ {q}, g) \in Nat
        BY SharersSplit
      <4>2. Is(fd[q], g) = 1
        BY <3>2 DEF Is
      <4> QED BY <4>1, <4>2
    <3> QED BY <3>1, <3>2
  <2> QED BY <2>1, <2>2
<1>7. ASSUME NEW g \in Files
      PROVE  /\ ftab'[g].ref = Cardinality(Sharers(g)')
             /\ ftab'[g].ref = 0 <=> ftab'[g].ip = 0
  <2>1. CASE g = f
    <3>1. Is(0, g) = 0 /\ Is(f, g) = 1 /\ Cardinality(Sharers(g)) = 0
      BY <2>1, <1>2, <1>3 DEF Is
    <3>2. PICK c \in Nat : c = Cardinality(Sharers(g)')
      BY <1>6
    <3>3. c + 0 = 0 + 1
      BY <1>6, <3>1, <3>2
    <3>4. c = 1
      BY <3>3
    <3> QED BY <2>1, <1>3, <1>4, <3>2, <3>4
  <2>2. CASE g # f
    <3>1. Is(0, g) = 0 /\ Is(f, g) = 0
      BY <2>2, InodeAssumption DEF Is, Files
    <3>2. PICK c, e \in Nat : c = Cardinality(Sharers(g)') /\ e = Cardinality(Sharers(g))
      BY <1>6
    <3>3. c + 0 = e + 0
      BY <1>6, <3>1, <3>2
    <3>4. ftab'[g] = ftab[g] /\ c = e
      BY <2>2, <1>4, <3>3
    <3> QED BY <1>1, <3>2, <3>4 DEF FileInv
  <2> QED BY <2>1, <2>2
<1>8. FileInv'
  BY <1>7 DEF FileInv
<1>9. HeldFile(p)' = {i} /\ \A q \in Procs \ {p} : HeldFile(q)' = HeldFile(q)
  <2>1. HeldFile(p)' = {i}
    BY <1>3, <1>4, <1>5 DEF HeldFile
  <2>2. ASSUME NEW q \in Procs \ {p} PROVE HeldFile(q)' = HeldFile(q)
    <3>1. CASE fd[q] = 0
      BY <3>1, <1>5 DEF HeldFile
    <3>2. CASE fd[q] # 0
      <4>1. fd[q] \in Files
        BY <3>2, <1>1, InodeAssumption DEF TypesInv, Files
      <4>2. fd[q] # f
        BY <1>2, <1>6
      <4> QED BY <3>2, <4>1, <4>2, <1>4, <1>5 DEF HeldFile
    <3> QED BY <3>1, <3>2
  <2> QED BY <2>1, <2>2
<1>10. PICK t \in Seq(Instr) : t = UnlockT(i, EndOp)
  BY UnlockIs, EndIs
<1>11. /\ \A j : Locking(t, j) <=> j = i
       /\ \A r \in Roles : \A j : Has(t, r, j) = 0
       /\ WellFormed(t, {i}) /\ GoalsOk(dino, t)
       /\ \A j : Holds(t, j) = 0 /\ Total(t, j) = 0
  <2>1. /\ \A j : Locking(UnlockT(i, EndOp), j) <=> j = i \/ Locking(EndOp, j)
        /\ \A r \in Roles : \A j : Has(UnlockT(i, EndOp), r, j) = Has(EndOp, r, j)
        /\ \A F : OfUnlock(On("unlock", i), EndOp, F) /\ WellFormed(EndOp, F)
                      => WellFormed(UnlockT(i, EndOp), F)
        /\ \A d : GoalsOk(d, EndOp) => GoalsOk(d, UnlockT(i, EndOp))
    BY UnlockIs, EndIs
  <2>2. OfUnlock(On("unlock", i), EndOp, {i})
    BY EndIs DEF OfUnlock, On
  <2>3. \A j : Holds(t, j) = 0 /\ Total(t, j) = 0
    BY <1>10, EndIs, EndSums, UnlockSums
  <2> QED BY <1>10, <2>1, <2>2, <2>3, EndIs, EndGoals
<1>12. todo' = [todo EXCEPT ![p] = t]
  <2>1. PICK a \in Instr : a = On("unlock", i)
    BY OnIs DEF IpOps
  <2> QED BY <2>1, <1>10 DEF Then, UnlockT, Cons
<1>13. x.do \in Middle /\ x.do \in OldOps
  BY DEF Middle, OldOps
<1>14. ASSUME NEW j \in Inums PROVE Locking(t, j) <=> Locking(todo[p], j)
  <2>1. Locking(todo[p], j) <=> Needs(x, j)
    BY <1>13, LastIs
  <2>2. Needs(x, j) <=> j = i
    BY DEF Needs, NewOps, DirOps
  <2> QED BY <2>1, <2>2, <1>11
<1>15. ASSUME NEW j \in Inums PROVE Filed(todo[p], t, j)
  <2>1. Holds(todo[p], j) = Is(i, j) /\ Total(todo[p], j) = Is(i, j)
    BY <1>13, LastSums
  <2>2. \A r \in Roles : Has(todo[p], r, j) = Weight(x, r, j)
    BY <1>13, LastIs
  <2>3. FilesOf(ftab', j) + Is(0, j) = FilesOf(ftab, j) + Is(i, j)
    <3>1. FilesOf(ftab', j) + Is(ftab[f].ip, j) = FilesOf(ftab, j) + Is(ftab'[f].ip, j)
      <4>1. \A g \in Files \ {f} : ftab'[g].ip = ftab[g].ip
        BY <1>4
      <4>2. f \in Files
        OBVIOUS
      <4> QED BY ONLY <4>1, <4>2, FilesMoved
    <3> QED BY <3>1, <1>2, <1>4
  <2>4. Is(0, j) = 0 /\ Is(i, j) \in Nat
    BY InodeAssumption DEF Is, Inums
  <2>5. PICK a, b, c \in Nat : a = FilesOf(ftab', j) /\ b = FilesOf(ftab, j) /\ c = Is(i, j)
    BY <2>4, FilesOfNat
  <2>6. a + 0 = b + c
    BY <2>3, <2>4, <2>5
  <2>7. 0 + a = c + b /\ (0 + a > 0 => c + b > 0)
    BY ONLY <2>6, a \in Nat, b \in Nat, c \in Nat
  <2>8. /\ Total(t, j) + FilesOf(ftab', j) = Total(todo[p], j) + FilesOf(ftab, j)
        /\ Holds(t, j) + FilesOf(ftab', j) > 0 => Holds(todo[p], j) + FilesOf(ftab, j) > 0
    BY <1>11, <2>1, <2>5, <2>7
  <2>9. \A r \in Roles \ {"use"} : Weight(x, r, j) = 0
    <3>1. x.do \in {"put", "open", "linkold", "found"}
      OBVIOUS
    <3> QED BY <3>1, Weights
  <2>10. \A r \in Roles \ {"use"} : Has(todo[p], r, j) = 0 /\ Has(t, r, j) = 0
    BY <2>2, <2>9, <1>11
  <2>11. /\ Has(todo[p], "new", j) = 0 /\ Has(t, "new", j) = 0
         /\ Has(todo[p], "erase", j) = 0 /\ Has(t, "erase", j) = 0
         /\ Has(todo[p], "dir", j) = 0 /\ Has(t, "dir", j) = 0
         /\ Has(todo[p], "old", j) = 0 /\ Has(t, "old", j) = 0
         /\ Has(todo[p], "back", j) = 0 /\ Has(t, "back", j) = 0
         /\ Has(todo[p], "forget", j) = 0 /\ Has(t, "forget", j) = 0
    BY <2>10 DEF Roles
  <2>12. StillHas(todo[p], t, dino, j)
    BY <2>11 DEF StillHas
  <2> QED BY <2>8, <2>11, <2>12 DEF Filed
<1>16. WellFormed(t, HeldFile(p)') /\ GoalsOk(dino, t)
  BY <1>9, <1>11
<1>17. UNCHANGED <<dino, disk, ops, itab, lock, calls, scan, panic>>
  OBVIOUS
<1>18. IInv /\ p \in Procs /\ t \in Seq(Instr)
  OBVIOUS
<1>19. \A q \in Procs \ {p} : HeldFile(q)' = HeldFile(q)
  BY <1>9
<1>20. ftab' \in [Files -> FileType] /\ fd' \in [Procs -> 0 .. NFILE]
  BY <1>4, <1>5
<1> QED BY ONLY <1>8, <1>12, <1>14, <1>15, <1>16, <1>17, <1>18, <1>19, <1>20,
   FileStep, Zenon

(* open() at the end (sysfile.c:344), in both outcomes.                    *)
LEMMA OpenInv ==
  ASSUME IInv, NEW p \in Procs, Open(p) PROVE IInv'
<1>1. Ready(p, "open")
  BY DEF Open
<1>2. PICK x \in Instr :
           /\ It(p) = x /\ x.do = "open" /\ todo[p] = LastT(x)
           /\ Tail(todo[p]) = EndOp /\ Static(x) /\ GoalOk(dino, x)
           /\ \A j \in Inums : Needs(x, j) => Held(p, j)
  BY <1>1, MiddleIs DEF Middle, OldOps
<1>3. PICK i \in Inums : i = x.ip
  BY <1>2, InstrFields
<1>4. PICK free : free = {f \in Files : ftab[f].ref = 0}
  OBVIOUS
<1>5. CASE fd[p] # 0 \/ free = {}
  <2>1. Then(p, iunlockput(It(p).ip)) /\ dino' = dino /\ itab' = itab /\ Elsewhere
    BY <1>4, <1>5 DEF Open, Elsewhere
  <2> QED BY <1>1, <2>1, OpenFails
<1>6. CASE fd[p] = 0 /\ free # {}
  <2>1. PICK f : f = CHOOSE h \in free : \A g \in free : h <= g
    OBVIOUS
  <2>2. f \in free
    <3>1. free \in SUBSET Nat
      BY <1>4, InodeAssumption DEF Files
    <3>2. \E d \in free : \A e \in free : d <= e
      BY <1>6, <3>1, LeastIsIn
    <3> QED BY <2>1, <3>2
  <2>3. f \in Files /\ ftab[f].ref = 0
    BY <1>4, <2>2
  <2>4. /\ ftab' = [ftab EXCEPT ![f] = [ref |-> 1, ip |-> i]]
        /\ fd' = [fd EXCEPT ![p] = f]
        /\ Then(p, <<On("unlock", i)>>)
        /\ UNCHANGED <<dino, disk, ops, itab, lock, scan, calls, panic>>
    BY <1>2, <1>3, <1>4, <1>6, <2>1 DEF Open
  <2>5. /\ IInv /\ p \in Procs /\ x \in Instr /\ x.do = "open"
        /\ Static(x) /\ todo[p] = LastT(x) /\ Tail(todo[p]) = EndOp
        /\ i \in Inums /\ i = x.ip /\ fd[p] = 0
    BY <1>2, <1>3, <1>6
  <2> QED BY ONLY <2>3, <2>4, <2>5, OpenDone, Zenon
<1> QED BY <1>5, <1>6

(* One process takes, or leaves, a slot of the file table.                 *)
LEMMA TableStep ==
  ASSUME TypesInv, FileInv, NEW p \in Procs, NEW f \in Files, NEW v \in {0, f},
         fd[p] \in {0, f}, fd' = [fd EXCEPT ![p] = v],
         ftab'[f].ref \in Nat,
         ftab'[f].ref + Is(fd[p], f) = ftab[f].ref + Is(v, f),
         ftab'[f].ref = 0 <=> ftab'[f].ip = 0,
         \A g \in Files \ {f} : ftab'[g] = ftab[g]
  PROVE  FileInv'
<1>1. ASSUME NEW g \in Files
      PROVE  /\ ftab'[g].ref = Cardinality(Sharers(g)')
             /\ ftab'[g].ref = 0 <=> ftab'[g].ip = 0
  <2>1. /\ Cardinality(Sharers(g)') + Is(fd[p], g) = Cardinality(Sharers(g)) + Is(v, g)
        /\ Cardinality(Sharers(g)) \in Nat /\ Cardinality(Sharers(g)') \in Nat
    BY SharersMoved
  <2>2. PICK c, e, a, b \in Nat :
           /\ c = Cardinality(Sharers(g)') /\ e = Cardinality(Sharers(g))
           /\ a = Is(fd[p], g) /\ b = Is(v, g)
    BY <2>1 DEF Is
  <2>3. c + a = e + b
    BY <2>1, <2>2
  <2>4. ftab[g].ref = e
    BY <2>2 DEF FileInv
  <2>5. CASE g = f
    <3>1. PICK r \in Nat : r = ftab'[f].ref
      OBVIOUS
    <3>2. r + a = e + b
      BY <2>2, <2>4, <2>5, <3>1
    <3>3. r = c
      BY ONLY <2>3, <3>2, a \in Nat, b \in Nat, c \in Nat, e \in Nat, r \in Nat
    <3> QED BY <2>2, <2>5, <3>1, <3>3
  <2>6. CASE g # f
    <3>1. a = 0 /\ b = 0
      BY <2>2, <2>6, InodeAssumption DEF Is, Files
    <3>2. c = e
      BY ONLY <2>3, <3>1, c \in Nat, e \in Nat
    <3> QED BY <2>2, <2>4, <2>6, <3>2 DEF FileInv
  <2> QED BY <2>5, <2>6
<1> QED BY <1>1 DEF FileInv

(* The file of a process is counted; if once, nobody else has it.          *)
LEMMA SharersSome ==
  ASSUME TypesInv, FileInv, NEW p \in Procs, fd[p] # 0
  PROVE  /\ fd[p] \in Files /\ ftab[fd[p]].ref \in Nat \ {0}
         /\ ftab[fd[p]].ip \in Inums
         /\ ftab[fd[p]].ref = 1 => \A q \in Procs \ {p} : fd[q] # fd[p]
<1>1. PICK f \in Files : f = fd[p]
  BY InodeAssumption DEF TypesInv, Files
<1>2. /\ Having(fd, Procs, f) = Having(fd, Procs \ {p}, f) + Is(fd[p], f)
      /\ Having(fd, Procs \ {p}, f) \in Nat
  BY SharersSplit
<1>3. Is(fd[p], f) = 1
  BY <1>1 DEF Is
<1>4. PICK c \in Nat : c = Having(fd, Procs \ {p}, f)
  BY <1>2
<1>5. ftab[f].ref = c + 1
  BY <1>2, <1>3, <1>4 DEF FileInv, Sharers, Having
<1>6. ftab[f].ref # 0 /\ ftab[f].ref \in Nat
  BY <1>5
<1>7. ftab[f].ip \in Inums
  BY <1>6, InodeAssumption DEF FileInv, TypesInv, FileType, Inums
<1>8. ASSUME ftab[f].ref = 1, NEW q \in Procs \ {p}, fd[q] = f PROVE FALSE
  <2>1. c = 0
    BY <1>5, <1>8
  <2>2. IsFiniteSet({r \in Procs \ {p} : fd[r] = f})
    BY FS_Subset, InodeAssumption
  <2>3. {r \in Procs \ {p} : fd[r] = f} # {}
    BY <1>8
  <2> QED BY <1>4, <2>1, <2>2, <2>3, FS_EmptySet DEF Having
<1> QED BY <1>1, <1>6, <1>7, <1>8

(* A count of sharers that changes is no matter of inodes.                 *)
LEMMA FiledSame ==
  ASSUME NEW s \in Seq(Instr), NEW i,
         \A f \in Files : ftab'[f].ip = ftab[f].ip
  PROVE  Filed(s, s, i)
<1>1. FilesOf(ftab', i) = FilesOf(ftab, i)
  BY DEF FilesOf
<1>2. \A r : Has(s, r, i) \in Nat
  BY MarksType
<1>3. StillHas(s, s, dino, i)
  BY <1>2 DEF StillHas
<1> QED BY <1>1, <1>3 DEF Filed

(* fork() and filedup(): one sharer more (file.c:48).                      *)
LEMMA ShareInv ==
  ASSUME IInv, NEW p \in Procs, NEW q \in Procs, Share(p, q) PROVE IInv'
<1>1. TypesInv /\ FileInv
  BY DEF IInv
<1>2. fd[p] # 0 /\ fd[q] = 0 /\ todo[q] = <<>>
  BY DEF Share, Idle
<1>3. PICK f \in Files : f = fd[p] /\ ftab[f].ref \in Nat \ {0} /\ ftab[f].ip \in Inums
  BY <1>1, <1>2, SharersSome
<1>4. /\ ftab' = [ftab EXCEPT ![f].ref = ftab[f].ref + 1]
      /\ fd' = [fd EXCEPT ![q] = f]
      /\ UNCHANGED <<dino, disk, ops, itab, lock, scan, calls, panic>> /\ todo' = todo
  BY <1>3 DEF Share
<1>5. /\ ftab' \in [Files -> FileType] /\ ftab'[f].ref = ftab[f].ref + 1
      /\ \A g \in Files \ {f} : ftab'[g] = ftab[g]
      /\ \A g \in Files : ftab'[g].ip = ftab[g].ip
  <2>1. ftab[f] \in FileType
    BY <1>1 DEF TypesInv
  <2>2. [ftab[f] EXCEPT !.ref = ftab[f].ref + 1] \in FileType
    BY <1>3, <2>1 DEF FileType
  <2>3. /\ ftab'[f].ref = ftab[f].ref + 1 /\ ftab'[f].ip = ftab[f].ip
        /\ ftab'[f] = [ftab[f] EXCEPT !.ref = ftab[f].ref + 1]
    BY <1>1, <1>4, <2>1 DEF TypesInv, FileType
  <2> QED BY <1>1, <1>4, <2>2, <2>3 DEF TypesInv
<1>6. f # 0 /\ f \in 0 .. NFILE
  BY InodeAssumption DEF Files
<1>7. fd' \in [Procs -> 0 .. NFILE] /\ fd'[q] = f /\ \A r \in Procs \ {q} : fd'[r] = fd[r]
  BY <1>1, <1>4, <1>6 DEF TypesInv
<1>8. FileInv'
  <2>1. Is(fd[q], f) = 0 /\ Is(f, f) = 1
    BY <1>2, <1>6 DEF Is
  <2>2. ftab'[f].ref + Is(fd[q], f) = ftab[f].ref + Is(f, f) /\ ftab'[f].ref \in Nat
    BY <1>3, <1>5, <2>1
  <2>3. ftab'[f].ref = 0 <=> ftab'[f].ip = 0
    BY <1>3, <1>5, InodeAssumption DEF Inums
  <2>4. \A g \in Files \ {f} : ftab'[g] = ftab[g]
    BY <1>5
  <2>5. fd' = [fd EXCEPT ![q] = f] /\ f \in {0, f} /\ fd[q] \in {0, f}
        /\ f \in Files /\ q \in Procs
    BY <1>2, <1>4
  <2> QED BY ONLY <1>1, <2>2, <2>3, <2>4, <2>5, TableStep, Zenon
<1>9. PICK t \in Seq(Instr) : t = <<>>
  BY EmptyIs
<1>10. todo' = [todo EXCEPT ![q] = t]
  BY <1>1, <1>2, <1>4, <1>9 DEF TypesInv, Todos
<1>11. WellFormed(t, HeldFile(q)') /\ GoalsOk(dino, t)
  BY <1>9, EmptyIs, EndGoals
<1>12. \A r \in Procs \ {q} : HeldFile(r)' = HeldFile(r)
  <2>1. ASSUME NEW r \in Procs \ {q}, fd[r] # 0 PROVE fd[r] \in Files
    BY <1>1, <2>1, SharersSome
  <2> QED BY <2>1, <1>5, <1>7 DEF HeldFile
<1>13. ASSUME NEW j \in Inums PROVE Filed(todo[q], t, j)
  <2>1. Filed(t, t, j)
    BY <1>5, FiledSame
  <2> QED BY <1>2, <1>9, <2>1
<1>14. \A j \in Inums : Locking(t, j) <=> Locking(todo[q], j)
  BY <1>2, <1>9
<1>15. UNCHANGED <<dino, disk, ops, itab, lock, calls, scan, panic>>
  BY <1>4
<1>16. /\ IInv /\ q \in Procs /\ t \in Seq(Instr) /\ ftab' \in [Files -> FileType]
       /\ fd' \in [Procs -> 0 .. NFILE]
  BY <1>5, <1>7
<1> QED BY ONLY <1>8, <1>10, <1>11, <1>12, <1>13, <1>14, <1>15, <1>16,
   FileStep, Zenon

Begin == [do |-> "begin"]

(* begin_op() before s.                                                    *)
LEMMA BeginIs ==
  ASSUME NEW s \in Seq(Instr)
  PROVE  /\ Begin \in Instr /\ Cons(Begin, s) \in Seq(Instr)
         /\ \A j : Locking(Cons(Begin, s), j) <=> Locking(s, j)
         /\ \A r \in Roles : \A j : Has(Cons(Begin, s), r, j) = Has(s, r, j)
         /\ \A F : WellFormed(s, F) => WellFormed(Cons(Begin, s), F)
         /\ \A d : GoalsOk(d, s) => GoalsOk(d, Cons(Begin, s))
<1>1. Begin \in Instr /\ Begin.do = "begin"
  BY DEF Begin, Instr
<1>2. Cons(Begin, s) \in Seq(Instr)
  BY <1>1, ConsIs
<1>3. \A j : Locking(Cons(Begin, s), j) <=> Locking(s, j)
  <2>1. \A j : ~Needs(Begin, j) /\ Begin # On("lock", j)
    BY <1>1 DEF Needs, NewOps, DirOps, On
  <2> QED BY <1>1, <2>1, ConsLocking
<1>4. ASSUME NEW r \in Roles, NEW j PROVE Has(Cons(Begin, s), r, j) = Has(s, r, j)
  <2>1. Weight(Begin, r, j) = 0
    BY <1>1, Weights
  <2> QED BY <1>1, <2>1, ConsHas
<1>5. ASSUME NEW F, WellFormed(s, F) PROVE WellFormed(Cons(Begin, s), F)
  <2>1. Ok(Begin, s, F)
    BY <1>1 DEF Ok, Static, Plain, NewOps, DirOps
  <2> QED BY <1>1, <1>5, <2>1, ConsWellFormed
<1>6. ASSUME NEW d, GoalsOk(d, s) PROVE GoalsOk(d, Cons(Begin, s))
  <2>1. GoalOk(d, Begin)
    BY <1>1 DEF GoalOk
  <2> QED BY <1>1, <1>6, <2>1, ConsGoals
<1> QED BY <1>1, <1>2, <1>3, <1>4, <1>5, <1>6

(* References in a list behind begin_op().                                 *)
LEMMA BeginSums ==
  ASSUME NEW s \in Seq(Instr), NEW j
  PROVE  Holds(Cons(Begin, s), j) = Holds(s, j) /\ Total(Cons(Begin, s), j) = Total(s, j)
<1>1. \A r \in Roles : Has(Cons(Begin, s), r, j) = Has(s, r, j)
  BY BeginIs
<1> QED BY <1>1 DEF Holds, Total, Roles

(* begin_op(), iput(), end_op().                                           *)
PutAway(i) == Cons(Begin, PutT(i, EndOp))

(* It holds one reference and no lock.                                     *)
LEMMA PutAwayIs ==
  ASSUME NEW i \in Inums
  PROVE  /\ PutAway(i) \in Seq(Instr)
         /\ BeginOp \o <<On("put", i)>> \o EndOp = PutAway(i)
         /\ \A j : ~Locking(PutAway(i), j)
         /\ \A r \in Roles \ {"use"} : \A j : Has(PutAway(i), r, j) = 0
         /\ \A F : WellFormed(PutAway(i), F)
         /\ \A d : GoalsOk(d, PutAway(i))
         /\ \A j : Holds(PutAway(i), j) = Is(i, j) /\ Total(PutAway(i), j) = Is(i, j)
<1>1. PICK u \in Seq(Instr) : u = PutT(i, EndOp)
  BY PutIs, EndIs
<1>2. /\ \A j : ~Locking(u, j)
      /\ \A r \in Roles \ {"use"} : \A j : Has(u, r, j) = 0
      /\ \A F : WellFormed(u, F)
      /\ \A d : GoalsOk(d, u)
  BY <1>1, PutIs, EndIs, EndGoals
<1>3. ASSUME NEW j PROVE Holds(u, j) = Is(i, j) /\ Total(u, j) = Is(i, j)
  <2>1. /\ Holds(u, j) = Holds(EndOp, j) + Is(i, j)
        /\ Total(u, j) = Total(EndOp, j) + Is(i, j)
    BY <1>1, EndIs, PutSums
  <2>2. Is(i, j) \in Nat
    BY DEF Is
  <2> QED BY <2>1, <2>2, EndSums
<1>4. PICK t \in Seq(Instr) : t = PutAway(i) /\ t = Cons(Begin, u)
  BY <1>1, BeginIs DEF PutAway
<1>5. BeginOp \o <<On("put", i)>> \o EndOp = t
  <2>1. PICK a \in Instr, b \in Instr : a = Begin /\ b = On("put", i)
    BY BeginIs, OnIs DEF IpOps
  <2>2. <<a>> \in Seq(Instr) /\ <<b>> \in Seq(Instr) /\ EndOp \in Seq(Instr)
    BY EndIs
  <2>3. (<<a>> \o <<b>>) \o EndOp = <<a>> \o (<<b>> \o EndOp)
    BY <2>2, ConcatAssociative
  <2>4. BeginOp = <<a>>
    BY <2>1 DEF BeginOp, Begin
  <2> QED BY <2>1, <2>3, <2>4, <1>1, <1>4 DEF Cons, PutT
<1>6. \A j : ~Locking(t, j)
  BY <1>2, <1>4, BeginIs
<1>7. \A r \in Roles \ {"use"} : \A j : Has(t, r, j) = 0
  BY <1>2, <1>4, BeginIs
<1>8. (\A F : WellFormed(t, F)) /\ (\A d : GoalsOk(d, t))
  BY <1>2, <1>4, BeginIs
<1>9. \A j : Holds(t, j) = Is(i, j) /\ Total(t, j) = Is(i, j)
  BY <1>3, <1>4, BeginSums
<1> QED BY <1>4, <1>5, <1>6, <1>7, <1>8, <1>9

(* No references in no instructions.                                       *)
LEMMA EmptySums == \A j : Holds(<<>>, j) = 0 /\ Total(<<>>, j) = 0
<1>1. \A r, j : Has(<<>>, r, j) = 0
  BY EmptyIs
<1> QED BY <1>1 DEF Holds, Total

(* fileclose() of the last sharer: the slot is freed, and the copy keeps   *)
(* the reference until iput() (file.c:71).                                 *)
LEMMA CloseLast ==
  ASSUME IInv, NEW p \in Procs, todo[p] = <<>>, NEW f \in Files, f = fd[p],
         ftab[f].ref = 1, NEW i \in Inums, i = ftab[f].ip,
         fd' = [fd EXCEPT ![p] = 0], ftab' = [ftab EXCEPT ![f] = NoFile],
         todo' = [todo EXCEPT ![p] = BeginOp \o <<On("put", i)>> \o EndOp],
         UNCHANGED <<dino, disk, ops, itab, lock, calls, scan, panic>>
  PROVE  IInv'
<1>1. TypesInv /\ FileInv
  BY DEF IInv
<1>2. f # 0 /\ i # 0
  BY InodeAssumption DEF Files, Inums
<1>3. \A q \in Procs \ {p} : fd[q] # f
  BY <1>1, <1>2, SharersSome
<1>4. /\ ftab' \in [Files -> FileType] /\ ftab'[f].ref = 0 /\ ftab'[f].ip = 0
      /\ \A g \in Files \ {f} : ftab'[g] = ftab[g]
  <2>1. NoFile \in FileType
    BY InodeAssumption DEF NoFile, FileType
  <2> QED BY <1>1, <2>1 DEF TypesInv, NoFile
<1>5. fd' \in [Procs -> 0 .. NFILE] /\ fd'[p] = 0 /\ \A q \in Procs \ {p} : fd'[q] = fd[q]
  BY <1>1, InodeAssumption DEF TypesInv
<1>6. FileInv'
  <2>1. Is(fd[p], f) = 1 /\ Is(0, f) = 0
    BY <1>2 DEF Is
  <2>2. ftab'[f].ref + Is(fd[p], f) = ftab[f].ref + Is(0, f) /\ ftab'[f].ref \in Nat
    BY <1>4, <2>1
  <2>3. ftab'[f].ref = 0 <=> ftab'[f].ip = 0
    BY <1>4
  <2>4. \A g \in Files \ {f} : ftab'[g] = ftab[g]
    BY <1>4
  <2>5. fd' = [fd EXCEPT ![p] = 0] /\ 0 \in {0, f} /\ fd[p] \in {0, f}
        /\ f \in Files /\ p \in Procs
    OBVIOUS
  <2> QED BY ONLY <1>1, <2>2, <2>3, <2>4, <2>5, TableStep, Zenon
<1>7. PICK t \in Seq(Instr) : t = PutAway(i)
  BY PutAwayIs
<1>8. todo' = [todo EXCEPT ![p] = t]
  BY <1>7, PutAwayIs
<1>9. WellFormed(t, HeldFile(p)') /\ GoalsOk(dino, t)
  BY <1>7, PutAwayIs
<1>10. \A q \in Procs \ {p} : HeldFile(q)' = HeldFile(q)
  <2>1. ASSUME NEW q \in Procs \ {p}, fd[q] # 0 PROVE fd[q] \in Files \ {f}
    BY <1>1, <1>3, <2>1, SharersSome
  <2> QED BY <2>1, <1>4, <1>5 DEF HeldFile
<1>11. \A j \in Inums : Locking(t, j) <=> Locking(todo[p], j)
  BY <1>7, PutAwayIs, EmptyIs
<1>12. ASSUME NEW j \in Inums PROVE Filed(todo[p], t, j)
  <2>1. \A r \in Roles \ {"use"} : Has(t, r, j) = 0 /\ Has(todo[p], r, j) = 0
    BY <1>7, PutAwayIs, EmptyIs
  <2>2. FilesOf(ftab', j) + Is(i, j) = FilesOf(ftab, j) + Is(0, j)
    <3>1. \A g \in Files \ {f} : ftab'[g].ip = ftab[g].ip
      BY <1>4
    <3>2. f \in Files
      OBVIOUS
    <3>3. FilesOf(ftab', j) + Is(ftab[f].ip, j) = FilesOf(ftab, j) + Is(ftab'[f].ip, j)
      BY ONLY <3>1, <3>2, FilesMoved
    <3> QED BY <1>4, <3>3
  <2>3. Is(0, j) = 0 /\ Is(i, j) \in Nat
    BY InodeAssumption DEF Is, Inums
  <2>4. PICK a, b, c \in Nat : a = FilesOf(ftab', j) /\ b = FilesOf(ftab, j) /\ c = Is(i, j)
    BY <2>3, FilesOfNat
  <2>5. a + c = b + 0
    BY <2>2, <2>3, <2>4
  <2>6. c + a = 0 + b /\ (c + a > 0 => 0 + b > 0)
    BY ONLY <2>5, a \in Nat, b \in Nat, c \in Nat
  <2>7. /\ Holds(t, j) = c /\ Total(t, j) = c
        /\ Holds(todo[p], j) = 0 /\ Total(todo[p], j) = 0
    BY <1>7, <2>4, PutAwayIs, EmptySums
  <2>8. /\ Total(t, j) + FilesOf(ftab', j) = Total(todo[p], j) + FilesOf(ftab, j)
        /\ Holds(t, j) + FilesOf(ftab', j) > 0 => Holds(todo[p], j) + FilesOf(ftab, j) > 0
    BY <2>4, <2>6, <2>7
  <2>9. /\ Has(todo[p], "new", j) = 0 /\ Has(t, "new", j) = 0
        /\ Has(todo[p], "erase", j) = 0 /\ Has(t, "erase", j) = 0
        /\ Has(todo[p], "dir", j) = 0 /\ Has(t, "dir", j) = 0
        /\ Has(todo[p], "old", j) = 0 /\ Has(t, "old", j) = 0
        /\ Has(todo[p], "back", j) = 0 /\ Has(t, "back", j) = 0
        /\ Has(todo[p], "forget", j) = 0 /\ Has(t, "forget", j) = 0
    BY <2>1 DEF Roles
  <2>10. StillHas(todo[p], t, dino, j)
    BY <2>9 DEF StillHas
  <2> QED BY <2>8, <2>9, <2>10 DEF Filed
<1>13. UNCHANGED <<dino, disk, ops, itab, lock, calls, scan, panic>>
  OBVIOUS
<1>14. /\ IInv /\ p \in Procs /\ t \in Seq(Instr) /\ ftab' \in [Files -> FileType]
       /\ fd' \in [Procs -> 0 .. NFILE]
  BY <1>4, <1>5
<1> QED BY ONLY <1>6, <1>8, <1>9, <1>10, <1>11, <1>12, <1>13, <1>14, FileStep,
   Zenon

(* fileclose(), in both outcomes (file.c:60).                              *)
LEMMA CloseInv ==
  ASSUME IInv, NEW p \in Procs, Close(p) PROVE IInv'
<1>1. TypesInv /\ FileInv
  BY DEF IInv
<1>2. fd[p] # 0 /\ todo[p] = <<>>
  BY DEF Close, Idle
<1>3. PICK f \in Files, i \in Inums :
         f = fd[p] /\ ftab[f].ref \in Nat \ {0} /\ i = ftab[f].ip
  BY <1>1, <1>2, SharersSome
<1>4. /\ fd' = [fd EXCEPT ![p] = 0]
      /\ UNCHANGED <<dino, disk, ops, itab, lock, calls, scan, panic>>
  BY DEF Close
<1>5. CASE ftab[f].ref > 1
  <2>1. ftab' = [ftab EXCEPT ![f].ref = ftab[f].ref - 1] /\ todo' = todo
    BY <1>3, <1>5 DEF Close
  <2>2. PICK r \in Nat : r = ftab[f].ref - 1 /\ r # 0 /\ ftab[f].ref = r + 1
    BY <1>3, <1>5
  <2>3. /\ ftab' \in [Files -> FileType] /\ ftab'[f].ref = r
        /\ \A g \in Files \ {f} : ftab'[g] = ftab[g]
        /\ \A g \in Files : ftab'[g].ip = ftab[g].ip
    <3>1. ftab[f] \in FileType
      BY <1>1 DEF TypesInv
    <3>2. [ftab[f] EXCEPT !.ref = r] \in FileType
      BY <2>2, <3>1 DEF FileType
    <3>3. /\ ftab'[f].ref = r /\ ftab'[f].ip = ftab[f].ip
          /\ ftab'[f] = [ftab[f] EXCEPT !.ref = r]
      BY <1>1, <2>1, <2>2, <3>1 DEF TypesInv, FileType
    <3> QED BY <1>1, <2>1, <2>2, <3>2, <3>3 DEF TypesInv
  <2>4. fd' \in [Procs -> 0 .. NFILE] /\ fd'[p] = 0
        /\ \A q \in Procs \ {p} : fd'[q] = fd[q]
    BY <1>1, <1>4, InodeAssumption DEF TypesInv
  <2>5. FileInv'
    <3>0. f # 0
      BY InodeAssumption DEF Files
    <3>1. Is(fd[p], f) = 1 /\ Is(0, f) = 0
      BY <1>3, <3>0 DEF Is
    <3>2. ftab'[f].ref + Is(fd[p], f) = ftab[f].ref + Is(0, f) /\ ftab'[f].ref \in Nat
      <4>1. r + 1 = (r + 1) + 0
        BY r \in Nat
      <4> QED BY <2>2, <2>3, <3>1, <4>1
    <3>3. ftab'[f].ref = 0 <=> ftab'[f].ip = 0
      BY <1>3, <2>2, <2>3, InodeAssumption DEF Inums
    <3>4. \A g \in Files \ {f} : ftab'[g] = ftab[g]
      BY <2>3
    <3>5. fd' = [fd EXCEPT ![p] = 0] /\ 0 \in {0, f} /\ fd[p] \in {0, f}
          /\ f \in Files /\ p \in Procs
      BY <1>3, <1>4
    <3> QED BY ONLY <1>1, <3>2, <3>3, <3>4, <3>5, TableStep, Zenon
  <2>6. PICK t \in Seq(Instr) : t = <<>>
    BY EmptyIs
  <2>7. todo' = [todo EXCEPT ![p] = t]
    BY <1>1, <1>2, <2>1, <2>6 DEF TypesInv, Todos
  <2>8. WellFormed(t, HeldFile(p)') /\ GoalsOk(dino, t)
    BY <2>6, EmptyIs, EndGoals
  <2>9. \A q \in Procs \ {p} : HeldFile(q)' = HeldFile(q)
    <3>1. ASSUME NEW q \in Procs \ {p}, fd[q] # 0 PROVE fd[q] \in Files
      BY <1>1, <3>1, SharersSome
    <3> QED BY <3>1, <2>3, <2>4 DEF HeldFile
  <2>10. ASSUME NEW j \in Inums PROVE Filed(todo[p], t, j)
    <3>1. Filed(t, t, j)
      BY <2>3, FiledSame
    <3> QED BY <1>2, <2>6, <3>1
  <2>11. \A j \in Inums : Locking(t, j) <=> Locking(todo[p], j)
    BY <1>2, <2>6
  <2>12. /\ IInv /\ p \in Procs /\ t \in Seq(Instr) /\ ftab' \in [Files -> FileType]
         /\ fd' \in [Procs -> 0 .. NFILE]
         /\ UNCHANGED <<dino, disk, ops, itab, lock, calls, scan, panic>>
    BY <1>4, <2>3, <2>4
  <2> QED BY ONLY <2>5, <2>7, <2>8, <2>9, <2>10, <2>11, <2>12, FileStep, Zenon
<1>6. CASE ~(ftab[f].ref > 1)
  <2>1. ftab[f].ref = 1
    BY <1>3, <1>6
  <2>2. /\ ftab' = [ftab EXCEPT ![f] = NoFile]
        /\ todo' = [todo EXCEPT ![p] = BeginOp \o <<On("put", i)>> \o EndOp]
    BY <1>3, <1>6 DEF Close
  <2>3. /\ IInv /\ p \in Procs /\ todo[p] = <<>> /\ f \in Files /\ f = fd[p]
        /\ i \in Inums /\ i = ftab[f].ip
    BY <1>2, <1>3
  <2> QED BY ONLY <1>4, <2>1, <2>2, <2>3, CloseLast, Zenon
<1> QED BY <1>5, <1>6

-----------------------------------------------------------------------------
(* Calls begin, and ireclaim() goes on.                                    *)

(* Where there are paths with "..", they lead from a directory to the      *)
(* root: directories are made, and were made, in the root only.            *)
UpsLeadToRoot ==
  Ups => /\ \A d \in Disks, i \in Inums : d[i].ents[".."] \in {0, ROOTINO}
         /\ \A call \in Calls : call.op = "mkdir" => Len(call.path) = 1

(* A walk from the root, as namex() starts it.                             *)
RootWalk(w, path, parent, goal) ==
  /\ w = Walk(ROOTINO, path, parent, goal)
  /\ w.do = "look" /\ w.ip = ROOTINO /\ w.goal = goal
  /\ Static(w)
  /\ \A j : Needs(w, j) <=> j = ROOTINO

(* It may be taken: what Static asks of it follows from the call.          *)
LEMMA WalkIs ==
  ASSUME NEW call \in Calls, NEW path \in Paths(call), NEW parent \in BOOLEAN,
         NEW goal \in Goals, goal.call = call, parent <=> goal.do \in Parents,
         parent => path = IF call.op = "link" THEN call.new ELSE call.path,
         goal.do \in {"linknew", "linkold"} => call.op = "link",
         Ups /\ goal.do = "create" /\ call.op = "mkdir" => Len(path) = 1
  PROVE  \E w \in Looks : RootWalk(w, path, parent, goal)
<1>1. path \in AnyPath
  BY CallsAssumption DEF AnyPath
<1>2. ROOTINO \in Inums
  BY InodeAssumption DEF ROOTINO, Inums
<1>3. PICK w \in Looks : w = Walk(ROOTINO, path, parent, goal)
  BY <1>1, <1>2 DEF Walk, Looks
<1>4. /\ w.do = "look" /\ w.ip = ROOTINO /\ w.goal = goal /\ w.path = path
      /\ w.parent = parent
  BY <1>3 DEF Walk
<1>5. Ups \/ \A k \in DOMAIN path : path[k] # ".."
  BY DEF Ups
<1>6. parent => EndsWith(path, NameOf(call))
  BY DEF EndsWith, NameOf
<1>7. Static(w)
  BY <1>4, <1>5, <1>6 DEF Static
<1>8. \A j : Needs(w, j) <=> j = ROOTINO
  BY <1>4 DEF Needs, NewOps, DirOps
<1> QED BY <1>3, <1>4, <1>7, <1>8 DEF RootWalk

(* What each system call begins with.                                      *)
LEMMA LookupIs ==
  ASSUME UpsLeadToRoot, NEW call \in Calls
  PROVE  \E w \in Looks :
           /\ Lookup(call) = <<On("lock", ROOTINO), w>>
           /\ w.do = "look" /\ w.ip = ROOTINO /\ w.goal.ip = 0 /\ Static(w)
           /\ \A j : Needs(w, j) <=> j = ROOTINO
<1>1. call.op \in {"open", "link", "unlink", "create", "mkdir"}
  BY CallsAssumption
<1>2. call.path \in Paths(call)
  BY DEF Paths
<1>3. ASSUME NEW op \in {"open", "linkold", "unlink", "create"},
             NEW parent \in BOOLEAN, parent <=> op \in Parents,
             op = "linkold" => call.op = "link",
             parent => call.op # "link",
             Lookup(call) = namex(call.path, parent, Goal(op, 0, 0, call))
      PROVE  \E w \in Looks :
               /\ Lookup(call) = <<On("lock", ROOTINO), w>>
               /\ w.do = "look" /\ w.ip = ROOTINO /\ w.goal.ip = 0 /\ Static(w)
               /\ \A j : Needs(w, j) <=> j = ROOTINO
  <2>1. Goal(op, 0, 0, call) \in Goals
    BY DEF Goal, Goals, GoalsOf
  <2>2. PICK goal \in Goals : goal = Goal(op, 0, 0, call)
    BY <2>1
  <2>3. goal.do = op /\ goal.call = call /\ goal.ip = 0
    BY <2>2 DEF Goal
  <2>4. Ups /\ goal.do = "create" /\ call.op = "mkdir" => Len(call.path) = 1
    BY DEF UpsLeadToRoot
  <2>5. parent <=> goal.do \in Parents
    BY <1>3, <2>3
  <2>6. parent => call.path = IF call.op = "link" THEN call.new ELSE call.path
    BY <1>3
  <2>7. goal.do \in {"linknew", "linkold"} => call.op = "link"
    BY <1>3, <2>3
  <2>8. PICK w \in Looks : RootWalk(w, call.path, parent, goal)
    BY <1>2, <2>3, <2>4, <2>5, <2>6, <2>7, WalkIs
  <2> QED BY <1>3, <2>2, <2>3, <2>8 DEF RootWalk, namex
<1>4. CASE call.op = "open"
  BY <1>3, <1>4 DEF Lookup, Parents
<1>5. CASE call.op = "link"
  BY <1>3, <1>5 DEF Lookup, Parents
<1>6. CASE call.op = "unlink"
  BY <1>3, <1>6 DEF Lookup, Parents
<1>7. CASE call.op \in {"create", "mkdir"}
  <2>1. Lookup(call) = namex(call.path, TRUE, Goal("create", 0, 0, call))
    BY <1>7 DEF Lookup
  <2> QED BY <1>3, <1>7, <2>1 DEF Parents
<1> QED BY <1>1, <1>4, <1>5, <1>6, <1>7

(* A process that does nothing begins, with a reference to an inode.       *)
LEMMA StartStep ==
  ASSUME IInv, NEW p \in Procs, todo[p] = <<>>, NEW t \in Seq(Instr),
         todo' = [todo EXCEPT ![p] = t], NEW n \in Inums, iget(n),
         dino[n].type # "free" /\ Count(todo, "new", n) = 0,
         Count(todo, "erase", n) = 0,
         UNCHANGED <<dino, disk, lock, ftab, fd, panic>>,
         ops' \subseteq Procs, calls' \in [Procs -> Nat], scan' \in 0 .. NINODES + 1,
         WellFormed(t, HeldFile(p)), GoalsOk(dino, t),
         \A j \in Inums : ~Locking(t, j),
         \A j \in Inums : \A r \in Roles \ {"use"} : Has(t, r, j) = 0,
         \A j \in Inums : Holds(t, j) = Is(n, j) /\ Total(t, j) = Is(n, j)
  PROVE  IInv'
<1>1. TypesInv /\ panic = ""
  BY DEF IInv, NoPanic
<1>2. /\ itab' \in [Inums -> SlotType]
      /\ \A j \in Inums : /\ itab'[j].valid = itab[j].valid
                          /\ itab'[j].type = itab[j].type
                          /\ itab'[j].nlink = itab[j].nlink
                          /\ itab'[j].ref = itab[j].ref + Is(n, j)
                          /\ itab[j].ref \in Nat
  BY <1>1, IgetIs
<1>3. \A j : ~Locking(todo[p], j)
  BY EmptyIs
<1>4. ASSUME NEW j \in Inums
      PROVE  /\ QuietHas(todo[p], t, dino, j)
             /\ itab'[j].ref + Total(todo[p], j) = itab[j].ref + Total(t, j)
             /\ Holds(t, j) > 0 =>
                  \/ Holds(todo[p], j) > 0
                  \/ dino[j].type # "free" /\ Count(todo, "new", j) = 0
             /\ itab'[j].ref = itab[j].ref \/ Count(todo, "erase", j) = 0
  <2>1. \A r \in Roles \ {"use"} : Has(t, r, j) = 0 /\ Has(todo[p], r, j) = 0
    BY EmptyIs
  <2>2. /\ Has(todo[p], "new", j) = 0 /\ Has(t, "new", j) = 0
        /\ Has(todo[p], "erase", j) = 0 /\ Has(t, "erase", j) = 0
        /\ Has(todo[p], "dir", j) = 0 /\ Has(t, "dir", j) = 0
        /\ Has(todo[p], "old", j) = 0 /\ Has(t, "old", j) = 0
        /\ Has(todo[p], "back", j) = 0 /\ Has(t, "back", j) = 0
        /\ Has(todo[p], "forget", j) = 0 /\ Has(t, "forget", j) = 0
    BY <2>1 DEF Roles
  <2>3. QuietHas(todo[p], t, dino, j)
    BY <2>2 DEF QuietHas
  <2>4. PICK a, b \in Nat : a = itab[j].ref /\ b = Is(n, j)
    BY <1>2 DEF Is
  <2>5. (a + b) + 0 = a + b
    BY ONLY a \in Nat, b \in Nat
  <2>6. itab'[j].ref + Total(todo[p], j) = itab[j].ref + Total(t, j)
    <3>1. Total(todo[p], j) = 0 /\ Total(t, j) = b /\ itab'[j].ref = a + b
      BY <1>2, <2>4, EmptySums
    <3> QED BY <2>4, <2>5, <3>1
  <2>7. CASE n = j
    BY <2>3, <2>6, <2>7
  <2>8. CASE n # j
    <3>1. Is(n, j) = 0
      BY <2>8 DEF Is
    <3> QED BY <1>2, <2>3, <2>6, <3>1
  <2> QED BY <2>7, <2>8
<1>5. /\ IInv /\ p \in Procs /\ t \in Seq(Instr) /\ todo' = [todo EXCEPT ![p] = t]
      /\ dino' = dino /\ disk' \in {disk, dino} /\ ftab' = ftab /\ fd' = fd
      /\ lock' = lock /\ panic' = "" /\ ops' \subseteq Procs
      /\ calls' \in [Procs -> Nat] /\ scan' \in 0 .. NINODES + 1
      /\ WellFormed(t, HeldFile(p)) /\ GoalsOk(dino, t)
  BY <1>1
<1>6. \A j \in Inums : Locking(t, j) <=> Locking(todo[p], j)
  BY <1>3
<1>7. itab' \in [Inums -> SlotType]
  BY <1>2
<1>8. \A j \in Inums : /\ itab'[j].valid = itab[j].valid
                       /\ itab'[j].type = itab[j].type
                       /\ itab'[j].nlink = itab[j].nlink
  BY <1>2
<1> QED BY ONLY <1>4, <1>5, <1>6, <1>7, <1>8, HasStep, Zenon

(* A system call begins: begin_op(), and the root is to be locked.         *)
LEMMA SysCallInv ==
  ASSUME UpsLeadToRoot, IInv, NEW p \in Procs, SysCall(p) PROVE IInv'
<1>1. TypesInv /\ Tree(dino)
  BY DEF IInv, DiskInv
<1>2. PICK call \in Calls : todo' = [todo EXCEPT ![p] = Lookup(call) \o EndOp]
  BY DEF SysCall
<1>3. PICK w \in Looks :
           /\ Lookup(call) = <<On("lock", ROOTINO), w>>
           /\ w.do = "look" /\ w.ip = ROOTINO /\ w.goal.ip = 0 /\ Static(w)
           /\ \A j : Needs(w, j) <=> j = ROOTINO
  BY LookupIs
<1>4. PICK n \in Inums : n = ROOTINO
  BY InodeAssumption DEF ROOTINO, Inums
<1>5. w \in Instr /\ w.do \in Middle \ {"remove", "fill"} /\ w.do \in Middle
  BY <1>3 DEF Instr, Middle
<1>6. Plays(w, "use", n)
  BY <1>3, <1>4 DEF Plays, UseOps
<1>7. PICK t \in Seq(Instr) : t = LockT(n, LastT(w)) /\ LockFor(t, w)
  <2>1. \E r \in {"use", "back", "old", "dir", "new"} : Plays(w, r, n)
    BY <1>6
  <2>2. \A j \in Inums : Needs(w, j) <=> j = n
    BY <1>3, <1>4
  <2>3. n \in Inums /\ w \in Instr /\ w.do \in Middle \ {"remove", "fill"} /\ Static(w)
    BY <1>3, <1>5
  <2> QED BY ONLY <2>1, <2>2, <2>3, LockPick
<1>8. todo' = [todo EXCEPT ![p] = t]
  <2>1. <<On("lock", n), w>> \o EndOp = LockT(n, LastT(w))
    BY <1>5, EndIs, Written
  <2> QED BY <1>2, <1>3, <1>4, <1>7, <2>1
<1>9. ASSUME NEW j \in Inums
      PROVE  /\ ~Locking(t, j)
             /\ \A r \in Roles \ {"use"} : Has(t, r, j) = 0
             /\ Holds(t, j) = Is(n, j) /\ Total(t, j) = Is(n, j)
  <2>1. /\ ~Locking(t, j)
        /\ \A r \in Roles : Has(t, r, j) = Weight(w, r, j)
        /\ Holds(t, j) = Holds(LastT(w), j)
        /\ Total(t, j) = Total(LastT(w), j)
    BY <1>7 DEF LockFor
  <2>2. Is(0, j) = 0 /\ Is(n, j) \in Nat /\ Is(n, j) + 0 = Is(n, j)
    BY InodeAssumption DEF Is, Inums
  <2>3. /\ Holds(LastT(w), j) = Is(w.ip, j) + Is(w.goal.ip, j)
        /\ Total(LastT(w), j) = Is(w.ip, j) + Is(w.goal.ip, j)
    BY <1>3, <1>5, LastSums
  <2>4. Holds(t, j) = Is(n, j) /\ Total(t, j) = Is(n, j)
    BY <1>3, <1>4, <2>1, <2>2, <2>3
  <2>5. /\ Weight(w, "old", j) = Is(w.goal.ip, j)
        /\ \A r \in Roles \ {"use", "old"} : Weight(w, r, j) = 0
    BY <1>3, Weights
  <2>6. \A r \in Roles \ {"use"} : Has(t, r, j) = 0
    BY <1>3, <2>1, <2>2, <2>5
  <2> QED BY <2>1, <2>4, <2>6
<1>10. dino[n].type # "free" /\ Count(todo, "new", n) = 0 /\ Count(todo, "erase", n) = 0
  BY <1>1, <1>4, RootLinked, LinkedIs
<1>11. /\ iget(n) /\ UNCHANGED <<dino, disk, lock, ftab, fd, panic>>
       /\ ops' \subseteq Procs /\ calls' \in [Procs -> Nat]
       /\ scan' \in 0 .. NINODES + 1 /\ todo[p] = <<>>
  <2>1. iget(n) /\ UNCHANGED <<dino, disk, lock, ftab, fd, panic>> /\ todo[p] = <<>>
    BY <1>4 DEF SysCall, Idle
  <2>2. ops' \subseteq Procs
    BY <1>1 DEF SysCall, TypesInv
  <2>3. calls' \in [Procs -> Nat]
    <3>1. calls' = [calls EXCEPT ![p] = calls[p] + 1] /\ calls \in [Procs -> Nat]
      BY <1>1 DEF SysCall, TypesInv
    <3> QED BY <3>1
  <2>4. scan' \in 0 .. NINODES + 1
    BY <1>1 DEF SysCall, TypesInv
  <2> QED BY <2>1, <2>2, <2>3, <2>4
<1>12. WellFormed(t, HeldFile(p)) /\ GoalsOk(dino, t)
  <2>1. dino[n].ents[".."] # 0
    BY <1>1, <1>4 DEF DiskInv, Tree, RootIsDir, ROOTINO
  <2>2. GoalOk(dino, w)
    BY <1>3, <1>4, <2>1 DEF GoalOk
  <2> QED BY <1>7, <2>2 DEF LockFor
<1>13. \A j \in Inums : ~Locking(t, j)
  BY <1>9
<1>14. \A j \in Inums : \A r \in Roles \ {"use"} : Has(t, r, j) = 0
  BY <1>9
<1>15. \A j \in Inums : Holds(t, j) = Is(n, j) /\ Total(t, j) = Is(n, j)
  BY <1>9
<1>16. IInv /\ p \in Procs /\ t \in Seq(Instr) /\ n \in Inums
  OBVIOUS
<1> QED BY ONLY <1>8, <1>10, <1>11, <1>12, <1>13, <1>14, <1>15, <1>16,
   StartStep, Zenon

(* While the system boots, only the first process does anything.           *)
BootInv == scan # 0 => \A q \in Procs \ {InitProc} : todo[q] = <<>>

(* Nobody has anything to do.                                              *)
LEMMA NothingCounts ==
  ASSUME NEW td \in Todos, \A q \in Procs : td[q] = <<>>, NEW role, NEW i
  PROVE  Count(td, role, i) = 0
<1>1. Count(td, role, i) \in Nat
  BY CountSome
<1>2. ASSUME Count(td, role, i) > 0 PROVE FALSE
  <2>1. PICK q \in Procs : Has(td[q], role, i) > 0
    BY <1>2, CountSome
  <2> QED BY <2>1, EmptyIs
<1> QED BY <1>1, <1>2

(* ilock(), iunlock(), iput(): what ireclaim() does with an inode.         *)
Reclaiming(i) == Cons(Begin, LockT(i, DoneT(i, EndOp)))

(* It holds one reference and no lock.                                     *)
LEMMA ReclaimingIs ==
  ASSUME NEW i \in Inums
  PROVE  \E t \in Seq(Instr) :
           /\ t = Reclaiming(i) /\ t = ReclaimOne(i)
           /\ \A j \in Inums : ~Locking(t, j)
           /\ \A F : WellFormed(t, F)
           /\ \A d : GoalsOk(d, t)
           /\ \A j \in Inums : \A r \in Roles \ {"use"} : Has(t, r, j) = 0
           /\ \A j \in Inums : Holds(t, j) = Is(i, j) /\ Total(t, j) = Is(i, j)
<1>1. PICK u \in Seq(Instr) : u = DoneT(i, EndOp)
  BY DoneEnd
<1>2. /\ \A j : Locking(u, j) <=> j = i
      /\ \A r \in Roles \ {"use"} : \A j : Has(u, r, j) = 0
      /\ \A F : WellFormed(u, F)
      /\ \A d : GoalsOk(d, u)
      /\ \A j : Holds(u, j) = Is(i, j)
      /\ \A j : Total(u, j) = Is(i, j)
  BY <1>1, DoneEnd
<1>3. Keeps(u, i)
  <2>1. PICK v \in Seq(Instr) : v = PutT(i, EndOp) /\ Keeps(v, i)
    BY PutIs, EndIs
  <2>2. u = UnlockT(i, v)
    BY <1>1, <2>1 DEF DoneT
  <2>3. \A r \in Roles : \A j : Has(u, r, j) = Has(v, r, j)
    BY <2>2, UnlockIs
  <2> QED BY <2>1, <2>3 DEF Keeps, Roles
<1>4. OfLock(On("lock", i), u)
  <2>1. On("lock", i).ip = i
    BY DEF On
  <2>2. Has(u, "forget", i) = 0 /\ Has(u, "pair", i) = 0
    BY <1>2 DEF Roles
  <2> QED BY <1>2, <1>3, <2>1, <2>2 DEF OfLock
<1>5. PICK v \in Seq(Instr) : v = LockT(i, u)
  BY LockIs
<1>6. /\ \A j : ~Locking(v, j)
      /\ \A r \in Roles : \A j : Has(v, r, j) = Has(u, r, j)
      /\ \A F : WellFormed(v, F)
      /\ \A d : GoalsOk(d, v)
  BY <1>2, <1>4, <1>5, LockIs
<1>7. \A j : Holds(v, j) = Is(i, j) /\ Total(v, j) = Is(i, j)
  BY <1>2, <1>5, LockSums
<1>8. PICK t \in Seq(Instr) : t = Cons(Begin, v)
  BY BeginIs
<1>9. t = Reclaiming(i)
  BY <1>1, <1>5, <1>8 DEF Reclaiming
<1>10. t = ReclaimOne(i)
  <2>1. PICK a \in Instr, b \in Instr : a = Begin /\ b = On("lock", i)
    BY BeginIs, OnIs DEF IpOps
  <2>2. PICK c \in Seq(Instr) : c = iunlockput(i)
    BY <2>1, EndIs, Written
  <2>3. <<a>> \in Seq(Instr) /\ <<b>> \in Seq(Instr) /\ EndOp \in Seq(Instr)
    BY EndIs
  <2>4. c \o EndOp = u
    BY <1>1, <2>1, <2>2, EndIs, Written
  <2>5. PICK ab \in Seq(Instr) : ab = <<a>> \o <<b>>
    BY <2>3, ConcatProperties
  <2>6. (ab \o c) \o EndOp = ab \o (c \o EndOp)
    BY <2>3, <2>5, ConcatAssociative
  <2>7. (<<a>> \o <<b>>) \o u = <<a>> \o (<<b>> \o u)
    BY <2>3, ConcatAssociative
  <2>8. BeginOp = <<a>>
    BY <2>1 DEF BeginOp, Begin
  <2>9. ReclaimOne(i) = (ab \o c) \o EndOp
    BY <2>1, <2>2, <2>5, <2>8 DEF ReclaimOne
  <2>10. <<a>> \o (<<b>> \o u) = t
    BY <1>5, <1>8, <2>1 DEF Cons, LockT
  <2> QED BY <2>4, <2>5, <2>6, <2>7, <2>9, <2>10
<1>11. (\A F : WellFormed(t, F)) /\ (\A d : GoalsOk(d, t))
  BY <1>6, <1>8, BeginIs
<1>12. (\A j \in Inums : ~Locking(t, j))
       /\ \A j \in Inums : \A r \in Roles \ {"use"} : Has(t, r, j) = 0
  BY <1>2, <1>6, <1>8, BeginIs
<1>13. \A j \in Inums : Holds(t, j) = Is(i, j) /\ Total(t, j) = Is(i, j)
  BY <1>7, <1>8, BeginSums
<1> QED BY <1>9, <1>10, <1>11, <1>12, <1>13

(* A step that only goes to the next inode.                                *)
LEMMA OnlyScan ==
  ASSUME IInv, TypesInv', UNCHANGED <<dino, disk, itab, lock, ftab, fd, todo, panic>>
  PROVE  IInv'
<1> USE DEF IInv
<1>1. NoPanic' /\ DiskInv'
  BY DEF NoPanic, DiskInv
<1>2. TodoInv' /\ LockInv'
  BY DEF TodoInv, LockInv, HeldFile
<1>3. FileInv' /\ GoalInv'
  BY DEF FileInv, GoalInv, Sharers
<1>4. ASSUME NEW i \in Inums PROVE InodeOk(i)'
  <2>1. InodeOk(i)
    BY DEF InodesInv
  <2>2. RefInv(i)' /\ UsedInv(i)' /\ NewInv(i)' /\ EraseInv(i)'
    BY <2>1 DEF InodeOk, RefInv, UsedInv, NewInv, EraseInv
  <2>3. DirInv(i)' /\ OldInv(i)' /\ ClaimInv(i)' /\ AgreeInv(i)' /\ HeldInv(i)'
    BY <2>1 DEF InodeOk, DirInv, OldInv, ClaimInv, AgreeInv, HeldInv
  <2> QED BY <2>2, <2>3 DEF InodeOk
<1> QED BY <1>1, <1>2, <1>3, <1>4 DEF InodesInv

(* ireclaim() looks at the next inode, and takes it if it is an orphan     *)
(* (fs.c:374).                                                             *)
LEMMA ReclaimInv ==
  ASSUME IInv, BootInv, ireclaim PROVE IInv'
<1>1. TypesInv /\ todo \in Todos /\ scan \in Inums /\ todo[InitProc] = <<>>
  BY DEF IInv, TypesInv, ireclaim
<1>2. InitProc \in Procs
  BY InodeAssumption
<1>3. \A q \in Procs : todo[q] = <<>>
  BY <1>1, InodeAssumption DEF BootInv, Inums
<1>4. scan' = scan + 1 /\ scan + 1 \in 0 .. NINODES + 1
      /\ UNCHANGED <<dino, disk, ops, lock, ftab, fd, calls, panic>>
  <2>1. NINODES \in Nat
    BY InodeAssumption
  <2>2. scan + 1 \in 0 .. NINODES + 1
    BY <1>1, <2>1 DEF Inums
  <2> QED BY <2>2 DEF ireclaim
<1>5. CASE Orphan(dino, scan)
  <2>1. PICK i \in Inums : i = scan
    BY <1>1
  <2>2. PICK t \in Seq(Instr) :
           /\ t = Reclaiming(i) /\ t = ReclaimOne(i)
           /\ \A j \in Inums : ~Locking(t, j)
           /\ \A F : WellFormed(t, F)
           /\ \A d : GoalsOk(d, t)
           /\ \A j \in Inums : \A r \in Roles \ {"use"} : Has(t, r, j) = 0
           /\ \A j \in Inums : Holds(t, j) = Is(i, j) /\ Total(t, j) = Is(i, j)
    BY ReclaimingIs
  <2>3. iget(i) /\ todo' = [todo EXCEPT ![InitProc] = t]
    BY <1>5, <2>1, <2>2 DEF ireclaim
  <2>4. dino[i].type # "free" /\ Count(todo, "new", i) = 0 /\ Count(todo, "erase", i) = 0
    BY <1>1, <1>3, <1>5, <2>1, NothingCounts DEF Orphan
  <2>5. /\ WellFormed(t, HeldFile(InitProc)) /\ GoalsOk(dino, t)
        /\ \A j \in Inums : ~Locking(t, j)
    BY <2>2
  <2>6. /\ \A j \in Inums : \A r \in Roles \ {"use"} : Has(t, r, j) = 0
        /\ \A j \in Inums : Holds(t, j) = Is(i, j) /\ Total(t, j) = Is(i, j)
    BY <2>2
  <2>7. /\ IInv /\ InitProc \in Procs /\ todo[InitProc] = <<>> /\ t \in Seq(Instr)
        /\ i \in Inums
    BY <1>1, <1>2
  <2>8. /\ UNCHANGED <<dino, disk, lock, ftab, fd, panic>>
        /\ ops' \subseteq Procs /\ calls' \in [Procs -> Nat]
        /\ scan' \in 0 .. NINODES + 1
    BY <1>1, <1>4 DEF TypesInv
  <2> QED BY ONLY <2>3, <2>4, <2>5, <2>6, <2>7, <2>8, StartStep, Zenon
<1>6. CASE ~Orphan(dino, scan)
  <2>1. UNCHANGED <<itab, todo>>
    BY <1>6 DEF ireclaim
  <2>2. TypesInv'
    BY <1>1, <1>4, <2>1 DEF TypesInv
  <2> QED BY <1>4, <2>1, <2>2, OnlyScan
<1> QED BY <1>5, <1>6

(* The system is up (fs.c:47).                                             *)
LEMMA BootedInv ==
  ASSUME IInv, Booted PROVE IInv'
<1>1. scan' = 0 /\ UNCHANGED <<dino, disk, ops, itab, lock, ftab, fd, todo, calls, panic>>
  BY DEF Booted
<1>2. TypesInv'
  BY <1>1, InodeAssumption DEF IInv, TypesInv
<1> QED BY <1>1, <1>2, OnlyScan
=============================================================================
