---------------------------- MODULE Inode_proofs ----------------------------
(***************************************************************************)
(* Proofs about inodes, the second half: the steps that change the disk,   *)
(* the start and crashes, and the theorems, for any number of processes,   *)
(* inodes, names, files and calls, and any first disks that are trees.     *)
(*                                                                         *)
(* The disk is changed by few operations, each under the lock of what it   *)
(* changes: a link more or less in nlink, a name more, a name less, an     *)
(* inode written anew. Each is shown to keep a tree a tree, and then to    *)
(* keep what IInv says of the inode it changes (Touched, Settled) and of   *)
(* all others (Far). NamesHold and NoCircularWait follow from IInv.        *)
(* Reclaimed has an invariant of its own, that says where ireclaim() is    *)
(* and what has become of the inode it has in hand (Stage).                *)
(***************************************************************************)
EXTENDS InodeSteps_proofs

-----------------------------------------------------------------------------
(* Operations on the disk.                                                 *)

(***************************************************************************)
(* What the code does to the directories keeps them a tree.                *)
(***************************************************************************)
InodeType == [type : Types, nlink : Nat, ents : [Entries -> 0 .. NINODES]]

(* The names of entries, and the numbers of inodes.                        *)
LEMMA DirNames ==
  /\ ROOTINO \in Inums /\ 0 \notin Inums
  /\ ".." \in Entries /\ Names \subseteq Entries /\ ".." \notin Names
  /\ Entries = Names \cup {".."} /\ 0 \in 0 .. NINODES
  /\ Inums \subseteq 0 .. NINODES
<1>1. ROOTINO \in Inums /\ 0 \notin Inums /\ 0 \in 0 .. NINODES
      /\ Inums \subseteq 0 .. NINODES
  BY InodeAssumption DEF ROOTINO, Inums
<1> QED BY <1>1, InodeAssumption DEF Entries

(* The fields of an inode on a disk that is a tree.                        *)
LEMMA TreeIs ==
  ASSUME NEW d, Tree(d), NEW i \in Inums
  PROVE  /\ d \in [Inums -> InodeType] /\ d[i] \in InodeType
         /\ d[i].type \in Types /\ d[i].nlink \in Nat
         /\ d[i].ents \in [Entries -> 0 .. NINODES]
  BY DEF Tree, DiskType, InodeType

(* Fewer links are counted lower,                                          *)
LEMMA LinksLess ==
  ASSUME NEW d, NEW e, NEW i, NEW j, Links(e, i) \subseteq Links(d, j)
  PROVE  Cardinality(Links(e, i)) <= Cardinality(Links(d, j))
  BY LinksFinite, FS_Subset

(* and one less when one is gone,                                          *)
LEMMA LinksFewer ==
  ASSUME NEW d, NEW e, NEW i, NEW x \in Links(d, i),
         Links(e, i) \subseteq Links(d, i) \ {x}
  PROVE  Cardinality(Links(e, i)) + 1 <= Cardinality(Links(d, i))
<1>1. IsFiniteSet(Links(d, i))
  BY LinksFinite
<1>2. PICK a \in Nat, b \in Nat :
        a = Cardinality(Links(d, i)) /\ b = Cardinality(Links(d, i) \ {x})
        /\ a = b + 1
  <2>1. /\ Cardinality(Links(d, i)) = Cardinality(Links(d, i) \ {x})
             + (IF x \in Links(d, i) THEN 1 ELSE 0)
        /\ Cardinality(Links(d, i) \ {x}) \in Nat /\ Cardinality(Links(d, i)) \in Nat
    BY <1>1, SplitOne
  <2> QED BY <2>1
<1>3. IsFiniteSet(Links(d, i) \ {x})
  BY <1>1, FS_Subset
<1>4. Cardinality(Links(e, i)) <= Cardinality(Links(d, i) \ {x})
  BY <1>3, FS_Subset
<1>5. Cardinality(Links(e, i)) \in Nat
  BY LinksFinite
<1> QED BY <1>2, <1>4, <1>5

(* and at most one more when one has come.                                 *)
LEMMA LinksMore ==
  ASSUME NEW d, NEW e, NEW i, NEW x, Links(e, i) \subseteq Links(d, i) \cup {x}
  PROVE  Cardinality(Links(e, i)) <= Cardinality(Links(d, i)) + 1
<1>1. Links(e, i) \ {x} \subseteq Links(d, i)
  OBVIOUS
<1>2. Cardinality(Links(e, i) \ {x}) <= Cardinality(Links(d, i))
  BY <1>1, LinksFinite, FS_Subset
<1>3. /\ Cardinality(Links(e, i)) = Cardinality(Links(e, i) \ {x})
             + (IF x \in Links(e, i) THEN 1 ELSE 0)
      /\ Cardinality(Links(e, i) \ {x}) \in Nat /\ Cardinality(Links(e, i)) \in Nat
  BY LinksFinite, SplitOne
<1>4. Cardinality(Links(d, i)) \in Nat
  BY LinksFinite
<1>5. PICK k \in {0, 1} : k = (IF x \in Links(e, i) THEN 1 ELSE 0)
  OBVIOUS
<1> QED BY <1>2, <1>3, <1>4, <1>5

(* An inode without links has no name.                                     *)
LEMMA UnlinkedIs ==
  ASSUME NEW d, Tree(d), NEW i \in Inums, d[i].nlink = 0
  PROVE  /\ i # ROOTINO /\ Links(d, i) = {}
         /\ \A k \in Inums, n \in Names : d[k].ents[n] # i
         /\ ~Named(d, i)
<1>1. Cardinality(Links(d, i)) = 0
  BY LinksFinite DEF Tree, EnoughLinks
<1>2. Links(d, i) = {}
  BY <1>1, LinksFinite, FS_EmptySet
<1>3. ASSUME NEW k \in Inums, NEW n \in Names PROVE d[k].ents[n] # i
  <2>1. <<k, n>> \notin Links(d, i)
    BY <1>2
  <2>2. n \in Entries
    BY DirNames
  <2> QED BY <2>1, <2>2 DEF Links
<1>4. i # ROOTINO
  BY RootLinked
<1> QED BY <1>2, <1>3, <1>4 DEF Named

(* The number of links of an inode changes.                                *)
Relinked(d, e, i, n) ==
  /\ e \in [Inums -> InodeType] /\ e[i].type = d[i].type /\ e[i].nlink = n
  /\ \A j \in Inums : e[j].ents = d[j].ents
  /\ \A j \in Inums \ {i} : e[j] = d[j]
  /\ \A j : Links(e, j) = Links(d, j)

(* Setting nlink changes nothing else.                                     *)
LEMMA NlinkIs ==
  ASSUME NEW d, Tree(d), NEW i \in Inums, NEW n \in Nat,
         NEW e, e = [d EXCEPT ![i].nlink = n]
  PROVE  Relinked(d, e, i, n)
<1>1. PICK r : r = [d[i] EXCEPT !.nlink = n]
  OBVIOUS
<1>2. /\ r \in InodeType /\ r.type = d[i].type /\ r.nlink = n
      /\ r.ents = d[i].ents
  BY <1>1, TreeIs DEF InodeType
<1>3. e = [d EXCEPT ![i] = r] /\ d \in [Inums -> InodeType]
  BY <1>1, TreeIs
<1>4. e \in [Inums -> InodeType] /\ e[i] = r /\ \A j \in Inums \ {i} : e[j] = d[j]
  BY <1>2, <1>3
<1>5. \A j \in Inums : e[j].ents = d[j].ents
  BY <1>2, <1>4
<1>6. \A j \in Inums : Named(e, j) <=> Named(d, j)
  BY <1>5 DEF Named
<1>7. \A j : Links(e, j) = Links(d, j)
  BY <1>5, <1>6 DEF Links
<1> QED BY <1>2, <1>4, <1>5, <1>7 DEF Relinked

(* It may go down to the number of links, and up for a file.               *)
LEMMA NlinkTree ==
  ASSUME NEW d, Tree(d), NEW i \in Inums, NEW n \in Nat,
         NEW e, e = [d EXCEPT ![i].nlink = n],
         Cardinality(Links(d, i)) <= n, d[i].type # "free",
         d[i].type = "dir" => n <= d[i].nlink
  PROVE  Tree(e) /\ (Flat(d) => Flat(e))
<1>1. Relinked(d, e, i, n)
  BY NlinkIs
<1> USE DEF Relinked
<1>2. e \in DiskType
  BY <1>1 DEF DiskType, InodeType
<1>3. \A j \in Inums : e[j].type = d[j].type
  BY <1>1
<1>4. OnlyDirs(e)
  <2>1. ASSUME NEW j \in Inums
        PROVE  /\ e[j].type # "dir" => e[j].ents = NoEntries
               /\ e[j].type = "dir" /\ e[j].nlink > 0 => e[j].ents[".."] # 0
               /\ e[j].type = "free" => e[j].nlink = 0
    <3>1. /\ d[j].type # "dir" => d[j].ents = NoEntries
          /\ d[j].type = "dir" /\ d[j].nlink > 0 => d[j].ents[".."] # 0
          /\ d[j].type = "free" => d[j].nlink = 0
      BY DEF Tree, OnlyDirs
    <3>2. CASE j = i
      <4>1. d[i].type = "dir" /\ n > 0 => d[i].nlink > 0
        BY TreeIs
      <4> QED BY <1>1, <3>1, <3>2, <4>1
    <3>3. CASE j # i
      BY <1>1, <3>1, <3>3
    <3> QED BY <3>2, <3>3
  <2> QED BY <2>1 DEF OnlyDirs
<1>5. RootIsDir(e)
  BY <1>1, <1>3, DirNames DEF Tree, RootIsDir
<1>6. OneName(e)
  BY <1>1, <1>3 DEF Tree, OneName
<1>7. NoCircle(e)
  <2>1. NoCircle(d)
    BY DEF Tree
  <2>2. ASSUME NEW S \in (SUBSET Inums) \ {{}}
        PROVE  \E k \in S : \A m \in Names : e[k].ents[m] \notin S
    <3>1. PICK k \in S : \A m \in Names : d[k].ents[m] \notin S
      BY <2>1 DEF NoCircle
    <3>2. e[k].ents = d[k].ents
      BY <1>1
    <3> QED BY <3>1, <3>2
  <2> QED BY <2>2 DEF NoCircle
<1>8. EnoughLinks(e)
  <2>1. ASSUME NEW j \in Inums PROVE Cardinality(Links(e, j)) <= e[j].nlink
    <3>1. Cardinality(Links(d, j)) <= d[j].nlink /\ Links(e, j) = Links(d, j)
      BY <1>1 DEF Tree, EnoughLinks
    <3>2. j # i => e[j] = d[j]
      BY <1>1
    <3>3. e[i].nlink = n
      BY <1>1
    <3> QED BY <3>1, <3>2, <3>3
  <2> QED BY <2>1 DEF EnoughLinks
<1>9. Flat(d) => Flat(e)
  BY <1>1 DEF Flat
<1> QED BY <1>2, <1>4, <1>5, <1>6, <1>7, <1>8, <1>9 DEF Tree

(* An inode without links becomes free, or another kind of inode.          *)
Retyped(d, e, i) ==
  /\ e \in [Inums -> InodeType]
  /\ \A j \in Inums \ {i} : e[j] = d[j]
  /\ \A j \in Inums : Links(e, j) \subseteq Links(d, j)

(* The disk stays a tree when an inode without links is written that has   *)
(* no names in it.                                                         *)
LEMMA UnlinkedTree ==
  ASSUME NEW d, Tree(d), NEW i \in Inums, d[i].nlink = 0,
         NEW r \in InodeType, NEW e, e = [d EXCEPT ![i] = r],
         \A n \in Names : r.ents[n] = 0,
         r.nlink > 0 => r.type # "free" /\ (r.type = "dir" => r.ents[".."] # 0),
         r.type # "dir" => r.ents = NoEntries
  PROVE  Tree(e) /\ Retyped(d, e, i)
<1>1. /\ e \in [Inums -> InodeType] /\ e[i] = r
      /\ \A j \in Inums \ {i} : e[j] = d[j]
  BY TreeIs
<1>2. /\ i # ROOTINO /\ Links(d, i) = {}
      /\ \A k \in Inums, n \in Names : d[k].ents[n] # i
      /\ ~Named(d, i)
  BY UnlinkedIs
<1>3. ASSUME NEW k \in Inums, NEW n \in Names, e[k].ents[n] \in Inums
      PROVE  k # i /\ e[k].ents[n] = d[k].ents[n]
  BY <1>1, <1>3, DirNames
<1>4. ASSUME NEW k \in Inums, Named(e, k) PROVE Named(d, k) /\ k # i
  <2>1. CASE k = ROOTINO
    BY <1>2, <2>1 DEF Named
  <2>2. CASE \E j \in Inums, n \in Names : e[j].ents[n] = k
    BY <1>2, <1>3, <2>2 DEF Named
  <2> QED BY <1>4, <2>1, <2>2 DEF Named
<1>5. ASSUME NEW j \in Inums, NEW x \in Links(e, j) PROVE x \in Links(d, j)
  <2>1. /\ x \in Inums \X Entries /\ e[x[1]].ents[x[2]] = j
        /\ x[2] \in Names \/ Named(e, x[1])
    BY <1>5 DEF Links
  <2>2. x[1] \in Inums /\ x[2] \in Entries
    BY <2>1
  <2>3. CASE x[2] \in Names
    <3>1. d[x[1]].ents[x[2]] = j
      BY <1>3, <2>1, <2>2, <2>3
    <3> QED BY <2>1, <2>3, <3>1 DEF Links
  <2>4. CASE Named(e, x[1])
    <3>1. Named(d, x[1]) /\ e[x[1]] = d[x[1]]
      BY <1>1, <1>4, <2>2, <2>4
    <3> QED BY <2>1, <3>1 DEF Links
  <2> QED BY <2>1, <2>3, <2>4
<1>6. Retyped(d, e, i)
  BY <1>1, <1>5 DEF Retyped
<1>7. e \in DiskType
  BY <1>1 DEF DiskType, InodeType
<1>8. OnlyDirs(e)
  <2>1. ASSUME NEW j \in Inums
        PROVE  /\ e[j].type # "dir" => e[j].ents = NoEntries
               /\ e[j].type = "dir" /\ e[j].nlink > 0 => e[j].ents[".."] # 0
               /\ e[j].type = "free" => e[j].nlink = 0
    <3>1. CASE j = i
      <4>1. r.nlink \in Nat
        BY DEF InodeType
      <4> QED BY <1>1, <3>1, <4>1
    <3>2. CASE j # i
      <4>1. e[j] = d[j]
        BY <1>1, <3>2
      <4> QED BY <4>1 DEF Tree, OnlyDirs
    <3> QED BY <3>1, <3>2
  <2> QED BY <2>1 DEF OnlyDirs
<1>9. RootIsDir(e)
  <2>1. e[ROOTINO] = d[ROOTINO]
    BY <1>1, <1>2, DirNames
  <2> QED BY <2>1 DEF Tree, RootIsDir
<1>10. OneName(e)
  <2>1. ASSUME NEW c \in Inums, NEW j \in Inums, NEW n \in Names,
               e[j].ents[n] = c, e[c].type = "dir"
        PROVE  /\ e[c].ents[".."] = j
               /\ \A k \in Inums, m \in Names : e[k].ents[m] = c => k = j /\ m = n
    <3>1. j # i /\ d[j].ents[n] = c
      BY <1>3, <2>1
    <3>2. c # i
      BY <1>2, <3>1
    <3>3. e[c] = d[c]
      BY <1>1, <3>2
    <3>4. /\ d[c].ents[".."] = j
          /\ \A k \in Inums, m \in Names : d[k].ents[m] = c => k = j /\ m = n
      BY <2>1, <3>1, <3>3 DEF Tree, OneName
    <3>5. ASSUME NEW k \in Inums, NEW m \in Names, e[k].ents[m] = c
          PROVE  k = j /\ m = n
      BY <1>3, <3>4, <3>5
    <3> QED BY <3>3, <3>4, <3>5
  <2> QED BY <2>1 DEF OneName
<1>11. NoCircle(e)
  <2>1. NoCircle(d)
    BY DEF Tree
  <2>2. ASSUME NEW S \in (SUBSET Inums) \ {{}}
        PROVE  \E k \in S : \A m \in Names : e[k].ents[m] \notin S
    <3>1. PICK k \in S : \A m \in Names : d[k].ents[m] \notin S
      BY <2>1 DEF NoCircle
    <3>2. ASSUME NEW m \in Names, e[k].ents[m] \in S PROVE FALSE
      BY <1>3, <3>1, <3>2
    <3> QED BY <3>2
  <2> QED BY <2>2 DEF NoCircle
<1>12. EnoughLinks(e)
  <2>1. ASSUME NEW j \in Inums PROVE Cardinality(Links(e, j)) <= e[j].nlink
    <3>1. Cardinality(Links(d, j)) <= d[j].nlink
      BY DEF Tree, EnoughLinks
    <3>2. Cardinality(Links(e, j)) <= Cardinality(Links(d, j))
      BY <1>5, LinksLess
    <3>3. d[j].nlink <= e[j].nlink /\ e[j].nlink \in Nat
      <4>1. r.nlink \in Nat
        BY DEF InodeType
      <4>2. d[j].nlink \in Nat
        BY TreeIs
      <4> QED BY <1>1, <4>1, <4>2
    <3>4. Cardinality(Links(e, j)) \in Nat /\ Cardinality(Links(d, j)) \in Nat
      BY LinksFinite
    <3>5. d[j].nlink \in Nat
      BY TreeIs
    <3> QED BY <3>1, <3>2, <3>3, <3>4, <3>5
  <2> QED BY <2>1 DEF EnoughLinks
<1> QED BY <1>6, <1>7, <1>8, <1>9, <1>10, <1>11, <1>12 DEF Tree

(* And ".." leads to the root as before.                                   *)
LEMMA RetypedFlat ==
  ASSUME NEW d, NEW i \in Inums, NEW e, Flat(d),
         \A j \in Inums \ {i} : e[j] = d[j],
         Ups => e[i].ents[".."] \in {0, ROOTINO}
  PROVE  Flat(e)
  BY DEF Flat

(* A directory gets a name for an inode, and the link of its "..".         *)
Added(d, e, i, j, n) ==
  /\ e \in [Inums -> InodeType]
  /\ \A k \in Inums \ {j} : e[k] = d[k]
  /\ \A k \in Inums \ {i, j} : Links(e, k) \subseteq Links(d, k)
  /\ Links(e, i) \subseteq Links(d, i) \cup {<<j, n>>}
  /\ Links(e, j) \subseteq Links(d, j) \cup {<<i, "..">>}
  /\ d[i].type # "dir" => Links(e, j) \subseteq Links(d, j)

(* A new name gives its inode one link, and ".." counts when a directory   *)
(* gets its name.                                                          *)
LEMMA AddedIs ==
  ASSUME NEW d, Tree(d), NEW i \in Inums, NEW j \in Inums, i # j, NEW n \in Names,
         NEW r \in InodeType, NEW e, e = [d EXCEPT ![j] = r],
         r.ents = [d[j].ents EXCEPT ![n] = i], d[j].ents[n] = 0,
         \A m \in Names : d[i].ents[m] = 0,
         d[i].type = "dir" => d[i].ents[".."] = j /\ ~Named(d, i)
  PROVE  Added(d, e, i, j, n)
<1>1. /\ e \in [Inums -> InodeType] /\ e[j] = r
      /\ \A k \in Inums \ {j} : e[k] = d[k]
  BY TreeIs
<1>2. /\ r.ents[n] = i /\ r.ents[".."] = d[j].ents[".."]
      /\ \A m \in Names \ {n} : r.ents[m] = d[j].ents[m]
  BY TreeIs, DirNames
<1>3. ASSUME NEW k \in Inums, NEW m \in Names, e[k].ents[m] \in Inums
      PROVE  \/ d[k].ents[m] = e[k].ents[m]
             \/ k = j /\ m = n /\ e[k].ents[m] = i
  BY <1>1, <1>2
<1>4. \A k \in Inums : e[k].ents[".."] = d[k].ents[".."]
  BY <1>1, <1>2
<1>5. ASSUME NEW k \in Inums, Named(e, k) PROVE Named(d, k) \/ k = i
  <2>1. CASE k = ROOTINO
    BY <2>1 DEF Named
  <2>2. CASE \E h \in Inums, m \in Names : e[h].ents[m] = k
    BY <1>3, <2>2 DEF Named
  <2> QED BY <1>5, <2>1, <2>2 DEF Named
<1>6. ASSUME NEW c \in Inums, NEW x \in Links(e, c)
      PROVE  \/ x \in Links(d, c)
             \/ c = i /\ x = <<j, n>>
             \/ c = j /\ x = <<i, "..">> /\ d[i].type = "dir"
  <2>1. /\ x \in Inums \X Entries /\ e[x[1]].ents[x[2]] = c
        /\ x[2] \in Names \/ Named(e, x[1])
    BY <1>6 DEF Links
  <2>2. x[1] \in Inums /\ x[2] \in Entries /\ x = <<x[1], x[2]>>
    BY <2>1
  <2>3. CASE x[2] \in Names
    <3>1. \/ d[x[1]].ents[x[2]] = c
          \/ x[1] = j /\ x[2] = n /\ c = i
      BY <1>3, <2>1, <2>2, <2>3
    <3> QED BY <2>1, <2>2, <2>3, <3>1 DEF Links
  <2>4. CASE x[2] = ".." /\ Named(e, x[1])
    <3>1. d[x[1]].ents[".."] = c
      BY <1>4, <2>1, <2>2, <2>4
    <3>2. CASE Named(d, x[1])
      BY <2>1, <2>4, <3>1, <3>2 DEF Links
    <3>3. CASE x[1] = i
      <4>1. d[i].type # "dir" => d[i].ents[".."] = 0
        BY DirNames DEF Tree, OnlyDirs, NoEntries
      <4>2. d[i].type = "dir"
        BY <3>1, <3>3, <4>1, DirNames
      <4> QED BY <2>2, <2>4, <3>1, <3>3, <4>2
    <3> QED BY <1>5, <2>2, <2>4, <3>2, <3>3
  <2> QED BY <2>1, <2>2, <2>3, <2>4, DirNames
<1>7. \A k \in Inums \ {i, j} : Links(e, k) \subseteq Links(d, k)
  BY <1>6
<1>8. Links(e, i) \subseteq Links(d, i) \cup {<<j, n>>}
  BY <1>6
<1>9. /\ Links(e, j) \subseteq Links(d, j) \cup {<<i, "..">>}
      /\ d[i].type # "dir" => Links(e, j) \subseteq Links(d, j)
  BY <1>6
<1> QED BY <1>1, <1>7, <1>8, <1>9 DEF Added

(* What dirlink() of n, for i, in directory j needs for that.              *)
Addable(d, e, i, j, n, r) ==
  /\ Tree(d) /\ i # j /\ e = [d EXCEPT ![j] = r]
  /\ r.type = "dir" /\ r.ents = [d[j].ents EXCEPT ![n] = i]
  /\ d[j].type = "dir" /\ d[j].ents[n] = 0 /\ d[j].ents[".."] # 0
  /\ \A m \in Names : d[i].ents[m] = 0
  /\ d[i].type = "dir" => d[i].ents[".."] = j /\ ~Named(d, i)
  /\ Cardinality(Links(d, i)) + 1 <= d[i].nlink
  /\ r.nlink = d[j].nlink + (IF d[i].type = "dir" THEN 1 ELSE 0)

(* The disk is a tree with the new name.                                   *)
LEMMA AddedTree ==
  ASSUME NEW d, NEW e, NEW i \in Inums, NEW j \in Inums, NEW n \in Names,
         NEW r \in InodeType, Addable(d, e, i, j, n, r)
  PROVE  Tree(e) /\ (Flat(d) => Flat(e))
<1>a. /\ Tree(d) /\ i # j /\ e = [d EXCEPT ![j] = r]
      /\ r.type = "dir" /\ r.ents = [d[j].ents EXCEPT ![n] = i]
      /\ d[j].type = "dir" /\ d[j].ents[n] = 0 /\ d[j].ents[".."] # 0
      /\ \A m \in Names : d[i].ents[m] = 0
      /\ d[i].type = "dir" => d[i].ents[".."] = j /\ ~Named(d, i)
      /\ Cardinality(Links(d, i)) + 1 <= d[i].nlink
      /\ r.nlink = d[j].nlink + (IF d[i].type = "dir" THEN 1 ELSE 0)
  BY DEF Addable
<1> USE <1>a
<1>0. Added(d, e, i, j, n)
  BY AddedIs
<1>1. /\ e \in [Inums -> InodeType] /\ e[j] = r
      /\ \A k \in Inums \ {j} : e[k] = d[k]
  BY TreeIs
<1>2. /\ r.ents[n] = i /\ r.ents[".."] = d[j].ents[".."]
      /\ \A m \in Names \ {n} : r.ents[m] = d[j].ents[m]
  BY TreeIs, DirNames
<1>3. ASSUME NEW k \in Inums, NEW m \in Names, e[k].ents[m] \in Inums
      PROVE  \/ d[k].ents[m] = e[k].ents[m]
             \/ k = j /\ m = n /\ e[k].ents[m] = i
  BY <1>1, <1>2
<1>4. \A k \in Inums : e[k].ents[".."] = d[k].ents[".."] /\ e[k].type = d[k].type
  BY <1>1, <1>2
<1>5. e \in DiskType
  BY <1>1 DEF DiskType, InodeType
<1>6. OnlyDirs(e)
  <2>1. ASSUME NEW k \in Inums
        PROVE  /\ e[k].type # "dir" => e[k].ents = NoEntries
               /\ e[k].type = "dir" /\ e[k].nlink > 0 => e[k].ents[".."] # 0
               /\ e[k].type = "free" => e[k].nlink = 0
    <3>1. CASE k = j
      BY <1>1, <1>2, <3>1
    <3>2. CASE k # j
      <4>1. e[k] = d[k]
        BY <1>1, <3>2
      <4> QED BY <4>1 DEF Tree, OnlyDirs
    <3> QED BY <3>1, <3>2
  <2> QED BY <2>1 DEF OnlyDirs
<1>7. RootIsDir(e)
  BY <1>4, DirNames DEF Tree, RootIsDir
<1>8. OneName(e)
  <2>1. ASSUME NEW c \in Inums, NEW h \in Inums, NEW m \in Names,
               e[h].ents[m] = c, e[c].type = "dir"
        PROVE  /\ e[c].ents[".."] = h
               /\ \A k \in Inums, l \in Names : e[k].ents[l] = c => k = h /\ l = m
    <3>0. e[c].ents[".."] = d[c].ents[".."] /\ d[c].type = "dir"
      BY <1>4, <2>1
    <3>1. CASE c = i
      <4>1. ASSUME NEW k \in Inums, NEW l \in Names, e[k].ents[l] = i
            PROVE  k = j /\ l = n
        <5>1. d[k].ents[l] # i
          BY <3>0, <3>1 DEF Named
        <5> QED BY <1>3, <4>1, <5>1
      <4> QED BY <2>1, <3>0, <3>1, <4>1
    <3>2. CASE c # i
      <4>1. \A k \in Inums, l \in Names : e[k].ents[l] = c => d[k].ents[l] = c
        BY <1>3, <3>2
      <4>2. /\ d[c].ents[".."] = h
            /\ \A k \in Inums, l \in Names : d[k].ents[l] = c => k = h /\ l = m
        BY <2>1, <3>0, <4>1 DEF Tree, OneName
      <4> QED BY <3>0, <4>1, <4>2
    <3> QED BY <3>1, <3>2
  <2> QED BY <2>1 DEF OneName
<1>9. NoCircle(e)
  <2>1. NoCircle(d)
    BY DEF Tree
  <2>2. ASSUME NEW S \in (SUBSET Inums) \ {{}}
        PROVE  \E k \in S : \A m \in Names : e[k].ents[m] \notin S
    <3>1. CASE i \in S
      <4>1. \A m \in Names : e[i].ents[m] = 0
        BY <1>1
      <4>2. 0 \notin S
        BY DirNames
      <4> QED BY <3>1, <4>1, <4>2
    <3>2. CASE i \notin S
      <4>1. PICK k \in S : \A m \in Names : d[k].ents[m] \notin S
        BY <2>1 DEF NoCircle
      <4>2. ASSUME NEW m \in Names, e[k].ents[m] \in S PROVE FALSE
        BY <1>3, <3>2, <4>1, <4>2
      <4> QED BY <4>2
    <3> QED BY <3>1, <3>2
  <2> QED BY <2>2 DEF NoCircle
<1>10. EnoughLinks(e)
  <2>1. ASSUME NEW k \in Inums PROVE Cardinality(Links(e, k)) <= e[k].nlink
    <3>1. Cardinality(Links(d, k)) <= d[k].nlink
      BY DEF Tree, EnoughLinks
    <3>2. /\ Cardinality(Links(e, k)) \in Nat /\ Cardinality(Links(d, k)) \in Nat
          /\ d[k].nlink \in Nat
      BY LinksFinite, TreeIs
    <3>3. CASE k = i
      <4>1. Cardinality(Links(e, k)) <= Cardinality(Links(d, k)) + 1
        BY <1>0, <3>3, LinksMore DEF Added
      <4>2. e[k] = d[k]
        BY <1>1, <3>3
      <4> QED BY <3>2, <3>3, <4>1, <4>2
    <3>4. CASE k = j /\ d[i].type = "dir"
      <4>1. Cardinality(Links(e, k)) <= Cardinality(Links(d, k)) + 1
        BY <1>0, <3>4, LinksMore DEF Added
      <4>2. e[k].nlink = d[k].nlink + 1
        BY <1>1, <3>4
      <4> QED BY <3>1, <3>2, <4>1, <4>2
    <3>5. CASE k = j /\ d[i].type # "dir"
      <4>1. Cardinality(Links(e, k)) <= Cardinality(Links(d, k))
        BY <1>0, <3>5, LinksLess DEF Added
      <4>2. e[k].nlink = d[k].nlink
        BY <1>1, <3>2, <3>5
      <4> QED BY <3>1, <3>2, <4>1, <4>2
    <3>6. CASE k \notin {i, j}
      <4>1. Cardinality(Links(e, k)) <= Cardinality(Links(d, k))
        BY <1>0, <3>6, LinksLess DEF Added
      <4>2. e[k] = d[k]
        BY <1>1, <3>6
      <4> QED BY <3>1, <3>2, <4>1, <4>2
    <3> QED BY <3>3, <3>4, <3>5, <3>6
  <2> QED BY <2>1 DEF EnoughLinks
<1>11. Flat(d) => Flat(e)
  BY <1>4 DEF Flat
<1> QED BY <1>5, <1>6, <1>7, <1>8, <1>9, <1>10, <1>11 DEF Tree

(* A directory loses a name, and with that of a directory a link.          *)
Lost(d, e, i, j) ==
  /\ e \in [Inums -> InodeType]
  /\ \A k \in Inums \ {j} : e[k] = d[k]
  /\ e[j].ents[".."] = d[j].ents[".."]
  /\ \A k \in Inums : Links(e, k) \subseteq Links(d, k)
  /\ Cardinality(Links(e, i)) + 1 <= Cardinality(Links(d, i))
  /\ d[i].type = "dir" =>
       /\ i # ROOTINO
       /\ Cardinality(Links(e, j)) + 1 <= Cardinality(Links(d, j))

(* A name less is a link less, and for a directory that of its ".." as     *)
(* well.                                                                   *)
LEMMA LostIs ==
  ASSUME NEW d, Tree(d), NEW i \in Inums, NEW j \in Inums, NEW n \in Names,
         d[j].ents[n] = i, NEW r \in InodeType, NEW e, e = [d EXCEPT ![j] = r],
         r.ents = [d[j].ents EXCEPT ![n] = 0]
  PROVE  Lost(d, e, i, j)
<1>1. /\ e \in [Inums -> InodeType] /\ e[j] = r
      /\ \A k \in Inums \ {j} : e[k] = d[k]
  BY TreeIs
<1>2. /\ r.ents[n] = 0 /\ r.ents[".."] = d[j].ents[".."]
      /\ \A m \in Names \ {n} : r.ents[m] = d[j].ents[m]
  BY TreeIs, DirNames
<1>3. ASSUME NEW k \in Inums, NEW m \in Names, e[k].ents[m] \in Inums
      PROVE  d[k].ents[m] = e[k].ents[m] /\ ~(k = j /\ m = n)
  BY <1>1, <1>2, <1>3, DirNames
<1>4. \A k \in Inums : e[k].ents[".."] = d[k].ents[".."]
  BY <1>1, <1>2
<1>5. ASSUME NEW k \in Inums, Named(e, k) PROVE Named(d, k)
  <2>1. CASE k = ROOTINO
    BY <2>1 DEF Named
  <2>2. CASE \E h \in Inums, m \in Names : e[h].ents[m] = k
    BY <1>3, <2>2 DEF Named
  <2> QED BY <1>5, <2>1, <2>2 DEF Named
<1>6. ASSUME NEW c \in Inums, NEW x \in Links(e, c)
      PROVE  x \in Links(d, c) /\ x # <<j, n>>
  <2>1. /\ x \in Inums \X Entries /\ e[x[1]].ents[x[2]] = c
        /\ x[2] \in Names \/ Named(e, x[1])
    BY <1>6 DEF Links
  <2>2. x[1] \in Inums /\ x[2] \in Entries /\ x = <<x[1], x[2]>>
    BY <2>1
  <2>3. CASE x[2] \in Names
    <3>1. d[x[1]].ents[x[2]] = c /\ ~(x[1] = j /\ x[2] = n)
      BY <1>3, <2>1, <2>2, <2>3
    <3> QED BY <2>1, <2>2, <2>3, <3>1 DEF Links
  <2>4. CASE x[2] = ".." /\ Named(e, x[1])
    <3>1. d[x[1]].ents[".."] = c /\ Named(d, x[1])
      BY <1>4, <1>5, <2>1, <2>2, <2>4
    <3>2. x # <<j, n>>
      BY <2>2, <2>4, DirNames
    <3> QED BY <2>1, <2>4, <3>1, <3>2 DEF Links
  <2> QED BY <2>1, <2>2, <2>3, <2>4, DirNames
<1>7. \A k \in Inums : Links(e, k) \subseteq Links(d, k)
  BY <1>6
<1>8. Cardinality(Links(e, i)) + 1 <= Cardinality(Links(d, i))
  <2>1. <<j, n>> \in Links(d, i)
    BY DirNames DEF Links
  <2>2. Links(e, i) \subseteq Links(d, i) \ {<<j, n>>}
    BY <1>6
  <2> QED BY <2>1, <2>2, LinksFewer
<1>9. ASSUME d[i].type = "dir"
      PROVE  /\ i # ROOTINO
             /\ Cardinality(Links(e, j)) + 1 <= Cardinality(Links(d, j))
  <2>1. /\ d[i].ents[".."] = j
        /\ \A k \in Inums, m \in Names : d[k].ents[m] = i => k = j /\ m = n
    BY <1>9 DEF Tree, OneName
  <2>2. i # j
    BY NotOwn
  <2>3. i # ROOTINO
    BY <2>1, <2>2 DEF Tree, RootIsDir
  <2>4. ~Named(e, i)
    <3>1. ASSUME NEW k \in Inums, NEW m \in Names, e[k].ents[m] = i PROVE FALSE
      BY <1>3, <2>1, <3>1
    <3> QED BY <2>3, <3>1 DEF Named
  <2>5. <<i, "..">> \in Links(d, j)
    BY <2>1, DirNames DEF Links, Named
  <2>6. <<i, "..">> \notin Links(e, j)
    BY <2>4, DirNames DEF Links
  <2>7. Links(e, j) \subseteq Links(d, j) \ {<<i, "..">>}
    BY <1>7, <2>6
  <2>8. Cardinality(Links(e, j)) + 1 <= Cardinality(Links(d, j))
    BY <2>5, <2>7, LinksFewer
  <2> QED BY <2>3, <2>8
<1> QED BY <1>1, <1>2, <1>7, <1>8, <1>9 DEF Lost

(* What unlink() of n, which is i, in directory j needs for that.          *)
Removable(d, e, i, j, n, r) ==
  /\ Tree(d) /\ d[j].ents[n] = i /\ e = [d EXCEPT ![j] = r]
  /\ r.type = d[j].type /\ r.ents = [d[j].ents EXCEPT ![n] = 0]
  /\ r.nlink + (IF d[i].type = "dir" THEN 1 ELSE 0) = d[j].nlink

(* The disk is a tree without the name.                                    *)
LEMMA LostTree ==
  ASSUME NEW d, NEW e, NEW i \in Inums, NEW j \in Inums, NEW n \in Names,
         NEW r \in InodeType, Removable(d, e, i, j, n, r)
  PROVE  Tree(e) /\ (Flat(d) => Flat(e))
<1>a. /\ Tree(d) /\ d[j].ents[n] = i /\ e = [d EXCEPT ![j] = r]
      /\ r.type = d[j].type /\ r.ents = [d[j].ents EXCEPT ![n] = 0]
      /\ r.nlink + (IF d[i].type = "dir" THEN 1 ELSE 0) = d[j].nlink
  BY DEF Removable
<1> USE <1>a
<1>0. Lost(d, e, i, j)
  BY LostIs
<1>1. /\ e \in [Inums -> InodeType] /\ e[j] = r
      /\ \A k \in Inums \ {j} : e[k] = d[k]
  BY TreeIs
<1>2. /\ r.ents[n] = 0 /\ r.ents[".."] = d[j].ents[".."]
      /\ \A m \in Names \ {n} : r.ents[m] = d[j].ents[m]
  BY TreeIs, DirNames
<1>3. ASSUME NEW k \in Inums, NEW m \in Names, e[k].ents[m] \in Inums
      PROVE  d[k].ents[m] = e[k].ents[m]
  BY <1>1, <1>2, <1>3, DirNames
<1>4. \A k \in Inums : e[k].ents[".."] = d[k].ents[".."] /\ e[k].type = d[k].type
  BY <1>1, <1>2
<1>40. PICK z \in {0, 1} : z = (IF d[i].type = "dir" THEN 1 ELSE 0)
                           /\ r.nlink + z = d[j].nlink
  OBVIOUS
<1>41. r.nlink \in Nat /\ d[j].nlink \in Nat
  BY TreeIs DEF InodeType
<1>5. e \in DiskType
  BY <1>1 DEF DiskType, InodeType
<1>6. OnlyDirs(e)
  <2>1. ASSUME NEW c \in Inums
        PROVE  /\ e[c].type # "dir" => e[c].ents = NoEntries
               /\ e[c].type = "dir" /\ e[c].nlink > 0 => e[c].ents[".."] # 0
               /\ e[c].type = "free" => e[c].nlink = 0
    <3>0. /\ d[c].type # "dir" => d[c].ents = NoEntries
          /\ d[c].type = "dir" /\ d[c].nlink > 0 => d[c].ents[".."] # 0
          /\ d[c].type = "free" => d[c].nlink = 0
      BY DEF Tree, OnlyDirs
    <3>1. CASE c = j
      <4>1. d[j].type = "dir"
        <5>1. d[j].ents # NoEntries
          BY DirNames DEF NoEntries
        <5> QED BY <3>0, <3>1, <5>1
      <4>2. r.nlink > 0 => d[j].nlink > 0
        BY <1>40, <1>41
      <4> QED BY <1>1, <1>2, <3>0, <3>1, <4>1, <4>2
    <3>2. CASE c # j
      BY <1>1, <3>0, <3>2
    <3> QED BY <3>1, <3>2
  <2> QED BY <2>1 DEF OnlyDirs
<1>7. RootIsDir(e)
  BY <1>4, DirNames DEF Tree, RootIsDir
<1>8. OneName(e)
  <2>1. ASSUME NEW c \in Inums, NEW h \in Inums, NEW m \in Names,
               e[h].ents[m] = c, e[c].type = "dir"
        PROVE  /\ e[c].ents[".."] = h
               /\ \A k \in Inums, l \in Names : e[k].ents[l] = c => k = h /\ l = m
    <3>0. e[c].ents[".."] = d[c].ents[".."] /\ d[c].type = "dir"
      BY <1>4, <2>1
    <3>1. \A k \in Inums, l \in Names : e[k].ents[l] = c => d[k].ents[l] = c
      BY <1>3
    <3>2. /\ d[c].ents[".."] = h
          /\ \A k \in Inums, l \in Names : d[k].ents[l] = c => k = h /\ l = m
      BY <2>1, <3>0, <3>1 DEF Tree, OneName
    <3> QED BY <3>0, <3>1, <3>2
  <2> QED BY <2>1 DEF OneName
<1>9. NoCircle(e)
  <2>1. NoCircle(d)
    BY DEF Tree
  <2>2. ASSUME NEW S \in (SUBSET Inums) \ {{}}
        PROVE  \E k \in S : \A m \in Names : e[k].ents[m] \notin S
    <3>1. PICK k \in S : \A m \in Names : d[k].ents[m] \notin S
      BY <2>1 DEF NoCircle
    <3>2. ASSUME NEW m \in Names, e[k].ents[m] \in S PROVE FALSE
      BY <1>3, <3>1, <3>2
    <3> QED BY <3>2
  <2> QED BY <2>2 DEF NoCircle
<1>10. EnoughLinks(e)
  <2>1. ASSUME NEW c \in Inums PROVE Cardinality(Links(e, c)) <= e[c].nlink
    <3>1. Cardinality(Links(d, c)) <= d[c].nlink
      BY DEF Tree, EnoughLinks
    <3>2. /\ Cardinality(Links(e, c)) \in Nat /\ Cardinality(Links(d, c)) \in Nat
          /\ d[c].nlink \in Nat
      BY LinksFinite, TreeIs
    <3>3. Cardinality(Links(e, c)) <= Cardinality(Links(d, c))
      BY <1>0, LinksLess DEF Lost
    <3>4. CASE c = j /\ d[i].type = "dir"
      <4>1. Cardinality(Links(e, c)) + 1 <= Cardinality(Links(d, c))
        BY <1>0, <3>4 DEF Lost
      <4>2. e[c].nlink + 1 = d[c].nlink /\ e[c].nlink \in Nat
        BY <1>1, <1>41, <3>4
      <4> QED BY <3>1, <3>2, <4>1, <4>2
    <3>5. CASE ~(c = j /\ d[i].type = "dir")
      <4>1. e[c].nlink = d[c].nlink
        BY <1>1, <1>41, <3>5
      <4> QED BY <3>1, <3>2, <3>3, <4>1
    <3> QED BY <3>4, <3>5
  <2> QED BY <2>1 DEF EnoughLinks
<1>11. Flat(d) => Flat(e)
  BY <1>4 DEF Flat
<1> QED BY <1>5, <1>6, <1>7, <1>8, <1>9, <1>10, <1>11 DEF Tree

-----------------------------------------------------------------------------
(* What a change of the disk leaves of the invariant.                      *)

(* What was found stays, when only an inode changes that a process has     *)
(* nothing to do with, or the names in a directory it has not locked.      *)
GoalsKept(d, e, s, i) ==
  \/ Holds(s, i) = 0 /\ Has(s, "new", i) = 0
  \/ /\ e[i].type = d[i].type
     /\ d[i].ents[".."] # 0 => e[i].ents[".."] # 0
     /\ Has(s, "pair", i) = 0 \/ e[i].ents = d[i].ents

(* Instructions of a process over a change of one inode.                   *)
LEMMA GoalsStay ==
  ASSUME NEW s \in Seq(Instr), NEW d, NEW e, NEW i \in Inums, GoalsOk(d, s),
         \A j \in Inums \ {i} : e[j].ents = d[j].ents /\ e[j].type = d[j].type,
         GoalsKept(d, e, s, i)
  PROVE  GoalsOk(e, s)
<1>1. ASSUME NEW k \in 1 .. Len(s) PROVE GoalOk(e, s[k])
  <2>1. PICK x \in Instr : x = s[k] /\ GoalOk(d, x)
    BY DEF GoalsOk
  <2>2. CASE x.do \notin {"look", "remove", "fill", "linknew", "unlink", "create"}
    BY <2>1, <2>2 DEF GoalOk
  <2>3. CASE x.do = "look"
    <3>1. x.ip \in Inums
      BY <2>3, InstrFields, LookFields
    <3>2. CASE x.ip # i
      BY <2>1, <2>3, <3>1, <3>2 DEF GoalOk
    <3>3. CASE x.ip = i
      <4>1. Plays(x, "use", i)
        BY <2>3, <3>3 DEF Plays, UseOps
      <4>2. Has(s, "use", i) > 0
        BY <2>1, <4>1, HasElement
      <4>3. ~(Holds(s, i) = 0)
        <5>1. /\ Has(s, "use", i) \in Nat /\ Has(s, "back", i) \in Nat
              /\ Has(s, "old", i) \in Nat /\ Has(s, "dir", i) \in Nat
          BY MarksType
        <5> QED BY <4>2, <5>1 DEF Holds
      <4> QED BY <2>1, <2>3, <3>3, <4>3 DEF GoalOk, GoalsKept
    <3> QED BY <3>2, <3>3
  <2>4. CASE x.do \in {"remove", "fill", "linknew", "unlink", "create"}
    <3>1. x.dp \in Inums /\ x.do \in NewOps \cup DirOps
          /\ (x.do \in {"remove", "fill"} => x.ip \in Inums)
      BY <2>4, InstrFields DEF NewOps, DirOps
    <3>2. x.dp = i => ~(Holds(s, i) = 0)
      <4>1. SUFFICES ASSUME x.dp = i PROVE ~(Holds(s, i) = 0)
        OBVIOUS
      <4>2. Plays(x, "dir", i)
        BY <3>1, <4>1 DEF Plays
      <4>3. Has(s, "dir", i) > 0
        BY <2>1, <4>2, HasElement
      <4>4. /\ Has(s, "use", i) \in Nat /\ Has(s, "back", i) \in Nat
            /\ Has(s, "old", i) \in Nat /\ Has(s, "dir", i) \in Nat
        BY MarksType
      <4> QED BY <4>3, <4>4 DEF Holds
    <3>3. x.do = "fill" /\ x.ip = i => ~(Has(s, "new", i) = 0)
      <4>1. SUFFICES ASSUME x.do = "fill" /\ x.ip = i PROVE ~(Has(s, "new", i) = 0)
        OBVIOUS
      <4>2. Plays(x, "new", i)
        BY <4>1 DEF Plays
      <4> QED BY <2>1, <4>2, HasElement
    <3>4. x.do \in {"remove", "fill"} /\ x.dp = i => ~(Has(s, "pair", i) = 0)
      <4>1. SUFFICES ASSUME x.do \in {"remove", "fill"} /\ x.dp = i
                     PROVE  ~(Has(s, "pair", i) = 0)
        OBVIOUS
      <4>2. Plays(x, "pair", i)
        BY <4>1 DEF Plays
      <4> QED BY <2>1, <4>2, HasElement
    <3>5. e[x.dp].ents[".."] # 0
      <4>1. d[x.dp].ents[".."] # 0
        BY <2>1, <2>4 DEF GoalOk
      <4> QED BY <3>1, <3>2, <4>1 DEF GoalsKept
    <3>6. x.do \in {"remove", "fill"} => e[x.dp].ents = d[x.dp].ents
      BY <3>1, <3>2, <3>4 DEF GoalsKept
    <3>7. x.do = "fill" => e[x.ip].type = d[x.ip].type
      BY <3>1, <3>3 DEF GoalsKept
    <3> QED BY <2>1, <2>4, <3>5, <3>6, <3>7 DEF GoalOk
  <2> QED BY <2>1, <2>2, <2>3, <2>4
<1> QED BY <1>1 DEF GoalsOk

(* An inode that a process uses, or has made, is not about to be freed.    *)
LEMMA KeptIs ==
  ASSUME IInv, NEW p \in Procs, NEW i \in Inums,
         Holds(todo[p], i) + Has(todo[p], "new", i) > 0
  PROVE  Count(todo, "erase", i) = 0
<1>1. SUFFICES ASSUME Count(todo, "erase", i) # 0 PROVE FALSE
  OBVIOUS
<1>2. todo \in Todos /\ \A q \in Procs : todo[q] \in Seq(Instr)
  BY DEF IInv, TypesInv, Todos
<1>3. Count(todo, "erase", i) > 0
  BY <1>1, <1>2, CountSome
<1>4. itab[i].ref = 1
  BY <1>3 DEF IInv, InodesInv, InodeOk, EraseInv
<1>5. PICK q \in Procs : Has(todo[q], "erase", i) > 0
  BY <1>2, <1>3, CountSome
<1>6. Has(todo[q], "drop", i) > 0
  BY <1>2, <1>5, EraseDrops DEF IInv, TodoInv
<1>7. ASSUME NEW z \in Procs
      PROVE  /\ Total(todo[z], i) = Holds(todo[z], i) + Has(todo[z], "new", i)
                   + Has(todo[z], "drop", i)
             /\ Holds(todo[z], i) \in Nat /\ Has(todo[z], "new", i) \in Nat
             /\ Has(todo[z], "drop", i) \in Nat
  BY <1>2, SumsNat, MarksType DEF Total
<1>8. CASE p = q
  <2>1. Total(todo[p], i) >= 2
    BY <1>6, <1>7, <1>8
  <2>2. itab[i].ref >= Total(todo[p], i) + FilesOf(ftab, i)
        /\ FilesOf(ftab, i) \in Nat /\ Total(todo[p], i) \in Nat
    BY RefOne
  <2> QED BY <1>4, <2>1, <2>2
<1>9. CASE p # q
  <2>1. Total(todo[p], i) >= 1 /\ Total(todo[q], i) >= 1
    BY <1>6, <1>7
  <2>2. itab[i].ref >= Total(todo[p], i) + Total(todo[q], i) + FilesOf(ftab, i)
    BY <1>9, RefTwo
  <2>3. FilesOf(ftab, i) \in Nat /\ Total(todo[p], i) \in Nat /\ Total(todo[q], i) \in Nat
    BY RefOne
  <2> QED BY <1>4, <2>1, <2>2, <2>3
<1> QED BY <1>8, <1>9

(* An inode that somebody uses is not being freed.                         *)
LEMMA NotErased ==
  ASSUME IInv, NEW p \in Procs, NEW i \in Inums, Holds(todo[p], i) > 0
  PROVE  Count(todo, "erase", i) = 0
<1>1. todo[p] \in Seq(Instr)
  BY DEF IInv, TypesInv, Todos
<1>2. Has(todo[p], "new", i) \in Nat /\ Holds(todo[p], i) \in Nat
  BY <1>1, SumsNat, MarksType
<1>3. Holds(todo[p], i) + Has(todo[p], "new", i) > 0
  BY <1>2
<1> QED BY <1>3, KeptIs

(* An inode that a process uses, and may change the links of.              *)
Touched(s, t, i) ==
  /\ itab'[i].ref + Total(s, i) = itab[i].ref + Total(t, i)
  /\ itab'[i].valid = itab[i].valid
  /\ itab'[i].type = itab[i].type /\ dino'[i].type = dino[i].type
  /\ \/ dino'[i].nlink = dino[i].nlink /\ itab'[i].nlink = itab[i].nlink
     \/ dino'[i].nlink = itab'[i].nlink
  /\ dino'[i].nlink \in Nat
  /\ Holds(s, i) > 0
  /\ Has(t, "new", i) <= Has(s, "new", i)
  /\ Has(t, "erase", i) <= Has(s, "erase", i)
  /\ Has(t, "forget", i) = Has(s, "forget", i)
  /\ Has(t, "dir", i) > 0 => dino[i].type = "dir"
  /\ Has(t, "old", i) > 0 => dino[i].type = "file"
  /\ Cardinality(Links(dino', i)) + Has(t, "back", i) + Has(t, "old", i)
       + dino[i].nlink
     <= Cardinality(Links(dino, i)) + Has(s, "back", i) + Has(s, "old", i)
       + dino'[i].nlink

(* The invariant of an inode over such a step.                             *)
LEMMA TouchedInode ==
  ASSUME IInv, NEW p \in Procs, NEW t \in Seq(Instr),
         todo' = [todo EXCEPT ![p] = t], ftab' = ftab, lock' = lock,
         itab' \in [Inums -> SlotType], NEW i \in Inums, Touched(todo[p], t, i)
  PROVE  InodeOk(i)'
<1>0. TypesInv /\ todo \in Todos /\ todo[p] \in Seq(Instr) /\ InodeOk(i)
  BY DEF IInv, TypesInv, Todos, InodesInv
<1>1. PICK ue \in Todos : ue = todo' /\ ue = [todo EXCEPT ![p] = t]
  BY <1>0 DEF Todos
<1>2. dino[i].type # "free" /\ Count(todo, "new", i) = 0 /\ Count(todo, "erase", i) = 0
  BY HoldsIs, NotErased DEF Touched
<1>3. \A r : Replaced(todo, ue, p, t, r, i)
  BY <1>0, <1>1, CountStep
<1>4. \A r : /\ Count(ue, r, i) + Has(todo[p], r, i) = Count(todo, r, i) + Has(t, r, i)
             /\ Count(ue, r, i) \in Nat /\ Count(todo, r, i) \in Nat
             /\ Has(todo[p], r, i) \in Nat /\ Has(t, r, i) \in Nat
             /\ Has(todo[p], r, i) <= Count(todo, r, i)
  BY <1>3 DEF Replaced
<1>5. RefInv(i)'
  <2>1. RefInv(i) /\ itab[i].ref \in Nat /\ itab'[i].ref \in Nat
    BY <1>0 DEF InodeOk, TypesInv, SlotType
  <2>2. itab'[i].ref + Total(todo[p], i) = itab[i].ref + Total(t, i)
    BY DEF Touched
  <2> QED BY <1>0, <2>1, <2>2, RefStep
<1>6. Count(ue, "new", i) = 0 /\ Count(ue, "erase", i) = 0
  <2>1. /\ Has(t, "new", i) <= Has(todo[p], "new", i)
        /\ Has(t, "erase", i) <= Has(todo[p], "erase", i)
    BY DEF Touched
  <2> QED BY <1>2, <1>4, <2>1
<1>7. UsedInv(i)' /\ NewInv(i)' /\ EraseInv(i)'
  <2>1. dino'[i].type # "free"
    BY <1>2 DEF Touched
  <2> QED BY <1>1, <1>6, <2>1 DEF UsedInv, NewInv, EraseInv
<1>8. DirInv(i)'
  <2>1. Count(ue, "dir", i) > 0 => Count(todo, "dir", i) > 0 \/ Has(t, "dir", i) > 0
    BY <1>4
  <2>2. Count(ue, "dir", i) > 0 => dino[i].type = "dir"
    BY <1>0, <2>1 DEF Touched, InodeOk, DirInv
  <2> QED BY <1>1, <2>2 DEF DirInv, Touched
<1>9. OldInv(i)'
  <2>1. Count(ue, "old", i) > 0 => Count(todo, "old", i) > 0 \/ Has(t, "old", i) > 0
    BY <1>4
  <2>2. Count(ue, "old", i) > 0 => dino[i].type = "file"
    BY <1>0, <2>1 DEF Touched, InodeOk, OldInv
  <2> QED BY <1>1, <2>2 DEF OldInv, Touched
<1>10. ClaimInv(i)'
  <2>1. PICK l \in Nat, k \in Nat, m \in Nat, n \in Nat :
          /\ l = Cardinality(Links(dino, i)) /\ k = Cardinality(Links(dino', i))
          /\ m = dino[i].nlink /\ n = dino'[i].nlink
    BY LinksFinite DEF IInv, DiskInv, Tree, DiskType, Touched
  <2>2. PICK a1, b1, c1, d1 \in Nat :
           /\ a1 = Count(ue, "back", i) /\ b1 = Has(todo[p], "back", i)
           /\ c1 = Count(todo, "back", i) /\ d1 = Has(t, "back", i)
           /\ a1 + b1 = c1 + d1 /\ b1 <= c1
    <3>1. Replaced(todo, ue, p, t, "back", i)
      BY <1>3
    <3> QED BY ONLY <3>1, Figures
  <2>3. PICK a2, b2, c2, d2 \in Nat :
           /\ a2 = Count(ue, "old", i) /\ b2 = Has(todo[p], "old", i)
           /\ c2 = Count(todo, "old", i) /\ d2 = Has(t, "old", i)
           /\ a2 + b2 = c2 + d2 /\ b2 <= c2
    <3>1. Replaced(todo, ue, p, t, "old", i)
      BY <1>3
    <3> QED BY ONLY <3>1, Figures
  <2>4. l + c1 + c2 <= m
    BY <1>0, <2>1, <2>2, <2>3 DEF InodeOk, ClaimInv
  <2>5. k + d1 + d2 + m <= l + b1 + b2 + n
    BY <2>1, <2>2, <2>3 DEF Touched
  <2>6. a1 + b1 = c1 + d1 /\ a2 + b2 = c2 + d2
    BY <2>2, <2>3
  <2>7. k + a1 + a2 <= n
    BY ONLY <2>4, <2>5, <2>6
  <2> QED BY <1>1, <2>1, <2>2, <2>3, <2>7 DEF ClaimInv
<1>11. AgreeInv(i)'
  <2>1. Count(ue, "forget", i) = Count(todo, "forget", i)
    <3>1. Has(t, "forget", i) = Has(todo[p], "forget", i)
      BY DEF Touched
    <3> QED BY <1>4, <3>1
  <2> QED BY <1>0, <1>1, <2>1 DEF Touched, InodeOk, AgreeInv
<1>12. HeldInv(i)'
  BY <1>0 DEF Touched, InodeOk, HeldInv
<1> QED BY <1>5, <1>7, <1>8, <1>9, <1>10, <1>11, <1>12 DEF InodeOk

(* An inode that a step which changes others leaves as it is.              *)
Far(s, t, i) ==
  /\ itab'[i].ref + Total(s, i) = itab[i].ref + Total(t, i)
  /\ itab'[i].valid = itab[i].valid
  /\ itab'[i].type = itab[i].type /\ itab'[i].nlink = itab[i].nlink
  /\ dino'[i] = dino[i]
  /\ Cardinality(Links(dino', i)) <= Cardinality(Links(dino, i))
  /\ QuietHas(s, t, dino, i)
  /\ Holds(t, i) > 0 =>
       \/ Holds(s, i) > 0
       \/ dino[i].type # "free" /\ Count(todo, "new", i) = 0
  /\ itab'[i].ref = itab[i].ref \/ Count(todo, "erase", i) = 0

(* The invariant of an inode over such a step.                             *)
LEMMA FarInode ==
  ASSUME IInv, NEW p \in Procs, NEW t \in Seq(Instr),
         todo' = [todo EXCEPT ![p] = t], ftab' = ftab, lock' = lock,
         itab' \in [Inums -> SlotType], NEW i \in Inums, Far(todo[p], t, i)
  PROVE  InodeOk(i)'
<1>0. TypesInv /\ todo \in Todos /\ todo[p] \in Seq(Instr) /\ InodeOk(i)
  BY DEF IInv, TypesInv, Todos, InodesInv
<1>1. PICK ue \in Todos : ue = todo' /\ ue = [todo EXCEPT ![p] = t]
  BY <1>0 DEF Todos
<1>2. \A r : Replaced(todo, ue, p, t, r, i)
  BY <1>0, <1>1, CountStep
<1>3. \A r : Count(ue, r, i) \in Nat /\ Count(todo, r, i) \in Nat
  BY <1>2 DEF Replaced
<1>4. QuietMoved(todo, ue, dino, i)
  <2>1. QuietHas(todo[p], t, dino, i)
    BY DEF Far
  <2> QED BY <1>0, <1>1, <2>1, QuietFrom
<1>5. RefInv(i)'
  <2>1. RefInv(i) /\ itab[i].ref \in Nat /\ itab'[i].ref \in Nat
    BY <1>0 DEF InodeOk, TypesInv, SlotType
  <2>2. itab'[i].ref + Total(todo[p], i) = itab[i].ref + Total(t, i)
    BY DEF Far
  <2> QED BY <1>0, <2>1, <2>2, RefStep
<1>6. /\ Uses(todo, i) \in Nat /\ Uses(ue, i) \in Nat
      /\ FilesOf(ftab, i) \in Nat /\ FilesOf(ftab', i) = FilesOf(ftab, i)
  BY <1>0, UsesNat, FilesOfNat
<1>7. Uses(ue, i) + FilesOf(ftab', i) > 0 =>
         \/ Uses(todo, i) + FilesOf(ftab, i) > 0
         \/ dino[i].type # "free" /\ Count(todo, "new", i) = 0
  <2>1. SUFFICES ASSUME Uses(ue, i) + FilesOf(ftab', i) > 0,
                        ~(Uses(todo, i) + FilesOf(ftab, i) > 0)
                 PROVE  dino[i].type # "free" /\ Count(todo, "new", i) = 0
    OBVIOUS
  <2>2. Uses(todo, i) = 0 /\ Uses(ue, i) > 0
    BY ONLY <1>6, <2>1
  <2>3. Holds(t, i) > 0
    BY <1>0, <1>1, <2>2, UsesAfter
  <2>4. ~(Holds(todo[p], i) > 0)
    <3>1. UsesMoved(todo, ue, p, t, i)
      BY <1>0, <1>1, UsesStep
    <3>2. PICK u, h, v, k \in Nat :
         /\ u = Uses(ue, i) /\ h = Holds(todo[p], i)
         /\ v = Uses(todo, i) /\ k = Holds(t, i)
         /\ u + h = v + k /\ h <= v
      BY ONLY <3>1, UsesFigures
    <3>3. v = 0
      BY <2>2, <3>2
    <3>4. h = 0
      BY ONLY <3>2, <3>3
    <3> QED BY ONLY <3>2, <3>4
  <2> QED BY <2>3, <2>4 DEF Far
<1>70. /\ Count(ue, "new", i) <= Count(todo, "new", i)
       /\ Count(ue, "erase", i) <= Count(todo, "erase", i)
       /\ Count(ue, "dir", i) <= Count(todo, "dir", i) \/ dino[i].type = "dir"
       /\ Count(ue, "old", i) <= Count(todo, "old", i)
  BY <1>4 DEF QuietMoved, QuietCounts
<1>71. /\ Count(ue, "new", i) \in Nat /\ Count(todo, "new", i) \in Nat
       /\ Count(ue, "erase", i) \in Nat /\ Count(todo, "erase", i) \in Nat
       /\ Count(ue, "dir", i) \in Nat /\ Count(todo, "dir", i) \in Nat
       /\ Count(ue, "old", i) \in Nat /\ Count(todo, "old", i) \in Nat
  BY <1>3
<1>72. dino'[i] = dino[i] /\ ue = todo'
       /\ (itab'[i].ref = itab[i].ref \/ Count(todo, "erase", i) = 0)
  BY <1>1 DEF Far
<1>8. UsedInv(i)'
  <2>1. Uses(ue, i) + FilesOf(ftab', i) > 0 =>
          dino[i].type # "free" /\ Count(todo, "new", i) = 0
    BY <1>0, <1>7 DEF InodeOk, UsedInv
  <2>2. Count(todo, "new", i) = 0 => Count(ue, "new", i) = 0
    BY <1>70, <1>71
  <2> QED BY <1>72, <2>1, <2>2 DEF UsedInv
<1>9. NewInv(i)'
  <2>1. /\ Count(todo, "new", i) <= 1
        /\ Count(todo, "new", i) > 0 => dino[i].type # "free"
             /\ dino[i].nlink = 0 /\ dino[i].ents = NoEntries
    BY <1>0 DEF InodeOk, NewInv
  <2>2. Count(ue, "new", i) <= 1
        /\ (Count(ue, "new", i) > 0 => Count(todo, "new", i) > 0)
    BY <1>70, <1>71, <2>1
  <2> QED BY <1>72, <2>1, <2>2 DEF NewInv
<1>10. EraseInv(i)'
  <2>1. Count(todo, "erase", i) > 0 =>
          dino[i].type # "free" /\ dino[i].nlink = 0 /\ itab[i].ref = 1
    BY <1>0 DEF InodeOk, EraseInv
  <2>2. Count(ue, "erase", i) > 0 => Count(todo, "erase", i) > 0
    BY <1>70, <1>71
  <2> QED BY <1>71, <1>72, <2>1, <2>2 DEF EraseInv
<1>11. DirInv(i)' /\ OldInv(i)'
  <2>1. /\ Count(todo, "dir", i) > 0 => dino[i].type = "dir"
        /\ Count(todo, "old", i) > 0 => dino[i].type = "file"
    BY <1>0 DEF InodeOk, DirInv, OldInv
  <2>2. /\ Count(ue, "dir", i) > 0 => Count(todo, "dir", i) > 0 \/ dino[i].type = "dir"
        /\ Count(ue, "old", i) > 0 => Count(todo, "old", i) > 0
    BY <1>70, <1>71
  <2> QED BY <1>72, <2>1, <2>2 DEF DirInv, OldInv
<1>12. ClaimInv(i)'
  <2>1. PICK l \in Nat, k \in Nat, n \in Nat :
          /\ l = Cardinality(Links(dino, i)) /\ k = Cardinality(Links(dino', i))
          /\ n = dino[i].nlink /\ n = dino'[i].nlink /\ k <= l
    BY LinksFinite DEF IInv, DiskInv, Tree, DiskType, Far
  <2>2. PICK a, b, c, d \in Nat :
          /\ a = Count(todo, "back", i) /\ b = Count(todo, "old", i)
          /\ c = Count(ue, "back", i) /\ d = Count(ue, "old", i)
    BY <1>3
  <2>3. l + a + b <= n
    BY <1>0, <2>1, <2>2 DEF InodeOk, ClaimInv
  <2>4. c + d <= a + b
    BY <1>4, <2>2 DEF QuietMoved, QuietCounts
  <2>5. k + c + d <= n
    BY ONLY <2>1, <2>3, <2>4, l \in Nat, k \in Nat, n \in Nat, a \in Nat,
            b \in Nat, c \in Nat, d \in Nat
  <2> QED BY <1>1, <2>1, <2>2, <2>5 DEF ClaimInv
<1>13. AgreeInv(i)'
  BY <1>0, <1>1, <1>4 DEF Far, QuietMoved, InodeOk, AgreeInv
<1>14. HeldInv(i)'
  BY <1>0 DEF Far, InodeOk, HeldInv
<1> QED BY <1>5, <1>8, <1>9, <1>10, <1>11, <1>12, <1>13, <1>14 DEF InodeOk

(* An inode that the process has as much to do with as before.             *)
Apart(s, t, i) ==
  /\ \A r \in {"new", "erase", "forget", "dir", "old", "back"} :
       Has(t, r, i) = Has(s, r, i)
  /\ Holds(t, i) = Holds(s, i) /\ Total(t, i) = Total(s, i)
  /\ itab'[i] = itab[i] /\ dino'[i] = dino[i]
  /\ Links(dino', i) \subseteq Links(dino, i)

(* Such an inode is left alone if the counts say so.                       *)
LEMMA ApartFar ==
  ASSUME IInv, NEW s \in Seq(Instr), NEW t \in Seq(Instr), NEW i \in Inums,
         Apart(s, t, i)
  PROVE  Far(s, t, i)
<1>1. \A r : Has(s, r, i) \in Nat
  BY MarksType
<1>2. Has(t, "new", i) = Has(s, "new", i) /\ Has(t, "erase", i) = Has(s, "erase", i)
      /\ Has(t, "forget", i) = Has(s, "forget", i) /\ Has(t, "dir", i) = Has(s, "dir", i)
      /\ Has(t, "old", i) = Has(s, "old", i) /\ Has(t, "back", i) = Has(s, "back", i)
      /\ Has(s, "new", i) \in Nat /\ Has(s, "erase", i) \in Nat
      /\ Has(s, "forget", i) \in Nat /\ Has(s, "dir", i) \in Nat
      /\ Has(s, "old", i) \in Nat /\ Has(s, "back", i) \in Nat
  BY <1>1 DEF Apart
<1>3. QuietHas(s, t, dino, i)
  BY <1>2 DEF QuietHas
<1>4. Cardinality(Links(dino', i)) <= Cardinality(Links(dino, i))
  BY LinksLess DEF Apart
<1>5. /\ itab'[i].ref + Total(s, i) = itab[i].ref + Total(t, i)
      /\ Holds(t, i) = Holds(s, i) /\ itab'[i] = itab[i] /\ dino'[i] = dino[i]
  BY DEF Apart
<1> QED BY <1>3, <1>4, <1>5 DEF Far

(* A step of a call that changes directories.                              *)
LEMMA DiskStep ==
  ASSUME IInv, NEW p \in Procs, NEW t \in Seq(Instr),
         todo' = [todo EXCEPT ![p] = t], Elsewhere,
         Tree(dino'), Flat(dino'), itab' \in [Inums -> SlotType],
         WellFormed(t, HeldFile(p)), GoalsOk(dino', t),
         \A q \in Procs \ {p} : GoalsOk(dino', todo[q]),
         \A j \in Inums : Locking(t, j) <=> Locking(todo[p], j),
         \A i \in Inums : InodeOk(i)'
  PROVE  IInv'
<1>0. /\ TypesInv /\ DiskInv /\ TodoInv /\ LockInv /\ FileInv /\ GoalInv
      /\ lock \in [Inums -> Procs \cup {Nobody}]
      /\ UNCHANGED <<disk, ops, lock, ftab, fd, calls, scan, panic>>
  BY DEF IInv, TypesInv, Elsewhere
<1>1. todo' \in Todos /\ TodoInv' /\ LockInv' /\ FileInv'
  <2>1. \A j \in Inums : lock'[j] = p <=> Locking(t, j)
    BY <1>0 DEF LockInv
  <2>2. \A j \in Inums, q \in Procs \ {p} : lock'[j] = q <=> lock[j] = q
    BY <1>0
  <2>3. lock' \in [Inums -> Procs \cup {Nobody}] /\ ftab' = ftab /\ fd' = fd
    BY <1>0
  <2> QED BY <1>0, <2>1, <2>2, <2>3, LocalStep
<1>2. GoalInv'
  BY <1>0, GoalStep
<1>3. TypesInv'
  BY <1>0, <1>1 DEF TypesInv
<1>4. DiskInv'
  BY <1>0 DEF DiskInv
<1>5. NoPanic'
  BY <1>0 DEF IInv, NoPanic
<1> QED BY <1>1, <1>2, <1>3, <1>4, <1>5 DEF IInv, InodesInv

(* An inode that nobody uses.                                              *)
LEMMA UnusedIs ==
  ASSUME TypesInv, NEW i \in Inums, Uses(todo, i) = 0, Count(todo, "new", i) = 0
  PROVE  /\ \A q \in Procs : Holds(todo[q], i) = 0 /\ Has(todo[q], "new", i) = 0
         /\ \A r \in {"use", "back", "old", "dir"} : Count(todo, r, i) = 0
<1>1. todo \in Todos
  BY DEF TypesInv
<1>2. \A r \in {"use", "back", "old", "dir"} : Count(todo, r, i) = 0
  BY <1>1, UsesNat
<1>3. ASSUME NEW q \in Procs
      PROVE  Holds(todo[q], i) = 0 /\ Has(todo[q], "new", i) = 0
  <2>1. \A r : /\ Has(todo[q], r, i) \in Nat
               /\ Has(todo[q], r, i) <= Count(todo, r, i)
    BY <1>1, CountSome
  <2>2. /\ Has(todo[q], "use", i) = 0 /\ Has(todo[q], "back", i) = 0
        /\ Has(todo[q], "old", i) = 0 /\ Has(todo[q], "dir", i) = 0
        /\ Has(todo[q], "new", i) = 0
    <3>1. \A r \in {"use", "back", "old", "dir", "new"} : Has(todo[q], r, i) = 0
      BY <1>2, <2>1
    <3> QED BY <3>1
  <2> QED BY <2>2 DEF Holds
<1> QED BY <1>2, <1>3

(* A new inode is used, its owner having locked it.                        *)
Settled(s, t, i) ==
  /\ itab'[i].ref + Total(s, i) = itab[i].ref + Total(t, i)
  /\ itab'[i].valid = itab[i].valid
  /\ itab'[i].type = itab[i].type /\ dino'[i].type = dino[i].type
  /\ dino'[i].nlink = itab'[i].nlink
  /\ Has(s, "new", i) > 0 /\ Has(t, "new", i) = 0
  /\ \A r \in {"dir", "old", "back", "erase"} : Has(t, r, i) = 0
  /\ Has(t, "forget", i) = Has(s, "forget", i)
  /\ Cardinality(Links(dino', i)) <= dino'[i].nlink

(* The invariant of an inode over such a step.                             *)
LEMMA SettledInode ==
  ASSUME IInv, NEW p \in Procs, NEW t \in Seq(Instr),
         todo' = [todo EXCEPT ![p] = t], ftab' = ftab, lock' = lock,
         itab' \in [Inums -> SlotType], NEW i \in Inums, Settled(todo[p], t, i)
  PROVE  InodeOk(i)'
<1>0. TypesInv /\ todo \in Todos /\ todo[p] \in Seq(Instr) /\ InodeOk(i)
  BY DEF IInv, TypesInv, Todos, InodesInv
<1>1. PICK ue \in Todos : ue = todo' /\ ue = [todo EXCEPT ![p] = t]
  BY <1>0 DEF Todos
<1>2. \A r : Replaced(todo, ue, p, t, r, i)
  BY <1>0, <1>1, CountStep
<1>4. \A r : /\ Count(ue, r, i) + Has(todo[p], r, i) = Count(todo, r, i) + Has(t, r, i)
             /\ Count(ue, r, i) \in Nat /\ Count(todo, r, i) \in Nat
             /\ Has(todo[p], r, i) \in Nat /\ Has(t, r, i) \in Nat
             /\ Has(todo[p], r, i) <= Count(todo, r, i)
  BY <1>2 DEF Replaced
<1>a. /\ Has(todo[p], "new", i) > 0 /\ Has(t, "new", i) = 0
      /\ Has(t, "dir", i) = 0 /\ Has(t, "old", i) = 0
      /\ Has(t, "back", i) = 0 /\ Has(t, "erase", i) = 0
  BY DEF Settled
<1>b. /\ Count(ue, "new", i) + Has(todo[p], "new", i)
           = Count(todo, "new", i) + Has(t, "new", i)
      /\ Count(ue, "new", i) \in Nat /\ Count(todo, "new", i) \in Nat
      /\ Has(todo[p], "new", i) \in Nat /\ Has(t, "new", i) \in Nat
      /\ Has(todo[p], "new", i) <= Count(todo, "new", i)
  BY <1>4
<1>5. RefInv(i)'
  <2>1. RefInv(i) /\ itab[i].ref \in Nat /\ itab'[i].ref \in Nat
    BY <1>0 DEF InodeOk, TypesInv, SlotType
  <2>2. itab'[i].ref + Total(todo[p], i) = itab[i].ref + Total(t, i)
    BY DEF Settled
  <2> QED BY <1>0, <2>1, <2>2, RefStep
<1>6. Count(todo, "new", i) = 1 /\ Has(todo[p], "new", i) = 1
  <2>1. Count(todo, "new", i) <= 1
    BY <1>0 DEF InodeOk, NewInv
  <2> QED BY ONLY <1>a, <1>b, <2>1
<1>7. Count(ue, "new", i) = 0
  BY ONLY <1>a, <1>b, <1>6
<1>8. dino[i].type # "free"
  BY <1>0, <1>6 DEF InodeOk, NewInv
<1>9. Uses(todo, i) = 0
  <2>1. ~(Uses(todo, i) + FilesOf(ftab, i) > 0)
    BY <1>0, <1>6 DEF InodeOk, UsedInv
  <2> QED BY <1>0, <2>1, UsesNat, FilesOfNat
<1>10. Count(todo, "erase", i) = 0
  <2>1. Holds(todo[p], i) + Has(todo[p], "new", i) > 0
    BY <1>0, <1>6, SumsNat
  <2> QED BY <2>1, KeptIs
<1>11. \A r \in {"dir", "old", "back", "erase"} : Count(ue, r, i) = 0
  <2>1. \A r \in {"dir", "old", "back"} : Count(todo, r, i) = 0
    BY <1>0, <1>9, UsesNat
  <2>2. ASSUME NEW r \in {"dir", "old", "back", "erase"}
        PROVE  Count(ue, r, i) = 0
    <3>1. Count(todo, r, i) = 0
      BY <1>10, <2>1, <2>2
    <3>2. Has(t, r, i) = 0
      BY <1>a, <2>2
    <3>3. Replaced(todo, ue, p, t, r, i)
      BY <1>2
    <3>4. PICK a, b, c, d \in Nat :
           /\ a = Count(ue, r, i) /\ b = Has(todo[p], r, i)
           /\ c = Count(todo, r, i) /\ d = Has(t, r, i)
           /\ a + b = c + d /\ b <= c
      BY ONLY <3>3, Figures
    <3>5. c = 0 /\ d = 0
      BY <3>1, <3>2, <3>4
    <3>6. a = 0
      BY ONLY <3>4, <3>5, a \in Nat, b \in Nat
    <3> QED BY <3>4, <3>6
  <2> QED BY <2>2
<1>12. /\ Count(ue, "dir", i) = 0 /\ Count(ue, "old", i) = 0
       /\ Count(ue, "back", i) = 0 /\ Count(ue, "erase", i) = 0
  BY <1>11
<1>13. dino'[i].type # "free"
  BY <1>8 DEF Settled
<1>14. UsedInv(i)' /\ NewInv(i)' /\ EraseInv(i)' /\ DirInv(i)' /\ OldInv(i)'
  BY <1>1, <1>7, <1>12, <1>13 DEF UsedInv, NewInv, EraseInv, DirInv, OldInv
<1>15. ClaimInv(i)'
  <2>1. Cardinality(Links(dino', i)) <= dino'[i].nlink
        /\ Cardinality(Links(dino', i)) \in Nat
    BY LinksFinite DEF Settled
  <2>2. Cardinality(Links(dino', i)) + 0 + 0 <= dino'[i].nlink
    BY <2>1
  <2> QED BY <1>1, <1>12, <2>2 DEF ClaimInv
<1>16. AgreeInv(i)'
  <2>1. Count(ue, "forget", i) = Count(todo, "forget", i)
    <3>1. Has(t, "forget", i) = Has(todo[p], "forget", i)
      BY DEF Settled
    <3> QED BY <1>4, <3>1
  <2> QED BY <1>0, <1>1, <1>13, <2>1 DEF Settled, InodeOk, AgreeInv
<1>17. HeldInv(i)'
  BY <1>0 DEF Settled, InodeOk, HeldInv
<1> QED BY <1>5, <1>14, <1>15, <1>16, <1>17 DEF InodeOk

(* itrunc() and ip->type = 0.                                              *)
LEMMA EraseInode ==
  ASSUME IInv, NEW p \in Procs, Erase(p) PROVE IInv'
<1>1. PICK x \in Instr, s \in Seq(Instr) :
           /\ todo[p] = Cons(x, s) /\ It(p) = x /\ x.do = "erase"
           /\ Tail(todo[p]) = s
           /\ Ok(x, s, HeldFile(p)) /\ WellFormed(s, HeldFile(p))
           /\ GoalOk(dino, x) /\ GoalsOk(dino, s)
  BY HeadIs DEF IInv, Erase
<1>2. PICK i \in Inums : i = x.ip
  BY <1>1, InstrFields DEF IpOps
<1>3. /\ Locking(s, i) /\ Has(s, "drop", i) > 0 /\ Has(s, "forget", i) > 0
      /\ Has(s, "erase", i) = 0
  BY <1>1, <1>2 DEF Ok, OfErase
<1>4. TypesInv /\ todo \in Todos /\ InodeOk(i) /\ Tree(dino) /\ Flat(dino)
      /\ itab \in [Inums -> SlotType]
  BY DEF IInv, TypesInv, InodesInv, DiskInv
<1>5. /\ todo' = [todo EXCEPT ![p] = s] /\ Elsewhere
      /\ dino' = [dino EXCEPT ![i] = FreeInode]
      /\ itab' = [itab EXCEPT ![i].type = "free"]
  <2>1. <<>> \o s = s
    BY <1>1, ConsConcat
  <2> QED BY <1>1, <1>2, <2>1 DEF Erase, Then
<1>6. PICK ue \in Todos : ue = todo' /\ ue = [todo EXCEPT ![p] = s]
  BY <1>4, <1>5 DEF Todos
<1>7. \A r, j : Replaced(todo, ue, p, s, r, j)
  BY <1>4, <1>6, CountStep

(* What x counts for.                                                      *)
<1>8. ASSUME NEW r \in Roles, NEW j \in Inums, j # i \/ r # "erase"
      PROVE  Weight(x, r, j) = 0
  <2>1. ~Plays(x, r, j)
    BY <1>1, <1>2, <1>8 DEF Plays, UseOps, NewOps, DirOps
  <2> QED BY <2>1 DEF Weight
<1>9. ASSUME NEW r \in Roles, NEW j \in Inums, j # i \/ r # "erase"
      PROVE  Has(todo[p], r, j) = Has(s, r, j) /\ Has(s, r, j) \in Nat
  <2>1. Has(Cons(x, s), r, j) = Has(s, r, j) + Weight(x, r, j) /\ Has(s, r, j) \in Nat
    BY PopIs
  <2> QED BY <1>1, <1>8, <1>9, <2>1
<1>10. ASSUME NEW j \in Inums
       PROVE  Holds(todo[p], j) = Holds(s, j) /\ Total(todo[p], j) = Total(s, j)
  BY <1>9 DEF Holds, Total, Roles

(* The inode has one reference, that of the end of iput().                 *)
<1>11. Count(todo, "erase", i) > 0
  <2>1. Weight(x, "erase", i) = 1
    BY <1>1, <1>2 DEF Weight, Plays
  <2>2. Has(todo[p], "erase", i) > 0
    <3>1. Has(Cons(x, s), "erase", i) = Has(s, "erase", i) + Weight(x, "erase", i)
      BY ConsHas
    <3> QED BY <1>1, <1>3, <2>1, <3>1
  <2> QED BY <1>4, <2>2, CountSome
<1>12. dino[i].type # "free" /\ dino[i].nlink = 0 /\ itab[i].ref = 1
  BY <1>4, <1>11 DEF InodeOk, EraseInv
<1>13. Has(todo[p], "drop", i) > 0 /\ Has(todo[p], "drop", i) \in Nat
  BY <1>3, <1>9 DEF Roles
<1>14. /\ Uses(todo, i) = 0 /\ Count(todo, "new", i) = 0 /\ FilesOf(ftab, i) = 0
       /\ Count(todo, "drop", i) = 1
  <2>1. PICK u \in Nat, n \in Nat, d \in Nat, f \in Nat :
          /\ u = Uses(todo, i) /\ n = Count(todo, "new", i)
          /\ d = Count(todo, "drop", i) /\ f = FilesOf(ftab, i)
    BY <1>4, UsesNat, FilesOfNat
  <2>2. d > 0
    <3>1. Has(todo[p], "drop", i) <= Count(todo, "drop", i)
      BY <1>4, CountSome
    <3> QED BY <1>13, <2>1, <3>1
  <2>3. u + n + d + f = 1
    BY <1>4, <1>12, <2>1 DEF InodeOk, RefInv
  <2> QED BY <2>1, <2>2, <2>3, SMTT(40)
<1>15. /\ \A q \in Procs : Holds(todo[q], i) = 0 /\ Has(todo[q], "new", i) = 0
       /\ \A r \in {"use", "back", "old", "dir"} : Count(todo, r, i) = 0
  BY <1>4, <1>14, UnusedIs
<1>16. Count(ue, "erase", i) = 0
  <2>1. SUFFICES ASSUME Count(ue, "erase", i) > 0 PROVE FALSE
    BY <1>6, CountSome
  <2>2. PICK q \in Procs : Has(ue[q], "erase", i) > 0
    BY <1>6, <2>1, CountSome
  <2>3. q # p
    <3>1. ue[p] = s
      BY <1>4, <1>6 DEF Todos
    <3> QED BY <1>3, <2>2, <3>1
  <2>4. Has(todo[q], "erase", i) > 0
    <3>1. ue[q] = todo[q]
      BY <1>4, <1>6, <2>3 DEF Todos
    <3> QED BY <2>2, <3>1
  <2>5. Has(todo[q], "drop", i) > 0
    <3>1. todo[q] \in Seq(Instr) /\ WellFormed(todo[q], HeldFile(q))
      BY <1>4 DEF Todos, IInv, TodoInv
    <3> QED BY <2>4, <3>1, EraseDrops
  <2>6. Count(todo, "drop", i) >= Has(todo[p], "drop", i) + Has(todo[q], "drop", i)
    BY <1>4, <2>3, CountTwo
  <2>7. Has(todo[q], "drop", i) \in Nat
    BY <1>4, CountSome
  <2> QED BY <1>13, <1>14, <2>5, <2>6, <2>7
<1>17. Count(ue, "forget", i) > 0
  <2>1. ue[p] = s
    BY <1>4, <1>6 DEF Todos
  <2>2. Has(ue[p], "forget", i) <= Count(ue, "forget", i)
        /\ Has(ue[p], "forget", i) \in Nat /\ Count(ue, "forget", i) \in Nat
    BY <1>6, CountSome
  <2> QED BY <1>3, <2>1, <2>2

(* The disk, and the slot.                                                 *)
<1>18. /\ FreeInode \in InodeType /\ FreeInode.nlink = 0 /\ FreeInode.type = "free"
       /\ FreeInode.ents = NoEntries /\ \A n \in Entries : FreeInode.ents[n] = 0
  BY DirNames DEF FreeInode, InodeType, NoEntries, Types
<1>19. Tree(dino') /\ Retyped(dino, dino', i)
  <2>1. \A n \in Names : FreeInode.ents[n] = 0
    BY <1>18, DirNames
  <2>2. FreeInode.nlink > 0 => /\ FreeInode.type # "free"
                                /\ FreeInode.type = "dir" => FreeInode.ents[".."] # 0
    BY <1>18
  <2>3. FreeInode.type # "dir" => FreeInode.ents = NoEntries
    BY <1>18
  <2>4. PICK r \in InodeType : r = FreeInode
    BY <1>18
  <2>5. Tree(dino) /\ dino[i].nlink = 0 /\ dino' = [dino EXCEPT ![i] = r]
    BY <1>4, <1>5, <1>12, <2>4
  <2>6. /\ \A n \in Names : r.ents[n] = 0
        /\ r.nlink > 0 => r.type # "free" /\ (r.type = "dir" => r.ents[".."] # 0)
        /\ r.type # "dir" => r.ents = NoEntries
    <3>1. /\ r.nlink = 0 /\ r.type = "free" /\ r.ents = NoEntries
          /\ \A n \in Names : r.ents[n] = 0
      BY ONLY <1>18, <2>1, <2>4
    <3> QED BY ONLY <3>1
  <2> QED BY ONLY <2>5, <2>6, i \in Inums, r \in InodeType, UnlinkedTree
<1>20. dino'[i] = FreeInode /\ \A j \in Inums \ {i} : dino'[j] = dino[j]
  BY <1>4, <1>5, TreeIs
<1>21. Flat(dino')
  <2>1. dino'[i].ents[".."] \in {0, ROOTINO}
    BY <1>18, <1>20, DirNames
  <2> QED BY <1>4, <1>20, <2>1, RetypedFlat
<1>22. /\ itab' \in [Inums -> SlotType]
       /\ \A j \in Inums \ {i} : itab'[j] = itab[j]
       /\ itab'[i].ref = itab[i].ref /\ itab'[i].valid = itab[i].valid
  <2>1. PICK slot : slot = [itab[i] EXCEPT !.type = "free"]
    OBVIOUS
  <2>2. slot \in SlotType /\ slot.ref = itab[i].ref /\ slot.valid = itab[i].valid
    BY <1>4, <2>1 DEF SlotType, Types
  <2>3. itab' = [itab EXCEPT ![i] = slot]
    BY <1>5, <2>1
  <2> QED BY <1>4, <2>2, <2>3
<1>23. GoalsOk(dino', s) /\ \A q \in Procs \ {p} : GoalsOk(dino', todo[q])
  <2>1. \A j \in Inums \ {i} : dino'[j].ents = dino[j].ents /\ dino'[j].type = dino[j].type
    BY <1>20
  <2>2. GoalsKept(dino, dino', s, i)
    <3>1. Holds(s, i) = 0 /\ Has(s, "new", i) = 0
      BY <1>9, <1>10, <1>15 DEF Roles
    <3> QED BY <3>1 DEF GoalsKept
  <2>3. ASSUME NEW q \in Procs \ {p} PROVE GoalsOk(dino', todo[q])
    <3>1. GoalsKept(dino, dino', todo[q], i)
      BY <1>15 DEF GoalsKept
    <3>2. todo[q] \in Seq(Instr) /\ GoalsOk(dino, todo[q])
      BY <1>4 DEF Todos, IInv, GoalInv
    <3> QED BY <2>1, <3>1, <3>2, GoalsStay
  <2> QED BY <1>1, <2>1, <2>2, <2>3, GoalsStay
<1>24. \A j \in Inums : Locking(s, j) <=> Locking(todo[p], j)
  <2>1. \A j \in Inums : Needs(x, j) => j = i
    BY <1>1, <1>2 DEF Needs, NewOps, DirOps
  <2>2. \A j : x # On("lock", j)
    BY <1>1 DEF On
  <2> QED BY <1>1, <1>3, <2>1, <2>2, ConsLocking
<1>25. lock' = lock /\ ftab' = ftab
  BY <1>5 DEF Elsewhere
<1>26. ASSUME NEW j \in Inums, j # i PROVE InodeOk(j)'
  <2>1. Apart(todo[p], s, j)
    <3>1. \A r \in {"new", "erase", "forget", "dir", "old", "back"} :
            Has(s, r, j) = Has(todo[p], r, j)
      BY <1>9, <1>26 DEF Roles
    <3>2. Links(dino', j) \subseteq Links(dino, j)
      BY <1>19 DEF Retyped
    <3> QED BY <1>10, <1>20, <1>22, <1>26, <3>1, <3>2 DEF Apart
  <2>2. Far(todo[p], s, j)
    BY <1>4, <2>1, ApartFar DEF Todos
  <2> QED BY <1>5, <1>22, <1>25, <2>2, FarInode
<1>27. InodeOk(i)'
  <2>1. \A r \in Roles \ {"erase"} : Count(ue, r, i) = Count(todo, r, i)
    <3>1. ASSUME NEW r \in Roles \ {"erase"} PROVE Count(ue, r, i) = Count(todo, r, i)
      <4>1. Has(todo[p], r, i) = Has(s, r, i)
        BY <1>9, <3>1
      <4>2. Replaced(todo, ue, p, s, r, i)
        BY <1>7
      <4>3. PICK a, b, c, d \in Nat :
           /\ a = Count(ue, r, i) /\ b = Has(todo[p], r, i)
           /\ c = Count(todo, r, i) /\ d = Has(s, r, i)
           /\ a + b = c + d /\ b <= c
        BY ONLY <4>2, Figures
      <4>4. b = d
        BY <4>1, <4>3
      <4>5. a = c
        BY ONLY <4>3, <4>4
      <4> QED BY <4>3, <4>5
    <3> QED BY <3>1
  <2>2. /\ Count(ue, "use", i) = 0 /\ Count(ue, "back", i) = 0
        /\ Count(ue, "old", i) = 0 /\ Count(ue, "dir", i) = 0
        /\ Count(ue, "new", i) = 0 /\ Count(ue, "drop", i) = 1
    BY <1>14, <1>15, <2>1 DEF Roles
  <2>3. Uses(ue, i) = 0
    BY <2>2 DEF Uses
  <2>4. FilesOf(ftab', i) = 0
    BY <1>14, <1>25
  <2>5. RefInv(i)'
    BY <1>6, <1>12, <1>22, <2>2, <2>3, <2>4 DEF RefInv
  <2>6. UsedInv(i)' /\ NewInv(i)' /\ EraseInv(i)' /\ DirInv(i)' /\ OldInv(i)'
    BY <1>6, <1>16, <2>2, <2>3, <2>4 DEF UsedInv, NewInv, EraseInv, DirInv,
       OldInv
  <2>7. ClaimInv(i)'
    <3>1. Links(dino, i) = {}
      BY <1>4, <1>12, UnlinkedIs
    <3>2. Links(dino', i) = {}
      BY <1>19, <3>1 DEF Retyped
    <3>3. Cardinality(Links(dino', i)) = 0
      BY <3>2, FS_EmptySet
    <3>4. dino'[i].nlink = 0
      BY <1>18, <1>20
    <3> QED BY <1>6, <2>2, <3>3, <3>4 DEF ClaimInv
  <2>8. AgreeInv(i)'
    BY <1>6, <1>17 DEF AgreeInv
  <2>9. HeldInv(i)'
    BY <1>4, <1>22, <1>25 DEF InodeOk, HeldInv
  <2> QED BY <2>5, <2>6, <2>7, <2>8, <2>9 DEF InodeOk
<1>28. \A j \in Inums : InodeOk(j)'
  BY <1>26, <1>27
<1> QED BY <1>1, <1>5, <1>19, <1>21, <1>22, <1>23, <1>24, <1>28, DiskStep

(* ip->nlink = n, in the slot.                                             *)
SlotMoved(old, new, i, n) ==
  /\ new \in [Inums -> SlotType]
  /\ \A j \in Inums \ {i} : new[j] = old[j]
  /\ new[i].ref = old[i].ref /\ new[i].valid = old[i].valid
  /\ new[i].type = old[i].type /\ new[i].nlink = n

(* What EXCEPT makes of the table.                                         *)
LEMMA SlotNlink ==
  ASSUME NEW old \in [Inums -> SlotType], NEW i \in Inums, NEW n \in Nat,
         NEW new, new = [old EXCEPT ![i].nlink = n]
  PROVE  SlotMoved(old, new, i, n)
<1>1. PICK slot : slot = [old[i] EXCEPT !.nlink = n]
  OBVIOUS
<1>2. /\ slot \in SlotType /\ slot.ref = old[i].ref /\ slot.valid = old[i].valid
      /\ slot.type = old[i].type /\ slot.nlink = n
  BY <1>1 DEF SlotType
<1>3. new = [old EXCEPT ![i] = slot]
  BY <1>1
<1> QED BY <1>2, <1>3 DEF SlotMoved

(* What others have found stays, but for a directory that p has locked.    *)
SameShape(d, e, i) ==
  /\ \A j \in Inums \ {i} : e[j].ents = d[j].ents /\ e[j].type = d[j].type
  /\ e[i].type = d[i].type
  /\ d[i].ents[".."] # 0 => e[i].ents[".."] # 0

(* Because a process that has found a name has its directory locked.       *)
LEMMA OthersStay ==
  ASSUME IInv, NEW p \in Procs, NEW q \in Procs \ {p}, NEW i \in Inums,
         lock[i] = p, NEW d, NEW e, GoalsOk(d, todo[q]), SameShape(d, e, i)
  PROVE  GoalsOk(e, todo[q])
<1>1. todo \in Todos /\ todo[q] \in Seq(Instr)
  BY DEF IInv, TypesInv, Todos
<1>2. Has(todo[q], "pair", i) = 0
  <2>1. SUFFICES ASSUME Has(todo[q], "pair", i) > 0 PROVE FALSE
    BY <1>1, MarksType
  <2>2. WellFormed(todo[q], HeldFile(q))
    BY DEF IInv, TodoInv
  <2>3. Locking(todo[q], i)
    BY <1>1, <2>1, <2>2, RoleLocks
  <2>4. lock[i] = q
    BY <2>3 DEF IInv, LockInv
  <2> QED BY <2>4
<1>3. GoalsKept(d, e, todo[q], i)
  BY <1>2 DEF GoalsKept, SameShape
<1>4. \A j \in Inums \ {i} : e[j].ents = d[j].ents /\ e[j].type = d[j].type
  BY DEF SameShape
<1> QED BY <1>1, <1>3, <1>4, GoalsStay

(* One link less.                                                          *)
LEMMA TakeBackInv ==
  ASSUME IInv, NEW p \in Procs, TakeBack(p) PROVE IInv'
<1>1. Ready(p, "takeback")
  BY DEF TakeBack
<1>2. PICK x \in Instr :
           /\ It(p) = x /\ x.do = "takeback" /\ todo[p] = LastT(x)
           /\ Tail(todo[p]) = EndOp /\ Static(x) /\ GoalOk(dino, x)
           /\ \A j \in Inums : Needs(x, j) => Held(p, j)
  BY <1>1, MiddleIs DEF Middle
<1>3. PICK i \in Inums : i = x.ip
  BY <1>2, InstrFields DEF IpOps
<1>4. TypesInv /\ todo \in Todos /\ InodeOk(i) /\ Tree(dino) /\ Flat(dino)
      /\ itab \in [Inums -> SlotType] /\ todo[p] \in Seq(Instr)
  BY DEF IInv, TypesInv, InodesInv, DiskInv, Todos
<1>5. PICK t \in Seq(Instr) : t = DoneT(i, EndOp)
  BY DoneEnd
<1>6. /\ \A j : Locking(t, j) <=> j = i
      /\ \A r \in Roles \ {"use"} : \A j : Has(t, r, j) = 0
      /\ WellFormed(t, HeldFile(p))
      /\ \A d : GoalsOk(d, t)
      /\ \A j : Holds(t, j) = Is(i, j) /\ Total(t, j) = Is(i, j)
  BY <1>5, DoneEnd
<1>7. /\ SetNlink(i, itab[i].nlink - 1) /\ Then(p, iunlockput(i)) /\ Elsewhere
  BY <1>2, <1>3 DEF TakeBack
<1>8. todo' = [todo EXCEPT ![p] = t]
  <2>1. iunlockput(i) \o EndOp = DoneT(i, EndOp)
    BY EndIs, Written
  <2> QED BY <1>2, <1>5, <1>7, <2>1 DEF Then
<1>9. Held(p, i) /\ Needs(x, i) /\ \A j \in Inums : Needs(x, j) => j = i
  BY <1>2, <1>3 DEF Needs, NewOps, DirOps

(* What the process had, and has.                                          *)
<1>10. x.do \in Middle
  BY <1>2 DEF Middle
<1>11. ASSUME NEW j \in Inums
       PROVE  /\ Holds(todo[p], j) = Is(i, j) /\ Total(todo[p], j) = Is(i, j)
              /\ Has(todo[p], "back", j) = Is(i, j)
              /\ \A r \in Roles \ {"back"} : Has(todo[p], r, j) = 0
  <2>1. Holds(LastT(x), j) = Is(i, j) /\ Total(LastT(x), j) = Is(i, j)
    BY <1>2, <1>3, <1>10, LastSums
  <2>2. \A r : Has(LastT(x), r, j) = Weight(x, r, j)
    BY <1>2, <1>10, LastIs
  <2>3. /\ Weight(x, "back", j) = Is(i, j)
        /\ \A r \in Roles \ {"back"} : Weight(x, r, j) = 0
    BY <1>2, <1>3, Weights
  <2> QED BY <1>2, <2>1, <2>2, <2>3

(* The inode has a link to take back.                                      *)
<1>12. PICK l \in Nat, n \in Nat :
         /\ l = Cardinality(Links(dino, i)) /\ n = dino[i].nlink /\ l + 1 <= n
  <2>1. PICK l \in Nat, n \in Nat, b \in Nat, o \in Nat, h \in Nat :
          /\ l = Cardinality(Links(dino, i)) /\ n = dino[i].nlink
          /\ b = Count(todo, "back", i) /\ o = Count(todo, "old", i)
          /\ h = Has(todo[p], "back", i) /\ h <= b
    BY <1>4, LinksFinite, CountSome, TreeIs
  <2>2. h = 1
    BY <1>11, <2>1 DEF Is
  <2>3. l + b + o <= n
    BY <1>4, <2>1 DEF InodeOk, ClaimInv
  <2>4. l + 1 <= n
    BY ONLY <2>1, <2>2, <2>3, l \in Nat, b \in Nat, o \in Nat, n \in Nat
  <2> QED BY <2>1, <2>4
<1>13. PICK m \in Nat : m = n - 1
  BY <1>12
<1>14. /\ itab' = [itab EXCEPT ![i].nlink = m]
       /\ dino' = [dino EXCEPT ![i].nlink = m]
  <2>1. itab[i].nlink - 1 = m
    BY <1>9, <1>12, <1>13 DEF Held
  <2> QED BY <1>7, <2>1 DEF SetNlink
<1>15. SlotMoved(itab, itab', i, m)
  BY <1>4, <1>14, SlotNlink
<1>16. Relinked(dino, dino', i, m)
  BY <1>4, <1>14, NlinkIs
<1>17. Tree(dino') /\ Flat(dino')
  <2>1. Holds(todo[p], i) > 0
    BY <1>11 DEF Is
  <2>2. dino[i].type # "free"
    BY <2>1, HoldsIs
  <2>3. Cardinality(Links(dino, i)) <= m /\ m <= dino[i].nlink
    BY <1>12, <1>13
  <2> QED BY <1>4, <1>14, <2>2, <2>3, NlinkTree
<1>18. \A j \in Inums : dino'[j].ents = dino[j].ents /\ dino'[j].type = dino[j].type
  BY <1>16 DEF Relinked
<1>19. ASSUME NEW q \in Procs \ {p} PROVE GoalsOk(dino', todo[q])
  <2>1. GoalsOk(dino, todo[q])
    BY DEF IInv, GoalInv
  <2>2. lock[i] = p
    BY <1>9 DEF Held
  <2>3. SameShape(dino, dino', i)
    BY <1>18 DEF SameShape
  <2> QED BY <2>1, <2>2, <2>3, OthersStay
<1>20. lock' = lock /\ ftab' = ftab
  BY <1>7 DEF Elsewhere
<1>21. \A j \in Inums : Locking(t, j) <=> Locking(todo[p], j)
  <2>1. \A j : Locking(LastT(x), j) <=> Needs(x, j)
    BY <1>2, <1>10, LastIs
  <2> QED BY <1>2, <1>6, <1>9, <2>1
<1>22. itab' \in [Inums -> SlotType]
  BY <1>15 DEF SlotMoved
<1>23. ASSUME NEW j \in Inums, j # i PROVE InodeOk(j)'
  <2>1. Apart(todo[p], t, j)
    <3>1. Is(i, j) = 0
      BY <1>23 DEF Is
    <3>2. \A r \in {"new", "erase", "forget", "dir", "old", "back"} :
            Has(t, r, j) = Has(todo[p], r, j)
      BY <1>6, <1>11, <3>1 DEF Roles
    <3>3. Links(dino', j) \subseteq Links(dino, j)
      BY <1>16 DEF Relinked
    <3>4. itab'[j] = itab[j] /\ dino'[j] = dino[j]
      BY <1>15, <1>16, <1>23 DEF SlotMoved, Relinked
    <3> QED BY <1>6, <1>11, <3>2, <3>3, <3>4 DEF Apart
  <2>2. Far(todo[p], t, j)
    BY <1>4, <2>1, ApartFar
  <2> QED BY <1>8, <1>20, <1>22, <2>2, FarInode
<1>24. InodeOk(i)'
  <2>1. itab[i].ref \in Nat
    BY <1>4 DEF SlotType
  <2>2. Is(i, i) = 1
    BY DEF Is
  <2>3. /\ Holds(todo[p], i) = 1 /\ Total(todo[p], i) = 1
        /\ Has(todo[p], "back", i) = 1 /\ Has(todo[p], "old", i) = 0
        /\ Has(todo[p], "new", i) = 0 /\ Has(todo[p], "erase", i) = 0
        /\ Has(todo[p], "forget", i) = 0
    BY <1>11, <2>2 DEF Roles
  <2>4. /\ Holds(t, i) = 1 /\ Total(t, i) = 1
        /\ Has(t, "back", i) = 0 /\ Has(t, "old", i) = 0 /\ Has(t, "dir", i) = 0
        /\ Has(t, "new", i) = 0 /\ Has(t, "erase", i) = 0
        /\ Has(t, "forget", i) = 0
    BY <1>6, <2>2 DEF Roles
  <2>5. /\ itab'[i].ref = itab[i].ref /\ itab'[i].valid = itab[i].valid
        /\ itab'[i].type = itab[i].type /\ itab'[i].nlink = m
        /\ dino'[i].type = dino[i].type /\ dino'[i].nlink = m
        /\ Links(dino', i) = Links(dino, i)
    BY <1>15, <1>16 DEF SlotMoved, Relinked
  <2>6. Cardinality(Links(dino', i)) + 0 + 0 + n <= l + 1 + 0 + m
    BY <1>12, <1>13, <2>5
  <2>7. Touched(todo[p], t, i)
    <3>1. Cardinality(Links(dino', i)) + Has(t, "back", i) + Has(t, "old", i)
            + dino[i].nlink
          <= Cardinality(Links(dino, i)) + Has(todo[p], "back", i)
            + Has(todo[p], "old", i) + dino'[i].nlink
      BY <1>12, <2>3, <2>4, <2>5, <2>6
    <3> QED BY <2>1, <2>3, <2>4, <2>5, <3>1 DEF Touched
  <2> QED BY <1>8, <1>20, <1>22, <2>7, TouchedInode
<1>25. \A j \in Inums : InodeOk(j)'
  BY <1>23, <1>24
<1> QED BY <1>6, <1>7, <1>8, <1>17, <1>19, <1>21, <1>22, <1>25, DiskStep

-----------------------------------------------------------------------------
(* Steps that change the disk.                                             *)

(* iunlock() of i, and a walk with the goal to make a name for it.         *)
WalkFor(t, i, w, new) ==
  /\ (<<On("unlock", i)>> \o new) \o EndOp = t
  /\ \A j \in Inums : Locking(t, j) <=> j = i
  /\ \A F : WellFormed(t, F)
  /\ \A d : GoalOk(d, w) => GoalsOk(d, t)
  /\ \A r \in Roles : \A j : Has(t, r, j) = Weight(w, r, j)
  /\ \A j : Holds(t, j) = Is(ROOTINO, j) + Is(i, j)
  /\ \A j : Total(t, j) = Is(ROOTINO, j) + Is(i, j)

(* There is a list that does that.                                         *)
LEMMA WalkPick ==
  ASSUME NEW i \in Inums, NEW w \in Looks, w.ip = ROOTINO, w.goal.ip = i,
         Static(w), \A j : Needs(w, j) <=> j = ROOTINO,
         NEW new, new = <<On("lock", ROOTINO), w>>
  PROVE  \E t \in Seq(Instr) : WalkFor(t, i, w, new)
<1>1. w \in Instr /\ w.do = "look" /\ ROOTINO \in Inums
  BY LookFields, DirNames
<1>2. w.do \in Middle \ {"remove", "fill"}
  BY <1>1 DEF Middle
<1>3. Plays(w, "use", ROOTINO) /\ Plays(w, "old", i)
  BY <1>1 DEF Plays, UseOps
<1>4. PICK s \in Seq(Instr) : s = LockT(ROOTINO, LastT(w)) /\ LockFor(s, w)
  <2>1. \E r \in {"use", "back", "old", "dir", "new"} : Plays(w, r, ROOTINO)
    BY <1>3
  <2>2. \A j \in Inums : Needs(w, j) <=> j = ROOTINO
    OBVIOUS
  <2> QED BY <1>1, <1>2, <2>1, <2>2, LockPick
<1>5. PICK t \in Seq(Instr) : t = UnlockT(i, s)
  BY UnlockIs
<1>6. OfUnlock(On("unlock", i), s, {})
  <2>1. Has(s, "old", i) = 1
    BY <1>3, <1>4 DEF LockFor, Roles, Weight
  <2>2. Keeps(s, i)
    BY <2>1 DEF Keeps
  <2>3. On("unlock", i).ip = i
    BY DEF On
  <2>4. ~Locking(s, i)
    BY <1>4 DEF LockFor
  <2> QED BY <2>2, <2>3, <2>4 DEF OfUnlock
<1>7. \A F : WellFormed(t, F)
  <2>1. ASSUME NEW F PROVE WellFormed(t, F)
    <3>1. OfUnlock(On("unlock", i), s, F)
      BY <1>6 DEF OfUnlock
    <3>2. WellFormed(s, F)
      BY <1>4 DEF LockFor
    <3> QED BY <1>5, <3>1, <3>2, UnlockIs
  <2> QED BY <2>1
<1>8. \A j \in Inums : Locking(t, j) <=> j = i
  <2>1. \A j : Locking(t, j) <=> j = i \/ Locking(s, j)
    BY <1>5, UnlockIs
  <2> QED BY <1>4, <2>1 DEF LockFor
<1>9. \A d : GoalOk(d, w) => GoalsOk(d, t)
  <2>1. \A d : GoalsOk(d, s) => GoalsOk(d, t)
    BY <1>5, UnlockIs
  <2> QED BY <1>4, <2>1 DEF LockFor
<1>10. \A r \in Roles : \A j : Has(t, r, j) = Weight(w, r, j)
  <2>1. \A r \in Roles : \A j : Has(t, r, j) = Has(s, r, j)
    BY <1>5, UnlockIs
  <2> QED BY <1>4, <2>1 DEF LockFor
<1>11. ASSUME NEW j
       PROVE  /\ Holds(t, j) = Is(ROOTINO, j) + Is(i, j)
              /\ Total(t, j) = Is(ROOTINO, j) + Is(i, j)
  <2>1. Holds(t, j) = Holds(s, j) /\ Total(t, j) = Total(s, j)
    BY <1>5, UnlockSums
  <2>2. Holds(s, j) = Holds(LastT(w), j) /\ Total(s, j) = Total(LastT(w), j)
    BY <1>4 DEF LockFor
  <2>3. /\ Holds(LastT(w), j) = Is(w.ip, j) + Is(w.goal.ip, j)
        /\ Total(LastT(w), j) = Is(w.ip, j) + Is(w.goal.ip, j)
    BY <1>1, <1>2, LastSums
  <2> QED BY <2>1, <2>2, <2>3
<1>12. (<<On("unlock", i)>> \o new) \o EndOp = t
  <2>1. PICK u \in Instr, l \in Instr, v \in Instr :
          u = On("unlock", i) /\ l = On("lock", ROOTINO) /\ v = w
    BY <1>1, OnIs DEF IpOps
  <2>2. PICK a, b : a = <<u>> /\ b = <<l, v>>
    OBVIOUS
  <2>6. a \in Seq(Instr) /\ b \in Seq(Instr) /\ EndOp \in Seq(Instr)
    BY <2>2, EndIs
  <2>3. (a \o b) \o EndOp = a \o (b \o EndOp)
    BY ONLY <2>6, ConcatAssociative, SMTT(40)
  <2>4. b \o EndOp = s
    BY <1>4, <2>1, <2>2, EndIs, PairConcat DEF LockT, LastT
  <2>5. a \o s = t
    <3>1. <<u>> \o s = Cons(u, s)
      BY ONLY u \in Instr, s \in Seq(Instr), ConsConcat, ZenonT(60)
    <3> QED BY <1>5, <2>1, <2>2, <3>1 DEF UnlockT
  <2> QED BY <2>1, <2>2, <2>3, <2>4, <2>5
<1> QED BY <1>7, <1>8, <1>9, <1>10, <1>11, <1>12 DEF WalkFor

(* link() counts its link, and goes for the directory.                     *)
LEMMA LinkOldDone ==
  ASSUME IInv, NEW p \in Procs, LinkOld(p), itab[It(p).ip].type # "dir"
  PROVE  IInv'
<1>1. Ready(p, "linkold")
  BY DEF LinkOld
<1>2. PICK x \in Instr :
           /\ It(p) = x /\ x.do = "linkold" /\ todo[p] = LastT(x)
           /\ Tail(todo[p]) = EndOp /\ Static(x) /\ GoalOk(dino, x)
           /\ \A j \in Inums : Needs(x, j) => Held(p, j)
  BY <1>1, MiddleIs DEF Middle, OldOps
<1>3. PICK i \in Inums, call \in Calls : i = x.ip /\ call = x.call
  BY <1>2, InstrFields
<1>4. TypesInv /\ todo \in Todos /\ InodeOk(i) /\ Tree(dino) /\ Flat(dino)
      /\ itab \in [Inums -> SlotType] /\ todo[p] \in Seq(Instr)
  BY DEF IInv, TypesInv, InodesInv, DiskInv, Todos
<1>5. Held(p, i) /\ Needs(x, i) /\ \A j \in Inums : Needs(x, j) => j = i
  BY <1>2, <1>3 DEF Needs, NewOps, DirOps
<1>6. PICK m \in Nat : m = dino[i].nlink + 1
  BY <1>4, TreeIs
<1>7. /\ itab' = [itab EXCEPT ![i].nlink = itab[i].nlink + 1,
                               ![ROOTINO].ref = itab[ROOTINO].ref + 1]
      /\ dino' = [dino EXCEPT ![i].nlink = itab[i].nlink + 1]
      /\ Then(p, <<On("unlock", i)>> \o
                   namex(call.new, TRUE, Goal("linknew", 0, i, call)))
      /\ Elsewhere
  <2>1. dino' = [dino EXCEPT ![i].nlink = itab[i].nlink + 1]
    BY <1>2, <1>3 DEF LinkOld
  <2>2. itab' = [itab EXCEPT ![i].nlink = itab[i].nlink + 1,
                               ![ROOTINO].ref = itab[ROOTINO].ref + 1]
    BY <1>2, <1>3, <1>4, DirNames DEF LinkOld
  <2>3. Then(p, <<On("unlock", i)>> \o
                   namex(call.new, TRUE, Goal("linknew", 0, i, call)))
    BY <1>2, <1>3 DEF LinkOld
  <2>4. Elsewhere
    BY DEF LinkOld
  <2> QED BY <2>1, <2>2, <2>3, <2>4
<1>8. PICK goal \in Goals : goal = Goal("linknew", 0, i, call)
  BY DEF Goals, GoalsOf, Goal
<1>9. goal.do = "linknew" /\ goal.ip = i /\ goal.call = call
  BY <1>8 DEF Goal
<1>10. call.op = "link"
  BY <1>2, <1>3 DEF Static
<1>11. PICK w \in Looks : RootWalk(w, call.new, TRUE, goal)
  <2>1. PICK path : path = call.new /\ path \in Paths(call)
    BY <1>10 DEF Paths
  <2>2. PICK parent \in BOOLEAN : parent = TRUE
    OBVIOUS
  <2>3. parent <=> goal.do \in Parents
    BY <1>9, <2>2 DEF Parents
  <2>4. /\ parent => path = IF call.op = "link" THEN call.new ELSE call.path
        /\ goal.do \in {"linknew", "linkold"} => call.op = "link"
        /\ (Ups /\ goal.do = "create" /\ call.op = "mkdir" => Len(path) = 1)
    BY <1>9, <1>10, <2>1
  <2>5. \E w \in Looks : RootWalk(w, path, parent, goal)
    BY <1>9, <2>1, <2>3, <2>4, WalkIs
  <2> QED BY <2>1, <2>2, <2>5
<1>12. /\ w.do = "look" /\ w.ip = ROOTINO /\ w.goal.ip = i /\ Static(w)
       /\ \A j : Needs(w, j) <=> j = ROOTINO
       /\ w = Walk(ROOTINO, call.new, TRUE, goal)
  BY <1>9, <1>11 DEF RootWalk
<1>13. PICK new : new = namex(call.new, TRUE, goal) /\ new = <<On("lock", ROOTINO), w>>
  BY <1>12 DEF namex
<1>14. PICK t \in Seq(Instr) : WalkFor(t, i, w, new)
  BY <1>12, <1>13, WalkPick
<1>15. todo' = [todo EXCEPT ![p] = t]
  BY <1>2, <1>7, <1>8, <1>13, <1>14 DEF Then, WalkFor

(* What the process had, and has.                                          *)
<1>16. x.do \in Middle
  BY <1>2 DEF Middle, OldOps
<1>17. ASSUME NEW j \in Inums
       PROVE  /\ Holds(todo[p], j) = Is(i, j) /\ Total(todo[p], j) = Is(i, j)
              /\ \A r \in Roles \ {"use"} : Has(todo[p], r, j) = 0
  <2>1. Holds(LastT(x), j) = Is(i, j) /\ Total(LastT(x), j) = Is(i, j)
    BY <1>2, <1>3, <1>16, LastSums DEF OldOps
  <2>2. \A r : Has(LastT(x), r, j) = Weight(x, r, j)
    BY <1>2, <1>16, LastIs
  <2>3. \A r \in Roles \ {"use"} : Weight(x, r, j) = 0
    <3>1. x.do \in {"put", "open", "linkold", "found"}
      BY <1>2
    <3> QED BY <3>1, Weights
  <2> QED BY <1>2, <2>1, <2>2, <2>3
<1>18. ASSUME NEW j \in Inums
       PROVE  /\ Holds(t, j) = Is(ROOTINO, j) + Is(i, j)
              /\ Total(t, j) = Is(ROOTINO, j) + Is(i, j)
              /\ Has(t, "old", j) = Is(i, j)
              /\ \A r \in Roles \ {"use", "old"} : Has(t, r, j) = 0
  <2>1. /\ Weight(w, "old", j) = Is(i, j)
        /\ \A r \in Roles \ {"use", "old"} : Weight(w, r, j) = 0
    BY <1>12, Weights
  <2>2. "old" \in Roles
    BY DEF Roles
  <2> QED BY <1>14, <2>1, <2>2 DEF WalkFor

(* The inode is a file, so it is not the root.                             *)
<1>19. Is(i, i) = 1 /\ Is(ROOTINO, ROOTINO) = 1
  BY DEF Is
<1>20. dino[i].type = "file"
  <2>1. Holds(todo[p], i) > 0
    BY <1>17, <1>19
  <2>2. dino[i].type # "free"
    BY <2>1, HoldsIs
  <2>3. dino[i].type # "dir"
    BY <1>2, <1>3, <1>5 DEF Held
  <2> QED BY <1>4, <2>2, <2>3, TreeIs DEF Types
<1>21. i # ROOTINO
  BY <1>4, <1>20 DEF Tree, RootIsDir
<1>22. itab[i].nlink + 1 = m
  BY <1>5, <1>6 DEF Held
<1>23. PICK mid \in [Inums -> SlotType] : SlotMoved(itab, mid, i, m)
       /\ mid = [itab EXCEPT ![i].nlink = m]
  <2>1. PICK mid : mid = [itab EXCEPT ![i].nlink = m]
    OBVIOUS
  <2>2. SlotMoved(itab, mid, i, m)
    BY <1>4, <2>1, SlotNlink
  <2> QED BY <2>1, <2>2 DEF SlotMoved
<1>24. /\ itab' \in [Inums -> SlotType]
       /\ \A j \in Inums \ {ROOTINO} : itab'[j] = mid[j]
       /\ itab'[ROOTINO].ref = itab[ROOTINO].ref + 1
       /\ itab'[ROOTINO].valid = itab[ROOTINO].valid
       /\ itab'[ROOTINO].type = itab[ROOTINO].type
       /\ itab'[ROOTINO].nlink = itab[ROOTINO].nlink
  <2>1. mid[ROOTINO] = itab[ROOTINO]
    BY <1>21, <1>23, DirNames DEF SlotMoved
  <2>2. PICK slot : slot = [mid[ROOTINO] EXCEPT !.ref = itab[ROOTINO].ref + 1]
    OBVIOUS
  <2>6. ROOTINO \in Inums
    BY DirNames
  <2>3. mid[ROOTINO] \in SlotType /\ itab[ROOTINO].ref \in Nat
    BY <1>4, <1>23, <2>6 DEF SlotType
  <2>7. PICK r \in Nat : r = itab[ROOTINO].ref + 1
    BY <2>3
  <2>8. slot = [mid[ROOTINO] EXCEPT !.ref = r]
    BY <2>2, <2>7
  <2>4. /\ slot \in SlotType /\ slot.ref = itab[ROOTINO].ref + 1
        /\ slot.valid = mid[ROOTINO].valid /\ slot.type = mid[ROOTINO].type
        /\ slot.nlink = mid[ROOTINO].nlink
    BY ONLY <2>3, <2>7, <2>8 DEF SlotType
  <2>5. itab' = [mid EXCEPT ![ROOTINO] = slot]
    BY <1>7, <1>22, <1>23, <2>2
  <2> QED BY <1>23, <2>1, <2>4, <2>5, DirNames
<1>25. dino' = [dino EXCEPT ![i].nlink = m]
  BY <1>7, <1>22
<1>26. Relinked(dino, dino', i, m)
  BY <1>4, <1>25, NlinkIs
<1>27. PICK l \in Nat, n \in Nat :
         /\ l = Cardinality(Links(dino, i)) /\ n = dino[i].nlink /\ l <= n
         /\ m = n + 1
  BY <1>4, <1>6, LinksFinite, TreeIs DEF Tree, EnoughLinks
<1>28. Tree(dino') /\ Flat(dino')
  <2>1. Cardinality(Links(dino, i)) <= m
    BY <1>27
  <2>2. dino[i].type # "free" /\ (dino[i].type = "dir" => m <= dino[i].nlink)
    BY <1>20
  <2> QED BY <1>4, <1>25, <2>1, <2>2, NlinkTree
<1>29. \A j \in Inums : dino'[j].ents = dino[j].ents /\ dino'[j].type = dino[j].type
  BY <1>26 DEF Relinked
<1>30. ASSUME NEW q \in Procs \ {p} PROVE GoalsOk(dino', todo[q])
  <2>1. GoalsOk(dino, todo[q])
    BY DEF IInv, GoalInv
  <2>2. lock[i] = p
    BY <1>5 DEF Held
  <2>3. SameShape(dino, dino', i)
    BY <1>29 DEF SameShape
  <2> QED BY <2>1, <2>2, <2>3, OthersStay
<1>31. WellFormed(t, HeldFile(p)) /\ GoalsOk(dino', t)
  <2>1. dino'[ROOTINO].ents[".."] # 0
    BY <1>28, DirNames DEF Tree, RootIsDir
  <2>2. GoalOk(dino', w)
    BY <1>12, <2>1 DEF GoalOk
  <2> QED BY <1>14, <2>2 DEF WalkFor
<1>32. lock' = lock /\ ftab' = ftab
  BY <1>7 DEF Elsewhere
<1>33. \A j \in Inums : Locking(t, j) <=> Locking(todo[p], j)
  <2>1. \A j : Locking(LastT(x), j) <=> Needs(x, j)
    BY <1>2, <1>16, LastIs
  <2>2. \A j \in Inums : Locking(t, j) <=> j = i
    BY <1>14 DEF WalkFor
  <2> QED BY <1>2, <1>5, <2>1, <2>2
<1>34. ASSUME NEW j \in Inums, j # i, j # ROOTINO PROVE InodeOk(j)'
  <2>1. Apart(todo[p], t, j)
    <3>1. Is(i, j) = 0 /\ Is(ROOTINO, j) = 0
      BY <1>34 DEF Is
    <3>2. \A r \in {"new", "erase", "forget", "dir", "old", "back"} :
            Has(t, r, j) = Has(todo[p], r, j)
      <4>1. \A r \in Roles \ {"use"} : Has(t, r, j) = 0
        BY <1>18, <3>1
      <4> QED BY <1>17, <4>1 DEF Roles
    <3>3. Links(dino', j) \subseteq Links(dino, j)
      BY <1>26 DEF Relinked
    <3>4. itab'[j] = itab[j] /\ dino'[j] = dino[j]
      BY <1>23, <1>24, <1>26, <1>34 DEF SlotMoved, Relinked
    <3>5. Holds(t, j) = Holds(todo[p], j) /\ Total(t, j) = Total(todo[p], j)
      BY <1>17, <1>18, <3>1
    <3> QED BY <3>2, <3>3, <3>4, <3>5 DEF Apart
  <2>2. Far(todo[p], t, j)
    BY <1>4, <2>1, ApartFar
  <2> QED BY <1>15, <1>24, <1>32, <2>2, FarInode
<1>35. InodeOk(ROOTINO)'
  <2>1. Is(i, ROOTINO) = 0
    BY <1>21 DEF Is
  <2>2. ROOTINO \in Inums
    BY DirNames
  <2>3. /\ Holds(todo[p], ROOTINO) = 0 /\ Total(todo[p], ROOTINO) = 0
        /\ Has(todo[p], "back", ROOTINO) = 0 /\ Has(todo[p], "old", ROOTINO) = 0
        /\ Has(todo[p], "new", ROOTINO) = 0 /\ Has(todo[p], "erase", ROOTINO) = 0
        /\ Has(todo[p], "forget", ROOTINO) = 0 /\ Has(todo[p], "dir", ROOTINO) = 0
    BY <1>17, <2>1, <2>2 DEF Roles
  <2>4. /\ Holds(t, ROOTINO) = 1 /\ Total(t, ROOTINO) = 1
        /\ Has(t, "back", ROOTINO) = 0 /\ Has(t, "old", ROOTINO) = 0
        /\ Has(t, "dir", ROOTINO) = 0 /\ Has(t, "new", ROOTINO) = 0
        /\ Has(t, "erase", ROOTINO) = 0 /\ Has(t, "forget", ROOTINO) = 0
    BY <1>18, <1>19, <2>1, <2>2 DEF Roles
  <2>5. /\ dino[ROOTINO].type # "free" /\ Count(todo, "new", ROOTINO) = 0
        /\ Count(todo, "erase", ROOTINO) = 0
    BY <1>4, <2>2, RootLinked, LinkedIs
  <2>6. dino'[ROOTINO] = dino[ROOTINO] /\ Links(dino', ROOTINO) = Links(dino, ROOTINO)
    BY <1>21, <1>26, <2>2 DEF Relinked
  <2>7. itab[ROOTINO].ref \in Nat /\ Cardinality(Links(dino, ROOTINO)) \in Nat
    BY <1>4, <2>2, LinksFinite DEF SlotType
  <2>8. QuietHas(todo[p], t, dino, ROOTINO)
    BY <2>3, <2>4 DEF QuietHas
  <2>9. Far(todo[p], t, ROOTINO)
    <3>1. itab'[ROOTINO].ref + Total(todo[p], ROOTINO)
            = itab[ROOTINO].ref + Total(t, ROOTINO)
      BY <1>24, <2>3, <2>4, <2>7
    <3>2. Cardinality(Links(dino', ROOTINO)) <= Cardinality(Links(dino, ROOTINO))
      BY <2>6, <2>7
    <3> QED BY <1>24, <2>5, <2>6, <2>8, <3>1, <3>2 DEF Far
  <2> QED BY <1>15, <1>24, <1>32, <2>2, <2>9, FarInode
<1>36. InodeOk(i)'
  <2>1. itab[i].ref \in Nat
    BY <1>4 DEF SlotType
  <2>2. Is(ROOTINO, i) = 0
    BY <1>21 DEF Is
  <2>3. /\ Holds(todo[p], i) = 1 /\ Total(todo[p], i) = 1
        /\ Has(todo[p], "back", i) = 0 /\ Has(todo[p], "old", i) = 0
        /\ Has(todo[p], "new", i) = 0 /\ Has(todo[p], "erase", i) = 0
        /\ Has(todo[p], "forget", i) = 0
    BY <1>17, <1>19 DEF Roles
  <2>4. /\ Holds(t, i) = 1 /\ Total(t, i) = 1
        /\ Has(t, "back", i) = 0 /\ Has(t, "old", i) = 1 /\ Has(t, "dir", i) = 0
        /\ Has(t, "new", i) = 0 /\ Has(t, "erase", i) = 0
        /\ Has(t, "forget", i) = 0
    BY <1>18, <1>19, <2>2 DEF Roles
  <2>5. /\ itab'[i].ref = itab[i].ref /\ itab'[i].valid = itab[i].valid
        /\ itab'[i].type = itab[i].type /\ itab'[i].nlink = m
        /\ dino'[i].type = dino[i].type /\ dino'[i].nlink = m
        /\ Links(dino', i) = Links(dino, i)
    BY <1>21, <1>23, <1>24, <1>26 DEF SlotMoved, Relinked
  <2>6. l + 0 + 1 + n <= l + 0 + 0 + m
    BY <1>27
  <2>7. Touched(todo[p], t, i)
    <3>1. Cardinality(Links(dino', i)) + Has(t, "back", i) + Has(t, "old", i)
            + dino[i].nlink
          <= Cardinality(Links(dino, i)) + Has(todo[p], "back", i)
            + Has(todo[p], "old", i) + dino'[i].nlink
      BY <1>27, <2>3, <2>4, <2>5, <2>6
    <3> QED BY <1>20, <2>1, <2>3, <2>4, <2>5, <3>1 DEF Touched
  <2> QED BY <1>15, <1>24, <1>32, <2>7, TouchedInode
<1>37. \A j \in Inums : InodeOk(j)'
  BY <1>34, <1>35, <1>36
<1> QED BY <1>7, <1>15, <1>24, <1>28, <1>30, <1>31, <1>33, <1>37, DiskStep

(* link() counts the new link before it is made (sysfile.c:145): from then *)
(* on it is claimed.                                                       *)
LEMMA LinkOldInv ==
  ASSUME IInv, NEW p \in Procs, LinkOld(p) PROVE IInv'
BY LinkOldFails, LinkOldDone

(* A step of a call that changes the names in a directory it has locked.   *)
LEMMA DirStep ==
  ASSUME IInv, NEW p \in Procs, NEW x \in Instr, x.do \in Middle, Static(x),
         todo[p] = LastT(x), NEW t \in Seq(Instr),
         todo' = [todo EXCEPT ![p] = t], Elsewhere,
         Tree(dino'), Flat(dino'), itab' \in [Inums -> SlotType],
         WellFormed(t, HeldFile(p)), GoalsOk(dino', t),
         NEW i \in Inums, lock[i] = p, SameShape(dino, dino', i),
         \A j \in Inums : Locking(t, j) <=> Needs(x, j),
         \A j \in Inums : InodeOk(j)'
  PROVE  IInv'
<1>1. ASSUME NEW q \in Procs \ {p} PROVE GoalsOk(dino', todo[q])
  <2>1. GoalsOk(dino, todo[q])
    BY DEF IInv, GoalInv
  <2> QED BY <2>1, OthersStay
<1>2. \A j \in Inums : Locking(t, j) <=> Locking(todo[p], j)
  <2>1. \A j : Locking(LastT(x), j) <=> Needs(x, j)
    BY LastIs
  <2> QED BY <2>1
<1> QED BY <1>1, <1>2, DiskStep

(* iunlockput() of a directory, and iput() of another inode.               *)
BothDone(t, i, o) ==
  /\ (iunlockput(i) \o <<On("put", o)>>) \o EndOp = t
  /\ \A j \in Inums : Locking(t, j) <=> j = i
  /\ \A F : WellFormed(t, F)
  /\ \A d : GoalsOk(d, t)
  /\ \A r \in Roles \ {"use"} : \A j : Has(t, r, j) = 0
  /\ \A j : Holds(t, j) = Is(o, j) + Is(i, j)
  /\ \A j : Total(t, j) = Is(o, j) + Is(i, j)

(* There is a list that does that.                                         *)
LEMMA BothDonePick ==
  ASSUME NEW i \in Inums, NEW o \in Inums
  PROVE  \E t \in Seq(Instr) : BothDone(t, i, o)
<1>1. PICK s \in Seq(Instr) : s = PutT(o, EndOp)
  BY EndIs, PutIs
<1>2. /\ \A j : ~Locking(s, j)
      /\ \A F : WellFormed(s, F)
      /\ \A d : GoalsOk(d, s)
      /\ \A r \in Roles \ {"use"} : \A j : Has(s, r, j) = 0
  <2>1. /\ \A j : Locking(s, j) <=> Locking(EndOp, j)
        /\ \A F : WellFormed(EndOp, F) => WellFormed(s, F)
        /\ \A d : GoalsOk(d, EndOp) => GoalsOk(d, s)
        /\ \A r \in Roles \ {"use"} : \A j : Has(s, r, j) = Has(EndOp, r, j)
    BY <1>1, EndIs, PutIs
  <2> QED BY <2>1, EndIs, EndGoals
<1>3. ASSUME NEW j PROVE Holds(s, j) = Is(o, j) /\ Total(s, j) = Is(o, j)
  <2>1. Holds(s, j) = Holds(EndOp, j) + Is(o, j) /\ Total(s, j) = Total(EndOp, j) + Is(o, j)
    BY <1>1, EndIs, PutSums
  <2>2. Holds(EndOp, j) = 0 /\ Total(EndOp, j) = 0
    BY EndSums
  <2>3. Is(o, j) \in Nat
    BY DEF Is
  <2> QED BY <2>1, <2>2, <2>3
<1>4. PICK t \in Seq(Instr) : t = DoneT(i, s) /\ DoneFor(t, i, s)
  <2>1. ~Locking(s, i)
    BY <1>2
  <2> QED BY <2>1, DonePick
<1>5. (iunlockput(i) \o <<On("put", o)>>) \o EndOp = t
  <2>0. PICK y \in Instr : y = On("put", o)
    BY OnIs DEF IpOps
  <2>1. PICK u : y = On("put", o) /\ u = <<y>>
    BY <2>0
  <2>2. u \in Seq(Instr)
    BY <2>1
  <2>3. (iunlockput(i) \o u) \o EndOp = DoneT(i, u \o EndOp)
    <3>1. EndOp \in Seq(Instr)
      BY EndIs
    <3> QED BY ONLY <2>2, <3>1, i \in Inums, WrittenDone
  <2>4. u \o EndOp = s
    <3>1. EndOp \in Seq(Instr)
      BY EndIs
    <3>2. <<y>> \o EndOp = Cons(y, EndOp)
      BY ONLY <3>1, y \in Instr, ConsConcat
    <3> QED BY <1>1, <2>1, <3>2 DEF PutT
  <2> QED BY <1>4, <2>1, <2>3, <2>4
<1>6. \A j \in Inums : Locking(t, j) <=> j = i
  BY <1>2, <1>4 DEF DoneFor
<1>7. (\A F : WellFormed(t, F)) /\ (\A d : GoalsOk(d, t))
  BY <1>2, <1>4 DEF DoneFor
<1>8. \A r \in Roles \ {"use"} : \A j : Has(t, r, j) = 0
  BY <1>2, <1>4 DEF DoneFor
<1>9. (\A j : Holds(t, j) = Is(o, j) + Is(i, j)) /\ (\A j : Total(t, j) = Is(o, j) + Is(i, j))
  BY <1>3, <1>4 DEF DoneFor
<1> QED BY <1>5, <1>6, <1>7, <1>8, <1>9 DEF BothDone

(* link() makes the name.                                                  *)
LEMMA LinkNewDone ==
  ASSUME IInv, NEW p \in Procs, Ready(p, "linknew"), Found(It(p)) = 0,
         dino' = [dino EXCEPT ![It(p).dp].ents[NameOf(It(p).call)] = It(p).ip],
         Then(p, iunlockput(It(p).dp) \o <<On("put", It(p).ip)>>),
         itab' = itab, Elsewhere
  PROVE  IInv'
<1>2. PICK x \in Instr :
           /\ It(p) = x /\ x.do = "linknew" /\ todo[p] = LastT(x)
           /\ Tail(todo[p]) = EndOp /\ Static(x) /\ GoalOk(dino, x)
           /\ \A j \in Inums : Needs(x, j) => Held(p, j)
  BY MiddleIs DEF Middle, NewOps
<1>3. PICK i \in Inums, o \in Inums, call \in Calls :
         i = x.dp /\ o = x.ip /\ call = x.call
  BY <1>2, InstrFields DEF NewOps
<1>4. TypesInv /\ todo \in Todos /\ InodeOk(i) /\ InodeOk(o)
      /\ Tree(dino) /\ Flat(dino)
      /\ itab \in [Inums -> SlotType] /\ todo[p] \in Seq(Instr)
  BY DEF IInv, TypesInv, InodesInv, DiskInv, Todos
<1>5. Held(p, i) /\ Needs(x, i) /\ \A j \in Inums : Needs(x, j) => j = i
  BY <1>2, <1>3 DEF Needs, NewOps, DirOps
<1>6. x.do \in Middle
  BY <1>2 DEF Middle, NewOps
<1>7. PICK t \in Seq(Instr) : BothDone(t, i, o)
  BY BothDonePick
<1>8. todo' = [todo EXCEPT ![p] = t]
  BY <1>2, <1>3, <1>7 DEF BothDone, Then

(* What the process had, and has.                                          *)
<1>9. ASSUME NEW j \in Inums
      PROVE  /\ Holds(todo[p], j) = Is(o, j) + Is(i, j)
             /\ Total(todo[p], j) = Is(o, j) + Is(i, j)
             /\ Has(todo[p], "old", j) = Is(o, j)
             /\ Has(todo[p], "dir", j) = Is(i, j)
             /\ \A r \in Roles \ {"old", "dir"} : Has(todo[p], r, j) = 0
  <2>1. Holds(LastT(x), j) = Is(o, j) + Is(i, j)
        /\ Total(LastT(x), j) = Is(o, j) + Is(i, j)
    BY <1>2, <1>3, <1>6, LastSums
  <2>2. \A r : Has(LastT(x), r, j) = Weight(x, r, j)
    BY <1>2, <1>6, LastIs
  <2>3. /\ Weight(x, "old", j) = Is(o, j) /\ Weight(x, "dir", j) = Is(i, j)
        /\ \A r \in Roles \ {"old", "dir"} : Weight(x, r, j) = 0
    BY <1>2, <1>3, Weights
  <2> QED BY <1>2, <2>1, <2>2, <2>3
<1>10. /\ \A r \in Roles \ {"use"} : \A j : Has(t, r, j) = 0
       /\ \A j : Holds(t, j) = Is(o, j) + Is(i, j)
       /\ \A j : Total(t, j) = Is(o, j) + Is(i, j)
  BY <1>7 DEF BothDone
<1>11. Is(i, i) = 1 /\ Is(o, o) = 1
  BY DEF Is

(* One is a directory, and the other a file with a link to spare.          *)
<1>12. dino[i].type = "dir"
  <2>1. Count(todo, "dir", i) > 0
    <3>1. Has(todo[p], "dir", i) = 1
      BY <1>9, <1>11
    <3>2. Has(todo[p], "dir", i) <= Count(todo, "dir", i) /\ Count(todo, "dir", i) \in Nat
      BY <1>4, CountSome
    <3> QED BY <3>1, <3>2
  <2> QED BY <1>4, <2>1 DEF InodeOk, DirInv
<1>13. Has(todo[p], "old", o) = 1 /\ Count(todo, "old", o) \in Nat
       /\ Has(todo[p], "old", o) <= Count(todo, "old", o)
  BY <1>4, <1>9, <1>11, CountSome
<1>14. dino[o].type = "file"
  BY <1>4, <1>13 DEF InodeOk, OldInv
<1>15. i # o
  BY <1>12, <1>14
<1>16. PICK l \in Nat, n \in Nat :
         l = Cardinality(Links(dino, o)) /\ n = dino[o].nlink /\ l + 1 <= n
  <2>1. PICK l \in Nat, n \in Nat, b \in Nat, c \in Nat :
          /\ l = Cardinality(Links(dino, o)) /\ n = dino[o].nlink
          /\ b = Count(todo, "back", o) /\ c = Count(todo, "old", o)
    BY <1>4, LinksFinite, CountSome, TreeIs
  <2>2. l + b + c <= n
    BY <1>4, <2>1 DEF InodeOk, ClaimInv
  <2>3. c >= 1
    BY <1>13, <2>1
  <2>4. l + 1 <= n
    BY ONLY <2>2, <2>3, l \in Nat, b \in Nat, c \in Nat, n \in Nat
  <2> QED BY <2>1, <2>4

(* The name.                                                               *)
<1>17. PICK name \in Names : name = NameOf(call) /\ dino[i].ents[name] = 0
  <2>1. dino[i].ents[NameOf(call)] = 0
    BY <1>2, <1>3 DEF Found
  <2>2. dino[i].ents[".."] # 0
    BY <1>2, <1>3 DEF GoalOk
  <2>3. NameOf(call) \in Entries
    BY NameIs
  <2> QED BY <2>1, <2>2, <2>3, DirNames
<1>18. name \in Entries /\ name # ".." /\ ".." \in Entries
  BY DirNames
<1>19. PICK ents \in [Entries -> 0 .. NINODES] :
         ents = [dino[i].ents EXCEPT ![name] = o]
  <2>1. dino[i].ents \in [Entries -> 0 .. NINODES] /\ o \in 0 .. NINODES
    BY <1>4, TreeIs, DirNames
  <2> QED BY <2>1
<1>20. PICK r \in InodeType : /\ r = [dino[i] EXCEPT !.ents = ents]
         /\ r.type = dino[i].type /\ r.nlink = dino[i].nlink /\ r.ents = ents
  <2>1. PICK r : r = [dino[i] EXCEPT !.ents = ents]
    OBVIOUS
  <2>2. dino[i] \in InodeType
    BY <1>4, TreeIs
  <2>3. /\ r \in InodeType /\ r.type = dino[i].type /\ r.nlink = dino[i].nlink
        /\ r.ents = ents
    BY ONLY <2>1, <2>2, ents \in [Entries -> 0 .. NINODES] DEF InodeType
  <2> QED BY <2>1, <2>3
<1>21. dino' = [dino EXCEPT ![i] = r]
  BY <1>2, <1>3, <1>17, <1>19, <1>20
<1>22. /\ \A m \in Names : dino[o].ents[m] = 0
       /\ dino[o].type # "dir"
  <2>1. dino[o].ents = NoEntries
    BY <1>4, <1>14 DEF Tree, OnlyDirs
  <2> QED BY <1>14, <2>1, DirNames DEF NoEntries
<1>23. Added(dino, dino', o, i, name)
  BY <1>4, <1>15, <1>17, <1>19, <1>20, <1>21, <1>22, AddedIs
<1>24. Tree(dino') /\ Flat(dino')
  <2>1. Cardinality(Links(dino, o)) + 1 <= dino[o].nlink
    BY <1>16
  <2>2. r.nlink = dino[i].nlink + (IF dino[o].type = "dir" THEN 1 ELSE 0)
    BY <1>4, <1>20, <1>22, TreeIs
  <2>3. dino[i].ents[".."] # 0
    BY <1>2, <1>3 DEF GoalOk
  <2>4. r.type = "dir" /\ r.ents = [dino[i].ents EXCEPT ![name] = o]
    BY <1>12, <1>19, <1>20
  <2>5. dino[i].type = "dir" /\ dino[i].ents[name] = 0 /\ o # i
    BY <1>12, <1>15, <1>17
  <2>6. dino[o].type = "dir" => dino[o].ents[".."] = i /\ ~Named(dino, o)
    BY <1>22
  <2>7. Addable(dino, dino', o, i, name, r)
    BY <1>4, <1>21, <1>22, <2>1, <2>2, <2>3, <2>4, <2>5, <2>6 DEF Addable
  <2>8. Tree(dino') /\ (Flat(dino) => Flat(dino'))
    BY <2>7, AddedTree
  <2> QED BY <1>4, <2>8
<1>25. dino'[i] = r /\ \A j \in Inums \ {i} : dino'[j] = dino[j]
  BY <1>4, <1>21, TreeIs
<1>26. SameShape(dino, dino', i)
  <2>1. r.ents[".."] = dino[i].ents[".."]
    BY <1>4, <1>18, <1>19, <1>20, TreeIs
  <2> QED BY <1>20, <1>25, <2>1 DEF SameShape
<1>27. lock[i] = p /\ lock' = lock /\ ftab' = ftab
  BY <1>5 DEF Held, Elsewhere
<1>28. itab' \in [Inums -> SlotType]
  BY <1>4
<1>29. ASSUME NEW j \in Inums, j # i, j # o PROVE InodeOk(j)'
  <2>1. Apart(todo[p], t, j)
    <3>1. Is(i, j) = 0 /\ Is(o, j) = 0
      BY <1>29 DEF Is
    <3>2. \A r1 \in {"new", "erase", "forget", "dir", "old", "back"} :
            Has(t, r1, j) = Has(todo[p], r1, j)
      <4>1. \A r1 \in Roles : Has(todo[p], r1, j) = 0
        BY <1>9, <3>1
      <4> QED BY <1>10, <4>1 DEF Roles
    <3>3. Links(dino', j) \subseteq Links(dino, j)
      BY <1>23, <1>29 DEF Added
    <3>4. itab'[j] = itab[j] /\ dino'[j] = dino[j]
      BY <1>25, <1>29
    <3>5. Holds(t, j) = Holds(todo[p], j) /\ Total(t, j) = Total(todo[p], j)
      BY <1>9, <1>10
    <3> QED BY <3>2, <3>3, <3>4, <3>5 DEF Apart
  <2>2. Far(todo[p], t, j)
    BY <1>4, <2>1, ApartFar
  <2> QED BY <1>8, <1>27, <1>28, <2>2, FarInode
<1>30. InodeOk(o)'
  <2>1. Is(i, o) = 0
    BY <1>15 DEF Is
  <2>2. /\ Holds(todo[p], o) = 1 /\ Total(todo[p], o) = 1
        /\ Has(todo[p], "back", o) = 0 /\ Has(todo[p], "old", o) = 1
        /\ Has(todo[p], "new", o) = 0 /\ Has(todo[p], "erase", o) = 0
        /\ Has(todo[p], "forget", o) = 0
    BY <1>9, <1>11, <2>1 DEF Roles
  <2>3. /\ Holds(t, o) = 1 /\ Total(t, o) = 1
        /\ Has(t, "back", o) = 0 /\ Has(t, "old", o) = 0 /\ Has(t, "dir", o) = 0
        /\ Has(t, "new", o) = 0 /\ Has(t, "erase", o) = 0
        /\ Has(t, "forget", o) = 0
    BY <1>10, <1>11, <2>1 DEF Roles
  <2>4. dino'[o] = dino[o] /\ itab'[o] = itab[o]
    BY <1>15, <1>25
  <2>5. PICK k \in Nat : k = Cardinality(Links(dino', o)) /\ k <= l + 1
    <3>1. Links(dino', o) \subseteq Links(dino, o) \cup {<<i, name>>}
      BY <1>23 DEF Added
    <3>2. Cardinality(Links(dino', o)) <= Cardinality(Links(dino, o)) + 1
      BY <3>1, LinksMore
    <3> QED BY <1>16, <3>2, LinksFinite
  <2>6. k + 0 + 0 + n <= l + 0 + 1 + n
    BY <2>5
  <2>7. Touched(todo[p], t, o)
    <3>1. Cardinality(Links(dino', o)) + Has(t, "back", o) + Has(t, "old", o)
            + dino[o].nlink
          <= Cardinality(Links(dino, o)) + Has(todo[p], "back", o)
            + Has(todo[p], "old", o) + dino'[o].nlink
      BY <1>16, <2>2, <2>3, <2>4, <2>5, <2>6
    <3>2. itab[o].ref \in Nat /\ dino[o].nlink \in Nat
      BY <1>4, <1>16 DEF SlotType
    <3> QED BY <2>2, <2>3, <2>4, <3>1, <3>2 DEF Touched
  <2> QED BY <1>8, <1>27, <1>28, <2>7, TouchedInode
<1>31. InodeOk(i)'
  <2>1. Is(o, i) = 0
    BY <1>15 DEF Is
  <2>2. /\ Holds(todo[p], i) = 1 /\ Total(todo[p], i) = 1
        /\ Has(todo[p], "back", i) = 0 /\ Has(todo[p], "old", i) = 0
        /\ Has(todo[p], "new", i) = 0 /\ Has(todo[p], "erase", i) = 0
        /\ Has(todo[p], "forget", i) = 0
    BY <1>9, <1>11, <2>1 DEF Roles
  <2>3. /\ Holds(t, i) = 1 /\ Total(t, i) = 1
        /\ Has(t, "back", i) = 0 /\ Has(t, "old", i) = 0 /\ Has(t, "dir", i) = 0
        /\ Has(t, "new", i) = 0 /\ Has(t, "erase", i) = 0
        /\ Has(t, "forget", i) = 0
    BY <1>10, <1>11, <2>1 DEF Roles
  <2>4. /\ dino'[i].type = dino[i].type /\ dino'[i].nlink = dino[i].nlink
        /\ itab'[i] = itab[i]
    BY <1>20, <1>25
  <2>5. PICK k \in Nat, h \in Nat, m \in Nat :
          /\ k = Cardinality(Links(dino', i)) /\ h = Cardinality(Links(dino, i))
          /\ m = dino[i].nlink /\ k <= h
    <3>1. Links(dino', i) \subseteq Links(dino, i)
      BY <1>22, <1>23 DEF Added
    <3>2. Cardinality(Links(dino', i)) <= Cardinality(Links(dino, i))
      BY <3>1, LinksLess
    <3> QED BY <1>4, <3>2, LinksFinite, TreeIs
  <2>6. k + 0 + 0 + m <= h + 0 + 0 + m
    BY <2>5
  <2>7. Touched(todo[p], t, i)
    <3>1. Cardinality(Links(dino', i)) + Has(t, "back", i) + Has(t, "old", i)
            + dino[i].nlink
          <= Cardinality(Links(dino, i)) + Has(todo[p], "back", i)
            + Has(todo[p], "old", i) + dino'[i].nlink
      BY <2>2, <2>3, <2>4, <2>5, <2>6
    <3>2. itab[i].ref \in Nat /\ dino[i].nlink \in Nat
      BY <1>4, <2>5 DEF SlotType
    <3> QED BY <2>2, <2>3, <2>4, <3>1, <3>2 DEF Touched
  <2> QED BY <1>8, <1>27, <1>28, <2>7, TouchedInode
<1>32. \A j \in Inums : InodeOk(j)'
  BY <1>29, <1>30, <1>31
<1>33. WellFormed(t, HeldFile(p)) /\ GoalsOk(dino', t)
  BY <1>7 DEF BothDone
<1>34. \A j \in Inums : Locking(t, j) <=> Needs(x, j)
  BY <1>5, <1>7 DEF BothDone
<1> QED BY <1>2, <1>6, <1>8, <1>24, <1>26, <1>27, <1>28, <1>32, <1>33, <1>34,
   DirStep

(* link() makes the name (sysfile.c:152): the claim becomes a link.        *)
LEMMA LinkNewInv ==
  ASSUME IInv, NEW p \in Procs, LinkNew(p) PROVE IInv'
BY LinkNewDone, LinkNewFailsInv DEF LinkNew

(* iunlockput() of a directory, and a link of another inode less.          *)
LessDone(t, i, o) ==
  /\ (iunlockput(i) \o <<On("takeback", o)>>) \o EndOp = t
  /\ \A j \in Inums : Locking(t, j) <=> j \in {i, o}
  /\ \A F : WellFormed(t, F)
  /\ \A d : GoalsOk(d, t)
  /\ \A j : Has(t, "back", j) = Is(o, j)
  /\ \A r \in Roles \ {"use", "back"} : \A j : Has(t, r, j) = 0
  /\ \A j : Holds(t, j) = Is(o, j) + Is(i, j)
  /\ \A j : Total(t, j) = Is(o, j) + Is(i, j)

(* There is a list that does that.                                         *)
LEMMA LessDonePick ==
  ASSUME NEW i \in Inums, NEW o \in Inums, i # o
  PROVE  \E t \in Seq(Instr) : LessDone(t, i, o)
<1>1. PICK y \in Instr : y = On("takeback", o) /\ y.do = "takeback" /\ y.ip = o
  BY OnIs DEF IpOps
<1>2. y.do \in Middle /\ Static(y) /\ \A d : GoalOk(d, y)
  BY <1>1 DEF Middle, Static, GoalOk
<1>3. PICK s \in Seq(Instr) : s = LastT(y)
  BY <1>2, LastIs
<1>4. /\ \A j : Locking(s, j) <=> Needs(y, j)
      /\ \A F : WellFormed(s, F)
      /\ \A d : GoalsOk(d, s)
      /\ \A r, j : Has(s, r, j) = Weight(y, r, j)
  BY <1>2, <1>3, LastIs
<1>5. \A j : Locking(s, j) <=> j = o
  BY <1>1, <1>4 DEF Needs, NewOps, DirOps
<1>6. ASSUME NEW j PROVE Holds(s, j) = Is(o, j) /\ Total(s, j) = Is(o, j)
  BY <1>1, <1>2, <1>3, LastSums
<1>7. ASSUME NEW j
      PROVE  /\ Has(s, "back", j) = Is(o, j)
             /\ \A r \in Roles \ {"back"} : Has(s, r, j) = 0
  BY <1>1, <1>4, Weights
<1>8. PICK t \in Seq(Instr) : t = DoneT(i, s) /\ DoneFor(t, i, s)
  <2>1. ~Locking(s, i)
    BY <1>5
  <2> QED BY <2>1, DonePick
<1>9. (iunlockput(i) \o <<On("takeback", o)>>) \o EndOp = t
  <2>1. PICK u : u = <<y>>
    OBVIOUS
  <2>2. u \in Seq(Instr) /\ EndOp \in Seq(Instr)
    BY <2>1, EndIs
  <2>3. (iunlockput(i) \o u) \o EndOp = DoneT(i, u \o EndOp)
    BY ONLY <2>2, i \in Inums, WrittenDone
  <2>4. u \o EndOp = s
    <3>1. <<y>> \o EndOp = Cons(y, EndOp)
      BY ONLY <2>2, y \in Instr, ConsConcat
    <3> QED BY <1>3, <2>1, <3>1 DEF LastT
  <2> QED BY <1>1, <1>8, <2>1, <2>3, <2>4
<1>10. \A j \in Inums : Locking(t, j) <=> j \in {i, o}
  BY <1>5, <1>8 DEF DoneFor
<1>11. (\A F : WellFormed(t, F)) /\ (\A d : GoalsOk(d, t))
  BY <1>4, <1>8 DEF DoneFor
<1>12. ASSUME NEW j
       PROVE  /\ Has(t, "back", j) = Is(o, j)
              /\ \A r \in Roles \ {"use", "back"} : Has(t, r, j) = 0
  <2>1. \A r \in Roles \ {"use"} : Has(t, r, j) = Has(s, r, j)
    BY <1>8 DEF DoneFor
  <2>2. "back" \in Roles \ {"use"}
    BY DEF Roles
  <2> QED BY <1>7, <2>1, <2>2
<1>13. (\A j : Holds(t, j) = Is(o, j) + Is(i, j)) /\ (\A j : Total(t, j) = Is(o, j) + Is(i, j))
  BY <1>6, <1>8 DEF DoneFor
<1> QED BY <1>9, <1>10, <1>11, <1>12, <1>13 DEF LessDone

(* unlink() removes the name.                                              *)
LEMMA RemoveInv ==
  ASSUME IInv, NEW p \in Procs, Remove(p) PROVE IInv'
<1>1. Ready(p, "remove")
  BY DEF Remove
<1>2. PICK x \in Instr :
           /\ It(p) = x /\ x.do = "remove" /\ todo[p] = LastT(x)
           /\ Tail(todo[p]) = EndOp /\ Static(x) /\ GoalOk(dino, x)
           /\ \A j \in Inums : Needs(x, j) => Held(p, j)
  BY <1>1, MiddleIs DEF Middle, NewOps
<1>3. PICK i \in Inums, o \in Inums, call \in Calls :
         i = x.dp /\ o = x.ip /\ call = x.call
  BY <1>2, InstrFields DEF NewOps
<1>4. TypesInv /\ todo \in Todos /\ InodeOk(i) /\ InodeOk(o)
      /\ Tree(dino) /\ Flat(dino)
      /\ itab \in [Inums -> SlotType] /\ todo[p] \in Seq(Instr)
  BY DEF IInv, TypesInv, InodesInv, DiskInv, Todos
<1>5. \A j \in Inums : Needs(x, j) <=> j \in {i, o}
  BY <1>2, <1>3 DEF Needs, NewOps, DirOps
<1>6. Held(p, i) /\ Held(p, o)
  BY <1>2, <1>5
<1>7. x.do \in Middle
  BY <1>2 DEF Middle, NewOps
<1>8. i # o
  BY <1>2, <1>3 DEF Static
<1>9. PICK t \in Seq(Instr) : LessDone(t, i, o)
  BY <1>8, LessDonePick
<1>10. PICK name \in Names : name = NameOf(call) /\ dino[i].ents[name] = o
  <2>1. NameOf(call) \in Names
    BY <1>2, <1>3 DEF Static
  <2>2. dino[i].ents[NameOf(call)] = o
    BY <1>2, <1>3 DEF GoalOk
  <2> QED BY <2>1, <2>2
<1>11. name \in Entries /\ name # ".." /\ ".." \in Entries
  BY DirNames

(* The links of the directory.                                             *)
<1>12. PICK k \in {0, 1} : k = IF dino[o].type = "dir" THEN 1 ELSE 0
  OBVIOUS
<1>13. PICK n \in Nat : n = dino[i].nlink
  BY <1>4, TreeIs
<1>14. k <= n
  <2>1. CASE dino[o].type = "dir"
    <3>1. dino[o].ents[".."] = i
      BY <1>4, <1>10, <2>1 DEF Tree, OneName
    <3>2. <<o, "..">> \in Links(dino, i)
      BY <1>10, <1>11, <3>1 DEF Links, Named
    <3>3. Cardinality(Links(dino, i)) # 0 /\ Cardinality(Links(dino, i)) \in Nat
      BY <3>2, LinksFinite, FS_EmptySet
    <3>4. Cardinality(Links(dino, i)) <= n
      BY <1>4, <1>13 DEF Tree, EnoughLinks
    <3> QED BY <3>3, <3>4
  <2>2. CASE dino[o].type # "dir"
    BY <1>12, <2>2
  <2> QED BY <2>1, <2>2
<1>15. PICK up \in Nat : up = n - k
  BY <1>14
<1>16. /\ dino' = [dino EXCEPT ![i] =
                      [dino[i] EXCEPT !.ents[name] = 0, !.nlink = up]]
       /\ itab' = [itab EXCEPT ![i].nlink = up]
       /\ Then(p, iunlockput(i) \o <<On("takeback", o)>>)
       /\ Elsewhere
  <2>1. itab[i].nlink - (IF itab[o].type = "dir" THEN 1 ELSE 0) = up
    BY <1>6, <1>12, <1>13, <1>15 DEF Held
  <2>2. itab' = [itab EXCEPT ![i].nlink = up]
    BY <1>2, <1>3, <2>1 DEF Remove
  <2>3. dino' = [dino EXCEPT ![i] =
                      [dino[i] EXCEPT !.ents[name] = 0, !.nlink = up]]
    BY <1>2, <1>3, <1>10, <2>1 DEF Remove
  <2>4. Then(p, iunlockput(i) \o <<On("takeback", o)>>) /\ Elsewhere
    BY <1>2, <1>3 DEF Remove
  <2> QED BY <2>2, <2>3, <2>4
<1>17. todo' = [todo EXCEPT ![p] = t]
  BY <1>2, <1>9, <1>16 DEF LessDone, Then
<1>18. PICK ents \in [Entries -> 0 .. NINODES] :
         ents = [dino[i].ents EXCEPT ![name] = 0]
  <2>1. dino[i].ents \in [Entries -> 0 .. NINODES] /\ 0 \in 0 .. NINODES
    BY <1>4, TreeIs, DirNames
  <2> QED BY <2>1
<1>19. PICK r \in InodeType : /\ r = [dino[i] EXCEPT !.ents = ents, !.nlink = up]
         /\ r.type = dino[i].type /\ r.nlink = up /\ r.ents = ents
  <2>1. PICK r : r = [dino[i] EXCEPT !.ents = ents, !.nlink = up]
    OBVIOUS
  <2>2. dino[i] \in InodeType
    BY <1>4, TreeIs
  <2>3. r \in InodeType /\ r.type = dino[i].type /\ r.nlink = up /\ r.ents = ents
    BY ONLY <2>1, <2>2, ents \in [Entries -> 0 .. NINODES], up \in Nat DEF
       InodeType
  <2> QED BY <2>1, <2>3
<1>20. dino' = [dino EXCEPT ![i] = r]
  BY <1>16, <1>18, <1>19
<1>21. Lost(dino, dino', o, i)
  <2>1. r.ents = [dino[i].ents EXCEPT ![name] = 0]
    BY <1>18, <1>19
  <2> QED BY <1>4, <1>10, <1>20, <2>1, LostIs
<1>22. Tree(dino') /\ Flat(dino')
  <2>1. r.nlink + (IF dino[o].type = "dir" THEN 1 ELSE 0) = dino[i].nlink
    BY <1>12, <1>13, <1>15, <1>19
  <2>2. Removable(dino, dino', o, i, name, r)
    BY <1>4, <1>10, <1>18, <1>19, <1>20, <2>1 DEF Removable
  <2>3. Tree(dino') /\ (Flat(dino) => Flat(dino'))
    BY <2>2, LostTree
  <2> QED BY <1>4, <2>3
<1>23. dino'[i] = r /\ \A j \in Inums \ {i} : dino'[j] = dino[j]
  BY <1>4, <1>20, TreeIs
<1>24. SameShape(dino, dino', i)
  <2>1. r.ents[".."] = dino[i].ents[".."]
    BY <1>4, <1>11, <1>18, <1>19, TreeIs
  <2> QED BY <1>19, <1>23, <2>1 DEF SameShape
<1>25. SlotMoved(itab, itab', i, up)
  BY <1>4, <1>16, SlotNlink
<1>26. lock[i] = p /\ lock' = lock /\ ftab' = ftab
  BY <1>6, <1>16 DEF Held, Elsewhere
<1>27. itab' \in [Inums -> SlotType]
  BY <1>25 DEF SlotMoved

(* What the process had, and has.                                          *)
<1>28. ASSUME NEW j \in Inums
       PROVE  /\ Holds(todo[p], j) = Is(o, j) + Is(i, j)
              /\ Total(todo[p], j) = Is(o, j) + Is(i, j)
              /\ Has(todo[p], "dir", j) = Is(i, j)
              /\ \A r1 \in Roles \ {"use", "dir", "pair"} : Has(todo[p], r1, j) = 0
  <2>1. Holds(LastT(x), j) = Is(o, j) + Is(i, j)
        /\ Total(LastT(x), j) = Is(o, j) + Is(i, j)
    BY <1>2, <1>3, <1>7, LastSums
  <2>2. \A r1 : Has(LastT(x), r1, j) = Weight(x, r1, j)
    BY <1>2, <1>7, LastIs
  <2>3. /\ Weight(x, "dir", j) = Is(i, j)
        /\ \A r1 \in Roles \ {"use", "dir", "pair"} : Weight(x, r1, j) = 0
    BY <1>2, <1>3, Weights
  <2> QED BY <1>2, <2>1, <2>2, <2>3
<1>29. /\ \A j : Has(t, "back", j) = Is(o, j)
       /\ \A r1 \in Roles \ {"use", "back"} : \A j : Has(t, r1, j) = 0
       /\ \A j : Holds(t, j) = Is(o, j) + Is(i, j)
       /\ \A j : Total(t, j) = Is(o, j) + Is(i, j)
  BY <1>9 DEF LessDone
<1>30. Is(i, i) = 1 /\ Is(o, o) = 1 /\ Is(i, o) = 0 /\ Is(o, i) = 0
  BY <1>8 DEF Is
<1>31. ASSUME NEW j \in Inums, j # i, j # o PROVE InodeOk(j)'
  <2>1. Apart(todo[p], t, j)
    <3>1. Is(i, j) = 0 /\ Is(o, j) = 0
      BY <1>31 DEF Is
    <3>2. \A r1 \in {"new", "erase", "forget", "dir", "old", "back"} :
            Has(t, r1, j) = Has(todo[p], r1, j)
      <4>1. \A r1 \in Roles \ {"use", "pair"} : Has(todo[p], r1, j) = 0
        BY <1>28, <3>1
      <4>2. \A r1 \in Roles \ {"use"} : Has(t, r1, j) = 0
        BY <1>29, <3>1
      <4> QED BY <4>1, <4>2 DEF Roles
    <3>3. Links(dino', j) \subseteq Links(dino, j)
      BY <1>21 DEF Lost
    <3>4. itab'[j] = itab[j] /\ dino'[j] = dino[j]
      BY <1>23, <1>25, <1>31 DEF SlotMoved
    <3>5. Holds(t, j) = Holds(todo[p], j) /\ Total(t, j) = Total(todo[p], j)
      BY <1>28, <1>29
    <3> QED BY <3>2, <3>3, <3>4, <3>5 DEF Apart
  <2>2. Far(todo[p], t, j)
    BY <1>4, <2>1, ApartFar
  <2> QED BY <1>17, <1>26, <1>27, <2>2, FarInode
<1>32. InodeOk(o)'
  <2>2. /\ Holds(todo[p], o) = 1 /\ Total(todo[p], o) = 1
        /\ Has(todo[p], "back", o) = 0 /\ Has(todo[p], "old", o) = 0
        /\ Has(todo[p], "new", o) = 0 /\ Has(todo[p], "erase", o) = 0
        /\ Has(todo[p], "forget", o) = 0
    BY <1>28, <1>30 DEF Roles
  <2>3. /\ Holds(t, o) = 1 /\ Total(t, o) = 1
        /\ Has(t, "back", o) = 1 /\ Has(t, "old", o) = 0 /\ Has(t, "dir", o) = 0
        /\ Has(t, "new", o) = 0 /\ Has(t, "erase", o) = 0
        /\ Has(t, "forget", o) = 0
    BY <1>29, <1>30 DEF Roles
  <2>4. dino'[o] = dino[o] /\ itab'[o] = itab[o]
    BY <1>8, <1>23, <1>25 DEF SlotMoved
  <2>5. PICK c \in Nat, h \in Nat, m \in Nat :
          /\ c = Cardinality(Links(dino', o)) /\ h = Cardinality(Links(dino, o))
          /\ m = dino[o].nlink /\ c + 1 <= h
    BY <1>4, <1>21, LinksFinite, TreeIs DEF Lost
  <2>6. c + 1 + 0 + m <= h + 0 + 0 + m
    BY <2>5
  <2>7. Touched(todo[p], t, o)
    <3>1. Cardinality(Links(dino', o)) + Has(t, "back", o) + Has(t, "old", o)
            + dino[o].nlink
          <= Cardinality(Links(dino, o)) + Has(todo[p], "back", o)
            + Has(todo[p], "old", o) + dino'[o].nlink
      BY <2>2, <2>3, <2>4, <2>5, <2>6
    <3>2. itab[o].ref \in Nat /\ dino[o].nlink \in Nat
      BY <1>4, <2>5 DEF SlotType
    <3> QED BY <2>2, <2>3, <2>4, <3>1, <3>2 DEF Touched
  <2> QED BY <1>17, <1>26, <1>27, <2>7, TouchedInode
<1>33. InodeOk(i)'
  <2>2. /\ Holds(todo[p], i) = 1 /\ Total(todo[p], i) = 1
        /\ Has(todo[p], "back", i) = 0 /\ Has(todo[p], "old", i) = 0
        /\ Has(todo[p], "new", i) = 0 /\ Has(todo[p], "erase", i) = 0
        /\ Has(todo[p], "forget", i) = 0
    BY <1>28, <1>30 DEF Roles
  <2>3. /\ Holds(t, i) = 1 /\ Total(t, i) = 1
        /\ Has(t, "back", i) = 0 /\ Has(t, "old", i) = 0 /\ Has(t, "dir", i) = 0
        /\ Has(t, "new", i) = 0 /\ Has(t, "erase", i) = 0
        /\ Has(t, "forget", i) = 0
    BY <1>29, <1>30 DEF Roles
  <2>4. /\ dino'[i].type = dino[i].type /\ dino'[i].nlink = up
        /\ itab'[i].ref = itab[i].ref /\ itab'[i].valid = itab[i].valid
        /\ itab'[i].type = itab[i].type /\ itab'[i].nlink = up
    BY <1>19, <1>23, <1>25 DEF SlotMoved
  <2>5. PICK c \in Nat, h \in Nat :
          /\ c = Cardinality(Links(dino', i)) /\ h = Cardinality(Links(dino, i))
          /\ c + k <= h
    <3>1. PICK c \in Nat, h \in Nat :
          /\ c = Cardinality(Links(dino', i)) /\ h = Cardinality(Links(dino, i))
      BY LinksFinite
    <3>2. CASE dino[o].type = "dir"
      <4>1. Cardinality(Links(dino', i)) + 1 <= Cardinality(Links(dino, i))
        BY <1>21, <3>2 DEF Lost
      <4> QED BY <1>12, <3>1, <3>2, <4>1
    <3>3. CASE dino[o].type # "dir"
      <4>1. Links(dino', i) \subseteq Links(dino, i)
        BY <1>21 DEF Lost
      <4>2. Cardinality(Links(dino', i)) <= Cardinality(Links(dino, i))
        BY <4>1, LinksLess
      <4> QED BY <1>12, <3>1, <3>3, <4>2
    <3> QED BY <3>2, <3>3
  <2>6. c + 0 + 0 + n <= h + 0 + 0 + up
    BY <1>14, <1>15, <2>5
  <2>7. Touched(todo[p], t, i)
    <3>1. Cardinality(Links(dino', i)) + Has(t, "back", i) + Has(t, "old", i)
            + dino[i].nlink
          <= Cardinality(Links(dino, i)) + Has(todo[p], "back", i)
            + Has(todo[p], "old", i) + dino'[i].nlink
      BY <1>13, <2>2, <2>3, <2>4, <2>5, <2>6
    <3>2. itab[i].ref \in Nat
      BY <1>4 DEF SlotType
    <3> QED BY <2>2, <2>3, <2>4, <3>1, <3>2 DEF Touched
  <2> QED BY <1>17, <1>26, <1>27, <2>7, TouchedInode
<1>34. \A j \in Inums : InodeOk(j)'
  BY <1>31, <1>32, <1>33
<1>35. WellFormed(t, HeldFile(p)) /\ GoalsOk(dino', t)
  BY <1>9 DEF LessDone
<1>36. \A j \in Inums : Locking(t, j) <=> Needs(x, j)
  BY <1>5, <1>9 DEF LessDone
<1>37. /\ todo[p] = LastT(x) /\ Static(x) /\ Elsewhere
  BY <1>2, <1>16
<1> QED BY <1>7, <1>17, <1>22, <1>24, <1>26, <1>27, <1>34, <1>35, <1>36, <1>37,
   DirStep

(* A free inode has nobody.                                                *)
LEMMA FreeIs ==
  ASSUME IInv, NEW i \in Inums, dino[i].type = "free"
  PROVE  /\ Uses(todo, i) = 0 /\ FilesOf(ftab, i) = 0
         /\ Count(todo, "new", i) = 0 /\ Count(todo, "erase", i) = 0
         /\ dino[i].nlink = 0 /\ dino[i].ents = NoEntries
         /\ itab[i].valid => Count(todo, "forget", i) > 0
<1>1. InodeOk(i) /\ todo \in Todos /\ Tree(dino)
  BY DEF IInv, InodesInv, TypesInv, DiskInv
<1>2. PICK u \in Nat, f \in Nat, n \in Nat, e \in Nat, g \in Nat :
        /\ u = Uses(todo, i) /\ f = FilesOf(ftab, i) /\ n = Count(todo, "new", i)
        /\ e = Count(todo, "erase", i) /\ g = Count(todo, "forget", i)
  BY <1>1, UsesNat, FilesOfNat
<1>3. ~(u + f > 0)
  BY <1>1, <1>2 DEF InodeOk, UsedInv
<1>4. ~(n > 0)
  BY <1>1, <1>2 DEF InodeOk, NewInv
<1>5. ~(e > 0)
  BY <1>1, <1>2 DEF InodeOk, EraseInv
<1>6. u = 0 /\ f = 0 /\ n = 0 /\ e = 0
  BY ONLY <1>3, <1>4, <1>5, u \in Nat, f \in Nat, n \in Nat, e \in Nat
<1>7. dino[i].nlink = 0 /\ dino[i].ents = NoEntries
  BY <1>1 DEF Tree, OnlyDirs
<1>8. itab[i].valid => g # 0
  BY <1>1, <1>2 DEF InodeOk, AgreeInv
<1> QED BY <1>2, <1>6, <1>7, <1>8

(* create() takes a free inode.                                            *)
LEMMA CreateDone ==
  ASSUME IInv, NEW p \in Procs, Ready(p, "create"), Found(It(p)) = 0,
         NEW n \in Inums, dino[n].type = "free",
         dino' = [dino EXCEPT ![n].type = TypeOf(It(p).call)], iget(n),
         Then(p, <<On("lock", n), Goal("fill", It(p).dp, n, It(p).call)>>),
         Elsewhere
  PROVE  IInv'
<1>2. PICK x \in Instr :
           /\ It(p) = x /\ x.do = "create" /\ todo[p] = LastT(x)
           /\ Tail(todo[p]) = EndOp /\ Static(x) /\ GoalOk(dino, x)
           /\ \A j \in Inums : Needs(x, j) => Held(p, j)
  BY MiddleIs DEF Middle, DirOps
<1>3. PICK i \in Inums, call \in Calls : i = x.dp /\ call = x.call
  BY <1>2, InstrFields DEF DirOps
<1>4. TypesInv /\ todo \in Todos /\ InodeOk(i) /\ InodeOk(n)
      /\ Tree(dino) /\ Flat(dino)
      /\ itab \in [Inums -> SlotType] /\ todo[p] \in Seq(Instr)
  BY DEF IInv, TypesInv, InodesInv, DiskInv, Todos
<1>5. \A j \in Inums : Needs(x, j) <=> j = i
  BY <1>2, <1>3 DEF Needs, NewOps, DirOps
<1>6. x.do \in Middle
  BY <1>2 DEF Middle, DirOps
<1>7. ASSUME NEW j \in Inums
      PROVE  /\ Holds(todo[p], j) = Is(i, j) /\ Total(todo[p], j) = Is(i, j)
             /\ Has(todo[p], "dir", j) = Is(i, j)
             /\ \A r \in Roles \ {"dir"} : Has(todo[p], r, j) = 0
  <2>0. x.do \in DirOps
    BY <1>2 DEF DirOps
  <2>1. Holds(LastT(x), j) = Is(i, j) /\ Total(LastT(x), j) = Is(i, j)
    BY <1>2, <1>3, <1>6, <2>0, LastSums
  <2>2. \A r : Has(LastT(x), r, j) = Weight(x, r, j)
    BY <1>2, <1>6, LastIs
  <2>3. /\ Weight(x, "dir", j) = Is(i, j)
        /\ \A r \in Roles \ {"dir"} : Weight(x, r, j) = 0
    BY <1>3, <2>0, Weights
  <2> QED BY <1>2, <2>1, <2>2, <2>3
<1>8. Is(i, i) = 1 /\ Is(n, n) = 1
  BY DEF Is
<1>9. dino[i].type = "dir"
  <2>1. Count(todo, "dir", i) > 0
    <3>1. Has(todo[p], "dir", i) = 1
      BY <1>7, <1>8
    <3>2. Has(todo[p], "dir", i) <= Count(todo, "dir", i) /\ Count(todo, "dir", i) \in Nat
      BY <1>4, CountSome
    <3> QED BY <3>1, <3>2
  <2> QED BY <1>4, <2>1 DEF InodeOk, DirInv
<1>10. i # n /\ Is(i, n) = 0
  BY <1>9 DEF Is
<1>11. /\ Uses(todo, n) = 0 /\ FilesOf(ftab, n) = 0
       /\ Count(todo, "new", n) = 0 /\ Count(todo, "erase", n) = 0
       /\ dino[n].nlink = 0 /\ dino[n].ents = NoEntries
       /\ itab[n].valid => Count(todo, "forget", n) > 0
  BY FreeIs
<1>12. /\ \A q \in Procs : Holds(todo[q], n) = 0 /\ Has(todo[q], "new", n) = 0
       /\ \A r \in {"use", "back", "old", "dir"} : Count(todo, r, n) = 0
  BY <1>4, <1>11, UnusedIs

(* The inode on the disk.                                                  *)
<1>13. PICK ty \in {"file", "dir"} : ty = TypeOf(call)
  BY DEF TypeOf
<1>14. PICK r \in InodeType : /\ r = [dino[n] EXCEPT !.type = ty]
          /\ r.type = ty /\ r.nlink = 0 /\ r.ents = NoEntries
  <2>1. PICK r : r = [dino[n] EXCEPT !.type = ty]
    OBVIOUS
  <2>2. dino[n] \in InodeType /\ ty \in Types
    BY <1>4, TreeIs DEF Types
  <2>3. r \in InodeType /\ r.type = ty /\ r.nlink = dino[n].nlink /\ r.ents = dino[n].ents
    BY ONLY <2>1, <2>2 DEF InodeType
  <2> QED BY <1>11, <2>1, <2>3
<1>15. dino' = [dino EXCEPT ![n] = r]
  BY <1>2, <1>3, <1>13, <1>14
<1>16. \A m \in Entries : r.ents[m] = 0
  BY <1>14 DEF NoEntries
<1>17. Tree(dino') /\ Retyped(dino, dino', n)
  <2>1. \A m \in Names : r.ents[m] = 0
    BY <1>16, DirNames
  <2>2. r.nlink > 0 => r.type # "free" /\ (r.type = "dir" => r.ents[".."] # 0)
    BY <1>14
  <2>3. r.type # "dir" => r.ents = NoEntries
    BY <1>14
  <2> QED BY <1>4, <1>11, <1>15, <2>1, <2>2, <2>3, UnlinkedTree
<1>18. dino'[n] = r /\ \A j \in Inums \ {n} : dino'[j] = dino[j]
  BY <1>4, <1>15, TreeIs
<1>19. Flat(dino')
  <2>1. dino'[n].ents[".."] \in {0, ROOTINO}
    BY <1>16, <1>18, DirNames
  <2>2. \A j \in Inums \ {n} : dino'[j] = dino[j]
    BY <1>18
  <2>3. Flat(dino) /\ (Ups => dino'[n].ents[".."] \in {0, ROOTINO})
    BY <1>4, <2>1
  <2> QED BY ONLY <2>2, <2>3, n \in Inums, RetypedFlat

(* What the process has to do.                                             *)
<1>20. PICK g \in Instr :
          /\ g = Goal("fill", i, n, call)
          /\ g.do = "fill" /\ g.dp = i /\ g.ip = n /\ g.call = call
  <2>1. Goal("fill", i, n, call) \in GoalsOf(NewOps, Inums, Inums)
    BY DEF Goal, GoalsOf, NewOps
  <2>2. PICK g \in Instr : g = Goal("fill", i, n, call)
    BY <2>1 DEF Instr
  <2> QED BY <2>2 DEF Goal
<1>21. Static(g) /\ GoalOk(dino', g)
  <2>1. dino[i].ents[".."] # 0
    BY <1>2, <1>3 DEF GoalOk
  <2>2. dino[i].ents[NameOf(call)] = 0
    BY <1>2, <1>3 DEF Found
  <2>3. dino'[i] = dino[i] /\ dino'[n].type = TypeOf(call)
    BY <1>10, <1>13, <1>14, <1>18
  <2>4. GoalOk(dino', g)
    BY <1>20, <2>1, <2>2, <2>3 DEF GoalOk
  <2>5. Ups => (call.op = "mkdir" => i = ROOTINO)
    BY <1>2, <1>3 DEF Static
  <2>6. Static(g)
    BY <1>10, <1>20, <2>5 DEF Static
  <2> QED BY <2>4, <2>6
<1>22. PICK t \in Seq(Instr) : BothFor(t, i, n, g, dino')
  BY <1>10, <1>20, <1>21, BothPick
<1>23. todo' = [todo EXCEPT ![p] = t]
  BY <1>2, <1>3, <1>20, <1>22 DEF Then, BothFor
<1>24. /\ \A j \in Inums : Locking(t, j) <=> Locking(todo[p], j)
       /\ WellFormed(t, HeldFile(p)) /\ GoalsOk(dino', t)
  <2>1. \A j : Locking(LastT(x), j) <=> Needs(x, j)
    BY <1>2, <1>6, LastIs
  <2>2. /\ \A j : Locking(t, j) <=> j = i
        /\ WellFormed(t, HeldFile(p)) /\ GoalsOk(dino', t)
    BY <1>22 DEF BothFor
  <2> QED BY <1>2, <1>5, <2>1, <2>2
<1>25. ASSUME NEW j \in Inums
       PROVE  /\ Holds(t, j) = Is(i, j) /\ Total(t, j) = Is(n, j) + Is(i, j)
              /\ Has(t, "new", j) = Is(n, j) /\ Has(t, "dir", j) = Is(i, j)
              /\ \A r1 \in Roles \ {"new", "dir", "pair"} : Has(t, r1, j) = 0
  <2>1. g.do \in Middle
    BY <1>20 DEF Middle, NewOps
  <2>2. /\ Holds(LastT(g), j) = Is(i, j)
        /\ Total(LastT(g), j) = Is(n, j) + Is(i, j)
    BY <1>20, <1>21, <2>1, LastSums
  <2>3. /\ Weight(g, "new", j) = Is(n, j) /\ Weight(g, "dir", j) = Is(i, j)
        /\ \A r1 \in Roles \ {"new", "dir", "pair"} : Weight(g, r1, j) = 0
    BY <1>20, Weights
  <2>4. "new" \in Roles /\ "dir" \in Roles
    BY DEF Roles
  <2>5. /\ \A r1 \in Roles : Has(t, r1, j) = Weight(g, r1, j)
        /\ Holds(t, j) = Holds(LastT(g), j) /\ Total(t, j) = Total(LastT(g), j)
    BY <1>22 DEF BothFor
  <2> QED BY <2>2, <2>3, <2>4, <2>5
<1>26. ASSUME NEW q \in Procs \ {p} PROVE GoalsOk(dino', todo[q])
  <2>1. \A j \in Inums \ {n} : dino'[j].ents = dino[j].ents /\ dino'[j].type = dino[j].type
    BY <1>18
  <2>2. GoalsKept(dino, dino', todo[q], n)
    BY <1>12 DEF GoalsKept
  <2>3. todo[q] \in Seq(Instr) /\ GoalsOk(dino, todo[q])
    BY <1>4 DEF Todos, IInv, GoalInv
  <2> QED BY ONLY <2>1, <2>2, <2>3, n \in Inums, GoalsStay
<1>27. lock' = lock /\ ftab' = ftab
  BY DEF Elsewhere
<1>28. /\ itab' \in [Inums -> SlotType]
       /\ \A j \in Inums : /\ itab'[j].valid = itab[j].valid
                           /\ itab'[j].type = itab[j].type
                           /\ itab'[j].nlink = itab[j].nlink
                           /\ itab'[j].ref = itab[j].ref + Is(n, j)
                           /\ itab[j].ref \in Nat
  BY <1>4, IgetIs
<1>29. ASSUME NEW j \in Inums, j # n PROVE InodeOk(j)'
  <2>1. Apart(todo[p], t, j)
    <3>1. Is(n, j) = 0
      BY <1>29 DEF Is
    <3>2. \A r1 \in {"new", "erase", "forget", "dir", "old", "back"} :
            Has(t, r1, j) = Has(todo[p], r1, j)
      <4>1. \A r1 \in Roles \ {"dir", "pair"} : Has(t, r1, j) = 0
        BY <1>25, <3>1
      <4>2. Has(t, "dir", j) = Has(todo[p], "dir", j)
        BY <1>7, <1>25
      <4> QED BY <1>7, <4>1, <4>2 DEF Roles
    <3>3. Links(dino', j) \subseteq Links(dino, j)
      BY <1>17 DEF Retyped
    <3>4. itab'[j] = itab[j] /\ dino'[j] = dino[j]
      <4>1. itab' = [itab EXCEPT ![n].ref = itab[n].ref + 1]
        BY DEF iget
      <4> QED BY <1>4, <1>18, <1>29, <4>1
    <3>5. Holds(t, j) = Holds(todo[p], j) /\ Total(t, j) = Total(todo[p], j)
      <4>1. PICK a \in {0, 1} : a = Is(i, j)
        BY DEF Is
      <4> QED BY <1>7, <1>25, <3>1, <4>1
    <3> QED BY <3>2, <3>3, <3>4, <3>5 DEF Apart
  <2>2. Far(todo[p], t, j)
    BY <1>4, <2>1, ApartFar
  <2> QED BY <1>23, <1>27, <1>28, <2>2, FarInode
<1>30. PICK ue \in Todos : ue = todo' /\ ue = [todo EXCEPT ![p] = t]
  BY <1>4, <1>23 DEF Todos
<1>31. InodeOk(n)'
  <2>1. RefInv(n)'
    <3>1. RefInv(n) /\ itab[n].ref \in Nat /\ itab'[n].ref \in Nat
      BY <1>4, <1>28 DEF InodeOk, SlotType
    <3>2. itab'[n].ref + Total(todo[p], n) = itab[n].ref + Total(t, n)
      <4>1. Total(todo[p], n) = 0 /\ Total(t, n) = 1 + 0
        BY <1>7, <1>8, <1>10, <1>25
      <4>2. itab'[n].ref = itab[n].ref + 1
        BY <1>8, <1>28
      <4> QED BY <3>1, <4>1, <4>2
    <3> QED BY <1>4, <1>23, <1>27, <3>1, <3>2, RefStep
  <2>2. SameCounts(todo, ue, p, t)
    BY <1>4, <1>30, CountSame
  <2>3. ASSUME NEW r1 \in Roles \ {"new", "pair"} PROVE Count(ue, r1, n) = Count(todo, r1, n)
    <3>1. Has(t, r1, n) = Has(todo[p], r1, n)
      <4>1. CASE r1 = "dir"
        BY <1>7, <1>25, <4>1
      <4>2. CASE r1 # "dir"
        BY <1>7, <1>25, <2>3, <4>2
      <4> QED BY <4>1, <4>2
    <3> QED BY <2>2, <3>1 DEF SameCounts
  <2>4. /\ Count(ue, "use", n) = 0 /\ Count(ue, "back", n) = 0
        /\ Count(ue, "old", n) = 0 /\ Count(ue, "dir", n) = 0
        /\ Count(ue, "erase", n) = 0
        /\ Count(ue, "forget", n) = Count(todo, "forget", n)
    BY <1>11, <1>12, <2>3 DEF Roles
  <2>5. Count(ue, "new", n) = 1
    <3>1. Replaced(todo, ue, p, t, "new", n)
      BY <1>4, <1>30, CountStep
    <3>2. PICK a, b, c, d \in Nat :
           /\ a = Count(ue, "new", n) /\ b = Has(todo[p], "new", n)
           /\ c = Count(todo, "new", n) /\ d = Has(t, "new", n)
           /\ a + b = c + d /\ b <= c
      BY ONLY <3>1, Figures
    <3>3. b = 0 /\ c = 0 /\ d = 1
      BY <1>8, <1>11, <1>12, <1>25, <3>2
    <3>4. a = 1
      BY ONLY <3>2, <3>3
    <3> QED BY <3>2, <3>4
  <2>6. Uses(ue, n) = 0 /\ FilesOf(ftab', n) = 0
    BY <1>11, <1>27, <2>4 DEF Uses
  <2>7. dino'[n].type # "free" /\ dino'[n].nlink = 0 /\ dino'[n].ents = NoEntries
    BY <1>14, <1>18
  <2>8. UsedInv(n)' /\ NewInv(n)' /\ EraseInv(n)' /\ DirInv(n)' /\ OldInv(n)'
    BY <1>30, <2>4, <2>5, <2>6, <2>7 DEF UsedInv, NewInv, EraseInv, DirInv,
       OldInv
  <2>9. ClaimInv(n)'
    <3>1. Links(dino, n) = {}
      BY <1>4, <1>11, UnlinkedIs
    <3>2. Links(dino', n) = {}
      BY <1>17, <3>1 DEF Retyped
    <3>3. Cardinality(Links(dino', n)) = 0
      BY <3>2, FS_EmptySet
    <3> QED BY <1>30, <2>4, <2>7, <3>3 DEF ClaimInv
  <2>10. AgreeInv(n)'
    <3>1. itab'[n].valid => Count(ue, "forget", n) > 0
      BY <1>11, <1>28, <2>4
    <3> QED BY <1>30, <3>1 DEF AgreeInv
  <2>11. HeldInv(n)'
    BY <1>4, <1>27, <1>28 DEF InodeOk, HeldInv
  <2> QED BY <2>1, <2>8, <2>9, <2>10, <2>11 DEF InodeOk
<1>32. \A j \in Inums : InodeOk(j)'
  BY <1>29, <1>31
<1>33. itab' \in [Inums -> SlotType]
  BY <1>28
<1> QED BY <1>17, <1>19, <1>23, <1>24, <1>26, <1>32, <1>33, DiskStep

(* ialloc(), iget() and ilock() of the new inode (sysfile.c:265): it is    *)
(* free, so nobody else has it, and it has one owner from now on.          *)
LEMMA CreateInv ==
  ASSUME IInv, NEW p \in Procs, Create(p) PROVE IInv'
<1>1. Ready(p, "create") /\ Found(It(p)) = 0 /\ Elsewhere
  BY DEF Create
<1>2. CASE Then(p, iunlockput(It(p).dp)) /\ UNCHANGED <<dino, itab>>
  BY <1>1, <1>2, CreateNone
<1>3. CASE ~(Then(p, iunlockput(It(p).dp)) /\ UNCHANGED <<dino, itab>>)
  <2>1. PICK n \in Inums :
           /\ dino[n].type = "free"
           /\ dino' = [dino EXCEPT ![n].type = TypeOf(It(p).call)] /\ iget(n)
           /\ Then(p, <<On("lock", n), Goal("fill", It(p).dp, n, It(p).call)>>)
    BY <1>3 DEF Create
  <2> QED BY <1>1, <2>1, CreateDone
<1> QED BY <1>2, <1>3

(* iunlockput() of i, and open() or iunlockput() of another inode.         *)
FillFor(t, i, n, new) ==
  /\ (iunlockput(i) \o new) \o EndOp = t
  /\ \A j \in Inums : Locking(t, j) <=> j \in {i, n}
  /\ \A F : WellFormed(t, F)
  /\ \A d : GoalsOk(d, t)
  /\ \A r \in Roles \ {"use"} : \A j : Has(t, r, j) = 0
  /\ \A j : Holds(t, j) = Is(n, j) + Is(i, j)
  /\ \A j : Total(t, j) = Is(n, j) + Is(i, j)

(* s ends a call that has inode n locked.                                  *)
Ends(s, n, new) ==
  /\ new \o EndOp = s /\ new \in Seq(Instr)
  /\ \A j : Locking(s, j) <=> j = n
  /\ \A F : WellFormed(s, F)
  /\ \A d : GoalsOk(d, s)
  /\ \A r \in Roles \ {"use"} : \A j : Has(s, r, j) = 0
  /\ \A j : Holds(s, j) = Is(n, j)
  /\ \A j : Total(s, j) = Is(n, j)

(* open() of a new inode does,                                             *)
LEMMA OpenEnds ==
  ASSUME NEW n \in Inums, NEW new, new = <<On("open", n)>>
  PROVE  \E s \in Seq(Instr) : Ends(s, n, new)
<1>1. PICK y \in Instr : y = On("open", n) /\ y.do = "open" /\ y.ip = n
  BY OnIs DEF IpOps
<1>2. y.do \in Middle /\ y.do \in OldOps /\ Static(y) /\ \A d : GoalOk(d, y)
  BY <1>1 DEF Middle, OldOps, Static, GoalOk
<1>3. PICK s \in Seq(Instr) : s = LastT(y)
  BY <1>2, LastIs
<1>4. /\ \A j : Locking(s, j) <=> Needs(y, j)
      /\ \A F : WellFormed(s, F)
      /\ \A d : GoalsOk(d, s)
      /\ \A r, j : Has(s, r, j) = Weight(y, r, j)
  BY <1>2, <1>3, LastIs
<1>5. \A j : Locking(s, j) <=> j = n
  BY <1>1, <1>4 DEF Needs, NewOps, DirOps
<1>6. ASSUME NEW j PROVE Holds(s, j) = Is(n, j) /\ Total(s, j) = Is(n, j)
  BY <1>1, <1>2, <1>3, LastSums
<1>7. \A r \in Roles \ {"use"} : \A j : Has(s, r, j) = 0
  <2>1. ASSUME NEW j PROVE \A r \in Roles \ {"use"} : Has(s, r, j) = 0
    <3>1. y.do \in {"put", "open", "linkold", "found"}
      BY <1>1
    <3> QED BY <1>4, <3>1, Weights
  <2> QED BY <2>1
<1>8. new \in Seq(Instr) /\ new \o EndOp = s
  <2>1. EndOp \in Seq(Instr)
    BY EndIs
  <2>2. new = <<y>>
    BY <1>1
  <2>3. <<y>> \o EndOp = Cons(y, EndOp)
    BY ONLY <2>1, y \in Instr, ConsConcat
  <2> QED BY <1>3, <2>2, <2>3 DEF LastT
<1> QED BY <1>4, <1>5, <1>6, <1>7, <1>8 DEF Ends

(* and iunlockput().                                                       *)
LEMMA DoneEnds ==
  ASSUME NEW n \in Inums, NEW new, new = iunlockput(n)
  PROVE  \E s \in Seq(Instr) : Ends(s, n, new)
<1>1. PICK s \in Seq(Instr) : s = DoneT(n, EndOp)
  BY DoneEnd
<1>2. /\ \A j : Locking(s, j) <=> j = n
      /\ \A r \in Roles \ {"use"} : \A j : Has(s, r, j) = 0
      /\ \A F : WellFormed(s, F)
      /\ \A d : GoalsOk(d, s)
      /\ \A j : Holds(s, j) = Is(n, j)
      /\ \A j : Total(s, j) = Is(n, j)
  BY <1>1, DoneEnd
<1>3. new \in Seq(Instr) /\ new \o EndOp = s
  BY <1>1, EndIs, Written
<1> QED BY <1>2, <1>3 DEF Ends

(* There is a list that does that.                                         *)
LEMMA FillPick ==
  ASSUME NEW i \in Inums, NEW n \in Inums, i # n,
         NEW new \in {iunlockput(n), <<On("open", n)>>}
  PROVE  \E t \in Seq(Instr) : FillFor(t, i, n, new)
<1>1. PICK s \in Seq(Instr) : Ends(s, n, new)
  BY OpenEnds, DoneEnds
<1>2. PICK t \in Seq(Instr) : t = DoneT(i, s) /\ DoneFor(t, i, s)
  <2>1. ~Locking(s, i)
    BY <1>1 DEF Ends
  <2> QED BY <2>1, DonePick
<1>3. (iunlockput(i) \o new) \o EndOp = t
  <2>1. new \in Seq(Instr) /\ new \o EndOp = s /\ EndOp \in Seq(Instr)
    BY <1>1, EndIs DEF Ends
  <2>3. (iunlockput(i) \o new) \o EndOp = DoneT(i, new \o EndOp)
    BY ONLY <2>1, i \in Inums, WrittenDone
  <2> QED BY <1>2, <2>1, <2>3
<1>4. \A j \in Inums : Locking(t, j) <=> j \in {i, n}
  BY <1>1, <1>2 DEF DoneFor, Ends
<1>5. (\A F : WellFormed(t, F)) /\ (\A d : GoalsOk(d, t))
  BY <1>1, <1>2 DEF DoneFor, Ends
<1>6. \A r \in Roles \ {"use"} : \A j : Has(t, r, j) = 0
  BY <1>1, <1>2 DEF DoneFor, Ends
<1>7. (\A j : Holds(t, j) = Is(n, j) + Is(i, j)) /\ (\A j : Total(t, j) = Is(n, j) + Is(i, j))
  BY <1>1, <1>2 DEF DoneFor, Ends
<1> QED BY <1>3, <1>4, <1>5, <1>6, <1>7 DEF FillFor

(* What is known when create() fills an inode: i is the directory, n the   *)
(* new inode.                                                              *)
Filling(p, x, i, n, call) ==
  /\ It(p) = x /\ x.do = "fill" /\ todo[p] = LastT(x) /\ Tail(todo[p]) = EndOp
  /\ i = x.dp /\ n = x.ip /\ call = x.call /\ i # n
  /\ Static(x) /\ GoalOk(dino, x) /\ x.do \in Middle
  /\ \A j \in Inums : Needs(x, j) <=> j \in {i, n}
  /\ Held(p, i) /\ Held(p, n)
  /\ dino[n].type = TypeOf(call) /\ dino[n].nlink = 0 /\ dino[n].ents = NoEntries
  /\ dino[i].type = "dir"
  /\ \A j \in Inums :
       /\ Holds(todo[p], j) = Is(i, j) /\ Total(todo[p], j) = Is(n, j) + Is(i, j)
       /\ Has(todo[p], "new", j) = Is(n, j) /\ Has(todo[p], "dir", j) = Is(i, j)
       /\ \A r \in Roles \ {"new", "dir", "pair"} : Has(todo[p], r, j) = 0

(* All that is known when it does.                                         *)
LEMMA FillingIs ==
  ASSUME IInv, NEW p \in Procs, Ready(p, "fill")
  PROVE  \E x \in Instr, i \in Inums, n \in Inums, call \in Calls :
           Filling(p, x, i, n, call)
<1>1. PICK x \in Instr :
           /\ It(p) = x /\ x.do = "fill" /\ todo[p] = LastT(x)
           /\ Tail(todo[p]) = EndOp /\ Static(x) /\ GoalOk(dino, x)
           /\ \A j \in Inums : Needs(x, j) => Held(p, j)
  BY MiddleIs DEF Middle, NewOps
<1>2. PICK i \in Inums, n \in Inums, call \in Calls :
         i = x.dp /\ n = x.ip /\ call = x.call
  BY <1>1, InstrFields DEF NewOps
<1>3. TypesInv /\ todo \in Todos /\ InodeOk(i) /\ InodeOk(n) /\ todo[p] \in Seq(Instr)
  BY DEF IInv, TypesInv, InodesInv, Todos
<1>4. \A j \in Inums : Needs(x, j) <=> j \in {i, n}
  BY <1>1, <1>2 DEF Needs, NewOps, DirOps
<1>5. Held(p, i) /\ Held(p, n)
  BY <1>1, <1>4
<1>6. x.do \in Middle /\ i # n
  BY <1>1, <1>2 DEF Middle, NewOps, Static
<1>7. ASSUME NEW j \in Inums
       PROVE  /\ Holds(todo[p], j) = Is(i, j)
              /\ Total(todo[p], j) = Is(n, j) + Is(i, j)
              /\ Has(todo[p], "new", j) = Is(n, j) /\ Has(todo[p], "dir", j) = Is(i, j)
              /\ \A r1 \in Roles \ {"new", "dir", "pair"} : Has(todo[p], r1, j) = 0
  <2>2. /\ Holds(LastT(x), j) = Is(i, j)
        /\ Total(LastT(x), j) = Is(n, j) + Is(i, j)
    BY <1>1, <1>2, <1>6, LastSums
  <2>3. /\ Weight(x, "new", j) = Is(n, j) /\ Weight(x, "dir", j) = Is(i, j)
        /\ \A r1 \in Roles \ {"new", "dir", "pair"} : Weight(x, r1, j) = 0
    BY <1>1, <1>2, Weights
  <2>4. \A r1 : Has(LastT(x), r1, j) = Weight(x, r1, j)
    BY <1>1, <1>6, LastIs
  <2> QED BY <1>1, <2>2, <2>3, <2>4
<1>8. Is(i, i) = 1 /\ Is(n, n) = 1
  BY DEF Is
<1>9. dino[i].type = "dir"
  <2>1. Count(todo, "dir", i) > 0
    <3>1. Has(todo[p], "dir", i) = 1
      BY <1>7, <1>8
    <3>2. Has(todo[p], "dir", i) <= Count(todo, "dir", i) /\ Count(todo, "dir", i) \in Nat
      BY <1>3, CountSome
    <3> QED BY <3>1, <3>2
  <2> QED BY <1>3, <2>1 DEF InodeOk, DirInv
<1>10. dino[n].nlink = 0 /\ dino[n].ents = NoEntries
  <2>1. Count(todo, "new", n) > 0
    <3>1. Has(todo[p], "new", n) = 1
      BY <1>7, <1>8
    <3>2. Has(todo[p], "new", n) <= Count(todo, "new", n) /\ Count(todo, "new", n) \in Nat
      BY <1>3, CountSome
    <3> QED BY <3>1, <3>2
  <2> QED BY <1>3, <2>1 DEF InodeOk, NewInv
<1>11. dino[n].type = TypeOf(call)
  BY <1>1, <1>2 DEF GoalOk
<1>12. Filling(p, x, i, n, call)
  BY <1>1, <1>2, <1>4, <1>5, <1>6, <1>7, <1>9, <1>10, <1>11 DEF Filling
<1> QED BY <1>12

(* The new inode is written, with m links.                                 *)
Written1(d, e, r, i, n, m) ==
  /\ e = [d EXCEPT ![n] = r] /\ r.nlink = m /\ r.type = d[n].type
  /\ Tree(e) /\ Flat(e) /\ Retyped(d, e, n) /\ e[n] = r
  /\ Links(d, n) = {} /\ Links(e, n) = {} /\ ~Named(e, n)
  /\ \A name \in Names : r.ents[name] = 0
  /\ r.type = "dir" => r.ents[".."] = i
  /\ SameShape(d, e, n)

(* The record of the new inode is a sound one, without links so far.       *)
LEMMA FilledIs ==
  ASSUME IInv, NEW p, NEW x, NEW i \in Inums, NEW n \in Inums,
         NEW call, Filling(p, x, i, n, call), NEW m \in Nat,
         NEW r, r = Filled(x, m), NEW e, e = [dino EXCEPT ![n] = r]
  PROVE  r \in InodeType /\ Written1(dino, e, r, i, n, m)
<1>1. /\ i = x.dp /\ n = x.ip /\ call = x.call /\ x.do = "fill" /\ Static(x)
      /\ dino[n].type = TypeOf(call) /\ dino[n].nlink = 0 /\ dino[n].ents = NoEntries
  BY DEF Filling
<1>2. Tree(dino) /\ Flat(dino)
  BY DEF IInv, DiskInv
<1>3. dino[n] \in InodeType
  BY <1>2, TreeIs
<1>4. PICK up \in 0 .. NINODES : up = IF call.op = "mkdir" THEN i ELSE 0
  BY DirNames
<1>5. PICK ents \in [Entries -> 0 .. NINODES] :
        /\ ents = [dino[n].ents EXCEPT ![".."] = up]
        /\ ents[".."] = up /\ \A name \in Names : ents[name] = 0
  <2>1. NoEntries \in [Entries -> 0 .. NINODES]
    BY DirNames DEF NoEntries
  <2>2. PICK ents : ents = [NoEntries EXCEPT ![".."] = up]
    OBVIOUS
  <2>3. ents \in [Entries -> 0 .. NINODES] /\ ents[".."] = up
    BY <2>1, <2>2, DirNames
  <2>4. \A name \in Names : ents[name] = 0
    <3>1. ASSUME NEW name \in Names PROVE ents[name] = 0
      <4>1. name \in Entries /\ name # ".."
        BY DirNames
      <4>2. NoEntries[name] = 0
        BY <4>1 DEF NoEntries
      <4> QED BY <2>1, <2>2, <4>1, <4>2
    <3> QED BY <3>1
  <2> QED BY <1>1, <2>2, <2>3, <2>4
<1>6. r = [dino[n] EXCEPT !.nlink = m, !.ents = ents]
  <2>1. r = [dino[n] EXCEPT !.nlink = m, !.ents[".."] = up]
    BY <1>1, <1>4 DEF Filled
  <2> QED BY <1>5, <2>1
<1>7. r \in InodeType /\ r.type = dino[n].type /\ r.nlink = m /\ r.ents = ents
  BY ONLY <1>3, <1>6, m \in Nat, ents \in [Entries -> 0 .. NINODES] DEF
     InodeType
<1>8. r.type # "dir" => r.ents = NoEntries
  <2>1. SUFFICES ASSUME r.type # "dir" PROVE ents = NoEntries
    BY <1>7
  <2>2. up = 0
    BY <1>1, <1>4, <1>7, <2>1 DEF TypeOf
  <2>3. \A name \in Entries : ents[name] = 0
    BY <1>5, <2>2, DirNames
  <2> QED BY <2>3 DEF NoEntries
<1>9. r.type = "dir" => r.ents[".."] = i
  BY <1>1, <1>4, <1>5, <1>7 DEF TypeOf
<1>10. \A name \in Names : r.ents[name] = 0
  BY <1>5, <1>7
<1>11. r.nlink > 0 => r.type # "free" /\ (r.type = "dir" => r.ents[".."] # 0)
  BY <1>1, <1>7, <1>9, DirNames DEF TypeOf
<1>12. Tree(e) /\ Retyped(dino, e, n)
  BY <1>1, <1>2, <1>7, <1>8, <1>10, <1>11, UnlinkedTree
<1>13. e[n] = r /\ \A j \in Inums \ {n} : e[j] = dino[j]
  BY <1>2, TreeIs
<1>14. Flat(e)
  <2>1. Ups => e[n].ents[".."] \in {0, ROOTINO}
    <3>1. Ups => up \in {0, ROOTINO}
      BY <1>1, <1>4 DEF Static
    <3> QED BY <1>5, <1>7, <1>13, <3>1
  <2>2. \A j \in Inums \ {n} : e[j] = dino[j]
    BY <1>13
  <2>3. Flat(dino)
    BY <1>2
  <2> QED BY ONLY <2>1, <2>2, <2>3, n \in Inums, RetypedFlat
<1>15. Links(dino, n) = {} /\ ~Named(dino, n)
       /\ \A k \in Inums, name \in Names : dino[k].ents[name] # n
       /\ n # ROOTINO
  BY <1>1, <1>2, UnlinkedIs
<1>16. Links(e, n) = {}
  BY <1>12, <1>15 DEF Retyped
<1>17. ~Named(e, n)
  <2>1. \A k \in Inums, name \in Names : e[k].ents[name] # n
    BY <1>10, <1>13, <1>15, DirNames
  <2> QED BY <1>15, <2>1 DEF Named
<1>18. SameShape(dino, e, n)
  <2>1. dino[n].ents[".."] = 0
    BY <1>1, DirNames DEF NoEntries
  <2> QED BY <1>7, <1>13, <2>1 DEF SameShape
<1> QED BY <1>7, <1>9, <1>10, <1>12, <1>13, <1>14, <1>15, <1>16, <1>17, <1>18
   DEF Written1

(* The new inode, when create() has filled it.                             *)
LEMMA FilledInode ==
  ASSUME IInv, NEW p \in Procs, NEW x, NEW i \in Inums, NEW n \in Inums,
         NEW call, Filling(p, x, i, n, call), NEW t \in Seq(Instr),
         todo' = [todo EXCEPT ![p] = t], ftab' = ftab, lock' = lock,
         itab' \in [Inums -> SlotType],
         \A r \in Roles \ {"use"} : Has(t, r, n) = 0, Total(t, n) = 1,
         itab'[n].ref = itab[n].ref, itab'[n].valid = itab[n].valid,
         itab'[n].type = itab[n].type, dino'[n].type = dino[n].type,
         dino'[n].nlink = itab'[n].nlink,
         Cardinality(Links(dino', n)) <= dino'[n].nlink
  PROVE  InodeOk(n)'
<1>1. Is(n, n) = 1 /\ Is(i, n) = 0
  BY DEF Is, Filling
<1>2. Total(todo[p], n) = 1 /\ Has(todo[p], "new", n) = 1
      /\ Has(todo[p], "forget", n) = 0
  BY <1>1 DEF Filling, Roles
<1>3. /\ Has(t, "new", n) = 0 /\ Has(t, "forget", n) = 0
      /\ \A r \in {"dir", "old", "back", "erase"} : Has(t, r, n) = 0
  BY DEF Roles
<1>4. Settled(todo[p], t, n)
  BY <1>2, <1>3 DEF Settled
<1> QED BY <1>4, SettledInode

(* create() gives the inode back.                                          *)
LEMMA FillFailsInv ==
  ASSUME IInv, NEW p \in Procs, FillFails(p) PROVE IInv'
<1>1. PICK x \in Instr, i \in Inums, n \in Inums, call \in Calls :
           Filling(p, x, i, n, call)
  BY FillingIs DEF FillFails
<1>2. TypesInv /\ todo \in Todos /\ Tree(dino) /\ Flat(dino)
      /\ itab \in [Inums -> SlotType] /\ todo[p] \in Seq(Instr)
  BY DEF IInv, TypesInv, DiskInv, Todos
<1>3. /\ It(p) = x /\ todo[p] = LastT(x) /\ Tail(todo[p]) = EndOp
      /\ i = x.dp /\ n = x.ip /\ i # n /\ x.do \in Middle /\ Static(x)
      /\ \A j \in Inums : Needs(x, j) <=> j \in {i, n}
      /\ lock[n] = p
  BY <1>1 DEF Filling, Held
<1>4. PICK r : r = Filled(x, 0)
  OBVIOUS
<1>5. /\ dino' = [dino EXCEPT ![n] = r]
      /\ itab' = [itab EXCEPT ![n].nlink = 0]
      /\ Then(p, iunlockput(n) \o iunlockput(i)) /\ Elsewhere
  BY <1>3, <1>4 DEF FillFails
<1>6. Written1(dino, dino', r, i, n, 0)
  BY <1>1, <1>4, <1>5, FilledIs
<1>7. PICK t \in Seq(Instr) : FillFor(t, n, i, iunlockput(i))
  BY <1>3, FillPick
<1>8. todo' = [todo EXCEPT ![p] = t]
  BY <1>3, <1>5, <1>7 DEF FillFor, Then
<1>9. SlotMoved(itab, itab', n, 0)
  BY <1>2, <1>5, SlotNlink
<1>10. itab' \in [Inums -> SlotType] /\ lock' = lock /\ ftab' = ftab
  BY <1>5, <1>9 DEF SlotMoved, Elsewhere
<1>11. /\ \A r1 \in Roles \ {"use"} : \A j : Has(t, r1, j) = 0
       /\ \A j : Holds(t, j) = Is(i, j) + Is(n, j)
       /\ \A j : Total(t, j) = Is(i, j) + Is(n, j)
  BY <1>7 DEF FillFor
<1>12. ASSUME NEW j \in Inums, j # n PROVE InodeOk(j)'
  <2>1. PICK a \in {0, 1} : a = Is(i, j)
    BY DEF Is
  <2>2. Is(n, j) = 0
    BY <1>12 DEF Is
  <2>3. /\ Holds(todo[p], j) = a /\ Total(todo[p], j) = a
        /\ Has(todo[p], "new", j) = 0 /\ Has(todo[p], "dir", j) = a
        /\ Has(todo[p], "back", j) = 0 /\ Has(todo[p], "old", j) = 0
        /\ Has(todo[p], "erase", j) = 0 /\ Has(todo[p], "forget", j) = 0
    BY <1>1, <2>1, <2>2 DEF Filling, Roles
  <2>4. /\ Holds(t, j) = a /\ Total(t, j) = a
        /\ Has(t, "new", j) = 0 /\ Has(t, "dir", j) = 0
        /\ Has(t, "back", j) = 0 /\ Has(t, "old", j) = 0
        /\ Has(t, "erase", j) = 0 /\ Has(t, "forget", j) = 0
    BY <1>11, <2>1, <2>2 DEF Roles
  <2>5. itab'[j] = itab[j] /\ dino'[j] = dino[j]
    BY <1>6, <1>9, <1>12 DEF SlotMoved, Written1, Retyped
  <2>6. Cardinality(Links(dino', j)) <= Cardinality(Links(dino, j))
    <3>1. Links(dino', j) \subseteq Links(dino, j)
      BY <1>6 DEF Written1, Retyped
    <3> QED BY <3>1, LinksLess
  <2>7. QuietHas(todo[p], t, dino, j)
    BY <2>1, <2>3, <2>4 DEF QuietHas
  <2>8. Far(todo[p], t, j)
    BY <2>3, <2>4, <2>5, <2>6, <2>7 DEF Far
  <2> QED BY <1>8, <1>10, <2>8, FarInode
<1>13. InodeOk(n)'
  <2>1. Is(n, n) = 1 /\ Is(i, n) = 0
    BY <1>3 DEF Is
  <2>2. \A r1 \in Roles \ {"use"} : Has(t, r1, n) = 0
    BY <1>11
  <2>3. Total(t, n) = 1
    BY <1>11, <2>1
  <2>4. /\ itab'[n].ref = itab[n].ref /\ itab'[n].valid = itab[n].valid
        /\ itab'[n].type = itab[n].type /\ dino'[n].type = dino[n].type
        /\ dino'[n].nlink = itab'[n].nlink /\ dino'[n].nlink = 0
    BY <1>6, <1>9 DEF SlotMoved, Written1
  <2>5. Cardinality(Links(dino', n)) <= dino'[n].nlink
    <3>1. Links(dino', n) = {}
      BY <1>6 DEF Written1
    <3> QED BY <2>4, <3>1, FS_EmptySet
  <2> QED BY <1>1, <1>8, <1>10, <2>2, <2>3, <2>4, <2>5, FilledInode
<1>14. \A j \in Inums : InodeOk(j)'
  BY <1>12, <1>13
<1>15. WellFormed(t, HeldFile(p)) /\ GoalsOk(dino', t)
  BY <1>7 DEF FillFor
<1>16. \A j \in Inums : Locking(t, j) <=> Needs(x, j)
  BY <1>3, <1>7 DEF FillFor
<1>17. Tree(dino') /\ Flat(dino') /\ SameShape(dino, dino', n)
  BY <1>6 DEF Written1
<1>18. Elsewhere
  BY <1>5
<1> QED BY <1>3, <1>8, <1>10, <1>14, <1>15, <1>16, <1>17, <1>18, DirStep

(* create() fills the inode and makes the name.                            *)
LEMMA FillInv ==
  ASSUME IInv, NEW p \in Procs, Fill(p) PROVE IInv'
<1>1. PICK x \in Instr, i \in Inums, n \in Inums, call \in Calls :
           Filling(p, x, i, n, call)
  BY FillingIs DEF Fill
<1>2. TypesInv /\ todo \in Todos /\ Tree(dino) /\ Flat(dino)
      /\ itab \in [Inums -> SlotType] /\ todo[p] \in Seq(Instr)
  BY DEF IInv, TypesInv, DiskInv, Todos
<1>3. /\ It(p) = x /\ todo[p] = LastT(x) /\ Tail(todo[p]) = EndOp
      /\ i = x.dp /\ n = x.ip /\ call = x.call /\ i # n /\ x.do = "fill"
      /\ x.do \in Middle /\ Static(x)
      /\ \A j \in Inums : Needs(x, j) <=> j \in {i, n}
      /\ lock[n] = p /\ lock[i] = p /\ itab[i].nlink = dino[i].nlink
      /\ dino[n].type = TypeOf(call) /\ dino[i].type = "dir"
  BY <1>1 DEF Filling, Held
<1>4. PICK r : r = Filled(x, 1)
  OBVIOUS
<1>5. PICK d1 : d1 = [dino EXCEPT ![n] = r]
  OBVIOUS
<1>6. r \in InodeType /\ Written1(dino, d1, r, i, n, 1)
  BY <1>1, <1>4, <1>5, FilledIs
<1>7. PICK k \in {0, 1} : k = IF call.op = "mkdir" THEN 1 ELSE 0
  OBVIOUS
<1>8. PICK h \in Nat, up \in Nat : h = dino[i].nlink /\ up = h + k
  BY <1>2, TreeIs

(* The name.                                                               *)
<1>9. PICK name \in Names : name = NameOf(call) /\ dino[i].ents[name] = 0
  <2>1. GoalOk(dino, x)
    BY <1>1 DEF Filling
  <2>2. dino[i].ents[NameOf(call)] = 0 /\ dino[i].ents[".."] # 0
    BY <1>3, <2>1 DEF GoalOk
  <2>3. NameOf(call) \in Entries
    BY NameIs
  <2> QED BY <2>2, <2>3, DirNames
<1>10. name \in Entries /\ name # ".." /\ ".." \in Entries
  BY DirNames
<1>11. dino[i].ents[".."] # 0
  BY <1>1, <1>3 DEF Filling, GoalOk
<1>12. PICK ents \in [Entries -> 0 .. NINODES] :
         ents = [dino[i].ents EXCEPT ![name] = n]
  <2>1. dino[i].ents \in [Entries -> 0 .. NINODES] /\ n \in 0 .. NINODES
    BY <1>2, TreeIs, DirNames
  <2> QED BY <2>1
<1>13. PICK s \in InodeType : /\ s = [dino[i] EXCEPT !.ents = ents, !.nlink = up]
         /\ s.type = dino[i].type /\ s.nlink = up /\ s.ents = ents
  <2>1. PICK s : s = [dino[i] EXCEPT !.ents = ents, !.nlink = up]
    OBVIOUS
  <2>2. dino[i] \in InodeType
    BY <1>2, TreeIs
  <2>3. s \in InodeType /\ s.type = dino[i].type /\ s.nlink = up /\ s.ents = ents
    BY ONLY <2>1, <2>2, ents \in [Entries -> 0 .. NINODES], up \in Nat DEF
       InodeType
  <2> QED BY <2>1, <2>3
<1>14. PICK new \in {iunlockput(n), <<On("open", n)>>} :
         new = IF call.op = "mkdir" THEN iunlockput(n) ELSE <<On("open", n)>>
  OBVIOUS
<1>15. PICK t \in Seq(Instr) : FillFor(t, i, n, new)
  BY <1>3, FillPick
<1>16. itab[i].nlink + (IF call.op = "mkdir" THEN 1 ELSE 0) = up
  BY <1>3, <1>7, <1>8
<1>17. /\ dino' = [dino EXCEPT ![n] = r, ![i] =
                     [dino[i] EXCEPT !.ents[name] = n, !.nlink = up]]
       /\ itab' = [itab EXCEPT ![n].nlink = 1, ![i].nlink = up]
       /\ Then(p, iunlockput(i) \o new)
       /\ Elsewhere
  <2>1. dino' = [dino EXCEPT ![n] = r, ![i] =
                     [dino[i] EXCEPT !.ents[name] = n, !.nlink = up]]
    BY <1>2, <1>3, <1>4, <1>9, <1>16 DEF Fill
  <2>2. itab' = [itab EXCEPT ![n].nlink = 1, ![i].nlink = up]
    BY <1>3, <1>16 DEF Fill
  <2>3. Then(p, iunlockput(i) \o new)
    BY <1>3, <1>14 DEF Fill
  <2>4. Elsewhere
    BY DEF Fill
  <2> QED BY <2>1, <2>2, <2>3, <2>4
<1>18. todo' = [todo EXCEPT ![p] = t]
  BY <1>3, <1>15, <1>17 DEF FillFor, Then
<1>19. dino' = [d1 EXCEPT ![i] = s]
  BY <1>5, <1>12, <1>13, <1>17
<1>20. /\ Tree(d1) /\ Flat(d1) /\ Retyped(dino, d1, n) /\ d1[n] = r
       /\ d1[i] = dino[i] /\ r.nlink = 1 /\ r.type = dino[n].type
       /\ \A m \in Names : d1[n].ents[m] = 0
       /\ d1[n].type = "dir" => d1[n].ents[".."] = i /\ ~Named(d1, n)
       /\ Links(d1, n) = {}
  BY <1>3, <1>6 DEF Written1, Retyped
<1>21. d1[n].type = "dir" <=> call.op = "mkdir"
  BY <1>3, <1>20 DEF TypeOf
<1>22. Added(d1, dino', n, i, name)
  <2>1. s.ents = [d1[i].ents EXCEPT ![name] = n] /\ d1[i].ents[name] = 0
    BY <1>9, <1>12, <1>13, <1>20
  <2>2. Tree(d1) /\ n # i /\ dino' = [d1 EXCEPT ![i] = s]
    BY <1>3, <1>19, <1>20
  <2>3. /\ \A m \in Names : d1[n].ents[m] = 0
        /\ d1[n].type = "dir" => d1[n].ents[".."] = i /\ ~Named(d1, n)
    BY <1>20
  <2> QED BY ONLY <2>1, <2>2, <2>3, n \in Inums, i \in Inums, name \in Names,
             s \in InodeType, AddedIs
<1>23. Tree(dino') /\ Flat(dino')
  <2>1. Cardinality(Links(d1, n)) + 1 <= d1[n].nlink
    BY <1>20, FS_EmptySet
  <2>2. s.nlink = d1[i].nlink + (IF d1[n].type = "dir" THEN 1 ELSE 0)
    BY <1>7, <1>8, <1>13, <1>20, <1>21
  <2>3. /\ s.type = "dir" /\ s.ents = [d1[i].ents EXCEPT ![name] = n]
        /\ d1[i].type = "dir" /\ d1[i].ents[name] = 0 /\ d1[i].ents[".."] # 0
    BY <1>3, <1>9, <1>11, <1>12, <1>13, <1>20
  <2>4. Addable(d1, dino', n, i, name, s)
    BY <1>3, <1>19, <1>20, <2>1, <2>2, <2>3 DEF Addable
  <2>5. Tree(dino') /\ (Flat(d1) => Flat(dino'))
    BY <2>4, AddedTree
  <2> QED BY <1>20, <2>5
<1>24. dino'[i] = s /\ \A j \in Inums \ {i} : dino'[j] = d1[j]
  BY <1>19, <1>20, TreeIs
<1>25. \A j \in Inums \ {i, n} : dino'[j] = dino[j]
  BY <1>20, <1>24 DEF Retyped
<1>26. ASSUME NEW q \in Procs \ {p} PROVE GoalsOk(dino', todo[q])
  <2>1. GoalsOk(dino, todo[q])
    BY DEF IInv, GoalInv
  <2>2. SameShape(dino, d1, n) /\ lock[n] = p /\ lock[i] = p
    BY <1>3, <1>6 DEF Written1
  <2>3. GoalsOk(d1, todo[q])
    BY <2>1, <2>2, OthersStay
  <2>4. SameShape(d1, dino', i)
    <3>1. s.ents[".."] = dino[i].ents[".."]
      BY <1>2, <1>10, <1>12, <1>13, TreeIs
    <3> QED BY <1>13, <1>20, <1>24, <3>1 DEF SameShape
  <2> QED BY <2>2, <2>3, <2>4, OthersStay
<1>27. PICK mid : mid = [itab EXCEPT ![n].nlink = 1] /\ SlotMoved(itab, mid, n, 1)
  <2>1. PICK mid : mid = [itab EXCEPT ![n].nlink = 1]
    OBVIOUS
  <2>2. SlotMoved(itab, mid, n, 1)
    BY <1>2, <2>1, SlotNlink
  <2> QED BY <2>1, <2>2
<1>28. SlotMoved(mid, itab', i, up)
  <2>1. itab' = [mid EXCEPT ![i].nlink = up]
    BY <1>17, <1>27
  <2>2. mid \in [Inums -> SlotType]
    BY <1>27 DEF SlotMoved
  <2> QED BY <2>1, <2>2, SlotNlink
<1>29. itab' \in [Inums -> SlotType] /\ lock' = lock /\ ftab' = ftab
  BY <1>17, <1>28 DEF SlotMoved, Elsewhere
<1>30. \A j \in Inums \ {i, n} : itab'[j] = itab[j]
  BY <1>27, <1>28 DEF SlotMoved

(* What the process has.                                                   *)
<1>31. /\ \A r1 \in Roles \ {"use"} : \A j : Has(t, r1, j) = 0
       /\ \A j : Holds(t, j) = Is(n, j) + Is(i, j)
       /\ \A j : Total(t, j) = Is(n, j) + Is(i, j)
  BY <1>15 DEF FillFor
<1>32. \A j \in Inums :
       /\ Holds(todo[p], j) = Is(i, j) /\ Total(todo[p], j) = Is(n, j) + Is(i, j)
       /\ Has(todo[p], "new", j) = Is(n, j) /\ Has(todo[p], "dir", j) = Is(i, j)
       /\ \A r1 \in Roles \ {"new", "dir", "pair"} : Has(todo[p], r1, j) = 0
  BY <1>1 DEF Filling
<1>33. Is(i, i) = 1 /\ Is(n, n) = 1 /\ Is(i, n) = 0 /\ Is(n, i) = 0
  BY <1>3 DEF Is
<1>34. ASSUME NEW j \in Inums, j # i, j # n PROVE InodeOk(j)'
  <2>1. Apart(todo[p], t, j)
    <3>1. Is(i, j) = 0 /\ Is(n, j) = 0
      BY <1>34 DEF Is
    <3>2. \A r1 \in {"new", "erase", "forget", "dir", "old", "back"} :
            Has(t, r1, j) = Has(todo[p], r1, j)
      <4>1. \A r1 \in Roles \ {"pair"} : Has(todo[p], r1, j) = 0
        BY <1>32, <3>1
      <4> QED BY <1>31, <4>1 DEF Roles
    <3>3. Links(dino', j) \subseteq Links(dino, j)
      <4>1. Links(dino', j) \subseteq Links(d1, j)
        BY <1>22, <1>34 DEF Added
      <4>2. Links(d1, j) \subseteq Links(dino, j)
        BY <1>20 DEF Retyped
      <4> QED BY <4>1, <4>2
    <3>4. itab'[j] = itab[j] /\ dino'[j] = dino[j]
      BY <1>25, <1>30, <1>34
    <3>5. Holds(t, j) = Holds(todo[p], j) /\ Total(t, j) = Total(todo[p], j)
      BY <1>31, <1>32, <3>1
    <3> QED BY <3>2, <3>3, <3>4, <3>5 DEF Apart
  <2>2. Far(todo[p], t, j)
    BY <1>2, <2>1, ApartFar
  <2> QED BY <1>18, <1>29, <2>2, FarInode
<1>35. InodeOk(n)'
  <2>2. \A r1 \in Roles \ {"use"} : Has(t, r1, n) = 0
    BY <1>31
  <2>3. Total(t, n) = 1
    BY <1>31, <1>33
  <2>4. /\ itab'[n].ref = itab[n].ref /\ itab'[n].valid = itab[n].valid
        /\ itab'[n].type = itab[n].type /\ dino'[n].type = dino[n].type
        /\ dino'[n].nlink = itab'[n].nlink /\ dino'[n].nlink = 1
    <3>1. mid \in [Inums -> SlotType] /\ itab'[n] = mid[n]
      BY <1>3, <1>27, <1>28 DEF SlotMoved
    <3>2. /\ mid[n].ref = itab[n].ref /\ mid[n].valid = itab[n].valid
          /\ mid[n].type = itab[n].type /\ mid[n].nlink = 1
      BY <1>27 DEF SlotMoved
    <3>3. dino'[n] = d1[n] /\ d1[n].type = dino[n].type /\ d1[n].nlink = 1
      BY <1>3, <1>20, <1>24
    <3> QED BY ONLY <3>1, <3>2, <3>3
  <2>5. Cardinality(Links(dino', n)) <= dino'[n].nlink
    <3>1. Links(dino', n) \subseteq Links(d1, n) \cup {<<i, name>>}
      BY <1>22 DEF Added
    <3>2. Cardinality(Links(dino', n)) <= Cardinality(Links(d1, n)) + 1
      BY <3>1, LinksMore
    <3>3. Cardinality(Links(d1, n)) = 0
      BY <1>20, FS_EmptySet
    <3> QED BY <2>4, <3>2, <3>3
  <2> QED BY <1>1, <1>18, <1>29, <2>2, <2>3, <2>4, <2>5, FilledInode
<1>36. InodeOk(i)'
  <2>2. /\ Holds(todo[p], i) = 1 /\ Total(todo[p], i) = 1
        /\ Has(todo[p], "back", i) = 0 /\ Has(todo[p], "old", i) = 0
        /\ Has(todo[p], "new", i) = 0 /\ Has(todo[p], "erase", i) = 0
        /\ Has(todo[p], "forget", i) = 0
    BY <1>32, <1>33 DEF Roles
  <2>3. /\ Holds(t, i) = 1 /\ Total(t, i) = 1
        /\ Has(t, "back", i) = 0 /\ Has(t, "old", i) = 0 /\ Has(t, "dir", i) = 0
        /\ Has(t, "new", i) = 0 /\ Has(t, "erase", i) = 0
        /\ Has(t, "forget", i) = 0
    BY <1>31, <1>33 DEF Roles
  <2>4. /\ dino'[i].type = dino[i].type /\ dino'[i].nlink = up
        /\ itab'[i].ref = itab[i].ref /\ itab'[i].valid = itab[i].valid
        /\ itab'[i].type = itab[i].type /\ itab'[i].nlink = up
    BY <1>3, <1>13, <1>24, <1>27, <1>28 DEF SlotMoved
  <2>5. PICK a \in Nat, b \in Nat :
          /\ a = Cardinality(Links(dino', i)) /\ b = Cardinality(Links(dino, i))
          /\ a <= b + k
    <3>1. PICK a \in Nat, b \in Nat, c \in Nat :
            /\ a = Cardinality(Links(dino', i)) /\ b = Cardinality(Links(dino, i))
            /\ c = Cardinality(Links(d1, i))
      BY LinksFinite
    <3>2. c <= b
      <4>1. Links(d1, i) \subseteq Links(dino, i)
        BY <1>20 DEF Retyped
      <4>2. Cardinality(Links(d1, i)) <= Cardinality(Links(dino, i))
        BY <4>1, LinksLess
      <4> QED BY <3>1, <4>2
    <3>3. CASE call.op = "mkdir"
      <4>1. Links(dino', i) \subseteq Links(d1, i) \cup {<<n, "..">>}
        BY <1>22 DEF Added
      <4>2. Cardinality(Links(dino', i)) <= Cardinality(Links(d1, i)) + 1
        BY <4>1, LinksMore
      <4> QED BY <1>7, <3>1, <3>2, <3>3, <4>2
    <3>4. CASE call.op # "mkdir"
      <4>1. Links(dino', i) \subseteq Links(d1, i)
        BY <1>21, <1>22, <3>4 DEF Added
      <4>2. Cardinality(Links(dino', i)) <= Cardinality(Links(d1, i))
        BY <4>1, LinksLess
      <4> QED BY <1>7, <3>1, <3>2, <3>4, <4>2
    <3> QED BY <3>3, <3>4
  <2>6. a + 0 + 0 + h <= b + 0 + 0 + up
    BY <1>8, <2>5
  <2>7. Touched(todo[p], t, i)
    <3>1. Cardinality(Links(dino', i)) + Has(t, "back", i) + Has(t, "old", i)
            + dino[i].nlink
          <= Cardinality(Links(dino, i)) + Has(todo[p], "back", i)
            + Has(todo[p], "old", i) + dino'[i].nlink
      BY <1>8, <2>2, <2>3, <2>4, <2>5, <2>6
    <3>2. itab[i].ref \in Nat
      BY <1>2 DEF SlotType
    <3> QED BY <2>2, <2>3, <2>4, <3>1, <3>2 DEF Touched
  <2> QED BY <1>18, <1>29, <2>7, TouchedInode
<1>37. \A j \in Inums : InodeOk(j)'
  BY <1>34, <1>35, <1>36
<1>38. WellFormed(t, HeldFile(p)) /\ GoalsOk(dino', t)
  BY <1>15 DEF FillFor
<1>39. \A j \in Inums : Locking(t, j) <=> Locking(todo[p], j)
  <2>1. \A j : Locking(LastT(x), j) <=> Needs(x, j)
    BY <1>3, LastIs
  <2>2. \A j \in Inums : Locking(t, j) <=> j \in {i, n}
    BY <1>15 DEF FillFor
  <2> QED BY <1>3, <2>1, <2>2
<1>40. Elsewhere /\ itab' \in [Inums -> SlotType]
  BY <1>17, <1>29
<1> QED BY <1>18, <1>23, <1>26, <1>37, <1>38, <1>39, <1>40, DiskStep

-----------------------------------------------------------------------------
(* Start, crash, and every step.                                           *)

(***************************************************************************)
(* The start, and the start after a crash: nobody has anything, and what   *)
(* is in the cache is what is on the disk.                                 *)
(***************************************************************************)
Fresh ==
  /\ Tree(disk) /\ Flat(disk) /\ dino = disk
  /\ ops = {}
  /\ itab = [i \in Inums |-> NoSlot]
  /\ lock = [i \in Inums |-> Nobody]
  /\ ftab = [f \in Files |-> NoFile]
  /\ fd = [p \in Procs |-> 0]
  /\ calls \in [Procs -> Nat]
  /\ todo = [p \in Procs |-> <<>>]
  /\ scan = 1
  /\ panic = ""

(* Such a state has the right types,                                       *)
LEMMA FreshTypes == Fresh => TypesInv
<1>0. SUFFICES ASSUME Fresh PROVE TypesInv
  OBVIOUS
<1>1. NoSlot \in SlotType /\ NoFile \in FileType
  <2>1. NINODES \in Nat
    BY InodeAssumption
  <2>2. NoSlot \in SlotType
    BY DEF NoSlot, SlotType, Types
  <2> QED BY <2>1, <2>2 DEF NoFile, FileType
<1>2. itab \in [Inums -> SlotType] /\ ftab \in [Files -> FileType]
  BY <1>0, <1>1 DEF Fresh
<1>3. todo \in Todos
  BY <1>0, EmptyIs DEF Todos, Fresh
<1>4. lock \in [Inums -> Procs \cup {Nobody}]
  BY <1>0 DEF Fresh
<1>5. fd \in [Procs -> 0 .. NFILE] /\ scan \in 0 .. NINODES + 1
  <2>1. NINODES \in Nat /\ NFILE \in Nat
    BY InodeAssumption
  <2>2. 0 \in 0 .. NFILE /\ 1 \in 0 .. NINODES + 1
    BY <2>1
  <2> QED BY <1>0, <2>2 DEF Fresh
<1>6. ops \subseteq Procs /\ calls \in [Procs -> Nat]
  BY <1>0 DEF Fresh
<1> QED BY <1>2, <1>3, <1>4, <1>5, <1>6 DEF TypesInv

(* and the invariant: all counts are 0.                                    *)
LEMMA FreshInv == Fresh => IInv /\ BootInv
<1>0. SUFFICES ASSUME Fresh PROVE IInv /\ BootInv
  OBVIOUS
<1>1. TypesInv
  BY <1>0, FreshTypes
<1>2. \A p \in Procs : todo[p] = <<>>
  BY <1>0 DEF Fresh
<1>3. todo \in Todos
  BY <1>1 DEF TypesInv
<1>4. \A role, i : Count(todo, role, i) = 0
  BY <1>2, <1>3, NothingCounts
<1>5. \A F : WellFormed(<<>>, F)
  BY EmptyIs
<1>6. \A j \in Inums : ~Locking(<<>>, j)
  BY EmptyIs
<1>7. TodoInv /\ LockInv
  <2>1. TodoInv
    BY <1>2, <1>5 DEF TodoInv
  <2>2. \A p \in Procs, i \in Inums : lock[i] # p
    BY <1>0, InodeAssumption DEF Fresh
  <2> QED BY <1>2, <1>6, <2>1, <2>2 DEF LockInv
<1>8. FileInv
  <2> SUFFICES ASSUME NEW f \in Files
               PROVE  /\ ftab[f].ref = Cardinality(Sharers(f))
                      /\ ftab[f].ref = 0 <=> ftab[f].ip = 0
    BY DEF FileInv
  <2>1. ftab[f].ref = 0 /\ ftab[f].ip = 0
    BY <1>0 DEF NoFile, Fresh
  <2>2. \A p \in Procs : fd[p] # f
    <3>1. f # 0
      BY DEF Files
    <3>2. \A p \in Procs : fd[p] = 0
      BY <1>0 DEF Fresh
    <3> QED BY <3>1, <3>2
  <2>3. Sharers(f) = {}
    BY <2>2 DEF Sharers
  <2> QED BY <2>1, <2>3, FS_EmptySet
<1>9. GoalInv
  BY <1>2, EndGoals DEF GoalInv
<1>10. ASSUME NEW i \in Inums PROVE InodeOk(i)
  <2>1. FilesOf(ftab, i) = 0
    <3>1. \A f \in Files : ftab[f].ip = 0
      BY <1>0 DEF NoFile, Fresh
    <3>2. i # 0
      BY InodeAssumption DEF Inums
    <3>3. {f \in Files : ftab[f].ip = i} = {}
      BY <3>1, <3>2
    <3> QED BY <3>3, FS_EmptySet DEF FilesOf
  <2>2. Uses(todo, i) = 0
    <3>1. /\ Count(todo, "use", i) = 0 /\ Count(todo, "back", i) = 0
          /\ Count(todo, "old", i) = 0 /\ Count(todo, "dir", i) = 0
      BY <1>4
    <3> QED BY <3>1 DEF Uses
  <2>3. /\ itab[i].ref = 0 /\ ~itab[i].valid /\ lock[i] = Nobody
    BY <1>0 DEF NoSlot, Fresh
  <2>4. /\ Count(todo, "new", i) = 0 /\ Count(todo, "drop", i) = 0
        /\ Count(todo, "erase", i) = 0 /\ Count(todo, "dir", i) = 0
        /\ Count(todo, "old", i) = 0 /\ Count(todo, "back", i) = 0
    BY <1>4
  <2>5. RefInv(i)
    BY <2>1, <2>2, <2>3, <2>4 DEF RefInv
  <2>6. UsedInv(i) /\ NewInv(i) /\ EraseInv(i) /\ DirInv(i) /\ OldInv(i)
    <3>1. UsedInv(i)
      BY <2>1, <2>2 DEF UsedInv
    <3> QED BY <2>4, <3>1 DEF NewInv, EraseInv, DirInv, OldInv
  <2>7. ClaimInv(i)
    <3>1. Cardinality(Links(dino, i)) <= dino[i].nlink
      BY <1>0 DEF Tree, EnoughLinks, Fresh
    <3>2. Cardinality(Links(dino, i)) \in Nat
      BY LinksFinite
    <3> QED BY <2>4, <3>1, <3>2 DEF ClaimInv
  <2>8. AgreeInv(i) /\ HeldInv(i)
    BY <2>3 DEF AgreeInv, HeldInv
  <2> QED BY <2>5, <2>6, <2>7, <2>8 DEF InodeOk
<1>11. NoPanic /\ DiskInv
  BY <1>0 DEF NoPanic, DiskInv, Fresh
<1>12. BootInv
  BY <1>2 DEF BootInv
<1> QED BY <1>1, <1>7, <1>8, <1>9, <1>10, <1>11, <1>12 DEF IInv, InodesInv

(* Every first disk is a tree.                                             *)
LEMMA InitFresh == UpsLeadToRoot /\ Init => Fresh
<1> SUFFICES ASSUME UpsLeadToRoot, Init PROVE Fresh
  OBVIOUS
<1>1. Tree(disk)
  BY DisksAssumption DEF Init
<1>2. Flat(disk)
  BY DEF Init, Flat, UpsLeadToRoot
<1>3. calls \in [Procs -> Nat]
  BY DEF Init
<1> QED BY <1>1, <1>2, <1>3 DEF Init, Fresh

(* So is what a crash leaves.                                              *)
LEMMA CrashFresh == IInv /\ Crash => Fresh'
<1> SUFFICES ASSUME IInv, Crash PROVE Fresh'
  OBVIOUS
<1>1. Tree(disk) /\ Flat(disk) /\ disk' = disk /\ dino' = disk
  BY DEF IInv, DiskInv, Crash
<1>2. Tree(disk')
  BY <1>1
<1>3. Flat(disk')
  BY <1>1 DEF Flat
<1>4. calls' \in [Procs -> Nat] /\ panic' = ""
  BY DEF IInv, TypesInv, Crash
<1> QED BY <1>1, <1>2, <1>3, <1>4 DEF Crash, Fresh

(* A step of a process that has something to do changes what it has still  *)
(* to do, not what others have.                                            *)
OwnStep(p) ==
  /\ todo[p] # <<>> /\ scan' = scan
  /\ \E s : todo' = [todo EXCEPT ![p] = s]

(* An action that goes on with Then does that.                             *)
LEMMA ThenOwn ==
  ASSUME NEW p \in Procs, NEW op, Ready(p, op), NEW seq, Then(p, seq),
         scan' = scan
  PROVE  OwnStep(p)
BY DEF OwnStep, Ready, Then

(* So does every step of a call.                                           *)
LEMMA StepOwn ==
  ASSUME NEW p \in Procs, Step(p) PROVE OwnStep(p)
<1>1. CASE begin_op(p)
  BY <1>1, ThenOwn DEF begin_op, Elsewhere
<1>2. CASE end_op(p)
  BY <1>2, ThenOwn DEF end_op, Elsewhere
<1>3. CASE ilock(p)
  BY <1>3, ThenOwn DEF ilock, Elsewhere
<1>4. CASE iunlock(p)
  BY <1>4, ThenOwn DEF iunlock, Elsewhere
<1>5. CASE iput(p)
  BY <1>5, ThenOwn DEF iput, Elsewhere
<1>6. CASE iputLast(p)
  BY <1>6, ThenOwn DEF iputLast, Elsewhere
<1>7. CASE Erase(p)
  BY <1>7, ThenOwn DEF Erase, Elsewhere
<1>8. CASE Forget(p)
  BY <1>8, ThenOwn DEF Forget, Elsewhere
<1>9. CASE Drop(p)
  BY <1>9, ThenOwn DEF Drop, Elsewhere
<1>10. CASE LookFails(p)
  BY <1>10, ThenOwn DEF LookFails, Elsewhere
<1>11. CASE LookParent(p)
  BY <1>11, ThenOwn DEF LookParent, Elsewhere
<1>12. CASE LookDown(p)
  BY <1>12, ThenOwn DEF LookDown, Elsewhere
<1>13. CASE LinkOld(p)
  BY <1>13, ThenOwn DEF LinkOld, Elsewhere
<1>14. CASE LinkTaken(p)
  BY <1>14, ThenOwn DEF LinkTaken, Elsewhere
<1>15. CASE LinkNew(p)
  BY <1>15, ThenOwn DEF LinkNew, Elsewhere
<1>16. CASE TakeBack(p)
  BY <1>16, ThenOwn DEF TakeBack, Elsewhere
<1>17. CASE Unlink(p)
  BY <1>17, ThenOwn DEF Unlink, Elsewhere
<1>18. CASE RemoveFails(p)
  BY <1>18, ThenOwn DEF RemoveFails, Elsewhere
<1>19. CASE Remove(p)
  BY <1>19, ThenOwn DEF Remove, Elsewhere
<1>20. CASE CreateFound(p)
  BY <1>20, ThenOwn DEF CreateFound, Elsewhere
<1>21. CASE OpenFound(p)
  BY <1>21, ThenOwn DEF OpenFound, Elsewhere
<1>22. CASE Create(p)
  BY <1>22, ThenOwn DEF Create, Elsewhere
<1>23. CASE Fill(p)
  BY <1>23, ThenOwn DEF Fill, Elsewhere
<1>24. CASE FillFails(p)
  BY <1>24, ThenOwn DEF FillFails, Elsewhere
<1>25. CASE Open(p)
  BY <1>25, ThenOwn DEF Open, Elsewhere
<1> QED
  BY <1>1, <1>2, <1>3, <1>4, <1>5, <1>6, <1>7, <1>8, <1>9, <1>10, <1>11, <1>12,
     <1>13, <1>14, <1>15, <1>16, <1>17, <1>18, <1>19, <1>20, <1>21, <1>22,
     <1>23, <1>24, <1>25 DEF Step

(* Every step of a call keeps the invariant.                               *)
LEMMA StepInv ==
  ASSUME IInv, NEW p \in Procs, Step(p) PROVE IInv'
<1>1. CASE begin_op(p)
  BY <1>1, BeginInv
<1>2. CASE end_op(p)
  BY <1>2, BeginInv
<1>3. CASE ilock(p)
  BY <1>3, IlockInv
<1>4. CASE iunlock(p)
  BY <1>4, UnlockInv
<1>5. CASE iput(p)
  BY <1>5, IputInv
<1>6. CASE iputLast(p)
  BY <1>6, IputLastInv
<1>7. CASE Erase(p)
  BY <1>7, EraseInode
<1>8. CASE Forget(p)
  BY <1>8, ForgetInv
<1>9. CASE Drop(p)
  BY <1>9, IputInv
<1>10. CASE LookFails(p)
  BY <1>10, LookFailsInv
<1>11. CASE LookParent(p)
  BY <1>11, LookParentInv
<1>12. CASE LookDown(p)
  BY <1>12, LookDownInv
<1>13. CASE LinkOld(p)
  BY <1>13, LinkOldInv
<1>14. CASE LinkTaken(p)
  BY <1>14, LinkTakenInv
<1>15. CASE LinkNew(p)
  BY <1>15, LinkNewInv
<1>16. CASE TakeBack(p)
  BY <1>16, TakeBackInv
<1>17. CASE Unlink(p)
  BY <1>17, UnlinkInv
<1>18. CASE RemoveFails(p)
  BY <1>18, RemoveFailsInv
<1>19. CASE Remove(p)
  BY <1>19, RemoveInv
<1>20. CASE CreateFound(p)
  BY <1>20, CreateFoundInv
<1>21. CASE OpenFound(p)
  BY <1>21, OpenFoundInv
<1>22. CASE Create(p)
  BY <1>22, CreateInv
<1>23. CASE Fill(p)
  BY <1>23, FillInv
<1>24. CASE FillFails(p)
  BY <1>24, FillFailsInv
<1>25. CASE Open(p)
  BY <1>25, OpenInv
<1> QED
  BY <1>1, <1>2, <1>3, <1>4, <1>5, <1>6, <1>7, <1>8, <1>9, <1>10, <1>11, <1>12,
     <1>13, <1>14, <1>15, <1>16, <1>17, <1>18, <1>19, <1>20, <1>21, <1>22,
     <1>23, <1>24, <1>25 DEF Step

(* f is a function with domain S.                                          *)
IsMap(f, S) == f = [x \in S |-> f[x]]

(* Nobody else comes in before the first process is through with booting.  *)
LEMMA BootNextInv ==
  ASSUME IsMap(todo, Procs), BootInv, Next PROVE BootInv'
<1>1. todo = [q \in Procs |-> todo[q]]
  BY DEF IsMap
<1>2. ASSUME NEW p \in Procs, Step(p) PROVE BootInv'
  <2>1. OwnStep(p)
    BY <1>2, StepOwn
  <2>2. \A q \in Procs \ {p} : todo'[q] = todo[q]
    BY <1>1, <2>1 DEF OwnStep
  <2>3. scan # 0 => p = InitProc
    BY <2>1 DEF OwnStep, BootInv
  <2>4. scan' = scan
    BY <2>1 DEF OwnStep
  <2> QED BY <2>2, <2>3, <2>4 DEF BootInv
<1>3. ASSUME NEW p \in Procs, SysCall(p) PROVE BootInv'
  BY <1>3 DEF SysCall, Idle, BootInv
<1>4. ASSUME NEW p \in Procs, Close(p) PROVE BootInv'
  BY <1>4 DEF Close, Idle, BootInv
<1>5. ASSUME NEW p \in Procs, NEW q \in Procs, Share(p, q) PROVE BootInv'
  BY <1>5 DEF Share, Idle, BootInv
<1>6. CASE Crash
  BY <1>6 DEF Crash, BootInv
<1>7. CASE ireclaim
  <2>1. \A q \in Procs \ {InitProc} : todo'[q] = todo[q]
    BY <1>1, <1>7 DEF ireclaim
  <2>2. scan # 0
    <3>1. \A i \in Inums : i # 0
      BY DEF Inums
    <3> QED BY <1>7, <3>1 DEF ireclaim
  <2> QED BY <2>1, <2>2 DEF BootInv
<1>8. CASE Booted
  BY <1>8 DEF Booted, BootInv
<1> QED BY <1>2, <1>3, <1>4, <1>5, <1>6, <1>7, <1>8 DEF Next

(* So does every step.                                                     *)
LEMMA NextInv ==
  UpsLeadToRoot /\ IInv /\ BootInv /\ [Next]_vars => IInv' /\ BootInv'
<1>0. SUFFICES ASSUME UpsLeadToRoot, IInv, BootInv, [Next]_vars
               PROVE  IInv' /\ BootInv'
  OBVIOUS
<1>1. CASE UNCHANGED vars
  <2>1. UNCHANGED <<dino, disk, itab, lock, ftab, fd, todo, panic>>
    BY <1>1 DEF vars
  <2>2. TypesInv'
    BY <1>0, <1>1 DEF vars, IInv, TypesInv
  <2>3. IInv'
    BY <1>0, <2>1, <2>2, OnlyScan
  <2>4. BootInv'
    BY <1>0, <1>1 DEF vars, BootInv
  <2> QED BY <2>3, <2>4
<1>2. CASE Next
  <2>1. BootInv'
    <3>1. IsMap(todo, Procs)
      BY <1>0 DEF IInv, TypesInv, Todos, IsMap
    <3> QED BY <1>0, <1>2, <3>1, BootNextInv
  <2>2. ASSUME NEW p \in Procs, Step(p) \/ SysCall(p) \/ Close(p) PROVE IInv'
    BY <1>0, <2>2, StepInv, SysCallInv, CloseInv
  <2>3. ASSUME NEW p \in Procs, NEW q \in Procs, Share(p, q) PROVE IInv'
    BY <1>0, <2>3, ShareInv
  <2>4. CASE Crash
    BY <1>0, <2>4, CrashFresh, FreshInv, PTL
  <2>5. CASE ireclaim
    BY <1>0, <2>1, <2>5, ReclaimInv
  <2>6. CASE Booted
    BY <1>0, <2>1, <2>6, BootedInv
  <2> QED BY <1>2, <2>1, <2>2, <2>3, <2>4, <2>5, <2>6 DEF Next
<1> QED BY <1>0, <1>1, <1>2

(***************************************************************************)
(* IInv holds from the first boot on, through every crash: every reference *)
(* counted in a slot is somebody's, who holds a lock has a reference, an   *)
(* inode being freed has no other user, and on disk as in the cache names  *)
(* form a tree whose inodes are in use and have links enough. Where a path *)
(* has ".." in it, directories are made in the root only (UpsLeadToRoot):  *)
(* with a removed parent, the panic of ilock() can be reached.             *)
(***************************************************************************)
THEOREM InodeInvariant == UpsLeadToRoot => (Spec => []IInv)
<1>0. SUFFICES ASSUME UpsLeadToRoot PROVE Spec => []IInv
  OBVIOUS
<1>1. Init => IInv /\ BootInv
  BY <1>0, InitFresh, FreshInv
<1>2. IInv /\ BootInv /\ [Next]_vars => IInv' /\ BootInv'
  BY <1>0, NextInv
<1> QED BY <1>1, <1>2, PTL DEF Spec

(***************************************************************************)
(* No panic of fs.c or sysfile.c fires: ilock() finds no inode without a   *)
(* type, iunlock() none that its caller has not locked or has no reference *)
(* to, iput() never has to wait for ip->lock with itable.lock held, and    *)
(* unlink() finds no name of an inode without links.                       *)
(***************************************************************************)
THEOREM InodeNeverPanics == UpsLeadToRoot => (Spec => []NoPanic)
<1>0. SUFFICES ASSUME UpsLeadToRoot PROVE Spec => []NoPanic
  OBVIOUS
<1>1. IInv => NoPanic
  BY DEF IInv
<1>2. Spec => []IInv
  BY <1>0, InodeInvariant
<1> QED BY <1>1, <1>2, PTL

-----------------------------------------------------------------------------
(* What follows.                                                           *)

(***************************************************************************)
(* What can be reached from the root by names alone: all that can be       *)
(* reached, for ".." leads back to the directory that has the name.        *)
(***************************************************************************)
DownClosed(d, S) ==
  ROOTINO \in S /\ \A j \in S, n \in Names : d[j].ents[n] # 0 => d[j].ents[n] \in S
Down(d) == {i \in Inums : \A S \in SUBSET Inums : DownClosed(d, S) => i \in S}

(* Everything that can be reached so, but the root, has a name in a        *)
(* directory that can be reached so.                                       *)
LEMMA DownIs ==
  ASSUME NEW d, Tree(d)
  PROVE  /\ DownClosed(d, Down(d))
         /\ \A i \in Down(d) \ {ROOTINO} :
              \E k \in Down(d), n \in Names : d[k].ents[n] = i
<1>1. ROOTINO \in Inums /\ Down(d) \subseteq Inums
  BY InodeAssumption DEF ROOTINO, Inums, Down
<1>2. \A j \in Inums, n \in Names : d[j].ents[n] # 0 => d[j].ents[n] \in Inums
  <2> SUFFICES ASSUME NEW j \in Inums, NEW n \in Names, d[j].ents[n] # 0
               PROVE  d[j].ents[n] \in Inums
    OBVIOUS
  <2>1. d[j].ents[n] \in 0 .. NINODES
    BY DEF Tree, DiskType, Entries
  <2> QED BY <2>1, InodeAssumption DEF Inums
<1>3. ROOTINO \in Down(d)
  BY <1>1 DEF Down, DownClosed
<1>4. ASSUME NEW j \in Down(d), NEW n \in Names, d[j].ents[n] # 0
      PROVE  d[j].ents[n] \in Down(d)
  <2>1. d[j].ents[n] \in Inums
    BY <1>1, <1>2, <1>4
  <2>2. ASSUME NEW S \in SUBSET Inums, DownClosed(d, S)
        PROVE  d[j].ents[n] \in S
    <3>1. j \in S
      BY <2>2 DEF Down
    <3> QED BY <1>4, <2>2, <3>1 DEF DownClosed
  <2> QED BY <2>1, <2>2 DEF Down
<1>5. DownClosed(d, Down(d))
  BY <1>3, <1>4 DEF DownClosed
<1>6. ASSUME NEW i \in Down(d) \ {ROOTINO},
             \A k \in Down(d), n \in Names : d[k].ents[n] # i
      PROVE  FALSE
  <2>1. PICK S : S = Down(d) \ {i}
    OBVIOUS
  <2>2. DownClosed(d, S)
    BY <1>5, <1>6, <2>1 DEF DownClosed
  <2>3. S \in SUBSET Inums
    BY <1>1, <2>1
  <2>4. i \in S
    BY <1>6, <2>2, <2>3 DEF Down
  <2> QED BY <2>1, <2>4
<1> QED BY <1>5, <1>6

(* Nothing more is reached with "..".                                      *)
LEMMA ReachableDown ==
  ASSUME NEW d, Tree(d) PROVE Reachable(d) \subseteq Down(d)
<1>1. DownClosed(d, Down(d)) /\ Down(d) \in SUBSET Inums
  BY DownIs DEF Down
<1>2. ASSUME NEW j \in Down(d), NEW e \in Entries,
             d[j].type = "dir", d[j].ents[e] # 0
      PROVE  d[j].ents[e] \in Down(d)
  <2>1. CASE e \in Names
    BY <1>1, <1>2, <2>1 DEF DownClosed
  <2>2. CASE e = ".." /\ j = ROOTINO
    BY <1>1, <2>2 DEF Tree, RootIsDir, DownClosed
  <2>3. CASE e = ".." /\ j # ROOTINO
    <3>1. PICK k \in Down(d), n \in Names : d[k].ents[n] = j
      BY <2>3, DownIs
    <3>2. k \in Inums /\ j \in Inums
      BY <1>1
    <3>3. d[j].ents[".."] = k
      BY <1>2, <3>1, <3>2 DEF Tree, OneName
    <3> QED BY <2>3, <3>1, <3>3
  <2> QED BY <2>1, <2>2, <2>3 DEF Entries
<1>3. ROOTINO \in Down(d)
  BY <1>1 DEF DownClosed
<1> QED BY <1>1, <1>2, <1>3 DEF Reachable

(* In a tree as mkfs makes it, a name that can be reached holds its inode. *)
LEMMA TreeHolds ==
  ASSUME NEW d, Tree(d), NEW i \in Inums, NEW names,
         names = {x \in Reachable(d) \X Entries :
                    d[x[1]].type = "dir" /\ d[x[1]].ents[x[2]] = i},
         names # {}
  PROVE  d[i].type # "free" /\ d[i].nlink >= Cardinality(names)
<1>1. names \subseteq Links(d, i)
  <2> SUFFICES ASSUME NEW x \in names PROVE x \in Links(d, i)
    OBVIOUS
  <2>1. /\ x \in Reachable(d) \X Entries /\ x[1] \in Reachable(d)
        /\ d[x[1]].ents[x[2]] = i
    OBVIOUS
  <2>2. x[1] \in Down(d) /\ x[1] \in Inums
    BY <2>1, ReachableDown DEF Down
  <2>3. Named(d, x[1])
    <3>1. CASE x[1] = ROOTINO
      BY <3>1 DEF Named
    <3>2. CASE x[1] # ROOTINO
      <4>1. \E k \in Down(d), n \in Names : d[k].ents[n] = x[1]
        BY <2>2, <3>2, DownIs
      <4> QED BY <4>1 DEF Named, Down
    <3> QED BY <3>1, <3>2
  <2>4. x \in Inums \X Entries
    BY <2>1, <2>2
  <2> QED BY <2>1, <2>3, <2>4 DEF Links
<1>2. PICK a \in Nat : a = Cardinality(Links(d, i))
  BY LinksFinite
<1>3. PICK b \in Nat : b = Cardinality(names) /\ IsFiniteSet(names)
  BY <1>1, LinksFinite, FS_Subset, FS_CardinalityType
<1>4. b <= a
  BY <1>1, <1>2, <1>3, LinksFinite, FS_Subset
<1>5. b # 0
  BY <1>3, FS_EmptySet
<1>6. d[i].nlink \in Nat /\ a <= d[i].nlink
  BY <1>2 DEF Tree, DiskType, EnoughLinks
<1>7. d[i].type = "free" => d[i].nlink = 0
  BY DEF Tree, OnlyDirs
<1>8. d[i].nlink # 0
  BY <1>4, <1>5, <1>6
<1>9. d[i].nlink >= b
  BY <1>4, <1>6
<1> QED BY <1>3, <1>7, <1>8, <1>9

(***************************************************************************)
(* A name that can be reached leads to an inode in use, which has as many  *)
(* links as it has names: for the processes, and at every moment for what  *)
(* a crash would leave.                                                    *)
(***************************************************************************)
THEOREM InodeNamesHold == UpsLeadToRoot => (Spec => []NamesHold)
<1>0. SUFFICES ASSUME UpsLeadToRoot PROVE Spec => []NamesHold
  OBVIOUS
<1>1. IInv => NamesHold
  <2>1. SUFFICES ASSUME IInv PROVE NamesHold
    OBVIOUS
  <2>2. ASSUME NEW d \in {dino, disk}, NEW i \in Inums, NEW names,
               names = {x \in Reachable(d) \X Entries :
                          d[x[1]].type = "dir" /\ d[x[1]].ents[x[2]] = i}
        PROVE  names # {} => d[i].type # "free" /\ d[i].nlink >= Cardinality(names)
    <3>1. Tree(d)
      BY <2>1 DEF IInv, DiskInv
    <3> QED BY <2>2, <3>1, TreeHolds
  <2> QED BY <2>2 DEF NamesHold
<1>2. Spec => []IInv
  BY <1>0, InodeInvariant
<1> QED BY <1>1, <1>2, PTL

(***************************************************************************)
(* Who waits for a lock and has another one has unlink() or create() to    *)
(* go on with: the directory is locked, the inode in it is waited for.     *)
(***************************************************************************)
PairOf(p, g, i) ==
  /\ g.do \in {"remove", "fill"} /\ g.dp = i /\ g.ip = It(p).ip
  /\ g.ip \in Inums /\ g.call \in Calls
  /\ g.do = "remove" =>
       NameOf(g.call) \in Names /\ dino[i].ents[NameOf(g.call)] = g.ip
  /\ g.do = "fill" => Has(todo[p], "new", g.ip) > 0
  /\ Has(todo[p], "dir", i) > 0

(* A process that waits for one lock and holds another is one of these.    *)
LEMMA WaiterHas ==
  ASSUME IInv, NEW p \in Procs, Ready(p, "lock"), NEW i \in Inums, lock[i] = p
  PROVE  It(p).ip \in Inums /\ \E g \in Instr : PairOf(p, g, i)
<1>1. Locking(todo[p], i)
  BY DEF IInv, LockInv
<1>2. PICK x \in Instr, s \in Seq(Instr) :
        /\ todo[p] = Cons(x, s) /\ It(p) = x /\ x.do = "lock"
        /\ Ok(x, s, HeldFile(p)) /\ WellFormed(s, HeldFile(p))
        /\ GoalsOk(dino, s)
  BY HeadIs DEF IInv
<1>3. x.ip \in Inums /\ x = On("lock", x.ip)
  BY <1>2, InstrFields DEF IpOps
<1>4. ~Needs(x, i)
  BY <1>2 DEF Needs, NewOps, DirOps
<1>5. x # On("lock", i) /\ Locking(s, i)
  BY <1>1, <1>2, <1>4, ConsLocking
<1>6. i # x.ip
  BY <1>3, <1>5
<1>7. OfLock(x, s)
  BY <1>2 DEF Ok
<1>8. /\ s # <<>> /\ Tail(s) = EndOp
      /\ Head(s).do \in {"remove", "fill"} /\ Head(s).ip = x.ip
  BY <1>5, <1>6, <1>7 DEF OfLock
<1>9. PICK g \in Instr : s = Cons(g, EndOp) /\ g = Head(s)
  BY <1>8, ConsOf
<1>10. /\ Len(s) \in Nat /\ 1 \in 1 .. Len(s) /\ s[1] = g
  <2>1. EndOp \in Seq(Instr)
    BY EndIs
  <2>2. Len(EndOp) \in Nat /\ Len(s) = Len(EndOp) + 1 /\ s[1] = g
    BY <1>9, <2>1, ConsIs
  <2> QED BY <2>2
<1>11. Ok(g, SubSeq(s, 1 + 1, Len(s)), HeldFile(p)) /\ GoalOk(dino, g)
  BY <1>2, <1>10 DEF WellFormed, GoalsOk
<1>12. Needs(g, i)
  <2>1. EndOp \in Seq(Instr) /\ ~Locking(EndOp, i)
    BY EndIs
  <2> QED BY <1>5, <1>9, <2>1, ConsLocking
<1>13. g.do \in {"remove", "fill"} /\ g.ip = x.ip
  BY <1>8, <1>9
<1>14. g.dp = i
  BY <1>6, <1>12, <1>13 DEF Needs, DirOps
<1>15. g.call \in Calls
  BY <1>13, InstrFields DEF NewOps
<1>16. g.do = "remove" =>
         NameOf(g.call) \in Names /\ dino[i].ents[NameOf(g.call)] = g.ip
  BY <1>11, <1>14 DEF Ok, Static, GoalOk
<1>17. ASSUME NEW role, Plays(g, role, i) \/ Plays(g, role, g.ip),
              NEW j \in {i, g.ip}, Plays(g, role, j)
       PROVE  Has(todo[p], role, j) > 0
  <2>1. Has(s, role, j) > 0
    BY <1>10, <1>17, HasElement
  <2>2. Has(todo[p], role, j) = Has(s, role, j) + Weight(x, role, j)
        /\ Has(s, role, j) \in Nat
    BY <1>2, ConsHas
  <2>3. Weight(x, role, j) \in {0, 1}
    BY DEF Weight
  <2> QED BY <2>1, <2>2, <2>3
<1>18. Has(todo[p], "dir", i) > 0
  <2>1. Plays(g, "dir", i)
    BY <1>13, <1>14 DEF Plays, NewOps
  <2> QED BY <1>17, <2>1
<1>19. g.do = "fill" => Has(todo[p], "new", g.ip) > 0
  <2>1. g.do = "fill" => Plays(g, "new", g.ip)
    BY DEF Plays
  <2> QED BY <1>17, <2>1
<1> QED BY <1>2, <1>3, <1>13, <1>14, <1>15, <1>16, <1>18, <1>19 DEF PairOf

(***************************************************************************)
(* No circle of waiting.  Whoever in it has a lock has that of a directory *)
(* and waits for what is in it: create() cannot, for nobody knows of the   *)
(* new inode, and names make no circle.                                    *)
(***************************************************************************)
LEMMA CircleFree == IInv => NoCircularWait
<1>0. SUFFICES ASSUME IInv PROVE NoCircularWait
  OBVIOUS
<1>1. SUFFICES ASSUME NEW C \in SUBSET Procs, C # {},
                      \A p \in C : Ready(p, "lock") /\ lock[It(p).ip] \in C
               PROVE  FALSE
  BY DEF NoCircularWait
<1> DEFINE h(p) == lock[It(p).ip]
           K == {h(p) : p \in C}
<1>2. ASSUME NEW p \in C PROVE It(p).ip \in Inums
  <2>1. PICK x \in Instr : It(p) = x /\ x.do = "lock"
    BY <1>0, <1>1, HeadIs DEF IInv
  <2> QED BY <2>1, InstrFields DEF IpOps
<1>3. K \subseteq C /\ K # {}
  BY <1>1
<1>4. ASSUME NEW q \in K
      PROVE  \E i \in Inums : \E g \in Instr : PairOf(q, g, i)
  <2>1. PICK p \in C : q = lock[It(p).ip]
    OBVIOUS
  <2>2. PICK i \in Inums : i = It(p).ip
    BY <1>2
  <2>3. q \in Procs /\ Ready(q, "lock") /\ lock[i] = q
    BY <1>1, <1>3, <2>1, <2>2
  <2> QED BY <1>0, <2>3, WaiterHas
<1>5. ASSUME NEW q \in K, NEW i \in Inums, NEW g \in Instr, PairOf(q, g, i)
      PROVE  \E r \in K : \E f \in Instr : PairOf(r, f, g.ip)
  <2>1. g.ip \in Inums /\ g.ip = It(q).ip
    BY <1>5 DEF PairOf
  <2>2. PICK r : r = lock[It(q).ip] /\ r \in K
    BY <1>3
  <2>3. r \in Procs /\ Ready(r, "lock") /\ lock[g.ip] = r
    BY <1>1, <1>3, <2>1, <2>2
  <2>4. \E f \in Instr : PairOf(r, f, g.ip)
    BY <1>0, <2>1, <2>3, WaiterHas
  <2> QED BY <2>2, <2>4
<1>6. ASSUME NEW q \in K, NEW i \in Inums, NEW g \in Instr, PairOf(q, g, i)
      PROVE  g.do = "remove"
  <2>1. SUFFICES ASSUME g.do = "fill" PROVE FALSE
    BY <1>6 DEF PairOf
  <2>2. PICK n \in Inums : n = g.ip
    BY <1>6 DEF PairOf
  <2>3. PICK r \in K : \E f \in Instr : PairOf(r, f, n)
    BY <1>5, <1>6, <2>2
  <2>4. Has(todo[r], "dir", n) > 0 /\ Has(todo[q], "new", n) > 0
    BY <1>6, <2>1, <2>2, <2>3 DEF PairOf
  <2>5. q \in Procs /\ r \in Procs /\ todo \in Todos /\ InodeOk(n)
    BY <1>0, <1>1, <1>3 DEF IInv, TypesInv, InodesInv
  <2>6. /\ Count(todo, "dir", n) \in Nat /\ Count(todo, "new", n) \in Nat
        /\ Has(todo[r], "dir", n) \in Nat /\ Has(todo[q], "new", n) \in Nat
        /\ Has(todo[r], "dir", n) <= Count(todo, "dir", n)
        /\ Has(todo[q], "new", n) <= Count(todo, "new", n)
    BY <2>5, CountSome
  <2>7. Count(todo, "dir", n) > 0 /\ Count(todo, "new", n) > 0
    BY ONLY <2>4, <2>6
  <2>8. PICK a \in Nat, b \in Nat, c \in Nat, d \in Nat, e \in Nat :
          /\ a = Count(todo, "use", n) /\ b = Count(todo, "back", n)
          /\ c = Count(todo, "old", n) /\ d = Count(todo, "dir", n)
          /\ e = FilesOf(ftab, n)
    BY <2>5, CountSome, FilesOfNat
  <2>9. Uses(todo, n) = a + b + c + d
    BY <2>8 DEF Uses
  <2>10. Uses(todo, n) + FilesOf(ftab, n) > 0
    BY ONLY a \in Nat, b \in Nat, c \in Nat, d \in Nat, e \in Nat, <2>7, <2>8,
       <2>9
  <2> QED BY <2>5, <2>7, <2>10 DEF InodeOk, UsedInv
<1>7. PICK S \in (SUBSET Inums) \ {{}} :
        S = {i \in Inums : \E q \in K : \E g \in Instr : PairOf(q, g, i)}
  <2>1. PICK q \in K : TRUE
    BY <1>3
  <2>2. \E i \in Inums : \E g \in Instr : PairOf(q, g, i)
    BY <1>4
  <2> QED BY <2>2
<1>8. PICK i \in S : \A n \in Names : dino[i].ents[n] \notin S
  BY <1>0 DEF IInv, DiskInv, Tree, NoCircle
<1>9. PICK q \in K, g \in Instr : PairOf(q, g, i) /\ i \in Inums
  BY <1>7
<1>10. g.do = "remove"
  BY <1>6, <1>9
<1>11. NameOf(g.call) \in Names /\ dino[i].ents[NameOf(g.call)] = g.ip /\ g.ip \in Inums
  BY <1>9, <1>10 DEF PairOf
<1>12. g.ip \in S
  <2>1. \E r \in K : \E f \in Instr : PairOf(r, f, g.ip)
    BY <1>5, <1>9
  <2> QED BY <1>7, <1>11, <2>1
<1> QED BY <1>8, <1>11, <1>12

(***************************************************************************)
(* No deadlock among inodes.  A process that holds one lock and waits for  *)
(* another is in unlink() or create(), holds a directory and waits for an  *)
(* inode with a name in it, or for a new one that nobody else knows; so a  *)
(* circle of processes that wait would be a circle of directories.         *)
(***************************************************************************)
THEOREM InodeNoCircularWait == UpsLeadToRoot => (Spec => []NoCircularWait)
<1>0. SUFFICES ASSUME UpsLeadToRoot PROVE Spec => []NoCircularWait
  OBVIOUS
<1>1. IInv => NoCircularWait
  BY CircleFree
<1>2. Spec => []IInv
  BY <1>0, InodeInvariant
<1> QED BY <1>1, <1>2, PTL

-----------------------------------------------------------------------------
(* The scan of ireclaim().                                                 *)

(***************************************************************************)
(* ireclaim(), with nobody else about: what it has still to do with the    *)
(* inode it has found, and what has come of it so far.                     *)
(***************************************************************************)
DropT(i) == Cons(On("drop", i), EndOp)
ForgetT(i) == Cons(On("forget", i), DropT(i))
EraseT(i) == Cons(On("erase", i), ForgetT(i))

(* The first process has to do t, in an operation or not, and holds i or   *)
(* not.                                                                    *)
At(i, t, inOp, held) ==
  /\ todo[InitProc] = t
  /\ ops = (IF inOp THEN {InitProc} ELSE {})
  /\ lock[i] = (IF held THEN InitProc ELSE Nobody)

(* Its slot, with the one reference of ireclaim().                         *)
SlotIs(i, valid, type) ==
  itab[i] = [ref |-> 1, valid |-> valid, type |-> type, nlink |-> 0]

(* i is an orphan still, on disk as in the cache.                          *)
Left(i) == disk = dino /\ Orphan(dino, i)

(* Before begin_op(), ilock(), iunlock() and iput(); then iput() frees it: *)
(* before itrunc() and iupdate(), the release, the last decrement and      *)
(* end_op().                                                               *)
Stage(i) ==
  \/ /\ At(i, Reclaiming(i), FALSE, FALSE)
     /\ Left(i) /\ SlotIs(i, FALSE, "free")
  \/ /\ At(i, LockT(i, DoneT(i, EndOp)), TRUE, FALSE)
     /\ Left(i) /\ SlotIs(i, FALSE, "free")
  \/ /\ At(i, DoneT(i, EndOp), TRUE, TRUE)
     /\ Left(i) /\ SlotIs(i, TRUE, dino[i].type)
  \/ /\ At(i, PutT(i, EndOp), TRUE, FALSE)
     /\ Left(i) /\ SlotIs(i, TRUE, dino[i].type)
  \/ /\ At(i, EraseT(i), TRUE, TRUE)
     /\ Left(i) /\ SlotIs(i, TRUE, dino[i].type)
  \/ At(i, ForgetT(i), TRUE, TRUE) /\ ~Orphan(dino, i) /\ SlotIs(i, TRUE, "free")
  \/ At(i, DropT(i), TRUE, FALSE) /\ ~Orphan(dino, i) /\ SlotIs(i, FALSE, "free")
  \/ At(i, EndOp, TRUE, FALSE) /\ ~Orphan(dino, i) /\ itab[i] = NoSlot

(* The other inodes, and all of them between two: up to where scan has     *)
(* come none is left over.                                                 *)
Untouched(j) ==
  itab[j] = NoSlot /\ lock[j] = Nobody /\ (j < scan => ~Orphan(dino, j))

(* Between two inodes.                                                     *)
Rested ==
  /\ todo[InitProc] = <<>> /\ ops = {} /\ disk = dino
  /\ \A j \in Inums : Untouched(j)

(* With inode i in hand.                                                   *)
Scanning(i) ==
  scan = i + 1 /\ Stage(i) /\ \A j \in Inums \ {i} : Untouched(j)

(* Where ireclaim() is.                                                    *)
ScanInv == scan # 0 => BootInv /\ (Rested \/ \E i \in Inums : Scanning(i))

(* What is needed of types.                                                *)
MapInv ==
  /\ IsMap(dino, Inums) /\ IsMap(disk, Inums) /\ IsMap(itab, Inums)
  /\ IsMap(lock, Inums) /\ IsMap(todo, Procs) /\ scan \in Nat

(* What comes next, and what is left then.                                 *)
Goes(t, x, s) == t # <<>> /\ Head(t) = x /\ Tail(t) = s /\ <<>> \o s = s

(* So it is with lists put together by Cons.                               *)
LEMMA ConsGoes ==
  ASSUME NEW x \in Instr, NEW s \in Seq(Instr)
  PROVE  Cons(x, s) \in Seq(Instr) /\ Goes(Cons(x, s), x, s)
BY ConsIs, ConcatEmptySeq DEF Goes

(* The lists of Stage, one after the other.                                *)
LEMMA BootLists ==
  ASSUME NEW i \in Inums
  PROVE  /\ Goes(Reclaiming(i), Begin, LockT(i, DoneT(i, EndOp)))
         /\ Goes(LockT(i, DoneT(i, EndOp)), On("lock", i), DoneT(i, EndOp))
         /\ Goes(DoneT(i, EndOp), On("unlock", i), PutT(i, EndOp))
         /\ Goes(PutT(i, EndOp), On("put", i), EndOp)
         /\ Goes(EraseT(i), On("erase", i), ForgetT(i))
         /\ Goes(ForgetT(i), On("forget", i), DropT(i))
         /\ Goes(DropT(i), On("drop", i), EndOp)
         /\ Goes(EndOp, [do |-> "end"], <<>>)
         /\ EraseT(i) = <<On("erase", i), On("forget", i), On("drop", i)>> \o EndOp
<1>1. \A op \in IpOps : On(op, i) \in Instr
  BY OnIs
<1>2. /\ EndOp \in Seq(Instr) /\ <<>> \in Seq(Instr)
      /\ [do |-> "end"] \in Instr /\ EndOp = Cons([do |-> "end"], <<>>)
  BY EndIs, EmptyIs
<1>3. On("put", i) \in Instr /\ On("unlock", i) \in Instr /\ On("lock", i) \in Instr
      /\ On("drop", i) \in Instr /\ On("forget", i) \in Instr
      /\ On("erase", i) \in Instr
  BY <1>1 DEF IpOps
<1>4. PutT(i, EndOp) \in Seq(Instr) /\ Goes(PutT(i, EndOp), On("put", i), EndOp)
  BY <1>2, <1>3, ConsGoes DEF PutT
<1>5. /\ DoneT(i, EndOp) \in Seq(Instr)
      /\ Goes(DoneT(i, EndOp), On("unlock", i), PutT(i, EndOp))
  BY <1>3, <1>4, ConsGoes DEF DoneT, UnlockT
<1>6. /\ LockT(i, DoneT(i, EndOp)) \in Seq(Instr)
      /\ Goes(LockT(i, DoneT(i, EndOp)), On("lock", i), DoneT(i, EndOp))
  BY <1>3, <1>5, ConsGoes DEF LockT
<1>7. Goes(Reclaiming(i), Begin, LockT(i, DoneT(i, EndOp)))
  BY <1>6, BeginIs, ConsGoes DEF Reclaiming
<1>8. DropT(i) \in Seq(Instr) /\ Goes(DropT(i), On("drop", i), EndOp)
  BY <1>2, <1>3, ConsGoes DEF DropT
<1>9. ForgetT(i) \in Seq(Instr) /\ Goes(ForgetT(i), On("forget", i), DropT(i))
  BY <1>3, <1>8, ConsGoes DEF ForgetT
<1>10. Goes(EraseT(i), On("erase", i), ForgetT(i))
  BY <1>3, <1>9, ConsGoes DEF EraseT
<1>11. Goes(EndOp, [do |-> "end"], <<>>)
  BY <1>2, ConsGoes
<1>12. EraseT(i) = <<On("erase", i), On("forget", i), On("drop", i)>> \o EndOp
  <2>1. PICK a \in Instr, b \in Instr, c \in Instr :
          a = On("erase", i) /\ b = On("forget", i) /\ c = On("drop", i)
    BY <1>3
  <2>2. <<a, b, c>> \o EndOp = Cons(a, Cons(b, Cons(c, EndOp)))
    BY <1>2, TripleConcat
  <2> QED BY <2>1, <2>2 DEF EraseT, ForgetT, DropT
<1> QED BY <1>4, <1>5, <1>6, <1>7, <1>8, <1>9, <1>10, <1>11, <1>12

(* The next instruction says which step it is.                             *)
LEMMA StepIs ==
  ASSUME NEW p, Step(p)
  PROVE  /\ It(p).do = "begin" => begin_op(p)
         /\ It(p).do = "end" => end_op(p)
         /\ It(p).do = "lock" => ilock(p)
         /\ It(p).do = "unlock" => iunlock(p)
         /\ It(p).do = "put" => iput(p) \/ iputLast(p)
         /\ It(p).do = "erase" => Erase(p)
         /\ It(p).do = "forget" => Forget(p)
         /\ It(p).do = "drop" => Drop(p)
<1>1. CASE begin_op(p) \/ end_op(p) \/ ilock(p) \/ iunlock(p)
  BY <1>1 DEF begin_op, end_op, ilock, iunlock, Ready, It
<1>2. CASE iput(p) \/ iputLast(p) \/ Erase(p) \/ Forget(p) \/ Drop(p)
  BY <1>2 DEF iput, iputLast, Erase, Forget, Drop, Ready, It
<1>3. CASE LookFails(p) \/ LookParent(p) \/ LookDown(p)
  BY <1>3 DEF LookFails, LookParent, LookDown, Ready, It
<1>4. CASE LinkOld(p) \/ LinkTaken(p) \/ LinkNew(p) \/ TakeBack(p)
  BY <1>4 DEF LinkOld, LinkTaken, LinkNew, TakeBack, Ready, It
<1>5. CASE Unlink(p) \/ RemoveFails(p) \/ Remove(p)
  BY <1>5 DEF Unlink, RemoveFails, Remove, Ready, It
<1>6. CASE CreateFound(p) \/ OpenFound(p) \/ Create(p) \/ Fill(p) \/ FillFails(p)
           \/ Open(p)
  BY <1>6 DEF CreateFound, OpenFound, Create, Fill, FillFails, Open, Ready, It
<1> QED BY <1>1, <1>2, <1>3, <1>4, <1>5, <1>6 DEF Step

(* Steps change what inodes and processes have, not which there are.       *)
Changed(f, g) ==
  g = f \/ (\E k, v : g = [f EXCEPT ![k] = v])
    \/ \E k, v, l, w : g = [f EXCEPT ![k] = v, ![l] = w]

(* Such a change keeps the domain.                                         *)
LEMMA ChangedMap ==
  ASSUME NEW f, NEW g, NEW S, IsMap(f, S), Changed(f, g) PROVE IsMap(g, S)
<1>1. CASE g = f
  BY <1>1
<1>2. ASSUME NEW k, NEW v, g = [f EXCEPT ![k] = v] PROVE IsMap(g, S)
  BY <1>2 DEF IsMap
<1>3. ASSUME NEW k, NEW v, NEW l, NEW w, g = [f EXCEPT ![k] = v, ![l] = w]
      PROVE  IsMap(g, S)
  BY <1>3 DEF IsMap
<1> QED BY <1>1, <1>2, <1>3 DEF Changed

(* Every step of a call makes such changes.                                *)
LEMMA StepChanges ==
  ASSUME NEW p, Step(p)
  PROVE  /\ Changed(dino, dino') /\ (disk' = disk \/ disk' = dino)
         /\ Changed(itab, itab') /\ Changed(lock, lock') /\ Changed(todo, todo')
         /\ scan' = scan
<1>1. Changed(todo, todo') /\ scan' = scan
  <2>1. CASE begin_op(p)
    BY <2>1 DEF Changed, Then, Elsewhere, begin_op
  <2>2. CASE end_op(p)
    BY <2>2 DEF Changed, Then, Elsewhere, end_op
  <2>3. CASE ilock(p)
    BY <2>3 DEF Changed, Then, Elsewhere, ilock
  <2>4. CASE iunlock(p)
    BY <2>4 DEF Changed, Then, Elsewhere, iunlock
  <2>5. CASE iput(p)
    BY <2>5 DEF Changed, Then, Elsewhere, iput
  <2>6. CASE iputLast(p)
    BY <2>6 DEF Changed, Then, Elsewhere, iputLast
  <2>7. CASE Erase(p)
    BY <2>7 DEF Changed, Then, Elsewhere, Erase
  <2>8. CASE Forget(p)
    BY <2>8 DEF Changed, Then, Elsewhere, Forget
  <2>9. CASE Drop(p)
    BY <2>9 DEF Changed, Then, Elsewhere, Drop
  <2>10. CASE LookFails(p)
    BY <2>10 DEF Changed, Then, Elsewhere, LookFails
  <2>11. CASE LookParent(p)
    BY <2>11 DEF Changed, Then, Elsewhere, LookParent
  <2>12. CASE LookDown(p)
    BY <2>12 DEF Changed, Then, Elsewhere, LookDown
  <2>13. CASE LinkOld(p)
    BY <2>13 DEF Changed, Then, Elsewhere, LinkOld
  <2>14. CASE LinkTaken(p)
    BY <2>14 DEF Changed, Then, Elsewhere, LinkTaken
  <2>15. CASE LinkNew(p)
    BY <2>15 DEF Changed, Then, Elsewhere, LinkNew
  <2>16. CASE TakeBack(p)
    BY <2>16 DEF Changed, Then, Elsewhere, TakeBack
  <2>17. CASE Unlink(p)
    BY <2>17 DEF Changed, Then, Elsewhere, Unlink
  <2>18. CASE RemoveFails(p)
    BY <2>18 DEF Changed, Then, Elsewhere, RemoveFails
  <2>19. CASE Remove(p)
    BY <2>19 DEF Changed, Then, Elsewhere, Remove
  <2>20. CASE CreateFound(p)
    BY <2>20 DEF Changed, Then, Elsewhere, CreateFound
  <2>21. CASE OpenFound(p)
    BY <2>21 DEF Changed, Then, Elsewhere, OpenFound
  <2>22. CASE Create(p)
    BY <2>22 DEF Changed, Then, Elsewhere, Create
  <2>23. CASE Fill(p)
    BY <2>23 DEF Changed, Then, Elsewhere, Fill
  <2>24. CASE FillFails(p)
    BY <2>24 DEF Changed, Then, Elsewhere, FillFails
  <2>25. CASE Open(p)
    BY <2>25 DEF Changed, Then, Elsewhere, Open
  <2> QED
    BY <2>1, <2>2, <2>3, <2>4, <2>5, <2>6, <2>7, <2>8, <2>9, <2>10, <2>11,
       <2>12, <2>13, <2>14, <2>15, <2>16, <2>17, <2>18, <2>19, <2>20, <2>21,
       <2>22, <2>23, <2>24, <2>25 DEF Step
<1>2. Changed(dino, dino')
  <2>1. CASE begin_op(p)
    BY <2>1 DEF Changed, Elsewhere, SetNlink, iget, begin_op
  <2>2. CASE end_op(p)
    BY <2>2 DEF Changed, Elsewhere, SetNlink, iget, end_op
  <2>3. CASE ilock(p)
    BY <2>3 DEF Changed, Elsewhere, SetNlink, iget, ilock
  <2>4. CASE iunlock(p)
    BY <2>4 DEF Changed, Elsewhere, SetNlink, iget, iunlock
  <2>5. CASE iput(p)
    BY <2>5 DEF Changed, Elsewhere, SetNlink, iget, iput
  <2>6. CASE iputLast(p)
    BY <2>6 DEF Changed, Elsewhere, SetNlink, iget, iputLast
  <2>7. CASE Erase(p)
    BY <2>7 DEF Changed, Elsewhere, SetNlink, iget, Erase
  <2>8. CASE Forget(p)
    BY <2>8 DEF Changed, Elsewhere, SetNlink, iget, Forget
  <2>9. CASE Drop(p)
    BY <2>9 DEF Changed, Elsewhere, SetNlink, iget, Drop
  <2>10. CASE LookFails(p)
    BY <2>10 DEF Changed, Elsewhere, SetNlink, iget, LookFails
  <2>11. CASE LookParent(p)
    BY <2>11 DEF Changed, Elsewhere, SetNlink, iget, LookParent
  <2>12. CASE LookDown(p)
    BY <2>12 DEF Changed, Elsewhere, SetNlink, iget, LookDown
  <2>13. CASE LinkOld(p)
    BY <2>13 DEF Changed, Elsewhere, SetNlink, iget, LinkOld
  <2>14. CASE LinkTaken(p)
    BY <2>14 DEF Changed, Elsewhere, SetNlink, iget, LinkTaken
  <2>15. CASE LinkNew(p)
    BY <2>15 DEF Changed, Elsewhere, SetNlink, iget, LinkNew
  <2>16. CASE TakeBack(p)
    BY <2>16 DEF Changed, Elsewhere, SetNlink, iget, TakeBack
  <2>17. CASE Unlink(p)
    BY <2>17 DEF Changed, Elsewhere, SetNlink, iget, Unlink
  <2>18. CASE RemoveFails(p)
    BY <2>18 DEF Changed, Elsewhere, SetNlink, iget, RemoveFails
  <2>19. CASE Remove(p)
    BY <2>19 DEF Changed, Elsewhere, SetNlink, iget, Remove
  <2>20. CASE CreateFound(p)
    BY <2>20 DEF Changed, Elsewhere, SetNlink, iget, CreateFound
  <2>21. CASE OpenFound(p)
    BY <2>21 DEF Changed, Elsewhere, SetNlink, iget, OpenFound
  <2>22. CASE Create(p)
    BY <2>22 DEF Changed, Elsewhere, SetNlink, iget, Create
  <2>23. CASE Fill(p)
    BY <2>23 DEF Changed, Elsewhere, SetNlink, iget, Fill
  <2>24. CASE FillFails(p)
    BY <2>24 DEF Changed, Elsewhere, SetNlink, iget, FillFails
  <2>25. CASE Open(p)
    BY <2>25 DEF Changed, Elsewhere, SetNlink, iget, Open
  <2> QED
    BY <2>1, <2>2, <2>3, <2>4, <2>5, <2>6, <2>7, <2>8, <2>9, <2>10, <2>11,
       <2>12, <2>13, <2>14, <2>15, <2>16, <2>17, <2>18, <2>19, <2>20, <2>21,
       <2>22, <2>23, <2>24, <2>25 DEF Step
<1>3. Changed(itab, itab')
  <2>1. CASE begin_op(p)
    BY <2>1 DEF Changed, Elsewhere, SetNlink, iget, begin_op
  <2>2. CASE end_op(p)
    BY <2>2 DEF Changed, Elsewhere, SetNlink, iget, end_op
  <2>3. CASE ilock(p)
    BY <2>3 DEF Changed, Elsewhere, SetNlink, iget, ilock
  <2>4. CASE iunlock(p)
    BY <2>4 DEF Changed, Elsewhere, SetNlink, iget, iunlock
  <2>5. CASE iput(p)
    BY <2>5 DEF Changed, Elsewhere, SetNlink, iget, iput
  <2>6. CASE iputLast(p)
    BY <2>6 DEF Changed, Elsewhere, SetNlink, iget, iputLast
  <2>7. CASE Erase(p)
    BY <2>7 DEF Changed, Elsewhere, SetNlink, iget, Erase
  <2>8. CASE Forget(p)
    BY <2>8 DEF Changed, Elsewhere, SetNlink, iget, Forget
  <2>9. CASE Drop(p)
    BY <2>9 DEF Changed, Elsewhere, SetNlink, iget, Drop
  <2>10. CASE LookFails(p)
    BY <2>10 DEF Changed, Elsewhere, SetNlink, iget, LookFails
  <2>11. CASE LookParent(p)
    BY <2>11 DEF Changed, Elsewhere, SetNlink, iget, LookParent
  <2>12. CASE LookDown(p)
    BY <2>12 DEF Changed, Elsewhere, SetNlink, iget, LookDown
  <2>13. CASE LinkOld(p)
    <3>1. CASE itab[It(p).ip].type = "dir"
      BY <2>13, <3>1 DEF Changed, LinkOld
    <3>2. CASE itab[It(p).ip].type # "dir"
      <4>1. PICK mid : mid = [itab EXCEPT ![It(p).ip].nlink = @ + 1]
        OBVIOUS
      <4>2. itab' = [mid EXCEPT ![ROOTINO].ref = @ + 1]
        BY <2>13, <3>2, <4>1 DEF LinkOld
      <4>3. PICK w : w = [mid[ROOTINO] EXCEPT !.ref = mid[ROOTINO].ref + 1]
        OBVIOUS
      <4>4. PICK v : v = [itab[It(p).ip] EXCEPT !.nlink = itab[It(p).ip].nlink + 1]
        OBVIOUS
      <4>5. mid = [itab EXCEPT ![It(p).ip] = v]
        BY <4>1, <4>4
      <4>6. itab' = [mid EXCEPT ![ROOTINO] = w]
        BY <4>2, <4>3
      <4>7. itab' = [itab EXCEPT ![It(p).ip] = v, ![ROOTINO] = w]
        BY <4>5, <4>6
      <4> QED BY <4>7 DEF Changed
    <3> QED BY <3>1, <3>2
  <2>14. CASE LinkTaken(p)
    BY <2>14 DEF Changed, Elsewhere, SetNlink, iget, LinkTaken
  <2>15. CASE LinkNew(p)
    BY <2>15 DEF Changed, Elsewhere, SetNlink, iget, LinkNew
  <2>16. CASE TakeBack(p)
    BY <2>16 DEF Changed, Elsewhere, SetNlink, iget, TakeBack
  <2>17. CASE Unlink(p)
    BY <2>17 DEF Changed, Elsewhere, SetNlink, iget, Unlink
  <2>18. CASE RemoveFails(p)
    BY <2>18 DEF Changed, Elsewhere, SetNlink, iget, RemoveFails
  <2>19. CASE Remove(p)
    BY <2>19 DEF Changed, Elsewhere, SetNlink, iget, Remove
  <2>20. CASE CreateFound(p)
    BY <2>20 DEF Changed, Elsewhere, SetNlink, iget, CreateFound
  <2>21. CASE OpenFound(p)
    BY <2>21 DEF Changed, Elsewhere, SetNlink, iget, OpenFound
  <2>22. CASE Create(p)
    BY <2>22 DEF Changed, Elsewhere, SetNlink, iget, Create
  <2>23. CASE Fill(p)
    BY <2>23 DEF Changed, Elsewhere, SetNlink, iget, Fill
  <2>24. CASE FillFails(p)
    BY <2>24 DEF Changed, Elsewhere, SetNlink, iget, FillFails
  <2>25. CASE Open(p)
    BY <2>25 DEF Changed, Elsewhere, SetNlink, iget, Open
  <2> QED
    BY <2>1, <2>2, <2>3, <2>4, <2>5, <2>6, <2>7, <2>8, <2>9, <2>10, <2>11,
       <2>12, <2>13, <2>14, <2>15, <2>16, <2>17, <2>18, <2>19, <2>20, <2>21,
       <2>22, <2>23, <2>24, <2>25 DEF Step
<1>4. Changed(lock, lock')
  <2>1. CASE begin_op(p)
    BY <2>1 DEF Changed, Elsewhere, SetNlink, iget, begin_op
  <2>2. CASE end_op(p)
    BY <2>2 DEF Changed, Elsewhere, SetNlink, iget, end_op
  <2>3. CASE ilock(p)
    BY <2>3 DEF Changed, Elsewhere, SetNlink, iget, ilock
  <2>4. CASE iunlock(p)
    BY <2>4 DEF Changed, Elsewhere, SetNlink, iget, iunlock
  <2>5. CASE iput(p)
    BY <2>5 DEF Changed, Elsewhere, SetNlink, iget, iput
  <2>6. CASE iputLast(p)
    BY <2>6 DEF Changed, Elsewhere, SetNlink, iget, iputLast
  <2>7. CASE Erase(p)
    BY <2>7 DEF Changed, Elsewhere, SetNlink, iget, Erase
  <2>8. CASE Forget(p)
    BY <2>8 DEF Changed, Elsewhere, SetNlink, iget, Forget
  <2>9. CASE Drop(p)
    BY <2>9 DEF Changed, Elsewhere, SetNlink, iget, Drop
  <2>10. CASE LookFails(p)
    BY <2>10 DEF Changed, Elsewhere, SetNlink, iget, LookFails
  <2>11. CASE LookParent(p)
    BY <2>11 DEF Changed, Elsewhere, SetNlink, iget, LookParent
  <2>12. CASE LookDown(p)
    BY <2>12 DEF Changed, Elsewhere, SetNlink, iget, LookDown
  <2>13. CASE LinkOld(p)
    BY <2>13 DEF Changed, Elsewhere, SetNlink, iget, LinkOld
  <2>14. CASE LinkTaken(p)
    BY <2>14 DEF Changed, Elsewhere, SetNlink, iget, LinkTaken
  <2>15. CASE LinkNew(p)
    BY <2>15 DEF Changed, Elsewhere, SetNlink, iget, LinkNew
  <2>16. CASE TakeBack(p)
    BY <2>16 DEF Changed, Elsewhere, SetNlink, iget, TakeBack
  <2>17. CASE Unlink(p)
    BY <2>17 DEF Changed, Elsewhere, SetNlink, iget, Unlink
  <2>18. CASE RemoveFails(p)
    BY <2>18 DEF Changed, Elsewhere, SetNlink, iget, RemoveFails
  <2>19. CASE Remove(p)
    BY <2>19 DEF Changed, Elsewhere, SetNlink, iget, Remove
  <2>20. CASE CreateFound(p)
    BY <2>20 DEF Changed, Elsewhere, SetNlink, iget, CreateFound
  <2>21. CASE OpenFound(p)
    BY <2>21 DEF Changed, Elsewhere, SetNlink, iget, OpenFound
  <2>22. CASE Create(p)
    BY <2>22 DEF Changed, Elsewhere, SetNlink, iget, Create
  <2>23. CASE Fill(p)
    BY <2>23 DEF Changed, Elsewhere, SetNlink, iget, Fill
  <2>24. CASE FillFails(p)
    BY <2>24 DEF Changed, Elsewhere, SetNlink, iget, FillFails
  <2>25. CASE Open(p)
    BY <2>25 DEF Changed, Elsewhere, SetNlink, iget, Open
  <2> QED
    BY <2>1, <2>2, <2>3, <2>4, <2>5, <2>6, <2>7, <2>8, <2>9, <2>10, <2>11,
       <2>12, <2>13, <2>14, <2>15, <2>16, <2>17, <2>18, <2>19, <2>20, <2>21,
       <2>22, <2>23, <2>24, <2>25 DEF Step
<1>5. disk' = disk \/ disk' = dino
  <2>1. CASE begin_op(p)
    BY <2>1 DEF Elsewhere, begin_op
  <2>2. CASE end_op(p)
    BY <2>2 DEF Elsewhere, end_op
  <2>3. CASE ilock(p)
    BY <2>3 DEF Elsewhere, ilock
  <2>4. CASE iunlock(p)
    BY <2>4 DEF Elsewhere, iunlock
  <2>5. CASE iput(p)
    BY <2>5 DEF Elsewhere, iput
  <2>6. CASE iputLast(p)
    BY <2>6 DEF Elsewhere, iputLast
  <2>7. CASE Erase(p)
    BY <2>7 DEF Elsewhere, Erase
  <2>8. CASE Forget(p)
    BY <2>8 DEF Elsewhere, Forget
  <2>9. CASE Drop(p)
    BY <2>9 DEF Elsewhere, Drop
  <2>10. CASE LookFails(p)
    BY <2>10 DEF Elsewhere, LookFails
  <2>11. CASE LookParent(p)
    BY <2>11 DEF Elsewhere, LookParent
  <2>12. CASE LookDown(p)
    BY <2>12 DEF Elsewhere, LookDown
  <2>13. CASE LinkOld(p)
    BY <2>13 DEF Elsewhere, LinkOld
  <2>14. CASE LinkTaken(p)
    BY <2>14 DEF Elsewhere, LinkTaken
  <2>15. CASE LinkNew(p)
    BY <2>15 DEF Elsewhere, LinkNew
  <2>16. CASE TakeBack(p)
    BY <2>16 DEF Elsewhere, TakeBack
  <2>17. CASE Unlink(p)
    BY <2>17 DEF Elsewhere, Unlink
  <2>18. CASE RemoveFails(p)
    BY <2>18 DEF Elsewhere, RemoveFails
  <2>19. CASE Remove(p)
    BY <2>19 DEF Elsewhere, Remove
  <2>20. CASE CreateFound(p)
    BY <2>20 DEF Elsewhere, CreateFound
  <2>21. CASE OpenFound(p)
    BY <2>21 DEF Elsewhere, OpenFound
  <2>22. CASE Create(p)
    BY <2>22 DEF Elsewhere, Create
  <2>23. CASE Fill(p)
    BY <2>23 DEF Elsewhere, Fill
  <2>24. CASE FillFails(p)
    BY <2>24 DEF Elsewhere, FillFails
  <2>25. CASE Open(p)
    BY <2>25 DEF Elsewhere, Open
  <2> QED
    BY <2>1, <2>2, <2>3, <2>4, <2>5, <2>6, <2>7, <2>8, <2>9, <2>10, <2>11,
       <2>12, <2>13, <2>14, <2>15, <2>16, <2>17, <2>18, <2>19, <2>20, <2>21,
       <2>22, <2>23, <2>24, <2>25 DEF Step
<1> QED BY <1>1, <1>2, <1>3, <1>4, <1>5

(* MapInv is inductive by itself.                                          *)
LEMMA MapNextInv == MapInv /\ [Next]_vars => MapInv'
<1>0. SUFFICES ASSUME MapInv, [Next]_vars PROVE MapInv'
  OBVIOUS
<1>1. ASSUME NEW p \in Procs, Step(p) PROVE MapInv'
  BY <1>0, <1>1, StepChanges, ChangedMap DEF MapInv
<1>2. ASSUME NEW p \in Procs, SysCall(p) PROVE MapInv'
  <2>1. Changed(itab, itab') /\ Changed(todo, todo')
    BY <1>2 DEF SysCall, iget, Changed
  <2>2. UNCHANGED <<dino, disk, lock, scan>>
    BY <1>2 DEF SysCall
  <2> QED BY <1>0, <2>1, <2>2, ChangedMap DEF MapInv
<1>3. ASSUME NEW p \in Procs, Close(p) PROVE MapInv'
  <2>1. Changed(todo, todo')
    BY <1>3 DEF Close, Changed
  <2>2. UNCHANGED <<dino, disk, itab, lock, scan>>
    BY <1>3 DEF Close
  <2> QED BY <1>0, <2>1, <2>2, ChangedMap DEF MapInv
<1>4. ASSUME NEW p \in Procs, NEW q \in Procs, Share(p, q) PROVE MapInv'
  BY <1>0, <1>4 DEF Share, MapInv
<1>5. CASE Crash
  BY <1>0, <1>5 DEF Crash, MapInv, IsMap
<1>6. CASE ireclaim
  <2>1. Changed(itab, itab') /\ Changed(todo, todo')
    BY <1>6 DEF ireclaim, iget, Changed
  <2>2. UNCHANGED <<dino, disk, lock>> /\ scan' = scan + 1
    BY <1>6 DEF ireclaim
  <2>3. scan' \in Nat
    BY <1>0, <2>2 DEF MapInv
  <2> QED BY <1>0, <2>1, <2>2, <2>3, ChangedMap DEF MapInv
<1>7. CASE Booted
  BY <1>0, <1>7 DEF Booted, MapInv
<1>8. CASE UNCHANGED vars
  BY <1>0, <1>8 DEF vars, MapInv
<1> QED BY <1>0, <1>1, <1>2, <1>3, <1>4, <1>5, <1>6, <1>7, <1>8 DEF Next

(* What a step about inode i does to the others, and to the lists.         *)
Beside(i) ==
  /\ \A j \in Inums \ {i} :
       itab'[j] = itab[j] /\ lock'[j] = lock[j] /\ dino'[j] = dino[j]
  /\ scan' = scan

(* The next instruction, and what Then leaves.                             *)
LEMMA ThenGoes ==
  ASSUME IsMap(todo, Procs), NEW p \in Procs, NEW t, NEW x, NEW s,
         todo[p] = t, Goes(t, x, s)
  PROVE  /\ It(p) = x
         /\ Then(p, <<>>) => todo'[p] = s
         /\ \A u : Then(p, u) => todo'[p] = u \o s
<1>1. \A u : Then(p, u) => todo'[p] = u \o s
  BY DEF IsMap, Goes, Then
<1>2. Then(p, <<>>) => todo'[p] = s
  <2>1. Then(p, <<>>) => todo'[p] = <<>> \o s
    BY <1>1
  <2> QED BY <2>1 DEF Goes
<1>3. It(p) = x
  BY DEF It, Goes
<1> QED BY <1>1, <1>2, <1>3

(* SlotIs of any record,                                                   *)
SlotOf(a, valid, type) ==
  a = [ref |-> 1, valid |-> valid, type |-> type, nlink |-> 0]

(* and what ilock(), iput() and its end make of it.                        *)
LEMMA SlotEdits ==
  ASSUME NEW a, NEW b, NEW type
  PROVE  /\ SlotOf(a, FALSE, "free")
            /\ b = [a EXCEPT !.valid = TRUE, !.type = type, !.nlink = 0]
            => SlotOf(b, TRUE, type)
         /\ SlotOf(a, TRUE, type) /\ b = [a EXCEPT !.type = "free"]
            => SlotOf(b, TRUE, "free")
         /\ SlotOf(a, TRUE, "free") /\ b = [a EXCEPT !.valid = FALSE]
            => SlotOf(b, FALSE, "free")
<1>1. ASSUME SlotOf(a, FALSE, "free"),
             b = [a EXCEPT !.valid = TRUE, !.type = type, !.nlink = 0]
      PROVE  SlotOf(b, TRUE, type)
  BY <1>1, Zenon DEF SlotOf
<1>2. ASSUME SlotOf(a, TRUE, type), b = [a EXCEPT !.type = "free"]
      PROVE  SlotOf(b, TRUE, "free")
  BY <1>2, Zenon DEF SlotOf
<1>3. ASSUME SlotOf(a, TRUE, "free"), b = [a EXCEPT !.valid = FALSE]
      PROVE  SlotOf(b, FALSE, "free")
  BY <1>3, Zenon DEF SlotOf
<1> QED BY <1>1, <1>2, <1>3

(* One step after the other.                                               *)
LEMMA StageStep ==
  ASSUME MapInv, NEW i \in Inums, Stage(i), Step(InitProc),
         scan # 0, \A j \in Inums \ {i} : lock[j] = Nobody
  PROVE  /\ Beside(i)
         /\ \/ Stage(i)'
            \/ /\ todo'[InitProc] = <<>> /\ ops' = {} /\ disk' = dino'
               /\ itab'[i] = NoSlot /\ lock'[i] = Nobody /\ ~Orphan(dino', i)
<1> DEFINE p == InitProc
<1>1. p \in Procs /\ p # Nobody
  BY InodeAssumption
<1>2. IsMap(todo, Procs) /\ IsMap(itab, Inums) /\ IsMap(lock, Inums) /\ IsMap(dino, Inums)
  BY DEF MapInv
<1>3. On("lock", i).do = "lock" /\ On("unlock", i).do = "unlock"
      /\ On("put", i).do = "put" /\ On("erase", i).do = "erase"
      /\ On("forget", i).do = "forget" /\ On("drop", i).do = "drop"
      /\ Begin.do = "begin" /\ [do |-> "end"].do = "end"
      /\ \A op : On(op, i).ip = i
  BY DEF On, Begin
<1>4. scan' = scan
  BY StepChanges
<1>5. CASE /\ At(i, Reclaiming(i), FALSE, FALSE)
           /\ Left(i) /\ SlotIs(i, FALSE, "free")
  <2>1. It(p) = Begin /\ (Then(p, <<>>) => todo'[p] = LockT(i, DoneT(i, EndOp)))
    BY <1>1, <1>2, <1>5, BootLists, ThenGoes DEF At
  <2>2. begin_op(p)
    BY <1>3, <2>1, StepIs
  <2>3. /\ todo'[p] = LockT(i, DoneT(i, EndOp)) /\ ops' = {p}
        /\ UNCHANGED <<dino, disk, itab, lock>>
    BY <1>5, <2>1, <2>2 DEF begin_op, At
  <2>4. Beside(i)
    BY <1>4, <2>3 DEF Beside
  <2>5. At(i, LockT(i, DoneT(i, EndOp)), TRUE, FALSE)'
    BY <1>5, <2>3 DEF At
  <2>6. Left(i)' /\ SlotIs(i, FALSE, "free")'
    BY <1>5, <2>3 DEF Left, SlotIs, Orphan
  <2> QED BY <2>4, <2>5, <2>6 DEF Stage
<1>6. CASE /\ At(i, LockT(i, DoneT(i, EndOp)), TRUE, FALSE)
           /\ Left(i) /\ SlotIs(i, FALSE, "free")
  <2>1. It(p) = On("lock", i) /\ (Then(p, <<>>) => todo'[p] = DoneT(i, EndOp))
    BY <1>1, <1>2, <1>6, BootLists, ThenGoes DEF At
  <2>2. ilock(p) /\ It(p).ip = i
    BY <1>3, <2>1, StepIs
  <2>3. /\ todo'[p] = DoneT(i, EndOp) /\ lock' = [lock EXCEPT ![i] = p]
        /\ UNCHANGED <<dino, disk, ops>>
    BY <2>1, <2>2 DEF ilock
  <2>4. ~itab[i].valid /\ itab[i] = [ref |-> 1, valid |-> FALSE, type |-> "free", nlink |-> 0]
    BY <1>6 DEF SlotIs
  <2>5. itab' = [itab EXCEPT ![i] = [itab[i] EXCEPT
                   !.valid = TRUE, !.type = dino[i].type, !.nlink = dino[i].nlink]]
    BY <2>2, <2>4 DEF ilock
  <2>6. dino[i].nlink = 0
    BY <1>6 DEF Left, Orphan
  <2>7. itab'[i] = [ref |-> 1, valid |-> TRUE, type |-> dino[i].type, nlink |-> 0]
    <3>1. itab'[i] = [itab[i] EXCEPT
                        !.valid = TRUE, !.type = dino[i].type, !.nlink = dino[i].nlink]
      BY <1>2, <2>5 DEF IsMap
    <3>2. itab'[i] = [itab[i] EXCEPT
                        !.valid = TRUE, !.type = dino[i].type, !.nlink = 0]
      BY <2>6, <3>1
    <3>3. SlotOf(itab[i], FALSE, "free")
      BY <2>4, Zenon DEF SlotOf
    <3>4. SlotOf(itab'[i], TRUE, dino[i].type)
      BY <3>2, <3>3, SlotEdits, Zenon
    <3> QED BY <3>4, Zenon DEF SlotOf
  <2>8. Beside(i)
    BY <1>2, <1>4, <2>3, <2>5 DEF Beside, IsMap
  <2>9. At(i, DoneT(i, EndOp), TRUE, TRUE)'
    BY <1>2, <1>6, <2>3 DEF At, IsMap
  <2>10. Left(i)' /\ SlotIs(i, TRUE, dino[i].type)'
    BY <1>6, <2>3, <2>7 DEF Left, SlotIs, Orphan
  <2> QED BY <2>8, <2>9, <2>10 DEF Stage
<1>7. CASE /\ At(i, DoneT(i, EndOp), TRUE, TRUE)
           /\ Left(i) /\ SlotIs(i, TRUE, dino[i].type)
  <2>1. It(p) = On("unlock", i) /\ (Then(p, <<>>) => todo'[p] = PutT(i, EndOp))
    BY <1>1, <1>2, <1>7, BootLists, ThenGoes DEF At
  <2>2. iunlock(p) /\ It(p).ip = i
    BY <1>3, <2>1, StepIs
  <2>3. lock[i] = p /\ itab[i].ref = 1
    BY <1>7 DEF At, SlotIs
  <2>4. /\ todo'[p] = PutT(i, EndOp) /\ lock' = [lock EXCEPT ![i] = Nobody]
        /\ UNCHANGED <<dino, disk, ops, itab>>
    <3>1. It(p).ip = i /\ lock[i] = p /\ itab[i].ref > 0
      BY <2>2, <2>3
    <3> QED BY <2>1, <2>2, <3>1 DEF iunlock
  <2>5. Beside(i)
    BY <1>2, <1>4, <2>4 DEF Beside, IsMap
  <2>6. At(i, PutT(i, EndOp), TRUE, FALSE)'
    BY <1>2, <1>7, <2>4 DEF At, IsMap
  <2>7. Left(i)' /\ SlotIs(i, TRUE, dino[i].type)'
    BY <1>7, <2>4 DEF Left, SlotIs, Orphan
  <2> QED BY <2>5, <2>6, <2>7 DEF Stage
<1>8. CASE /\ At(i, PutT(i, EndOp), TRUE, FALSE)
           /\ Left(i) /\ SlotIs(i, TRUE, dino[i].type)
  <2>1. It(p) = On("put", i) /\ \A u : Then(p, u) => todo'[p] = u \o EndOp
    BY <1>1, <1>2, <1>8, BootLists, ThenGoes DEF At
  <2>2. ToBeFreed(itab[i])
    BY <1>8 DEF SlotIs, ToBeFreed
  <2>3. iputLast(p) /\ It(p).ip = i
    BY <1>3, <2>1, <2>2, StepIs DEF iput
  <2>4. Then(p, <<On("erase", i), On("forget", i), On("drop", i)>>)
    BY <2>3 DEF iputLast
  <2>5. todo'[p] = EraseT(i)
    BY <2>1, <2>4, BootLists
  <2>6. lock' = [lock EXCEPT ![i] = p] /\ UNCHANGED <<dino, disk, ops, itab>>
    BY <2>3 DEF iputLast
  <2>7. Beside(i)
    BY <1>2, <1>4, <2>6 DEF Beside, IsMap
  <2>8. At(i, EraseT(i), TRUE, TRUE)'
    BY <1>2, <1>8, <2>5, <2>6 DEF At, IsMap
  <2>9. Left(i)' /\ SlotIs(i, TRUE, dino[i].type)'
    BY <1>8, <2>6 DEF Left, SlotIs, Orphan
  <2> QED BY <2>7, <2>8, <2>9 DEF Stage
<1>9. CASE /\ At(i, EraseT(i), TRUE, TRUE)
           /\ Left(i) /\ SlotIs(i, TRUE, dino[i].type)
  <2>1. It(p) = On("erase", i) /\ (Then(p, <<>>) => todo'[p] = ForgetT(i))
    BY <1>1, <1>2, <1>9, BootLists, ThenGoes, ZenonT(60) DEF At
  <2>2. Erase(p) /\ It(p).ip = i
    BY <1>3, <2>1, StepIs
  <2>3. /\ todo'[p] = ForgetT(i) /\ dino' = [dino EXCEPT ![i] = FreeInode]
        /\ itab' = [itab EXCEPT ![i].type = "free"]
        /\ UNCHANGED <<disk, ops, lock>>
    BY <2>1, <2>2 DEF Erase, Elsewhere
  <2>4. dino'[i] = FreeInode
    BY <1>2, <2>3 DEF IsMap
  <2>5. ~Orphan(dino', i)
    BY <2>4 DEF Orphan, FreeInode
  <2>6. itab'[i] = [itab[i] EXCEPT !.type = "free"]
    BY <1>2, <2>3 DEF IsMap
  <2>7. SlotIs(i, TRUE, "free")'
    BY <1>9, <2>6, SlotEdits, Zenon DEF SlotIs, SlotOf
  <2>8. Beside(i)
    BY <1>2, <1>4, <2>3 DEF Beside, IsMap
  <2>9. At(i, ForgetT(i), TRUE, TRUE)'
    BY <1>9, <2>3 DEF At
  <2>10. (~Orphan(dino, i))'
    BY <2>5
  <2> QED BY <2>7, <2>8, <2>9, <2>10 DEF Stage
<1>10. CASE At(i, ForgetT(i), TRUE, TRUE) /\ ~Orphan(dino, i) /\ SlotIs(i, TRUE, "free")
  <2>1. It(p) = On("forget", i) /\ (Then(p, <<>>) => todo'[p] = DropT(i))
    BY <1>1, <1>2, <1>10, BootLists, ThenGoes DEF At
  <2>2. Forget(p) /\ It(p).ip = i
    BY <1>3, <2>1, StepIs
  <2>3. /\ todo'[p] = DropT(i) /\ lock' = [lock EXCEPT ![i] = Nobody]
        /\ itab' = [itab EXCEPT ![i].valid = FALSE]
        /\ UNCHANGED <<dino, disk, ops>>
    BY <2>1, <2>2 DEF Forget
  <2>4. itab'[i] = [itab[i] EXCEPT !.valid = FALSE]
    BY <1>2, <2>3 DEF IsMap
  <2>5. SlotIs(i, FALSE, "free")'
    BY <1>10, <2>4, SlotEdits, Zenon DEF SlotIs, SlotOf
  <2>6. Beside(i)
    BY <1>2, <1>4, <2>3 DEF Beside, IsMap
  <2>7. At(i, DropT(i), TRUE, FALSE)'
    BY <1>2, <1>10, <2>3 DEF At, IsMap
  <2>8. (~Orphan(dino, i))'
    BY <1>10, <2>3 DEF Orphan
  <2> QED BY <2>5, <2>6, <2>7, <2>8 DEF Stage
<1>11. CASE At(i, DropT(i), TRUE, FALSE) /\ ~Orphan(dino, i) /\ SlotIs(i, FALSE, "free")
  <2>1. It(p) = On("drop", i) /\ (Then(p, <<>>) => todo'[p] = EndOp)
    BY <1>1, <1>2, <1>11, BootLists, ThenGoes DEF At
  <2>2. Drop(p) /\ It(p).ip = i
    BY <1>3, <2>1, StepIs
  <2>3. itab[i].ref = 1
    BY <1>11 DEF SlotIs
  <2>4. LessOne(itab[i]) = NoSlot
    BY <2>3 DEF LessOne
  <2>5. /\ todo'[p] = EndOp /\ itab' = [itab EXCEPT ![i] = LessOne(itab[i])]
        /\ UNCHANGED <<dino, disk, ops, lock>>
    BY <2>1, <2>2 DEF Drop, Elsewhere
  <2>6. itab'[i] = NoSlot
    BY <1>2, <2>4, <2>5 DEF IsMap
  <2>7. Beside(i)
    BY <1>2, <1>4, <2>5 DEF Beside, IsMap
  <2>8. At(i, EndOp, TRUE, FALSE)'
    BY <1>11, <2>5 DEF At
  <2>9. (~Orphan(dino, i))'
    BY <1>11, <2>5 DEF Orphan
  <2> QED BY <2>6, <2>7, <2>8, <2>9 DEF Stage
<1>12. CASE At(i, EndOp, TRUE, FALSE) /\ ~Orphan(dino, i) /\ itab[i] = NoSlot
  <2>1. It(p) = [do |-> "end"] /\ (Then(p, <<>>) => todo'[p] = <<>>)
    BY <1>1, <1>2, <1>12, BootLists, ThenGoes DEF At
  <2>2. end_op(p)
    BY <1>3, <2>1, StepIs
  <2>3. ops = {p} /\ lock[i] = Nobody
    BY <1>12 DEF At
  <2>4. /\ todo'[p] = <<>> /\ ops' = {} /\ disk' = dino
        /\ UNCHANGED <<dino, itab, lock>>
    BY <2>1, <2>2, <2>3 DEF end_op
  <2>5. Beside(i)
    BY <1>4, <2>4 DEF Beside
  <2>6. ~Orphan(dino', i)
    BY <1>12, <2>4
  <2> QED BY <1>12, <2>3, <2>4, <2>5, <2>6
<1> QED BY <1>5, <1>6, <1>7, <1>8, <1>9, <1>10, <1>11, <1>12 DEF Stage

(* ireclaim() starts with nobody about, at boot and after a crash.         *)
LEMMA ScanStart ==
  /\ Init => MapInv /\ ScanInv
  /\ MapInv /\ Crash => ScanInv'
<1>1. ASSUME Init PROVE MapInv /\ ScanInv
  <2>1. \A d \in Disks : d \in DiskType
    BY DisksAssumption DEF Tree
  <2>2. dino \in [Inums -> InodeType]
    BY <1>1, <2>1 DEF Init, DiskType, InodeType
  <2>3. MapInv
    BY <1>1, <2>2 DEF Init, MapInv, IsMap
  <2>4. BootInv
    BY <1>1 DEF Init, BootInv
  <2>5. \A j \in Inums : ~(j < 1)
    BY InodeAssumption DEF Inums
  <2>6. \A j \in Inums : Untouched(j)
    BY <1>1, <2>5 DEF Init, Untouched
  <2>7. Rested
    BY <1>1, <2>6, InodeAssumption DEF Init, Rested
  <2> QED BY <2>3, <2>4, <2>7 DEF ScanInv
<1>2. ASSUME MapInv, Crash PROVE ScanInv'
  <2>1. BootInv'
    BY <1>2 DEF Crash, BootInv
  <2>2. \A j \in Inums : ~(j < 1)
    BY InodeAssumption DEF Inums
  <2>3. \A j \in Inums : itab'[j] = NoSlot /\ lock'[j] = Nobody
    BY <1>2 DEF Crash
  <2>4. scan' = 1
    BY <1>2 DEF Crash
  <2>5. \A j \in Inums : Untouched(j)'
    BY <2>2, <2>3, <2>4 DEF Untouched
  <2>6. todo'[InitProc] = <<>> /\ ops' = {} /\ disk' = dino'
    BY <1>2, InodeAssumption DEF Crash
  <2> QED BY <2>1, <2>5, <2>6 DEF ScanInv, Rested
<1> QED BY <1>1, <1>2

(* In every stage the first process has something to do.                   *)
LEMMA StageBusy ==
  ASSUME NEW i \in Inums, Stage(i) PROVE todo[InitProc] # <<>>
BY BootLists DEF Stage, At, Goes

(* A step of ireclaim() with an inode.                                     *)
LEMMA ScanStep ==
  ASSUME MapInv, ScanInv, NEW p \in Procs, Step(p), BootInv' PROVE ScanInv'
<1>1. OwnStep(p)
  BY StepOwn
<1>2. scan' = scan /\ todo[p] # <<>>
  BY <1>1 DEF OwnStep
<1>3. SUFFICES ASSUME scan # 0
               PROVE  Rested' \/ \E i \in Inums : Scanning(i)'
  BY <1>2 DEF ScanInv
<1>4. p = InitProc
  BY <1>2, <1>3 DEF ScanInv, BootInv
<1>5. PICK i \in Inums : Scanning(i)
  BY <1>2, <1>3, <1>4 DEF ScanInv, Rested
<1>6. /\ Beside(i)
      /\ \/ Stage(i)'
         \/ /\ todo'[InitProc] = <<>> /\ ops' = {} /\ disk' = dino'
            /\ itab'[i] = NoSlot /\ lock'[i] = Nobody /\ ~Orphan(dino', i)
  <2>1. Stage(i) /\ \A j \in Inums \ {i} : lock[j] = Nobody
    BY <1>5 DEF Scanning, Untouched
  <2> QED BY <1>3, <1>4, <2>1, StageStep
<1>7. \A j \in Inums \ {i} : Untouched(j)'
  BY <1>2, <1>5, <1>6 DEF Scanning, Untouched, Beside, Orphan
<1>8. CASE Stage(i)'
  <2>1. scan' = i + 1
    BY <1>2, <1>5 DEF Scanning
  <2>2. Scanning(i)'
    BY <1>7, <1>8, <2>1 DEF Scanning
  <2> QED BY <2>2
<1>9. CASE /\ todo'[InitProc] = <<>> /\ ops' = {} /\ disk' = dino'
           /\ itab'[i] = NoSlot /\ lock'[i] = Nobody /\ ~Orphan(dino', i)
  <2>1. Untouched(i)'
    BY <1>9 DEF Untouched
  <2>2. \A j \in Inums : Untouched(j)'
    BY <1>7, <2>1
  <2>3. Rested'
    BY <1>9, <2>2 DEF Rested
  <2> QED BY <2>3
<1> QED BY <1>6, <1>8, <1>9

(* ireclaim() finds an inode, or passes one.                               *)
LEMMA ScanOn ==
  ASSUME MapInv, ScanInv, ireclaim, BootInv' PROVE ScanInv'
<1>1. /\ scan \in Inums /\ scan # 0 /\ scan' = scan + 1 /\ scan \in Nat
      /\ todo[InitProc] = <<>> /\ UNCHANGED <<dino, disk, ops, lock>>
  <2>1. \A j \in Inums : j # 0 /\ j \in Nat
    BY DEF Inums
  <2> QED BY <2>1 DEF ireclaim
<1>2. Rested
  BY <1>1, StageBusy DEF ScanInv, Scanning
<1>3. PICK i \in Inums : i = scan /\ i \in Nat
  BY <1>1
<1>4. \A j \in Inums : j \in Nat /\ (j < scan + 1 => j < scan \/ j = i)
  <2>1. \A j \in Inums : j \in Nat
    BY DEF Inums
  <2> QED BY <1>3, <2>1
<1>5. CASE Orphan(dino, i)
  <2>1. PICK t \in Seq(Instr) : t = Reclaiming(i) /\ t = ReclaimOne(i)
    BY ReclaimingIs
  <2>2. /\ itab' = [itab EXCEPT ![i].ref = @ + 1]
        /\ todo' = [todo EXCEPT ![InitProc] = t]
    BY <1>3, <1>5, <2>1 DEF ireclaim, iget
  <2>3. todo'[InitProc] = Reclaiming(i)
    BY <2>1, <2>2, InodeAssumption DEF MapInv, IsMap
  <2>4. itab[i] = NoSlot /\ lock[i] = Nobody
    BY <1>2 DEF Rested, Untouched
  <2>5. SlotIs(i, FALSE, "free")'
    <3>1. itab'[i] = [itab[i] EXCEPT !.ref = itab[i].ref + 1]
      BY <2>2 DEF MapInv, IsMap
    <3>2. NoSlot.ref + 1 = 1
      BY DEF NoSlot
    <3>3. itab'[i] = [NoSlot EXCEPT !.ref = 1]
      BY <2>4, <3>1, <3>2
    <3>4. SlotOf([NoSlot EXCEPT !.ref = 1], FALSE, "free")
      <4>1. ASSUME NEW a, NEW b, a = NoSlot, b = [a EXCEPT !.ref = 1]
            PROVE  SlotOf(b, FALSE, "free")
        BY <4>1, Zenon DEF SlotOf, NoSlot
      <4> QED BY <4>1
    <3> QED BY <3>3, <3>4 DEF SlotOf, SlotIs
  <2>6. At(i, Reclaiming(i), FALSE, FALSE)'
    BY <1>1, <1>2, <2>3, <2>4 DEF At, Rested
  <2>7. Left(i)'
    BY <1>1, <1>2, <1>5 DEF Left, Rested, Orphan
  <2>8. Stage(i)'
    BY <2>5, <2>6, <2>7 DEF Stage
  <2>9. \A j \in Inums \ {i} : Untouched(j)'
    <3>1. \A j \in Inums \ {i} : itab'[j] = itab[j] /\ lock'[j] = lock[j]
      BY <1>1, <2>2 DEF MapInv, IsMap
    <3> QED BY <1>1, <1>2, <1>4, <3>1 DEF Rested, Untouched, Orphan
  <2>10. Scanning(i)'
    BY <1>1, <1>3, <2>8, <2>9 DEF Scanning
  <2> QED BY <2>10 DEF ScanInv
<1>6. CASE ~Orphan(dino, i)
  <2>1. UNCHANGED <<itab, todo>>
    BY <1>3, <1>6 DEF ireclaim
  <2>2. \A j \in Inums : Untouched(j)'
    BY <1>1, <1>2, <1>4, <1>6, <2>1 DEF Rested, Untouched, Orphan
  <2>3. Rested'
    BY <1>1, <1>2, <2>1, <2>2 DEF Rested
  <2> QED BY <2>3 DEF ScanInv
<1> QED BY <1>5, <1>6

(* The invariant of the scan is inductive.                                 *)
LEMMA ScanNext ==
  MapInv /\ ScanInv /\ [Next]_vars => MapInv' /\ ScanInv'
<1>0. SUFFICES ASSUME MapInv, ScanInv, [Next]_vars PROVE ScanInv'
  BY MapNextInv
<1>1. ASSUME Next, scan # 0 \/ scan' = 0 PROVE BootInv'
  <2>1. CASE scan' = 0
    BY <2>1 DEF BootInv
  <2>2. CASE scan # 0
    BY <1>0, <1>1, <2>2, BootNextInv DEF MapInv, ScanInv
  <2> QED BY <1>1, <2>1, <2>2
<1>2. ASSUME NEW p \in Procs, Step(p) PROVE ScanInv'
  <2>1. scan' = scan /\ Next
    BY <1>2, StepChanges DEF Next
  <2>2. BootInv'
    BY <1>1, <2>1
  <2> QED BY <1>0, <1>2, <2>2, ScanStep
<1>3. ASSUME NEW p \in Procs, SysCall(p) \/ Close(p) PROVE ScanInv'
  BY <1>3 DEF SysCall, Close, Idle, ScanInv
<1>4. ASSUME NEW p \in Procs, NEW q \in Procs, Share(p, q) PROVE ScanInv'
  BY <1>4 DEF Share, Idle, ScanInv
<1>5. CASE Crash
  BY <1>0, <1>5, ScanStart
<1>6. CASE ireclaim
  <2>1. scan # 0
    <3>1. \A j \in Inums : j # 0
      BY DEF Inums
    <3> QED BY <1>6, <3>1 DEF ireclaim
  <2>2. BootInv'
    BY <1>1, <1>6, <2>1 DEF Next
  <2> QED BY <1>0, <1>6, <2>2, ScanOn
<1>7. CASE Booted
  BY <1>7 DEF Booted, ScanInv
<1>8. CASE UNCHANGED vars
  BY <1>0, <1>8 DEF vars, ScanInv, Rested, Scanning, Stage, At, Left, SlotIs,
     Untouched, BootInv
<1> QED BY <1>0, <1>2, <1>3, <1>4, <1>5, <1>6, <1>7, <1>8 DEF Next

(***************************************************************************)
(* When ireclaim() is over no inode on disk is in use without a link,      *)
(* whatever a crash left and however often one comes during the scan. This *)
(* needs nothing of paths.                                                 *)
(***************************************************************************)
THEOREM InodeReclaimed == Spec => []Reclaimed
<1>1. MapInv /\ ScanInv => Reclaimed
  <2>1. SUFFICES ASSUME MapInv, ScanInv, scan = NINODES + 1, todo[InitProc] = <<>>,
                        NEW i \in Inums
                 PROVE  ~Orphan(disk, i)
    BY DEF Reclaimed
  <2>2. scan # 0 /\ i < scan
    BY <2>1, InodeAssumption DEF Inums
  <2>3. Rested
    BY <2>1, <2>2, StageBusy DEF ScanInv, Scanning
  <2> QED BY <2>2, <2>3 DEF Rested, Untouched
<1>2. Init => MapInv /\ ScanInv
  BY ScanStart
<1>3. MapInv /\ ScanInv /\ [Next]_vars => MapInv' /\ ScanInv'
  BY ScanNext
<1> QED BY <1>1, <1>2, <1>3, PTL DEF Spec
=============================================================================
