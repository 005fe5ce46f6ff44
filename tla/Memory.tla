------------------------------- MODULE Memory -------------------------------
(***************************************************************************)
(* User memory: kalloc.c, the user half of vm.c, and growproc().           *)
(*                                                                         *)
(* An address counts units of a third of a page (PGSIZE = 3), enough to    *)
(* start or end inside a page.  A memory m is what an operation works on:  *)
(*   m.free  number of pages on the free list of kalloc.c                  *)
(*   m.sz    size of the process, p->sz                                    *)
(*   m.pt    its page table: mapped page -> what the user may do there,    *)
(*           "rx" text, "rw" data, "none" the stack guard without PTE_U    *)
(* Which page kalloc() returns makes no difference here, so pages are      *)
(* counted; the pages a page table itself takes are its root only.         *)
(***************************************************************************)
EXTENDS Integers, FiniteSetsExt, SequencesExt, Functions

CONSTANTS MAXVA      \* the first page beyond any user address

ASSUME MemoryAssumption == MAXVA \in Nat /\ MAXVA >= 2

(* The kernel's own pages at the end of each page table.  They are in no   *)
(* m.pt; nothing keeps p->sz below them.                                   *)
TRAMPOLINE == MAXVA - 1
TRAPFRAME == MAXVA - 2

PGSIZE == 3
Page(a) == a \div PGSIZE
PGROUNDUP(a) == (a + PGSIZE - 1) \div PGSIZE

kfree(m, n) == [m EXCEPT !.free = @ + n]

(* Takes n pages of them, or as many as there are. *)
kalloc(m, n) == [m EXCEPT !.free = @ - Min({n, @})]

(* mappages(): maps the pages vs, which kalloc() gave before. *)
mappages(m, vs, perm) ==
  [m EXCEPT !.pt = [v \in vs \cup DOMAIN m.pt |->
                      IF v \in vs THEN perm ELSE m.pt[v]]]

(* Only pages that are mapped are freed: holes are skipped. *)
uvmunmap(m, vs) ==
  LET mapped == vs \cap DOMAIN m.pt
  IN kfree([m EXCEPT !.pt = Restrict(@, DOMAIN @ \ vs)], Cardinality(mapped))

(* Sizes are unsigned: a negative one is beyond any oldsz. *)
uvmdealloc(m, oldsz, newsz) ==
  IF newsz >= oldsz \/ newsz < 0 THEN [mem |-> m, sz |-> oldsz]
  ELSE [mem |-> uvmunmap(m, PGROUNDUP(newsz) .. PGROUNDUP(oldsz) - 1),
        sz |-> newsz]

(* Page by page until one is missing; then those it got go back.  sz is 0 *)
(* when it fails.                                                          *)
uvmalloc(m, oldsz, newsz, perm) ==
  LET first == PGROUNDUP(oldsz)
      n == Min({m.free, Max({PGROUNDUP(newsz) - first, 0})})
      got == mappages(kalloc(m, n), first .. first + n - 1, perm)
  IN IF newsz < oldsz THEN [mem |-> m, sz |-> oldsz]
     ELSE IF first + n < PGROUNDUP(newsz)
     THEN [mem |-> uvmdealloc(got, (first + n) * PGSIZE, first * PGSIZE).mem,
           sz |-> 0]
     ELSE [mem |-> got, sz |-> newsz]

uvmcreate(free) == kalloc([free |-> free, sz |-> 0, pt |-> <<>>], 1)

(* freewalk() panics when a page is still mapped. *)
FreewalkPanics(m) == DOMAIN m.pt # {}

(* Mutant: only the pages that are wholly below sz. *)
uvmfreeRoundsDown(m, sz) == kfree(uvmunmap(m, 0 .. Page(sz) - 1), 1)

uvmfree(m, sz) == kfree(uvmunmap(m, 0 .. PGROUNDUP(sz) - 1), 1)

(* Mutant: when it fails the pages copied so far are only unmapped. *)
uvmcopyKeeps(m, old, sz) ==
  LET vs == {v \in DOMAIN old : v * PGSIZE < sz}
  IN IF Cardinality(vs) > m.free THEN [mem |-> kalloc(m, m.free), ok |-> FALSE]
     ELSE [mem |-> [kalloc(m, Cardinality(vs)) EXCEPT !.pt = Restrict(old, vs)],
           ok |-> TRUE]

(* A size that takes in the trapframe. *)
Overlaps(sz) == sz > TRAPFRAME * PGSIZE

(* Copies the mapped pages of old below sz into m, which has none yet, in  *)
(* ascending order; if kalloc() fails at page i the pages copied so far    *)
(* are freed again.  The trapframe is mapped too, and if sz takes it in it *)
(* is given a page like the others (and mappages() panics, see kfork()).   *)
uvmcopy(m, old, sz) ==
  LET vs == {v \in DOMAIN old : v * PGSIZE < sz}
      n == Min({m.free, Cardinality(vs)})
      first == {v \in vs : Cardinality({w \in vs : w <= v}) <= n}
      got == [kalloc(m, n) EXCEPT !.pt = Restrict(old, first)]
  IN IF first # vs \/ (Overlaps(sz) /\ got.free = 0)
     THEN [mem |-> uvmunmap(got, first), ok |-> FALSE]
     ELSE [mem |-> got, ok |-> TRUE]

(* The guard page below the stack. *)
uvmclear(m, v) == [m EXCEPT !.pt[v] = "none"]

(* Zero when the address is not mapped for the user. *)
walkaddr(m, v) == v < MAXVA /\ v \in DOMAIN m.pt /\ m.pt[v] # "none"

(* walk() panics beyond MAXVA, which a size does not rule out. *)
vmfaultPanics(m, va) == va \in 0 .. m.sz - 1 /\ Page(va) >= MAXVA

(* The page of an address (unsigned) that the process owns by its size and *)
(* that is not mapped is given to it now, if there is one.                 *)
vmfault(m, va) ==
  IF /\ va \in 0 .. m.sz - 1 /\ Page(va) \notin DOMAIN m.pt
     /\ Page(va) < TRAPFRAME /\ m.free > 0
  THEN mappages(kalloc(m, 1), {Page(va)}, "rw") ELSE m

(* copyin() and copyout() go from page to page, fault in what is lazily    *)
(* allocated and stop at the first page they may not use.  The result      *)
(* says how many of the n units from address a on were reached.            *)
Reach(m, a, n, write) ==
  LET first == Page(a)
      last == Page(a + n - 1)
      got[v \in first - 1 .. last] ==
        IF v = first - 1 THEN [mem |-> m, go |-> TRUE, n |-> 0]
        ELSE LET acc == got[v - 1]
                 m2 == IF walkaddr(acc.mem, v) THEN acc.mem
                       ELSE vmfault(acc.mem, v * PGSIZE)
             IN IF ~acc.go THEN acc
                ELSE IF walkaddr(m2, v) /\ (write => m2.pt[v] = "rw")
                THEN [mem |-> m2, go |-> TRUE,
                      n |-> Min({n, (v + 1) * PGSIZE - a})]
                ELSE [mem |-> m2, go |-> FALSE, n |-> acc.n]
  IN IF n = 0 THEN [mem |-> m, go |-> TRUE, n |-> 0] ELSE got[last]

copyin(m, a, n) == Reach(m, a, n, FALSE)
(* It does not get past the trapframe; it may begin beyond. *)
copyinPanics(m, a, n) == n > 0 /\ vmfaultPanics(m, Page(a) * PGSIZE)
copyout(m, a, n) == Reach(m, a, n, TRUE)

(* A string of n units: unlike copyin(), no page is faulted in. *)
copyinstr(m, a, n) == \A v \in Page(a) .. Page(a + n - 1) : walkaddr(m, v)

(* What stops uvmalloc() if memory lasts that far: mappages() at a page of *)
(* the kernel, walk() beyond them.                                         *)
uvmallocPanics(m, oldsz, newsz) ==
  LET first == PGROUNDUP(oldsz)
      bad == Max({first, TRAPFRAME})
  IN IF bad >= PGROUNDUP(newsz) \/ bad - first >= m.free THEN ""
     ELSE IF bad < MAXVA THEN "mappages: remap" ELSE "walk"

(* uvmunmap() of the pages first to last frees the trapframe, whose page   *)
(* is in use: the CPU never gets out of the faults of uservec, which is    *)
(* taken for a panic here.  kfree() panics about the trampoline.           *)
uvmunmapPanics(first, last) ==
  IF first > last \/ last < TRAPFRAME THEN ""
  ELSE IF first >= MAXVA THEN "walk"
  ELSE IF last >= TRAMPOLINE THEN "kfree" ELSE "trapframe freed"

growprocPanics(m, n) ==
  IF n > 0 THEN uvmallocPanics(m, m.sz, m.sz + n)
  ELSE IF m.sz + n < 0 THEN ""
  ELSE uvmunmapPanics(PGROUNDUP(m.sz + n), PGROUNDUP(m.sz) - 1)

(* A negative n beyond the size changes nothing, and is no error. *)
growproc(m, n) ==
  LET up == uvmalloc(m, m.sz, m.sz + n, "rw")
      down == uvmdealloc(m, m.sz, m.sz + n)
  IN IF n > 0
     THEN IF up.sz = 0 THEN [mem |-> up.mem, ok |-> FALSE]
          ELSE [mem |-> [up.mem EXCEPT !.sz = up.sz], ok |-> TRUE]
     ELSE IF n < 0
     THEN [mem |-> [down.mem EXCEPT !.sz = down.sz], ok |-> TRUE]
     ELSE [mem |-> m, ok |-> TRUE]
=============================================================================
