------------------------------ MODULE Journal ------------------------------
(***************************************************************************)
(* What the log promises the file system: a store whose contents survive   *)
(* a crash in the state they had at some moment when no operation was      *)
(* under way.  The writes of an operation are visible to everybody at      *)
(* once, become durable all together, together with those of every other   *)
(* operation that ended before, and are all lost if the crash comes first. *)
(***************************************************************************)
CONSTANTS Clients, Addresses, Contents

VARIABLES
  mem,       \* what a read returns
  durable,   \* what a crash leaves
  open       \* clients inside an operation

journalVars == <<mem, durable, open>>

JournalInit ==
  /\ mem \in [Addresses -> Contents]
  /\ durable = mem
  /\ open = {}

Begin(p) ==
  /\ p \notin open
  /\ open' = open \cup {p}
  /\ UNCHANGED <<mem, durable>>

Write(p, a, v) ==
  /\ p \in open
  /\ mem' = [mem EXCEPT ![a] = v]
  /\ UNCHANGED <<durable, open>>

End(p) ==
  /\ p \in open
  /\ open' = open \ {p}
  /\ UNCHANGED <<mem, durable>>

Commit ==
  /\ open = {}
  /\ durable' = mem
  /\ UNCHANGED <<mem, open>>

LoseMemory ==
  /\ mem' = durable
  /\ open' = {}
  /\ UNCHANGED durable

JournalNext ==
  \/ Commit \/ LoseMemory
  \/ \E p \in Clients :
       Begin(p) \/ End(p) \/ \E a \in Addresses, v \in Contents : Write(p, a, v)

JournalSpec == JournalInit /\ [][JournalNext]_journalVars
=============================================================================
