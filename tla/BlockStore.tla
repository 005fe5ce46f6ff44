----------------------------- MODULE BlockStore -----------------------------
(***************************************************************************)
(* What the buffer cache promises the file system: disk blocks that one    *)
(* process at a time may use, in which it finds what was last written      *)
(* there, whoever wrote it.                                                *)
(***************************************************************************)
CONSTANTS Users, Blocks, Vals, Nobody, Nothing

VARIABLES
  content,   \* of each block
  holder,    \* who has it between bread() and brelse()
  view       \* what each user finds in the block it holds

storeVars == <<content, holder, view>>

StoreInit ==
  /\ content \in [Blocks -> Vals]
  /\ holder = [n \in Blocks |-> Nobody]
  /\ view = [p \in Users |-> Nothing]

Take(p, n) ==
  /\ holder[n] = Nobody
  /\ view[p] = Nothing
  /\ holder' = [holder EXCEPT ![n] = p]
  /\ view' = [view EXCEPT ![p] = content[n]]
  /\ UNCHANGED content

Write(p, n, v) ==
  /\ holder[n] = p
  /\ content' = [content EXCEPT ![n] = v]
  /\ view' = [view EXCEPT ![p] = v]
  /\ UNCHANGED holder

Drop(p, n) ==
  /\ holder[n] = p
  /\ holder' = [holder EXCEPT ![n] = Nobody]
  /\ view' = [view EXCEPT ![p] = Nothing]
  /\ UNCHANGED content

StoreNext ==
  \E p \in Users, n \in Blocks :
    \/ Take(p, n) \/ Drop(p, n)
    \/ \E v \in Vals : Write(p, n, v)

StoreSpec == StoreInit /\ [][StoreNext]_storeVars
=============================================================================
