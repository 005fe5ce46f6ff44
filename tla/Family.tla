------------------------------- MODULE Family -------------------------------
(***************************************************************************)
(* What fork(), exit() and wait() promise user programs: a tree of         *)
(* processes rooted at init that each call changes in one step, however    *)
(* many calls run at once.  A child belongs to a live parent from the      *)
(* moment it exists; the children of a process that exits belong to init   *)
(* from that moment; a parent collects each of its dead children once; and *)
(* init collects every dead child it has.                                  *)
(***************************************************************************)
CONSTANTS Members, Root, Nobody

VARIABLES
  status,     \* "free", "alive" or "dead"
  parentOf

familyVars == <<status, parentOf>>

Fork(p, q) ==
  /\ status[p] = "alive" /\ status[q] = "free"
  /\ status' = [status EXCEPT ![q] = "alive"]
  /\ parentOf' = [parentOf EXCEPT ![q] = p]

Exit(p) ==
  /\ status[p] = "alive" /\ p # Root
  /\ status' = [status EXCEPT ![p] = "dead"]
  /\ parentOf' = [q \in Members |-> IF parentOf[q] = p THEN Root ELSE parentOf[q]]

Collect(p, q) ==
  /\ status[p] = "alive" /\ status[q] = "dead" /\ parentOf[q] = p
  /\ status' = [status EXCEPT ![q] = "free"]
  /\ parentOf' = [parentOf EXCEPT ![q] = Nobody]

FamilyInit ==
  /\ status = [p \in Members |-> IF p = Root THEN "alive" ELSE "free"]
  /\ parentOf = [p \in Members |-> Nobody]

FamilyNext ==
  \E p \in Members :
    Exit(p) \/ \E q \in Members : Fork(p, q) \/ Collect(p, q)

FamilySafeSpec == FamilyInit /\ [][FamilyNext]_familyVars

FamilySpec ==
  /\ FamilySafeSpec
  /\ \A q \in Members : WF_familyVars(Collect(Root, q))
=============================================================================
