------------------------------- MODULE Mutex -------------------------------
(***************************************************************************)
(* What a sleep-lock promises its callers: one holder at a time, and while *)
(* somebody is interested the lock does not stay free.  It promises no     *)
(* order: a caller that arrives while a sleeper is being woken may pass it. *)
(***************************************************************************)
CONSTANTS Clients, Nobody

VARIABLES
  holder,   \* the client inside acquiresleep() .. releasesleep(), or Nobody
  wanting   \* clients inside acquiresleep()

mutexVars == <<holder, wanting>>

MutexInit == holder = Nobody /\ wanting = {}

Want(p) ==
  /\ holder # p /\ p \notin wanting
  /\ wanting' = wanting \cup {p}
  /\ UNCHANGED holder

Enter(p) ==
  /\ holder = Nobody
  /\ p \in wanting
  /\ holder' = p
  /\ wanting' = wanting \ {p}

Exit(p) ==
  /\ holder = p
  /\ holder' = Nobody
  /\ UNCHANGED wanting

EnterSome == \E p \in Clients : Enter(p)
ExitSome == \E p \in Clients : Exit(p)

MutexNext == EnterSome \/ ExitSome \/ \E p \in Clients : Want(p)

MutexSafeSpec == MutexInit /\ [][MutexNext]_mutexVars

MutexSpec == MutexSafeSpec /\ WF_mutexVars(EnterSome)
=============================================================================
