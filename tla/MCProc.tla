------------------------------- MODULE MCProc -------------------------------
EXTENDS Proc, TLC
(* init is not interchangeable with the others; CPUs are. *)
Symm == Permutations(Procs \ {InitProc}) \cup Permutations(Cpus)
=============================================================================
