---------------------------- MODULE MCVirtioDisk ----------------------------
EXTENDS VirtioDisk, TLC

CONSTANTS p1, p2, p3, b1, b2, b3, n1, n2

R(p, op, b, n) == <<p, [op |-> op, buf |-> b, block |-> n]>>

(* Two writers and a reader; the reader and one writer meet in a block. *)
MCRequests ==
  {R(p1, "read", b1, n1), R(p2, "write", b2, n1), R(p3, "write", b3, n2)}
=============================================================================
