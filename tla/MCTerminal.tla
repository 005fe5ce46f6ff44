----------------------------- MODULE MCTerminal -----------------------------
EXTENDS Terminal, TLC

CONSTANTS p, q
Read(n) == [call |-> "read", n |-> n]
Write(n) == [call |-> "write", n |-> n]
Pause(n) == [call |-> "pause", n |-> n]
Budget(ofP, ofQ, keys, prints, victims) ==
  [jobs |-> p :> ofP @@ q :> ofQ, keys |-> keys, prints |-> prints,
   victims |-> victims]

(* Lines are edited and read by two; output from all sides meets; the      *)
(* clock and kills.                                                        *)
MCBudgets ==
  { Budget({Read(2)}, {Read(3)}, 3, 0, {}),
    Budget({Write(2)}, {Write(1)}, 1, 1, {p}),
    Budget({Read(1), Pause(1)}, {Pause(2)}, 1, 0, {p, q}) }
=============================================================================
