-------------------------------- MODULE Tty --------------------------------
(***************************************************************************)
(* What the console promises of its input.  Characters go into a line that *)
(* can still be edited, until it is complete or there is no more room;     *)
(* from then on they are read once each, in order.  A read ends behind a   *)
(* newline, and before an end-of-file; only a read that has got nothing    *)
(* takes an end-of-file away.                                              *)
(***************************************************************************)
EXTENDS Naturals, Sequences, SequencesExt

CONSTANTS Readers, Chars, Newline, Eof, Nothing, Capacity

VARIABLES
  line,     \* typed, and may still be erased
  queue,    \* may be read
  last      \* what each reader got last in its present read

ttyVars == <<line, queue, last>>

TtyInit == line = <<>> /\ queue = <<>> /\ last = [p \in Readers |-> Nothing]

Type(c) ==
  LET typed == Append(line, c)
      size == Len(queue) + Len(typed)
  IN /\ size <= Capacity
     /\ IF c \in {Newline, Eof} \/ size = Capacity
        THEN queue' = queue \o typed /\ line' = <<>>
        ELSE line' = typed /\ UNCHANGED queue
     /\ UNCHANGED last

Erase == line # <<>> /\ line' = Front(line) /\ UNCHANGED <<queue, last>>

Take(p) ==
  /\ queue # <<>> /\ Head(queue) # Eof /\ last[p] \notin {Newline, Eof}
  /\ queue' = Tail(queue)
  /\ last' = [last EXCEPT ![p] = Head(queue)]
  /\ UNCHANGED line

TakeEof(p) ==
  /\ queue # <<>> /\ Head(queue) = Eof /\ last[p] = Nothing
  /\ queue' = Tail(queue)
  /\ last' = [last EXCEPT ![p] = Eof]
  /\ UNCHANGED line

(* The character cannot be delivered: it is lost, and the read ends. *)
Lose(p) ==
  /\ queue # <<>> /\ Head(queue) # Eof /\ last[p] \notin {Newline, Eof}
  /\ queue' = Tail(queue)
  /\ last' = [last EXCEPT ![p] = Nothing]
  /\ UNCHANGED line

Finish(p) ==
  /\ last[p] # Nothing
  /\ last' = [last EXCEPT ![p] = Nothing]
  /\ UNCHANGED <<line, queue>>

TtyNext ==
  \/ \E c \in Chars : Type(c)
  \/ Erase
  \/ \E p \in Readers : Take(p) \/ TakeEof(p) \/ Lose(p) \/ Finish(p)

TtySpec == TtyInit /\ [][TtyNext]_ttyVars
=============================================================================
