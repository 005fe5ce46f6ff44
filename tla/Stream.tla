------------------------------- MODULE Stream -------------------------------
(***************************************************************************)
(* What a pipe promises: a bounded first-in first-out stream of bytes.     *)
(* Bytes go in while both ends are open, and come out in order, also after *)
(* the last writer has gone.                                               *)
(***************************************************************************)
EXTENDS Naturals, Sequences

CONSTANTS Bytes, Capacity

VARIABLES
  queue,      \* bytes written and not yet read
  writable,   \* somebody holds the write end
  readable    \* somebody holds the read end

streamVars == <<queue, writable, readable>>

StreamInit == queue = <<>> /\ writable = TRUE /\ readable = TRUE

Put(b) ==
  /\ writable /\ readable /\ Len(queue) < Capacity
  /\ queue' = Append(queue, b)
  /\ UNCHANGED <<writable, readable>>

Get ==
  /\ readable /\ queue # <<>>
  /\ queue' = Tail(queue)
  /\ UNCHANGED <<writable, readable>>

CloseWrite == writable /\ writable' = FALSE /\ UNCHANGED <<queue, readable>>

CloseRead == readable /\ readable' = FALSE /\ UNCHANGED <<queue, writable>>

StreamNext == Get \/ CloseWrite \/ CloseRead \/ \E b \in Bytes : Put(b)

StreamSpec == StreamInit /\ [][StreamNext]_streamVars
=============================================================================
