----------------------------- MODULE BlockDevice -----------------------------
(***************************************************************************)
(* What the disk driver promises its caller: a request moves one block     *)
(* between a buffer and the disk, once, at some moment between the call    *)
(* and the return.  Requests for different buffers are served in any       *)
(* order.  A buffer has one request at a time; whoever asks holds its      *)
(* sleep-lock.                                                             *)
(***************************************************************************)
CONSTANTS Bufs, Blocks, Vals

VARIABLES
  platter,   \* what is on the disk
  data,      \* b->data
  req        \* the request under way for each buffer

NoReq == [op |-> "none"]

Reqs == [op : {"read", "write"}, block : Blocks, served : BOOLEAN]

deviceVars == <<platter, data, req>>

DeviceTypeOK ==
  /\ platter \in [Blocks -> Vals]
  /\ data \in [Bufs -> Vals]
  /\ req \in [Bufs -> Reqs \cup {NoReq}]

DeviceInit ==
  /\ platter \in [Blocks -> Vals]
  /\ \E v \in Vals : data = [b \in Bufs |-> v]
  /\ req = [b \in Bufs |-> NoReq]

Request(b, n, op) ==
  /\ req[b] = NoReq
  /\ req' = [req EXCEPT ![b] = [op |-> op, block |-> n, served |-> FALSE]]
  /\ UNCHANGED <<platter, data>>

Serve(b) ==
  /\ req[b] # NoReq
  /\ ~req[b].served
  /\ req' = [req EXCEPT ![b].served = TRUE]
  /\ IF req[b].op = "read"
       THEN /\ data' = [data EXCEPT ![b] = platter[req[b].block]]
            /\ UNCHANGED platter
       ELSE /\ platter' = [platter EXCEPT ![req[b].block] = data[b]]
            /\ UNCHANGED data

Return(b) ==
  /\ req[b] # NoReq
  /\ req[b].served
  /\ req' = [req EXCEPT ![b] = NoReq]
  /\ UNCHANGED <<platter, data>>

(* The caller fills a buffer that is not with the disk. *)
Fill(b, v) ==
  /\ req[b] = NoReq
  /\ data' = [data EXCEPT ![b] = v]
  /\ UNCHANGED <<platter, req>>

DeviceNext ==
  \E b \in Bufs :
    \/ Serve(b) \/ Return(b)
    \/ \E v \in Vals : Fill(b, v)
    \/ \E n \in Blocks, op \in {"read", "write"} : Request(b, n, op)

DeviceSpec == DeviceInit /\ [][DeviceNext]_deviceVars
=============================================================================
