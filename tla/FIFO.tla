-------------------------------- MODULE FIFO --------------------------------
(***************************************************************************)
(* What msgChannel promises to the two ends of it: an unbounded queue.     *)
(***************************************************************************)
EXTENDS Sequences

CONSTANT Msg

VARIABLE queue

Init == queue = <<>>

Put(m) == queue' = Append(queue, m)

Get == queue # <<>> /\ queue' = Tail(queue)

Next == Get \/ \E m \in Msg : Put(m)

Spec == Init /\ [][Next]_queue
=============================================================================
