-------------------------------- MODULE Fifo --------------------------------
(***************************************************************************)
(* What the transmit direction promises: bytes come out in the order they  *)
(* were put in, none twice, none invented, none lost, at most Capacity of  *)
(* them under way.                                                         *)
(***************************************************************************)
EXTENDS Integers, Sequences

CONSTANTS Values, Capacity

VARIABLES queue,  \* the bytes under way, oldest first
          last    \* the byte that came out last

Init == queue = <<>> /\ last = "none"

Put == /\ Len(queue) < Capacity
       /\ \E v \in Values : queue' = Append(queue, v)
       /\ UNCHANGED last

Get == /\ queue # <<>>
       /\ last' = Head(queue)
       /\ queue' = Tail(queue)

Next == Put \/ Get

Spec == Init /\ [][Next]_<<queue, last>>
=============================================================================
