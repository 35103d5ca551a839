----------------------------- MODULE LossyFifo ------------------------------
(***************************************************************************)
(* What the receive direction promises: a byte that arrives is accepted or *)
(* lost at the door, and an accepted one comes out, once and in the order  *)
(* of arrival.  A gap is possible, a reordering is not, and nothing that   *)
(* was accepted disappears.                                                *)
(***************************************************************************)
EXTENDS Integers, Sequences

CONSTANTS Values, Capacity

VARIABLES arriving,  \* the byte at the door, or "none"
          queue,     \* the accepted bytes, oldest first
          last       \* the byte that came out last

Init == arriving = "none" /\ queue = <<>> /\ last = "none"

Arrive == /\ arriving = "none"
          /\ arriving' \in Values
          /\ UNCHANGED <<queue, last>>

Accept == /\ arriving # "none" /\ Len(queue) < Capacity
          /\ queue' = Append(queue, arriving)
          /\ arriving' = "none"
          /\ UNCHANGED last

Lose == /\ arriving # "none"
        /\ arriving' = "none"
        /\ UNCHANGED <<queue, last>>

Get == /\ queue # <<>>
       /\ last' = Head(queue)
       /\ queue' = Tail(queue)
       /\ UNCHANGED arriving

Next == Arrive \/ Accept \/ Lose \/ Get

Spec == Init /\ [][Next]_<<arriving, queue, last>>
=============================================================================
