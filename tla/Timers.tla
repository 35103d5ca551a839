------------------------------- MODULE Timers -------------------------------
(***************************************************************************)
(* What a set of one-shot timers promises, with no list: every timer that  *)
(* is on counts its own ticks down by one at each clock tick, goes off     *)
(* only when they have all passed, and goes off before the next tick.      *)
(***************************************************************************)
EXTENDS Integers

CONSTANTS Dogs,     \* the timers
          Spans     \* the ticks one may be started with

VARIABLE left       \* the ticks each timer still has to run, or Off

Off == -1

Init == left \in [Dogs -> {Off} \cup Spans]

Start(d) == \E n \in Spans : left' = [left EXCEPT ![d] = n]

Cancel(d) == left' = [left EXCEPT ![d] = Off]

\* Time passes for all timers alike, and only when none is overdue.
Tick == /\ \A d \in Dogs : left[d] # 0
        /\ left' = [d \in Dogs |-> IF left[d] = Off THEN Off ELSE left[d] - 1]

\* A timer goes off, or is started again by its own callback.
Fire(d) == /\ left[d] = 0
           /\ Cancel(d) \/ Start(d)

\* A timer is stopped before its time, or started while it is off.
Next == \/ Tick
        \/ \E d \in Dogs : \/ Fire(d)
                           \/ left[d] > 0 /\ Cancel(d)
                           \/ left[d] = Off /\ Start(d)

Spec == Init /\ [][Next]_left
=============================================================================
