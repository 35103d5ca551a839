----------------------------- MODULE Appliance -----------------------------
(***************************************************************************)
(* What the feeder promises the person at its front panel, without clock   *)
(* ticks, control points, LEDs or digits: settings change only while it is *)
(* being edited, one notch at a time; time passes and meals begin only     *)
(* while it runs; it starts running again at minute 0.                     *)
(***************************************************************************)
EXTENDS Integers

CONSTANTS Knobs, Settings, Initial,  \* the settings and their ranges
          Food, Water                \* the two knobs that are periods

VARIABLES knob, phase, minute, feeding, watering

vars == <<knob, phase, minute, feeding, watering>>

Init == /\ knob = Initial /\ phase = "run" /\ minute = 0
        /\ feeding = FALSE /\ watering = FALSE

Edit == /\ phase' = "edit"
        /\ UNCHANGED <<knob, minute, feeding, watering>>

Turn(k) == /\ phase = "edit"
           /\ knob' \in Settings
           /\ \A other \in Knobs \ {k} : knob'[other] = knob[other]
           /\ knob'[k] - knob[k] \in {-1, 1}
           /\ UNCHANGED <<phase, minute, feeding, watering>>

Restart == /\ phase = "edit" /\ minute' = 0
           /\ UNCHANGED <<knob, phase, feeding, watering>>

Resume == /\ phase = "edit" /\ minute = 0 /\ phase' = "run"
          /\ UNCHANGED <<knob, minute, feeding, watering>>

Elapse == /\ phase = "run" /\ minute' # 0
          /\ UNCHANGED <<knob, phase, feeding, watering>>

(* A meal is due at the positive multiples of a positive period.           *)
Due(k) == minute # 0 /\ knob[k] # 0 /\ minute % knob[k] = 0

Serve == /\ phase = "run"
         /\ feeding'  \in {feeding, Due(Food) \/ feeding}
         /\ watering' \in {watering, Due(Water) \/ watering}
         /\ UNCHANGED <<knob, phase, minute>>

Stop == /\ feeding'  \in {feeding, FALSE}
        /\ watering' \in {watering, FALSE}
        /\ UNCHANGED <<knob, phase, minute>>

Next == \/ Edit \/ (\E k \in Knobs : Turn(k)) \/ Restart \/ Resume
        \/ Elapse \/ Serve \/ Stop

Spec == Init /\ [][Next]_vars
=============================================================================
