----------------------------- MODULE MCDrivers -----------------------------
(* Values for model checking Drivers: every tens and every units pattern   *)
(* occurs, and a byte the display refuses.                                 *)
EXTENDS Drivers

MCShows  == {0, 19, 28, 37, 46, 55, 64, 73, 82, 91, 100, 255}
MCLights == {0, 1, 2, 4, 8}
MCOtherC == {1, 5, 13}
MCOtherD == {8}

(* The two drivers share nothing, so each is explored while the other is   *)
(* unused.                                                                 *)
Unused(d, steps) == /\ \A t \in Tasks : at[t] \notin {steps[n] : n \in DOMAIN steps}
                    /\ final[d] = 0
                    /\ last[d] = [t \in Tasks |-> 0]

OneDriver == Unused("display", DisplaySteps) \/ Unused("leds", LedSteps)
=============================================================================
