---------------------------- MODULE SharedPanel ----------------------------
(***************************************************************************)
(* The feeder used from the panel and by a client at once: Feeder with a   *)
(* history variable that says what a client has changed behind the back of *)
(* the person at the panel, and of the loop.  Where FrontPanel shows what  *)
(* holds without a client, this module shows how far it holds with one.    *)
(***************************************************************************)
EXTENDS Feeder

VARIABLE touched
  \* "edit":  a command has changed what is being edited, or how it is
  \*          shown, since a mode key was last pressed
  \* "clock": a command has reset the clock since the loop last counted

hvars == <<vars, touched>>

edit == <<setting, running, mode, count, leds, display>>

(* A mode key starts the editing anew; the loop counts when it wakes up.   *)
PanelStep ==
  /\ MainStep
  /\ touched' = touched \ ((IF pc = "key" /\ btkey \in Tunable THEN {"edit"} ELSE {})
                             \cup (IF pc = "sleep" THEN {"clock"} ELSE {}))

ClientStep ==
  /\ ServerTask
  /\ touched' = touched \cup (IF edit' # edit THEN {"edit"} ELSE {})
                        \cup (IF clock' # clock THEN {"clock"} ELSE {})

HInit == Init /\ touched = {}

HSpec == /\ HInit
         /\ [][PanelStep \/ ClientStep]_hvars
         /\ Fairness

-----------------------------------------------------------------------------
(* In configuration mode digits, LED, count and setting agree, so that      *)
(* KEY_UP and KEY_DOWN step from the value shown, unless a command has      *)
(* changed something since the mode key: the setters of dogfeed.c leave the *)
(* count of the panel as it was, and only a mode key loads it again.        *)
PanelTrueUnlessTouched ==
  (pc = "sleep" /\ ~running /\ "edit" \notin touched) =>
     /\ mode \in Tunable
     /\ leds = mode
     /\ count = setting[mode]
     /\ display = count

(* A meal begins at a positive multiple of a positive period although a     *)
(* client may change the period at any time, unless a command has reset the *)
(* clock while the loop was showing the minute: then it may begin at 0.     *)
MealsOnTimeUnlessReset ==
  [][LET onTime(period) == period > 0 /\ minutes > 0 /\ seconds = 0
                             /\ minutes % period = 0
     IN "clock" \notin touched =>
          /\ (motor_enabled' /\ ~motor_enabled) => onTime(setting[PERIOD_FOOD])
          /\ (valve_enter_enabled' /\ ~valve_enter_enabled) =>
               onTime(setting[PERIOD_WATER])]_hvars
=============================================================================
