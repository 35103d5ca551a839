---------------------------- MODULE FrontPanel ----------------------------
(***************************************************************************)
(* The feeder used from its front panel alone: the main task of DogFeed    *)
(* with no client connected.  The history variable steady says that the    *)
(* feeder has not been paused since the last full minute.                  *)
(***************************************************************************)
EXTENDS DogFeed

VARIABLE steady

panelVars == <<mainVars, steady>>

PanelInit == MainInit /\ steady = TRUE

PanelNext == /\ MainTask
             /\ steady' = (running' /\ (steady \/ pc = "minute"))

(* The loop never ends and waits only for the clock and the UART, which    *)
(* need nobody's help: the main task keeps going.                          *)
PanelSpec == PanelInit /\ [][PanelNext]_panelVars /\ WF_panelVars(PanelNext)

-----------------------------------------------------------------------------
(* Every variable has the type of its C counterpart, settings, counters and *)
(* the clock in the ranges the loop keeps them in between two key presses.  *)
PanelTypeOK ==
  /\ setting \in Settings
  /\ running \in BOOLEAN /\ mode \in Modes
  /\ count \in -1 .. PercentMax + 1
  /\ miliseconds \in 0 .. MilisPerSecond - 1
  /\ seconds \in 0 .. SecondsPerMinute - 1
  /\ minutes \in 0 .. 2 * MinuteCycle - 1
  /\ pc \in Labels /\ btkey \in 0 .. 63 /\ shown \in 0 .. ByteSize - 1
  /\ motor_enabled \in BOOLEAN /\ valve_enter_enabled \in BOOLEAN
  /\ blink \in {0, CONFIRM_MODE}
  /\ leds \in Modes /\ display \in 0 .. DisplayLimit - 1
  /\ motor \in 0 .. 1 /\ valve \in {0, 1, 3}
  /\ steady \in BOOLEAN

(* Whenever the feeder sleeps in configuration mode, the panel tells the    *)
(* truth: a tunable mode is selected, its LED is lit, and the digits, count *)
(* and the stored setting agree (dogfeed.c, the key tests and !running).    *)
PanelConsistent ==
  (pc = "sleep" /\ ~running) =>
     /\ mode \in Tunable
     /\ leds = mode
     /\ count = setting[mode]
     /\ display = count

(* While the feeder runs the digits show the minutes since the confirmation *)
(* (or since start-up) until they no longer fit, whatever was edited before. *)
MinutesShown ==
  (pc = "sleep" /\ running /\ minutes < DisplayLimit) => display = minutes

(* The motor starts only at a full minute that is a positive multiple of a  *)
(* positive food period, and the valve likewise for the water period: in    *)
(* particular never because of a period of 0, and never at a confirmation.  *)
FeedOnSchedule ==
  [][/\ (motor_enabled' /\ ~motor_enabled) =>
          /\ setting[PERIOD_FOOD] > 0 /\ minutes > 0 /\ seconds = 0
          /\ minutes % setting[PERIOD_FOOD] = 0
     /\ (valve_enter_enabled' /\ ~valve_enter_enabled) =>
          /\ setting[PERIOD_WATER] > 0 /\ minutes > 0 /\ seconds = 0
          /\ minutes % setting[PERIOD_WATER] = 0]_panelVars

(* A feeding that is not interrupted by the panel ends exactly when second  *)
(* percent_food / 2 + 1 of its minute begins, and a watering at second      *)
(* percent_food + 1.                                                        *)
PortionExact ==
  [][steady =>
       /\ (motor_enabled /\ ~motor_enabled') =>
             seconds = setting[PERCENT_FOOD] \div 2 + 1
       /\ (valve_enter_enabled /\ ~valve_enter_enabled') =>
             seconds = setting[PERCENT_FOOD] + 1]_panelVars

(* The valve, which is not timed with the doubled second, closes again only *)
(* when percent_food is less than the last second of a minute.              *)
ValveCloses ==
  (valve_enter_enabled /\ running /\ setting[PERCENT_FOOD] < SecondsPerMinute - 1)
     ~> (~valve_enter_enabled \/ ~running)

-----------------------------------------------------------------------------
Promise == INSTANCE Appliance WITH
  Knobs <- Tunable, Settings <- Settings, Initial <- InitSetting,
  Food <- PERIOD_FOOD, Water <- PERIOD_WATER,
  knob <- setting, phase <- IF running THEN "run" ELSE "edit",
  minute <- minutes, feeding <- motor_enabled,
  watering <- valve_enter_enabled

(* The main loop keeps the promise of module Appliance: while it runs no    *)
(* setting moves, KEY_UP and KEY_DOWN move the selected one by one from the *)
(* stored value, and set_confirm_mode resumes at minute 0.                  *)
KeepsPromise == Promise!Spec
=============================================================================
