------------------------------- MODULE Feeder -------------------------------
(***************************************************************************)
(* The whole application: the main task (DogFeed) and the server task      *)
(* (DogServer) on one processor, sharing the statics of dogfeed.c and the  *)
(* devices without any lock, under fixed-priority preemptive scheduling.   *)
(***************************************************************************)
EXTENDS DogServer

vars == <<mainVars, serverVars>>

Init == MainInit /\ ServerInit

MainStep == MainTask /\ UNCHANGED serverVars

Next == MainStep \/ ServerTask

(* The main task waits only for the clock and the UART.  The server is     *)
(* ready whenever it is inside a command, but the processor is its own     *)
(* only during the waits of the main task; as each turn of the loop sleeps *)
(* for at least a clock tick, it cannot be passed over forever.  Nobody    *)
(* has to send a command.                                                  *)
Fairness == /\ WF_vars(MainStep)
            /\ SF_vars(ServerTask /\ spc # "idle")

Spec == Init /\ [][Next]_vars /\ Fairness

-----------------------------------------------------------------------------
(* Types, and the ranges of the clock and of the locals of both tasks.      *)
TypeOK ==
  /\ setting \in [Tunable -> 0 .. ByteSize - 1]
  /\ running \in BOOLEAN /\ mode \in Modes
  /\ count \in -1 .. PercentMax + 1
  /\ miliseconds \in 0 .. MilisPerSecond - 1
  /\ seconds \in 0 .. SecondsPerMinute - 1
  /\ minutes \in 0 .. 2 * MinuteCycle - 1
  /\ pc \in Labels /\ btkey \in 0 .. 63 /\ shown \in 0 .. ByteSize - 1
  /\ motor_enabled \in BOOLEAN /\ valve_enter_enabled \in BOOLEAN
  /\ blink \in {0, CONFIRM_MODE}
  /\ leds \in Modes /\ display \in 0 .. DisplayLimit - 1
  /\ motor \in 0 .. 1 /\ valve \in {0, 1, 3}
  /\ spc \in ServerLabels
  /\ cmd \in {"none", "A", "B", "C", "D", "E", "F", "G", "H", "I"}
  /\ target \in Modes
  /\ reg \in 0 .. 99

(* No interleaving of panel and client drives a setting out of its range:   *)
(* percent_food stays within 0..99, the periods within 0..24, although      *)
(* increase_value and decrease_value test and store without a lock.         *)
SettingsInRange ==
  \A m \in Tunable : setting[m] \in 0 .. Limit(m)

(* An answer to E is within 00-99, and one to F or G within 00-24, as the   *)
(* protocol says, even when the setting changes around the read.            *)
ReplyInRange ==
  reply # NoReply =>
     /\ reply[2] \in 48 .. 57 /\ reply[3] \in 48 .. 57
     /\ 10 * (reply[2] - 48) + (reply[3] - 48) <= Limit(TargetOf(reply[1]))

(* The pins follow the flags of the main loop whatever the client does: no  *)
(* command switches an actuator behind the loop's back.                     *)
ActuatorsFollow ==
  (pc # "dispense") =>
     /\ motor = IF motor_enabled THEN 1 ELSE 0
     /\ valve = 3 \/ valve = IF valve_enter_enabled THEN 1 ELSE 0

(* A client's D starts the feeder: set_confirm_mode either finds it running *)
(* or reaches set_running(TRUE), whatever the panel does meanwhile.         *)
ConfirmTakesEffect == (cmd = "D") ~> running

(* The low-priority server finishes every command it begins.                *)
ServerReturns == (spc # "idle") ~> (spc = "idle")

(* While the feeder runs, the motor stops again, with a client changing     *)
(* settings at any time.                                                    *)
MotorStops == (motor_enabled /\ running) ~> (~motor_enabled \/ ~running)

-----------------------------------------------------------------------------
(* What comments in dogfeed.c say of the two functions that look at running *)
(* before they act.                                                         *)

(* increase_value, decrease_value: "we cannot change the display with it    *)
(* running".                                                                *)
NoStepWhileRunning ==
  [][(cmd \in {"H", "I"} /\ display' # display /\ spc = "show") => ~running]_vars

(* set_confirm_mode: "if it is running don't do anything".                  *)
NoConfirmWhileRunning ==
  [][(cmd = "D" /\ ServerTask) => (running => UNCHANGED <<clock, count, leds, display>>)]_vars
=============================================================================
