----------------------------- MODULE DogServer -----------------------------
(***************************************************************************)
(* The server task while it carries out a command (server.c, the tests of  *)
(* dog_cmd) by calling the setters of dogfeed.c.  The main task preempts   *)
(* it between any two of its accesses to the shared statics and devices,   *)
(* so every access is a step of its own; spc names the next one.  How      *)
(* bytes become commands is the business of module Protocol.               *)
(***************************************************************************)
EXTENDS DogFeed, Sequences

CONSTANT Commands  \* the <<letter, value>> pairs a client may send

ASSUME CommandAssumption ==
  Commands \subseteq {"A", "B", "C", "D", "E", "F", "G", "H", "I"} \X (0 .. 99)

VARIABLES
  spc,    \* next access of the server, "idle" between commands
  cmd,    \* dog_cmd, "none" between commands
  target, \* the setting, or the LED byte, the command works on
  reg,    \* the value it has at hand: an argument or a loaded setting
  reply   \* last message sent to a client: letter and two ASCII digits

serverVars == <<spc, cmd, target, reg, reply>>

ServerLabels == {"idle", "stop", "mode", "led", "store", "show", "check",
                 "miliseconds", "seconds", "minutes", "count", "zero", "modearg",
                 "light", "run", "paused", "which", "load", "get", "send"}

NoReply == <<>>

ServerInit ==
  /\ spc = "idle" /\ cmd = "none" /\ target = 0 /\ reg = 0
  /\ reply = NoReply

-----------------------------------------------------------------------------
(* Priority 50 against 100: the server runs only while the main task waits.*)
MainNeverSleeps == Waiting /\ pc # "sleep"

MainBlocked == Waiting

TargetOf(letter) ==
  CASE letter \in {"A", "E"} -> PERCENT_FOOD
    [] letter \in {"B", "F"} -> PERIOD_FOOD
    [] letter \in {"C", "G"} -> PERIOD_WATER
    [] OTHER -> 0

(* The first access of a command; B and C check their value beforehand.    *)
Entry(letter, val) ==
  CASE letter = "A"             -> "stop"
    [] letter \in {"B", "C"}    -> IF val <= PeriodMax THEN "stop" ELSE "idle"
    [] letter = "D"             -> "check"
    [] letter \in {"E","F","G"} -> "get"
    [] letter \in {"H","I"}     -> "paused"

(* The range test of set_percent_food and set_period_*.                    *)
AcceptedAlways(m, v) == TRUE

Accepted(m, v) == v <= Limit(m)

(* What increase_value (I) and decrease_value (H) are allowed to do.       *)
CanStepAlways(v) == IF cmd = "I" THEN v <= Limit(target) ELSE v > 0

CanStep(v) == IF cmd = "I" THEN v < Limit(target) ELSE v > 0

Stepped(v) == IF cmd = "I" THEN v + 1 ELSE v - 1

(* The last statement of set_confirm_mode.                                 *)
StillPaused == FALSE

Resumed == TRUE

(* Go to access l; a finished command leaves nothing behind.               *)
Goto(l) == /\ spc' = l
           /\ IF l = "idle" THEN cmd' = "none" /\ target' = 0 /\ reg' = 0
                            ELSE UNCHANGED <<cmd, target, reg>>

Receive ==
  /\ spc = "idle"
  /\ \E c \in Commands :
       /\ Entry(c[1], c[2]) # "idle"
       /\ spc' = Entry(c[1], c[2])
       /\ cmd' = c[1] /\ target' = TargetOf(c[1]) /\ reg' = c[2]
  /\ UNCHANGED <<mainVars, reply>>

-----------------------------------------------------------------------------
(* A, B, C: set_running(0), set_mode, set_percent_food or set_period_*;    *)
(* H and I join at the store.                                              *)

SetRunning ==
  /\ spc = "stop"
  /\ running' = FALSE
  /\ Goto("mode")
  /\ UNCHANGED <<setting, mode, count, clock, locals, devices, reply>>

SetMode ==
  /\ spc = "mode"
  /\ mode' = target
  /\ Goto("led")
  /\ UNCHANGED <<setting, running, count, clock, locals, devices, reply>>

WriteLed ==
  /\ spc = "led"
  /\ leds' = target
  /\ Goto(IF Accepted(target, reg) THEN "store" ELSE "idle")
  /\ UNCHANGED <<setting, running, mode, count, clock, locals, display, motor,
                 valve, reply>>

Store ==
  /\ spc = "store"
  /\ setting' = [setting EXCEPT ![target] = reg]
  /\ Goto("show")
  /\ UNCHANGED <<running, mode, count, clock, locals, devices, reply>>

Show ==
  /\ spc = "show"
  /\ display' = Display(reg)
  /\ Goto("idle")
  /\ UNCHANGED <<setting, running, mode, count, clock, locals, leds, motor,
                 valve, reply>>

-----------------------------------------------------------------------------
(* D: set_confirm_mode *)

Check ==
  /\ spc = "check"
  /\ Goto(IF running THEN "idle" ELSE "miliseconds")
  /\ UNCHANGED <<mainVars, reply>>

ResetMiliseconds ==
  /\ spc = "miliseconds"
  /\ miliseconds' = 0
  /\ Goto("seconds")
  /\ UNCHANGED <<setting, running, mode, count, seconds, minutes, locals,
                 devices, reply>>

ResetSeconds ==
  /\ spc = "seconds"
  /\ seconds' = 0
  /\ Goto("minutes")
  /\ UNCHANGED <<setting, running, mode, count, miliseconds, minutes, locals,
                 devices, reply>>

ResetMinutes ==
  /\ spc = "minutes"
  /\ minutes' = 0
  /\ Goto("count")
  /\ UNCHANGED <<setting, running, mode, count, miliseconds, seconds, locals,
                 devices, reply>>

ResetCount ==
  /\ spc = "count"
  /\ count' = 0
  /\ Goto("zero")
  /\ UNCHANGED <<setting, running, mode, clock, locals, devices, reply>>

(* write_display(count) of the count just stored. *)
ShowZero ==
  /\ spc = "zero"
  /\ display' = Display(0)
  /\ Goto("modearg")
  /\ UNCHANGED <<setting, running, mode, count, clock, locals, leds, motor,
                 valve, reply>>

(* mode is loaded as the argument of write_led, which may use it late. *)
LoadMode ==
  /\ spc = "modearg"
  /\ target' = mode
  /\ spc' = "light"
  /\ UNCHANGED <<mainVars, cmd, reg, reply>>

LightMode ==
  /\ spc = "light"
  /\ leds' = target
  /\ Goto("run")
  /\ UNCHANGED <<setting, running, mode, count, clock, locals, display, motor,
                 valve, reply>>

Run ==
  /\ spc = "run"
  /\ running' = Resumed
  /\ Goto("idle")
  /\ UNCHANGED <<setting, mode, count, clock, locals, devices, reply>>

-----------------------------------------------------------------------------
(* I and H: increase_value and decrease_value.  The optimised build loads  *)
(* mode once and the setting once; the store goes through Store.           *)

Paused ==
  /\ spc = "paused"
  /\ Goto(IF running THEN "idle" ELSE "which")
  /\ UNCHANGED <<mainVars, reply>>

Which ==
  /\ spc = "which"
  /\ IF mode \in Tunable
       THEN spc' = "load" /\ target' = mode /\ UNCHANGED <<cmd, reg>>
       ELSE Goto("idle")
  /\ UNCHANGED <<mainVars, reply>>

Load ==
  /\ spc = "load"
  /\ IF CanStep(setting[target])
       THEN /\ spc' = "store" /\ reg' = Stepped(setting[target])
            /\ UNCHANGED <<cmd, target>>
       ELSE Goto("idle")
  /\ UNCHANGED <<mainVars, reply>>

-----------------------------------------------------------------------------
(* E, F, G: the getters and the two-digit answer *)

Get ==
  /\ spc = "get"
  /\ spc' = "send" /\ reg' = setting[target]
  /\ UNCHANGED <<mainVars, cmd, target, reply>>

Send ==
  /\ spc = "send"
  /\ reply' = <<cmd, 48 + reg \div 10, 48 + (reg % 10)>>
  /\ Goto("idle")
  /\ UNCHANGED mainVars

ServerStep ==
  \/ Receive
  \/ SetRunning \/ SetMode \/ WriteLed \/ Store \/ Show
  \/ Check \/ ResetMiliseconds \/ ResetSeconds \/ ResetMinutes \/ ResetCount
  \/ ShowZero \/ LoadMode \/ LightMode \/ Run
  \/ Paused \/ Which \/ Load
  \/ Get \/ Send

ServerTask == MainBlocked /\ ServerStep
=============================================================================
