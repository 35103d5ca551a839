---------------------------- MODULE FeederProofs ----------------------------
(***************************************************************************)
(* Proofs about Feeder, about its panel with a client in SharedPanel and   *)
(* about the panel without one in FrontPanel, for every choice of the      *)
(* limits, the clock rates, the keys that can be held and the commands     *)
(* that can be sent.                                                       *)
(***************************************************************************)
EXTENDS FrontPanel, SharedPanel, TLAPS

(* What the ranges rest on.  Outside the editing part of the loop count is *)
(* within the widest range; a server in the middle of a command has a      *)
(* setting to work on, and what it is about to store or to send was        *)
(* checked against the limit of that setting.                              *)
CountBounded == (pc # "adjust" \/ running) => count \in 0 .. PercentMax

ServerBounded ==
  /\ spc \in {"stop", "mode", "led", "store", "show", "load", "get", "send"}
       => target \in Tunable
  /\ spc = "store" => reg <= Limit(target)
  /\ spc \in {"get", "send"} => /\ cmd \in {"E", "F", "G"}
                                /\ target = TargetOf(cmd)
  /\ spc = "send" => reg <= Limit(target)

(* An actuator whose flag is off has its pin off at every control point,   *)
(* also between the start of a meal and the end of that loop turn.         *)
PinsIdle == /\ ~motor_enabled => motor = 0
            /\ ~valve_enter_enabled => valve \in {0, 3}

FeederInv ==
  /\ TypeOK /\ SettingsInRange /\ ReplyInRange
  /\ CountBounded /\ ServerBounded

USE DEF PERCENT_FOOD, PERIOD_FOOD, PERIOD_WATER, CONFIRM_MODE, KEY_UP, KEY_DOWN

-----------------------------------------------------------------------------
(* A remainder is smaller than its divisor (minutes as a uint8_t).         *)
LEMMA ModRange ==
  ASSUME NEW a \in Nat, NEW n \in Nat \ {0}
  PROVE  a % n \in 0 .. n - 1
  OBVIOUS

(* The limit of every setting is a two-digit number the display takes.     *)
LEMMA LimitRange ==
  ASSUME NEW m
  PROVE  /\ Limit(m) \in 0 .. 99 /\ Limit(m) <= PercentMax
         /\ Limit(m) < DisplayLimit /\ Limit(m) < ByteSize
  BY LimitAssumption DEF Limit

(* A clamped count is within the limit.                                    *)
LEMMA ClampRange ==
  ASSUME NEW n \in Int, NEW m
  PROVE  Clamp(n, Limit(m)) \in 0 .. Limit(m)
  BY LimitRange DEF Clamp

(* The driver shows what fits the display.                                 *)
LEMMA DisplayRange ==
  ASSUME display \in 0 .. DisplayLimit - 1, NEW b \in Nat
  PROVE  /\ Display(b) \in 0 .. DisplayLimit - 1
         /\ b < DisplayLimit => Display(b) = b
  BY LimitAssumption DEF Display

(* The minute counter keeps to its two cycles.                             *)
LEMMA NextMinuteRange ==
  ASSUME NEW n \in 0 .. 2 * MinuteCycle - 1
  PROVE  NextMinute(n) \in 1 .. 2 * MinuteCycle - 1
  BY CycleAssumption DEF NextMinute

(* Six keys make a byte below 64.                                          *)
LEMMA ButtonRange ==
  ASSUME NEW held
  PROVE  button_read(held) \in 0 .. 63
  BY DEF button_read

(* The statics and the devices as they are when the loop and the server    *)
(* start satisfy the invariant.                                            *)
LEMMA InitInv == Init => FeederInv
<1> SUFFICES ASSUME Init PROVE FeederInv
  OBVIOUS
<1> USE DEF Init, MainInit, ServerInit
<1>1. TypeOK
  <2>1. setting \in [Tunable -> 0 .. ByteSize - 1]
    BY LimitAssumption, PanelAssumption DEF Settings
  <2>2. /\ miliseconds \in 0 .. MilisPerSecond - 1
        /\ seconds \in 0 .. SecondsPerMinute - 1
        /\ minutes \in 0 .. 2 * MinuteCycle - 1
        /\ shown \in 0 .. ByteSize - 1 /\ display \in 0 .. DisplayLimit - 1
        /\ count \in -1 .. PercentMax + 1
    BY ClockAssumption, LimitAssumption, CycleAssumption
  <2>3. /\ running \in BOOLEAN /\ motor_enabled \in BOOLEAN
        /\ valve_enter_enabled \in BOOLEAN
    BY Zenon
  <2> QED
    BY <2>1, <2>2, <2>3 DEF TypeOK, Modes, Labels, Blocking, ServerLabels
<1>2. SettingsInRange
  BY LimitAssumption, PanelAssumption DEF SettingsInRange, Settings
<1>3. ReplyInRange /\ CountBounded /\ ServerBounded
  BY LimitAssumption DEF ReplyInRange, CountBounded, ServerBounded, NoReply
<1> QED
  BY <1>1, <1>2, <1>3 DEF FeederInv

-----------------------------------------------------------------------------
(* A step of the main loop leaves the server alone; what is left of the    *)
(* invariant is the type of the statics and devices and the count.         *)
LEMMA MainInv == FeederInv /\ MainStep => FeederInv'
<1> SUFFICES ASSUME FeederInv, MainStep PROVE FeederInv'
  OBVIOUS
<1> USE DEF FeederInv, MainStep
<1>s. ReplyInRange' /\ ServerBounded'
  BY DEF serverVars, ReplyInRange, ServerBounded
<1> USE <1>s
<1>1. CASE ReadButton
  BY <1>1, ButtonRange
  DEF ReadButton, TypeOK, SettingsInRange, CountBounded, Labels, Blocking,
      clock, devices, serverVars
<1>2. CASE SelectKey
  <2>1. running' \in BOOLEAN
    BY <1>2, Zenon DEF SelectKey
  <2>2. count' \in 0 .. PercentMax
    BY <1>2, LimitRange, LimitAssumption
    DEF SelectKey, SelectedCount, TypeOK, SettingsInRange
  <2>3. btkey \in Modes
    BY <1>2 DEF SelectKey, Modes
  <2> QED
    BY <1>2, <2>1, <2>2, <2>3, LimitAssumption
    DEF SelectKey, TypeOK, SettingsInRange, CountBounded, Labels, Blocking,
        clock, serverVars
<1>3. CASE ConfirmKey
  <2>1. running' \in BOOLEAN
    BY <1>3, Zenon DEF ConfirmKey
  <2>2. running' = FALSE
    BY <1>3 DEF ConfirmKey
  <2> QED
    BY <1>3, <2>1, <2>2
    DEF ConfirmKey, TypeOK, SettingsInRange, CountBounded, Modes, Labels,
        Blocking, clock, serverVars
<1>4. CASE StepKey
  <2>1. count' \in -1 .. PercentMax + 1
    BY <1>4, LimitAssumption DEF StepKey, TypeOK, CountBounded
  <2> QED
    BY <1>4, <2>1
    DEF StepKey, TypeOK, SettingsInRange, CountBounded, Labels, Blocking,
        clock, devices, serverVars
<1>5. CASE AdjustRunning
  BY <1>5
  DEF AdjustRunning, TypeOK, SettingsInRange, CountBounded, Labels, Blocking,
      clock, devices, serverVars
<1>6. CASE AdjustSetting
  <2>1. /\ count' \in 0 .. Limit(mode) /\ count' \in 0 .. PercentMax
        /\ count' \in 0 .. ByteSize - 1
    BY <1>6, ClampRange, LimitRange, LimitAssumption DEF AdjustSetting, TypeOK
  <2>2. /\ setting' \in [Tunable -> 0 .. ByteSize - 1]
        /\ SettingsInRange'
    BY <1>6, <2>1 DEF AdjustSetting, TypeOK, SettingsInRange
  <2> QED
    BY <1>6, <2>1, <2>2, LimitAssumption
    DEF AdjustSetting, TypeOK, CountBounded, Labels, Blocking, clock, devices,
        serverVars
<1>7. CASE AdjustConfirm
  BY <1>7, ClockAssumption, CycleAssumption, LimitAssumption
  DEF AdjustConfirm, TypeOK, SettingsInRange, CountBounded, Labels, Blocking,
      devices, serverVars
<1>8. CASE AdjustNoMode
  <2>1. count' \in 0 .. PercentMax
    BY <1>8, ClampRange, LimitRange, LimitAssumption DEF AdjustNoMode, TypeOK
  <2> QED
    BY <1>8, <2>1, LimitAssumption
    DEF AdjustNoMode, TypeOK, SettingsInRange, CountBounded, Labels, Blocking,
        clock, devices, serverVars
<1>9. CASE SettingShown
  BY <1>9, DisplayRange, LimitAssumption
  DEF SettingShown, TypeOK, SettingsInRange, CountBounded, Labels, Blocking,
      clock, serverVars
<1>10. CASE ConfirmShown
  BY <1>10, DisplayRange, LimitAssumption
  DEF ConfirmShown, TypeOK, SettingsInRange, CountBounded, Labels, Blocking,
      clock, serverVars
<1>11. CASE Tick
  <2>1. /\ miliseconds' \in 0 .. MilisPerSecond - 1
        /\ seconds' \in 0 .. SecondsPerMinute - 1
    BY <1>11, ClockAssumption DEF Tick, TypeOK
  <2>2. minutes' \in 0 .. 2 * MinuteCycle - 1
    BY <1>11, NextMinuteRange, CycleAssumption DEF Tick, TypeOK
  <2>3. shown' \in 0 .. ByteSize - 1
    <3>1. minutes' \in Nat /\ ByteSize \in Nat \ {0}
      BY <2>2, LimitAssumption, CycleAssumption
    <3>2. minutes' % ByteSize \in 0 .. ByteSize - 1
      BY <3>1, ModRange, Zenon
    <3> QED
      BY <1>11, <3>2 DEF Tick, TypeOK
  <2>4. leds' \in Modes /\ blink' \in {0, CONFIRM_MODE}
    BY <1>11 DEF Tick, TypeOK, Modes, Tunable
  <2> QED
    BY <1>11, <2>1, <2>2, <2>3, <2>4
    DEF Tick, TypeOK, SettingsInRange, CountBounded, Labels, Blocking,
        serverVars
<1>12. CASE MinuteShown
  BY <1>12, DisplayRange, LimitAssumption
  DEF MinuteShown, TypeOK, SettingsInRange, CountBounded, Labels, Blocking,
      clock, serverVars
<1>13. CASE Dispense
  BY <1>13
  DEF Dispense, Pins, TypeOK, SettingsInRange, CountBounded, Labels, Blocking,
      clock, serverVars
<1> QED
  BY <1>1, <1>2, <1>3, <1>4, <1>5, <1>6, <1>7, <1>8, <1>9, <1>10, <1>11,
     <1>12, <1>13 DEF MainTask, Panel, Feed

-----------------------------------------------------------------------------
(* The server leaves the main task where it waits, so a step of it matters *)
(* to the main task's part of the invariant only through the statics and   *)
(* devices it writes.                                                      *)
LEMMA WaitingBounded ==
  ASSUME FeederInv, MainBlocked
  PROVE  pc # "adjust" /\ count \in 0 .. PercentMax
  BY DEF FeederInv, CountBounded, MainBlocked, Waiting, Blocking

(* The two digits of an answer spell the value, for values below 100.      *)
LEMMA DigitsSpell ==
  ASSUME NEW v \in 0 .. 99
  PROVE  /\ v \div 10 \in 0 .. 9 /\ v % 10 \in 0 .. 9
         /\ 10 * (v \div 10) + (v % 10) = v
  OBVIOUS

(* A step of the server keeps every value it loads, stores, shows and      *)
(* sends within its range.                                                 *)
LEMMA ServerInv == FeederInv /\ ServerTask => FeederInv'
<1> SUFFICES ASSUME FeederInv, ServerTask PROVE FeederInv'
  OBVIOUS
<1> USE DEF FeederInv
<1>w. pc # "adjust" /\ count \in 0 .. PercentMax
  BY WaitingBounded DEF ServerTask
<1>1. CASE Receive
  <2>1. PICK c \in Commands :
          /\ spc' = Entry(c[1], c[2])
          /\ cmd' = c[1] /\ target' = TargetOf(c[1]) /\ reg' = c[2]
    BY <1>1 DEF Receive
  <2>2. /\ c[1] \in {"A", "B", "C", "D", "E", "F", "G", "H", "I"}
        /\ c[2] \in 0 .. 99
    BY CommandAssumption
  <2>3. TargetOf(c[1]) \in Modes
    BY <2>2 DEF TargetOf, Modes, Tunable
  <2>4. /\ spc' \in {"idle", "stop", "check", "get", "paused"}
        /\ spc' \in {"stop", "get"} => TargetOf(c[1]) \in Tunable
        /\ spc' = "get" => c[1] \in {"E", "F", "G"}
    BY <2>1, <2>2 DEF Entry, TargetOf, Tunable
  <2> QED
    BY <1>1, <1>w, <2>1, <2>2, <2>3, <2>4
    DEF Receive, TypeOK, SettingsInRange, ReplyInRange, CountBounded,
        ServerBounded, ServerLabels, mainVars, clock, locals, devices
<1>2. CASE SetRunning
  <2>1. running' \in BOOLEAN
    BY <1>2, Zenon DEF SetRunning
  <2> QED
    BY <1>2, <1>w, <2>1
    DEF SetRunning, Goto, TypeOK, SettingsInRange, ReplyInRange, CountBounded,
        ServerBounded, ServerLabels, clock, locals, devices
<1>3. CASE SetMode
  BY <1>3, <1>w
  DEF SetMode, Goto, TypeOK, SettingsInRange, ReplyInRange, CountBounded,
      ServerBounded, ServerLabels, clock, locals, devices
<1>4. CASE WriteLed
  BY <1>4, <1>w
  DEF WriteLed, Accepted, Goto, TypeOK, SettingsInRange, ReplyInRange,
      CountBounded, ServerBounded, ServerLabels, Modes, clock, locals
<1>5. CASE Store
  <2>1. setting' \in [Tunable -> 0 .. ByteSize - 1] /\ SettingsInRange'
    BY <1>5, LimitRange, LimitAssumption
    DEF Store, TypeOK, SettingsInRange, ServerBounded
  <2> QED
    BY <1>5, <1>w, <2>1
    DEF Store, Goto, TypeOK, ReplyInRange, CountBounded, ServerBounded,
        ServerLabels, clock, locals, devices
<1>6. CASE Show
  BY <1>6, <1>w, DisplayRange
  DEF Show, Goto, TypeOK, SettingsInRange, ReplyInRange, CountBounded,
      ServerBounded, ServerLabels, Modes, clock, locals
<1>7. CASE Check
  BY <1>7, <1>w
  DEF Check, Goto, TypeOK, SettingsInRange, ReplyInRange, CountBounded,
      ServerBounded, ServerLabels, Modes, mainVars, clock, locals, devices
<1>8. CASE ResetMiliseconds
  BY <1>8, <1>w, ClockAssumption
  DEF ResetMiliseconds, Goto, TypeOK, SettingsInRange, ReplyInRange,
      CountBounded, ServerBounded, ServerLabels, locals, devices
<1>9. CASE ResetSeconds
  BY <1>9, <1>w, ClockAssumption
  DEF ResetSeconds, Goto, TypeOK, SettingsInRange, ReplyInRange,
      CountBounded, ServerBounded, ServerLabels, locals, devices
<1>10. CASE ResetMinutes
  BY <1>10, <1>w, CycleAssumption
  DEF ResetMinutes, Goto, TypeOK, SettingsInRange, ReplyInRange,
      CountBounded, ServerBounded, ServerLabels, locals, devices
<1>11. CASE ResetCount
  BY <1>11, <1>w, LimitAssumption
  DEF ResetCount, Goto, TypeOK, SettingsInRange, ReplyInRange, CountBounded,
      ServerBounded, ServerLabels, clock, locals, devices
<1>12. CASE ShowZero
  BY <1>12, <1>w, DisplayRange
  DEF ShowZero, Goto, TypeOK, SettingsInRange, ReplyInRange, CountBounded,
      ServerBounded, ServerLabels, clock, locals
<1>13. CASE LightMode
  BY <1>13, <1>w
  DEF LightMode, Goto, TypeOK, SettingsInRange, ReplyInRange, CountBounded,
      ServerBounded, ServerLabels, clock, locals
<1>14. CASE Run
  <2>1. running' \in BOOLEAN
    BY <1>14, Zenon DEF Run, Resumed
  <2> QED
    BY <1>14, <1>w, <2>1
    DEF Run, Goto, TypeOK, SettingsInRange, ReplyInRange, CountBounded,
        ServerBounded, ServerLabels, Modes, clock, locals, devices
<1>15. CASE Paused
  BY <1>15, <1>w
  DEF Paused, Goto, TypeOK, SettingsInRange, ReplyInRange, CountBounded,
      ServerBounded, ServerLabels, Modes, mainVars, clock, locals, devices
<1>16. CASE Which
  BY <1>16, <1>w
  DEF Which, Goto, TypeOK, SettingsInRange, ReplyInRange, CountBounded,
      ServerBounded, ServerLabels, Modes, mainVars, clock, locals, devices
<1>17. CASE Load
  <2>1. reg' \in 0 .. 99 /\ (spc' = "store" => reg' <= Limit(target))
    BY <1>17, LimitRange
    DEF Load, CanStep, Stepped, Goto, TypeOK, SettingsInRange, ServerBounded
  <2> QED
    BY <1>17, <1>w, <2>1
    DEF Load, Goto, TypeOK, SettingsInRange, ReplyInRange, CountBounded,
        ServerBounded, ServerLabels, Modes, mainVars, clock, locals, devices
<1>18. CASE Get
  <2>1. reg' \in 0 .. 99 /\ reg' <= Limit(target)
    BY <1>18, LimitRange DEF Get, SettingsInRange, ServerBounded
  <2> QED
    BY <1>18, <1>w, <2>1
    DEF Get, TypeOK, SettingsInRange, ReplyInRange, CountBounded,
        ServerBounded, ServerLabels, mainVars, clock, locals, devices
<1>19. CASE Send
  <2>1. ReplyInRange'
    BY <1>19, DigitsSpell
    DEF Send, TypeOK, ReplyInRange, ServerBounded
  <2> QED
    BY <1>19, <1>w, <2>1
    DEF Send, Goto, TypeOK, SettingsInRange, CountBounded, ServerBounded,
        ServerLabels, Modes, mainVars, clock, locals, devices
<1>20. CASE LoadMode
  BY <1>20, <1>w
  DEF LoadMode, TypeOK, SettingsInRange, ReplyInRange, CountBounded,
      ServerBounded, ServerLabels, mainVars, clock, locals, devices
<1> QED
  BY <1>1, <1>2, <1>3, <1>4, <1>5, <1>6, <1>7, <1>8, <1>9, <1>10, <1>11,
     <1>12, <1>13, <1>14, <1>15, <1>16, <1>17, <1>18, <1>19, <1>20
  DEF ServerTask, ServerStep

-----------------------------------------------------------------------------
(* Only the main task touches the actuators and their flags, and only at   *)
(* two of its control points.                                              *)
ActuatorInv == ActuatorsFollow /\ PinsIdle

(* No command of the server touches an actuator, its flag or another       *)
(* variable of main, and none moves the clock but to put it to 0.          *)
LEMMA ServerKeepsActuators ==
  ASSUME ServerTask
  PROVE  /\ UNCHANGED <<pc, shown, motor_enabled, valve_enter_enabled, motor, valve>>
         /\ seconds' \in {seconds, 0}
<1>1. CASE \/ Receive \/ Check \/ LoadMode \/ Paused \/ Which \/ Load
           \/ Get \/ Send
  <2>1. UNCHANGED mainVars
    BY <1>1 DEF Receive, Check, LoadMode, Paused, Which, Load, Get, Send
  <2> QED
    BY <2>1 DEF mainVars, clock, locals, devices
<1>2. CASE SetRunning \/ SetMode \/ WriteLed \/ Store \/ Show
  BY <1>2 DEF SetRunning, SetMode, WriteLed, Store, Show, clock, locals, devices
<1>3. CASE ResetMiliseconds \/ ResetSeconds \/ ResetMinutes \/ ResetCount
  BY <1>3 DEF ResetMiliseconds, ResetSeconds, ResetMinutes, ResetCount, clock, locals, devices
<1>4. CASE ShowZero \/ LightMode \/ Run
  BY <1>4 DEF ShowZero, LightMode, Run, clock, locals, devices
<1> QED
  BY <1>1, <1>2, <1>3, <1>4 DEF ServerTask, ServerStep

(* Neither do the keys and the clock.                                      *)
LEMMA PanelKeepsActuators ==
  ASSUME Panel \/ Tick
  PROVE  /\ UNCHANGED <<motor_enabled, valve_enter_enabled, motor, valve>>
         /\ pc # "dispense"
  BY DEF Panel, ReadButton, SelectKey, ConfirmKey, StepKey, AdjustRunning,
         AdjustSetting, AdjustConfirm, AdjustNoMode, SettingShown,
         ConfirmShown, Tick, devices

(* Every step keeps pins and flags together.                               *)
LEMMA ActuatorStep ==
  ASSUME TypeOK, ActuatorInv, [Next]_vars
  PROVE  ActuatorInv'
<1> USE DEF ActuatorInv, ActuatorsFollow, PinsIdle
<1>1. CASE Panel \/ Tick
  BY <1>1, PanelKeepsActuators
<1>2. CASE MinuteShown
  BY <1>2, Zenon DEF MinuteShown
<1>3. CASE Dispense
  BY <1>3 DEF Dispense, Pins, TypeOK
<1>4. CASE ServerTask
  BY <1>4, ServerKeepsActuators
<1>5. CASE UNCHANGED vars
  BY <1>5 DEF vars, mainVars, locals, devices
<1> QED
  BY <1>1, <1>2, <1>3, <1>4, <1>5 DEF Next, MainStep, MainTask, Feed

-----------------------------------------------------------------------------
(* The invariant holds in every reachable state.                           *)
THEOREM Invariance == Spec => []FeederInv
<1>1. FeederInv /\ [Next]_vars => FeederInv'
  <2> SUFFICES ASSUME FeederInv, [Next]_vars PROVE FeederInv'
    OBVIOUS
  <2>1. CASE UNCHANGED vars
    BY <2>1
    DEF vars, mainVars, serverVars, clock, locals, devices, FeederInv, TypeOK,
        SettingsInRange, ReplyInRange, CountBounded, ServerBounded
  <2> QED
    BY <2>1, MainInv, ServerInv DEF Next
<1> QED
  BY <1>1, InitInv, PTL DEF Spec

(* The statics, the locals of both tasks and the devices keep their types, *)
(* count leaving the range of a setting by at most one in either direction.*)
THEOREM TypeCorrect == Spec => []TypeOK
<1>1. FeederInv => TypeOK
  BY DEF FeederInv
<1> QED
  BY <1>1, Invariance, PTL

(* No interleaving of the two tasks takes percent_food, period_food or     *)
(* period_water out of its range, for any limits and any commands.         *)
THEOREM SettingsSafe == Spec => []SettingsInRange
<1>1. FeederInv => SettingsInRange
  BY DEF FeederInv
<1> QED
  BY <1>1, Invariance, PTL

(* Every answer the server sends is two digits within the range of the     *)
(* setting that was asked for.                                             *)
THEOREM RepliesSafe == Spec => []ReplyInRange
<1>1. FeederInv => ReplyInRange
  BY DEF FeederInv
<1> QED
  BY <1>1, Invariance, PTL

(* The motor and valve pins follow the flags of the loop, whatever keys    *)
(* are held and whatever the client sends.                                 *)
THEOREM ActuatorsSafe == Spec => []ActuatorsFollow
<1>1. Init => ActuatorInv
  BY DEF Init, MainInit, ActuatorInv, ActuatorsFollow, PinsIdle
<1>2. TypeOK /\ ActuatorInv /\ [Next]_vars => ActuatorInv'
  BY ActuatorStep
<1>3. ActuatorInv => ActuatorsFollow
  BY DEF ActuatorInv
<1> QED
  BY <1>1, <1>2, <1>3, TypeCorrect, PTL DEF Spec

(* From second PercentMax / 2 + 1 of a minute on the motor stands still,   *)
(* whatever the client stores as percent_food meanwhile and whenever the   *)
(* panel pauses the clock: the loop looks at the seconds in every turn.    *)
MotorRests ==
  (pc \notin {"minute", "dispense"} /\ 2 * seconds > PercentMax) => motor = 0

RestInv ==
  (pc \notin {"minute", "dispense"} /\ motor_enabled) => 2 * seconds <= PercentMax

(* The clock runs on only in Tick; all other steps leave it or restart it. *)
LEMMA SecondsKept ==
  ASSUME Panel \/ MinuteShown \/ Dispense \/ ServerTask
  PROVE  seconds' \in {seconds, 0}
<1>1. CASE Panel
  BY <1>1 DEF Panel, ReadButton, SelectKey, ConfirmKey, StepKey, AdjustRunning, AdjustSetting,
     AdjustConfirm, AdjustNoMode, SettingShown, ConfirmShown, clock
<1>2. CASE MinuteShown \/ Dispense
  BY <1>2 DEF MinuteShown, Dispense, clock
<1>3. CASE ServerTask
  BY <1>3, ServerKeepsActuators
<1> QED
  BY <1>1, <1>2, <1>3

(* Every step keeps the motor within its part of the minute.               *)
LEMMA RestKept ==
  ASSUME FeederInv, RestInv, [Next]_vars
  PROVE  RestInv'
<1>1. /\ PercentMax \in Nat /\ seconds \in Nat
      /\ setting[PERCENT_FOOD] \in Nat /\ setting[PERCENT_FOOD] <= PercentMax
  BY LimitAssumption, ClockAssumption
  DEF FeederInv, TypeOK, SettingsInRange, Limit, Tunable
<1>2. CASE Dispense
  <2>1. motor_enabled' => ~FoodServed(seconds)
    BY <1>2, Zenon DEF Dispense
  <2>2. seconds' = seconds
    BY <1>2 DEF Dispense, clock
  <2> QED
    BY <1>1, <2>1, <2>2 DEF FoodServed, RestInv
<1>3. CASE Tick \/ MinuteShown
  BY <1>3, Zenon DEF Tick, MinuteShown, RestInv
<1>4. CASE Panel
  <2>1. motor_enabled' = motor_enabled /\ pc \notin {"minute", "dispense"}
    BY <1>4 DEF Panel, ReadButton, SelectKey, ConfirmKey, StepKey, AdjustRunning,
       AdjustSetting, AdjustConfirm, AdjustNoMode, SettingShown, ConfirmShown
  <2>2. seconds' \in {seconds, 0}
    BY <1>4, SecondsKept
  <2>3. 2 * seconds <= PercentMax => 2 * seconds' <= PercentMax
    <3>1. 2 * 0 <= PercentMax
      BY <1>1
    <3> QED
      BY <2>2, <3>1, Zenon
  <2> QED
    BY <2>1, <2>3, Zenon DEF RestInv
<1>5. CASE ServerTask
  <2>1. motor_enabled' = motor_enabled /\ pc' = pc
    BY <1>5, ServerKeepsActuators
  <2>2. seconds' \in {seconds, 0}
    BY <1>5, SecondsKept
  <2>3. 2 * seconds <= PercentMax => 2 * seconds' <= PercentMax
    <3>1. 2 * 0 <= PercentMax
      BY <1>1
    <3> QED
      BY <2>2, <3>1, Zenon
  <2> QED
    BY <2>1, <2>3, Zenon DEF RestInv
<1>6. CASE UNCHANGED vars
  BY <1>6 DEF vars, mainVars, locals, clock, RestInv
<1> QED
  BY <1>2, <1>3, <1>4, <1>5, <1>6 DEF Next, MainStep, MainTask, Feed

(* The motor never runs on into the end of a minute (MotorRests).          *)
THEOREM MotorRestsSafe == Spec => []MotorRests
<1>1. Init => RestInv
  BY LimitAssumption DEF Init, MainInit, RestInv
<1>2. FeederInv /\ RestInv /\ [Next]_vars => RestInv'
  BY RestKept
<1>3. FeederInv /\ RestInv /\ ActuatorsFollow => MotorRests
  <2> SUFFICES ASSUME FeederInv, RestInv, ActuatorsFollow, 2 * seconds > PercentMax,
                      pc \notin {"minute", "dispense"}
               PROVE  motor = 0
    BY DEF MotorRests
  <2>1. PercentMax \in Nat /\ seconds \in Nat
    BY LimitAssumption, ClockAssumption DEF FeederInv, TypeOK
  <2>2. ~motor_enabled
    BY <2>1 DEF RestInv
  <2> QED
    BY <2>2 DEF ActuatorsFollow
<1> QED
  BY <1>1, <1>2, <1>3, Invariance, ActuatorsSafe, PTL DEF Spec

-----------------------------------------------------------------------------
(* How many accesses a command still makes at most.                        *)
StepsLeft(l) ==
  CASE l = "idle" -> 0
    [] l \in {"show", "run", "send"} -> 1
    [] l \in {"store", "light", "get"} -> 2
    [] l \in {"led", "load", "modearg"} -> 3
    [] l \in {"mode", "which", "zero"} -> 4
    [] l \in {"stop", "paused", "count"} -> 5
    [] l = "minutes" -> 6
    [] l = "seconds" -> 7
    [] l = "miliseconds" -> 8
    [] l = "check" -> 9

(* A command goes through at most nine accesses: none of the jumps of the *)
(* setters and getters goes back, and the main task does not move the      *)
(* server, however often it preempts it.                                   *)
CommandAdvances ==
  [][/\ spc # "idle" => \/ spc' = spc /\ UNCHANGED serverVars
                        \/ StepsLeft(spc') < StepsLeft(spc)
     /\ StepsLeft(spc') \in 0 .. 9]_vars

(* Each access of the server brings the end of its command closer          *)
(* (CommandAdvances).                                                      *)
THEOREM CommandProgress == Spec => CommandAdvances
<1>1. \A l \in ServerLabels : StepsLeft(l) \in 0 .. 9
  BY DEF ServerLabels, StepsLeft
<1>2. ASSUME FeederInv', [Next]_vars
      PROVE  \/ UNCHANGED vars
             \/ /\ spc # "idle" => \/ spc' = spc /\ UNCHANGED serverVars
                                   \/ StepsLeft(spc') < StepsLeft(spc)
                /\ StepsLeft(spc') \in 0 .. 9
  <2>1. StepsLeft(spc') \in 0 .. 9
    BY <1>1, <1>2 DEF FeederInv, TypeOK
  <2>2. CASE MainStep
    BY <2>1, <2>2 DEF MainStep, serverVars
  <2>3. ASSUME ServerTask, spc # "idle"
        PROVE  StepsLeft(spc') < StepsLeft(spc)
    <3>1. CASE SetRunning \/ SetMode \/ WriteLed \/ Store \/ Show
      BY <3>1 DEF SetRunning, SetMode, WriteLed, Store, Show, Goto, StepsLeft
    <3>2. CASE Check \/ ResetMiliseconds \/ ResetSeconds \/ ResetMinutes \/ ResetCount
      BY <3>2 DEF Check, ResetMiliseconds, ResetSeconds, ResetMinutes, ResetCount, Goto, StepsLeft
    <3>3. CASE ShowZero \/ LoadMode \/ LightMode \/ Run
      BY <3>3 DEF ShowZero, LoadMode, LightMode, Run, Goto, StepsLeft
    <3>4. CASE Paused \/ Which \/ Load \/ Get \/ Send
      BY <3>4 DEF Paused, Which, Load, Get, Send, Goto, StepsLeft
    <3>5. ~Receive
      BY <2>3 DEF Receive
    <3> QED
      BY <2>3, <3>1, <3>2, <3>3, <3>4, <3>5 DEF ServerTask, ServerStep
  <2> QED
    BY <1>2, <2>1, <2>2, <2>3 DEF Next
<1> QED
  BY <1>2, Invariance, PTL DEF Spec, CommandAdvances

-----------------------------------------------------------------------------
(* The panel with a client. *)

(* The selected mode is lit and count is its setting.                      *)
Editing == mode \in Tunable /\ leds = mode /\ count = setting[mode]

(* What the panel has reached at each control point of the loop if no      *)
(* command has interfered since the last mode key.                         *)
EditInv ==
  "edit" \notin touched =>
    /\ (pc = "adjust" /\ ~running) =>
         mode \in Tunable \cup {CONFIRM_MODE} /\ leds = mode
    /\ pc = "show" => ~running /\ Editing /\ shown = count
    /\ pc = "minute" => running
    /\ (pc \in {"read", "key", "sleep", "dispense"} /\ ~running) =>
         Editing /\ display = count

(* A minute that is being shown has just begun, if no command has reset    *)
(* the clock meanwhile.                                                    *)
MinuteInv ==
  (pc = "minute" /\ "clock" \notin touched) => minutes > 0 /\ seconds = 0

-----------------------------------------------------------------------------
(* The history variable restricts nothing: the composition behaves as      *)
(* Feeder, whose invariant it inherits.                                    *)
LEMMA HistoryOnly == HSpec => Spec
<1>1. [PanelStep \/ ClientStep]_hvars => [Next]_vars
  BY DEF PanelStep, ClientStep, hvars, Next
<1> QED
  BY <1>1, PTL DEF HSpec, HInit, Spec

(* The invariant of Feeder, inherited.                                     *)
LEMMA FeederKept == HSpec => []FeederInv
  BY HistoryOnly, Invariance, PTL

(* A tick reaches a full minute only while the feeder runs.                *)
LEMMA TickCases ==
  ASSUME TypeOK, Tick
  PROVE  \/ /\ pc' = "minute" /\ running /\ seconds' = 0 /\ minutes' > 0
         \/ pc' = "dispense" /\ (running \/ UNCHANGED leds)
<1>1. NextMinute(minutes) \in 1 .. 2 * MinuteCycle - 1
  BY NextMinuteRange DEF TypeOK
<1>2. CASE running
  BY <1>1, <1>2, CycleAssumption DEF Tick, TypeOK
<1>3. CASE ~running
  BY <1>3, ClockAssumption DEF Tick, TypeOK
<1> QED
  BY <1>2, <1>3

(* A command that leaves no trace leaves the claims of the panel alone.    *)
LEMMA ClientKeeps ==
  ASSUME EditInv, MinuteInv, ClientStep
  PROVE  EditInv' /\ MinuteInv'
<1>1. UNCHANGED <<pc, shown>>
  BY ServerKeepsActuators DEF ClientStep
<1>2. "edit" \notin touched' => "edit" \notin touched /\ UNCHANGED edit
  BY DEF ClientStep
<1>3. "clock" \notin touched' => "clock" \notin touched /\ UNCHANGED clock
  BY DEF ClientStep
<1>4. EditInv'
  BY <1>1, <1>2 DEF EditInv, Editing, edit
<1>5. MinuteInv'
  BY <1>1, <1>3 DEF MinuteInv, clock
<1> QED
  BY <1>4, <1>5

(* The loop makes its claims true again with a mode key and with a tick,   *)
(* and otherwise keeps them.                                               *)
LEMMA PanelKeeps ==
  ASSUME FeederInv, EditInv, MinuteInv, PanelStep
  PROVE  EditInv' /\ MinuteInv'
<1>t. TypeOK
  BY DEF FeederInv
<1>1. CASE SelectKey
  <2>1. ~running'
    BY <1>1, Zenon DEF SelectKey
  <2> QED
    BY <1>1, <2>1 DEF SelectKey, EditInv, MinuteInv
<1>2. CASE ConfirmKey
  <2>1. ~running'
    BY <1>2, Zenon DEF ConfirmKey
  <2> QED
    BY <1>2, <2>1 DEF ConfirmKey, EditInv, MinuteInv
<1>3. CASE ~SelectKey /\ ~ConfirmKey
  <2>1. "edit" \in touched' <=> "edit" \in touched
    BY <1>3 DEF PanelStep, MainStep, MainTask, Panel, Feed, ReadButton, StepKey,
       AdjustRunning, AdjustSetting, AdjustConfirm, AdjustNoMode, SettingShown,
       ConfirmShown, Tick, MinuteShown, Dispense
  <2>a. "edit" \in touched => EditInv'
    BY <2>1, Zenon DEF EditInv
  <2> SUFFICES ("edit" \notin touched => EditInv') /\ MinuteInv'
    BY <2>a, Zenon
  <2>2. CASE ReadButton \/ AdjustRunning
    BY <2>1, <2>2 DEF ReadButton, AdjustRunning, EditInv, Editing, MinuteInv, devices
  <2>3. CASE StepKey
    BY <2>1, <2>3 DEF StepKey, EditInv, Editing, MinuteInv, devices
  <2>4. CASE AdjustSetting
    <3>1. setting'[mode] = count'
      BY <1>t, <2>4 DEF AdjustSetting, TypeOK
    <3> QED
      BY <2>1, <2>4, <3>1 DEF AdjustSetting, EditInv, Editing, MinuteInv, devices
  <2>5. CASE AdjustConfirm
    BY <2>5 DEF AdjustConfirm, EditInv, MinuteInv
  <2>6. CASE AdjustNoMode
    BY <2>1, <2>6
    DEF AdjustNoMode, EditInv, MinuteInv, Tunable, PERCENT_FOOD, PERIOD_FOOD,
        PERIOD_WATER, CONFIRM_MODE
  <2>7. CASE SettingShown
    <3>1. "edit" \notin touched => display' = count
      BY <1>t, <2>7, LimitAssumption
      DEF SettingShown, EditInv, FeederInv, CountBounded, Display
    <3> QED
      BY <2>1, <2>7, <3>1 DEF SettingShown, EditInv, Editing, MinuteInv
  <2>8. CASE ConfirmShown
    <3>1. running'
      BY <2>8, Zenon DEF ConfirmShown
    <3> QED
      BY <2>8, <3>1 DEF ConfirmShown, EditInv, MinuteInv
  <2>9. CASE Tick
    BY <1>t, <2>1, <2>9, TickCases DEF Tick, EditInv, Editing, MinuteInv
  <2>10. CASE MinuteShown
    BY <2>1, <2>10 DEF MinuteShown, EditInv, MinuteInv
  <2>11. CASE Dispense
    BY <2>1, <2>11 DEF Dispense, EditInv, Editing, MinuteInv
  <2> QED
    BY <1>3, <2>2, <2>3, <2>4, <2>5, <2>6, <2>7, <2>8, <2>9, <2>10, <2>11
    DEF PanelStep, MainStep, MainTask, Panel, Feed
<1> QED
  BY <1>1, <1>2, <1>3

(* Both claims hold in every behaviour.                                    *)
LEMMA ClaimsKept == HSpec => [](EditInv /\ MinuteInv)
<1>1. Init /\ touched = {} => EditInv /\ MinuteInv
  <2> SUFFICES ASSUME Init PROVE EditInv /\ MinuteInv
    OBVIOUS
  <2>1. running
    BY Zenon DEF Init, MainInit
  <2> QED
    BY <2>1 DEF Init, MainInit, EditInv, MinuteInv
<1>2. /\ FeederInv /\ EditInv /\ MinuteInv
      /\ [PanelStep \/ ClientStep]_hvars
      => (EditInv /\ MinuteInv)'
  <2>1. ASSUME EditInv, MinuteInv, UNCHANGED hvars
        PROVE  EditInv' /\ MinuteInv'
    BY <2>1 DEF EditInv, MinuteInv, Editing, hvars, vars, mainVars, clock,
       locals, devices
  <2> QED
    BY <2>1, PanelKeeps, ClientKeeps
<1> QED
  BY <1>1, <1>2, FeederKept, PTL DEF HSpec, HInit

(* The panel tells the truth unless a command has interfered               *)
(* (PanelTrueUnlessTouched).                                               *)
THEOREM SharedPanelTrue == HSpec => []PanelTrueUnlessTouched
<1>1. EditInv => PanelTrueUnlessTouched
  BY DEF EditInv, Editing, PanelTrueUnlessTouched
<1> QED
  BY <1>1, ClaimsKept, PTL

-----------------------------------------------------------------------------
(* With x % 0 = x, at a full minute the loop starts a meal exactly if it   *)
(* is due.                                                                 *)
LEMMA RemainderDue ==
  ASSUME NEW n \in Nat \ {0}, NEW p \in Nat
  PROVE  Remainder(n, p) = 0 <=> (p # 0 /\ n % p = 0)
  BY DEF Remainder

(* Of both tasks, only the step that shows a minute starts a meal.         *)
LEMMA OnlyMinuteStarts ==
  ASSUME [PanelStep \/ ClientStep]_hvars, ~MinuteShown
  PROVE  /\ motor_enabled' => motor_enabled
         /\ valve_enter_enabled' => valve_enter_enabled
<1>1. CASE Dispense
  BY <1>1, Zenon DEF Dispense
<1>2. CASE Panel
  BY <1>2 DEF Panel, ReadButton, SelectKey, ConfirmKey, StepKey, AdjustRunning,
     AdjustSetting, AdjustConfirm, AdjustNoMode, SettingShown, ConfirmShown
<1>3. CASE Tick
  BY <1>3 DEF Tick
<1>4. CASE UNCHANGED vars
  BY <1>4 DEF vars, mainVars, locals
<1>5. CASE ServerTask
  BY <1>5, ServerKeepsActuators
<1> QED
  BY <1>1, <1>2, <1>3, <1>4, <1>5
  DEF PanelStep, ClientStep, MainStep, MainTask, Feed, hvars

(* Meals begin on time unless a command has just reset the clock           *)
(* (MealsOnTimeUnlessReset).                                               *)
THEOREM SharedScheduleSafe == HSpec => MealsOnTimeUnlessReset
<1> DEFINE onTime(period) == /\ period > 0 /\ minutes > 0 /\ seconds = 0
                             /\ minutes % period = 0
<1>1. ASSUME FeederInv, MinuteInv, [PanelStep \/ ClientStep]_hvars,
             "clock" \notin touched
      PROVE  /\ (motor_enabled' /\ ~motor_enabled) =>
                   onTime(setting[PERIOD_FOOD])
             /\ (valve_enter_enabled' /\ ~valve_enter_enabled) =>
                   onTime(setting[PERIOD_WATER])
  <2>1. CASE MinuteShown
    <3>1. minutes \in Nat \ {0} /\ seconds = 0 /\ minutes > 0
      BY <1>1, <2>1, CycleAssumption DEF MinuteShown, FeederInv, TypeOK, MinuteInv
    <3>2. setting[PERIOD_FOOD] \in Nat /\ setting[PERIOD_WATER] \in Nat
      BY <1>1, LimitAssumption DEF FeederInv, TypeOK, Tunable
    <3>3. ASSUME motor_enabled', ~motor_enabled
          PROVE  onTime(setting[PERIOD_FOOD])
      <4>1. Remainder(minutes, setting[PERIOD_FOOD]) = 0
        BY <2>1, <3>3, Zenon DEF MinuteShown
      <4> QED
        BY <3>1, <3>2, <4>1, RemainderDue
    <3>4. ASSUME valve_enter_enabled', ~valve_enter_enabled
          PROVE  onTime(setting[PERIOD_WATER])
      <4>1. Remainder(minutes, setting[PERIOD_WATER]) = 0
        BY <2>1, <3>4, Zenon DEF MinuteShown
      <4> QED
        BY <3>1, <3>2, <4>1, RemainderDue
    <3> QED
      BY <3>3, <3>4
  <2> QED
    BY <1>1, <2>1, OnlyMinuteStarts
<1> QED
  BY <1>1, ClaimsKept, FeederKept, PTL DEF HSpec, HInit, MealsOnTimeUnlessReset

-----------------------------------------------------------------------------
(* The panel without a client. *)

(* What the panel has reached at each control point of the loop.           *)
PanelEditInv ==
  /\ (pc = "adjust" /\ ~running) =>
       /\ mode \in Tunable \cup {CONFIRM_MODE} /\ leds = mode
       /\ mode \in Tunable => count - setting[mode] \in {-1, 0, 1}
  /\ pc = "show" => ~running /\ Editing /\ shown = count
  /\ pc = "confirm" => ~running /\ minutes = 0 /\ shown = 0
  /\ pc = "minute" => /\ running /\ seconds = 0 /\ minutes > 0
                      /\ shown = minutes % ByteSize
  /\ (pc \in {"read", "key", "sleep", "dispense"} /\ ~running) =>
       Editing /\ display = count

(* The digits are behind the minutes only while the minute is being shown. *)
ClockInv ==
  (running /\ pc # "minute" /\ minutes < DisplayLimit) => display = minutes

(* In a minute without a pause an actuator that is on has not been served, *)
(* or had not been one second ago when the present second is yet to be     *)
(* looked at.                                                              *)
PortionInv ==
  steady =>
    /\ running
    /\ motor_enabled =>
         \/ setting[PERCENT_FOOD] >= 2 * seconds
         \/ pc = "dispense" /\ setting[PERCENT_FOOD] >= 2 * (seconds - 1)
    /\ valve_enter_enabled =>
         \/ setting[PERCENT_FOOD] >= seconds
         \/ pc = "dispense" /\ setting[PERCENT_FOOD] >= seconds - 1

PanelInv == PanelTypeOK /\ CountBounded /\ PanelEditInv /\ ClockInv

-----------------------------------------------------------------------------
(* A number below the divisor is its own remainder.                        *)
LEMMA ModSmall ==
  ASSUME NEW a \in Nat, NEW n \in Nat \ {0}, a < n
  PROVE  a % n = a
  OBVIOUS

(* What the settings are.                                                  *)
LEMMA SettingRange ==
  ASSUME setting \in Settings, NEW m \in Tunable
  PROVE  setting[m] \in 0 .. Limit(m) /\ setting[m] \in 0 .. PercentMax
  BY LimitAssumption DEF Settings, Limit

(* Clamping a step of at most one gives a step of at most one.             *)
LEMMA ClampStep ==
  ASSUME NEW n \in Int, NEW m, NEW v \in 0 .. Limit(m), n - v \in {-1, 0, 1}
  PROVE  Clamp(n, Limit(m)) - v \in {-1, 0, 1}
  BY LimitRange DEF Clamp

(* A tick reaches a full second or minute only while the feeder runs.      *)
LEMMA PanelTick ==
  ASSUME PanelTypeOK, Tick
  PROVE  \/ /\ pc' = "minute" /\ running /\ seconds' = 0
            /\ minutes' = NextMinute(minutes) /\ shown' = minutes' % ByteSize
         \/ /\ pc' = "dispense" /\ seconds' \in {seconds, seconds + 1}
            /\ UNCHANGED <<minutes, shown>>
            /\ running \/ UNCHANGED <<leds, seconds>>
<1>1. CASE running
  BY <1>1 DEF Tick, PanelTypeOK
<1>2. CASE ~running
  BY <1>2, ClockAssumption DEF Tick, PanelTypeOK
<1> QED
  BY <1>1, <1>2

(* The loop as it starts satisfies the invariant.                          *)
LEMMA PanelInitInv == PanelInit => PanelInv
<1> SUFFICES ASSUME PanelInit PROVE PanelInv
  OBVIOUS
<1> USE DEF PanelInit, MainInit
<1>1. setting \in Settings
  BY PanelAssumption
<1>2. /\ miliseconds \in 0 .. MilisPerSecond - 1
      /\ seconds \in 0 .. SecondsPerMinute - 1
      /\ minutes \in 0 .. 2 * MinuteCycle - 1
      /\ shown \in 0 .. ByteSize - 1 /\ display \in 0 .. DisplayLimit - 1
      /\ count \in 0 .. PercentMax
  BY ClockAssumption, LimitAssumption, CycleAssumption
<1>3. /\ running \in BOOLEAN /\ motor_enabled \in BOOLEAN
      /\ valve_enter_enabled \in BOOLEAN /\ steady \in BOOLEAN /\ running
  BY Zenon
<1>4. PanelTypeOK
  BY <1>1, <1>2, <1>3, LimitAssumption DEF PanelTypeOK, Modes, Labels, Blocking
<1> QED
  BY <1>2, <1>3, <1>4 DEF PanelInv, CountBounded, PanelEditInv, ClockInv

(* The key tests: what is selected, confirmed or stepped.                  *)
LEMMA KeyKeeps ==
  ASSUME PanelInv, PanelNext, ReadButton \/ SelectKey \/ ConfirmKey \/ StepKey
  PROVE  PanelInv'
<1> USE DEF PanelInv
<1>s. steady' \in BOOLEAN
  BY Zenon DEF PanelNext
<1>1. CASE ReadButton
  BY <1>1, <1>s, ButtonRange
  DEF ReadButton, PanelTypeOK, CountBounded, PanelEditInv, ClockInv, Editing, Labels,
      Blocking, clock, devices
<1>2. CASE SelectKey
  <2>1. running' \in BOOLEAN /\ ~running'
    BY <1>2, Zenon DEF SelectKey
  <2>2. /\ count' = setting[btkey] /\ count' \in 0 .. PercentMax
        /\ btkey \in Modes /\ btkey \in Tunable
    BY <1>2, SettingRange DEF SelectKey, SelectedCount, PanelTypeOK, Modes
  <2>3. PanelTypeOK'
    BY <1>2, <1>s, <2>1, <2>2, LimitAssumption
    DEF SelectKey, PanelTypeOK, Labels, Blocking, clock
  <2> QED
    BY <1>2, <2>1, <2>2, <2>3
    DEF SelectKey, CountBounded, PanelEditInv, ClockInv
<1>3. CASE ConfirmKey
  <2>1. running' \in BOOLEAN /\ ~running'
    BY <1>3, Zenon DEF ConfirmKey
  <2>2. PanelTypeOK'
    BY <1>3, <1>s, <2>1 DEF ConfirmKey, PanelTypeOK, Modes, Labels, Blocking, clock
  <2> QED
    BY <1>3, <2>1, <2>2
    DEF ConfirmKey, CountBounded, PanelEditInv, ClockInv, Tunable
<1>4. CASE StepKey
  <2>1. /\ count' - count \in {-1, 0, 1} /\ count' \in -1 .. PercentMax + 1
        /\ running => count' = count
    BY <1>4, LimitAssumption DEF StepKey, PanelTypeOK, CountBounded
  <2>2. PanelTypeOK'
    BY <1>4, <1>s, <2>1 DEF StepKey, PanelTypeOK, Labels, Blocking, clock, devices
  <2>3. PanelEditInv'
    <3>1. CASE running
      BY <1>4, <3>1 DEF StepKey, PanelEditInv
    <3>2. CASE ~running
      BY <1>4, <2>1, <3>2 DEF StepKey, PanelEditInv, Editing, devices
    <3> QED
      BY <3>1, <3>2
  <2> QED
    BY <1>4, <2>1, <2>2, <2>3
    DEF StepKey, CountBounded, ClockInv, clock, devices
<1> QED
  BY <1>1, <1>2, <1>3, <1>4

(* What follows the key tests up to the sleep of the loop.                 *)
LEMMA AdjustKeeps ==
  ASSUME PanelInv, PanelNext,
         \/ AdjustRunning \/ AdjustSetting \/ AdjustConfirm \/ AdjustNoMode
         \/ SettingShown \/ ConfirmShown
  PROVE  PanelInv'
<1> USE DEF PanelInv
<1>s. steady' \in BOOLEAN
  BY Zenon DEF PanelNext
<1>1. CASE AdjustRunning
  BY <1>1, <1>s
  DEF AdjustRunning, PanelTypeOK, CountBounded, PanelEditInv, ClockInv, Editing, Labels,
      Blocking, clock, devices
<1>2. CASE AdjustSetting
  <2>1. /\ count' \in 0 .. Limit(mode) /\ count' \in 0 .. PercentMax
        /\ count' \in 0 .. ByteSize - 1
    BY <1>2, ClampRange, LimitRange, LimitAssumption DEF AdjustSetting, PanelTypeOK
  <2>2. setting' \in Settings /\ setting'[mode] = count'
    BY <1>2, <2>1 DEF AdjustSetting, PanelTypeOK, Settings
  <2>3. PanelTypeOK'
    BY <1>2, <1>s, <2>1, <2>2, LimitAssumption
    DEF AdjustSetting, PanelTypeOK, Labels, Blocking, clock, devices
  <2> QED
    BY <1>2, <2>1, <2>2, <2>3
    DEF AdjustSetting, CountBounded, PanelEditInv, ClockInv, Editing, clock, devices
<1>3. CASE AdjustConfirm
  <2>1. PanelTypeOK'
    BY <1>3, <1>s, ClockAssumption, CycleAssumption, LimitAssumption
    DEF AdjustConfirm, PanelTypeOK, Labels, Blocking, devices
  <2> QED
    BY <1>3, <2>1, LimitAssumption
    DEF AdjustConfirm, CountBounded, PanelEditInv, ClockInv, devices
<1>4. CASE AdjustNoMode
  BY <1>4 DEF AdjustNoMode, PanelEditInv, Tunable
<1>5. CASE SettingShown
  <2>1. shown \in Nat /\ display' \in 0 .. DisplayLimit - 1 /\ display' = count
    BY <1>5, DisplayRange, LimitAssumption
    DEF SettingShown, PanelTypeOK, PanelEditInv, CountBounded
  <2>2. PanelTypeOK'
    BY <1>5, <1>s, <2>1, LimitAssumption
    DEF SettingShown, PanelTypeOK, Labels, Blocking, clock
  <2> QED
    BY <1>5, <2>1, <2>2
    DEF SettingShown, CountBounded, PanelEditInv, ClockInv, Editing, clock
<1>6. CASE ConfirmShown
  <2>1. running' \in BOOLEAN /\ running'
    BY <1>6, Zenon DEF ConfirmShown
  <2>2. display' = 0 /\ minutes' = 0
    <3>1. shown = 0 /\ minutes = 0 /\ display \in 0 .. DisplayLimit - 1
      BY <1>6 DEF ConfirmShown, PanelEditInv, PanelTypeOK
    <3>2. Display(0) = 0
      BY <3>1, DisplayRange, LimitAssumption
    <3> QED
      BY <1>6, <3>1, <3>2 DEF ConfirmShown, clock
  <2>3. PanelTypeOK'
    BY <1>6, <1>s, <2>1, <2>2, LimitAssumption
    DEF ConfirmShown, PanelTypeOK, Labels, Blocking, clock
  <2> QED
    BY <1>6, <2>1, <2>2, <2>3
    DEF ConfirmShown, CountBounded, PanelEditInv, ClockInv
<1> QED
  BY <1>1, <1>2, <1>3, <1>4, <1>5, <1>6

(* The clock and the actuators.                                            *)
LEMMA FeedKeeps ==
  ASSUME PanelInv, PanelNext, Feed
  PROVE  PanelInv'
<1> USE DEF PanelInv
<1>s. steady' \in BOOLEAN
  BY Zenon DEF PanelNext
<1>1. CASE Tick
  <2>1. /\ miliseconds' \in 0 .. MilisPerSecond - 1
        /\ blink' \in {0, CONFIRM_MODE} /\ leds' \in Modes
    BY <1>1, ClockAssumption DEF Tick, PanelTypeOK, Modes
  <2>2. /\ seconds' \in 0 .. SecondsPerMinute - 1
        /\ NextMinute(minutes) \in 1 .. 2 * MinuteCycle - 1
        /\ minutes' \in 0 .. 2 * MinuteCycle - 1
    BY <1>1, ClockAssumption, NextMinuteRange DEF Tick, PanelTypeOK
  <2>3. shown' \in 0 .. ByteSize - 1
    <3>1. minutes' \in Nat /\ ByteSize \in Nat \ {0}
      BY <2>2, LimitAssumption, CycleAssumption
    <3>2. minutes' % ByteSize \in 0 .. ByteSize - 1
      BY <3>1, ModRange, Zenon
    <3> QED
      BY <1>1, <3>2, PanelTick DEF PanelTypeOK
  <2>4. PanelTypeOK'
    BY <1>1, <1>s, <2>1, <2>2, <2>3, PanelTick, Zenon
    DEF Tick, PanelTypeOK, Labels, Blocking
  <2>5. PanelEditInv'
    <3>1. /\ pc = "sleep" /\ UNCHANGED <<setting, running, mode, count, display>>
          /\ pc' \in {"minute", "dispense"}
      BY <1>1, Zenon DEF Tick
    <3>2. CASE pc' = "minute"
      BY <1>1, <2>2, <3>1, <3>2, PanelTick DEF PanelEditInv
    <3>3. CASE pc' = "dispense"
      <4>1. ~running => leds' = leds
        BY <1>1, <3>3, PanelTick, Zenon
      <4> QED
        BY <3>1, <3>3, <4>1, Zenon DEF PanelEditInv, Editing
    <3> QED
      BY <3>1, <3>2, <3>3, Zenon
  <2>6. ClockInv'
    BY <1>1, PanelTick DEF Tick, ClockInv
  <2> QED
    BY <1>1, <2>4, <2>5, <2>6, PanelTick DEF Tick, CountBounded
<1>2. CASE MinuteShown
  <2>1. /\ motor_enabled' \in BOOLEAN /\ valve_enter_enabled' \in BOOLEAN
    BY <1>2, Zenon DEF MinuteShown
  <2>2. /\ shown \in Nat /\ display' \in 0 .. DisplayLimit - 1
        /\ minutes < DisplayLimit => display' = minutes
    BY <1>2, DisplayRange, ModSmall, LimitAssumption
    DEF MinuteShown, PanelTypeOK, PanelEditInv
  <2>3. PanelTypeOK'
    BY <1>2, <1>s, <2>1, <2>2, LimitAssumption
    DEF MinuteShown, PanelTypeOK, Labels, Blocking, clock
  <2> QED
    BY <1>2, <2>2, <2>3
    DEF MinuteShown, CountBounded, PanelEditInv, ClockInv, Editing, clock
<1>3. CASE Dispense
  <2>1. /\ motor_enabled' \in BOOLEAN /\ valve_enter_enabled' \in BOOLEAN
    BY <1>3, Zenon DEF Dispense
  <2>2. motor' \in 0 .. 1 /\ valve' \in {0, 1, 3}
    BY <1>3 DEF Dispense, Pins, PanelTypeOK
  <2>3. PanelTypeOK'
    BY <1>3, <1>s, <2>1, <2>2 DEF Dispense, PanelTypeOK, Labels, Blocking, clock
  <2> QED
    BY <1>3, <2>3
    DEF Dispense, CountBounded, PanelEditInv, ClockInv, Editing, clock
<1> QED
  BY <1>1, <1>2, <1>3 DEF Feed

(* Doing nothing preserves it.                                             *)
LEMMA PanelStutter == PanelInv /\ UNCHANGED panelVars => PanelInv'
  BY DEF PanelInv, PanelTypeOK, CountBounded, PanelEditInv, ClockInv, Editing, panelVars,
         mainVars, clock, locals, devices

(* Every behaviour of the front panel keeps the invariant.                 *)
THEOREM PanelInvariance == PanelSpec => []PanelInv
<1>1. PanelInv /\ [PanelNext]_panelVars => PanelInv'
  BY KeyKeeps, AdjustKeeps, FeedKeeps, PanelStutter DEF PanelNext, MainTask, Panel
<1> QED
  BY <1>1, PanelInitInv, PTL DEF PanelSpec

(* In configuration mode the panel tells the truth (PanelConsistent).      *)
THEOREM PanelTrue == PanelSpec => []PanelConsistent
<1>1. PanelInv => PanelConsistent
  BY DEF PanelInv, PanelEditInv, Editing, PanelConsistent
<1> QED
  BY <1>1, PanelInvariance, PTL

(* While the feeder runs the digits are the minutes (MinutesShown).        *)
THEOREM MinutesSafe == PanelSpec => []MinutesShown
<1>1. PanelInv => MinutesShown
  BY DEF PanelInv, ClockInv, MinutesShown
<1> QED
  BY <1>1, PanelInvariance, PTL

(* Only the step that shows a minute switches an actuator on.              *)
LEMMA PanelMinuteStarts ==
  ASSUME PanelInv, [PanelNext]_panelVars
  PROVE  \/ MinuteShown
         \/ /\ motor_enabled' => motor_enabled
            /\ valve_enter_enabled' => valve_enter_enabled
<1>1. CASE Dispense
  BY <1>1, Zenon DEF Dispense
<1>2. CASE Panel
  BY <1>2 DEF Panel, ReadButton, SelectKey, ConfirmKey, StepKey, AdjustRunning,
     AdjustSetting, AdjustConfirm, AdjustNoMode, SettingShown, ConfirmShown
<1>3. CASE Tick
  BY <1>3 DEF Tick
<1>4. CASE UNCHANGED panelVars
  BY <1>4 DEF panelVars, mainVars, locals
<1> QED
  BY <1>1, <1>2, <1>3, <1>4 DEF PanelNext, MainTask, Feed

(* Meals begin at positive multiples of positive periods (FeedOnSchedule). *)
THEOREM ScheduleSafe == PanelSpec => FeedOnSchedule
<1> DEFINE onTime(m) == /\ setting[m] > 0 /\ minutes > 0 /\ seconds = 0
                        /\ minutes % setting[m] = 0
<1>1. ASSUME PanelInv, [PanelNext]_panelVars
      PROVE  /\ (motor_enabled' /\ ~motor_enabled) => onTime(PERIOD_FOOD)
             /\ (valve_enter_enabled' /\ ~valve_enter_enabled) =>
                  onTime(PERIOD_WATER)
  <2>1. CASE MinuteShown
    <3>1. minutes \in Nat \ {0} /\ seconds = 0 /\ minutes > 0
      BY <1>1, <2>1, CycleAssumption DEF MinuteShown, PanelInv, PanelTypeOK, PanelEditInv
    <3>2. setting[PERIOD_FOOD] \in Nat /\ setting[PERIOD_WATER] \in Nat
      BY <1>1, SettingRange, LimitAssumption DEF PanelInv, PanelTypeOK, Tunable
    <3>3. ASSUME motor_enabled', ~motor_enabled
          PROVE  onTime(PERIOD_FOOD)
      <4>1. Remainder(minutes, setting[PERIOD_FOOD]) = 0
        BY <2>1, <3>3, Zenon DEF MinuteShown
      <4> QED
        BY <3>1, <3>2, <4>1, RemainderDue
    <3>4. ASSUME valve_enter_enabled', ~valve_enter_enabled
          PROVE  onTime(PERIOD_WATER)
      <4>1. Remainder(minutes, setting[PERIOD_WATER]) = 0
        BY <2>1, <3>4, Zenon DEF MinuteShown
      <4> QED
        BY <3>1, <3>2, <4>1, RemainderDue
    <3> QED
      BY <3>3, <3>4
  <2> QED
    BY <1>1, <2>1, PanelMinuteStarts
<1> QED
  BY <1>1, PanelInvariance, PTL DEF PanelSpec, FeedOnSchedule

-----------------------------------------------------------------------------
(* A pause, or the end of a minute, is all that can disturb a portion:     *)
(* while steady, the settings stay and the seconds go up one at a time.    *)
LEMMA PortionKept ==
  ASSUME PanelInv, PortionInv, [PanelNext]_panelVars
  PROVE  PortionInv'
<1> SUFFICES ASSUME steady' PROVE PortionInv'
  BY DEF PortionInv
<1>1. CASE UNCHANGED panelVars
  BY <1>1 DEF PortionInv, panelVars, mainVars, clock, locals
<1> SUFFICES ASSUME PanelNext PROVE PortionInv'
  BY <1>1
<1>2. running' /\ (steady \/ pc = "minute")
  BY Zenon DEF PanelNext
<1>3. setting[PERCENT_FOOD] \in Nat /\ seconds \in Nat
  BY SettingRange, LimitAssumption, ClockAssumption DEF PanelInv, PanelTypeOK, Tunable
<1>4. CASE MinuteShown
  BY <1>2, <1>3, <1>4 DEF MinuteShown, PortionInv, PanelInv, PanelEditInv, clock
<1>5. CASE Dispense
  <2>1. /\ motor_enabled' => ~FoodServed(seconds)
        /\ valve_enter_enabled' => ~WaterServed(seconds)
    BY <1>5, Zenon DEF Dispense
  <2> QED
    BY <1>2, <1>3, <1>5, <2>1
    DEF Dispense, FoodServed, WaterServed, PortionInv, clock
<1>6. CASE Tick
  BY <1>2, <1>3, <1>6, PanelTick DEF Tick, PortionInv, PanelInv
<1>7. CASE Panel
  <2>1. pc # "minute" /\ pc # "dispense" /\ running
    BY <1>2, <1>7, Zenon DEF PortionInv, Panel, ReadButton, SelectKey, ConfirmKey, StepKey,
       AdjustRunning, AdjustSetting, AdjustConfirm, AdjustNoMode, SettingShown,
       ConfirmShown
  <2>2. \/ UNCHANGED <<setting, seconds, motor_enabled, valve_enter_enabled>>
        \/ SelectKey \/ ConfirmKey \/ ConfirmShown
    BY <1>7, <2>1, Zenon DEF Panel, ReadButton, StepKey, AdjustRunning, AdjustSetting,
       AdjustConfirm, AdjustNoMode, SettingShown, clock
  <2>3. ~SelectKey /\ ~ConfirmKey
    BY <1>2, Zenon DEF SelectKey, ConfirmKey
  <2>4. ~ConfirmShown
    BY <2>1 DEF ConfirmShown, PanelInv, PanelEditInv
  <2> QED
    BY <1>2, <2>1, <2>2, <2>3, <2>4 DEF PortionInv
<1> QED
  BY <1>4, <1>5, <1>6, <1>7 DEF PanelNext, MainTask, Feed

(* Only the end of a loop turn switches an actuator off.                   *)
LEMMA OnlyDispenseStops ==
  ASSUME [PanelNext]_panelVars
  PROVE  \/ Dispense
         \/ /\ motor_enabled => motor_enabled'
            /\ valve_enter_enabled => valve_enter_enabled'
<1>1. CASE MinuteShown
  BY <1>1, Zenon DEF MinuteShown
<1>2. CASE Panel
  BY <1>2 DEF Panel, ReadButton, SelectKey, ConfirmKey, StepKey, AdjustRunning,
     AdjustSetting, AdjustConfirm, AdjustNoMode, SettingShown, ConfirmShown
<1>3. CASE Tick
  BY <1>3 DEF Tick
<1>4. CASE UNCHANGED panelVars
  BY <1>4 DEF panelVars, mainVars, locals
<1> QED
  BY <1>1, <1>2, <1>3, <1>4 DEF PanelNext, MainTask, Feed

(* An uninterrupted portion has its exact length (PortionExact).           *)
THEOREM PortionSafe == PanelSpec => PortionExact
<1>1. PanelInit => PortionInv
  BY Zenon DEF PanelInit, MainInit, PortionInv
<1>2. ASSUME PanelInv, PortionInv, [PanelNext]_panelVars, steady
      PROVE  /\ (motor_enabled /\ ~motor_enabled') =>
                   seconds = setting[PERCENT_FOOD] \div 2 + 1
             /\ (valve_enter_enabled /\ ~valve_enter_enabled') =>
                   seconds = setting[PERCENT_FOOD] + 1
  <2>1. setting[PERCENT_FOOD] \in Nat /\ seconds \in Nat
    BY <1>2, SettingRange, LimitAssumption, ClockAssumption
    DEF PanelInv, PanelTypeOK, Tunable
  <2>2. CASE Dispense
    <3>1. /\ (motor_enabled /\ ~motor_enabled') => FoodServed(seconds)
          /\ (valve_enter_enabled /\ ~valve_enter_enabled') => WaterServed(seconds)
      BY <2>2, Zenon DEF Dispense
    <3> QED
      BY <1>2, <2>1, <3>1 DEF FoodServed, WaterServed, PortionInv
  <2> QED
    BY <1>2, <2>2, OnlyDispenseStops
<1>3. PanelSpec => []PortionInv
  <2>1. PanelInv /\ PortionInv /\ [PanelNext]_panelVars => PortionInv'
    BY PortionKept
  <2> QED
    BY <1>1, <2>1, PanelInvariance, PTL DEF PanelSpec
<1> QED
  BY <1>2, <1>3, PanelInvariance, PTL DEF PanelSpec, PortionExact

-----------------------------------------------------------------------------
(* The steps of the loop as steps of the appliance.  Turning a knob is the *)
(* only one that needs more than its own action: that count is one step at *)
(* most from the setting it replaces.                                      *)
LEMMA TurnStep ==
  ASSUME PanelInv, AdjustSetting
  PROVE  Promise!Turn(mode) \/ UNCHANGED Promise!vars
<1>1. /\ mode \in Tunable /\ ~running /\ setting \in Settings /\ count \in Int
      /\ count - setting[mode] \in {-1, 0, 1}
      /\ setting[mode] \in 0 .. Limit(mode)
  BY SettingRange, LimitAssumption DEF AdjustSetting, PanelInv, PanelTypeOK, PanelEditInv
<1>2. /\ count' \in 0 .. Limit(mode) /\ count' - setting[mode] \in {-1, 0, 1}
      /\ count' \in 0 .. PercentMax
  <2>1. count' = Clamp(count, Limit(mode))
    BY DEF AdjustSetting
  <2>2. Clamp(count, Limit(mode)) \in 0 .. Limit(mode)
    BY <1>1, ClampRange
  <2>3. Clamp(count, Limit(mode)) - setting[mode] \in {-1, 0, 1}
    BY <1>1, ClampStep
  <2> QED
    BY <2>1, <2>2, <2>3, LimitRange, LimitAssumption
<1>3. setting' = [setting EXCEPT ![mode] = count']
  BY DEF AdjustSetting
<1>4. /\ setting' \in Settings /\ setting'[mode] = count'
      /\ \A other \in Tunable \ {mode} : setting'[other] = setting[other]
  BY <1>1, <1>2, <1>3 DEF Settings
<1>5. UNCHANGED <<running, minutes, motor_enabled, valve_enter_enabled>>
  BY DEF AdjustSetting, clock
<1>6. CASE count' = setting[mode]
  <2>1. setting' = setting
    BY <1>1, <1>3, <1>6 DEF Settings
  <2> QED
    BY <1>5, <2>1 DEF Promise!vars
<1>7. CASE count' # setting[mode]
  <2>1. setting'[mode] - setting[mode] \in {-1, 1}
    BY <1>1, <1>2, <1>4, <1>7
  <2> QED
    BY <1>1, <1>4, <1>5, <2>1 DEF Promise!Turn
<1> QED
  BY <1>6, <1>7

(* Showing a minute serves what is due.                                    *)
LEMMA ServeStep ==
  ASSUME PanelInv, MinuteShown
  PROVE  Promise!Serve
<1>1. minutes \in Nat \ {0} /\ running
  BY CycleAssumption DEF MinuteShown, PanelInv, PanelTypeOK, PanelEditInv
<1>2. setting[PERIOD_FOOD] \in Nat /\ setting[PERIOD_WATER] \in Nat
  BY SettingRange, LimitAssumption DEF PanelInv, PanelTypeOK, Tunable
<1>3. /\ Remainder(minutes, setting[PERIOD_FOOD]) = 0 <=> Promise!Due(PERIOD_FOOD)
      /\ Remainder(minutes, setting[PERIOD_WATER]) = 0 <=> Promise!Due(PERIOD_WATER)
  BY <1>1, <1>2, RemainderDue DEF Promise!Due
<1>4. /\ motor_enabled' = (Promise!Due(PERIOD_FOOD) \/ motor_enabled)
      /\ valve_enter_enabled' = (Promise!Due(PERIOD_WATER) \/ valve_enter_enabled)
  BY <1>3, Zenon DEF MinuteShown
<1>5. UNCHANGED <<setting, running, minutes>>
  BY DEF MinuteShown, clock
<1> QED
  BY <1>1, <1>4, <1>5, Zenon DEF Promise!Serve

(* The loop implements the appliance (KeepsPromise).                       *)
THEOREM PromiseKept == PanelSpec => KeepsPromise
<1>1. PanelInit => Promise!Init
  BY Zenon DEF PanelInit, MainInit, Promise!Init
<1>2. ASSUME PanelInv, [PanelNext]_panelVars
      PROVE  [Promise!Next]_Promise!vars
  <2> USE DEF Promise!Next
  <2>1. CASE ReadButton \/ AdjustRunning \/ SettingShown \/ StepKey
    BY <2>1 DEF ReadButton, AdjustRunning, SettingShown, StepKey, clock, Promise!vars
  <2>2. CASE SelectKey \/ ConfirmKey
    <3>1. ~running'
      BY <2>2, Zenon DEF SelectKey, ConfirmKey
    <3> QED
      BY <2>2, <3>1 DEF SelectKey, ConfirmKey, clock, Promise!Edit
  <2>3. CASE AdjustSetting
    BY <1>2, <2>3, TurnStep DEF AdjustSetting
  <2>4. CASE AdjustConfirm
    BY <2>4 DEF AdjustConfirm, Promise!Restart
  <2>5. CASE AdjustNoMode
    BY <1>2, <2>5 DEF AdjustNoMode, PanelInv, PanelEditInv, Tunable
  <2>6. CASE ConfirmShown
    <3>1. running' /\ ~running /\ minutes = 0
      BY <1>2, <2>6, Zenon DEF ConfirmShown, PanelInv, PanelEditInv
    <3> QED
      BY <2>6, <3>1 DEF ConfirmShown, clock, Promise!Resume
  <2>7. CASE Tick
    <3>1. minutes' = minutes \/ (running /\ minutes' # 0)
      BY <1>2, <2>7, PanelTick, NextMinuteRange, CycleAssumption
      DEF PanelInv, PanelTypeOK
    <3> QED
      BY <2>7, <3>1 DEF Tick, Promise!Elapse, Promise!vars
  <2>8. CASE MinuteShown
    BY <1>2, <2>8, ServeStep
  <2>9. CASE Dispense
    <3>1. /\ motor_enabled' \in {motor_enabled, FALSE}
          /\ valve_enter_enabled' \in {valve_enter_enabled, FALSE}
      BY <1>2, <2>9, Zenon DEF Dispense, PanelInv, PanelTypeOK
    <3> QED
      BY <2>9, <3>1, Zenon DEF Dispense, clock, Promise!Stop
  <2>10. CASE UNCHANGED panelVars
    BY <2>10 DEF panelVars, mainVars, clock, locals, Promise!vars
  <2> QED
    BY <1>2, <2>1, <2>2, <2>3, <2>4, <2>5, <2>6, <2>7, <2>8, <2>9, <2>10
    DEF PanelNext, MainTask, Panel, Feed
<1> QED
  BY <1>1, <1>2, PanelInvariance, PTL DEF PanelSpec, KeepsPromise, Promise!Spec
=============================================================================
