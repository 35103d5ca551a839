------------------------------ MODULE DogFeed ------------------------------
(***************************************************************************)
(* The feeder's main task, apps/examples/dogfeed/dogfeed.c: the shared     *)
(* statics, the endless loop of dogfeed_main (front panel, clock, motor    *)
(* and valve) and the setters the loop calls.                              *)
(*                                                                         *)
(* The loop is cut where the task can block or where the reader gains: the *)
(* labels of pc.  At a label of Blocking the task waits (usleep, or a      *)
(* printf whose UART buffer is full) and the lower-priority server task of *)
(* DogServer may run; at the other labels it cannot, because the main task *)
(* has priority 100 and the server 50.                                     *)
(***************************************************************************)
EXTENDS Integers

CONSTANTS
  PercentMax,        \* 99: largest percent_food the setters accept
  PeriodMax,         \* 24: largest period_food and period_water
  MilisPerSecond,    \* 50: loop turns the code counts as one second
  SecondsPerMinute,  \* 60
  DisplayLimit,      \* 100: display_write ignores values from here on
  ByteSize,          \* 256: write_display takes a uint8_t
  MinuteCycle,       \* see NextMinute
  Presses,           \* sets of keys, numbered from 0, held down together
  InitSetting        \* initial percent_food, period_food and period_water

PERCENT_FOOD == 1
PERIOD_FOOD  == 2
PERIOD_WATER == 4
CONFIRM_MODE == 8
KEY_UP       == 16
KEY_DOWN     == 32

(* The modes that edit a setting; setting[m] is percent_food, period_food  *)
(* or period_water.                                                        *)
Tunable == {PERCENT_FOOD, PERIOD_FOOD, PERIOD_WATER}
Modes   == Tunable \cup {0, CONFIRM_MODE}

Limit(m) == IF m = PERCENT_FOOD THEN PercentMax ELSE PeriodMax

Settings == {s \in [Tunable -> 0 .. PercentMax] :
               \A m \in Tunable : s[m] <= Limit(m)}

ASSUME ClockAssumption ==
  /\ MilisPerSecond \in Nat \ {0}
  /\ SecondsPerMinute \in Nat \ {0}

ASSUME LimitAssumption ==
  /\ PercentMax \in 0 .. 99
  /\ PeriodMax \in 1 .. PercentMax
  /\ DisplayLimit \in Nat
  /\ PercentMax < DisplayLimit
  /\ ByteSize \in Nat
  /\ DisplayLimit <= ByteSize

ASSUME CycleAssumption ==
  /\ MinuteCycle \in Nat \ {0}
  /\ \A p \in 1 .. PeriodMax : MinuteCycle % p = 0
  /\ MinuteCycle % ByteSize = 0

ASSUME PanelAssumption ==
  /\ Presses \subseteq SUBSET (0 .. 5)
  /\ InitSetting \in Settings

VARIABLES
  \* statics of dogfeed.c, shared with the server task
  setting, running, mode, count, miliseconds, seconds, minutes,
  \* the main task: control point, and its locals while they are live
  pc, btkey, shown, motor_enabled, valve_enter_enabled, blink,
  \* the devices: last byte each driver put on its pins
  leds, display, motor, valve

clock   == <<miliseconds, seconds, minutes>>
locals  == <<pc, btkey, shown, motor_enabled, valve_enter_enabled, blink>>
devices == <<leds, display, motor, valve>>
mainVars == <<setting, running, mode, count, clock, locals, devices>>

(* Where the main task can wait; display_write returns before its printf   *)
(* for a value it does not show.                                           *)
Blocking == {"key", "show", "confirm", "sleep", "minute"}
Waiting  == pc \in Blocking /\ (pc = "minute" => shown < DisplayLimit)
Labels   == Blocking \cup {"read", "adjust", "dispense"}

-----------------------------------------------------------------------------
(* Helpers.  A definition placed just above another one and named after    *)
(* the slip it makes is a wrong variant: no specification uses it; it is   *)
(* there to show that a property notices the slip.                         *)

Clamp(n, max) == IF n < 0 THEN 0 ELSE IF n > max THEN max ELSE n

(* The int minutes grows without end, but the code only looks at it modulo *)
(* a period, modulo 256, and, when the period is 0, compared with 0.  A    *)
(* common multiple of these moduli can be subtracted without any of them   *)
(* noticing, as long as the result is not 0.                               *)
NextMinute(n) == IF n + 1 = 2 * MinuteCycle THEN MinuteCycle ELSE n + 1

(* minutes % period.  The divisor may be 0: the STM32F107 divides in       *)
(* hardware, which yields 0 when CCR.DIV_0_TRP is clear, as it is in this  *)
(* build, and so leaves the dividend as the remainder.                     *)
RemainderZero(n, period) == IF period = 0 THEN 0 ELSE n % period

Remainder(n, period) == IF period = 0 THEN n ELSE n % period

(* display_write drops a value that does not fit the two digits.           *)
DisplayOffByOne(byte) == IF byte + 1 < DisplayLimit THEN byte ELSE display

Display(byte) == IF byte < DisplayLimit THEN byte ELSE display

(* The value a mode key starts editing from.                               *)
StaleCount(key) == count

SelectedCount(key) == setting[key]

(* When the portion of food, or of water, has been served.                 *)
FoodServedEarly(secs) == setting[PERCENT_FOOD] <= secs * 2
FoodServedHalf(secs)  == setting[PERCENT_FOOD] < secs

FoodServed(secs) == setting[PERCENT_FOOD] < secs * 2

WaterServedLate(secs) == setting[PERCENT_FOOD] + 1 < secs

WaterServed(secs) == setting[PERCENT_FOOD] < secs

(* The button driver: bit n of the byte is key n, sensed low when held.    *)
button_read(held) ==
  LET bit(n, weight) == IF n \in held THEN weight ELSE 0
  IN bit(0, 1) + bit(1, 2) + bit(2, 4) + bit(3, 8) + bit(4, 16) + bit(5, 32)

(* The pins of an actuator after the end of a loop turn, for a byte that   *)
(* is 1 or 0: the driver is only called when the actuator was on before    *)
(* the portion was looked at.  The valve driver takes bit 0 for the        *)
(* entrance and bit 1 for the exit, the motor driver bit 0.                *)
PinsOnlyOn(was, is, pins) == IF is THEN 1 ELSE pins

Pins(was, is, pins) == IF was THEN IF is THEN 1 ELSE 0 ELSE pins

MainInit ==
  /\ setting = InitSetting
  /\ running = TRUE /\ mode = 0 /\ count = 0
  /\ miliseconds = 0 /\ seconds = 0 /\ minutes = 0
  /\ pc = "read" /\ btkey = 0 /\ shown = 0
  /\ motor_enabled = FALSE /\ valve_enter_enabled = FALSE /\ blink = 0
  /\ leds = 0 /\ display = 0 /\ motor = 0
  /\ valve = 3  \* up_valve configures both valve pins high

-----------------------------------------------------------------------------
(* Front panel *)

ReadButton ==
  /\ pc = "read"
  /\ \E held \in Presses :
       /\ btkey' = button_read(held)
       /\ pc' = IF btkey' = 0 THEN "sleep" ELSE "key"
  /\ UNCHANGED <<setting, running, mode, count, clock, shown, motor_enabled,
                 valve_enter_enabled, blink, devices>>

(* One of the three mode keys: set_mode, then count takes the setting.     *)
SelectKey ==
  /\ pc = "key" /\ btkey \in Tunable
  /\ mode' = btkey /\ leds' = btkey
  /\ count' = SelectedCount(btkey)
  /\ running' = FALSE
  /\ pc' = "adjust" /\ btkey' = 0
  /\ UNCHANGED <<setting, clock, shown, motor_enabled, valve_enter_enabled,
                 blink, display, motor, valve>>

ConfirmKey ==
  /\ pc = "key" /\ btkey = CONFIRM_MODE
  /\ mode' = CONFIRM_MODE /\ leds' = CONFIRM_MODE
  /\ running' = FALSE
  /\ pc' = "adjust" /\ btkey' = 0
  /\ UNCHANGED <<setting, count, clock, shown, motor_enabled,
                 valve_enter_enabled, blink, display, motor, valve>>

(* KEY_UP, KEY_DOWN, and several keys at once, which match none of the     *)
(* tests.                                                                  *)
StepKey ==
  /\ pc = "key" /\ btkey \notin Tunable \cup {CONFIRM_MODE}
  /\ count' = IF running THEN count
              ELSE CASE btkey = KEY_UP   -> count + 1
                     [] btkey = KEY_DOWN -> count - 1
                     [] OTHER            -> count
  /\ pc' = "adjust" /\ btkey' = 0
  /\ UNCHANGED <<setting, running, mode, clock, shown, motor_enabled,
                 valve_enter_enabled, blink, devices>>

(* What follows the key tests: nothing while the feeder runs ...           *)
AdjustRunning ==
  /\ pc = "adjust" /\ running
  /\ pc' = "sleep"
  /\ UNCHANGED <<setting, running, mode, count, clock, btkey, shown,
                 motor_enabled, valve_enter_enabled, blink, devices>>

(* ... else the clamped count becomes the selected setting (the range test *)
(* of set_percent_food and set_period_* is true of a clamped value), and   *)
(* the setter goes on to the display ...                                   *)
AdjustSetting ==
  /\ pc = "adjust" /\ ~running /\ mode \in Tunable
  /\ count' = Clamp(count, Limit(mode))
  /\ setting' = [setting EXCEPT ![mode] = count']
  /\ shown' = count'
  /\ pc' = "show"
  /\ UNCHANGED <<running, mode, clock, btkey, motor_enabled,
                 valve_enter_enabled, blink, devices>>

(* ... or set_confirm_mode restarts the clock ...                          *)
AdjustConfirm ==
  /\ pc = "adjust" /\ ~running /\ mode = CONFIRM_MODE
  /\ miliseconds' = 0 /\ seconds' = 0 /\ minutes' = 0
  /\ count' = 0 /\ shown' = 0
  /\ pc' = "confirm"
  /\ UNCHANGED <<setting, running, mode, btkey, motor_enabled,
                 valve_enter_enabled, blink, devices>>

(* ... or, before any mode was selected, only count is clamped.            *)
AdjustNoMode ==
  /\ pc = "adjust" /\ ~running /\ mode = 0
  /\ count' = Clamp(count, Limit(mode))
  /\ pc' = "sleep"
  /\ UNCHANGED <<setting, running, mode, clock, btkey, shown, motor_enabled,
                 valve_enter_enabled, blink, devices>>

(* The write_display of a setter returns from its printf and shows.        *)
SettingShown ==
  /\ pc = "show"
  /\ display' = Display(shown) /\ shown' = 0
  /\ pc' = "sleep"
  /\ UNCHANGED <<setting, running, mode, count, clock, btkey, motor_enabled,
                 valve_enter_enabled, blink, leds, motor, valve>>

(* set_confirm_mode from its write_display on.                             *)
ConfirmShown ==
  /\ pc = "confirm"
  /\ display' = Display(shown) /\ shown' = 0
  /\ leds' = mode
  /\ running' = TRUE
  /\ pc' = "sleep"
  /\ UNCHANGED <<setting, mode, count, clock, btkey, motor_enabled,
                 valve_enter_enabled, blink, motor, valve>>

-----------------------------------------------------------------------------
(* Clock and actuators *)

(* After usleep: the turn counter, the second with its blinking LED, the   *)
(* minute up to the printf of its write_display.                           *)
Tick ==
  LET milis  == IF running THEN miliseconds + 1 ELSE miliseconds
      second == milis >= MilisPerSecond
      secs   == IF second THEN seconds + 1 ELSE seconds
      minute == secs >= SecondsPerMinute
  IN
  /\ pc = "sleep"
  /\ miliseconds' = IF second THEN 0 ELSE milis
  /\ leds'  = IF second THEN blink ELSE leds
  /\ blink' = IF second THEN CONFIRM_MODE - blink ELSE blink
  /\ seconds' = IF minute THEN 0 ELSE secs
  /\ minutes' = IF minute THEN NextMinute(minutes) ELSE minutes
  /\ shown'   = IF minute THEN minutes' % ByteSize ELSE shown
  /\ pc'      = IF minute THEN "minute" ELSE "dispense"
  /\ UNCHANGED <<setting, running, mode, count, btkey, motor_enabled,
                 valve_enter_enabled, display, motor, valve>>

(* The minute is shown; minutes and the periods are read only now.         *)
MinuteShown ==
  /\ pc = "minute"
  /\ display' = Display(shown) /\ shown' = 0
  /\ valve_enter_enabled' =
       (valve_enter_enabled \/ Remainder(minutes, setting[PERIOD_WATER]) = 0)
  /\ motor_enabled' =
       (motor_enabled \/ Remainder(minutes, setting[PERIOD_FOOD]) = 0)
  /\ pc' = "dispense"
  /\ UNCHANGED <<setting, running, mode, count, clock, btkey, blink, leds,
                 motor, valve>>

(* The end of the loop: switch off what has run long enough, and write the *)
(* pins of what was on.                                                    *)
Dispense ==
  /\ pc = "dispense"
  /\ valve_enter_enabled' = (valve_enter_enabled /\ ~WaterServed(seconds))
  /\ valve' = Pins(valve_enter_enabled, valve_enter_enabled', valve)
  /\ motor_enabled' = (motor_enabled /\ ~FoodServed(seconds))
  /\ motor' = Pins(motor_enabled, motor_enabled', motor)
  /\ pc' = "read"
  /\ UNCHANGED <<setting, running, mode, count, clock, btkey, shown, blink,
                 leds, display>>

Panel == \/ ReadButton \/ SelectKey \/ ConfirmKey \/ StepKey
         \/ AdjustRunning \/ AdjustSetting \/ AdjustConfirm \/ AdjustNoMode
         \/ SettingShown \/ ConfirmShown

Feed == Tick \/ MinuteShown \/ Dispense

MainTask == Panel \/ Feed
=============================================================================
