------------------------------ MODULE Drivers ------------------------------
(***************************************************************************)
(* The display and LED drivers of the GreenBone board (stm32_display.c,    *)
(* stm32_led.c) at the grain of their register accesses, called by the     *)
(* main task and by the server task.  Neither driver has a lock.  The main *)
(* task preempts the server between any two accesses; the server runs only *)
(* while the main task is outside the drivers or waits in the printf of    *)
(* display_write.                                                          *)
(* A definition just above another one and named after a slip is a wrong   *)
(* variant that no specification uses (see DogFeed).                       *)
(***************************************************************************)
EXTENDS Integers, Sequences

CONSTANTS Shows,    \* bytes the application passes to write_display
          Lights,   \* bytes it passes to write_led
          OtherC,   \* output bits of GPIOC and GPIOD that belong to others
          OtherD

Tasks   == {"main", "server"}
Devices == {"display", "leds"}

ASSUME DriverAssumption ==
  /\ Shows \subseteq 0 .. 255 /\ Lights \subseteq 0 .. 15
  /\ OtherC \subseteq (0 .. 5) \cup (13 .. 15)
  /\ OtherD \subseteq 8 .. 15

VARIABLES
  gpioc, gpiod, \* bits set in the two output data registers
  lit,          \* LEDs whose pin is low
  at, arg, val, \* per task: next access, byte to write, register at hand
  \* history, per device:
  final,        \* the byte of the write that ended last
  alone,        \* whether that write met no access of the other task
  last          \* per task: the byte it wrote last

history == <<final, alone, last>>
vars    == <<gpioc, gpiod, lit, at, arg, val, history>>

DisplaySteps == <<"printf", "getC", "putC", "getD", "putD">>
LedSteps     == <<"food", "water", "period", "time">>

-----------------------------------------------------------------------------
Weight  == <<1, 2, 4, 8, 16, 32, 64, 128>>
Bits(n) == {b \in 0 .. 7 : (n \div Weight[b + 1]) % 2 = 1}

(* The segment patterns, low meaning lit, with 1 for the first digit; the  *)
(* code shifts those of the first digit by 6.                              *)
digits1 == <<1, 61, 18, 24, 44, 72, 64, 29, 0, 8>>

digits2Typo == <<65, 125, 137, 25, 53, 18, 3, 121, 1, 17>>

digits2 == <<65, 125, 137, 25, 53, 19, 3, 121, 1, 17>>

TensMaskWide == 5 .. 12

TensMask == 6 .. 12    \* the bits 0xFFFFE03F clears

UnitsMaskShort == 0 .. 6

UnitsMask == 0 .. 7    \* the bits 0xFFFFFF00 clears

Tens(byte)  == {b + 6 : b \in Bits(digits1[byte \div 10 + 1])}
Units(byte) == Bits(digits2[(byte % 10) + 1])

Init ==
  /\ gpioc = OtherC \cup Tens(0) /\ gpiod = OtherD \cup Units(0)
  /\ lit = {}
  /\ at = [t \in Tasks |-> "idle"] /\ arg = [t \in Tasks |-> 0]
  /\ val = [t \in Tasks |-> {}]
  /\ final = [d \in Devices |-> 0] /\ alone = [d \in Devices |-> TRUE]
  /\ last = [d \in Devices |-> [t \in Tasks |-> 0]]

(* The single processor: see the head of the module.                       *)
Runs(t) == t = "server" => at["main"] \in {"idle", "printf"}

Other(t) == CHOOSE u \in Tasks : u # t

(* Inside the register accesses of a device.                               *)
Inside(t, d) == IF d = "display" THEN at[t] \in {"putC", "getD", "putD"}
                                 ELSE at[t] \in {"water", "period", "time"}

(* Task t ends its write to d.                                             *)
Ends(t, d) ==
  /\ at' = [at EXCEPT ![t] = "idle"]
  /\ arg' = [arg EXCEPT ![t] = 0] /\ val' = [val EXCEPT ![t] = {}]
  /\ final' = [final EXCEPT ![d] = arg[t]]
  /\ last' = [last EXCEPT ![d][t] = arg[t]]

(* The first access of t to d: does it fall into a write of the other?     *)
Begins(t, d) == alone' = [alone EXCEPT ![d] = ~Inside(Other(t), d)]

-----------------------------------------------------------------------------
(* display_write; a value from 100 on returns before it does anything.     *)

Accepts(byte) == byte < 100

DisplayWrite(t) ==
  /\ at[t] = "idle" /\ Runs(t)
  /\ \E byte \in Shows :
       /\ Accepts(byte)
       /\ arg' = [arg EXCEPT ![t] = byte]
  /\ at' = [at EXCEPT ![t] = "printf"]
  /\ UNCHANGED <<gpioc, gpiod, lit, val, history>>

Printed(t) ==
  /\ at[t] = "printf" /\ Runs(t)
  /\ at' = [at EXCEPT ![t] = "getC"]
  /\ UNCHANGED <<gpioc, gpiod, lit, arg, val, history>>

GetC(t) ==
  /\ at[t] = "getC" /\ Runs(t)
  /\ val' = [val EXCEPT ![t] = (gpioc \ TensMask) \cup Tens(arg[t])]
  /\ at' = [at EXCEPT ![t] = "putC"]
  /\ Begins(t, "display")
  /\ UNCHANGED <<gpioc, gpiod, lit, arg, final, last>>

PutC(t) ==
  /\ at[t] = "putC" /\ Runs(t)
  /\ gpioc' = val[t]
  /\ at' = [at EXCEPT ![t] = "getD"]
  /\ UNCHANGED <<gpiod, lit, arg, val, history>>

GetD(t) ==
  /\ at[t] = "getD" /\ Runs(t)
  /\ val' = [val EXCEPT ![t] = (gpiod \ UnitsMask) \cup Units(arg[t])]
  /\ at' = [at EXCEPT ![t] = "putD"]
  /\ UNCHANGED <<gpioc, gpiod, lit, arg, history>>

PutD(t) ==
  /\ at[t] = "putD" /\ Runs(t)
  /\ gpiod' = val[t]
  /\ Ends(t, "display")
  /\ UNCHANGED <<gpioc, lit, alone>>

-----------------------------------------------------------------------------
(* leds_write: one stm32_gpiowrite, through BSRR, per LED.                 *)

LedsWrite(t) ==
  /\ at[t] = "idle" /\ Runs(t)
  /\ \E byte \in Lights : arg' = [arg EXCEPT ![t] = byte]
  /\ at' = [at EXCEPT ![t] = "food"]
  /\ UNCHANGED <<gpioc, gpiod, lit, val, history>>

BitOfNext(n) == n

BitOf(n) == n - 1

(* The n-th LED is written; bit n - 1 says whether it is lit.              *)
Light(t, n) ==
  lit' = IF BitOf(n) \in Bits(arg[t]) THEN lit \cup {LedSteps[n]}
                                      ELSE lit \ {LedSteps[n]}

FirstLed(t) ==
  /\ at[t] = LedSteps[1] /\ Runs(t)
  /\ Light(t, 1)
  /\ at' = [at EXCEPT ![t] = LedSteps[2]]
  /\ Begins(t, "leds")
  /\ UNCHANGED <<gpioc, gpiod, arg, val, final, last>>

MiddleLed(t) ==
  /\ Runs(t)
  /\ \E n \in 2 .. 3 :
       /\ at[t] = LedSteps[n]
       /\ Light(t, n)
       /\ at' = [at EXCEPT ![t] = LedSteps[n + 1]]
  /\ UNCHANGED <<gpioc, gpiod, arg, val, history>>

LastLed(t) ==
  /\ at[t] = LedSteps[4] /\ Runs(t)
  /\ Light(t, 4)
  /\ Ends(t, "leds")
  /\ UNCHANGED <<gpioc, gpiod, alone>>

Next == \E t \in Tasks :
  \/ DisplayWrite(t) \/ Printed(t) \/ GetC(t) \/ PutC(t) \/ GetD(t) \/ PutD(t)
  \/ LedsWrite(t) \/ FirstLed(t) \/ MiddleLed(t) \/ LastLed(t)

Spec == Init /\ [][Next]_vars

-----------------------------------------------------------------------------
Settled(d) == \A t \in Tasks : ~Inside(t, d)

LitBy(byte) == {LedSteps[b + 1] : b \in Bits(byte) \cap (0 .. 3)}

(* The usual shapes of the ten digits on segments A to G.                   *)
Glyph == <<{"A", "B", "C", "D", "E", "F"}, {"B", "C"},
           {"A", "B", "D", "E", "G"}, {"A", "B", "C", "D", "G"},
           {"B", "C", "F", "G"}, {"A", "C", "D", "F", "G"},
           {"A", "C", "D", "E", "F", "G"}, {"A", "B", "C"},
           {"A", "B", "C", "D", "E", "F", "G"},
           {"A", "B", "C", "D", "F", "G"}>>

(* GPIO_DSP2_DP, B, A, F, E, D, G, C on the bits 0 to 7 of GPIOD.           *)
UnitsWiring == <<"DP", "B", "A", "F", "E", "D", "G", "C">>

(* A write no other write overlaps shows exactly its byte: all four LEDs,   *)
(* the tens of the display, and the units with the right shape on the       *)
(* wiring of the GPIO_DSP2 macros, the point dark.                          *)
AloneExact ==
  /\ (Settled("display") /\ alone["display"]) =>
        /\ gpioc \cap (6 .. 12) = Tens(final["display"])
        /\ {UnitsWiring[b + 1] : b \in (0 .. 7) \ gpiod} =
             Glyph[(final["display"] % 10) + 1]
  /\ (Settled("leds") /\ alone["leds"]) => lit = LitBy(final["leds"])

(* When the main task cuts into a write of the server, the display may end  *)
(* up with the tens of one value and the units of the other, but never      *)
(* worse: the units are those of the write that ended last, and the tens    *)
(* those of a value one of the tasks wrote last.                            *)
TornDigits ==
  Settled("display") =>
     /\ gpiod \cap (0 .. 7) = Units(final["display"])
     /\ \E t \in Tasks : gpioc \cap (6 .. 12) = Tens(last["display"][t])

(* Likewise an LED is lit after an overlap only if one of the two bytes     *)
(* asked for it, and dark only if one of them asked for that.               *)
MixedLeds ==
  Settled("leds") =>
     LET m == LitBy(last["leds"]["main"])
         s == LitBy(last["leds"]["server"])
     IN lit \subseteq (m \cup s) /\ (m \cap s) \subseteq lit

(* The unlocked read-modify-write of the output data registers never        *)
(* changes a pin of the ports that is not a segment.                        *)
OthersKept == gpioc \ (6 .. 12) = OtherC /\ gpiod \ (0 .. 7) = OtherD
=============================================================================
