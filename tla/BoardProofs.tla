---------------------------- MODULE BoardProofs ----------------------------
(***************************************************************************)
(* Proofs about the board code.  About Drivers, for all bytes the          *)
(* application may write and all foreign bits of the two ports; none of    *)
(* them uses Runs: the claims hold for any interleaving of the accesses of *)
(* the two tasks.  About Startup, for every table of at least eight        *)
(* descriptors and any number of inherited ones, however often the start   *)
(* is tried.                                                               *)
(***************************************************************************)
EXTENDS Drivers, Startup, TLAPS

(* Types.                                                                  *)
TypeOK ==
  /\ at \in [Tasks -> {"idle", "printf", "getC", "putC", "getD", "putD",
                       "food", "water", "period", "time"}]
  /\ arg \in [Tasks -> 0 .. 255] /\ DOMAIN val = Tasks
  /\ final \in [Devices -> 0 .. 255]
  /\ last \in [Devices -> [Tasks -> 0 .. 255]]
  /\ \A t \in Tasks :
       at[t] \in {"printf", "getC", "putC", "getD", "putD"} => arg[t] < 100

(* A task about to write a port holds the foreign bits of the port and the *)
(* segments of its own byte.                                               *)
HoldsC(t) == at[t] = "putC" => /\ val[t] \ (6 .. 12) = OtherC
                               /\ val[t] \cap (6 .. 12) = Tens(arg[t])
HoldsD(t) == at[t] = "putD" => /\ val[t] \ (0 .. 7) = OtherD
                               /\ val[t] \cap (0 .. 7) = Units(arg[t])

(* The byte whose tens task t has written to the port most recently.       *)
TensOf(t) == IF at[t] \in {"getD", "putD"} THEN arg[t] ELSE last["display"][t]

PortInv ==
  /\ TypeOK
  /\ \A t \in Tasks : HoldsC(t) /\ HoldsD(t)
  /\ OthersKept
  /\ gpiod \cap (0 .. 7) = Units(final["display"])
  /\ \E t \in Tasks : gpioc \cap (6 .. 12) = Tens(TensOf(t))

(* The byte after which task t has set the n-th LED most recently, and     *)
(* that the LED is as one of the tasks has set it.                         *)
LedByte(t, n) ==
  IF at[t] \in {LedSteps[k] : k \in n + 1 .. 4} THEN arg[t] ELSE last["leds"][t]

LedInv ==
  /\ lit \subseteq {LedSteps[n] : n \in 1 .. 4}
  /\ \A n \in 1 .. 4 : \E t \in Tasks :
       LedSteps[n] \in lit <=> BitOf(n) \in Bits(LedByte(t, n))

-----------------------------------------------------------------------------
(* The segments of a digit stay within the bits that are masked for it.    *)
LEMMA SegmentsInMask ==
  ASSUME NEW byte \in 0 .. 99
  PROVE  Tens(byte) \subseteq 6 .. 12 /\ Units(byte) \subseteq 0 .. 7
<1>1. byte \div 10 + 1 \in 1 .. 10
  OBVIOUS
<1>2. digits1[byte \div 10 + 1] \in 0 .. 127
  BY <1>1 DEF digits1
<1>3. 7 \notin Bits(digits1[byte \div 10 + 1])
  <2> DEFINE n == digits1[byte \div 10 + 1]
  <2>1. n \div 128 = 0
    BY <1>2
  <2>2. Weight[7 + 1] = 128
    BY DEF Weight
  <2> HIDE DEF n
  <2>3. 7 \notin Bits(n)
    BY <2>1, <2>2 DEF Bits
  <2> QED
    BY <2>3 DEF n
<1>4. Bits(digits1[byte \div 10 + 1]) \subseteq 0 .. 6
  BY <1>3 DEF Bits
<1> QED
  BY <1>4 DEF Tens, Units, Bits

(* A byte of 0 has no bit set.                                             *)
LEMMA NoBits == Bits(0) = {}
<1>1. \A b \in 0 .. 7 : Weight[b + 1] \in Nat \ {0}
  BY DEF Weight
<1>2. \A w \in Nat \ {0} : 0 \div w = 0
  OBVIOUS
<1> QED
  BY <1>1, <1>2 DEF Bits

(* Both displays dark after up_display and up_led satisfy the invariant.   *)
LEMMA InitInv == Init => PortInv /\ LedInv
<1> SUFFICES ASSUME Init PROVE PortInv /\ LedInv
  OBVIOUS
<1>1. TypeOK
  BY DEF Init, TypeOK
<1>2. Tens(0) \subseteq 6 .. 12 /\ Units(0) \subseteq 0 .. 7
  BY SegmentsInMask
<1>3. /\ gpioc \ (6 .. 12) = OtherC /\ gpioc \cap (6 .. 12) = Tens(0)
      /\ gpiod \ (0 .. 7) = OtherD /\ gpiod \cap (0 .. 7) = Units(0)
  BY <1>2, DriverAssumption DEF Init
<1>4. "main" \in Tasks /\ "display" \in Devices /\ "leds" \in Devices
  BY DEF Tasks, Devices
<1>5. final["display"] = 0 /\ TensOf("main") = 0
  BY <1>4 DEF Init, TensOf
<1>6. \A t \in Tasks : HoldsC(t) /\ HoldsD(t)
  BY DEF Init, HoldsC, HoldsD
<1>7. PortInv
  BY <1>1, <1>3, <1>4, <1>5, <1>6 DEF PortInv, OthersKept
<1>8. \A n \in 1 .. 4 : LedByte("main", n) = 0
  BY <1>4 DEF Init, LedByte, LedSteps
<1>9. LedInv
  BY <1>4, <1>8, NoBits DEF Init, LedInv
<1> QED
  BY <1>7, <1>9

-----------------------------------------------------------------------------
(* A step that leaves the ports, their last bytes and what the tasks hold  *)
(* for them alone keeps the claims about them.                             *)
LEMMA PortsApart ==
  ASSUME PortInv, TypeOK', UNCHANGED <<gpioc, gpiod>>,
         UNCHANGED final["display"], UNCHANGED last["display"],
         \A t \in Tasks :
           \/ UNCHANGED <<at[t], arg[t], val[t]>>
           \/ /\ {at[t], at'[t]} \cap {"putC", "getD", "putD"} = {}
  PROVE  PortInv'
<1>1. \A t \in Tasks : (HoldsC(t) /\ HoldsD(t))'
  BY Zenon DEF PortInv, HoldsC, HoldsD
<1>2. \A t \in Tasks : TensOf(t)' = TensOf(t)
  BY Zenon DEF TensOf
<1> QED
  BY <1>1, <1>2 DEF PortInv, OthersKept

(* Every step keeps the types.                                             *)
LEMMA TypeKept == TypeOK /\ [Next]_vars => TypeOK'
<1> SUFFICES ASSUME TypeOK, [Next]_vars PROVE TypeOK'
  OBVIOUS
<1>0. Tasks = {"main", "server"} /\ Devices = {"display", "leds"}
  BY DEF Tasks, Devices
<1>1. CASE UNCHANGED vars
  BY <1>1 DEF TypeOK, vars, history
<1>2. ASSUME NEW t \in Tasks, DisplayWrite(t)
      PROVE  TypeOK'
  <2>1. PICK byte \in Shows : byte < 100 /\ arg' = [arg EXCEPT ![t] = byte]
    BY <1>2, Zenon DEF DisplayWrite, Accepts
  <2>2. byte \in 0 .. 255
    BY DriverAssumption
  <2>3. arg' \in [Tasks -> 0 .. 255]
    BY <2>1, <2>2 DEF TypeOK
  <2>4. /\ at' = [at EXCEPT ![t] = "printf"]
        /\ UNCHANGED <<val, final, last>>
    BY <1>2 DEF DisplayWrite, history
  <2> QED
    BY <2>1, <2>2, <2>3, <2>4 DEF TypeOK
<1>7. ASSUME NEW t \in Tasks, LedsWrite(t)
      PROVE  TypeOK'
  <2>1. PICK byte \in Lights : arg' = [arg EXCEPT ![t] = byte]
    BY <1>7, Zenon DEF LedsWrite
  <2>2. byte \in 0 .. 255
    BY DriverAssumption
  <2>3. arg' \in [Tasks -> 0 .. 255]
    BY <2>1, <2>2 DEF TypeOK
  <2>4. /\ at' = [at EXCEPT ![t] = "food"]
        /\ UNCHANGED <<val, final, last>>
    BY <1>7 DEF LedsWrite, history
  <2> QED
    BY <2>1, <2>2, <2>3, <2>4 DEF TypeOK
<1>6. ASSUME NEW t \in Tasks, Printed(t) \/ PutC(t)
      PROVE  TypeOK'
  BY <1>6 DEF TypeOK, Printed, PutC, history
<1>3. ASSUME NEW t \in Tasks, GetC(t) \/ GetD(t)
      PROVE  TypeOK'
  <2>1. DOMAIN val' = Tasks /\ UNCHANGED <<arg, final, last>>
    BY <1>3 DEF TypeOK, GetC, GetD, history
  <2>2. PICK s \in {"putC", "putD"} : at' = [at EXCEPT ![t] = s]
    BY <1>3 DEF GetC, GetD
  <2>3. at[t] \in {"getC", "getD"}
    BY <1>3 DEF GetC, GetD
  <2> QED
    BY <2>1, <2>2, <2>3 DEF TypeOK
<1>4. ASSUME NEW t \in Tasks, NEW d \in Devices, Ends(t, d)
      PROVE  TypeOK'
  <2>1. DOMAIN val' = Tasks
    BY <1>4 DEF TypeOK, Ends
  <2>2. final' \in [Devices -> 0 .. 255]
    BY <1>4, Zenon DEF TypeOK, Ends
  <2>3. last' \in [Devices -> [Tasks -> 0 .. 255]]
    BY <1>4 DEF TypeOK, Ends
  <2>4. at' = [at EXCEPT ![t] = "idle"] /\ arg' = [arg EXCEPT ![t] = 0]
    BY <1>4, Zenon DEF Ends
  <2>5. at' \in [Tasks -> {"idle", "printf", "getC", "putC", "getD", "putD",
                          "food", "water", "period", "time"}]
    BY <2>4, Zenon DEF TypeOK
  <2>6. arg' \in [Tasks -> 0 .. 255]
    BY <2>4 DEF TypeOK
  <2>7. \A u \in Tasks : \/ at'[u] = at[u] /\ arg'[u] = arg[u]
                        \/ at'[u] = "idle"
    BY <2>4, Zenon DEF TypeOK
  <2>8. \A u \in Tasks : at'[u] \in {"printf", "getC", "putC", "getD", "putD"} => arg'[u] < 100
    BY <2>7 DEF TypeOK
  <2> QED
    BY <2>1, <2>2, <2>3, <2>5, <2>6, <2>8, Zenon DEF TypeOK
<1>5. ASSUME NEW t \in Tasks, FirstLed(t) \/ MiddleLed(t)
      PROVE  TypeOK'
  BY <1>5 DEF TypeOK, FirstLed, MiddleLed, LedSteps, history
<1> QED
  BY <1>0, <1>1, <1>2, <1>3, <1>4, <1>5, <1>6, <1>7 DEF Next, PutD, LastLed

(* Only a value of two digits gets past the test of display_write.         *)
LEMMA DigitsPassed ==
  ASSUME TypeOK, NEW t \in Tasks, at[t] \in {"printf", "getC", "putC", "getD", "putD"}
  PROVE  arg[t] \in 0 .. 99
<1>1. arg[t] \in 0 .. 255
  BY Zenon DEF TypeOK
<1>2. arg[t] < 100
  BY Zenon DEF TypeOK
<1> QED
  BY <1>1, <1>2

(* Each access to the ports keeps the claims about them.                   *)
LEMMA PortStep ==
  ASSUME PortInv, [Next]_vars
  PROVE  PortInv'
<1>0. /\ TypeOK /\ TypeOK'
      /\ Tasks = {"main", "server"} /\ Devices = {"display", "leds"}
  BY TypeKept DEF PortInv, Tasks, Devices
<1>1. CASE UNCHANGED vars
  BY <1>0, <1>1, PortsApart DEF vars, history
<1>2. ASSUME NEW t \in Tasks, DisplayWrite(t) \/ Printed(t) \/ LedsWrite(t)
      PROVE  PortInv'
  <2>1. {at[t], at'[t]} \cap {"putC", "getD", "putD"} = {}
    BY <1>0, <1>2 DEF TypeOK, DisplayWrite, Printed, LedsWrite
  <2>2. \A u \in Tasks \ {t} : UNCHANGED <<at[u], arg[u], val[u]>>
    BY <1>0, <1>2 DEF TypeOK, DisplayWrite, Printed, LedsWrite
  <2> QED
    BY <1>0, <1>2, <2>1, <2>2, PortsApart
    DEF DisplayWrite, Printed, LedsWrite, history
<1>3. ASSUME NEW t \in Tasks, FirstLed(t) \/ MiddleLed(t)
      PROVE  PortInv'
  <2>1. {at[t], at'[t]} \cap {"putC", "getD", "putD"} = {}
    BY <1>0, <1>3 DEF TypeOK, FirstLed, MiddleLed, LedSteps
  <2>2. \A u \in Tasks \ {t} : UNCHANGED <<at[u], arg[u], val[u]>>
    BY <1>0, <1>3 DEF TypeOK, FirstLed, MiddleLed
  <2> QED
    BY <1>0, <1>3, <2>1, <2>2, PortsApart DEF FirstLed, MiddleLed, history
<1>4. ASSUME NEW t \in Tasks, LastLed(t)
      PROVE  PortInv'
  <2>1. {at[t], at'[t]} \cap {"putC", "getD", "putD"} = {}
    BY <1>0, <1>4, Zenon DEF TypeOK, LastLed, LedSteps, Ends
  <2>2. \A u \in Tasks \ {t} : UNCHANGED <<at[u], arg[u], val[u]>>
    BY <1>0, <1>4, Zenon DEF TypeOK, LastLed, Ends
  <2>3. UNCHANGED final["display"] /\ UNCHANGED last["display"]
    BY <1>0, <1>4, Zenon DEF TypeOK, LastLed, Ends
  <2> QED
    BY <1>0, <1>4, <2>1, <2>2, <2>3, PortsApart DEF LastLed
<1>5. ASSUME NEW t \in Tasks, GetC(t)
      PROVE  PortInv'
  <2>1. Tens(arg[t]) \subseteq 6 .. 12
    <3>1. at[t] = "getC"
      BY <1>5 DEF GetC
    <3>2. arg[t] \in 0 .. 99
      BY <1>0, <3>1, DigitsPassed
    <3> QED
      BY <3>2, SegmentsInMask
  <2>2. HoldsC(t)' /\ HoldsD(t)'
    <3>1. at'[t] = "putC"
      BY <1>0, <1>5, Zenon DEF TypeOK, GetC
    <3>2. val'[t] = (gpioc \ (6 .. 12)) \cup Tens(arg[t]) /\ arg' = arg
      BY <1>0, <1>5, Zenon DEF TypeOK, GetC, TensMask
    <3>3. gpioc \ (6 .. 12) = OtherC
      BY DEF PortInv, OthersKept
    <3>4. val'[t] \ (6 .. 12) = OtherC /\ val'[t] \cap (6 .. 12) = Tens(arg[t])
      BY <2>1, <3>2, <3>3
    <3> QED
      BY <3>1, <3>2, <3>4 DEF HoldsC, HoldsD
  <2>3. \A u \in Tasks \ {t} : HoldsC(u)' /\ HoldsD(u)'
    BY <1>0, <1>5, Zenon DEF PortInv, TypeOK, GetC, HoldsC, HoldsD
  <2>4. \A u \in Tasks : TensOf(u)' = TensOf(u)
    BY <1>0, <1>5, Zenon DEF TypeOK, GetC, TensOf
  <2> QED
    BY <1>0, <1>5, <2>2, <2>3, <2>4 DEF PortInv, OthersKept, GetC
<1>6. ASSUME NEW t \in Tasks, PutC(t)
      PROVE  PortInv'
  <2>1. \A u \in Tasks : HoldsC(u)' /\ HoldsD(u)'
    BY <1>0, <1>6, Zenon DEF PortInv, TypeOK, PutC, HoldsC, HoldsD
  <2>2. gpioc' \ (6 .. 12) = OtherC /\ gpioc' \cap (6 .. 12) = Tens(arg[t])
    BY <1>6 DEF PortInv, PutC, HoldsC
  <2>3. TensOf(t)' = arg[t]
    BY <1>0, <1>6 DEF TypeOK, PutC, TensOf
  <2>4. (\E u \in Tasks : gpioc \cap (6 .. 12) = Tens(TensOf(u)))'
    BY <2>2, <2>3
  <2> QED
    BY <1>0, <1>6, <2>1, <2>2, <2>4 DEF PortInv, OthersKept, PutC, history
<1>7. ASSUME NEW t \in Tasks, GetD(t)
      PROVE  PortInv'
  <2>1. Units(arg[t]) \subseteq 0 .. 7
    <3>1. at[t] = "getD"
      BY <1>7 DEF GetD
    <3>2. arg[t] \in 0 .. 99
      BY <1>0, <3>1, DigitsPassed
    <3> QED
      BY <3>2, SegmentsInMask
  <2>2. HoldsC(t)' /\ HoldsD(t)'
    <3>1. at'[t] = "putD"
      BY <1>0, <1>7, Zenon DEF TypeOK, GetD
    <3>2. val'[t] = (gpiod \ (0 .. 7)) \cup Units(arg[t]) /\ arg' = arg
      BY <1>0, <1>7, Zenon DEF TypeOK, GetD, UnitsMask
    <3>3. gpiod \ (0 .. 7) = OtherD
      BY DEF PortInv, OthersKept
    <3>4. val'[t] \ (0 .. 7) = OtherD /\ val'[t] \cap (0 .. 7) = Units(arg[t])
      BY <2>1, <3>2, <3>3
    <3> QED
      BY <3>1, <3>2, <3>4 DEF HoldsC, HoldsD
  <2>3. \A u \in Tasks \ {t} : HoldsC(u)' /\ HoldsD(u)'
    <3>1. \A u \in Tasks \ {t} : at'[u] = at[u] /\ val'[u] = val[u] /\ arg'[u] = arg[u]
      BY <1>0, <1>7, Zenon DEF TypeOK, GetD
    <3> QED
      BY <3>1, Zenon DEF PortInv, HoldsC, HoldsD
  <2>4. \A u \in Tasks : TensOf(u)' = TensOf(u)
    BY <1>0, <1>7, Zenon DEF TypeOK, GetD, TensOf, history
  <2> QED
    BY <1>0, <1>7, <2>2, <2>3, <2>4 DEF PortInv, OthersKept, GetD, history
<1>8. ASSUME NEW t \in Tasks, PutD(t)
      PROVE  PortInv'
  <2>1. \A u \in Tasks : HoldsC(u)' /\ HoldsD(u)'
    <3>1. at'[t] = "idle"
      BY <1>0, <1>8, Zenon DEF TypeOK, PutD, Ends
    <3>2. \A u \in Tasks \ {t} : at'[u] = at[u] /\ val'[u] = val[u] /\ arg'[u] = arg[u]
      BY <1>0, <1>8, Zenon DEF TypeOK, PutD, Ends
    <3>3. HoldsC(t)' /\ HoldsD(t)'
      BY <3>1 DEF HoldsC, HoldsD
    <3>4. \A u \in Tasks \ {t} : HoldsC(u)' /\ HoldsD(u)'
      BY <3>2, Zenon DEF PortInv, HoldsC, HoldsD
    <3> QED
      BY <3>3, <3>4
  <2>2. gpiod' \ (0 .. 7) = OtherD /\ gpiod' \cap (0 .. 7) = Units(arg[t])
    BY <1>8 DEF PortInv, PutD, HoldsD
  <2>3. final'["display"] = arg[t] /\ last'["display"][t] = arg[t]
    BY <1>0, <1>8, Zenon DEF TypeOK, PutD, Ends
  <2>4. TensOf(t)' = TensOf(t)
    BY <1>0, <1>8, <2>3, Zenon DEF TypeOK, PutD, Ends, TensOf
  <2>5. \A u \in Tasks \ {t} : TensOf(u)' = TensOf(u)
    BY <1>0, <1>8, Zenon DEF TypeOK, PutD, Ends, TensOf
  <2> QED
    BY <1>0, <1>8, <2>1, <2>2, <2>3, <2>4, <2>5 DEF PortInv, OthersKept, PutD
<1> QED
  BY <1>1, <1>2, <1>3, <1>4, <1>5, <1>6, <1>7, <1>8 DEF Next

-----------------------------------------------------------------------------
(* Setting the n-th LED disturbs no other.                                 *)
LEMMA LedSet ==
  ASSUME LedInv, NEW t \in Tasks, NEW n \in 1 .. 4, Light(t, n),
         LedByte(t, n)' = arg[t],
         \A u \in Tasks : \A k \in (1 .. 4) \ {n} :
           LedByte(u, k)' = LedByte(u, k)
  PROVE  LedInv'
<1>1. \A k \in (1 .. 4) \ {n} : LedSteps[k] # LedSteps[n]
  BY DEF LedSteps
<1>2. lit' \subseteq {LedSteps[k] : k \in 1 .. 4}
  BY DEF LedInv, Light
<1>3. LedSteps[n] \in lit' <=> BitOf(n) \in Bits(arg[t])
  BY DEF Light
<1>4. \A k \in (1 .. 4) \ {n} : LedSteps[k] \in lit' <=> LedSteps[k] \in lit
  BY <1>1 DEF Light
<1>5. ASSUME NEW k \in (1 .. 4) \ {n}
      PROVE  \E u \in Tasks :
               LedSteps[k] \in lit' <=> BitOf(k) \in Bits(LedByte(u, k)')
  <2>1. PICK u \in Tasks :
          LedSteps[k] \in lit <=> BitOf(k) \in Bits(LedByte(u, k))
    BY DEF LedInv
  <2>2. LedByte(u, k)' = LedByte(u, k)
    OBVIOUS
  <2> QED
    BY <1>4, <2>1, <2>2
<1>6. \E u \in Tasks :
        LedSteps[n] \in lit' <=> BitOf(n) \in Bits(LedByte(u, n)')
  BY <1>3
<1>7. ASSUME NEW k \in 1 .. 4
      PROVE  \E u \in Tasks :
               LedSteps[k] \in lit' <=> BitOf(k) \in Bits(LedByte(u, k)')
  BY <1>5, <1>6
<1> QED
  BY <1>2, <1>7 DEF LedInv, BitOf

(* A step that sets no LED changes no claim about them.                    *)
LEMMA LedsApart ==
  ASSUME LedInv, UNCHANGED lit,
         \A u \in Tasks : \A k \in 1 .. 4 : LedByte(u, k)' = LedByte(u, k)
  PROVE  LedInv'
<1>1. ASSUME NEW k \in 1 .. 4
      PROVE  \E u \in Tasks :
               LedSteps[k] \in lit' <=> BitOf(k) \in Bits(LedByte(u, k)')
  <2>1. PICK u \in Tasks :
          LedSteps[k] \in lit <=> BitOf(k) \in Bits(LedByte(u, k))
    BY DEF LedInv
  <2>2. LedByte(u, k)' = LedByte(u, k)
    OBVIOUS
  <2> QED
    BY <2>1, <2>2
<1> QED
  BY <1>1 DEF LedInv, BitOf

(* Each access to the LEDs keeps the claims about them.                    *)
LEMMA LedStep ==
  ASSUME TypeOK, LedInv, [Next]_vars
  PROVE  LedInv'
<1>0. Tasks = {"main", "server"} /\ Devices = {"display", "leds"}
  BY DEF Tasks, Devices
<1>1. CASE UNCHANGED vars
  BY <1>1, LedsApart DEF LedByte, vars, history
<1>2. ASSUME NEW t \in Tasks,
             \/ DisplayWrite(t) \/ Printed(t) \/ LedsWrite(t)
             \/ GetC(t) \/ PutC(t) \/ GetD(t) \/ PutD(t)
      PROVE  LedInv'
  <2>1. {at[t], at'[t]} \cap {"water", "period", "time"} = {}
    BY <1>2 DEF TypeOK, DisplayWrite, Printed, LedsWrite, GetC, PutC, GetD,
       PutD, Ends
  <2>2. \A u \in Tasks \ {t} : UNCHANGED <<at[u], arg[u]>>
    BY <1>2 DEF TypeOK, DisplayWrite, Printed, LedsWrite, GetC, PutC, GetD,
       PutD, Ends
  <2>3. UNCHANGED <<lit, last["leds"]>>
    BY <1>0, <1>2 DEF TypeOK, DisplayWrite, Printed, LedsWrite, GetC, PutC,
       GetD, PutD, Ends, history
  <2>4. \A k \in 1 .. 4 :
          {LedSteps[j] : j \in k + 1 .. 4} \subseteq {"water", "period", "time"}
    BY DEF LedSteps
  <2>5. \A u \in Tasks : \A k \in 1 .. 4 : LedByte(u, k)' = LedByte(u, k)
    BY <2>1, <2>2, <2>3, <2>4, Zenon DEF LedByte
  <2> QED
    BY <2>3, <2>5, LedsApart
<1>3. ASSUME NEW t \in Tasks, NEW n \in 1 .. 3, at[t] = LedSteps[n],
             Light(t, n), at' = [at EXCEPT ![t] = LedSteps[n + 1]],
             UNCHANGED <<arg, last>>
      PROVE  LedInv'
  <2>1. LedByte(t, n)' = arg[t]
    BY <1>3 DEF TypeOK, LedByte, LedSteps
  <2>2. ASSUME NEW k \in (1 .. 4) \ {n}
        PROVE  LedByte(t, k)' = LedByte(t, k)
    <3>1. \A m, j \in 1 .. 4 : LedSteps[m] = LedSteps[j] <=> m = j
      BY DEF LedSteps
    <3>2. \A m \in 1 .. 4 : LedSteps[m] \in {LedSteps[j] : j \in k + 1 .. 4} <=> m > k
      BY <3>1
    <3>3. n > k <=> n + 1 > k
      OBVIOUS
    <3> QED
      BY <1>3, <3>2, <3>3 DEF TypeOK, LedByte
  <2>3. \A u \in Tasks \ {t} : \A k \in 1 .. 4 : LedByte(u, k)' = LedByte(u, k)
    BY <1>3 DEF TypeOK, LedByte
  <2> QED
    BY <1>3, <2>1, <2>2, <2>3, LedSet
<1>4. ASSUME NEW t \in Tasks, LastLed(t)
      PROVE  LedInv'
  <2>1. last'["leds"][t] = arg[t] /\ at'[t] = "idle"
    BY <1>0, <1>4 DEF TypeOK, LastLed, Ends
  <2>2. \A k \in 1 .. 4 : LedByte(t, k)' = arg[t]
    BY <1>4, <2>1 DEF LedByte, LedSteps
  <2>3. \A k \in 1 .. 3 : LedByte(t, k) = arg[t]
    BY <1>4 DEF LastLed, LedByte, LedSteps
  <2>4. \A u \in Tasks \ {t} : \A k \in 1 .. 4 : LedByte(u, k)' = LedByte(u, k)
    BY <1>0, <1>4 DEF TypeOK, LastLed, Ends, LedByte
  <2> QED
    BY <1>4, <2>2, <2>3, <2>4, LedSet DEF LastLed
<1> QED
  BY <1>1, <1>2, <1>3, <1>4 DEF Next, FirstLed, MiddleLed, history

-----------------------------------------------------------------------------
(* Whatever two tasks write, in any interleaving, ports and LEDs are made  *)
(* of bytes the tasks wrote.                                               *)
THEOREM Invariance == Spec => [](PortInv /\ LedInv)
<1>1. PortInv /\ LedInv /\ [Next]_vars => (PortInv /\ LedInv)'
  BY PortStep, LedStep DEF PortInv
<1> QED
  BY <1>1, InitInv, PTL DEF Spec

(* A read-modify-write of a port never changes a foreign pin               *)
(* (OthersKept).                                                           *)
THEOREM PinsSafe == Spec => []OthersKept
<1>1. PortInv => OthersKept
  BY DEF PortInv
<1> QED
  BY <1>1, Invariance, PTL

(* Overlapping writes of the display mix the digits of at most two bytes   *)
(* (TornDigits).                                                           *)
THEOREM DigitsSafe == Spec => []TornDigits
<1>1. PortInv => TornDigits
  <2> SUFFICES ASSUME PortInv, Settled("display") PROVE TornDigits
    BY DEF TornDigits
  <2>1. \A t \in Tasks : TensOf(t) = last["display"][t]
    BY DEF Settled, Inside, TensOf
  <2> QED
    BY <2>1 DEF PortInv, TornDigits
<1> QED
  BY <1>1, Invariance, PTL

(* Overlapping writes of the LEDs mix at most two bytes (MixedLeds).       *)
THEOREM LedsSafe == Spec => []MixedLeds
<1>1. LedInv => MixedLeds
  <2> SUFFICES ASSUME LedInv, Settled("leds") PROVE MixedLeds
    BY DEF MixedLeds
  <2>1. \A t \in Tasks : \A n \in 1 .. 4 : LedByte(t, n) = last["leds"][t]
    BY DEF Settled, Inside, LedByte, LedSteps
  <2>2. ASSUME NEW n \in 1 .. 4, NEW byte
        PROVE  LedSteps[n] \in LitBy(byte) <=> BitOf(n) \in Bits(byte)
    BY DEF LitBy, BitOf, Bits, LedSteps
  <2>3. \A byte : LitBy(byte) \subseteq {LedSteps[n] : n \in 1 .. 4}
    BY DEF LitBy
  <2> QED
    BY <2>1, <2>2, <2>3 DEF LedInv, MixedLeds, Tasks
<1> QED
  BY <1>1, Invariance, PTL

-----------------------------------------------------------------------------
(* A write that no other overlaps. *)

(* At most one task is inside the device.                                  *)
OneInside(d) == \A t, u \in Tasks : Inside(t, d) /\ Inside(u, d) => t = u

(* Since the last write began alone, the tens on the display are those of  *)
(* the byte being written, once they are out, and of the byte written last *)
(* when no write is under way.                                             *)
DisplayAlone ==
  alone["display"] =>
    /\ OneInside("display")
    /\ Settled("display") => gpioc \cap (6 .. 12) = Tens(final["display"])
    /\ \A t \in Tasks :
         at[t] \in {"getD", "putD"} => gpioc \cap (6 .. 12) = Tens(arg[t])

(* The n-th LED is as the byte asks.                                       *)
LedAs(n, byte) == LedSteps[n] \in lit <=> BitOf(n) \in Bits(byte)

(* Likewise the LEDs a write has passed are those of its byte.             *)
LedsAlone ==
  alone["leds"] =>
    /\ OneInside("leds")
    /\ Settled("leds") => \A n \in 1 .. 4 : LedAs(n, final["leds"])
    /\ \A t \in Tasks : \A m \in 2 .. 4 :
         at[t] = LedSteps[m] => \A n \in 1 .. m - 1 : LedAs(n, arg[t])

AloneInv == alone \in [Devices -> BOOLEAN] /\ DisplayAlone /\ LedsAlone

(* There are two tasks.                                                    *)
LEMMA TwoTasks ==
  ASSUME NEW t \in Tasks
  PROVE  Other(t) \in Tasks /\ Other(t) # t /\ \A u \in Tasks : u = t \/ u = Other(t)
<1>1. \E u \in Tasks : u # t
  BY DEF Tasks
<1>2. Other(t) \in Tasks /\ Other(t) # t
  BY <1>1 DEF Other
<1> QED
  BY <1>2 DEF Tasks

(* What begins a write says whether it is alone.                           *)
LEMMA BeginsAlone ==
  ASSUME alone \in [Devices -> BOOLEAN], NEW t \in Tasks, NEW d \in Devices,
         Begins(t, d)
  PROVE  /\ alone' \in [Devices -> BOOLEAN]
         /\ alone'[d] => ~Inside(Other(t), d)
         /\ \A e \in Devices \ {d} : alone'[e] = alone[e]
<1> DEFINE now == ~Inside(Other(t), d)
<1>1. now \in BOOLEAN
  BY Zenon
<1>2. alone' = [alone EXCEPT ![d] = now]
  BY DEF Begins
<1>3. now => ~Inside(Other(t), d)
  OBVIOUS
<1> HIDE DEF now
<1> QED
  BY <1>1, <1>2, <1>3

(* A step that does not concern the display.                               *)
LEMMA DisplayApart ==
  ASSUME DisplayAlone, alone'["display"] = alone["display"],
         UNCHANGED <<gpioc, final["display"]>>,
         \A t \in Tasks :
           \/ UNCHANGED <<at[t], arg[t]>>
           \/ {at[t], at'[t]} \cap {"putC", "getD", "putD"} = {}
  PROVE  DisplayAlone'
<1>1. \A t \in Tasks : Inside(t, "display")' <=> Inside(t, "display")
  BY Zenon DEF Inside
<1>2. OneInside("display")' <=> OneInside("display")
  BY <1>1 DEF OneInside
<1>3. Settled("display")' <=> Settled("display")
  BY <1>1 DEF Settled
<1>4. \A t \in Tasks : at'[t] \in {"getD", "putD"} =>
                          at[t] \in {"getD", "putD"} /\ arg'[t] = arg[t]
  BY Zenon
<1> QED
  BY <1>2, <1>3, <1>4 DEF DisplayAlone

(* Each step keeps the claim about a display written alone.                *)
LEMMA DisplayStep ==
  ASSUME PortInv, AloneInv, [Next]_vars
  PROVE  alone' \in [Devices -> BOOLEAN] /\ DisplayAlone'
<1>0. /\ TypeOK /\ alone \in [Devices -> BOOLEAN] /\ DisplayAlone
      /\ "display" \in Devices /\ "leds" \in Devices /\ "display" # "leds"
  BY DEF PortInv, AloneInv, Devices
<1>1. CASE UNCHANGED vars
  BY <1>0, <1>1, DisplayApart DEF vars, history
<1>2. ASSUME NEW t \in Tasks, DisplayWrite(t) \/ Printed(t) \/ LedsWrite(t) \/ MiddleLed(t)
      PROVE  alone' \in [Devices -> BOOLEAN] /\ DisplayAlone'
  <2>1. {at[t], at'[t]} \cap {"putC", "getD", "putD"} = {}
    BY <1>0, <1>2 DEF TypeOK, DisplayWrite, Printed, LedsWrite, MiddleLed, LedSteps
  <2>2. \A u \in Tasks \ {t} : UNCHANGED <<at[u], arg[u]>>
    BY <1>0, <1>2 DEF TypeOK, DisplayWrite, Printed, LedsWrite, MiddleLed
  <2>3. alone' = alone /\ UNCHANGED <<gpioc, final>>
    BY <1>2 DEF DisplayWrite, Printed, LedsWrite, MiddleLed, history
  <2> QED
    BY <1>0, <2>1, <2>2, <2>3, DisplayApart
<1>3. ASSUME NEW t \in Tasks, FirstLed(t)
      PROVE  alone' \in [Devices -> BOOLEAN] /\ DisplayAlone'
  <2>1. {at[t], at'[t]} \cap {"putC", "getD", "putD"} = {}
    BY <1>0, <1>3 DEF TypeOK, FirstLed, LedSteps
  <2>2. \A u \in Tasks \ {t} : UNCHANGED <<at[u], arg[u]>>
    BY <1>0, <1>3 DEF TypeOK, FirstLed
  <2>3. Begins(t, "leds") /\ UNCHANGED <<gpioc, final>>
    BY <1>3 DEF FirstLed
  <2>4. alone' \in [Devices -> BOOLEAN] /\ alone'["display"] = alone["display"]
    BY <1>0, <2>3, BeginsAlone
  <2> QED
    BY <2>1, <2>2, <2>3, <2>4, <1>0, DisplayApart
<1>4. ASSUME NEW t \in Tasks, LastLed(t)
      PROVE  alone' \in [Devices -> BOOLEAN] /\ DisplayAlone'
  <2>1. {at[t], at'[t]} \cap {"putC", "getD", "putD"} = {}
    BY <1>0, <1>4 DEF TypeOK, LastLed, LedSteps, Ends
  <2>2. \A u \in Tasks \ {t} : UNCHANGED <<at[u], arg[u]>>
    BY <1>0, <1>4 DEF TypeOK, LastLed, Ends
  <2>3. alone' = alone /\ UNCHANGED <<gpioc, final["display"]>>
    BY <1>0, <1>4 DEF TypeOK, LastLed, Ends
  <2> QED
    BY <1>0, <2>1, <2>2, <2>3, DisplayApart
<1>5. ASSUME NEW t \in Tasks, GetC(t)
      PROVE  alone' \in [Devices -> BOOLEAN] /\ DisplayAlone'
  <2>1. /\ at'[t] = "putC" /\ \A u \in Tasks \ {t} : at'[u] = at[u]
        /\ Begins(t, "display")
    BY <1>0, <1>5 DEF TypeOK, GetC
  <2>2. alone' \in [Devices -> BOOLEAN] /\ (alone'["display"] => ~Inside(Other(t), "display"))
    BY <1>0, <2>1, BeginsAlone
  <2>3. ASSUME alone'["display"]
        PROVE  \A u \in Tasks \ {t} : at'[u] \notin {"putC", "getD", "putD"}
    BY <2>1, <2>2, <2>3, TwoTasks DEF Inside
  <2>4. Inside(t, "display")'
    BY <2>1 DEF Inside
  <2>5. alone'["display"] => OneInside("display")' /\ ~Settled("display")'
    BY <2>3, <2>4 DEF OneInside, Settled, Inside
  <2>6. alone'["display"] => \A u \in Tasks : at'[u] \notin {"getD", "putD"}
    BY <2>1, <2>3
  <2> QED
    BY <2>2, <2>5, <2>6 DEF DisplayAlone
<1>6. ASSUME NEW t \in Tasks, PutC(t) \/ GetD(t)
      PROVE  alone' \in [Devices -> BOOLEAN] /\ DisplayAlone'
  <2>1. /\ at[t] \in {"putC", "getD"} /\ at'[t] \in {"getD", "putD"}
        /\ \A u \in Tasks \ {t} : at'[u] = at[u]
        /\ alone' = alone /\ arg' = arg
    BY <1>0, <1>6 DEF TypeOK, PutC, GetD, history
  <2>2. \A u \in Tasks : Inside(u, "display")' <=> Inside(u, "display")
    BY <2>1 DEF Inside
  <2>3. Inside(t, "display") /\ ~Settled("display")'
    BY <2>1, <2>2 DEF Inside, Settled
  <2>4. alone["display"] => OneInside("display") /\ OneInside("display")'
    BY <1>0, <2>2 DEF DisplayAlone, OneInside
  <2>5. alone["display"] => gpioc' \cap (6 .. 12) = Tens(arg[t])
    <3>1. CASE PutC(t)
      BY <3>1 DEF PutC, PortInv, HoldsC
    <3>2. CASE GetD(t)
      BY <1>0, <3>2 DEF GetD, DisplayAlone
    <3> QED
      BY <1>6, <3>1, <3>2
  <2>6. alone["display"] => \A u \in Tasks : at'[u] \in {"getD", "putD"} => u = t
    BY <2>1, <2>3, <2>4 DEF OneInside, Inside
  <2> QED
    BY <1>0, <2>1, <2>3, <2>4, <2>5, <2>6 DEF DisplayAlone
<1>7. ASSUME NEW t \in Tasks, PutD(t)
      PROVE  alone' \in [Devices -> BOOLEAN] /\ DisplayAlone'
  <2>1. /\ at[t] = "putD" /\ at'[t] = "idle"
        /\ \A u \in Tasks \ {t} : at'[u] = at[u]
        /\ alone' = alone /\ gpioc' = gpioc /\ final'["display"] = arg[t]
    BY <1>0, <1>7 DEF TypeOK, PutD, Ends
  <2>2. alone["display"] => \A u \in Tasks : ~Inside(u, "display")'
    BY <1>0, <2>1 DEF DisplayAlone, OneInside, Inside
  <2>3. alone["display"] => \A u \in Tasks : at'[u] \notin {"getD", "putD"}
    BY <2>2 DEF Inside
  <2>4. alone["display"] => gpioc' \cap (6 .. 12) = Tens(final'["display"])
    BY <1>0, <2>1 DEF DisplayAlone
  <2>5. alone["display"] => OneInside("display")'
    BY <2>2 DEF OneInside
  <2> QED
    BY <1>0, <2>1, <2>3, <2>4, <2>5 DEF DisplayAlone
<1> QED
  BY <1>1, <1>2, <1>3, <1>4, <1>5, <1>6, <1>7 DEF Next

(* A step that does not concern the LEDs.                                  *)
LEMMA LedsUntouched ==
  ASSUME LedsAlone, alone'["leds"] = alone["leds"],
         UNCHANGED <<lit, final["leds"]>>,
         \A t \in Tasks :
           \/ UNCHANGED <<at[t], arg[t]>>
           \/ {at[t], at'[t]} \cap {"water", "period", "time"} = {}
  PROVE  LedsAlone'
<1>1. \A t \in Tasks : Inside(t, "leds")' <=> Inside(t, "leds")
  BY Zenon DEF Inside
<1>2. OneInside("leds")' <=> OneInside("leds")
  BY <1>1 DEF OneInside
<1>3. Settled("leds")' <=> Settled("leds")
  BY <1>1 DEF Settled
<1>4. ASSUME NEW t \in Tasks, NEW m \in 2 .. 4, at'[t] = LedSteps[m]
      PROVE  at[t] = LedSteps[m] /\ arg'[t] = arg[t]
  <2>1. LedSteps[m] \in {"water", "period", "time"}
    BY DEF LedSteps
  <2> QED
    BY <1>4, <2>1, Zenon
<1>5. \A n, b : LedAs(n, b)' <=> LedAs(n, b)
  BY DEF LedAs, BitOf
<1> QED
  BY <1>2, <1>3, <1>4, <1>5 DEF LedsAlone, LedAs, BitOf

(* Writing an LED sets it as the byte asks and leaves the others.          *)
LEMMA LightSets ==
  ASSUME NEW t \in Tasks, NEW n \in 1 .. 4, Light(t, n)
  PROVE  /\ LedSteps[n] \in lit' <=> BitOf(n) \in Bits(arg[t])
         /\ \A k \in (1 .. 4) \ {n} : LedSteps[k] \in lit' <=> LedSteps[k] \in lit
<1>1. \A k \in (1 .. 4) \ {n} : LedSteps[k] # LedSteps[n]
  BY DEF LedSteps
<1> QED
  BY <1>1 DEF Light

(* A write alone has passed one LED more.                                  *)
LEMMA OnePassed ==
  ASSUME TypeOK, LedsAlone, alone["leds"],
         NEW t \in Tasks, NEW n \in 1 .. 4, at[t] = LedSteps[n], Light(t, n)
  PROVE  \A k \in 1 .. n : LedSteps[k] \in lit' <=> BitOf(k) \in Bits(arg[t])
<1>1. \A k \in 1 .. n - 1 : LedSteps[k] \in lit <=> BitOf(k) \in Bits(arg[t])
  <2>1. CASE n = 1
    BY <2>1
  <2>2. CASE n \in 2 .. 4
    BY <2>2 DEF LedsAlone, LedAs
  <2> QED
    BY <2>1, <2>2
<1>2. \A k \in 1 .. n - 1 : k \in (1 .. 4) \ {n}
  OBVIOUS
<1>3. \A k \in 1 .. n : k = n \/ k \in 1 .. n - 1
  OBVIOUS
<1>4. /\ LedSteps[n] \in lit' <=> BitOf(n) \in Bits(arg[t])
      /\ \A k \in (1 .. 4) \ {n} : LedSteps[k] \in lit' <=> LedSteps[k] \in lit
  BY LightSets
<1> QED
  BY <1>1, <1>2, <1>3, <1>4

(* Each step keeps the claim about LEDs written alone.                     *)
LEMMA LedsStep ==
  ASSUME TypeOK, AloneInv, [Next]_vars
  PROVE  LedsAlone'
<1>0. /\ alone \in [Devices -> BOOLEAN] /\ LedsAlone
      /\ "display" \in Devices /\ "leds" \in Devices /\ "display" # "leds"
  BY DEF AloneInv, Devices
<1>1. CASE UNCHANGED vars
  BY <1>0, <1>1, LedsUntouched DEF vars, history
<1>2. ASSUME NEW t \in Tasks,
             \/ DisplayWrite(t) \/ Printed(t) \/ LedsWrite(t)
             \/ GetC(t) \/ PutC(t) \/ GetD(t) \/ PutD(t)
      PROVE  LedsAlone'
  <2>1. {at[t], at'[t]} \cap {"water", "period", "time"} = {}
    BY <1>2 DEF TypeOK, DisplayWrite, Printed, LedsWrite, GetC, PutC, GetD,
       PutD, Ends
  <2>2. \A u \in Tasks \ {t} : UNCHANGED <<at[u], arg[u]>>
    BY <1>2 DEF TypeOK, DisplayWrite, Printed, LedsWrite, GetC, PutC, GetD,
       PutD, Ends
  <2>3. UNCHANGED <<lit, final["leds"]>>
    BY <1>0, <1>2 DEF TypeOK, DisplayWrite, Printed, LedsWrite, GetC, PutC,
       GetD, PutD, Ends, history
  <2>4. alone'["leds"] = alone["leds"]
    <3>1. CASE GetC(t)
      BY <1>0, <3>1, BeginsAlone DEF GetC
    <3>2. CASE ~GetC(t)
      BY <1>2, <3>2 DEF DisplayWrite, Printed, LedsWrite, PutC, GetD, PutD, history
    <3> QED
      BY <3>1, <3>2
  <2> QED
    BY <1>0, <2>1, <2>2, <2>3, <2>4, LedsUntouched
<1>3. ASSUME NEW t \in Tasks, FirstLed(t)
      PROVE  LedsAlone'
  <2>1. /\ at[t] = LedSteps[1] /\ Light(t, 1) /\ at'[t] = LedSteps[2]
        /\ \A u \in Tasks \ {t} : at'[u] = at[u]
        /\ Begins(t, "leds") /\ arg' = arg
    BY <1>3 DEF TypeOK, FirstLed
  <2>2. alone'["leds"] => ~Inside(Other(t), "leds")
    BY <1>0, <2>1, BeginsAlone
  <2>3. alone'["leds"] => \A u \in Tasks \ {t} : at'[u] \notin {"water", "period", "time"}
    BY <2>1, <2>2, TwoTasks DEF Inside
  <2>4. Inside(t, "leds")'
    BY <2>1 DEF Inside, LedSteps
  <2>5. alone'["leds"] => OneInside("leds")' /\ ~Settled("leds")'
    BY <2>3, <2>4 DEF OneInside, Settled, Inside
  <2>6. LedSteps[1] \in lit' <=> BitOf(1) \in Bits(arg[t])
    BY <2>1, LightSets
  <2>7. ASSUME alone'["leds"], NEW u \in Tasks, NEW m \in 2 .. 4, at'[u] = LedSteps[m]
        PROVE  u = t /\ m = 2
    BY <2>1, <2>3, <2>7 DEF LedSteps
  <2>8. \A k \in 1 .. 2 - 1 : k = 1
    OBVIOUS
  <2> QED
    BY <2>1, <2>5, <2>6, <2>7, <2>8, Zenon DEF LedsAlone, LedAs, BitOf
<1>4. ASSUME NEW t \in Tasks, MiddleLed(t)
      PROVE  LedsAlone'
  <2>1. PICK n \in 2 .. 3 : /\ at[t] = LedSteps[n] /\ Light(t, n)
                            /\ at' = [at EXCEPT ![t] = LedSteps[n + 1]]
    BY <1>4, Zenon DEF MiddleLed
  <2>2. /\ at'[t] = LedSteps[n + 1] /\ \A u \in Tasks \ {t} : at'[u] = at[u]
        /\ alone' = alone /\ arg' = arg
    BY <1>4, <2>1 DEF TypeOK, MiddleLed, history
  <2>3. \A m \in 2 .. 4 : LedSteps[m] \in {"water", "period", "time"}
    BY DEF LedSteps
  <2>4. \A m, k \in 2 .. 4 : LedSteps[m] = LedSteps[k] => m = k
    BY DEF LedSteps
  <2>5. n \in 2 .. 4 /\ n + 1 \in 2 .. 4 /\ n \in 1 .. 4 /\ (n + 1) - 1 = n
    OBVIOUS
  <2>6. \A u \in Tasks : Inside(u, "leds")' <=> Inside(u, "leds")
    BY <2>1, <2>2, <2>3, <2>5 DEF Inside
  <2>7. Inside(t, "leds") /\ ~Settled("leds")'
    BY <2>1, <2>3, <2>5, <2>6 DEF Inside, Settled
  <2>8. alone["leds"] => OneInside("leds") /\ OneInside("leds")'
    BY <1>0, <2>6 DEF LedsAlone, OneInside
  <2>9. alone["leds"] => \A k \in 1 .. n : LedSteps[k] \in lit' <=> BitOf(k) \in Bits(arg[t])
    BY <1>0, <2>1, <2>5, OnePassed
  <2>10. ASSUME alone["leds"], NEW u \in Tasks, NEW m \in 2 .. 4, at'[u] = LedSteps[m]
         PROVE  u = t /\ m = n + 1
    <3>1. Inside(u, "leds")
      BY <2>3, <2>6, <2>10 DEF Inside
    <3>2. u = t
      BY <2>7, <2>8, <2>10, <3>1 DEF OneInside
    <3> QED
      BY <2>2, <2>4, <2>5, <2>10, <3>2
  <2> QED
    BY <2>2, <2>5, <2>7, <2>8, <2>9, <2>10 DEF LedsAlone, LedAs, BitOf
<1>5. ASSUME NEW t \in Tasks, LastLed(t)
      PROVE  LedsAlone'
  <2>1. /\ at[t] = LedSteps[4] /\ Light(t, 4) /\ at'[t] = "idle"
        /\ \A u \in Tasks \ {t} : at'[u] = at[u]
        /\ alone' = alone /\ final'["leds"] = arg[t]
    BY <1>0, <1>5 DEF TypeOK, LastLed, Ends
  <2>2. alone["leds"] => \A u \in Tasks : ~Inside(u, "leds")'
    BY <1>0, <2>1 DEF LedsAlone, OneInside, Inside, LedSteps
  <2>3. alone["leds"] => OneInside("leds")'
    BY <2>2 DEF OneInside
  <2>4. alone["leds"] => \A k \in 1 .. 4 : LedSteps[k] \in lit' <=> BitOf(k) \in Bits(arg[t])
    BY <1>0, <2>1, OnePassed
  <2>5. \A m \in 2 .. 4 : LedSteps[m] \in {"water", "period", "time"}
    BY DEF LedSteps
  <2>6. alone["leds"] => \A u \in Tasks : \A m \in 2 .. 4 : at'[u] # LedSteps[m]
    BY <2>2, <2>5 DEF Inside
  <2> QED
    BY <2>1, <2>3, <2>4, <2>6 DEF LedsAlone, LedAs, BitOf
<1> QED
  BY <1>1, <1>2, <1>3, <1>4, <1>5 DEF Next

(* The patterns of digits2 give the ten digits their usual shapes.         *)
LEMMA UnitsShape ==
  ASSUME NEW d \in 0 .. 9
  PROVE  {UnitsWiring[b + 1] : b \in (0 .. 7) \ Bits(digits2[d + 1])} = Glyph[d + 1]
<1>1. ASSUME NEW n \in 0 .. 255
      PROVE  /\ 0 \in Bits(n) <=> (n \div 1) % 2 = 1
             /\ 1 \in Bits(n) <=> (n \div 2) % 2 = 1
             /\ 2 \in Bits(n) <=> (n \div 4) % 2 = 1
             /\ 3 \in Bits(n) <=> (n \div 8) % 2 = 1
             /\ 4 \in Bits(n) <=> (n \div 16) % 2 = 1
             /\ 5 \in Bits(n) <=> (n \div 32) % 2 = 1
             /\ 6 \in Bits(n) <=> (n \div 64) % 2 = 1
             /\ 7 \in Bits(n) <=> (n \div 128) % 2 = 1
  <2>1. /\ Weight[0 + 1] = 1 /\ Weight[1 + 1] = 2 /\ Weight[2 + 1] = 4
        /\ Weight[3 + 1] = 8 /\ Weight[4 + 1] = 16 /\ Weight[5 + 1] = 32
        /\ Weight[6 + 1] = 64 /\ Weight[7 + 1] = 128
    BY DEF Weight
  <2> QED
    BY <2>1 DEF Bits
<1>2. (0 .. 7) \ Bits(65) = {1, 2, 3, 4, 5, 7}
  BY <1>1
<1>3. (0 .. 7) \ Bits(125) = {1, 7}
  BY <1>1
<1>4. (0 .. 7) \ Bits(137) = {1, 2, 4, 5, 6}
  BY <1>1
<1>5. (0 .. 7) \ Bits(25) = {1, 2, 5, 6, 7}
  BY <1>1
<1>6. (0 .. 7) \ Bits(53) = {1, 3, 6, 7}
  BY <1>1
<1>7. (0 .. 7) \ Bits(19) = {2, 3, 5, 6, 7}
  BY <1>1
<1>8. (0 .. 7) \ Bits(3) = {2, 3, 4, 5, 6, 7}
  BY <1>1
<1>9. (0 .. 7) \ Bits(121) = {1, 2, 7}
  BY <1>1
<1>10. (0 .. 7) \ Bits(1) = {1, 2, 3, 4, 5, 6, 7}
  BY <1>1
<1>11. (0 .. 7) \ Bits(17) = {1, 2, 3, 5, 6, 7}
  BY <1>1
<1>12. CASE d \in 0 .. 4
  <2>1. CASE d = 0
    BY <1>2, <2>1 DEF digits2, UnitsWiring, Glyph
  <2>2. CASE d = 1
    BY <1>3, <2>2 DEF digits2, UnitsWiring, Glyph
  <2>3. CASE d = 2
    BY <1>4, <2>3 DEF digits2, UnitsWiring, Glyph
  <2>4. CASE d = 3
    BY <1>5, <2>4 DEF digits2, UnitsWiring, Glyph
  <2>5. CASE d = 4
    BY <1>6, <2>5 DEF digits2, UnitsWiring, Glyph
  <2> QED
    BY <1>12, <2>1, <2>2, <2>3, <2>4, <2>5
<1>13. CASE d \in 5 .. 9
  <2>1. CASE d = 5
    BY <1>7, <2>1 DEF digits2, UnitsWiring, Glyph
  <2>2. CASE d = 6
    BY <1>8, <2>2 DEF digits2, UnitsWiring, Glyph
  <2>3. CASE d = 7
    BY <1>9, <2>3 DEF digits2, UnitsWiring, Glyph
  <2>4. CASE d = 8
    BY <1>10, <2>4 DEF digits2, UnitsWiring, Glyph
  <2>5. CASE d = 9
    BY <1>11, <2>5 DEF digits2, UnitsWiring, Glyph
  <2> QED
    BY <1>13, <2>1, <2>2, <2>3, <2>4, <2>5
<1> QED
  BY <1>12, <1>13

(* A write of the display or of the LEDs that no other write overlaps      *)
(* shows its byte (AloneExact).                                            *)
THEOREM AloneSafe == Spec => []AloneExact
<1>1. Init => AloneInv
  <2> SUFFICES ASSUME Init PROVE AloneInv
    OBVIOUS
  <2>1. alone \in [Devices -> BOOLEAN]
    BY DEF Init
  <2>2. /\ \A t \in Tasks : at[t] = "idle"
        /\ final["display"] = 0 /\ final["leds"] = 0 /\ lit = {}
    BY DEF Init, Devices
  <2>3. gpioc \cap (6 .. 12) = Tens(0)
    BY SegmentsInMask, DriverAssumption DEF Init
  <2>4. DisplayAlone
    BY <2>2, <2>3 DEF DisplayAlone, OneInside, Inside
  <2>5. LedsAlone
    BY <2>2, NoBits DEF LedsAlone, OneInside, Inside, LedAs, LedSteps
  <2> QED
    BY <2>1, <2>4, <2>5 DEF AloneInv
<1>2. PortInv /\ AloneInv /\ [Next]_vars => AloneInv'
  BY DisplayStep, LedsStep DEF AloneInv, PortInv
<1>3. PortInv /\ LedInv /\ AloneInv => AloneExact
  <2> SUFFICES ASSUME PortInv, LedInv, AloneInv PROVE AloneExact
    OBVIOUS
  <2>1. ASSUME Settled("display"), alone["display"]
        PROVE  /\ gpioc \cap (6 .. 12) = Tens(final["display"])
               /\ {UnitsWiring[b + 1] : b \in (0 .. 7) \ gpiod} =
                    Glyph[(final["display"] % 10) + 1]
    <3> DEFINE d == final["display"] % 10
    <3>1. gpioc \cap (6 .. 12) = Tens(final["display"])
      BY <2>1 DEF AloneInv, DisplayAlone
    <3>2. final["display"] \in 0 .. 255
      BY DEF PortInv, TypeOK, Devices
    <3>3. d \in 0 .. 9
      BY <3>2
    <3>4. gpiod \cap (0 .. 7) = Bits(digits2[d + 1])
      BY DEF PortInv, Units
    <3>5. (0 .. 7) \ gpiod = (0 .. 7) \ Bits(digits2[d + 1])
      BY <3>4
    <3> HIDE DEF d
    <3>6. {UnitsWiring[b + 1] : b \in (0 .. 7) \ gpiod} = Glyph[d + 1]
      BY <3>3, <3>5, UnitsShape
    <3> QED
      BY <3>1, <3>6 DEF d
  <2>2. ASSUME Settled("leds"), alone["leds"]
        PROVE  lit = LitBy(final["leds"])
    <3>1. \A n \in 1 .. 4 : LedSteps[n] \in lit <=> BitOf(n) \in Bits(final["leds"])
      BY <2>2 DEF AloneInv, LedsAlone, LedAs
    <3>2. ASSUME NEW n \in 1 .. 4, NEW byte
          PROVE  LedSteps[n] \in LitBy(byte) <=> BitOf(n) \in Bits(byte)
      BY DEF LitBy, BitOf, Bits, LedSteps
    <3>3. \A byte : LitBy(byte) \subseteq {LedSteps[n] : n \in 1 .. 4}
      BY DEF LitBy
    <3>4. lit \subseteq {LedSteps[n] : n \in 1 .. 4}
      BY DEF LedInv
    <3> QED
      BY <3>1, <3>2, <3>3, <3>4
  <2> QED
    BY <2>1, <2>2 DEF AloneExact
<1> QED
  BY <1>1, <1>2, <1>3, Invariance, PTL DEF Spec

-----------------------------------------------------------------------------
(* The start *)

BootTypeOK ==
  /\ entry \in EntryPoints
  /\ phase \in {"arch", "prompt", "open", "create", "loop", "returned"}
  /\ step \in 1 .. 6 /\ caller \in {"nsh", "dogfeed"}
  /\ nodes \subseteq BoardDevices /\ files \in Nat /\ fds \in Seq(BoardDevices)
  /\ server \in BOOLEAN /\ memory \in BOOLEAN

(* Behind the up_ functions that have run in this call the pins are set.   *)
PinsInv ==
  /\ (phase = "arch" => step > 1) => leds = 0
  /\ (phase = "arch" => step > 2) => display = 0
  /\ (phase = "arch" => step > 4) => valve = 3
  /\ (phase = "arch" => step > 5) => motor = 0

(* ... and, unless memory ran out, their devices are registered.           *)
NodesInv ==
  memory => \A k \in 1 .. 5 : (phase = "arch" => step > k) => UpOrder[k] \in nodes

(* dogfeed_main has opened the first devices of its list, each registered; *)
(* outside it nothing is open.                                             *)
FilesInv ==
  /\ phase \in {"arch", "prompt", "returned"} => fds = <<>>
  /\ phase = "open" => Len(fds) = step - 1
  /\ phase \in {"create", "loop"} => Len(fds) = 5
  /\ \A k \in 1 .. Len(fds) : k <= 5 /\ fds[k] = OpenOrder[k] /\ fds[k] \in nodes
  /\ server <=> phase = "loop"
  /\ phase = "returned" /\ files = 3 => ~memory

StartInv == BootTypeOK /\ PinsInv /\ NodesInv /\ FilesInv

-----------------------------------------------------------------------------
(* The five devices that are registered are the five that are opened.      *)
LEMMA Lists ==
  /\ Len(UpOrder) = 5 /\ Len(OpenOrder) = 5
  /\ BoardDevices = {UpOrder[k] : k \in 1 .. 5}
  /\ BoardDevices = {OpenOrder[k] : k \in 1 .. 5}
  BY DEF UpOrder, OpenOrder, BoardDevices, ToSet

(* Power-on satisfies the invariant.                                       *)
LEMMA PowerOnInv == PowerOn => StartInv
<1> SUFFICES ASSUME PowerOn PROVE StartInv
  OBVIOUS
<1>1. ~server /\ server \in BOOLEAN /\ memory \in BOOLEAN
  BY Zenon DEF PowerOn
<1>2. BootTypeOK
  BY <1>1 DEF PowerOn, BootTypeOK
<1>3. PinsInv /\ NodesInv
  BY DEF PowerOn, PinsInv, NodesInv
<1>4. FilesInv
  BY <1>1 DEF PowerOn, FilesInv
<1> QED
  BY <1>2, <1>3, <1>4 DEF StartInv

(* A registration, failed or not, keeps it.                                *)
LEMMA UpKeeps == StartInv /\ Up => StartInv'
<1> SUFFICES ASSUME StartInv, Up PROVE StartInv'
  OBVIOUS
<1>1. step \in 1 .. 5 /\ phase = "arch" /\ step' = step + 1 /\ phase' = phase
  BY Lists DEF StartInv, BootTypeOK, Up
<1>2. UpOrder[step] \in BoardDevices
  BY <1>1, Lists
<1>3. memory' \in BOOLEAN /\ nodes' \subseteq BoardDevices /\ nodes \subseteq nodes'
  BY <1>2, Zenon DEF StartInv, BootTypeOK, Up, register_driver
<1>4. BootTypeOK'
  BY <1>1, <1>3 DEF StartInv, BootTypeOK, Up
<1>5. PinsInv'
  BY <1>1 DEF StartInv, PinsInv, Up, Configured, UpOrder
<1>6. memory' => memory /\ UpOrder[step] \in nodes'
  BY Zenon DEF Up, register_driver
<1>7. NodesInv'
  BY <1>1, <1>3, <1>6 DEF StartInv, NodesInv
<1>8. FilesInv'
  BY <1>1, <1>3 DEF StartInv, FilesInv, Up
<1> QED
  BY <1>4, <1>5, <1>7, <1>8 DEF StartInv

(* open fails only for want of an inode, and so of memory, or of a         *)
(* descriptor, of which eight are enough.                                  *)
LEMMA OpenFailsKeeps == StartInv /\ OpenFails => StartInv'
<1> SUFFICES ASSUME StartInv, OpenFails PROVE StartInv'
  OBVIOUS
<1>1. step \in 1 .. 5 /\ phase = "open" /\ phase' = "returned"
  BY Lists DEF StartInv, BootTypeOK, OpenFails
<1>2. OpenOrder[step] \in BoardDevices
  BY <1>1, Lists
<1>3. memory => BoardDevices \subseteq nodes
  BY <1>1, Lists DEF StartInv, NodesInv
<1>4. files = 3 => ~memory
  BY <1>1, <1>2, <1>3, TableAssumption
  DEF StartInv, BootTypeOK, FilesInv, OpenFails, Opens
<1>5. BootTypeOK'
  BY <1>1 DEF StartInv, BootTypeOK, OpenFails, pins
<1>6. PinsInv' /\ NodesInv'
  BY <1>1 DEF StartInv, PinsInv, NodesInv, OpenFails, pins
<1>7. FilesInv'
  BY <1>1, <1>4 DEF StartInv, FilesInv, OpenFails
<1> QED
  BY <1>5, <1>6, <1>7 DEF StartInv

(* An open that succeeds takes a free descriptor of a registered device.   *)
LEMMA OpenKeeps == StartInv /\ Open => StartInv'
<1> SUFFICES ASSUME StartInv, Open PROVE StartInv'
  OBVIOUS
<1>1. step \in 1 .. 5 /\ phase = "open" /\ phase' = "open" /\ step' = step + 1
  BY Lists DEF StartInv, BootTypeOK, Open
<1>2. OpenOrder[step] \in BoardDevices /\ OpenOrder[step] \in nodes
  BY <1>1, Lists, Zenon DEF Open, Opens
<1>3. fds' = Append(fds, OpenOrder[step]) /\ fds \in Seq(BoardDevices)
  BY DEF StartInv, BootTypeOK, Open
<1>4. BootTypeOK'
  BY <1>1, <1>2, <1>3 DEF StartInv, BootTypeOK, Open, pins
<1>5. PinsInv' /\ NodesInv'
  BY <1>1 DEF StartInv, PinsInv, NodesInv, Open, pins
<1>6. FilesInv'
  BY <1>1, <1>2, <1>3 DEF StartInv, FilesInv, Open
<1> QED
  BY <1>4, <1>5, <1>6 DEF StartInv

(* Every start, given up or not and repeated or not, keeps the invariant.  *)
THEOREM BootInvariance == BootSpec => []StartInv
<1>1. StartInv /\ UNCHANGED bootVars => StartInv'
  BY DEF StartInv, BootTypeOK, PinsInv, NodesInv, FilesInv, bootVars, pins
<1>2. StartInv /\ Netinit => StartInv'
  BY Lists DEF StartInv, BootTypeOK, PinsInv, NodesInv, FilesInv, Netinit, pins
<1>3. StartInv /\ Launch => StartInv'
  BY TableAssumption
  DEF StartInv, BootTypeOK, PinsInv, NodesInv, FilesInv, Launch, pins
<1>4. StartInv /\ Show => StartInv'
  <2> SUFFICES ASSUME StartInv, Show PROVE StartInv'
    OBVIOUS
  <2>1. phase = "open" /\ step = 6 /\ phase' = "create"
    BY Lists DEF StartInv, BootTypeOK, Show
  <2>2. BootTypeOK' /\ FilesInv'
    BY <2>1 DEF StartInv, BootTypeOK, FilesInv, Show
  <2>3. PinsInv' /\ NodesInv'
    BY <2>1 DEF StartInv, PinsInv, NodesInv, Show
  <2> QED
    BY <2>2, <2>3 DEF StartInv
<1>5. StartInv /\ Create => StartInv'
  <2> SUFFICES ASSUME StartInv, Create PROVE StartInv'
    OBVIOUS
  <2>1. \/ phase' = "loop" /\ server' /\ fds' = fds /\ (memory' => memory)
        \/ /\ phase' = "returned" /\ fds' = <<>> /\ ~memory'
           /\ server' = server
    BY Zenon DEF Create
  <2>2. server' \in BOOLEAN /\ memory' \in BOOLEAN
    BY Zenon DEF Create, StartInv, BootTypeOK
  <2>3. phase = "create" /\ UNCHANGED <<entry, step, caller, nodes, files, pins>>
    BY DEF Create
  <2>4. fds' \in Seq(BoardDevices) /\ phase' \in {"loop", "returned"}
    <3>1. fds \in Seq(BoardDevices) /\ << >> \in Seq(BoardDevices)
      BY DEF StartInv, BootTypeOK
    <3> QED
      BY <2>1, <3>1, Zenon
  <2>5. BootTypeOK'
    BY <2>2, <2>3, <2>4 DEF StartInv, BootTypeOK
  <2>6. server' <=> phase' = "loop"
    <3>1. ~server
      BY <2>3 DEF StartInv, FilesInv
    <3> QED
      BY <2>1, <3>1
  <2>7. phase' = "returned" /\ files' = 3 => ~memory'
    BY <2>1
  <2>8. FilesInv'
    BY <2>1, <2>3, <2>6, <2>7 DEF StartInv, FilesInv
  <2>9. PinsInv' /\ NodesInv'
    BY <2>1, <2>3 DEF StartInv, PinsInv, NodesInv, pins
  <2> QED
    BY <2>5, <2>8, <2>9 DEF StartInv
<1>6. StartInv /\ [BootNext]_bootVars => StartInv'
  BY <1>1, <1>2, <1>3, <1>4, <1>5, UpKeeps, OpenKeeps, OpenFailsKeeps
  DEF BootNext
<1> QED
  BY <1>6, PowerOnInv, PTL DEF BootSpec

(* The loop starts only with everything in place (LoopReady).              *)
THEOREM LoopSafe == BootSpec => []LoopReady
<1>1. StartInv => LoopReady
  <2> SUFFICES ASSUME StartInv, phase = "loop" PROVE LoopReady
    BY DEF LoopReady
  <2>1. Len(fds) = 5 /\ \A k \in 1 .. 5 : fds[k] = OpenOrder[k] /\ fds[k] \in nodes
    BY Zenon DEF StartInv, FilesInv
  <2>2. ToSet(fds) = BoardDevices
    <3>1. fds \in Seq(BoardDevices)
      BY DEF StartInv, BootTypeOK
    <3>2. ToSet(fds) = {fds[k] : k \in 1 .. 5}
      BY <2>1, <3>1 DEF ToSet
    <3> QED
      BY <2>1, <3>2, Lists
  <2>3. BoardDevices \subseteq nodes
    BY <2>1, Lists
  <2> QED
    BY <2>2, <2>3 DEF LoopReady, StartInv, PinsInv, FilesInv
<1> QED
  BY <1>1, BootInvariance, PTL

(* A start gives up only for want of memory, or of descriptors of a shell  *)
(* script, and leaves nothing open (GivenUp).                              *)
THEOREM GivenUpSafe == BootSpec => []GivenUp
<1>1. StartInv => GivenUp
  BY DEF StartInv, PinsInv, FilesInv, GivenUp
<1> QED
  BY <1>1, BootInvariance, PTL
=============================================================================
