SPECIFICATION Spec
CONSTANTS
  Shows <- MCShows
  Lights <- MCLights
  OtherC <- MCOtherC
  OtherD <- MCOtherD
CONSTRAINT OneDriver
INVARIANTS TornDigits OthersKept MixedLeds AloneExact
