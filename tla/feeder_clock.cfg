SPECIFICATION HSpec
CONSTANTS
  PercentMax = 2
  PeriodMax = 1
  MilisPerSecond = 1
  SecondsPerMinute = 3
  DisplayLimit = 3
  ByteSize = 3
  MinuteCycle = 3
  Presses <- ClockPresses
  InitSetting <- MCInitSetting
  Commands <- ClockCommands
PROPERTIES MealsOnTimeUnlessReset ConfirmTakesEffect ServerReturns MotorStops
