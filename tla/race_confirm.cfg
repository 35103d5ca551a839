SPECIFICATION HSpec
CONSTANTS
  PercentMax = 2
  PeriodMax = 1
  MilisPerSecond = 1
  SecondsPerMinute = 2
  DisplayLimit = 3
  ByteSize = 3
  MinuteCycle = 3
  Presses <- RacePresses
  InitSetting <- MCInitSetting
  Commands <- RaceCommands
PROPERTY NoConfirmWhileRunning
