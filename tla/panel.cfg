SPECIFICATION PanelSpec
CONSTANTS
  PercentMax = 3
  PeriodMax = 2
  MilisPerSecond = 2
  SecondsPerMinute = 3
  DisplayLimit = 4
  ByteSize = 8
  MinuteCycle = 8
  Presses <- MCPresses
  InitSetting <- MCInitSetting
INVARIANTS PanelConsistent MinutesShown
PROPERTIES KeepsPromise FeedOnSchedule PortionExact ValveCloses
