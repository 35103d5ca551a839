SPECIFICATION Spec
CONSTANTS
  Writers <- MCWriters
  Size = 3
  Depth = 2
  Letters = {"x"}
  MaxWrite = 2
INVARIANTS NoStall NothingStranded
PROPERTIES CrBeforeLf IsFifo WriteReturns
