SPECIFICATION Spec
CONSTANTS
  Readers <- MCReaders
  Size = 3
  Bytes = {"x", "y"}
  MaxRead = 2
INVARIANTS NotSleptThrough NeverDeaf
PROPERTIES IsLossyFifo ReadReturns
