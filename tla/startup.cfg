SPECIFICATION BootSpec
CONSTANTS
  NFILE_DESCRIPTORS <- MCDescriptors
  Inherited <- MCInherited
INVARIANTS LoopReady GivenUp
CHECK_DEADLOCK FALSE
