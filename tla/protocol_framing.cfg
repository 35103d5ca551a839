SPECIFICATION Spec
CONSTANTS
  Messages <- MCMessages
  RXBUFFER_SIZE = 5
  MaxLength = 5
INVARIANT FramingExact
CHECK_DEADLOCK FALSE
