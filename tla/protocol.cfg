SPECIFICATION Spec
CONSTANTS
  Messages <- MCMessages
  RXBUFFER_SIZE = 6
  MaxLength = 6
INVARIANTS WellFormedExact SocketsClosed
PROPERTY ConnectionEnds
CHECK_DEADLOCK FALSE
