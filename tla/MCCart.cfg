SPECIFICATION Spec
CONSTANTS
  SECONDS = 2
  MINUTES = 2
  HOURS = 2
  YDAYS = 2
  ADDR_BITS = 2
  DATA_BITS = 6
  UNIT = 2
  MaxLag = 4
  MaxCalls <- MCMaxCalls
  Headers <- MCHeaders
  Stores <- MCStores
  Bytes <- MCBytes
  Commands <- MCCommands
  Ages <- MCAges
INVARIANT CartIsCoherent
INVARIANT RtcKeepsTime
INVARIANT DirtyIsKnown
INVARIANT EepromObeys
PROPERTY RefusedChangesNothing
CHECK_DEADLOCK FALSE
