SPECIFICATION Spec
CONSTANTS
  Setups <- AllSetups
INVARIANTS CountersMatch HandshakeClean InOrder
PROPERTY Arrives
CHECK_DEADLOCK FALSE
