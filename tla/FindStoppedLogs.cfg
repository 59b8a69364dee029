SPECIFICATION Spec
CONSTANTS
  Setups <- StoppedSetups
PROPERTY StoppedNotLogged
CHECK_DEADLOCK FALSE
