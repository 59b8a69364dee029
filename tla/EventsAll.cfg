SPECIFICATION Spec
CONSTANTS
  Node = {1}
  MaxEvents = 3
  MaxTime = 1
  Rule = {}
  Strength = {FALSE}
  Delays = {0, 1}
  Session = {"setf", "unset", "setnow", "advance", "reschedule", "mindelay",
             "dequeue_unstable", "initialize", "freeze", "checkpoint"}
INVARIANTS NoLiveEventInPast NoEventLeaks
PROPERTY TimeMonotonic
