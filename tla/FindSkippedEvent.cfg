SPECIFICATION Spec
CONSTANTS
  n1 = n1
  n2 = n2
  Node = {n1, n2}
  MaxEvents = 3
  MaxTime = 1
  Rule = {}
  Strength = {FALSE}
  Delays = {0, 1}
  Session = {"dequeue_unstable", "setf"}
SYMMETRY Nodes
INVARIANT EventQueueCoherent
