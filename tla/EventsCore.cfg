SPECIFICATION Spec
CONSTANTS
  n1 = n1
  n2 = n2
  Node = {n1, n2}
  MaxEvents = 3
  MaxTime = 1
  Rule = {}
  Strength = {FALSE}
  Delays = {0}
  Session = {"reschedule", "excl", "mindelay", "initialize", "unset",
             "dequeue_unstable", "stop_vacuous", "checkpoint"}
SYMMETRY Nodes
INVARIANTS TypeOK EventQueueCoherent
PROPERTY ImplementsAgenda
