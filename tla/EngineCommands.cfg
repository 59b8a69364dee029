SPECIFICATION EngineSpec
CONSTANTS
  Node = {1, 2}
  MaxEvents = 3
  MaxTime = 1
  Rule = {1, 2}
  Strength = {FALSE}
  Delays = {0, 1}
  Session = {"setf", "setnow", "reschedule", "initialize", "freeze", "unset", "checkpoint"}
  ExprId = {1, 2}
  Expr <- WireExpr
  RuleGroup <- WireGroup
  Unstab = {}
  Fanout <- WireFanout
  MkExHi <- NoRing
  MkExLo <- NoRing
  CheckExHi <- NoRing
  CheckExLo <- NoRing
  Mode = {}
  Settable = {1, 2}
  Reserve = 1
INVARIANTS CountersAgree FrozenNotScheduled
PROPERTIES ImplementsEvents UnsetRestores
