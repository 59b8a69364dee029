SPECIFICATION EngineSpec
CONSTANTS
  Node = {1, 2, 3}
  MaxEvents = 3
  MaxTime = 0
  Rule = {1, 2}
  Strength = {TRUE, FALSE}
  Delays = {0}
  Session = {"dequeue_unstable", "setf", "setnow", "initialize", "checkpoint", "excl"}
  ExprId = {1, 2}
  Expr <- WeakExpr
  RuleGroup <- WeakGroup
  Unstab = {}
  Fanout <- WeakFanout
  MkExHi <- NoRing
  MkExLo <- NoRing
  CheckExHi <- WeakCheck
  CheckExLo <- WeakCheck
  Mode = {"weak_rules"}
  Settable = {1, 2}
  Reserve = 1
INVARIANTS PullSound FlushCovered EventsJustified LocksAgree
