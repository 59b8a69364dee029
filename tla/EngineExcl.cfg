SPECIFICATION EngineSpec
CONSTANTS
  Node = {1, 2, 3, 4}
  MaxEvents = 5
  MaxTime = 0
  Rule = {1, 2, 3, 4}
  Strength = {FALSE}
  Delays = {0}
  Session = {"setf"}
  ExprId = {1, 2, 3, 4}
  Expr <- GrantExpr
  RuleGroup <- GrantGroup
  Unstab = {}
  Fanout <- GrantFanout
  MkExHi <- GrantRing
  MkExLo <- GrantRing
  CheckExHi <- NoRing
  CheckExLo <- NoRing
  Mode = {"dequeue_excl_unstable"}
  Settable = {1, 2}
  Reserve = 2
INVARIANTS RingCountAgrees NoChangeMissed UnstableMeansChange
