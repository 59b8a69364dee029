SPECIFICATION FairEngineSpec
CONSTANTS
  Node = {1, 2, 3, 4}
  MaxEvents = 5
  MaxTime = 0
  Rule = {1, 2, 3, 5}
  Strength = {FALSE}
  Delays = {0}
  Session = {}
  ExprId = {1, 2, 3, 4, 5, 6, 7}
  Expr <- CElementExpr
  RuleGroup <- CElementGroup
  Unstab = {1}
  Fanout <- CElementFanout
  MkExHi <- NoRing
  MkExLo <- NoRing
  CheckExHi <- NoRing
  CheckExLo <- NoRing
  Mode = {"random_order"}
  Settable = {1, 2}
  Reserve = 2
INVARIANTS CountersAgree NoChangeMissed EventsJustified NoVacuousEvent
PROPERTY Settles
