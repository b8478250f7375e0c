\* Three threads activate, deactivate, reconfigure and destroy one actor.
SPECIFICATION FairSpec
CONSTANTS
  Callers = {a, b, c}
  Free = Free
  Periods = {p1, p2}
  PropNames <- MCPropNames
  MaxCalls = 4
INVARIANTS TypeOK NoLoopLeft JoinKeepsStop LoopIsWanted LoopUsesLatestPeriod
PROPERTIES CallsReturn
CHECK_DEADLOCK FALSE
