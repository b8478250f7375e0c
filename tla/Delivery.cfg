\* Two sources, an actor that is removed, synchronous and asynchronous.
SPECIFICATION FairSpec
CONSTANTS
  a1 = a1
  a2 = a2
  Actors = {a1, a2}
  Sources = {s1, s2}
  Owner = Owner
  Free = Free
  Setups <- MCSetups
  MaxCalls = 3
INVARIANTS TypeOK RemovedIsReachedLate GoneIsQuiet SomebodyGoesOn
PROPERTIES CallsReturn RemovalReturns
CHECK_DEADLOCK FALSE
