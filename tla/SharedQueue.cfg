\* Several readers and writers, one reader with a timeout, both modes, limits
\* that change: the queue of futures and the queue of an input port.
SPECIFICATION FairSpec
CONSTANTS
  Producers = {p1, p2}
  Consumers = {c1, c2, c3}
  TimedConsumers = {c3}
  Sizes = {0, 1, 2}
  Modes = {"Nothing", "PopOld"}
  Clears = TRUE
  MaxItems = 3
INVARIANTS TypeOK NoLostWakeup HeldIsHeadOrGone
PROPERTIES GrowsWithinMax ItemsConsumed
CHECK_DEADLOCK FALSE
