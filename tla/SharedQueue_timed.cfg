\* One reader with a timeout, no limit, nobody clears.
SPECIFICATION Spec
CONSTANTS
  Producers = {p1}
  Consumers = {c1}
  TimedConsumers = {c1}
  Sizes = {0}
  Modes = {"Nothing"}
  Clears = FALSE
  MaxItems = 2
PROPERTIES TimedFrontHasItem
CHECK_DEADLOCK FALSE
