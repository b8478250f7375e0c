\* A bounded queue, one thread that changes the links: everything returns.
SPECIFICATION FairSpec
CONSTANTS
  Notifiers = {n1, n2}
  Admins = {a1}
  Links = {l1, l2}
  NoLink = NoLink
  Colliding = {}
  Sizes = {1}
  AsyncModes = {TRUE, FALSE}
  Exclusive = TRUE
  MaxNotifies = 3
  MaxCalls = 2
INVARIANTS TasksTracked RunningBounded
PROPERTIES CallsReturn
CHECK_DEADLOCK FALSE
