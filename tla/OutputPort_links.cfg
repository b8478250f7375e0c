\* Two notifiers, two threads that change the links, linkIds that collide.
SPECIFICATION Spec
CONSTANTS
  Notifiers = {n1, n2}
  Admins = {a1, a2}
  Links = {l1, l2}
  NoLink = NoLink
  Colliding = {l1, l2}
  Sizes = {0, 1}
  AsyncModes = {TRUE, FALSE}
  Exclusive = TRUE
  MaxNotifies = 2
  MaxCalls = 4
SYMMETRY Symmetry
INVARIANTS TypeOK CallbacksReported CallsReachAttached UserDataKept
CHECK_DEADLOCK FALSE
