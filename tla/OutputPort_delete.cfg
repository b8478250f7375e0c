\* A port is deleted while another thread connects to it.
SPECIFICATION Spec
CONSTANTS
  Notifiers = {n1}
  Admins = {a1, a2}
  Links = {l1}
  NoLink = NoLink
  Colliding = {}
  Sizes = {0}
  AsyncModes = {FALSE}
  Exclusive = FALSE
  MaxNotifies = 1
  MaxCalls = 2
INVARIANTS DeletedPortsUnlinked
CHECK_DEADLOCK FALSE
