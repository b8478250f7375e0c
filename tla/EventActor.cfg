\* Two senders, tasks that send to the actor itself, settings that change at any moment.
SPECIFICATION FairSpec
CONSTANTS
  Senders = {s1, s2}
  Owner = Owner
  Free = Free
  Sizes = {0, 1, 3}
  AsyncModes = {TRUE, FALSE}
  Feedback = TRUE
  Unlinked = TRUE
  MaxMessages = 4
INVARIANTS TypeOK TasksTracked FreedIsQuiet TasksWithinQueueSize
PROPERTIES ReceiveReturns DestroyReturns
CHECK_DEADLOCK FALSE
