\* One thread that calls Undo(steps) at any moment.
SPECIFICATION Spec
CONSTANTS
  Callers = {c1}
  Free = Free
  Schemes = {s1, s2}
  SameHash = {}
  Sizes = {2}
  Steps = {1, 2}
  WordSize = 256
  UndoAtStart = TRUE
  RedoThrows = FALSE
INVARIANTS StepsLimited
CHECK_DEADLOCK FALSE
