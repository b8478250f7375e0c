\* Two threads, a limit that changes, nobody calls Undo(steps) before a Save.
SPECIFICATION Spec
CONSTANTS
  Callers = {c1, c2}
  Free = Free
  Schemes = {s1, s2, s3, s4}
  SameHash = {s3, s4}
  Sizes = {0, 1, 4}
  Steps = {1, 2, 4}
  WordSize = 256
  UndoAtStart = FALSE
  RedoThrows = FALSE
SYMMETRY Symmetry
INVARIANTS TypeOK LastIsCurrent SnapshotsBounded
PROPERTIES ImplementsHistory
CHECK_DEADLOCK FALSE
