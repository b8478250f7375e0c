\* A waiting writer keeps new readers out, as Windows' slim locks may.
SPECIFICATION FairSpec
CONSTANTS
  a = a
  b = b
  Callers = {t1, t2}
  Ids = {a, b}
  Copies = 2
  Ports = {"in", "out"}
  Tables = {"out"}
  Links <- MCLinks
  Schemes <- MCSchemes
  None = None
  WriterPreference = TRUE
  MaxCalls = 2
PROPERTIES OperationsReturn
CHECK_DEADLOCK FALSE
