\* Two callers, all operations, shared locks that are given to any reader.
SPECIFICATION FairSpec
CONSTANTS
  a = a
  b = b
  Callers = {t1, t2}
  Ids = {a, b}
  Copies = 2
  Ports = {"in", "out"}
  Tables = {"out"}
  Links <- MCLinks
  Schemes <- MCSchemes
  None = None
  WriterPreference = FALSE
  MaxCalls = 2
INVARIANTS TypeOK NoDanglingCallback LinksInScheme ReportedIsCalled SchemeGiven
PROPERTIES OperationsReturn
CHECK_DEADLOCK FALSE
