SPECIFICATION FairSpec
CONSTANTS
  Callers = {h1, h2}
  Procs   = {p1, p2}
  Ops     = {"start", "stop", "restart"}
  Faults  = {"crash"}
  None    = None
PROPERTIES
  CallsReturn
  CrashIsReported
