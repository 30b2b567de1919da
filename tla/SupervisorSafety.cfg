SPECIFICATION Spec
CONSTANTS
  Callers = {h1, h2}
  Procs   = {p1, p2, p3}
  Ops     = {"start", "stop", "restart"}
  Faults  = {"crash", "hang", "prepare", "exec", "kill"}
  None    = None
SYMMETRY Symmetry
INVARIANTS
  TypeOK
  NoOrphan
  PidFileIsFresh
  ErrorMeansDown
  RestartReplaces
PROPERTY IsOneDaemon
