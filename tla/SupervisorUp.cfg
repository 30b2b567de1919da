SPECIFICATION Spec
CONSTANTS
  Callers = {h1, h2, h3}
  Procs   = {p1, p2, p3, p4}
  Ops     = {"start", "restart"}
  Faults  = {}
  None    = None
SYMMETRY Symmetry
INVARIANT StartedMeansUp
