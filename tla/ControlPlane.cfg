SPECIFICATION Spec
CONSTANTS
  Handlers     = {h1, h2}
  Main         = main
  Procs        = {p1, p2}
  Updates      <- MCUpdates
  Ops          = {"start"}
  DaemonFaults = {"crash", "hang", "prepare", "exec", "kill"}
  StoreFaults  = {"crash", "json", "conf"}
  MaxVersion   = 3
  Serials      = {1, 2, 3}
  None         = None
  Catalog      <- MCCatalog
  DefaultPort  <- MCDefaultPort
  DefaultOn    = {"http"}
  PortLimit    = 4
  LlmnrPort    = 3
  IgnoreLimit  = 1
  NodeIDs      = {"node"}
  DefaultNode  = "node"
  Addresses    = {}
  URLs         = {}
  NoURL        = ""
SYMMETRY Symmetry
INVARIANTS
  TypeOK
  AppliedIsServed
  OutdatedIsKnown
  PairMatches
