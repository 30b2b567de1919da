SPECIFICATION Spec
CONSTANTS
  Handlers    = {h1, h2}
  Updates     <- MCUpdates
  Faults      = {"conf"}
  None        = None
  Catalog     <- MCCatalog
  DefaultPort <- MCDefaultPort
  DefaultOn   = {"http"}
  PortLimit   = 4
  LlmnrPort   = 3
  IgnoreLimit = 1
  NodeIDs     = {"node"}
  DefaultNode = "node"
  Addresses   = {"addr", "addr2"}
  URLs        = {"urlA", "urlB"}
  NoURL       = ""
INVARIANT ConfigWritesAreAtomic
