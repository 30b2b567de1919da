SPECIFICATION Spec
CONSTANTS
  Width         = 4
  PrivateRanges <- MCPrivateRanges
  PortLimit     = 4
  Tabs          = {tab}
  Visits        = {1, 2}
  Drafts        <- MCDrafts
  Listeners     <- MCListeners
  DefaultDraft  <- MCDefault
  CanaryIP      = 1
  InitialFlows  <- MCInitialFlows
  OtherFlows    <- MCOtherFlows
  Others        = {}
  Faults        = {}
  MaxFlows      = 2
  None          = None
PROPERTIES
  DeletesOnlyManaged
