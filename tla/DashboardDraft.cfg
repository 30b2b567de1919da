SPECIFICATION Spec
CONSTANTS
  Catalog      <- MCCatalog
  DefaultPort  <- MCDefaultPort
  DefaultOn    = {"http"}
  PortLimit    = 4
  LlmnrPort    = 3
  IgnoreLimit  = 1
  NodeIDs      = {"node", "node2"}
  DefaultNode  = "node"
  Addresses    = {"addr"}
  URLs         = {"urlA", "urlB"}
  NoURL        = ""
  None         = None
  BlankLine    = "blank"
  Presets      = {{"ssh"}}
  StartConfigs <- MCConfigs
  Tabs         = {"overview", "services", "settings"}
  Choices      = {}
  Views        = {"events"}
  Uses         = {"clear"}
  NodeTexts    = {"node2"}
  IgnoreTexts  <- MCIgnoreTexts
  PortTexts    = {4}
  URLTexts     = {"urlB"}
  KindChoices  = {"teams"}
  OtherUpdates <- MCOtherUpdates
  Logged       = {}
  Alarming     = {}
  MaxEdits     = 2
  MaxOthers    = 1
  MaxFaults    = 1
  Pending      = Pending
  Failed       = Failed
INVARIANTS
  TypeOK
  CleanIsCurrent
  ChecksAreNotStricter
PROPERTY SavesChangeOnlyEdits
