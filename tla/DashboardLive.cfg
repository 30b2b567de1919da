SPECIFICATION FairSpec
CONSTANTS
  Catalog      = {"http"}
  DefaultPort  <- LiveDefaultPort
  DefaultOn    = {"http"}
  PortLimit    = 2
  LlmnrPort    = 2
  IgnoreLimit  = 1
  NodeIDs      = {"node"}
  DefaultNode  = "node"
  Addresses    = {}
  URLs         = {"urlA", "urlB"}
  NoURL        = ""
  None         = None
  BlankLine    = "blank"
  Presets      = {}
  StartConfigs <- LiveConfigs
  Tabs         = {"overview"}
  Choices      = {"http"}
  Views        = {"status", "events"}
  Uses         = {"poll", "filter", "daemon", "crash"}
  NodeTexts    = {}
  IgnoreTexts  = {}
  PortTexts    = {}
  URLTexts     = {}
  KindChoices  = {}
  OtherUpdates = {}
  Logged       = {"http"}
  Alarming     = {"ssh"}
  MaxEdits     = 0
  MaxOthers    = 0
  MaxFaults    = 0
  Pending      = Pending
  Failed       = Failed
PROPERTY ShownBecomesTrue
