SPECIFICATION MCSpec
CONSTANTS
  Width         = 4
  PrivateRanges <- MCPrivateRanges
  PortLimit     = 4
  Tabs          = {tab}
  Visits        = {1, 2}
  Drafts        <- MCDrafts
  Listeners     <- MCListeners
  DefaultDraft  <- MCDefault
  Texts         <- MCTexts
  Rules         <- MCRules
  Mappings      <- MCMappings
  Lists         <- MCLists
  CanaryIP      = 1
  InitialFlows  <- MCInitialFlows
  OtherFlows    <- MCOtherFlows
  Others        = {"add", "delete"}
  Faults        = {"refuse", "lose"}
  MaxFlows      = 2
  None          = None
INVARIANTS
  RangesAreExact
  NoConflictIsMissed
  ConflictsAreReal
  RecognizesItsOwn
  TypeOK
  SuccessIsTrue
  NothingIsHidden
PROPERTIES
  UndisturbedDeletesOnlyManaged
