\* Two filters; names found once and names found in two places.
SPECIFICATION Spec
CONSTANTS
  Chars <- AllChars
  SP = "SP"
  Queries <- SmallQueries
  LABEL <- Label
  Sections <- SmallSections
  IdOf <- Ids
  Data <- SmallData
  MaxStrays = 1
INVARIANTS HiddenResultsForgotten ResultsAnswerField PanelReset PointerKeepsList WalkFollowsOrder
PROPERTIES OpensOnlyOnDemand
CHECK_DEADLOCK FALSE
