SPECIFICATION Spec
CONSTANTS
  MinBlockSize = 2
  MaxBlockSize = 8
  DefaultBlockSize = 4
  MaxShards = 4
  Limit = 7
  PlanInput <- MCPlanInput
  RangeInput <- MCRangeInput
  OptionInput <- MCOptionInput
  NameInput <- MCNameInput
  RedirectInput <- MCRedirectInput
  HostInput <- MCHostInput
  Least <- MCLeast
  Most <- MCMost
  Default <- MCDefault
  ContextInput <- MCContextInput
  BucketCount = 4
  HistogramInput <- MCHistogramInput
CHECK_DEADLOCK FALSE
INVARIANTS
  PlanFetchesOnce
  PlanIsLeast
  RangeIsCovered
  OptionsConsistent
  NamesAreStable
  RedirectsAgree
  SpellingsAgree
  ContextIsInForce
  QuantilesBracket
