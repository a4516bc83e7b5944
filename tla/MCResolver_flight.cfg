CONSTANTS
  Thread = {t1, t2}
  NoThread = NoThread
  Ident = {"a", "b"}
  Policy = {"wide", "narrow"}
  Key <- MCKey
  Covers <- MCCovers
  Captures <- MCCaptures
  v1 = v1
  v2 = v2
  v3 = v3
  Validator = {v1, v2, v3}
  NoValidator = NoValidator
  IsStable <- MCIsStable
  Entry = {1, 2, 3, 4}
  NoEntry = 0
  kMaxRetainedOpens = 1
  kMaxRememberedIdentities = 1
SYMMETRY MCSymmetry
SPECIFICATION Spec
INVARIANT ResolutionsShareARequest
