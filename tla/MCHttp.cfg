CONSTANTS
  Rev = {1, 2, 3}
  NoRev = 0
  SizeOf <- MCSizeOf
  WeakTag <- MCWeakTag
  Strength = {"Strong", "Weak", "Date", "None"}
  Host = {origin, mirror, clear, refused}
  NoHost = NoHost
  Origin = origin
  Permitted = {origin, mirror, clear}
  Secure = {origin, mirror, refused}
  MaxAttempts = 3
  MaxRedirects = 1
SPECIFICATION Spec
INVARIANTS
  RequestsAreBounded
PROPERTIES
  ImplementsContract
  TimeoutsEndTheOperation
  OperationsReturn
