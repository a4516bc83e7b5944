SPECIFICATION Spec
CONSTANTS
  Thread = {t1, t2}
  Handles = 2
  MaxIdle = 1
  MaxHeaderBytes = 4
  Capacity = 1
  Addresses <- MCAddresses
  Permitted <- MCPermitted
  Proxies <- MCProxies
  MaxTries = 2
  Name = "name"
INVARIANTS
  PoolIsSound
  PolicyHolds
PROPERTIES
  RefusalIsExact
  ResponseIsOne
  PerformReturns
