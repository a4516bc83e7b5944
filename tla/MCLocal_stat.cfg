SPECIFICATION FaultySpec
CONSTANTS
  MaxTracked = 1
  Thread = {t1, t2}
  Reader = {p, q}
  NoReader = NoReader
  Path = {"a", "b"}
  Request <- MCRequests
  MaxOffset = 7
  FirstSize = 2
  MaxSize = 2
  MaxTicks = 2
  MaxReads = 1
PROPERTIES
  ImplementsContract
