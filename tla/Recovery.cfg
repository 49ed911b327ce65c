SPECIFICATION SuiteSpec
CONSTANTS
  Messages = {1, 2, 3}
  LastEvent = 2
  SourceEvent <- MCSourceEvent
  Dispatchers = {"d1", "d2"}
  WorkerOf <- MCWorkerOf
  Tokens = {"a", "b", "c"}
  None = None
  Lease = 2
  RetryDelay = 1
  Limit = 2
  Skew = 1
  CallTime = 3
  Poison = {}
  MaxFailures = 0
  MaxCrashes = 1
INVARIANT OutboxSafe
PROPERTIES RepeatsHaveACause EveryMessageArrives ImplementsDelivery ReadModelsCatchUp
