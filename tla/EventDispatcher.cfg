SPECIFICATION DispatcherSpec
CONSTANTS
  Events = {e1, e2}
  MaxEvents = 2
  MaxListeners = 3
  MaxId = 4
  MaxNesting = 2
  MaxThrown = 2
  DepthWrap = 3
INVARIANT DispatchExact
PROPERTIES RemovedCollected
CHECK_DEADLOCK FALSE
