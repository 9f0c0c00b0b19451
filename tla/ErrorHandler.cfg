SPECIFICATION Spec
CONSTANTS
  Errors <- MCErrors
  What = "lost"
  Places = {"boot", "loop"}
  Intervals = {1}
  Filters = {0, 3}
  Kinds = {"threshold", "retry", "severity"}
  None = None
  Wrap = 2
  SizeWrap = 4
  HistorySize = 2
  Capacity = 2
  StackMax = 2
  Threshold = 2
  MaxRetries = 2
  MaxReports = 3
  MaxPolicies = 1
  MaxFrames = 2
  MaxNested = 3
  MaxScopes = 3
  MaxAge = 1
  MaxChanges = 1
CONSTRAINT Apart
INVARIANTS HistoryIsTail QueueFaithful ContextUnwinds
PROPERTY RateLimited
