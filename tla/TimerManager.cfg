SPECIFICATION Spec
CONSTANTS
  MaxTimers = 3
  Delays <- SomeDelays
  Intervals <- SomeIntervals
  Repeats <- SomeRepeats
  Limits <- SomeLimits
  NoLimit = NoLimit
  MaxLate = 1
  MaxLag = 1
INVARIANTS PoolPartition CountsMatch RemovedIsGone
PROPERTIES DueFires
