SPECIFICATION Spec
CONSTANTS
  JoinReasons <- AllJoinReasons
  LossReasons <- NoExpiry
  Failures = TRUE
  MaxQueue = 2
  MaxStations = 2
INVARIANTS FlagsMirrorDriver BitsSettle
PROPERTIES LossIsRetried
