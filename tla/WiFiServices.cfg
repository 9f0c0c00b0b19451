SPECIFICATION Spec
CONSTANTS
  Addrs <- SomeAddrs
  Masks <- SomeMasks
  Names = {"home"}
  Bases <- TwoBases
  Ids = {"STA_START", "GOT_IP"}
  BaseOf <- TheirBase
  Fns = {"f"}
  MaxStarts = 1
  MaxRegs = 2
  MaxLate = 1
INVARIANTS ServedFromOwnSubnet StationAddressed InitComplete CallbacksOncePerEvent LateOnlyAfterOverlap
PROPERTIES LookupReturns
