SPECIFICATION GroupsSpec
CONSTANTS
  n1 = n1  n2 = n2  n3 = n3  n4 = n4  n5 = n5
  Keys <- FiveNames
  Hash <- Colliding
  MaxSize = 4
  Ids = {1}
  MaxPerGroup = 1
  MaxBatch = 1
INVARIANT FindsWhatWasPut
