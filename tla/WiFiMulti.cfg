SPECIFICATION MultiSpec
CONSTANTS
  MaxResults = 2
  MaxFound = 3
  MaxPending = 1
  SlowScan = TRUE
  Networks <- TwoNetworks
  Entries <- SomeEntries
  MaxEntries = 2
  None = None
INVARIANTS FlagsSettle BestChosen ChosenFromScan
