SPECIFICATION FairSpec
CONSTANTS
  Areas <- MCAreas
  Records <- MCRecords
  AreaOf <- MCAreaOf
  RowOf <- MCRowOf
  First = "swap"
  Cells <- MCCells
  Values <- MCValues
  Erased = "erased"
  Garbled = "garbled"
  MaxDownloads = 2
  MaxCalls = 2
  MaxCuts = 2
INVARIANTS TypeOK WritesObsoleteCopy RequestNotLost MagicIsLast ResumesOwnSwap ConfirmedStays TrialReverts NoPanic
PROPERTIES UpdatesAreAtomic BootEnds
CHECK_DEADLOCK FALSE
