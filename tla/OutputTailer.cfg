CONSTANTS
  MaxRetries = 1
  MaxLines = 3
  MaxFiles = 2
  MaxBoots = 2
SPECIFICATION FairSpec
INVARIANTS ReplaySafe TotalsCountOnce FlushDelivers
PROPERTIES OutputArrives
CHECK_DEADLOCK FALSE
