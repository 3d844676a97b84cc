SPECIFICATION FairSpec
CONSTANTS
  Primary = {renderer}
  Auxiliary = {browser}
  MaxChunks = 4
  QueueChunks = 1
  HardFactor = 2
  Stable = TRUE
  BacklogLimit = FALSE
INVARIANT TypeOK
INVARIANT BacklogBounded
INVARIANT StopDelivers
PROPERTY StreamSpec
PROPERTY NobodyOversleeps
CHECK_DEADLOCK FALSE
