SPECIFICATION FairSpec
CONSTANTS
  MaxSessions = 2
  MaxPipelines = 3
  MaxAttempts = 1
  MaxCalls = 2
  LeakBound = 1
  Tasks = {k1, k2}
  NoTask = NoTask
  Sources = {a, b}
  Targets = {t1}
  Intents = {4}
  Silent = Silent
  Foreign = Foreign
  Ops = {"play", "stop"}
  Env = {"source", "encoder", "outage"}
INVARIANT OneActivePerTarget
INVARIANT StartingIsDriven
PROPERTY StartsEnd
PROPERTY StopsEnd
CHECK_DEADLOCK FALSE
