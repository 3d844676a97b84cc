SPECIFICATION FairSpec
CONSTANTS
  MaxSessions = 1
  MaxPipelines = 1
  MaxAttempts = 1
  MaxCalls = 1
  LeakBound = 1
  Tasks = {k1, k2}
  NoTask = NoTask
  Sources = {a, b}
  Targets = {t1}
  Intents = {4}
  Silent = Silent
  Foreign = Foreign
  Ops = {"play", "stop"}
  Env = {"crash"}
PROPERTY StopsEnd
CHECK_DEADLOCK FALSE
