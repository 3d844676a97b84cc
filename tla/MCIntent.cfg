SPECIFICATION Spec
CONSTANTS
  MaxSessions = 2
  MaxPipelines = 2
  MaxAttempts = 1
  MaxCalls = 1
  LeakBound = 1
  Tasks = {k1}
  NoTask = NoTask
  Sources = {a, b}
  Targets = {t1}
  Intents = {2, 4}
  Silent = Silent
  Foreign = Foreign
  Ops = {"play"}
  Env = {}
SYMMETRY TaskSymmetry
PROPERTY HigherIntentStays
CHECK_DEADLOCK FALSE
