SPECIFICATION Spec
CONSTANTS
  MaxSessions = 2
  MaxPipelines = 2
  MaxAttempts = 1
  MaxCalls = 2
  LeakBound = 1
  Tasks = {k1, k2}
  NoTask = NoTask
  Sources = {a, b}
  Targets = {t1}
  Intents = {4}
  Silent = Silent
  Foreign = Foreign
  Ops = {"play", "stop"}
  Env = {}
SYMMETRY TaskSymmetry
PROPERTY StoppedBeforeStart
CHECK_DEADLOCK FALSE
