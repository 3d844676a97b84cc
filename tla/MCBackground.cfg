SPECIFICATION Spec
CONSTANTS
  MaxSessions = 2
  MaxPipelines = 2
  MaxAttempts = 1
  MaxCalls = 1
  LeakBound = 1
  Tasks = {k1, k2}
  NoTask = NoTask
  Sources = {a, b}
  Targets = {t1}
  Intents = {4}
  Silent = Silent
  Foreign = Foreign
  Ops = {"play", "recover"}
  Env = {"renderer", "playback", "foreign", "transport", "crash", "detach"}
SYMMETRY TaskSymmetry
PROPERTY LifecycleSpec
CHECK_DEADLOCK FALSE
