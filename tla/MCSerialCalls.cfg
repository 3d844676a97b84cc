SPECIFICATION Spec
CONSTANTS
  MaxSessions = 2
  MaxPipelines = 3
  MaxAttempts = 2
  MaxCalls = 1
  LeakBound = 1
  Tasks = {k1}
  NoTask = NoTask
  Sources = {a, b}
  Targets = {t1}
  Intents = {4}
  Silent = Silent
  Foreign = Foreign
  Ops = {"play", "create", "start", "stop", "resume", "recover"}
  Env = {"source", "encoder", "playback", "build", "resolve", "hour", "adapter_error"}
SYMMETRY TaskSymmetry
INVARIANT TypeOK
INVARIANT NothingLeaks
INVARIANT PlayingIsServed
INVARIANT RendererAgrees
PROPERTY StoppedBeforeStart
CHECK_DEADLOCK FALSE
