SPECIFICATION FairSpec
CONSTANTS
  MaxPipelines = 2
  Heals = {h1, h2}
  NoHeal = NoHeal
  AutoHeal = TRUE
  RestartFrom = {"stopped", "failed", "quiesced", "degraded"}
  Ops = {}
  Env = {}
PROPERTY LossNoticed
CHECK_DEADLOCK FALSE
