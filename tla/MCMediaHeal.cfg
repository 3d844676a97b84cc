SPECIFICATION FairSpec
CONSTANTS
  MaxPipelines = 3
  Heals = {h1, h2}
  NoHeal = NoHeal
  AutoHeal = TRUE
  RestartFrom = {"stopped", "failed", "quiesced", "degraded"}
  Ops = {"stop", "start", "recover"}
  Env = {"build", "encoder", "renderer", "source", "detach"}
INVARIANT TypeOK
INVARIANT OneHeal
INVARIANT SwapIsWhole
INVARIANT NoOrphan
PROPERTY OnlyStartsFinishStarts
PROPERTY HealsEnd
CHECK_DEADLOCK FALSE
