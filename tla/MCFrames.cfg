SPECIFICATION FairSpec
CONSTANTS
  MaxFrames = 3
  MaxPipelines = 2
  QueueSize = 1
  JitterTarget = 2
  Origins = {"loop", "thread"}
  Loops = {"stable", "experimental"}
  Keepalive = TRUE
  Env = {"crash"}
INVARIANT TypeOK
INVARIANT EveryFrameAccounted
PROPERTY ChannelSpec
PROPERTY PrimedFramesPlay
PROPERTY EncodersAreFed
CHECK_DEADLOCK FALSE
