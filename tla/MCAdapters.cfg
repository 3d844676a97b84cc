SPECIFICATION Spec
CONSTANTS
  AttachGrace = 1
  DetachGrace = 2
  Window = 4
  MaxLag = 1
  MaxPlays = 3
  MaxCalls = 3
  MaxRuns = 2
  Kinds = {"linux", "bluetooth", "synthetic"}
  Sinks = {s1, s2}
  MaxTasks = 3
  MaxStarts = 2
  Devices = {d1, d2}
  MaxWindows = 2
  Anyone = Anyone
  Ops = {o1, o2}
  Urls = {u1, u2}
  MaxTries = 2
  MaxPolls = 2
  Speakers = {t1, t2}
  States = {"playing", "degraded", "stopping", "stopped"}
  MaxSessions = 2
  MaxMoves = 1
  None = None
  Silent = Silent
  Foreign = Foreign
SYMMETRY Symmetry
INVARIANT TypeOK
INVARIANT NothingLeftRunning
INVARIANT CaptureIsItsOwn
INVARIANT ClosedIsClosed
INVARIANT StopSticks
INVARIANT ForgottenStaysForgotten
INVARIANT ProfileFits
INVARIANT DetachmentsAreReal
INVARIANT StopReachesWhatPlays
CHECK_DEADLOCK FALSE
