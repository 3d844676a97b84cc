SPECIFICATION Spec
CONSTANTS
  Kinds = {"bluetooth", "linux"}
  Ttl = 2
  RunnerTtl = 1
  Cooldown = 1
  MaxRun = 1
  MaxPolls = 2
  Autos = {first, second}
  MaxEvents = 2
INVARIANT TypeOK
INVARIANT Freshness
 
INVARIANT RegistryFollows
PROPERTY GivesUpOnlyOnLost
SYMMETRY AnyAuto
CHECK_DEADLOCK FALSE
