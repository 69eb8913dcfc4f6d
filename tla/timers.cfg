SPECIFICATION Spec
CONSTANTS
  Second = 2
  Floor = 3
  Ceiling = 6
  Recheck = 2
  DrainPoll = 3
  DrainDelay = 3
  DrainTimeout = 19
  Policy = "drainForce"
  Taken = 1
  Watched = FALSE
  PassTime = 2
  MaxFailures = 1
  LiveTime = 2
  Horizon = 28
INVARIANTS ForcedInTime NoticedInTime
PROPERTIES NoSpin
CHECK_DEADLOCK FALSE
