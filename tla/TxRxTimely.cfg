\* Successive calls on a timely network that repeats: leftovers are counted.
CONSTANTS
  Call = {c1, c2}
  ping = ping
  pong = pong
  Name = {ping, pong}
  LastFrame = 3
  BufferSize = 2
  MaxActive = 1
  MaxLosses = 0
  MaxRepeats = 2
  Timely = TRUE
  Nobody = Nobody
  Goals <- MCGoals
SPECIFICATION CountedFairSpec
INVARIANTS
  EachFrameIsAskedOnce
  NothingLeftBehind
PROPERTIES
  TimelyCallsReturn
CHECK_DEADLOCK FALSE
