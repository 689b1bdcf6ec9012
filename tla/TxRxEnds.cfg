\* Two calls at a time, timeouts and workers that outlive their call.
CONSTANTS
  Call = {c1, c2}
  ping = ping
  pong = pong
  Name = {ping, pong}
  LastFrame = 2
  BufferSize = 2
  MaxActive = 2
  MaxLosses = 1
  MaxRepeats = 0
  Timely = FALSE
  Nobody = Nobody
  Goals <- MCGoals
SPECIFICATION FairSpec
PROPERTIES
  EveryCallEnds
CHECK_DEADLOCK FALSE
