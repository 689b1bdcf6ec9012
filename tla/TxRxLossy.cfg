\* Two calls at a time on a network that loses and repeats; late workers.
CONSTANTS
  Call = {c1, c2}
  ping = ping
  pong = pong
  Name = {ping, pong}
  LastFrame = 2
  BufferSize = 2
  MaxActive = 2
  MaxLosses = 1
  MaxRepeats = 1
  Timely = FALSE
  Nobody = Nobody
  Goals <- MCGoals
SPECIFICATION Spec
SYMMETRY CallSymmetry
INVARIANTS
  IndInv
  ReturnsAreComplete
CHECK_DEADLOCK FALSE
