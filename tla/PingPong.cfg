\* The network of the tests, each channel of one packet, one datagram lost at most.
CONSTANTS
  BufferSize = 1
  PheromoneSize = 4
  InvMinProb = 100
  MaxLosses = 1
  MaxArrivals = 16
  Nothing = Nothing
SPECIFICATION Spec
INVARIANTS
  IndInv
  LogIsAsExpected
PROPERTIES
  AnswersEachRequestOnce
  PongUnlessLost
CHECK_DEADLOCK FALSE
