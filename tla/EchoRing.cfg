\* Two protocols, windows narrower and wider than the ring they form.
CONSTANTS
  Protocol = {"echo0", "echo1"}
  Peer <- MCPeer
  Caller = {"alice", "bob", "carol", "dave", "erin", "frank", "grace"}
  Owner <- MCOwner
  Function <- MCFunction
  To <- MCTo
  Plans <- MCPlans
  Capacity = 2
  BufferSize = 1
  MaxLosses = 1
  MaxRepeats = 2
  Nothing = Nothing
SPECIFICATION FairSpec
INVARIANTS
  IndInv
  ResponsesReachTheirCallers
  BlockedOnlyByStrays
PROPERTIES
  SmallDemandsAreMet
  EndsIdleOrFull
CHECK_DEADLOCK FALSE
