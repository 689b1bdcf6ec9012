\* A store that outlives the calls, three frames for its two places; the threshold of the code, 90%.
CONSTANTS
  Link = {alice, bob}
  Choke = Choke
  Name = {ping}
  Frame = {0, 1, 2}
  NoName = NoName
  NoPacket = NoPacket
  LinkPid <- MCLinkPid
  InvMinProb = 1000
  PheromoneSize = 1
  StoreSize = 2
  DeepSixPercent = 90
  SuperTraining = 4
  KeepsStore = TRUE
  MaxTrained = 24
SPECIFICATION Spec
SYMMETRY LinkAndNameSymmetry
INVARIANTS
  IndInv
PROPERTIES
  RecentResponsesAreServed
  DeepSixedOnlyIfUnanswered
CHECK_DEADLOCK FALSE
