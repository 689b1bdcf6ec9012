\* Three links to rank, and a lower threshold, so that names are deep-sixed and let through again.
CONSTANTS
  Link = {alice, bob, relay}
  Choke = Choke
  Name = {ping, pong}
  Frame = {0}
  NoName = NoName
  NoPacket = NoPacket
  LinkPid <- MCLinkPid
  InvMinProb = 1000
  PheromoneSize = 2
  StoreSize = 2
  DeepSixPercent = 60
  SuperTraining = 4
  KeepsStore = FALSE
  MaxTrained = 7
SPECIFICATION Spec
SYMMETRY LinkAndNameSymmetry
INVARIANTS
  IndInv
PROPERTIES
  AnsweringLinksFirst
  DeepSixedAgainUnlessFirst
CHECK_DEADLOCK FALSE
