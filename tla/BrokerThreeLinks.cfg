\* Three links, two names that evict each other: every interleaving of threads and links.
CONSTANTS
  alice = alice
  bob = bob
  relay = relay
  echo = echo
  Choke = Choke
  Frame = {0}
  NoName = NoName
  NoLink = NoLink
  NoPacket = NoPacket
  Lookup = {alice, bob, relay}
  LinkPid <- MCLinkPid
  LookupId <- MCLookupId
  InvMinProb = 100
  StoreSize = 2
  DeepSixPercent = 90
  SuperTraining = 4
  BufferSize = 1
  Link = {alice, bob, relay}
  Name = {ping, pong}
  PheromoneSize = 2
  MaxArrivals = 4
SPECIFICATION Spec
SYMMETRY LinkAndNameSymmetry
INVARIANTS
  IndInv
  NoUnsolicitedResponse
PROPERTIES
  LastAskersAreAnswered
CHECK_DEADLOCK FALSE
