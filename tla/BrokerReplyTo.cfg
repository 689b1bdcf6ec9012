\* One of two links is known by two LinkIds; the broker implements InterestForwarding.
CONSTANTS
  alice = alice
  bob = bob
  relay = relay
  echo = echo
  Choke = Choke
  Frame = {0}
  NoName = NoName
  NoLink = NoLink
  NoPacket = NoPacket
  Lookup = {alice, bob, relay}
  LinkPid <- MCLinkPid
  LookupId <- MCLookupId
  InvMinProb = 100
  StoreSize = 2
  DeepSixPercent = 90
  SuperTraining = 4
  BufferSize = 1
  Link = {alice, bob, echo}
  Name = {ping}
  PheromoneSize = 2
  MaxArrivals = 3
SPECIFICATION Spec
INVARIANTS
  NoReflectedRequest
PROPERTIES
  ForwardingSafety
CHECK_DEADLOCK FALSE
