\* Fair threads and links: what is routed is delivered, and the broker drains.
CONSTANTS
  alice = alice
  bob = bob
  relay = relay
  echo = echo
  Choke = Choke
  Frame = {0}
  NoName = NoName
  NoLink = NoLink
  NoPacket = NoPacket
  Lookup = {alice, bob, relay}
  LinkPid <- MCLinkPid
  LookupId <- MCLookupId
  InvMinProb = 100
  StoreSize = 2
  DeepSixPercent = 90
  SuperTraining = 4
  BufferSize = 1
  Link = {alice, bob, relay}
  Name = {ping}
  PheromoneSize = 2
  MaxArrivals = 2
SPECIFICATION FairSpec
PROPERTIES
  ForwardingLiveness
  Drains
CHECK_DEADLOCK FALSE
