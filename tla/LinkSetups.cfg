\* Every kind of link, clear and sealed; datagrams lost, repeated and garbled.
CONSTANTS
  Absent = Absent
  Torn = Torn
  Failed = Failed
  Receiver = {"far", "other"}
  Setups <- MCSetups
  BloomFilterIndex <- MCBloomFilterIndex
  BufferSize = 1
  MaxLosses = 1
  MaxRepeats = 1
  MaxNoise = 1
SPECIFICATION Spec
INVARIANTS
  TypeOK
  ReliableInOrder
  SealedPacketsAreGenuine
  PayloadsSurvive
  OnlyNoiseDeafens
  NoReceiverRunsAhead
  NothingIsStuck
CHECK_DEADLOCK FALSE
