SPECIFICATION FairSpec
CONSTANTS
  Sockets = {o, g}
  Rooms = {r1}
  Calls = {c1, c2}
  Owner = o
  OwnerSockets <- MCOwnerSockets
  Requests <- PlayRequests
  Faults = FALSE
  MaxRouters = 1
  MaxProducers = 1
  NoSocket = NoSocket
  NoProducer = NoProducer
CHECK_DEADLOCK FALSE
PROPERTIES
  ReadyMeansPlaying
  ReadyEndsForAReason
