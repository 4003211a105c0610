SPECIFICATION FairSpec
CONSTANTS
  Sockets = {o, g}
  Rooms = {r1, r2}
  Calls = {c1, c2}
  Owner = o
  OwnerSockets <- MCOwnerSockets
  Requests <- JoinRequests
  Faults = FALSE
  MaxRouters = 2
  MaxProducers = 1
  NoSocket = NoSocket
  NoProducer = NoProducer
CHECK_DEADLOCK FALSE
INVARIANTS
  MembersAreListed
PROPERTIES
  JoinEnds
