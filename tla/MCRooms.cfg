SPECIFICATION Spec
CONSTANTS
  Sockets = {o, g}
  Rooms = {r1}
  Calls = {c1, c2}
  Owner = o
  OwnerSockets <- MCOwnerSockets
  Requests <- RoomRequests
  Faults = TRUE
  MaxRouters = 2
  MaxProducers = 1
  NoSocket = NoSocket
  NoProducer = NoProducer
SYMMETRY Alike
CHECK_DEADLOCK FALSE
INVARIANTS
  TypeOK
  MembersAreListed
  RoomNotSplit
  RoutersAreFew
