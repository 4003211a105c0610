SPECIFICATION Spec
CONSTANTS
  Sockets = {o, g}
  Rooms = {r1}
  Calls = {c1, c2}
  Owner = o
  OwnerSockets <- MCOwnerSockets
  Requests <- ScreenRequests
  Faults = FALSE
  MaxRouters = 1
  MaxProducers = 2
  NoSocket = NoSocket
  NoProducer = NoProducer
SYMMETRY Alike
CHECK_DEADLOCK FALSE
INVARIANTS
  NoOrphanScreenShare
  ContextTellsTheTruth
PROPERTIES
  OneShareAtATime
  DepartureIsComplete
