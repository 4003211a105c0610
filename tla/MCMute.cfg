SPECIFICATION Spec
CONSTANTS
  Sockets = {o}
  Rooms = {r1}
  Calls = {c1, c2}
  Owner = o
  OwnerSockets <- MCOwnerSockets
  Requests <- MuteRequests
  Faults = FALSE
  MaxRouters = 1
  MaxProducers = 2
  NoSocket = NoSocket
  NoProducer = NoProducer
SYMMETRY Alike
CONSTRAINT ThreeProducers
CHECK_DEADLOCK FALSE
INVARIANTS
  MutedStaysSilent
  NoLostMedia
PROPERTIES
  SwitchesAreIndependent
