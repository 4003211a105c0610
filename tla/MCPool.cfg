SPECIFICATION FairSpec
CONSTANTS
  Connections = {k1, k2, k3}
  Calls = {c1, c2, c3}
  None = None
  MaxTries = 2
  MaxKept = 1
INVARIANTS TypeOK NoForeignTransaction LostAreTheKept SizedNeverJams
PROPERTY EndsWhileSized
CHECK_DEADLOCK FALSE
