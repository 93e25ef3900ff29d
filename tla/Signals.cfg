SPECIFICATION FairSpec
CONSTANTS
  Connections = {c1, c2}
  Firers = {f1, f2}
  Breakers = {b1, b2}
  MaxThrows = 1
INVARIANTS
  DisconnectedIsQuiet
PROPERTIES
  DisconnectReturns
