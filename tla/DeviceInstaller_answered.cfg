SPECIFICATION Spec
CONSTANTS
  d1 = d1
  d2 = d2
  Devices <- MCDevices
  Raumfeld <- MCRaumfeld
  Addressed <- MCAddressed
  NoDevice = NoDevice
  App = App
  Installer = Installer
  Remover = Remover
  MaxOps = 2
INVARIANT ErrorsAreAnswered
CHECK_DEADLOCK FALSE
