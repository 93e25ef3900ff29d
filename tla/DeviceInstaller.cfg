SPECIFICATION FairSpec
CONSTANTS
  d1 = d1
  d2 = d2
  Devices <- MCDevices
  Raumfeld <- MCRaumfeld
  Addressed <- MCAddressed
  NoDevice = NoDevice
  App = App
  Installer = Installer
  Remover = Remover
  MaxOps = 3
INVARIANTS
  OneWorker
  SilentIsAborted
  NoJoinableLost
  FlagIsForThisRun
  DestroyedIsQuiet
  AnsweredAtMostOnce
  HostIsOwnOrLater
PROPERTY CallsReturn
CHECK_DEADLOCK FALSE
