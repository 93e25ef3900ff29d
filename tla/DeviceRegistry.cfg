SPECIFICATION FairSpec
CONSTANTS
  Ips = {i1}
  Services = {renderer, server}
  Free = free
  MaxFound = 2
INVARIANTS
  RegistryFollowsDiscovery
  DestroyedIsQuiet
  OnlyLateCheckersRun
PROPERTIES
  CallbacksReturn
  DestructorEnds
CHECK_DEADLOCK FALSE
