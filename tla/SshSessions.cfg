CONSTANT MaxHandles = 4
SPECIFICATION Spec
CHECK_DEADLOCK FALSE
INVARIANTS
  SftpFollowsClient
  NothingForgotten
PROPERTIES
  OnlyStaleScpMisuses
  CallsReturn
