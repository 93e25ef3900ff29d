SPECIFICATION FairSpec
CONSTANTS
  Requests = {r1}
  Callers = {c1, c2}
  Handler = handler
  NoThread = noThread
  Statuses = {200, 307, 404}
  MaxRuns = 3
  MaxThrows = 1
PROPERTIES
  FinishedIsReported
  RedirectionIsFollowed
  DestroyReturns
