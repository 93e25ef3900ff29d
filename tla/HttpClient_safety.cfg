SPECIFICATION Spec
CONSTANTS
  Requests = {r1, r2}
  Callers = {c1, c2}
  Handler = handler
  NoThread = noThread
  Statuses = {200, 307, 404}
  MaxRuns = 2
  MaxThrows = 1
SYMMETRY Symmetry
INVARIANTS
  DeleteableIsQuiet
  CallbackSeesLastAnswer
  AbortLeavesNothingRunning
  StoppedIsQuiet
PROPERTIES
  MakesExchanges
  ServesRequests
