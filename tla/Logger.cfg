CONSTANTS
  Threads = {t1, t2}
  Adapters = {file, own}
  Throwing = {own}
  Levels = {1, 2}
  MaxLogs = 3
  Free = Free
SPECIFICATION Spec
INVARIANTS WrittenInOrder SignalledWasOffered
PROPERTY LogsReturn
CHECK_DEADLOCK FALSE
