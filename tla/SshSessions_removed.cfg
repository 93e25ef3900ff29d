CONSTANT MaxHandles = 2
SPECIFICATION Spec
CHECK_DEADLOCK FALSE
PROPERTY RemovedIsGone
