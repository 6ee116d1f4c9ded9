\* A generator and a loader among the writes of other tabs and of the worker.
SPECIFICATION Spec
CONSTANTS
  task1 = task1
  Recordings = {1, 2}
  Tasks = {task1}
  OriginOf <- FromFirst
  Generators = {"generate"}
  Loaders = {"load"}
  MaxChanges = 3
PROPERTIES ShownMatchesTasks NothingGoneIsShown
CHECK_DEADLOCK FALSE
