SPECIFICATION Spec
CONSTANTS
  n1 = n1
  n2 = n2
  Node <- MCNode
  Starter = Starter
  Stopper = Stopper
  Failer = Failer
  Reaper = Reaper
  Terminator = Terminator
  Actors <- OnlyStopper
  Local = Local
  NoThread = NoThread
INVARIANT StoppedQueriesHaveRun
CHECK_DEADLOCK FALSE
