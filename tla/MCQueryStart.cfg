SPECIFICATION FairSpec
CONSTANTS
  n1 = n1
  n2 = n2
  Node <- MCNode
  Starter = Starter
  Stopper = Stopper
  Failer = Failer
  Reaper = Reaper
  Terminator = Terminator
  Actors <- AllActors
  Local = Local
  NoThread = NoThread
INVARIANTS StartIsOrderly SetupFindsItsPlan
PROPERTIES ImplementsLifecycle EveryThreadFinishes
CHECK_DEADLOCK FALSE
