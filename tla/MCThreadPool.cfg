CONSTANTS
  o1 = o1
  w1 = w1  w2 = w2  t1 = t1  t2 = t2  t3 = t3
  Outsider = {o1}
  Worker <- MCWorker
  Submitter = Submitter
  Terminator = Terminator
  Task <- MCTask
  NoTask = NoTask
  AdmissionCapacity = 1
  MaxRepeats = 1
SPECIFICATION FairSpec
INVARIANT NothingLeftBehind
PROPERTIES ShutdownTerminates EveryTaskCompletes
CHECK_DEADLOCK FALSE
