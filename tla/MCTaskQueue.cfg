CONSTANTS
  o1 = o1  o2 = o2  w1 = w1  w2 = w2  d1 = d1
  t1 = t1  t2 = t2  t3 = t3
  Outsider <- MCOutsider
  Worker <- MCWorker
  Delayer <- MCDelayer
  Task <- MCTask
  AdmissionCapacity = 2
SPECIFICATION FairSpec
INVARIANT IInv
PROPERTIES InternalTasksAreRead AdmittedTasksAreReadWhenQuiet
