SPECIFICATION Spec
CONSTANTS
  q1 = q1  h1 = h1  h2 = h2
  Query <- MCQuery
  Host <- MCHost
  WorkerThreads = 2
  MaxFaults = 2
  MaxStops = 2
INVARIANT NoQueryIsForgotten
PROPERTIES StopEndsTheQuery CallsReturn
CHECK_DEADLOCK FALSE
