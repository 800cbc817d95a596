CONSTANTS
  s1 = s1  s2 = s2  w1 = w1  w2 = w2  b1 = b1  b2 = b2
  NoBuffer = NoBuffer  NoWorker = NoWorker
  Source = {s1}
  Worker = {w1, w2}
  Buffer = {b1, b2}
  Fanout = 2
  InflightLimit = 1
  AdmissionCapacity = 1
  MaxStops = 2
SPECIFICATION FairSpec
INVARIANT SourcesKeepOrder
PROPERTIES StopEndsTheSource EndedSourcesAreJoined
CHECK_DEADLOCK FALSE
