CONSTANTS
  b1 = b1  b2 = b2  b3 = b3  w1 = w1  w2 = w2
  NoBuffer = NoBuffer  Flush = Flush  Close = Close  NoSequence = NoSequence
  Buffer = {b1, b2, b3}
  Worker = {w1, w2}
  Stream <- Stream3
  Sequence <- SharedSequence
  UpperThreshold = 1
  LowerThreshold = 0
  SenderQueueSize = 1
  MaxPendingAcks = 2
  ReceiverQueueSize = 1
  MaxLosses = 1
SPECIFICATION FairSpec
INVARIANTS KeptBuffersAreRetried FlushedIsDeliveredWithoutLoss
PROPERTIES ImplementsLossyFifo SinkEnds
CHECK_DEADLOCK FALSE
