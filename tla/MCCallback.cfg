CONSTANTS
  th1 = th1  th2 = th2  th3 = th3  r1 = r1  r2 = r2  r3 = r3
  Thread <- MCThread
  NoThread = NoThread
  Ref <- MCRef
SPECIFICATION FairSpec
INVARIANT IInv
PROPERTIES CancelReturns CallbackIsNotForgotten
CHECK_DEADLOCK FALSE
