SPECIFICATION FairSpec
CONSTANTS
  s1 = s1
  s2 = s2
  left = left
  right = right
  join = join
  w1 = w1
  w2 = w2
  Source <- MCSource
  Node <- MCNode
  Successors <- MCSuccessors
  Work <- TwoTasks
  MaxRepeats = 1
INVARIANTS NodesLiveLongEnough GracefulEndLosesNothing
PROPERTIES QueryTerminates NodesAreDestroyed
CHECK_DEADLOCK FALSE
