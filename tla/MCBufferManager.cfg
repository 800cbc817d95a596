CONSTANTS
  t1 = t1  t2 = t2  p1 = p1  u1 = u1  u2 = u2  c1 = c1  c2 = c2  None = None
  Thread = {t1, t2}
  Pooled = {p1}
  Unpooled = {u1, u2}
  Chunk = {c1, c2}
  SegmentsPerChunk = 2
  Budget = 2
SYMMETRY Alike
SPECIFICATION Spec
INVARIANTS CountIsExact ChunksOutliveTheirSegments BudgetIsKept DestroyFindsAllBuffers
CHECK_DEADLOCK FALSE
