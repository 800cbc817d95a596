-------------------------- MODULE MCBufferManager ---------------------------
(* Model-checking instance of BufferManager.                               *)
EXTENDS BufferManager, TLC
CONSTANTS t1, t2, p1, u1, u2, c1, c2
Alike == Permutations(Thread) \cup Permutations(Unpooled) \cup Permutations(Chunk)
=============================================================================
