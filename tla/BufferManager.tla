--------------------------- MODULE BufferManager ----------------------------
(***************************************************************************)
(* Tuple buffers and the memory behind them, nes-memory: the pool of       *)
(* BufferManager.cpp, the reference counts and child buffers of            *)
(* TupleBufferImpl.cpp and TupleBuffer.cpp, and the chunks of              *)
(* UnpooledChunksManager.cpp with their common budget.                     *)
(*                                                                         *)
(* A thread holds at most one TupleBuffer object of a segment; it copies   *)
(* buffers to other threads, as tasks do.  A chunk has room for            *)
(* SegmentsPerChunk segments and costs one unit of the budget.             *)
(***************************************************************************)
EXTENDS Integers, Sequences, FiniteSets

CONSTANTS
  Thread,
  Pooled,              \* the segments of the pool
  Unpooled,            \* names for segments carved out of chunks
  Chunk,               \* addresses of chunks
  SegmentsPerChunk,
  Budget,              \* unpooledMemoryBudgetInBytes, in chunks
  None

ASSUME ChunksHaveRoom == SegmentsPerChunk \in Nat \ {0} /\ Budget \in Nat
ASSUME SegmentsAreKnown ==
  /\ IsFiniteSet(Thread) /\ IsFiniteSet(Pooled) /\ IsFiniteSet(Unpooled)
  /\ Pooled \cap Unpooled = {} /\ None \notin Thread \cup Chunk

Segment == Pooled \cup Unpooled

VARIABLES
  refs,        \* BufferControlBlock::referenceCounter
  held,        \* the TupleBuffer objects of each thread
  children,    \* BufferControlBlock::children
  recycler,    \* segments with an owningBufferRecycler
  available,   \* BufferManager::availableBuffers
  provider,    \* threads that hold the BufferManager itself
  destroyed,
  at,          \* where each thread is in a getBuffer
  hand,        \* and the segment or chunk it works on
  releasing,   \* the releases each thread is in, innermost last
  chunkOf,     \* the chunk of an unpooled segment
  chunks,      \* UnpooledChunk::chunks: a record for each chunk that is there
  last,        \* lastAllocateChunkKey of each thread
  allocated,   \* chunks that are allocated
  bytes        \* currentlyAllocatedUnpooledBytes

countVars == <<refs, held, children, recycler>>
poolVars == <<available, provider, destroyed>>
chunkVars == <<chunkOf, chunks, last, allocated, bytes>>
vars == <<countVars, poolVars, at, hand, releasing, chunkVars>>

ReleaseStep == {"children", "recycle", "deallocate", "account", "drop"}
Gone == [owner |-> None, active |-> 0, used |-> 0]

TypeOK ==
  /\ refs \in [Segment -> Nat] /\ held \in [Thread -> SUBSET Segment]
  /\ children \in [Segment -> SUBSET Segment] /\ recycler \subseteq Segment
  /\ available \subseteq Pooled /\ provider \subseteq Thread /\ destroyed \in BOOLEAN
  /\ at \in [Thread -> {"idle", "prepare", "budget", "emplace"}]
  /\ hand \in [Thread -> Segment \cup Chunk \cup BOOLEAN \cup {None}]
  /\ releasing \in [Thread -> Seq([segment : Segment, next : ReleaseStep])]
  /\ chunkOf \in [Unpooled -> Chunk \cup {None}]
  /\ chunks \in [Chunk -> [owner : Thread \cup {None}, active : Nat, used : Nat]]
  /\ last \in [Thread -> Chunk \cup {None}]
  /\ allocated \subseteq Chunk /\ bytes \in Nat

Init ==
  /\ refs = [b \in Segment |-> 0] /\ held = [t \in Thread |-> {}]
  /\ children = [b \in Segment |-> {}] /\ recycler = {}
  /\ available = Pooled /\ provider = Thread /\ destroyed = FALSE
  /\ at = [t \in Thread |-> "idle"] /\ hand = [t \in Thread |-> None]
  /\ releasing = [t \in Thread |-> <<>>]
  /\ chunkOf = [u \in Unpooled |-> None]
  /\ chunks = [c \in Chunk |-> Gone]
  /\ last = [t \in Thread |-> None]
  /\ allocated = {} /\ bytes = 0

Idle(t) == at[t] = "idle" /\ releasing[t] = <<>>
Goto(t, place, what) == at' = [at EXCEPT ![t] = place] /\ hand' = [hand EXCEPT ![t] = what]

-----------------------------------------------------------------------------
\* The pool

\* getBufferNoBlocking, getBufferWithTimeout: a segment is read from the queue,
Dequeue(t) ==
  /\ Idle(t) /\ t \in provider
  /\ \E b \in available : available' = available \ {b} /\ Goto(t, "prepare", b)
  /\ UNCHANGED <<countVars, provider, destroyed, releasing, chunkVars>>

\* and its control block prepared: the counter goes from 0 to 1.
Prepare(t) ==
  /\ at[t] = "prepare"
  /\ LET b == hand[t]
     IN  /\ refs[b] = 0
         /\ refs' = [refs EXCEPT ![b] = 1]
         /\ recycler' = recycler \cup {b}
         /\ held' = [held EXCEPT ![t] = @ \cup {b}]
  /\ Goto(t, "idle", None)
  /\ UNCHANGED <<children, poolVars, releasing, chunkVars>>

\* A copy of a TupleBuffer is given to another thread.
Copy(t, u, b) ==
  /\ Idle(t) /\ b \in held[t] /\ b \notin held[u]
  /\ refs' = [refs EXCEPT ![b] = @ + 1]
  /\ held' = [held EXCEPT ![u] = @ \cup {b}]
  /\ UNCHANGED <<children, recycler, poolVars, at, hand, releasing, chunkVars>>

Frame(b) == [segment |-> b, next |-> "children"]

\* release: who takes the count to 0 recycles the segment.
FetchSub(t, b, frames) ==
  /\ refs' = [refs EXCEPT ![b] = @ - 1]
  /\ releasing' = [releasing EXCEPT ![t] = IF refs[b] = 1 THEN Append(frames, Frame(b)) ELSE frames]

\* As StoreChild, but the count of the child is not raised.
StoreWithoutRetain(t, p, b) ==
  /\ Idle(t) /\ p \in held[t] /\ b \in held[t] /\ p # b
  /\ b \notin children[p]
  /\ children' = [children EXCEPT ![p] = @ \cup {b}]
  /\ held' = [held EXCEPT ![t] = @ \ {b}]
  /\ FetchSub(t, b, <<>>)
  /\ UNCHANGED <<recycler, poolVars, at, hand, chunkVars>>

\* storeChildBuffer: the count of the child is raised, and lowered again with the object that
\* was passed.  The child may have children of its own and the parent may be shared.
StoreChild(t, p, b) ==
  /\ Idle(t) /\ p \in held[t] /\ b \in held[t] /\ p # b
  /\ b \notin children[p]
  /\ children' = [children EXCEPT ![p] = @ \cup {b}]
  /\ held' = [held EXCEPT ![t] = @ \ {b}]
  /\ UNCHANGED <<refs, recycler, poolVars, at, hand, releasing, chunkVars>>

\* loadChildBuffer
LoadChild(t, p, b) ==
  /\ Idle(t) /\ p \in held[t] /\ b \in children[p] \ held[t]
  /\ refs' = [refs EXCEPT ![b] = @ + 1]
  /\ held' = [held EXCEPT ![t] = @ \cup {b}]
  /\ UNCHANGED <<children, recycler, poolVars, at, hand, releasing, chunkVars>>

\* ~TupleBuffer
Release(t, b) ==
  /\ Idle(t) /\ b \in held[t]
  /\ held' = [held EXCEPT ![t] = @ \ {b}]
  /\ FetchSub(t, b, <<>>)
  /\ UNCHANGED <<children, recycler, poolVars, at, hand, chunkVars>>

\* The innermost of the nested release calls of a thread, and the calls around it.
Last(calls) == calls[Len(calls)]
Front(calls) == SubSeq(calls, 1, Len(calls) - 1)

InStep(t, next) == releasing[t] # <<>> /\ Last(releasing[t]).next = next
Releasing(t) == Last(releasing[t]).segment
NextFrame(t, next) == Append(Front(releasing[t]), [segment |-> Releasing(t), next |-> next])

\* The children are released first, each in the same way.
ReleaseChild(t) ==
  /\ InStep(t, "children")
  /\ \E b \in children[Releasing(t)] :
       /\ children' = [children EXCEPT ![Releasing(t)] = @ \ {b}]
       /\ FetchSub(t, b, releasing[t])
  /\ UNCHANGED <<held, recycler, poolVars, at, hand, chunkVars>>

\* Then the shared_ptr to the manager is taken out of the control block.
TakeRecycler(t) ==
  /\ InStep(t, "children") /\ children[Releasing(t)] = {}
  /\ recycler' = recycler \ {Releasing(t)}
  /\ releasing' = [releasing EXCEPT ![t] = NextFrame(t, "recycle")]
  /\ UNCHANGED <<refs, held, children, poolVars, at, hand, chunkVars>>

\* As ManagerAlive, but a release does not keep what it has taken.
ManagerAliveWithoutReleases(threads, blocks, frames) == threads # {} \/ blocks # {}

\* The manager lives as long as somebody has a shared_ptr to it: a thread, a control block
\* in use, or a release that has taken it from the control block.
ManagerAlive(threads, blocks, frames) ==
  \/ threads # {}
  \/ blocks # {}
  \/ \E t \in Thread : \E i \in DOMAIN frames[t] : frames[t][i].next # "children"

\* recyclePooledBuffer
RecyclePooled(t) ==
  /\ InStep(t, "recycle") /\ Releasing(t) \in Pooled
  /\ available' = available \cup {Releasing(t)}
  /\ releasing' = [releasing EXCEPT ![t] = NextFrame(t, "drop")]
  /\ UNCHANGED <<countVars, provider, destroyed, at, hand, chunkVars>>

\* The release ends and drops its shared_ptr; the last one destroys the manager.
DropRecycler(t) ==
  /\ InStep(t, "drop")
  /\ releasing' = [releasing EXCEPT ![t] = Front(@)]
  /\ destroyed' = ~ManagerAlive(provider, recycler, releasing')
  /\ UNCHANGED <<countVars, available, provider, at, hand, chunkVars>>

DropProvider(t) ==
  /\ Idle(t) /\ t \in provider
  /\ provider' = provider \ {t}
  /\ destroyed' = ~ManagerAlive(provider', recycler, releasing)
  /\ UNCHANGED <<countVars, available, at, hand, releasing, chunkVars>>

-----------------------------------------------------------------------------
\* Unpooled buffers.  A thread takes space from its own chunks, under the lock of its
\* UnpooledChunk; any thread may release.

\* allocateSpace: the last chunk has room,
TakeSpace(t) ==
  /\ Idle(t) /\ t \in provider
  /\ last[t] # None /\ chunks[last[t]].used < SegmentsPerChunk
  /\ chunks' = [chunks EXCEPT ![last[t]].active = @ + 1, ![last[t]].used = @ + 1]
  /\ Goto(t, "emplace", last[t])
  /\ UNCHANGED <<countVars, poolVars, releasing, chunkOf, last, allocated, bytes>>

\* or a new chunk is charged to the budget first, in a counter that all threads share.
ChargeBudget(t) ==
  /\ Idle(t) /\ t \in provider
  /\ last[t] # None => chunks[last[t]].used >= SegmentsPerChunk
  /\ bytes' = bytes + 1
  /\ Goto(t, "budget", bytes < Budget)
  /\ UNCHANGED <<countVars, poolVars, releasing, chunkOf, chunks, last, allocated>>

\* As Refuse, but the charge stays.
RefuseWithoutRefund(t) ==
  /\ at[t] = "budget"
  /\ Goto(t, "idle", None)
  /\ UNCHANGED <<countVars, poolVars, releasing, chunkVars>>

\* Over the budget, or the allocator fails: the charge is taken back.
Refuse(t) ==
  /\ at[t] = "budget"
  /\ bytes' = bytes - 1
  /\ Goto(t, "idle", None)
  /\ UNCHANGED <<countVars, poolVars, releasing, chunkOf, chunks, last, allocated>>

AllocateChunk(t) ==
  /\ at[t] = "budget" /\ hand[t] = TRUE
  /\ \E c \in Chunk \ allocated :
       /\ allocated' = allocated \cup {c}
       /\ chunks' = [chunks EXCEPT ![c] = [owner |-> t, active |-> 1, used |-> 1]]
       /\ last' = [last EXCEPT ![t] = c]
       /\ Goto(t, "emplace", c)
  /\ UNCHANGED <<countVars, poolVars, releasing, chunkOf, bytes>>

\* getUnpooledBuffer: the lock is taken again to enter the new segment into its chunk, and the
\* control block is prepared.
Emplace(t) ==
  /\ at[t] = "emplace"
  /\ \E u \in Unpooled :
       /\ chunkOf[u] = None
       /\ chunkOf' = [chunkOf EXCEPT ![u] = hand[t]]
       /\ refs' = [refs EXCEPT ![u] = 1]
       /\ recycler' = recycler \cup {u}
       /\ held' = [held EXCEPT ![t] = @ \cup {u}]
  /\ Goto(t, "idle", None)
  /\ UNCHANGED <<children, poolVars, releasing, chunks, last, allocated, bytes>>

\* As RecycleUnpooled, but it is the segments that were entered, not those for which space was
\* taken, that keep the chunk.
RecycleByEntries(t) ==
  /\ InStep(t, "recycle") /\ Releasing(t) \in Unpooled
  /\ LET c == chunkOf[Releasing(t)]
         owner == chunks[c].owner
         left == Cardinality({u \in recycler \cap Unpooled : chunkOf[u] = c})
     IN  /\ at[owner] # "budget"
         /\ IF left = 0
            THEN /\ chunks' = [chunks EXCEPT ![c] = Gone]
                 /\ last' = [last EXCEPT ![owner] = None]
            ELSE /\ chunks' = [chunks EXCEPT ![c].active = @ - 1]
                 /\ last' = last
         /\ releasing' = [releasing EXCEPT ![t] = NextFrame(t, IF left = 0 THEN "deallocate" ELSE "drop")]
  /\ UNCHANGED <<countVars, poolVars, at, hand, chunkOf, allocated, bytes>>

\* The recycle callback of an unpooled segment, under the lock of its chunk's owner: the last one
\* to go takes the chunk out of the map.
RecycleUnpooled(t) ==
  /\ InStep(t, "recycle") /\ Releasing(t) \in Unpooled
  /\ LET c == chunkOf[Releasing(t)]
         owner == chunks[c].owner
         left == chunks[c].active - 1
     IN  /\ at[owner] # "budget"
         /\ IF left = 0
            THEN /\ chunks' = [chunks EXCEPT ![c] = Gone]
                 /\ last' = [last EXCEPT ![owner] = None]
            ELSE /\ chunks' = [chunks EXCEPT ![c].active = left]
                 /\ last' = last
         /\ releasing' = [releasing EXCEPT ![t] = NextFrame(t, IF left = 0 THEN "deallocate" ELSE "drop")]
  /\ UNCHANGED <<countVars, poolVars, at, hand, chunkOf, allocated, bytes>>

\* After the unlock the memory goes back to the allocator, and its segments with it,
Deallocate(t) ==
  /\ InStep(t, "deallocate")
  /\ LET c == chunkOf[Releasing(t)]
     IN  /\ allocated' = allocated \ {c}
         /\ chunkOf' = [u \in Unpooled |-> IF chunkOf[u] = c THEN None ELSE chunkOf[u]]
  /\ releasing' = [releasing EXCEPT ![t] = NextFrame(t, "account")]
  /\ UNCHANGED <<countVars, poolVars, at, hand, chunks, last, bytes>>

\* and then to the budget.
Account(t) ==
  /\ InStep(t, "account")
  /\ bytes' = bytes - 1
  /\ releasing' = [releasing EXCEPT ![t] = NextFrame(t, "drop")]
  /\ UNCHANGED <<countVars, poolVars, at, hand, chunkOf, chunks, last, allocated>>

-----------------------------------------------------------------------------
Get(t) == Dequeue(t) \/ TakeSpace(t) \/ ChargeBudget(t)
FinishGet(t) == Prepare(t) \/ Refuse(t) \/ AllocateChunk(t) \/ Emplace(t)
FinishRelease(t) == \/ ReleaseChild(t) \/ TakeRecycler(t) \/ RecyclePooled(t) \/ RecycleUnpooled(t)
                    \/ Deallocate(t) \/ Account(t) \/ DropRecycler(t)
Use(t) == \E b \in Segment :
  \/ Release(t, b)
  \/ \E u \in Thread : Copy(t, u, b)
  \/ \E p \in Segment : StoreChild(t, p, b) \/ LoadChild(t, p, b)

Next == \E t \in Thread : Get(t) \/ FinishGet(t) \/ Use(t) \/ FinishRelease(t) \/ DropProvider(t)

Spec == Init /\ [][Next]_vars

-----------------------------------------------------------------------------
Holders(b) == {t \in Thread : b \in held[t]}
Parents(b) == {p \in Segment : b \in children[p]}
ReferencesAreCounted == \A b \in Segment : refs[b] = Cardinality(Holders(b)) + Cardinality(Parents(b))
PoolIsClean == \A b \in available : refs[b] = 0 /\ b \notin recycler /\ children[b] = {}

\* The reference count of a segment is the number of TupleBuffer objects and of parents that
\* refer to it, whatever threads copy, store, load and release at the same time; and an idle segment
\* of the pool has no reference, no children and no owner, which prepare (TupleBufferImpl.cpp:138-141)
\* and recyclePooledBuffer (BufferManager.cpp:273-275) insist on.
CountIsExact == TypeOK /\ ReferencesAreCounted /\ PoolIsClean

Recycling(b) == \E t \in Thread : InStep(t, "recycle") /\ Releasing(t) = b

\* The chunk of an unpooled segment is not deallocated while the segment is in use or is about to be
\* entered into it (chunks.at in UnpooledChunksManager.cpp:53), although any thread may release
\* the others meanwhile.
ChunksOutliveTheirSegments ==
  /\ \A u \in Unpooled :
       u \in recycler \/ Recycling(u) => chunkOf[u] \in allocated /\ chunks[chunkOf[u]] # Gone
  /\ \A t \in Thread : at[t] = "emplace" => hand[t] \in allocated /\ chunks[hand[t]] # Gone

Charged == {t \in Thread : at[t] = "budget"}
Accounting == {t \in Thread : InStep(t, "account")}

\* Budget: the chunks that are allocated never exceed it, however the charges, refusals and
\* refunds of the threads interleave, and every charge is for a chunk or will be taken back.
BudgetIsKept ==
  /\ Cardinality(allocated) <= Budget
  /\ bytes = Cardinality(allocated) + Cardinality(Charged) + Cardinality(Accounting)

\* When the last owner is gone, be it a thread or the release of a buffer, all buffers are back:
\* the INVARIANT of BufferManager::destroy (BufferManager.cpp:120).
DestroyFindsAllBuffers == destroyed => available = Pooled /\ \A b \in Segment : refs[b] = 0

-----------------------------------------------------------------------------
(* The inductive invariant *)

Preparing(t, b) == at[t] = "prepare" /\ hand[t] = b

\* What is referred to, or has children, has an owner.
UsedSegmentsAreOwned ==
  \A b \in Segment : refs[b] > 0 \/ children[b] # {} => b \in recycler

\* A release waits for the ones that it has started.
InnermostGoesFirst ==
  \A t \in Thread : \A i \in 1 .. Len(releasing[t]) - 1 : releasing[t][i].next = "children"

\* What the frame of a release says of its segment,
FrameIsSound(f) ==
  /\ f.next = "children" => f.segment \in recycler /\ refs[f.segment] = 0
  /\ f.next = "recycle" => /\ f.segment \notin recycler \cup available
                           /\ f.segment \in Unpooled => chunkOf[f.segment] # None
  /\ f.next = "deallocate" => /\ f.segment \in Unpooled /\ chunkOf[f.segment] # None
                              /\ chunks[chunkOf[f.segment]] = Gone
FramesAreSound == \A t \in Thread : \A i \in 1 .. Len(releasing[t]) : FrameIsSound(releasing[t][i])

\* and that no two frames release the same segment or deallocate the same chunk.
Disjoint(f, g) ==
  /\ {f.next, g.next} \subseteq {"children", "recycle"} => f.segment # g.segment
  /\ f.next = "deallocate" /\ g.next = "deallocate" => chunkOf[f.segment] # chunkOf[g.segment]
FramesAreDisjoint ==
  \A t, u \in Thread : \A i \in 1 .. Len(releasing[t]), j \in 1 .. Len(releasing[u]) :
    <<t, i>> # <<u, j>> => Disjoint(releasing[t][i], releasing[u][j])

\* A thread in getBuffer is in no release and has the manager.
GettersHaveTheManager ==
  \A t \in Thread : at[t] # "idle" => releasing[t] = <<>> /\ t \in provider

\* Where a segment of the pool is: one thread prepares it, or it is available, in use or recycled.
PreparedByOne ==
  \A t \in Thread : at[t] = "prepare" =>
    /\ hand[t] \in Pooled \ (available \cup recycler)
    /\ ~Recycling(hand[t])
    /\ \A u \in Thread \ {t} : ~Preparing(u, hand[t])
NoSegmentIsLost ==
  \A b \in Pooled \ (available \cup recycler) : Recycling(b) \/ \E t \in Thread : Preparing(t, b)
DestroyedIsDead == destroyed => ~ManagerAlive(provider, recycler, releasing)

\* The segments and the threads that the counter of a chunk stands for.
Residents(c) == {u \in Unpooled : chunkOf[u] = c /\ (u \in recycler \/ Recycling(u))}
Entering(c) == {t \in Thread : at[t] = "emplace" /\ hand[t] = c}
ChunksAreCounted ==
  \A c \in Chunk :
    /\ chunks[c].active = Cardinality(Residents(c)) + Cardinality(Entering(c))
    /\ chunks[c] # Gone => c \in allocated /\ chunks[c].owner \in Thread
ChunksAreKnown ==
  /\ \A u \in Unpooled : /\ chunkOf[u] # None => chunkOf[u] \in allocated
                         /\ u \in recycler => chunkOf[u] # None
  /\ \A t \in Thread : /\ at[t] = "emplace" => hand[t] \in Chunk
                       /\ last[t] # None => chunks[last[t]].owner = t

\* What has been granted and not yet been allocated fits into the budget, too.
Granted == {t \in Thread : at[t] = "budget" /\ hand[t] = TRUE}
GrantsFit == IsFiniteSet(allocated) /\ Cardinality(allocated) + Cardinality(Granted) <= Budget

IInv ==
  /\ CountIsExact /\ UsedSegmentsAreOwned
  /\ InnermostGoesFirst /\ FramesAreSound /\ FramesAreDisjoint
  /\ GettersHaveTheManager /\ PreparedByOne /\ NoSegmentIsLost /\ DestroyedIsDead
  /\ ChunksAreCounted /\ ChunksAreKnown
  /\ GrantsFit /\ BudgetIsKept
=============================================================================
