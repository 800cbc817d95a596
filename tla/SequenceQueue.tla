---------------------------- MODULE SequenceQueue ----------------------------
(***************************************************************************)
(* The watermark of the input origins (NonBlockingMonotonicSeqQueue.hpp,   *)
(* ChunkCollector.hpp, MultiOriginWatermarkProcessor.cpp).  Workers        *)
(* report, in any order, the watermark of every chunk of every sequence    *)
(* number; an origin's current value is the watermark of the last sequence *)
(* number before the first gap.  Nothing is locked: a worker stores its    *)
(* value and then advances the current sequence number for everybody.  The *)
(* workers and their tasks are those of the module that extends this one.  *)
(***************************************************************************)
EXTENDS Integers, Sequences, FiniteSets, FiniteSetsExt

CONSTANTS
    Worker,
    Origins,        \* the sequence of the input origins
    Input,          \* the chunks: [origin, sn, number, last, ts], number from 1
    BlockSize       \* slots in a block of the queue

VARIABLES
    worker,         \* where each worker is, its task and local variables
    collected,      \* ChunkCollector: merged value and counter of a sequence number
    slot,           \* the queue's slots: is the number stored, and the value
    currentSeq,     \* ... by origin
    head            \* the block the queue's head points to, by origin

queueVars == <<collected, slot, currentSeq, head>>

Origin == {Origins[i] : i \in DOMAIN Origins}
Sequence(o) == {c.sn : c \in {d \in Input : d.origin = o}}
Key == {<<c.origin, c.sn>> : c \in Input}
Chunks(k) == {c \in Input : <<c.origin, c.sn>> = k}

ASSUME OriginsAreListed == Origins \in Seq(Origin) /\ Origins # <<>>
ASSUME BlocksHaveSlots == BlockSize \in Nat \ {0}

\* What the sources and the operators before promise: numbers count from one,
\* and the last chunk of a sequence number has the number of its chunks.
ASSUME InputIsOrderly ==
    /\ IsFiniteSet(Input)
    /\ Input \subseteq [origin : Origin, sn : Nat \ {0}, number : Nat \ {0}, last : BOOLEAN, ts : Nat]
    /\ \A c, d \in Input : c.last /\ c.origin = d.origin /\ c.sn = d.sn =>
            /\ c.number = Cardinality(Chunks(<<c.origin, c.sn>>))
            /\ d.last => d = c

KeyOf(w) == <<worker[w].task.origin, worker[w].task.sn>>
At(w, place) == worker[w].at = place
Goto(w, place) == worker' = [worker EXCEPT ![w].at = place]

\* Slot 0 holds the value before the first sequence number: zero.
QueueInit ==
    /\ collected = [k \in Key |-> [value |-> 0, counter |-> 0]]
    /\ slot = [k \in Key \cup {<<o, 0>> : o \in Origin} |-> [set |-> k[2] = 0, value |-> 0]]
    /\ currentSeq = [o \in Origin |-> 0]
    /\ head = [o \in Origin |-> 0]

-----------------------------------------------------------------------------
\* Chunk::update merges the chunk's watermark into the sequence number's: the
\* compare-and-exchange loop for the maximum.  A chunk without a record has
\* the initial watermark, zero.
MergeWatermark(w) ==
    /\ At(w, "merge")
    /\ collected' = [collected EXCEPT ![KeyOf(w)].value = Max({@, worker[w].task.ts})]
    /\ Goto(w, "count")
    /\ UNCHANGED <<slot, currentSeq, head>>

\* As Counted, but the last chunk completes the sequence number.
CountedByLast(counter, task) == IF task.last THEN 0 ELSE counter - 1

\* The last chunk adds the number of the chunks before it, every other chunk
\* takes one away: the counter is back at zero when all were seen.
Counted(counter, task) == IF task.last THEN counter + task.number - 1 ELSE counter - 1

\* The worker that completes a sequence number stores it in the queue, any
\* other goes on to read the current value.
CountChunk(w) ==
    LET now == Counted(collected[KeyOf(w)].counter, worker[w].task)
    IN  /\ At(w, "count")
        /\ collected' = [collected EXCEPT ![KeyOf(w)].counter = now]
        /\ worker' = [worker EXCEPT ![w].at = IF now = 0 THEN "storeSeq" ELSE "read",
                                    ![w].value = IF now = 0 THEN collected[KeyOf(w)].value ELSE 0]
        /\ UNCHANGED <<slot, currentSeq, head>>

\* emplaceValueInBlock: two relaxed stores, the number before the value.
StoreSeq(w) ==
    /\ At(w, "storeSeq")
    /\ slot' = [slot EXCEPT ![KeyOf(w)].set = TRUE]
    /\ Goto(w, "storeValue")
    /\ UNCHANGED <<collected, currentSeq, head>>

StoreValue(w) ==
    /\ At(w, "storeValue")
    /\ slot' = [slot EXCEPT ![KeyOf(w)].value = worker[w].value]
    /\ Goto(w, "shift")
    /\ UNCHANGED <<collected, currentSeq, head>>

Ready(o) == \E k \in Key : k = <<o, currentSeq[o] + 1>> /\ slot[k].set

\* As ShiftCurrentValue, but without looking for a further sequence number.
ShiftOnce(w) ==
    LET o == worker[w].task.origin
        next == currentSeq[o] + 1
    IN  /\ At(w, "shift")
        /\ \/ /\ Ready(o)
              /\ currentSeq' = [currentSeq EXCEPT ![o] = next]
              /\ Goto(w, IF next % BlockSize = 0 THEN "moveHead" ELSE "read")
           \/ /\ ~Ready(o)
              /\ Goto(w, "read")
              /\ UNCHANGED currentSeq
        /\ UNCHANGED <<collected, slot, head>>

\* One round of shiftCurrentValue: it advances the current sequence number if
\* the next one is stored.  A lost compare-and-exchange is another round.
ShiftCurrentValue(w) ==
    LET o == worker[w].task.origin
        next == currentSeq[o] + 1
    IN  /\ At(w, "shift")
        /\ \/ /\ Ready(o)
              /\ currentSeq' = [currentSeq EXCEPT ![o] = next]
              /\ worker' = [worker EXCEPT ![w].at = IF next % BlockSize = 0 THEN "moveHead" ELSE @,
                                          ![w].value = next \div BlockSize]
           \/ /\ ~Ready(o)
              /\ Goto(w, "read")
              /\ UNCHANGED currentSeq
        /\ UNCHANGED <<collected, slot, head>>

\* The worker that advanced into a new block moves the head there, if the head
\* is still at the block before it.
MoveHead(w) ==
    LET o == worker[w].task.origin
    IN  /\ At(w, "moveHead")
        /\ head' = [head EXCEPT ![o] = IF @ = worker[w].value - 1 THEN worker[w].value ELSE @]
        /\ Goto(w, "shift")
        /\ UNCHANGED <<collected, slot, currentSeq>>

\* getCurrentWatermark reads one origin after the other and takes the minimum.
ReadWatermark(w) ==
    LET o == Origins[Len(worker[w].seen) + 1]
        seen == Append(worker[w].seen, slot[<<o, currentSeq[o]>>].value)
    IN  /\ At(w, "read")
        /\ worker' = [worker EXCEPT ![w].seen = seen,
                                    ![w].at = IF Len(seen) = Len(Origins) THEN "trigger" ELSE @]
        /\ UNCHANGED queueVars

Watermark(w) == Min({worker[w].seen[i] : i \in DOMAIN worker[w].seen})

UpdateWatermark(w) ==
    \/ MergeWatermark(w) \/ CountChunk(w)
    \/ StoreSeq(w) \/ StoreValue(w)
    \/ ShiftCurrentValue(w) \/ MoveHead(w)
    \/ ReadWatermark(w)

-----------------------------------------------------------------------------
Updating(o) == {w \in Worker : worker[w].at \in {"storeSeq", "storeValue", "shift", "moveHead"}
                                /\ worker[w].task.origin = o}

\* A sequence number stored out of order is not forgotten: when no worker is
\* storing or shifting, the current sequence number is the last before the
\* first gap.
NoShiftIsLost ==
    \A o \in Origin : Updating(o) = {} => ~Ready(o)

=============================================================================
