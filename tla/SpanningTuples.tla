--------------------------- MODULE SpanningTuples ---------------------------
(***************************************************************************)
(* The input formatter's resolution of spanning tuples                     *)
(* (SpanningTupleBuffer.cpp, SpanningTupleBufferState.cpp).  Raw buffers,  *)
(* numbered 1, 2, ... by their source, are formatted by any worker in any  *)
(* order.  A tuple that runs over several buffers starts in a buffer with  *)
(* a tuple delimiter and ends in the next one that has a delimiter.  The   *)
(* workers share a ring of entries, without a lock: a worker publishes its *)
(* buffer in the ring, searches for tuples its buffer completes, and must  *)
(* win a compare-and-exchange on the first buffer to process the tuple.    *)
(***************************************************************************)
EXTENDS Integers, Sequences

CONSTANTS
    Worker,
    RingSize,        \* INITIAL_SIZE_OF_SPANNING_TUPLE_BUFFER
    Last             \* the number of raw buffers of the stream

\* The search to the left subtracts with wrap-around (SpanningTupleBuffer.cpp:166),
\* which is right for a ring whose size divides the range of size_t.
ASSUME RingType == RingSize \in Nat /\ RingSize > 1
ASSUME RingIsAPowerOfTwo == \E k \in 1..30 : RingSize = 2^k
ASSUME StreamIsNotEmpty == Last \in Nat \ {0}

VARIABLES
    delimited,  \* the buffers that hold a tuple delimiter; 0 is the sentinel
    entry,      \* the ring of SpanningTupleBufferEntry
    todo,       \* the buffers whose task is in the task queue
    worker,     \* where each worker is
    resolved    \* history: the spanning tuples handed to a worker

vars == <<delimited, entry, todo, worker, resolved>>

Buffer == 1..Last
Null == 0       \* an empty TupleBuffer; also what the sentinel holds

Index(sn) == sn % RingSize
ABAItNo(sn) == sn \div RingSize + 1

\* The entry with an atomic state that has only the iteration number and the
\* delimiter bit, and both buffer references.
Fresh(sn) ==
    [aba |-> ABAItNo(sn), delimiter |-> sn \in delimited, claimed |-> FALSE, usedLeading |-> FALSE,
     usedTrailing |-> FALSE, leading |-> sn, trailing |-> sn]

DefaultEntry == [aba |-> 0, delimiter |-> FALSE, claimed |-> TRUE, usedLeading |-> TRUE,
                 usedTrailing |-> TRUE, leading |-> Null, trailing |-> Null]

FirstEntry == [aba |-> 1, delimiter |-> TRUE, claimed |-> FALSE, usedLeading |-> TRUE,
               usedTrailing |-> FALSE, leading |-> Null, trailing |-> Null]

\* at: the distance of a search, or the offset of a claim; first and final:
\* the ends of the tuple found; buffers: what has been taken of it.
Idle == [at |-> "idle", sn |-> 0, distance |-> 0, first |-> 0, final |-> 0, buffers |-> <<>>]

Init ==
    /\ delimited \in {{0} \cup d : d \in SUBSET Buffer}
    /\ entry = [i \in 0..(RingSize - 1) |-> IF i = 0 THEN FirstEntry ELSE DefaultEntry]
    /\ todo = Buffer
    /\ worker = [w \in Worker |-> Idle]
    /\ resolved = {}

-----------------------------------------------------------------------------
At(w, place) == worker[w].at = place

Goto(w, place) == worker' = [worker EXCEPT ![w].at = place]

\* The search of tryFindTrailingSpanningTupleForBufferWithDelimiter, for the
\* tuple that starts in the worker's buffer.
TrailingSearch(r) == [r EXCEPT !.at = "searchTrailing", !.distance = 1, !.first = r.sn, !.buffers = <<>>]

\* As AfterResolving, but a buffer that completed a tuple starts none.
AfterResolvingOne(r) ==
    IF r.sn \in delimited /\ r.first # r.sn /\ r.buffers = <<>> THEN TrailingSearch(r) ELSE Idle

\* What the task does after a search or a tuple: a buffer with a delimiter
\* goes on to the tuple it starts, unless that is the one just dealt with.
AfterResolving(r) ==
    IF r.sn \in delimited /\ r.first # r.sn THEN TrailingSearch(r) ELSE Idle

-----------------------------------------------------------------------------
\* As UsedUp, but the leading use is forgotten.
UsedUpByTrailing(sn) ==
    LET e == entry[Index(sn)]
    IN  e.aba = ABAItNo(sn) - 1 /\ e.usedTrailing

\* As UsedUp, but only an entry that started a tuple is ever used up.
UsedUpIfClaimed(sn) ==
    LET e == entry[Index(sn)]
    IN  e.aba = ABAItNo(sn) - 1 /\ e.claimed /\ e.usedLeading /\ e.usedTrailing

UsedUp(sn) ==
    LET e == entry[Index(sn)]
    IN  e.aba = ABAItNo(sn) - 1 /\ e.usedLeading /\ e.usedTrailing

\* A worker takes the task of a buffer and finds the entry used up.  If it is
\* not, the buffer is out of range and its task is repeated: nothing changes.
BeginBuffer(w, sn) ==
    /\ At(w, "idle")
    /\ sn \in todo
    /\ UsedUp(sn)
    /\ todo' = todo \ {sn}
    /\ worker' = [worker EXCEPT ![w] = [Idle EXCEPT !.at = "set", !.sn = sn]]
    /\ UNCHANGED <<delimited, entry, resolved>>

\* setBuffersAndOffsets
SetBuffers(w) ==
    LET sn == worker[w].sn
    IN  /\ At(w, "set")
        /\ entry' = [entry EXCEPT ![Index(sn)].leading = sn, ![Index(sn)].trailing = sn]
        /\ Goto(w, "publish")
        /\ UNCHANGED <<delimited, todo, resolved>>

\* setHasTupleDelimiterState and setNoTupleDelimiterState: one store of the
\* whole atomic state.
Publish(w) ==
    LET sn == worker[w].sn
        refs == entry[Index(sn)]
    IN  /\ At(w, "publish")
        /\ entry' = [entry EXCEPT ![Index(sn)] =
                        [Fresh(sn) EXCEPT !.leading = refs.leading, !.trailing = refs.trailing]]
        /\ worker' = [worker EXCEPT ![w].at = "searchLeading", ![w].distance = 1]
        /\ UNCHANGED <<delimited, todo, resolved>>

-----------------------------------------------------------------------------
\* The entry a search reads at its distance, and the iteration it expects.
LeadingIndex(sn, distance) == (Index(sn) + RingSize - distance) % RingSize
LeadingABA(sn, distance) == IF Index(sn) < distance THEN ABAItNo(sn) - 1 ELSE ABAItNo(sn)
TrailingIndex(sn, distance) == (Index(sn) + distance) % RingSize
TrailingABA(sn, distance) == IF Index(sn) + distance >= RingSize THEN ABAItNo(sn) + 1 ELSE ABAItNo(sn)

\* One round of the loop of searchLeading.  A buffer with a delimiter that
\* finds one before it has a whole tuple; one without must also search on.
SearchLeading(w) ==
    LET r == worker[w]
        e == entry[LeadingIndex(r.sn, r.distance)]
        found == [r EXCEPT !.first = r.sn - r.distance, !.final = r.sn]
    IN  /\ At(w, "searchLeading")
        /\ worker' = [worker EXCEPT ![w] =
             CASE e.aba # LeadingABA(r.sn, r.distance) -> AfterResolving(r)
               [] e.aba = LeadingABA(r.sn, r.distance) /\ ~e.delimiter -> [r EXCEPT !.distance = @ + 1]
               [] OTHER -> IF r.sn \in delimited
                           THEN [found EXCEPT !.at = "claim"]
                           ELSE [found EXCEPT !.at = "searchTrailing", !.distance = 1]]
        /\ UNCHANGED <<delimited, entry, todo, resolved>>

\* One round of the loop of searchTrailing.
SearchTrailing(w) ==
    LET r == worker[w]
        e == entry[TrailingIndex(r.sn, r.distance)]
    IN  /\ At(w, "searchTrailing")
        /\ worker' = [worker EXCEPT ![w] =
             CASE e.aba # TrailingABA(r.sn, r.distance) -> Idle
               [] e.aba = TrailingABA(r.sn, r.distance) /\ ~e.delimiter -> [r EXCEPT !.distance = @ + 1]
               [] OTHER -> [r EXCEPT !.at = "claim", !.final = r.sn + r.distance]]
        /\ UNCHANGED <<delimited, entry, todo, resolved>>

-----------------------------------------------------------------------------
Claimable(first) ==
    /\ entry[Index(first)].aba = ABAItNo(first)
    /\ ~entry[Index(first)].claimed

\* AtomicState::tryClaimSpanningTuple: the compare-and-exchange loop, which
\* takes effect at its last exchange.
TryClaim(w) ==
    LET r == worker[w]
    IN  /\ At(w, "claim")
        /\ \/ /\ Claimable(r.first)
              /\ entry' = [entry EXCEPT ![Index(r.first)].claimed = TRUE]
              /\ Goto(w, "takeFirst")
           \/ /\ ~Claimable(r.first)
              /\ worker' = [worker EXCEPT ![w] = AfterResolving(r)]
              /\ UNCHANGED entry
        /\ UNCHANGED <<delimited, todo, resolved>>

\* As TakeFirst, but from the reference kept for the tuple that ends here.
TakeFirstLeading(w) ==
    LET r == worker[w]
        i == Index(r.first)
    IN  /\ At(w, "takeFirst")
        /\ worker' = [worker EXCEPT ![w].at = "markFirst", ![w].buffers = <<entry[i].leading>>]
        /\ entry' = [entry EXCEPT ![i].trailing = Null]
        /\ UNCHANGED <<delimited, todo, resolved>>

\* The winner moves the reference out of the first entry (the sentinel's is
\* empty) and then marks its trailing use.
TakeFirst(w) ==
    LET r == worker[w]
        i == Index(r.first)
    IN  /\ At(w, "takeFirst")
        /\ worker' = [worker EXCEPT ![w].at = "markFirst", ![w].buffers = <<entry[i].trailing>>]
        /\ entry' = [entry EXCEPT ![i].trailing = Null]
        /\ UNCHANGED <<delimited, todo, resolved>>

MarkFirst(w) ==
    /\ At(w, "markFirst")
    /\ entry' = [entry EXCEPT ![Index(worker[w].first)].usedTrailing = TRUE]
    /\ Goto(w, "take")
    /\ UNCHANGED <<delimited, todo, resolved>>

-----------------------------------------------------------------------------
\* The buffer claimSpanningTupleBuffers is at.
NextOf(r) == r.first + Len(r.buffers)

\* claimNoDelimiterBuffer and claimLeadingBuffer take the references: both of
\* a buffer inside the tuple, the leading one of the buffer that ends it.
Take(w) ==
    LET r == worker[w]
        i == Index(NextOf(r))
    IN  /\ At(w, "take")
        /\ worker' = [worker EXCEPT ![w].at = "mark", ![w].buffers = Append(@, entry[i].leading)]
        /\ entry' = [entry EXCEPT ![i].leading = Null,
                                  ![i].trailing = IF NextOf(r) = r.final THEN @ ELSE Null]
        /\ UNCHANGED <<delimited, todo, resolved>>

\* The uses a buffer of the tuple has had once it is taken.
Used(e, sn, final) ==
    [e EXCEPT !.usedLeading = TRUE, !.usedTrailing = IF sn = final THEN @ ELSE TRUE]

\* They then mark the uses; after the last buffer the tuple is the worker's.
Mark(w) ==
    LET r == worker[w]
        sn == r.first + Len(r.buffers) - 1
    IN  /\ At(w, "mark")
        /\ entry' = [entry EXCEPT ![Index(sn)] = Used(@, sn, r.final)]
        /\ IF sn = r.final
           THEN /\ resolved' = resolved \cup {[by |-> r.sn, first |-> r.first, buffers |-> r.buffers]}
                /\ worker' = [worker EXCEPT ![w] = AfterResolving(r)]
           ELSE Goto(w, "take") /\ UNCHANGED resolved
        /\ UNCHANGED <<delimited, todo>>

-----------------------------------------------------------------------------
Step(w) ==
    \/ \E sn \in Buffer : BeginBuffer(w, sn)
    \/ SetBuffers(w)
    \/ Publish(w)
    \/ SearchLeading(w)
    \/ SearchTrailing(w)
    \/ TryClaim(w)
    \/ TakeFirst(w)
    \/ MarkFirst(w)
    \/ Take(w)
    \/ Mark(w)

Next == \E w \in Worker : Step(w)

\* Every loop of the code is finite and no worker waits for another: a worker
\* that can take a step takes it.  A repeated task comes back to some worker.
Spec == Init /\ [][Next]_vars /\ \A w \in Worker : WF_vars(Step(w))

-----------------------------------------------------------------------------
\* The spanning tuples of the stream: from a buffer with a delimiter to the
\* next one, as the reference the concurrent resolution is compared with.
SpanningTuple == {t \in delimited \X delimited :
                    t[1] < t[2] /\ \A c \in delimited : ~(t[1] < c /\ c < t[2])}

\* Every reference a tuple needs is its own buffer; the sentinel's is empty.
Whole(tuple, buffers) == buffers = [k \in 1..(tuple[2] - tuple[1] + 1) |-> tuple[1] + k - 1]

InRing(sn) == sn \notin todo /\ \A w \in Worker : worker[w].sn = sn => worker[w].at \notin {"set", "publish"}

AllIdle == \A w \in Worker : At(w, "idle")

\* The types of the ring and of the workers.
TypeOK ==
    /\ delimited \subseteq 0..Last /\ 0 \in delimited
    /\ todo \subseteq Buffer
    /\ entry \in [0..(RingSize - 1) ->
                    [aba : 0..ABAItNo(Last), delimiter : BOOLEAN, claimed : BOOLEAN, usedLeading : BOOLEAN,
                     usedTrailing : BOOLEAN, leading : 0..Last, trailing : 0..Last]]
    /\ \A w \in Worker :
        /\ worker[w].at \in {"idle", "set", "publish", "searchLeading", "searchTrailing",
                             "claim", "takeFirst", "markFirst", "take", "mark"}
        /\ worker[w].sn \in 0..Last /\ worker[w].first \in 0..Last /\ worker[w].final \in 0..Last
        /\ worker[w].distance \in 0..RingSize
        /\ Len(worker[w].buffers) <= RingSize

\* Exactly one worker processes a spanning tuple, and it gets the buffers of
\* that tuple, whatever order buffers arrive in and however searches overlap
\* (SpanningTupleBuffer.hpp: "avoiding missing ... or producing duplicate").
EachTupleOnceAndWhole ==
    /\ \A x, y \in resolved : x.first = y.first => x = y
    /\ \A x \in resolved : \E t \in SpanningTuple : x.first = t[1] /\ Whole(t, x.buffers)

\* When no worker is under way, every spanning tuple all of whose buffers were
\* published has been resolved: of the workers whose searches overlap, at least
\* one saw the whole tuple.
NoTupleIsMissed ==
    AllIdle => \A t \in SpanningTuple :
                  (\A sn \in (t[1] + 1)..t[2] : InRing(sn)) /\ t[1] \notin todo
                      => \E x \in resolved : x.first = t[1]

\* A worker about to take references finds them in the ring: no later buffer
\* took over the entry, and no other worker took them (the INVARIANTs of
\* claimNoDelimiterBuffer and claimLeadingBuffer).
ReferencesAreKeptForTheirTuple ==
    \A w \in Worker :
        LET r == worker[w] IN
        /\ At(w, "takeFirst") => entry[Index(r.first)].trailing = r.first
        /\ At(w, "take") =>
            \A sn \in NextOf(r)..r.final :
                /\ entry[Index(sn)].aba = ABAItNo(sn)
                /\ entry[Index(sn)].leading = sn
                /\ sn < r.final => entry[Index(sn)].trailing = sn

\* SpanningTupleBuffer::validate, for the ring as it is.
Valid ==
    \A i \in 0..(RingSize - 1) :
        LET e == entry[i]
            next == entry[(i + 1) % RingSize]
            aba == IF i = RingSize - 1 THEN e.aba + 1 ELSE e.aba
        IN  /\ e.usedLeading /\ e.leading = Null
            /\ aba = next.aba => e.usedTrailing /\ e.trailing = Null

\* A stream that ends with a delimiter leaves a ring the shredder's destructor
\* validates: no entry keeps a reference to a raw buffer.
FinalStateIsValid == (AllIdle /\ todo = {} /\ Last \in delimited) => Valid

\* The assertions of the ring hold in every order of buffers.
RingIsSound == TypeOK /\ ReferencesAreKeptForTheirTuple /\ FinalStateIsValid

\* If no tuple spans more buffers than the ring has entries, every buffer gets
\* into the ring and every worker finishes.  A longer tuple would keep its first
\* entry in use, and the task of the buffer that wants the entry would be
\* repeated for ever.
TuplesFit == \A a \in delimited : a + RingSize <= Last => \E b \in delimited : a < b /\ b < a + RingSize
EveryBufferIsFormatted == TuplesFit ~> (todo = {} /\ AllIdle)
-----------------------------------------------------------------------------
\* The inductive invariant

\* The entry of sn holds sn or a later buffer, and holds sn itself.
Published(sn) == entry[Index(sn)].aba >= ABAItNo(sn)
Held(sn) == entry[Index(sn)].aba = ABAItNo(sn)

\* Workers that have won a tuple, and how many of its buffers are taken and marked.
Taking(w) == worker[w].at \in {"takeFirst", "markFirst", "take", "mark"}
Taken(w) == Len(worker[w].buffers)
Marked(w) == IF worker[w].at \in {"markFirst", "mark"} THEN Taken(w) - 1 ELSE Taken(w)

\* Buffer sn is one of the first n buffers of a tuple from `first` to `final` that end, or run
\* through, the tuple; or that start it, or run through it.
LeadingPart(sn, first, n) == first < sn /\ sn < first + n
TrailingPart(sn, first, n, final) == first <= sn /\ sn < first + n /\ sn < final

LeadingResolved(sn) == \E x \in resolved : LeadingPart(sn, x.first, Len(x.buffers))
TrailingResolved(sn) == \E x \in resolved : TrailingPart(sn, x.first, Len(x.buffers), x.first + Len(x.buffers) - 1)
LeadingTaken(sn) ==
    LeadingResolved(sn) \/ \E w \in Worker : Taking(w) /\ LeadingPart(sn, worker[w].first, Taken(w))
TrailingTaken(sn) ==
    TrailingResolved(sn) \/ \E w \in Worker : Taking(w) /\ TrailingPart(sn, worker[w].first, Taken(w), worker[w].final)
LeadingMarked(sn) ==
    LeadingResolved(sn) \/ \E w \in Worker : Taking(w) /\ LeadingPart(sn, worker[w].first, Marked(w))
TrailingMarked(sn) ==
    TrailingResolved(sn) \/ \E w \in Worker : Taking(w) /\ TrailingPart(sn, worker[w].first, Marked(w), worker[w].final)

\* A tuple that fits into the ring and is in it, or has been.
Complete(first, final) ==
    /\ <<first, final>> \in SpanningTuple
    /\ final - first < RingSize
    /\ \A c \in first..final : Published(c)

\* Every buffer has one task, and is in the ring once its worker has published it.
EveryBufferHasOneTask ==
    \A w \in Worker :
        /\ At(w, "idle") => worker[w].sn = 0
        /\ ~At(w, "idle") => worker[w].sn \in Buffer \ todo
        /\ \A v \in Worker : ~At(w, "idle") /\ worker[v].sn = worker[w].sn => v = w

\* Entries are passed from one buffer to the next but RingSize ones, and are used up in between.
EntriesFollowTheStream ==
    /\ \A sn \in 0..Last : Published(sn) <=> InRing(sn)
    /\ \A sn \in 0..Last : Held(sn) => entry[Index(sn)].delimiter = (sn \in delimited)
    /\ \A i \in 0..(RingSize - 1) :
        IF entry[i].aba = 0
        THEN entry[i].usedLeading /\ entry[i].usedTrailing
        ELSE \E sn \in 0..Last : Index(sn) = i /\ Held(sn)
    /\ \A w \in Worker : worker[w].at \in {"set", "publish"} => UsedUp(worker[w].sn)

\* What a search has passed is in the ring and has no delimiter; what it has found is a tuple.
SearchesAreExact ==
    \A w \in Worker :
        LET r == worker[w] IN
        /\ r.at \in {"set", "publish", "searchLeading", "searchTrailing", "claim"} => r.buffers = <<>>
        /\ r.at \in {"set", "publish", "searchLeading"} => r.first = 0
        /\ r.at = "searchLeading" =>
            /\ r.distance \in 1..r.sn
            /\ \A c \in (r.sn - r.distance + 1)..r.sn : Published(c) /\ (c < r.sn => c \notin delimited)
        /\ r.at = "searchTrailing" =>
            /\ r.distance # 0 /\ r.first \in delimited /\ r.first <= r.sn
            /\ r.sn + r.distance <= Last + 1
            /\ \A c \in r.first..(r.sn + r.distance - 1) : Published(c) /\ (c > r.first => c \notin delimited)
        /\ r.at = "claim" \/ Taking(w) => Complete(r.first, r.final) /\ r.first <= r.sn /\ r.sn <= r.final

\* Whoever has claimed the first buffer of a tuple is the only one to take it, and has taken
\* its buffers in order.
ClaimsAreExclusive ==
    /\ \A w \in Worker : Taking(w) =>
        LET r == worker[w] IN
        /\ r.at = "takeFirst" => Taken(w) = 0
        /\ r.at = "markFirst" => Taken(w) = 1
        /\ r.at = "take" => Taken(w) \in 1..(r.final - r.first)
        /\ r.at = "mark" => Taken(w) \in 2..(r.final - r.first + 1)
        /\ \A k \in 1..Taken(w) : r.buffers[k] = r.first + k - 1
        /\ \A v \in Worker : Taking(v) /\ worker[v].first = r.first => v = w
        /\ \A x \in resolved : x.first # r.first
    /\ \A x \in resolved :
        /\ Complete(x.first, x.first + Len(x.buffers) - 1)
        /\ \A k \in 1..Len(x.buffers) : x.buffers[k] = x.first + k - 1
    /\ \A x, y \in resolved : x.first = y.first => x = y
    /\ \A a \in delimited : Published(a) =>
        (Held(a) /\ ~entry[Index(a)].claimed
            <=> (\A w \in Worker : Taking(w) => worker[w].first # a) /\ \A x \in resolved : x.first # a)

\* An entry says what was used of the buffer it holds, and is left only when both uses are over.
UsesAreMarked ==
    \A sn \in 0..Last : Published(sn) =>
        /\ Held(sn) /\ ~entry[Index(sn)].usedTrailing <=> ~TrailingMarked(sn)
        /\ Held(sn) /\ ~entry[Index(sn)].usedLeading <=> sn # 0 /\ ~LeadingMarked(sn)

\* An entry keeps its references until they are taken, and then keeps none.
ReferencesAreKept ==
    /\ \A sn \in 0..Last : Held(sn) =>
        LET e == entry[Index(sn)] IN
        /\ ~e.usedTrailing => e.trailing = IF TrailingTaken(sn) THEN Null ELSE sn
        /\ ~e.usedLeading => e.leading = IF LeadingTaken(sn) THEN Null ELSE sn
    /\ \A w \in Worker : At(w, "publish") =>
        LET e == entry[Index(worker[w].sn)] IN e.leading = worker[w].sn /\ e.trailing = worker[w].sn
    /\ \A i \in 0..(RingSize - 1) :
        (\A w \in Worker : At(w, "publish") => Index(worker[w].sn) # i) =>
            /\ entry[i].usedLeading => entry[i].leading = Null
            /\ entry[i].usedTrailing => entry[i].trailing = Null

\* A worker that will claim the tuple from a to b, unless another one does.
Finder(w, a, b) ==
    LET r == worker[w] IN
    \/ r.at = "searchLeading" /\ a < r.sn /\ r.sn <= b /\ a <= r.sn - r.distance
    \/ r.at = "searchTrailing" /\ r.first = a /\ r.sn + r.distance <= b
    \/ r.at = "claim" /\ r.first = a
    \/ r.sn = a /\ (r.at = "searchLeading" \/ ((r.at = "claim" \/ Taking(w)) /\ r.first # a))

\* Of the workers that publish the buffers of a tuple, one has found or will find all of them.
TuplesAreFound ==
    \A t \in SpanningTuple :
        (\A c \in t[1]..t[2] : Published(c)) /\ Held(t[1]) /\ ~entry[Index(t[1])].claimed =>
            \E w \in Worker : Finder(w, t[1], t[2])

\* The types, in the form the proofs use.
Types ==
    /\ TypeOK
    /\ worker \in [Worker -> [at : {"idle", "set", "publish", "searchLeading", "searchTrailing",
                                    "claim", "takeFirst", "markFirst", "take", "mark"},
                              sn : 0..Last, distance : Nat, first : 0..Last, final : 0..Last,
                              buffers : Seq(0..Last)]]
    /\ \A x \in resolved : x.first \in 0..Last /\ x.buffers \in Seq(0..Last)

IInv ==
    /\ Types /\ EveryBufferHasOneTask /\ EntriesFollowTheStream /\ SearchesAreExact
    /\ ClaimsAreExclusive /\ UsesAreMarked /\ ReferencesAreKept /\ TuplesAreFound
=============================================================================
