------------------------- MODULE BufferManagerProofs -------------------------
\* The buffer manager for any number of threads, segments and chunks and any
\* budget: reference counts are exact, chunks outlive their segments, the budget
\* is kept, and the manager is destroyed when all buffers are back.
EXTENDS BufferManager, TLAPS

-----------------------------------------------------------------------------
\* Sets and stacks

\* What the proofs use of finite sets and of the number of their elements: a hypothesis of the lemmas, which
\* FiniteSetsAreSo discharges from the library before the theorems.
FiniteSetFacts ==
  /\ IsFiniteSet({}) /\ Cardinality({}) = 0
  /\ \A S : IsFiniteSet(S) => Cardinality(S) \in Nat /\ (Cardinality(S) = 0 <=> S = {})
  /\ \A S, x : IsFiniteSet(S)
               => /\ IsFiniteSet(S \cup {x}) /\ IsFiniteSet(S \ {x})
                  /\ x \notin S => Cardinality(S \cup {x}) = Cardinality(S) + 1
                  /\ x \in S => Cardinality(S \ {x}) = Cardinality(S) - 1
  /\ \A S, T : IsFiniteSet(S) /\ IsFiniteSet(T) => IsFiniteSet(S \cup T)
  /\ \A S, T : IsFiniteSet(S) /\ T \subseteq S => IsFiniteSet(T) /\ Cardinality(T) <= Cardinality(S)

LEMMA Counts ==
  ASSUME FiniteSetFacts, NEW S, IsFiniteSet(S)
  PROVE  /\ Cardinality(S) \in Nat
         /\ Cardinality(S) = 0 <=> S = {}
         /\ \A x : x \in S => Cardinality(S) >= 1
<1>1. Cardinality(S) \in Nat /\ (Cardinality(S) = 0 <=> S = {})
  BY Zenon DEF FiniteSetFacts
<1> QED
  BY <1>1

LEMMA OneMore ==
  ASSUME FiniteSetFacts, NEW S, IsFiniteSet(S), NEW x, x \notin S
  PROVE  IsFiniteSet(S \cup {x}) /\ Cardinality(S \cup {x}) = Cardinality(S) + 1
BY Zenon DEF FiniteSetFacts

LEMMA OneLess ==
  ASSUME FiniteSetFacts, NEW S, IsFiniteSet(S), NEW x, x \in S
  PROVE  /\ IsFiniteSet(S \ {x}) /\ Cardinality(S \ {x}) = Cardinality(S) - 1
         /\ Cardinality(S) \in Nat \ {0}
<1>1. IsFiniteSet(S \ {x}) /\ Cardinality(S \ {x}) = Cardinality(S) - 1
  BY Zenon DEF FiniteSetFacts
<1> QED
  BY <1>1, Counts, Zenon

LEMMA NoMore ==
  ASSUME FiniteSetFacts, NEW S, IsFiniteSet(S), NEW T, T \subseteq S
  PROVE  /\ IsFiniteSet(T) /\ Cardinality(T) <= Cardinality(S)
         /\ Cardinality(S) \in Nat /\ Cardinality(T) \in Nat
BY Zenon DEF FiniteSetFacts

\* The threads and the segments are finitely many.
LEMMA Finite ==
  ASSUME FiniteSetFacts
  PROVE  /\ \A S \in SUBSET Thread : IsFiniteSet(S)
         /\ \A S \in SUBSET Segment : IsFiniteSet(S)
<1>1. IsFiniteSet(Segment)
  BY SegmentsAreKnown, Zenon DEF FiniteSetFacts, Segment
<1> QED
  BY <1>1, SegmentsAreKnown, Zenon DEF FiniteSetFacts

LEMMA PoppedStack ==
  ASSUME NEW S, NEW s \in Seq(S), s # <<>>
  PROVE  /\ Last(s) = s[Len(s)] /\ Last(s) \in S /\ Len(s) \in Nat \ {0}
         /\ Front(s) \in Seq(S) /\ Len(Front(s)) = Len(s) - 1
         /\ \A i \in 1 .. Len(s) - 1 : Front(s)[i] = s[i]
<1> DEFINE n == Len(s)
<1>1. n \in Nat \ {0} /\ \A i \in 1 .. n : s[i] \in S
  OBVIOUS
<1> HIDE DEF n
<1>2. /\ SubSeq(s, 1, n - 1) \in Seq(S)
      /\ Len(SubSeq(s, 1, n - 1)) = IF 1 <= n - 1 THEN (n - 1) - 1 + 1 ELSE 0
      /\ \A i \in 1 .. (n - 1) - 1 + 1 : SubSeq(s, 1, n - 1)[i] = s[1 + i - 1]
  <2>1. 1 \in Int /\ n - 1 \in Int /\ \A i \in 1 .. n - 1 : s[i] \in S
    BY <1>1
  <2> QED
    BY <2>1
<1>3. Front(s) = SubSeq(s, 1, n - 1) /\ Last(s) = s[n]
  BY Zenon DEF Front, Last, n
<1>4. Len(Front(s)) = n - 1 /\ \A i \in 1 .. n - 1 : Front(s)[i] = s[i]
  BY <1>1, <1>2, <1>3
<1> QED
  BY <1>1, <1>2, <1>3, <1>4 DEF n

LEMMA PushedStack ==
  ASSUME NEW S, NEW s \in Seq(S), NEW f \in S
  PROVE  /\ Append(s, f) \in Seq(S) /\ Len(Append(s, f)) = Len(s) + 1 /\ Append(s, f) # <<>>
         /\ Len(s) \in Nat
         /\ \A i \in 1 .. Len(s) : Append(s, f)[i] = s[i]
         /\ Append(s, f)[Len(s) + 1] = f
         /\ Last(Append(s, f)) = f
BY DEF Last

LEMMA MovedStack ==
  ASSUME NEW S, NEW s \in Seq(S), s # <<>>, NEW f \in S
  PROVE  /\ Append(Front(s), f) \in Seq(S) /\ Len(Append(Front(s), f)) = Len(s)
         /\ Append(Front(s), f) # <<>> /\ Len(s) \in Nat \ {0}
         /\ \A i \in 1 .. Len(s) : Append(Front(s), f)[i] = IF i = Len(s) THEN f ELSE s[i]
         /\ Last(Append(Front(s), f)) = f
<1> DEFINE r == Front(s)
<1>1. /\ Len(s) \in Nat \ {0} /\ r \in Seq(S) /\ Len(r) = Len(s) - 1
      /\ \A i \in 1 .. Len(s) - 1 : r[i] = s[i]
  BY PoppedStack, Zenon
<1> HIDE DEF r
<1>2. /\ Append(r, f) \in Seq(S) /\ Len(Append(r, f)) = Len(r) + 1 /\ Append(r, f) # <<>>
      /\ \A i \in 1 .. Len(r) : Append(r, f)[i] = r[i]
      /\ Append(r, f)[Len(r) + 1] = f
      /\ Last(Append(r, f)) = f
  BY <1>1, PushedStack
<1>3. ASSUME NEW i \in 1 .. Len(s) PROVE Append(r, f)[i] = IF i = Len(s) THEN f ELSE s[i]
  <2>1. i = Len(r) + 1 \/ i \in 1 .. Len(r)
    BY <1>1
  <2> QED
    BY <2>1, <1>1, <1>2
<1> QED
  BY <1>1, <1>2, <1>3 DEF r

-----------------------------------------------------------------------------
\* What a step does to the stacks of releases

FrameType == [segment : Segment, next : ReleaseStep]

LEMMA TopFrame ==
  ASSUME TypeOK, NEW t \in Thread, releasing[t] # <<>>
  PROVE  /\ Len(releasing[t]) \in Nat \ {0} /\ releasing[t] \in Seq(FrameType)
         /\ Last(releasing[t]) = releasing[t][Len(releasing[t])]
         /\ Last(releasing[t]) \in FrameType
         /\ Releasing(t) \in Segment
         /\ \A next : InStep(t, next) <=> Last(releasing[t]).next = next
<1>1. releasing[t] \in Seq(FrameType)
  BY Zenon DEF TypeOK, FrameType
<1>2. /\ Last(releasing[t]) = releasing[t][Len(releasing[t])] /\ Last(releasing[t]) \in FrameType
      /\ Len(releasing[t]) \in Nat \ {0}
  BY <1>1, PoppedStack, Zenon
<1> QED
  BY <1>1, <1>2, Zenon DEF InStep, Releasing, FrameType

\* A release goes on to its next step.
LEMMA FrameMoves ==
  ASSUME TypeOK, NEW t \in Thread, releasing[t] # <<>>, NEW n \in ReleaseStep,
         releasing' = [releasing EXCEPT ![t] = NextFrame(t, n)]
  PROVE  /\ releasing' \in [Thread -> Seq(FrameType)]
         /\ \A u \in Thread : Len(releasing'[u]) = Len(releasing[u])
         /\ \A u \in Thread : releasing[u] # <<>> <=> releasing'[u] # <<>>
         /\ \A u \in Thread : \A i \in 1 .. Len(releasing[u]) :
              releasing'[u][i] = IF u = t /\ i = Len(releasing[t]) THEN [segment |-> Releasing(t), next |-> n]
                                                                   ELSE releasing[u][i]
         /\ \A u \in Thread, x \in ReleaseStep : InStep(u, x)' <=> IF u = t THEN x = n ELSE InStep(u, x)
         /\ \A u \in Thread : Releasing(u)' = Releasing(u)
<1> DEFINE f == [segment |-> Releasing(t), next |-> n]
<1>1. releasing[t] \in Seq(FrameType) /\ Releasing(t) \in Segment
  BY TopFrame, Zenon
<1>2. f \in FrameType
  BY <1>1, Zenon DEF FrameType
<1>3. releasing \in [Thread -> Seq(FrameType)]
  BY Zenon DEF TypeOK, FrameType
<1>4. releasing' = [releasing EXCEPT ![t] = Append(Front(releasing[t]), f)]
  BY Zenon DEF NextFrame
<1>5. f.segment = Releasing(t) /\ f.next = n
  BY Zenon
<1> HIDE DEF f
<1> DEFINE s == Append(Front(releasing[t]), f)
<1>6. /\ s \in Seq(FrameType) /\ Len(s) = Len(releasing[t]) /\ s # <<>>
      /\ \A i \in 1 .. Len(s) : s[i] = IF i = Len(s) THEN f ELSE releasing[t][i]
      /\ Last(s) = f
  BY <1>1, <1>2, MovedStack
<1> HIDE DEF s
<1>7. releasing'[t] = s /\ \A u \in Thread \ {t} : releasing'[u] = releasing[u]
  BY <1>3, <1>4, Zenon DEF s
<1>8. releasing' \in [Thread -> Seq(FrameType)]
  BY <1>3, <1>4, <1>6, Zenon DEF s
<1>9. \A u \in Thread, x \in ReleaseStep : InStep(u, x)' <=> IF u = t THEN x = n ELSE InStep(u, x)
  BY <1>7, <1>6, <1>5, Zenon DEF InStep
<1>10. \A u \in Thread : Releasing(u)' = Releasing(u)
  BY <1>7, <1>6, <1>5, Zenon DEF Releasing
<1>11. \A u \in Thread : \A i \in 1 .. Len(releasing[u]) :
          releasing'[u][i] = IF u = t /\ i = Len(releasing[t]) THEN f ELSE releasing[u][i]
  BY <1>7, <1>6
<1>12. \A u \in Thread : /\ Len(releasing'[u]) = Len(releasing[u])
                         /\ releasing[u] # <<>> <=> releasing'[u] # <<>>
  BY <1>7, <1>6, Zenon
<1> QED
  BY <1>8, <1>9, <1>10, <1>11, <1>12, Zenon DEF f

\* A release starts, within the one that the thread is in.
LEMMA FrameStarts ==
  ASSUME TypeOK, NEW t \in Thread, releasing[t] = <<>> \/ InStep(t, "children"), NEW b \in Segment,
         releasing' = [releasing EXCEPT ![t] = Append(releasing[t], Frame(b))]
  PROVE  /\ releasing' \in [Thread -> Seq(FrameType)]
         /\ Len(releasing[t]) \in Nat /\ Len(releasing'[t]) = Len(releasing[t]) + 1
         /\ releasing'[t] # <<>>
         /\ \A u \in Thread \ {t} : releasing'[u] = releasing[u]
         /\ \A i \in 1 .. Len(releasing[t]) : releasing'[t][i] = releasing[t][i]
         /\ releasing'[t][Len(releasing[t]) + 1] = Frame(b)
         /\ \A u \in Thread, x \in ReleaseStep : x # "children" => (InStep(u, x)' <=> InStep(u, x))
         /\ \A u \in Thread, x \in ReleaseStep : InStep(u, x) /\ x # "children" => Releasing(u)' = Releasing(u)
<1>1. releasing \in [Thread -> Seq(FrameType)]
  BY Zenon DEF TypeOK, FrameType
<1>2. Frame(b) \in FrameType /\ Frame(b).next = "children"
  BY Zenon DEF FrameType, Frame, ReleaseStep
<1> DEFINE s == Append(releasing[t], Frame(b))
<1>3. /\ s \in Seq(FrameType) /\ Len(s) = Len(releasing[t]) + 1 /\ Len(releasing[t]) \in Nat /\ s # <<>>
      /\ \A i \in 1 .. Len(releasing[t]) : s[i] = releasing[t][i]
      /\ s[Len(releasing[t]) + 1] = Frame(b)
      /\ Last(s) = Frame(b)
  BY <1>1, <1>2, PushedStack
<1> HIDE DEF s
<1>4. releasing'[t] = s /\ \A u \in Thread \ {t} : releasing'[u] = releasing[u]
  BY <1>1, Zenon DEF s
<1>5. releasing' \in [Thread -> Seq(FrameType)]
  BY <1>1, <1>3, Zenon DEF s
<1>6. \A x : x # "children" => ~InStep(t, x) /\ ~InStep(t, x)'
  BY <1>4, <1>3, <1>2, Zenon DEF InStep
<1>7. \A u \in Thread \ {t}, x \in ReleaseStep : (InStep(u, x)' <=> InStep(u, x)) /\ Releasing(u)' = Releasing(u)
  BY <1>4, Zenon DEF InStep, Releasing
<1> QED
  BY <1>3, <1>4, <1>5, <1>6, <1>7, Zenon

\* A release ends, and its thread goes on with the one that started it.
LEMMA FrameEnds ==
  ASSUME TypeOK, InnermostGoesFirst, NEW t \in Thread, InStep(t, "drop"),
         releasing' = [releasing EXCEPT ![t] = Front(@)]
  PROVE  /\ releasing' \in [Thread -> Seq(FrameType)]
         /\ Len(releasing[t]) \in Nat \ {0} /\ Len(releasing'[t]) = Len(releasing[t]) - 1
         /\ \A u \in Thread \ {t} : releasing'[u] = releasing[u]
         /\ \A i \in 1 .. Len(releasing[t]) - 1 : releasing'[t][i] = releasing[t][i]
         /\ \A u \in Thread, x \in ReleaseStep : x \notin {"children", "drop"} => (InStep(u, x)' <=> InStep(u, x))
         /\ \A u \in Thread, x \in ReleaseStep :
              InStep(u, x) /\ x \notin {"children", "drop"} => Releasing(u)' = Releasing(u)
<1>1. releasing \in [Thread -> Seq(FrameType)] /\ releasing[t] # <<>>
  BY Zenon DEF TypeOK, FrameType, InStep
<1> DEFINE s == Front(releasing[t])
<1>2. /\ s \in Seq(FrameType) /\ Len(s) = Len(releasing[t]) - 1 /\ Len(releasing[t]) \in Nat \ {0}
      /\ \A i \in 1 .. Len(releasing[t]) - 1 : s[i] = releasing[t][i]
  BY <1>1, PoppedStack, Zenon
<1>3. releasing'[t] = s /\ \A u \in Thread \ {t} : releasing'[u] = releasing[u]
  BY <1>1, Zenon
<1>4. releasing' \in [Thread -> Seq(FrameType)]
  BY <1>1, <1>2, Zenon
<1> HIDE DEF s
<1>5. ASSUME s # <<>> PROVE Last(s).next = "children"
  <2>1. Last(s) = s[Len(s)] /\ Len(s) \in Nat \ {0}
    BY <1>5, <1>2, PoppedStack, Zenon
  <2>2. Len(s) \in 1 .. Len(releasing[t]) - 1
    <3>1. \A m, n \in Nat \ {0} : n = m - 1 => n \in 1 .. m - 1
      OBVIOUS
    <3> QED
      BY <3>1, <2>1, <1>2, Zenon
  <2>3. s[Len(s)] = releasing[t][Len(s)]
    BY <2>2, <1>2, Zenon
  <2> QED
    BY <2>1, <2>2, <2>3, Zenon DEF InnermostGoesFirst
<1>6. \A x : x \notin {"children", "drop"} => ~InStep(t, x) /\ ~InStep(t, x)'
  BY <1>3, <1>5, Zenon DEF InStep
<1>7. \A u \in Thread \ {t}, x \in ReleaseStep : (InStep(u, x)' <=> InStep(u, x)) /\ Releasing(u)' = Releasing(u)
  BY <1>3, Zenon DEF InStep, Releasing
<1> QED
  BY <1>2, <1>3, <1>4, <1>6, <1>7, Zenon

-----------------------------------------------------------------------------
\* What the invariant says of the segment or the chunk that a step is about

\* Who is referred to has a count and an owner.
LEMMA Referenced ==
  ASSUME FiniteSetFacts, IInv
  PROVE  /\ \A b : IsFiniteSet(Holders(b)) /\ IsFiniteSet(Parents(b))
         /\ \A t \in Thread : \A b \in held[t] : b \in Segment /\ refs[b] >= 1 /\ b \in recycler
         /\ \A p \in Segment : \A b \in children[p] : b \in Segment /\ refs[b] >= 1 /\ b \in recycler
         /\ \A b \in Segment : refs[b] \in Nat
<1>1. ASSUME NEW b PROVE IsFiniteSet(Holders(b)) /\ IsFiniteSet(Parents(b))
  <2>1. Holders(b) \subseteq Thread /\ Parents(b) \subseteq Segment
    BY Zenon DEF Holders, Parents
  <2> QED
    BY <2>1, Finite, Zenon
<1>2. ASSUME NEW b \in Segment, Holders(b) # {} \/ Parents(b) # {} PROVE refs[b] >= 1 /\ b \in recycler
  <2>1. /\ Cardinality(Holders(b)) \in Nat /\ Cardinality(Parents(b)) \in Nat
        /\ Cardinality(Holders(b)) # 0 \/ Cardinality(Parents(b)) # 0
    BY <1>1, <1>2, Counts, Zenon
  <2>2. refs[b] = Cardinality(Holders(b)) + Cardinality(Parents(b))
    BY Zenon DEF IInv, CountIsExact, ReferencesAreCounted
  <2>3. refs[b] > 0 => b \in recycler
    BY Zenon DEF IInv, UsedSegmentsAreOwned
  <2> QED
    BY <2>1, <2>2, <2>3
<1>3. ASSUME NEW t \in Thread, NEW b \in held[t] PROVE b \in Segment /\ refs[b] >= 1 /\ b \in recycler
  <2>1. b \in Segment /\ t \in Holders(b)
    BY Zenon DEF IInv, CountIsExact, TypeOK, Holders
  <2> QED
    BY <2>1, <1>2, Zenon
<1>4. ASSUME NEW p \in Segment, NEW b \in children[p] PROVE b \in Segment /\ refs[b] >= 1 /\ b \in recycler
  <2>1. b \in Segment /\ p \in Parents(b)
    BY Zenon DEF IInv, CountIsExact, TypeOK, Parents
  <2> QED
    BY <2>1, <1>2, Zenon
<1> QED
  BY <1>1, <1>3, <1>4, Zenon DEF IInv, CountIsExact, TypeOK

\* What is not owned is not in use.
LEMMA Unowned ==
  ASSUME IInv, NEW b \in Segment, b \notin recycler
  PROVE  refs[b] = 0 /\ children[b] = {}
<1>1. refs[b] \in Nat
  BY Zenon DEF IInv, CountIsExact, TypeOK
<1> QED
  BY <1>1 DEF IInv, UsedSegmentsAreOwned

\* A segment that is released, in each step of the release.
LEMMA Released ==
  ASSUME IInv, NEW t \in Thread, releasing[t] # <<>>
  PROVE  /\ Releasing(t) \in Segment /\ at[t] = "idle" /\ Len(releasing[t]) \in Nat \ {0}
         /\ releasing[t][Len(releasing[t])].segment = Releasing(t)
         /\ \A next : InStep(t, next) <=> releasing[t][Len(releasing[t])].next = next
         /\ InStep(t, "children") => Releasing(t) \in recycler /\ refs[Releasing(t)] = 0
         /\ InStep(t, "recycle") =>
              /\ Releasing(t) \notin recycler \cup available
              /\ refs[Releasing(t)] = 0 /\ children[Releasing(t)] = {}
              /\ Releasing(t) \in Unpooled => chunkOf[Releasing(t)] \in Chunk
         /\ InStep(t, "deallocate") =>
              /\ Releasing(t) \in Unpooled /\ chunkOf[Releasing(t)] \in Chunk
              /\ chunks[chunkOf[Releasing(t)]] = Gone
<1> DEFINE n == Len(releasing[t])
           f == releasing[t][n]
<1>1. TypeOK
  BY Zenon DEF IInv, CountIsExact
<1>2. /\ n \in Nat \ {0} /\ Last(releasing[t]) = f /\ Releasing(t) \in Segment
      /\ \A next : InStep(t, next) <=> f.next = next
  BY <1>1, TopFrame, Zenon
<1>3. f.segment = Releasing(t)
  BY <1>2, Zenon DEF Releasing
<1>4. at[t] = "idle"
  BY Zenon DEF IInv, GettersHaveTheManager
<1>5. FrameIsSound(f)
  BY <1>2 DEF IInv, FramesAreSound
<1> HIDE DEF f, n
<1>6. InStep(t, "recycle") => refs[Releasing(t)] = 0 /\ children[Releasing(t)] = {}
  BY <1>5, <1>3, <1>2, Unowned, Zenon DEF FrameIsSound
<1>7. \A u \in Unpooled : chunkOf[u] # None => chunkOf[u] \in Chunk
  BY <1>1, Zenon DEF TypeOK
<1> QED
  BY <1>2, <1>3, <1>4, <1>5, <1>6, <1>7, Zenon DEF FrameIsSound, f, n

\* A chunk that is counted is there, and its owner is a thread.
LEMMA Counted ==
  ASSUME FiniteSetFacts, IInv, NEW c \in Chunk
  PROVE  /\ IsFiniteSet(Residents(c)) /\ IsFiniteSet(Entering(c))
         /\ chunks[c].active = Cardinality(Residents(c)) + Cardinality(Entering(c))
         /\ chunks[c].active \in Nat
         /\ \A x : x \in Residents(c) \/ x \in Entering(c) =>
                     chunks[c].active >= 1 /\ chunks[c] # Gone /\ c \in allocated /\ chunks[c].owner \in Thread
         /\ chunks[c] = Gone => Residents(c) = {} /\ Entering(c) = {}
<1>1. Residents(c) \subseteq Segment /\ Entering(c) \subseteq Thread
  BY Zenon DEF Residents, Entering, Segment
<1>2. IsFiniteSet(Residents(c)) /\ IsFiniteSet(Entering(c))
  BY <1>1, Finite, Zenon
<1>3. chunks[c].active = Cardinality(Residents(c)) + Cardinality(Entering(c))
  BY Zenon DEF IInv, ChunksAreCounted
<1>4. chunks[c] # Gone => c \in allocated /\ chunks[c].owner \in Thread
  BY Zenon DEF IInv, ChunksAreCounted
<1>5. Gone.active = 0
  BY Zenon DEF Gone
<1>6. ASSUME NEW x, x \in Residents(c) \/ x \in Entering(c)
      PROVE  chunks[c].active >= 1 /\ chunks[c] # Gone
  <2>1. /\ Cardinality(Residents(c)) \in Nat /\ Cardinality(Entering(c)) \in Nat
        /\ Cardinality(Residents(c)) >= 1 \/ Cardinality(Entering(c)) >= 1
    BY <1>2, <1>6, Counts, Zenon
  <2>2. chunks[c].active >= 1
    BY <2>1, <1>3
  <2> QED
    BY <2>2, <1>5
<1>7. chunks[c].active \in Nat
  BY <1>2, <1>3, Counts
<1> QED
  BY <1>2, <1>3, <1>4, <1>6, <1>7, Zenon

\* The chunk of a segment that is recycled counts it.
LEMMA RecycledIsCounted ==
  ASSUME FiniteSetFacts, IInv, NEW t \in Thread, InStep(t, "recycle"), Releasing(t) \in Unpooled
  PROVE  /\ chunkOf[Releasing(t)] \in Chunk /\ Releasing(t) \in Residents(chunkOf[Releasing(t)])
         /\ chunks[chunkOf[Releasing(t)]].active \in Nat \ {0}
         /\ chunks[chunkOf[Releasing(t)]] # Gone /\ chunkOf[Releasing(t)] \in allocated
         /\ chunks[chunkOf[Releasing(t)]].owner \in Thread
<1>1. releasing[t] # <<>>
  BY Zenon DEF InStep
<1>2. chunkOf[Releasing(t)] \in Chunk
  BY <1>1, Released, Zenon
<1>3. Releasing(t) \in Residents(chunkOf[Releasing(t)])
  BY Zenon DEF Residents, Recycling
<1> QED
  BY <1>2, <1>3, Counted

\* A frame that recycles is the innermost one of its thread.
LEMMA RecycleIsInnermost ==
  ASSUME IInv, NEW t \in Thread, NEW i \in 1 .. Len(releasing[t]), releasing[t][i].next # "children"
  PROVE  /\ releasing[t] # <<>> /\ i = Len(releasing[t]) /\ releasing[t][i] = Last(releasing[t])
         /\ releasing[t][i].segment = Releasing(t) /\ InStep(t, releasing[t][i].next)
<1>1. TypeOK
  BY Zenon DEF IInv, CountIsExact
<1>2. releasing[t] \in Seq(FrameType)
  BY <1>1, Zenon DEF TypeOK, FrameType
<1>3. Len(releasing[t]) \in Nat /\ releasing[t] # <<>>
  BY <1>2
<1>4. ~(i \in 1 .. Len(releasing[t]) - 1)
  BY Zenon DEF IInv, InnermostGoesFirst
<1>5. i = Len(releasing[t])
  BY <1>3, <1>4
<1>6. Last(releasing[t]) = releasing[t][Len(releasing[t])]
  BY <1>1, <1>3, TopFrame, Zenon
<1> QED
  BY <1>3, <1>5, <1>6, Zenon DEF Releasing, InStep

\* Whoever is charged, or has a charge to take back, is in the counter of the budget.
LEMMA ChargedIsPaid ==
  ASSUME FiniteSetFacts, IInv
  PROVE  /\ IsFiniteSet(Charged) /\ IsFiniteSet(Accounting) /\ IsFiniteSet(allocated)
         /\ IsFiniteSet(Granted)
         /\ Cardinality(Charged) \in Nat /\ Cardinality(Accounting) \in Nat
         /\ Cardinality(allocated) \in Nat /\ Cardinality(Granted) \in Nat
         /\ bytes = Cardinality(allocated) + Cardinality(Charged) + Cardinality(Accounting)
         /\ \A t \in Thread : at[t] = "budget" \/ InStep(t, "account") => bytes \in Nat \ {0}
<1>1. Charged \subseteq Thread /\ Accounting \subseteq Thread /\ Granted \subseteq Thread
  BY Zenon DEF Charged, Accounting, Granted
<1>2. /\ IsFiniteSet(Charged) /\ IsFiniteSet(Accounting) /\ IsFiniteSet(allocated)
      /\ IsFiniteSet(Granted)
  BY <1>1, Finite, Zenon DEF IInv, GrantsFit
<1>3. /\ Cardinality(Charged) \in Nat /\ Cardinality(Accounting) \in Nat
      /\ Cardinality(allocated) \in Nat /\ Cardinality(Granted) \in Nat
  BY <1>2, Counts, Zenon
<1>4. bytes = Cardinality(allocated) + Cardinality(Charged) + Cardinality(Accounting)
  BY Zenon DEF IInv, BudgetIsKept
<1>5. ASSUME NEW t \in Thread, at[t] = "budget" \/ InStep(t, "account") PROVE bytes \in Nat \ {0}
  <2>1. t \in Charged \/ t \in Accounting
    BY <1>5, Zenon DEF Charged, Accounting
  <2>2. Cardinality(Charged) >= 1 \/ Cardinality(Accounting) >= 1
    BY <2>1, <1>2, Counts, Zenon
  <2> QED
    BY <2>2, <1>3, <1>4
<1> QED
  BY <1>2, <1>3, <1>4, <1>5, Zenon

-----------------------------------------------------------------------------
\* Types

CountTypes ==
  /\ refs \in [Segment -> Nat] /\ held \in [Thread -> SUBSET Segment]
  /\ children \in [Segment -> SUBSET Segment] /\ recycler \subseteq Segment
PoolTypes == available \subseteq Pooled /\ provider \subseteq Thread /\ destroyed \in BOOLEAN
GetTypes ==
  /\ at \in [Thread -> {"idle", "prepare", "budget", "emplace"}]
  /\ hand \in [Thread -> Segment \cup Chunk \cup BOOLEAN \cup {None}]
ChunkTypes ==
  /\ chunkOf \in [Unpooled -> Chunk \cup {None}]
  /\ chunks \in [Chunk -> [owner : Thread \cup {None}, active : Nat, used : Nat]]
  /\ last \in [Thread -> Chunk \cup {None}]
  /\ allocated \subseteq Chunk /\ bytes \in Nat

LEMMA Types ==
  /\ TypeOK <=> /\ CountTypes /\ PoolTypes /\ GetTypes /\ ChunkTypes
                /\ releasing \in [Thread -> Seq(FrameType)]
  /\ TypeOK' <=> /\ CountTypes' /\ PoolTypes' /\ GetTypes' /\ ChunkTypes'
                 /\ releasing' \in [Thread -> Seq(FrameType)]
BY Zenon DEF TypeOK, CountTypes, PoolTypes, GetTypes, ChunkTypes, FrameType

\* The record of a chunk after one of its segments has been recycled.
LEMMA ChunkAfterRecycle ==
  ASSUME FiniteSetFacts, IInv, NEW t \in Thread, RecycleUnpooled(t)
  PROVE  LET c == chunkOf[Releasing(t)]
         IN  /\ InStep(t, "recycle") /\ Releasing(t) \in Unpooled
             /\ c \in Chunk /\ chunks[c].active \in Nat \ {0}
             /\ \A d \in Chunk \ {c} : chunks'[d] = chunks[d]
             /\ chunks' \in [Chunk -> [owner : Thread \cup {None}, active : Nat, used : Nat]]
             /\ chunks'[c].active = chunks[c].active - 1
             /\ last' \in [Thread -> Chunk \cup {None}]
             /\ \/ /\ chunks'[c] = Gone /\ last' = [last EXCEPT ![chunks[c].owner] = None]
                   /\ releasing' = [releasing EXCEPT ![t] = NextFrame(t, "deallocate")]
                \/ /\ chunks'[c] # Gone /\ chunks'[c].owner = chunks[c].owner /\ last' = last
                   /\ releasing' = [releasing EXCEPT ![t] = NextFrame(t, "drop")]
<1> DEFINE c == chunkOf[Releasing(t)]
           Rec == [owner : Thread \cup {None}, active : Nat, used : Nat]
<1>1. InStep(t, "recycle") /\ Releasing(t) \in Unpooled
  BY Zenon DEF RecycleUnpooled
<1>2. /\ c \in Chunk /\ chunks[c].active \in Nat \ {0} /\ chunks[c].owner \in Thread
  BY <1>1, RecycledIsCounted, Zenon
<1>3. chunks \in [Chunk -> Rec] /\ last \in [Thread -> Chunk \cup {None}]
  BY Zenon DEF IInv, CountIsExact, TypeOK
<1>4. Gone \in Rec /\ Gone.active = 0
  BY Zenon DEF Gone
<1>5. CASE chunks[c].active - 1 = 0
  <2>1. /\ chunks' = [chunks EXCEPT ![c] = Gone] /\ last' = [last EXCEPT ![chunks[c].owner] = None]
        /\ releasing' = [releasing EXCEPT ![t] = NextFrame(t, "deallocate")]
    BY <1>5, Zenon DEF RecycleUnpooled
  <2> HIDE DEF c, Rec
  <2>2. chunks'[c] = Gone /\ \A d \in Chunk \ {c} : chunks'[d] = chunks[d]
    BY <2>1, <1>2, <1>3, Zenon
  <2>3. chunks' \in [Chunk -> Rec] /\ last' \in [Thread -> Chunk \cup {None}]
    BY <2>1, <1>2, <1>3, <1>4, Zenon
  <2> QED
    BY <2>1, <2>2, <2>3, <1>1, <1>2, <1>4, <1>5, Zenon DEF c, Rec
<1>6. CASE chunks[c].active - 1 # 0
  <2> DEFINE r == [owner |-> chunks[c].owner, active |-> chunks[c].active - 1, used |-> chunks[c].used]
  <2>1. /\ chunks' = [chunks EXCEPT ![c].active = chunks[c].active - 1] /\ last' = last
        /\ releasing' = [releasing EXCEPT ![t] = NextFrame(t, "drop")]
    BY <1>6, Zenon DEF RecycleUnpooled
  <2> HIDE DEF c
  <2>2. r \in Rec /\ r # Gone /\ r.owner = chunks[c].owner /\ r.active = chunks[c].active - 1
    <3>1. chunks[c] \in Rec
      BY <1>2, <1>3, Zenon
    <3>2. r \in Rec /\ r.owner = chunks[c].owner /\ r.active = chunks[c].active - 1
      BY <3>1, <1>2
    <3> QED
      BY <3>2, <1>4, <1>6, Zenon
  <2>3. chunks' = [chunks EXCEPT ![c] = r]
    <3>1. chunks[c] \in Rec
      BY <1>2, <1>3, Zenon
    <3>2. [chunks[c] EXCEPT !.active = chunks[c].active - 1] = r
      BY <3>1
    <3> QED
      BY <2>1, <3>2, <1>2, <1>3, Zenon
  <2> HIDE DEF Rec, r
  <2>4. chunks'[c] = r /\ \A d \in Chunk \ {c} : chunks'[d] = chunks[d]
    BY <2>3, <1>2, <1>3, Zenon
  <2>5. chunks' \in [Chunk -> Rec]
    BY <2>3, <2>2, <1>2, <1>3, Zenon
  <2> QED
    BY <2>1, <2>2, <2>4, <2>5, <1>1, <1>2, <1>3, Zenon DEF c, Rec
<1> QED
  BY <1>5, <1>6, Zenon

LEMMA TypesStay ==
  FiniteSetFacts /\ IInv =>
  \A t \in Thread :
  (Get(t) \/ FinishGet(t) \/ Use(t) \/ FinishRelease(t) \/ DropProvider(t)) =>
    TypeOK'
<1>TypesUnchanged.
      /\ CountTypes /\ UNCHANGED countVars => CountTypes'
      /\ PoolTypes /\ UNCHANGED poolVars => PoolTypes'
      /\ ChunkTypes /\ UNCHANGED chunkVars => ChunkTypes'
      /\ GetTypes /\ UNCHANGED <<at, hand>> => GetTypes'
      /\ releasing \in [Thread -> Seq(FrameType)] /\ UNCHANGED releasing => releasing' \in [Thread -> Seq(FrameType)]
  BY Zenon DEF CountTypes, PoolTypes, GetTypes, ChunkTypes, countVars, poolVars, chunkVars
<1>TypesOfGets.
      ASSUME FiniteSetFacts, IInv, NEW t \in Thread, Get(t) \/ FinishGet(t)
      PROVE  TypeOK'
  <2> USE <1>TypesOfGets
  <2>1. TypeOK
    BY Zenon DEF IInv, CountIsExact
  <2>2. /\ CountTypes /\ PoolTypes /\ GetTypes /\ ChunkTypes
        /\ releasing \in [Thread -> Seq(FrameType)]
    BY <2>1, Types, Zenon
  <2>3. ASSUME NEW place \in {"idle", "prepare", "budget", "emplace"},
               NEW what \in Segment \cup Chunk \cup BOOLEAN \cup {None}, Goto(t, place, what)
        PROVE  GetTypes'
    BY <2>2, <2>3, Zenon DEF GetTypes, Goto
  <2>4. CASE Dequeue(t)
    <3>1. PICK b \in available : available' = available \ {b} /\ Goto(t, "prepare", b)
      BY <2>4, Zenon DEF Dequeue
    <3>2. b \in Segment /\ PoolTypes'
      BY <2>2, <2>4, <3>1, Zenon DEF PoolTypes, Dequeue, Segment
    <3> QED
      BY <2>2, <2>3, <2>4, <3>1, <3>2, Types, <1>TypesUnchanged, Zenon DEF Dequeue
  <2>5. CASE Prepare(t)
    <3>1. hand[t] \in Segment
      BY <2>5, Zenon DEF Prepare, IInv, PreparedByOne, Segment
    <3>2. CountTypes'
      BY <2>2, <2>5, <3>1, Zenon DEF CountTypes, Prepare
    <3> QED
      BY <2>2, <2>3, <2>5, <3>2, Types, <1>TypesUnchanged, Zenon DEF Prepare
  <2>6. CASE TakeSpace(t)
    <3>1. last[t] \in Chunk
      BY <2>2, <2>6, Zenon DEF TakeSpace, ChunkTypes
    <3>2. ChunkTypes'
      <4> DEFINE c == last[t]
                 r == [owner |-> chunks[c].owner, active |-> chunks[c].active + 1, used |-> chunks[c].used + 1]
      <4>1. chunks[c] \in [owner : Thread \cup {None}, active : Nat, used : Nat]
        BY <2>2, <3>1, Zenon DEF ChunkTypes
      <4>2. r \in [owner : Thread \cup {None}, active : Nat, used : Nat]
        BY <4>1
      <4>3. chunks' = [chunks EXCEPT ![c] = r]
        BY <2>2, <2>6, <3>1, <4>1 DEF TakeSpace, ChunkTypes
      <4> HIDE DEF r, c
      <4>4. chunks' \in [Chunk -> [owner : Thread \cup {None}, active : Nat, used : Nat]]
        BY <2>2, <4>2, <4>3, Zenon DEF ChunkTypes
      <4> QED
        BY <2>2, <2>6, <4>4, Zenon DEF TakeSpace, ChunkTypes
    <3> QED
      BY <2>2, <2>3, <2>6, <3>1, <3>2, Types, <1>TypesUnchanged, Zenon DEF TakeSpace
  <2>7. CASE ChargeBudget(t)
    <3>1. ChunkTypes'
      BY <2>2, <2>7 DEF ChargeBudget, ChunkTypes
    <3>2. (bytes < Budget) \in BOOLEAN
      OBVIOUS
    <3> QED
      BY <2>2, <2>3, <2>7, <3>1, <3>2, Types, <1>TypesUnchanged, Zenon DEF ChargeBudget
  <2>8. CASE Refuse(t)
    <3>1. bytes \in Nat \ {0}
      BY <2>8, ChargedIsPaid, Zenon DEF Refuse
    <3>2. ChunkTypes'
      BY <2>2, <2>8, <3>1 DEF Refuse, ChunkTypes
    <3> QED
      BY <2>2, <2>3, <2>8, <3>2, Types, <1>TypesUnchanged, Zenon DEF Refuse
  <2>9. CASE AllocateChunk(t)
    <3>1. PICK c \in Chunk \ allocated :
            /\ allocated' = allocated \cup {c}
            /\ chunks' = [chunks EXCEPT ![c] = [owner |-> t, active |-> 1, used |-> 1]]
            /\ last' = [last EXCEPT ![t] = c]
            /\ Goto(t, "emplace", c)
      BY <2>9, Zenon DEF AllocateChunk
    <3>2. ChunkTypes'
      BY <2>2, <2>9, <3>1, Zenon DEF AllocateChunk, ChunkTypes
    <3> QED
      BY <2>2, <2>3, <2>9, <3>1, <3>2, Types, <1>TypesUnchanged, Zenon DEF AllocateChunk
  <2>10. CASE Emplace(t)
    <3>1. hand[t] \in Chunk
      BY <2>10, Zenon DEF Emplace, IInv, ChunksAreKnown
    <3>2. ChunkTypes'
      BY <2>2, <2>10, <3>1, Zenon DEF Emplace, ChunkTypes
    <3>3. CountTypes'
      BY <2>2, <2>10 DEF Emplace, CountTypes, Segment
    <3> QED
      BY <2>2, <2>3, <2>10, <3>2, <3>3, Types, <1>TypesUnchanged, Zenon DEF Emplace
  <2> QED
    BY <2>4, <2>5, <2>6, <2>7, <2>8, <2>9, <2>10, Zenon DEF Get, FinishGet
<1>TypesOfUses.
      ASSUME FiniteSetFacts, IInv, NEW t \in Thread, Use(t) \/ DropProvider(t)
      PROVE  TypeOK'
  <2> USE <1>TypesOfUses
  <2>1. TypeOK
    BY Zenon DEF IInv, CountIsExact
  <2>2. /\ CountTypes /\ PoolTypes /\ GetTypes /\ ChunkTypes
        /\ releasing \in [Thread -> Seq(FrameType)]
    BY <2>1, Types, Zenon
  <2>3. ASSUME NEW b \in Segment, Release(t, b) PROVE TypeOK'
    <3>1. refs[b] \in Nat \ {0}
      BY <2>3, Referenced DEF Release
    <3>2. Frame(b) \in FrameType
      BY Zenon DEF Frame, ReleaseStep, FrameType
    <3>3. CountTypes'
      BY <2>2, <2>3, <3>1 DEF Release, FetchSub, CountTypes
    <3>4. releasing' \in [Thread -> Seq(FrameType)]
      BY <2>2, <2>3, <3>2 DEF Release, FetchSub
    <3> QED
      BY <2>2, <2>3, <3>3, <3>4, Types, <1>TypesUnchanged, Zenon DEF Release
  <2>4. ASSUME NEW b \in Segment, NEW u \in Thread, Copy(t, u, b) PROVE TypeOK'
    <3>1. CountTypes'
      BY <2>2, <2>4 DEF CountTypes, Copy
    <3> QED
      BY <2>2, <2>4, <3>1, Types, <1>TypesUnchanged, Zenon DEF Copy
  <2>5. ASSUME NEW b \in Segment, NEW p \in Segment, StoreChild(t, p, b) PROVE TypeOK'
    <3>1. CountTypes'
      BY <2>2, <2>5, Zenon DEF CountTypes, StoreChild
    <3> QED
      BY <2>2, <2>5, <3>1, Types, <1>TypesUnchanged, Zenon DEF StoreChild
  <2>6. ASSUME NEW b \in Segment, NEW p \in Segment, LoadChild(t, p, b) PROVE TypeOK'
    <3>1. CountTypes'
      BY <2>2, <2>6 DEF CountTypes, LoadChild
    <3> QED
      BY <2>2, <2>6, <3>1, Types, <1>TypesUnchanged, Zenon DEF LoadChild
  <2>7. CASE DropProvider(t)
    <3>1. PoolTypes'
      BY <2>2, <2>7, Zenon DEF DropProvider, PoolTypes
    <3> QED
      BY <2>2, <2>7, <3>1, Types, <1>TypesUnchanged, Zenon DEF DropProvider
  <2> QED
    BY <2>3, <2>4, <2>5, <2>6, <2>7, Zenon DEF Use
<1>TypesOfReleases.
      ASSUME FiniteSetFacts, IInv, NEW t \in Thread, FinishRelease(t)
      PROVE  TypeOK'
  <2> USE <1>TypesOfReleases
  <2>1. TypeOK /\ InnermostGoesFirst
    BY Zenon DEF IInv, CountIsExact
  <2>2. /\ CountTypes /\ PoolTypes /\ GetTypes /\ ChunkTypes
        /\ releasing \in [Thread -> Seq(FrameType)]
    BY <2>1, Types, Zenon
  <2>3. ASSUME NEW x, InStep(t, x) PROVE releasing[t] # <<>> /\ Releasing(t) \in Segment
    BY <2>3, <2>1, TopFrame, Zenon DEF InStep
  <2>4. ASSUME NEW x, InStep(t, x), NEW n \in ReleaseStep, releasing' = [releasing EXCEPT ![t] = NextFrame(t, n)]
        PROVE  releasing' \in [Thread -> Seq(FrameType)]
    BY <2>1, <2>3, <2>4, FrameMoves, Zenon
  <2>5. {"children", "recycle", "deallocate", "account", "drop"} = ReleaseStep
    BY Zenon DEF ReleaseStep
  <2>6. CASE ReleaseChild(t)
    <3>1. PICK b \in children[Releasing(t)] :
            /\ children' = [children EXCEPT ![Releasing(t)] = @ \ {b}]
            /\ FetchSub(t, b, releasing[t])
      BY <2>6, Zenon DEF ReleaseChild
    <3>2. Releasing(t) \in Segment
      BY <2>3, <2>6, Zenon DEF ReleaseChild
    <3>3. b \in Segment /\ refs[b] \in Nat \ {0}
      BY <3>2, Referenced
    <3>4. CountTypes'
      BY <2>2, <2>6, <3>1, <3>2, <3>3 DEF ReleaseChild, FetchSub, CountTypes
    <3>5. Frame(b) \in FrameType
      BY <3>3, Zenon DEF Frame, ReleaseStep, FrameType
    <3>6. releasing' \in [Thread -> Seq(FrameType)]
      BY <2>2, <3>1, <3>5 DEF FetchSub
    <3> QED
      BY <2>2, <2>6, <3>4, <3>6, Types, <1>TypesUnchanged, Zenon DEF ReleaseChild
  <2>7. CASE TakeRecycler(t)
    <3>1. CountTypes'
      BY <2>2, <2>7, Zenon DEF TakeRecycler, CountTypes
    <3> QED
      BY <2>2, <2>4, <2>5, <2>7, <3>1, Types, <1>TypesUnchanged, Zenon DEF TakeRecycler
  <2>8. CASE RecyclePooled(t)
    <3>1. PoolTypes'
      BY <2>2, <2>8, Zenon DEF RecyclePooled, PoolTypes
    <3> QED
      BY <2>2, <2>4, <2>5, <2>8, <3>1, Types, <1>TypesUnchanged, Zenon DEF RecyclePooled
  <2>9. CASE RecycleUnpooled(t)
    <3>1. /\ chunks' \in [Chunk -> [owner : Thread \cup {None}, active : Nat, used : Nat]]
          /\ last' \in [Thread -> Chunk \cup {None}]
          /\ releasing' = [releasing EXCEPT ![t] = NextFrame(t, "deallocate")]
             \/ releasing' = [releasing EXCEPT ![t] = NextFrame(t, "drop")]
      BY <2>9, ChunkAfterRecycle, Zenon
    <3>2. ChunkTypes'
      BY <2>2, <2>9, <3>1, Zenon DEF RecycleUnpooled, ChunkTypes
    <3> QED
      BY <2>2, <2>4, <2>5, <2>9, <3>1, <3>2, Types, <1>TypesUnchanged, Zenon DEF RecycleUnpooled
  <2>10. CASE Deallocate(t)
    <3>1. ChunkTypes'
      BY <2>2, <2>10, Zenon DEF Deallocate, ChunkTypes
    <3> QED
      BY <2>2, <2>4, <2>5, <2>10, <3>1, Types, <1>TypesUnchanged, Zenon DEF Deallocate
  <2>11. CASE Account(t)
    <3>1. bytes \in Nat \ {0}
      BY <2>11, ChargedIsPaid, Zenon DEF Account
    <3>2. ChunkTypes'
      BY <2>2, <2>11, <3>1 DEF Account, ChunkTypes
    <3> QED
      BY <2>2, <2>4, <2>5, <2>11, <3>2, Types, <1>TypesUnchanged, Zenon DEF Account
  <2>12. CASE DropRecycler(t)
    <3>1. releasing' \in [Thread -> Seq(FrameType)]
      BY <2>1, <2>12, FrameEnds, Zenon DEF DropRecycler
    <3>2. PoolTypes'
      BY <2>2, <2>12, Zenon DEF DropRecycler, PoolTypes
    <3> QED
      BY <2>2, <2>12, <3>1, <3>2, Types, <1>TypesUnchanged, Zenon DEF DropRecycler
  <2> QED
    BY <2>6, <2>7, <2>8, <2>9, <2>10, <2>11, <2>12, Zenon DEF FinishRelease
<1> SUFFICES ASSUME FiniteSetFacts, IInv, NEW t \in Thread, Get(t) \/ FinishGet(t) \/ Use(t) \/ FinishRelease(t) \/ DropProvider(t)
             PROVE  TypeOK'
  BY Zenon
<1> QED
  BY <1>TypesOfGets, <1>TypesOfUses, <1>TypesOfReleases, Zenon
-----------------------------------------------------------------------------
\* References

LEMMA ReferencesStay ==
  FiniteSetFacts /\ IInv /\ [Next]_vars =>
    ReferencesAreCounted'
<1>HolderGained.
      ASSUME FiniteSetFacts, IInv, NEW t \in Thread, NEW b \in Segment, b \notin held[t], held' = [held EXCEPT ![t] = @ \cup {b}]
      PROVE  /\ Cardinality(Holders(b)') = Cardinality(Holders(b)) + 1
             /\ \A x \in Segment \ {b} : Holders(x)' = Holders(x)
  <2> USE <1>HolderGained
  <2>1. held \in [Thread -> SUBSET Segment]
    BY Zenon DEF IInv, CountIsExact, TypeOK
  <2>2. Holders(b)' = Holders(b) \cup {t} /\ t \notin Holders(b)
    BY <2>1, Zenon DEF Holders
  <2>3. \A x \in Segment \ {b} : Holders(x)' = Holders(x)
    BY <2>1, Zenon DEF Holders
  <2>4. Cardinality(Holders(b) \cup {t}) = Cardinality(Holders(b)) + 1
    BY <2>2, OneMore, Referenced, Zenon
  <2> QED
    BY <2>2, <2>3, <2>4, Zenon
<1>HolderLost.
      ASSUME FiniteSetFacts, IInv, NEW t \in Thread, NEW b \in held[t], held' = [held EXCEPT ![t] = @ \ {b}]
      PROVE  /\ Cardinality(Holders(b)') = Cardinality(Holders(b)) - 1
             /\ \A x \in Segment \ {b} : Holders(x)' = Holders(x)
  <2> USE <1>HolderLost
  <2>1. held \in [Thread -> SUBSET Segment]
    BY Zenon DEF IInv, CountIsExact, TypeOK
  <2>2. Holders(b)' = Holders(b) \ {t} /\ t \in Holders(b)
    BY <2>1, Zenon DEF Holders
  <2>3. \A x \in Segment \ {b} : Holders(x)' = Holders(x)
    BY <2>1, Zenon DEF Holders
  <2>4. Cardinality(Holders(b) \ {t}) = Cardinality(Holders(b)) - 1
    BY <2>2, OneLess, Referenced, Zenon
  <2> QED
    BY <2>2, <2>3, <2>4, Zenon
<1>ParentGained.
      ASSUME FiniteSetFacts, IInv, NEW p \in Segment, NEW b \in Segment, b \notin children[p],
             children' = [children EXCEPT ![p] = @ \cup {b}]
      PROVE  /\ Cardinality(Parents(b)') = Cardinality(Parents(b)) + 1
             /\ \A x \in Segment \ {b} : Parents(x)' = Parents(x)
  <2> USE <1>ParentGained
  <2>1. children \in [Segment -> SUBSET Segment]
    BY Zenon DEF IInv, CountIsExact, TypeOK
  <2>2. Parents(b)' = Parents(b) \cup {p} /\ p \notin Parents(b)
    BY <2>1, Zenon DEF Parents
  <2>3. \A x \in Segment \ {b} : Parents(x)' = Parents(x)
    BY <2>1, Zenon DEF Parents
  <2>4. Cardinality(Parents(b) \cup {p}) = Cardinality(Parents(b)) + 1
    BY <2>2, OneMore, Referenced, Zenon
  <2> QED
    BY <2>2, <2>3, <2>4, Zenon
<1>ParentLost.
      ASSUME FiniteSetFacts, IInv, NEW p \in Segment, NEW b \in children[p], children' = [children EXCEPT ![p] = @ \ {b}]
      PROVE  /\ Cardinality(Parents(b)') = Cardinality(Parents(b)) - 1
             /\ \A x \in Segment \ {b} : Parents(x)' = Parents(x)
  <2> USE <1>ParentLost
  <2>1. children \in [Segment -> SUBSET Segment]
    BY Zenon DEF IInv, CountIsExact, TypeOK
  <2>2. Parents(b)' = Parents(b) \ {p} /\ p \in Parents(b)
    BY <2>1, Zenon DEF Parents
  <2>3. \A x \in Segment \ {b} : Parents(x)' = Parents(x)
    BY <2>1, Zenon DEF Parents
  <2>4. Cardinality(Parents(b) \ {p}) = Cardinality(Parents(b)) - 1
    BY <2>2, OneLess, Referenced, Zenon
  <2> QED
    BY <2>2, <2>3, <2>4, Zenon
<1> SUFFICES ASSUME FiniteSetFacts, IInv, [Next]_vars
             PROVE  ReferencesAreCounted'
  BY Zenon
<1>1. /\ refs \in [Segment -> Nat]
      /\ \A b \in Segment : refs[b] = Cardinality(Holders(b)) + Cardinality(Parents(b))
  BY Zenon DEF IInv, CountIsExact, TypeOK, ReferencesAreCounted
<1>2. \A b \in Segment : Cardinality(Holders(b)) \in Nat /\ Cardinality(Parents(b)) \in Nat
  BY Referenced, Counts, Zenon
<1>3. ASSUME UNCHANGED held PROVE \A b \in Segment : Holders(b)' = Holders(b)
  BY <1>3, Zenon DEF Holders
<1>4. ASSUME UNCHANGED children PROVE \A b \in Segment : Parents(b)' = Parents(b)
  BY <1>4, Zenon DEF Parents
<1>5. CASE UNCHANGED <<refs, held, children>>
  BY <1>1, <1>3, <1>4, <1>5, Zenon DEF ReferencesAreCounted
<1>6. ASSUME NEW b \in Segment, NEW k, refs' = [refs EXCEPT ![b] = k],
             \A x \in Segment \ {b} : Holders(x)' = Holders(x) /\ Parents(x)' = Parents(x),
             k = Cardinality(Holders(b)') + Cardinality(Parents(b)')
      PROVE  ReferencesAreCounted'
  <2>1. ASSUME NEW x \in Segment PROVE refs'[x] = Cardinality(Holders(x)') + Cardinality(Parents(x)')
    <3>1. CASE x = b
      BY <3>1, <1>1, <1>6, Zenon
    <3>2. CASE x # b
      <4>1. refs'[x] = refs[x] /\ Holders(x)' = Holders(x) /\ Parents(x)' = Parents(x)
        BY <3>2, <1>1, <1>6, Zenon
      <4> QED
        BY <4>1, <1>1, Zenon
    <3> QED
      BY <3>1, <3>2, Zenon
  <2> QED
    BY <2>1, Zenon DEF ReferencesAreCounted
<1>7. ASSUME NEW t \in Thread, NEW b \in Segment, b \notin held[t], UNCHANGED children,
             held' = [held EXCEPT ![t] = @ \cup {b}], refs' = [refs EXCEPT ![b] = refs[b] + 1]
      PROVE  ReferencesAreCounted'
  <2>1. Cardinality(Holders(b)') = Cardinality(Holders(b)) + 1
    BY <1>7, <1>HolderGained, Zenon
  <2>2. \A x \in Segment \ {b} : Holders(x)' = Holders(x) /\ Parents(x)' = Parents(x)
    BY <1>7, <1>4, <1>HolderGained, Zenon
  <2>3. Cardinality(Parents(b)') = Cardinality(Parents(b))
    BY <1>7, <1>4, Zenon
  <2>4. refs[b] + 1 = Cardinality(Holders(b)') + Cardinality(Parents(b)')
    BY <2>1, <2>3, <1>1, <1>2
  <2> QED
    BY <1>6, <1>7, <2>2, <2>4, Zenon
<1>8. ASSUME NEW t \in Thread, NEW b \in Segment, b \notin recycler, UNCHANGED children,
             held' = [held EXCEPT ![t] = @ \cup {b}], refs' = [refs EXCEPT ![b] = 1]
      PROVE  ReferencesAreCounted'
  <2>1. b \notin held[t] /\ refs[b] = 0
    BY <1>8, Referenced, Unowned, Zenon
  <2>2. refs' = [refs EXCEPT ![b] = refs[b] + 1]
    BY <1>8, <2>1
  <2> QED
    BY <1>7, <1>8, <2>1, <2>2, Zenon
<1>9. ASSUME NEW t \in Thread, Prepare(t) PROVE ReferencesAreCounted'
  <2>1. hand[t] \in Segment /\ hand[t] \notin recycler
    BY <1>9, Zenon DEF Prepare, IInv, PreparedByOne, Segment
  <2> QED
    BY <1>8, <1>9, <2>1, Zenon DEF Prepare
<1>10. ASSUME NEW t \in Thread, Emplace(t) PROVE ReferencesAreCounted'
  <2>1. PICK u \in Unpooled :
          /\ chunkOf[u] = None /\ refs' = [refs EXCEPT ![u] = 1]
          /\ held' = [held EXCEPT ![t] = @ \cup {u}]
    BY <1>10, Zenon DEF Emplace
  <2>2. u \in Segment /\ u \notin recycler
    BY <2>1, Zenon DEF IInv, ChunksAreKnown, Segment
  <2> QED
    BY <1>8, <1>10, <2>1, <2>2, Zenon DEF Emplace
<1>11. ASSUME NEW t \in Thread, Use(t) PROVE ReferencesAreCounted'
  <2>1. PICK b \in Segment : \/ Release(t, b)
                             \/ \E u \in Thread : Copy(t, u, b)
                             \/ \E p \in Segment : StoreChild(t, p, b) \/ LoadChild(t, p, b)
    BY <1>11, Zenon DEF Use
  <2>2. CASE Release(t, b)
    <3>1. /\ b \in held[t] /\ held' = [held EXCEPT ![t] = @ \ {b}] /\ UNCHANGED children
          /\ refs' = [refs EXCEPT ![b] = refs[b] - 1]
      BY <2>2, Zenon DEF Release, FetchSub
    <3>2. Cardinality(Holders(b)') = Cardinality(Holders(b)) - 1
      BY <3>1, <1>HolderLost, Zenon
    <3>3. \A x \in Segment \ {b} : Holders(x)' = Holders(x) /\ Parents(x)' = Parents(x)
      BY <3>1, <1>4, <1>HolderLost, Zenon
    <3>4. Cardinality(Parents(b)') = Cardinality(Parents(b))
      BY <3>1, <1>4, Zenon
    <3>5. refs[b] - 1 = Cardinality(Holders(b)') + Cardinality(Parents(b)')
      BY <3>2, <3>4, <1>1, <1>2
    <3> QED
      BY <1>6, <3>1, <3>3, <3>5, Zenon
  <2>3. ASSUME NEW u \in Thread, Copy(t, u, b) PROVE ReferencesAreCounted'
    BY <1>7, <2>3, Zenon DEF Copy
  <2>4. ASSUME NEW p \in Segment, LoadChild(t, p, b) PROVE ReferencesAreCounted'
    BY <1>7, <2>4, Zenon DEF LoadChild
  <2>5. ASSUME NEW p \in Segment, StoreChild(t, p, b) PROVE ReferencesAreCounted'
    <3>1. /\ b \in held[t] /\ held' = [held EXCEPT ![t] = @ \ {b}] /\ UNCHANGED refs
          /\ b \notin children[p] /\ children' = [children EXCEPT ![p] = @ \cup {b}]
      BY <2>5, Zenon DEF StoreChild
    <3>2. /\ Cardinality(Holders(b)') = Cardinality(Holders(b)) - 1
          /\ \A x \in Segment \ {b} : Holders(x)' = Holders(x)
      BY <3>1, <1>HolderLost, Zenon
    <3>3. /\ Cardinality(Parents(b)') = Cardinality(Parents(b)) + 1
          /\ \A x \in Segment \ {b} : Parents(x)' = Parents(x)
      BY <3>1, <1>ParentGained, Zenon
    <3>4. refs[b] = Cardinality(Holders(b)') + Cardinality(Parents(b)')
      BY <3>2, <3>3, <1>1, <1>2
    <3>5. refs' = [refs EXCEPT ![b] = refs[b]]
      BY <3>1, <1>1, Zenon
    <3> QED
      BY <1>6, <3>2, <3>3, <3>4, <3>5, Zenon
  <2> QED
    BY <2>1, <2>2, <2>3, <2>4, <2>5, Zenon
<1>12. ASSUME NEW t \in Thread, ReleaseChild(t) PROVE ReferencesAreCounted'
  <2>1. PICK b \in children[Releasing(t)] :
          /\ children' = [children EXCEPT ![Releasing(t)] = @ \ {b}]
          /\ refs' = [refs EXCEPT ![b] = refs[b] - 1]
    BY <1>12, Zenon DEF ReleaseChild, FetchSub
  <2>2. Releasing(t) \in Segment
    BY <1>12, Released, Zenon DEF ReleaseChild, InStep
  <2>3. b \in Segment
    BY <2>2, Referenced, Zenon
  <2>4. Cardinality(Parents(b)') = Cardinality(Parents(b)) - 1
    BY <2>1, <2>2, <1>ParentLost, Zenon
  <2>5. \A x \in Segment : Holders(x)' = Holders(x)
    BY <1>3, <1>12, Zenon DEF ReleaseChild
  <2>6. \A x \in Segment \ {b} : Holders(x)' = Holders(x) /\ Parents(x)' = Parents(x)
    BY <2>1, <2>2, <2>5, <1>ParentLost, Zenon
  <2>7. refs[b] - 1 = Cardinality(Holders(b)') + Cardinality(Parents(b)')
    BY <2>3, <2>4, <2>5, <1>1, <1>2
  <2> QED
    BY <1>6, <2>1, <2>3, <2>6, <2>7, Zenon
<1> QED
  <2>1. CASE UNCHANGED vars
    BY <2>1, <1>5, Zenon DEF vars, countVars
  <2>2. ASSUME NEW t \in Thread, \/ Dequeue(t) \/ TakeSpace(t) \/ ChargeBudget(t) \/ Refuse(t) \/ AllocateChunk(t)
                                 \/ TakeRecycler(t) \/ RecyclePooled(t) \/ RecycleUnpooled(t) \/ Deallocate(t)
                                 \/ Account(t) \/ DropRecycler(t) \/ DropProvider(t)
        PROVE  UNCHANGED <<refs, held, children>>
    BY <2>2, Zenon DEF Dequeue, TakeSpace, ChargeBudget, Refuse, AllocateChunk, TakeRecycler, RecyclePooled,
                       RecycleUnpooled, Deallocate, Account, DropRecycler, DropProvider, countVars
  <2> QED
    BY <2>1, <2>2, <1>5, <1>9, <1>10, <1>11, <1>12, Zenon DEF Next, Get, FinishGet, FinishRelease
-----------------------------------------------------------------------------
\* Owners

LEMMA Cases ==
  ASSUME NEW t \in Thread, Get(t) \/ FinishGet(t) \/ Use(t) \/ FinishRelease(t) \/ DropProvider(t)
  PROVE  \/ Dequeue(t) \/ Prepare(t) \/ TakeSpace(t) \/ ChargeBudget(t) \/ Refuse(t) \/ AllocateChunk(t)
         \/ Emplace(t) \/ DropProvider(t)
         \/ \E b \in Segment : Release(t, b)
         \/ \E b \in Segment, u \in Thread : Copy(t, u, b)
         \/ \E b, p \in Segment : StoreChild(t, p, b)
         \/ \E b, p \in Segment : LoadChild(t, p, b)
         \/ ReleaseChild(t) \/ TakeRecycler(t) \/ RecyclePooled(t) \/ RecycleUnpooled(t)
         \/ Deallocate(t) \/ Account(t) \/ DropRecycler(t)
BY Zenon DEF Get, FinishGet, Use, FinishRelease

LEMMA OwnersStay ==
  ASSUME FiniteSetFacts, IInv, NEW t \in Thread, Get(t) \/ FinishGet(t) \/ Use(t) \/ FinishRelease(t) \/ DropProvider(t)
  PROVE  UsedSegmentsAreOwned' /\ available' \cap recycler' = {}
<1>1. /\ CountTypes /\ available \subseteq Pooled
      /\ UsedSegmentsAreOwned /\ available \cap recycler = {}
  BY Types, Zenon DEF IInv, CountIsExact, PoolTypes, PoolIsClean
<1> DEFINE Goal == UsedSegmentsAreOwned' /\ available' \cap recycler' = {}
<1> SUFFICES Goal
  BY Zenon
<1>2. CASE UNCHANGED countVars /\ available' \subseteq available
  BY <1>1, <1>2, Zenon DEF UsedSegmentsAreOwned, countVars
<1>3. ASSUME NEW b \in Segment, UNCHANGED <<recycler, available, children>>, b \in recycler,
             \A x \in Segment \ {b} : refs'[x] = refs[x]
      PROVE  Goal
  BY <1>1, <1>3, Zenon DEF UsedSegmentsAreOwned
<1>4. CASE Prepare(t)
  <2>1. hand[t] \in Pooled \ available
    BY <1>4, Zenon DEF Prepare, IInv, PreparedByOne
  <2> QED
    BY <1>1, <1>4, <2>1, Zenon DEF Prepare, UsedSegmentsAreOwned, CountTypes, poolVars
<1>5. CASE Emplace(t)
  BY <1>1, <1>5, SegmentsAreKnown DEF Emplace, UsedSegmentsAreOwned, CountTypes, poolVars
<1>6. ASSUME NEW b \in Segment, Release(t, b) PROVE Goal
  <2>1. b \in recycler
    BY <1>6, Referenced, Zenon DEF Release
  <2> QED
    BY <1>1, <1>3, <1>6, <2>1, Zenon DEF Release, FetchSub, CountTypes, poolVars
<1>7. ASSUME NEW b \in Segment, NEW u \in Thread, Copy(t, u, b) PROVE Goal
  <2>1. b \in recycler
    BY <1>7, Referenced, Zenon DEF Copy
  <2> QED
    BY <1>1, <1>3, <1>7, <2>1, Zenon DEF Copy, CountTypes, poolVars
<1>8. ASSUME NEW b \in Segment, NEW p \in Segment, LoadChild(t, p, b) PROVE Goal
  <2>1. b \in recycler
    BY <1>8, Referenced, Zenon DEF LoadChild
  <2> QED
    BY <1>1, <1>3, <1>8, <2>1, Zenon DEF LoadChild, CountTypes, poolVars
<1>9. ASSUME NEW b \in Segment, NEW p \in Segment, StoreChild(t, p, b) PROVE Goal
  <2>1. p \in recycler
    BY <1>9, Referenced, Zenon DEF StoreChild
  <2> QED
    BY <1>1, <1>9, <2>1, Zenon DEF StoreChild, CountTypes, UsedSegmentsAreOwned, poolVars
<1>10. CASE ReleaseChild(t)
  <2>1. PICK b \in children[Releasing(t)] :
          /\ children' = [children EXCEPT ![Releasing(t)] = @ \ {b}]
          /\ refs' = [refs EXCEPT ![b] = refs[b] - 1]
    BY <1>10, Zenon DEF ReleaseChild, FetchSub
  <2>2. Releasing(t) \in Segment
    BY <1>10, Released, Zenon DEF ReleaseChild, InStep
  <2>3. b \in Segment /\ b \in recycler
    BY <2>2, Referenced, Zenon
  <2>4. Releasing(t) \in recycler
    BY <1>1, <2>2, Zenon DEF UsedSegmentsAreOwned
  <2>5. \A x \in Segment \ {b, Releasing(t)} : refs'[x] = refs[x] /\ children'[x] = children[x]
    BY <1>1, <2>1, <2>2, <2>3, Zenon DEF CountTypes
  <2>6. UNCHANGED <<recycler, available>>
    BY <1>10, Zenon DEF ReleaseChild, poolVars
  <2> QED
    BY <1>1, <2>3, <2>4, <2>5, <2>6, Zenon DEF UsedSegmentsAreOwned
<1>11. CASE TakeRecycler(t)
  <2>1. Releasing(t) \in Segment /\ refs[Releasing(t)] = 0 /\ children[Releasing(t)] = {}
    BY <1>11, Released, Zenon DEF TakeRecycler, InStep
  <2> QED
    BY <1>1, <1>11, <2>1, SMTT(30) DEF TakeRecycler, UsedSegmentsAreOwned, poolVars
<1>12. CASE RecyclePooled(t)
  <2>1. Releasing(t) \notin recycler
    BY <1>12, Released, Zenon DEF RecyclePooled, InStep
  <2> QED
    BY <1>1, <1>12, <2>1, Zenon DEF RecyclePooled, UsedSegmentsAreOwned, countVars
<1>13. ASSUME \/ Dequeue(t) \/ TakeSpace(t) \/ ChargeBudget(t) \/ Refuse(t) \/ AllocateChunk(t)
              \/ RecycleUnpooled(t) \/ Deallocate(t) \/ Account(t) \/ DropRecycler(t) \/ DropProvider(t)
       PROVE  Goal
  <2>1. UNCHANGED countVars
    BY <1>13, Zenon DEF Dequeue, TakeSpace, ChargeBudget, Refuse, AllocateChunk, RecycleUnpooled, Deallocate,
                        Account, DropRecycler, DropProvider
  <2>2. CASE Dequeue(t)
    BY <1>2, <2>1, <2>2, Zenon DEF Dequeue
  <2>3. CASE ~Dequeue(t)
    <3>1. UNCHANGED available
      BY <1>13, <2>3, Zenon DEF TakeSpace, ChargeBudget, Refuse, AllocateChunk, RecycleUnpooled, Deallocate,
                          Account, DropRecycler, DropProvider, poolVars
    <3> QED
      BY <1>2, <2>1, <3>1, Zenon
  <2> QED
    BY <2>2, <2>3, Zenon
<1> HIDE DEF Goal
<1> QED
  BY <1>4, <1>5, <1>6, <1>7, <1>8, <1>9, <1>10, <1>11, <1>12, <1>13, Cases, Zenon

-----------------------------------------------------------------------------
\* Frames

Advances(t) == TakeRecycler(t) \/ RecyclePooled(t) \/ RecycleUnpooled(t) \/ Deallocate(t) \/ Account(t)

\* A step leaves alone what the frames say that it does not advance.
\* The steps that leave the stacks as they are.
\* The steps of t that put the frame g at place k of its stack, or (k = 0) only take one away.
Places(t, k, g) ==
  \A u \in Thread : \A i \in 1 .. Len(releasing'[u]) :
    \/ u = t /\ i = k /\ releasing'[u][i] = g
    \/ /\ ~(u = t /\ i = k) /\ i \in 1 .. Len(releasing[u]) /\ releasing'[u][i] = releasing[u][i]
       /\ Advances(t) => ~(u = t /\ i = Len(releasing[t]))

Apart(t, k, g) ==
  \A u \in Thread : \A i \in 1 .. Len(releasing[u]) : \A f :
    k # 0 /\ ~(u = t /\ i = k) /\ f = releasing[u][i] => Disjoint(f, g)'

\* The last reference to a segment is released.
\* A release advances.
\* A release ends.
\* What a step does to the stacks of releases.
Starts(t, b) ==
  /\ Use(t) \/ ReleaseChild(t)
  /\ releasing[t] = <<>> \/ InStep(t, "children")
  /\ b \in recycler /\ refs[b] = 1 /\ UNCHANGED recycler /\ refs' = [refs EXCEPT ![b] = refs[b] - 1]
  /\ releasing' = [releasing EXCEPT ![t] = Append(releasing[t], Frame(b))]

LEMMA Stacks ==
  ASSUME FiniteSetFacts, IInv, NEW t \in Thread, Get(t) \/ FinishGet(t) \/ Use(t) \/ FinishRelease(t) \/ DropProvider(t)
  PROVE  UNCHANGED releasing \/ Advances(t) \/ DropRecycler(t) \/ \E b \in Segment : Starts(t, b)
<1>1. releasing \in [Thread -> Seq(FrameType)]
  BY Types, Zenon DEF IInv, CountIsExact
<1>2. ASSUME NEW b \in Segment, Release(t, b) PROVE UNCHANGED releasing \/ Starts(t, b)
  <2>1. /\ releasing[t] = <<>> /\ b \in recycler /\ UNCHANGED recycler /\ Use(t)
        /\ refs' = [refs EXCEPT ![b] = refs[b] - 1]
        /\ releasing' = [releasing EXCEPT ![t] = IF refs[b] = 1 THEN Append(<<>>, Frame(b)) ELSE <<>>]
    BY <1>2, Referenced, Zenon DEF Release, Idle, FetchSub, Use
  <2>2. CASE refs[b] = 1
    <3>1. releasing' = [releasing EXCEPT ![t] = Append(releasing[t], Frame(b))]
      BY <2>1, <2>2, Zenon
    <3> QED
      BY <2>1, <2>2, <3>1, Zenon DEF Starts
  <2>3. CASE refs[b] # 1
    BY <1>1, <2>1, <2>3, Zenon
  <2> QED
    BY <2>2, <2>3, Zenon
<1>3. ASSUME ReleaseChild(t) PROVE UNCHANGED releasing \/ \E b \in Segment : Starts(t, b)
  <2>1. PICK b \in children[Releasing(t)] : FetchSub(t, b, releasing[t])
    BY <1>3, Zenon DEF ReleaseChild
  <2>2. InStep(t, "children") /\ UNCHANGED recycler /\ Releasing(t) \in Segment
    BY <1>3, Released, Zenon DEF ReleaseChild, InStep
  <2>3. b \in Segment /\ b \in recycler
    BY <2>2, Referenced, Zenon
  <2>4. CASE refs[b] = 1
    <3>1. Starts(t, b)
      BY <1>3, <2>1, <2>2, <2>3, <2>4, Zenon DEF Starts, FetchSub
    <3> QED
      BY <2>3, <3>1, Zenon
  <2>5. CASE refs[b] # 1
    BY <1>1, <2>1, <2>5, Zenon DEF FetchSub
  <2> QED
    BY <2>4, <2>5, Zenon
<1>4. ASSUME \/ Dequeue(t) \/ Prepare(t) \/ TakeSpace(t) \/ ChargeBudget(t) \/ Refuse(t) \/ AllocateChunk(t)
             \/ Emplace(t) \/ DropProvider(t)
             \/ \E b \in Segment, u \in Thread : Copy(t, u, b)
             \/ \E b, p \in Segment : StoreChild(t, p, b)
             \/ \E b, p \in Segment : LoadChild(t, p, b)
      PROVE  UNCHANGED releasing
  BY <1>4, Zenon DEF Dequeue, Prepare, TakeSpace, ChargeBudget, Refuse, AllocateChunk, Emplace, DropProvider,
                     Copy, StoreChild, LoadChild
<1> QED
  BY <1>2, <1>3, <1>4, Cases, Zenon DEF Advances

LEMMA FramesStay ==
  FiniteSetFacts /\ IInv =>
  \A t \in Thread :
  (Get(t) \/ FinishGet(t) \/ Use(t) \/ FinishRelease(t) \/ DropProvider(t)) =>
    InnermostGoesFirst' /\ FramesAreSound' /\ FramesAreDisjoint'
<1>FrameFacts.
      ASSUME IInv, NEW u \in Thread, NEW i \in 1 .. Len(releasing[u]), NEW f, f = releasing[u][i]
      PROVE  /\ f \in FrameType /\ f.segment \in Segment /\ FrameIsSound(f)
             /\ f.next = "recycle" => InStep(u, "recycle") /\ Releasing(u) = f.segment /\ Recycling(f.segment)
  <2> USE <1>FrameFacts
  <2>1. releasing[u] \in Seq(FrameType)
    BY Types, Zenon DEF IInv, CountIsExact
  <2>2. f \in FrameType
    BY <2>1
  <2>3. FrameIsSound(f)
    BY Zenon DEF IInv, FramesAreSound
  <2>4. ASSUME f.next = "recycle" PROVE InStep(u, "recycle") /\ Releasing(u) = f.segment
    BY <2>4, RecycleIsInnermost, Zenon
  <2> QED
    BY <2>2, <2>3, <2>4, Zenon DEF FrameType, Recycling
<1>OtherFramesStay.
      ASSUME FiniteSetFacts, IInv, NEW t \in Thread, Get(t) \/ FinishGet(t) \/ Use(t) \/ FinishRelease(t) \/ DropProvider(t),
             NEW u \in Thread, NEW i \in 1 .. Len(releasing[u]), NEW f, f = releasing[u][i],
             Advances(t) => ~(u = t /\ i = Len(releasing[t]))
      PROVE  /\ FrameIsSound(f)'
             /\ f.next = "deallocate" => chunkOf'[f.segment] = chunkOf[f.segment]
  <2> USE <1>OtherFramesStay
  <2> DEFINE Goal == /\ FrameIsSound(f)'
                     /\ f.next = "deallocate" => chunkOf'[f.segment] = chunkOf[f.segment]
  <2> SUFFICES Goal
    BY Zenon
  <2>1. /\ f.segment \in Segment /\ FrameIsSound(f)
        /\ f.next = "recycle" => InStep(u, "recycle") /\ Releasing(u) = f.segment /\ Recycling(f.segment)
    BY <1>FrameFacts, Zenon
  <2>2. CountTypes /\ PoolTypes /\ ChunkTypes
    BY Types, Zenon DEF IInv, CountIsExact
  <2>3. CASE UNCHANGED <<refs, recycler, chunkOf, chunks>> /\ available' \subseteq available
    BY <2>1, <2>3, Zenon DEF FrameIsSound
  <2>4. ASSUME NEW b \in Segment, b \in recycler, refs[b] >= 1, UNCHANGED <<recycler, available, chunkOf, chunks>>,
               \A x \in Segment \ {b} : refs'[x] = refs[x]
        PROVE  Goal
    <3>1. f.next = "children" => f.segment # b
      BY <2>1, <2>4, SMTT(30) DEF FrameIsSound
    <3> QED
      BY <2>1, <2>4, <3>1, Zenon DEF FrameIsSound
  <2>5. ASSUME UNCHANGED <<refs, recycler, available, chunkOf>>, NEW c \in Chunk, chunks[c] # Gone \/ c \notin allocated,
               \A d \in Chunk \ {c} : chunks'[d] = chunks[d]
        PROVE  Goal
    <3>1. ASSUME f.next = "deallocate" PROVE chunkOf[f.segment] \in Chunk \ {c}
      <4>1. f.segment \in Unpooled /\ chunkOf[f.segment] # None /\ chunks[chunkOf[f.segment]] = Gone
        BY <2>1, <3>1, Zenon DEF FrameIsSound
      <4>2. chunkOf[f.segment] \in allocated
        BY <4>1, Zenon DEF IInv, ChunksAreKnown
      <4> QED
        BY <2>2, <2>5, <4>1, <4>2, Zenon DEF ChunkTypes
    <3> QED
      BY <2>1, <2>5, <3>1, Zenon DEF FrameIsSound
  <2>6. CASE Prepare(t)
    <3>1. hand[t] \in Segment \ recycler /\ ~Recycling(hand[t])
      BY <2>6, Zenon DEF Prepare, IInv, PreparedByOne, Segment
    <3>2. f.next \in {"children", "recycle"} => f.segment # hand[t]
      BY <2>1, <3>1, Zenon DEF FrameIsSound
    <3>3. /\ \A x \in Segment \ {hand[t]} : refs'[x] = refs[x] /\ (x \in recycler' <=> x \in recycler)
          /\ UNCHANGED <<available, chunkOf, chunks>>
      BY <2>2, <2>6, <3>1, Zenon DEF Prepare, CountTypes, poolVars, chunkVars
    <3> QED
      BY <2>1, <3>2, <3>3, Zenon DEF FrameIsSound
  <2>7. CASE TakeSpace(t)
    <3>1. last[t] \in Chunk /\ chunks[last[t]] # Gone
      <4>1. last[t] \in Chunk /\ chunks[last[t]].owner = t
        BY <2>2, <2>7, Zenon DEF TakeSpace, ChunkTypes, IInv, ChunksAreKnown
      <4> QED
        BY <4>1, SegmentsAreKnown DEF Gone
    <3>2. UNCHANGED <<refs, recycler, available, chunkOf>> /\ \A d \in Chunk \ {last[t]} : chunks'[d] = chunks[d]
      BY <2>2, <2>7, <3>1, Zenon DEF TakeSpace, countVars, poolVars, ChunkTypes
    <3> QED
      BY <2>5, <3>1, <3>2, Zenon
  <2>8. CASE AllocateChunk(t)
    <3>1. PICK c \in Chunk \ allocated : chunks' = [chunks EXCEPT ![c] = [owner |-> t, active |-> 1, used |-> 1]]
      BY <2>8, Zenon DEF AllocateChunk
    <3>2. UNCHANGED <<refs, recycler, available, chunkOf>> /\ \A d \in Chunk \ {c} : chunks'[d] = chunks[d]
      BY <2>2, <2>8, <3>1, Zenon DEF AllocateChunk, countVars, poolVars, ChunkTypes
    <3> QED
      BY <2>5, <3>1, <3>2, Zenon
  <2>9. CASE Emplace(t)
    <3>1. PICK v \in Unpooled :
            /\ chunkOf[v] = None /\ chunkOf' = [chunkOf EXCEPT ![v] = hand[t]]
            /\ refs' = [refs EXCEPT ![v] = 1] /\ recycler' = recycler \cup {v}
      BY <2>9, Zenon DEF Emplace
    <3>2. v \notin recycler
      BY <3>1, Zenon DEF IInv, ChunksAreKnown
    <3>3. f.next \in {"children", "recycle", "deallocate"} => f.segment # v
      BY <2>1, <3>1, <3>2, Zenon DEF FrameIsSound
    <3>4. /\ \A x \in Segment \ {v} : refs'[x] = refs[x] /\ (x \in recycler' <=> x \in recycler)
          /\ \A x \in Unpooled \ {v} : chunkOf'[x] = chunkOf[x]
          /\ UNCHANGED <<available, chunks>>
      BY <2>2, <2>9, <3>1, Zenon DEF Emplace, CountTypes, poolVars, ChunkTypes
    <3> QED
      BY <2>1, <3>3, <3>4, Zenon DEF FrameIsSound
  <2>10. ASSUME NEW b \in Segment, Release(t, b) PROVE Goal
    <3>1. b \in recycler /\ refs[b] >= 1
      BY <2>10, Referenced, Zenon DEF Release
    <3> QED
      BY <2>2, <2>4, <2>10, <3>1, Zenon DEF Release, FetchSub, CountTypes, poolVars, chunkVars
  <2>11. ASSUME NEW b \in Segment, NEW v \in Thread, Copy(t, v, b) PROVE Goal
    <3>1. b \in recycler /\ refs[b] >= 1
      BY <2>11, Referenced, Zenon DEF Copy
    <3> QED
      BY <2>2, <2>4, <2>11, <3>1, Zenon DEF Copy, CountTypes, poolVars, chunkVars
  <2>12. ASSUME NEW b \in Segment, NEW p \in Segment, LoadChild(t, p, b) PROVE Goal
    <3>1. b \in recycler /\ refs[b] >= 1
      BY <2>12, Referenced, Zenon DEF LoadChild
    <3> QED
      BY <2>2, <2>4, <2>12, <3>1, Zenon DEF LoadChild, CountTypes, poolVars, chunkVars
  <2>13. CASE ReleaseChild(t)
    <3>1. PICK b \in children[Releasing(t)] : refs' = [refs EXCEPT ![b] = refs[b] - 1]
      BY <2>13, Zenon DEF ReleaseChild, FetchSub
    <3>2. Releasing(t) \in Segment
      BY <2>13, Released, Zenon DEF ReleaseChild, InStep
    <3>3. b \in Segment /\ b \in recycler /\ refs[b] >= 1
      BY <3>2, Referenced, Zenon
    <3> QED
      BY <2>2, <2>4, <2>13, <3>1, <3>3, Zenon DEF ReleaseChild, CountTypes, poolVars, chunkVars
  <2>14. ASSUME NEW x, InStep(t, x), Advances(t)
         PROVE  /\ Releasing(t) \in Segment
                /\ {f.next, x} \subseteq {"children", "recycle"} => f.segment # Releasing(t)
                /\ f.next = "deallocate" /\ x = "deallocate" => chunkOf[f.segment] # chunkOf[Releasing(t)]
    <3> DEFINE n == Len(releasing[t])
               g == releasing[t][n]
    <3>1. /\ n \in Nat \ {0} /\ g.segment = Releasing(t) /\ g.next = x /\ Releasing(t) \in Segment
      BY <2>14, Released, Zenon DEF InStep
    <3>2. <<u, i>> # <<t, n>> /\ n \in 1 .. Len(releasing[t])
      BY <2>14, <3>1
    <3>3. Disjoint(f, g)
      BY <3>2, Zenon DEF IInv, FramesAreDisjoint
    <3> HIDE DEF g, n
    <3> QED
      BY <3>1, <3>3, Zenon DEF Disjoint
  <2>15. CASE TakeRecycler(t)
    <3>1. f.next = "children" => f.segment # Releasing(t)
      BY <2>14, <2>15, Zenon DEF TakeRecycler, Advances
    <3> QED
      BY <2>1, <2>15, <3>1, Zenon DEF TakeRecycler, FrameIsSound, poolVars, chunkVars
  <2>16. CASE RecyclePooled(t)
    <3>1. f.next = "recycle" => f.segment # Releasing(t)
      BY <2>14, <2>16, Zenon DEF RecyclePooled, Advances
    <3> QED
      BY <2>1, <2>16, <3>1, Zenon DEF RecyclePooled, FrameIsSound, countVars, chunkVars
  <2>17. CASE RecycleUnpooled(t)
    <3>1. /\ chunkOf[Releasing(t)] \in Chunk /\ chunks[chunkOf[Releasing(t)]] # Gone
      BY <2>17, RecycledIsCounted, Zenon DEF RecycleUnpooled
    <3>2. \A d \in Chunk \ {chunkOf[Releasing(t)]} : chunks'[d] = chunks[d]
      BY <2>17, ChunkAfterRecycle, Zenon
    <3>3. UNCHANGED <<refs, recycler, available, chunkOf>>
      BY <2>17, Zenon DEF RecycleUnpooled, countVars, poolVars
    <3> QED
      BY <2>5, <3>1, <3>2, <3>3, Zenon
  <2>18. CASE Deallocate(t)
    <3> DEFINE c == chunkOf[Releasing(t)]
    <3>1. InStep(t, "deallocate") /\ c \in Chunk /\ chunks[c] = Gone
      BY <2>18, Released, Zenon DEF Deallocate, InStep
    <3>2. f.next = "deallocate" => chunkOf[f.segment] # c
      BY <2>14, <2>18, <3>1, Zenon DEF Advances
    <3>3. f.next = "recycle" /\ f.segment \in Unpooled => chunkOf[f.segment] # c
      BY <2>1, <3>1, Counted, Zenon DEF Residents
    <3>4. /\ UNCHANGED <<refs, recycler, available, chunks>>
          /\ \A v \in Unpooled : chunkOf[v] # c => chunkOf'[v] = chunkOf[v]
      BY <2>18, Zenon DEF Deallocate, countVars, poolVars
    <3> HIDE DEF c
    <3> QED
      BY <2>1, <3>2, <3>3, <3>4, Zenon DEF FrameIsSound
  <2>19. ASSUME \/ Dequeue(t) \/ ChargeBudget(t) \/ Refuse(t) \/ DropProvider(t) \/ Account(t) \/ DropRecycler(t)
                \/ \E b, p \in Segment : StoreChild(t, p, b)
         PROVE  Goal
    <3>1. UNCHANGED <<refs, recycler, chunkOf, chunks>>
      BY <2>19, Zenon DEF Dequeue, ChargeBudget, Refuse, DropProvider, Account, DropRecycler, StoreChild,
                          countVars, chunkVars
    <3>2. Dequeue(t) \/ UNCHANGED available
      BY <2>19, Zenon DEF ChargeBudget, Refuse, DropProvider, Account, DropRecycler, StoreChild, poolVars
    <3>3. available' \subseteq available
      BY <3>2, Zenon DEF Dequeue
    <3> QED
      BY <2>3, <3>1, <3>3, Zenon
  <2> HIDE DEF Goal
  <2> QED
    BY <2>6, <2>7, <2>8, <2>9, <2>10, <2>11, <2>12, <2>13, <2>15, <2>16, <2>17, <2>18, <2>19, Cases, Zenon
<1>FramesOfOtherSteps.
      ASSUME FiniteSetFacts, IInv, NEW t \in Thread, Get(t) \/ FinishGet(t) \/ Use(t) \/ FinishRelease(t) \/ DropProvider(t),
             UNCHANGED releasing
      PROVE  InnermostGoesFirst' /\ FramesAreSound' /\ FramesAreDisjoint'
  <2> USE <1>FramesOfOtherSteps
  <2>1. ~Advances(t)
    <3>1. ASSUME NEW x, NEW n, x # n, InStep(t, x), releasing' = [releasing EXCEPT ![t] = NextFrame(t, n)],
                 n \in ReleaseStep
          PROVE  FALSE
      <4>1. TypeOK /\ releasing[t] # <<>>
        BY <3>1, Zenon DEF IInv, CountIsExact, InStep
      <4>2. InStep(t, n)'
        BY <3>1, <4>1, FrameMoves, Zenon
      <4> QED
        BY <3>1, <4>2, Zenon DEF InStep
    <3>2. ~TakeRecycler(t) /\ ~RecyclePooled(t) /\ ~Deallocate(t) /\ ~Account(t)
      BY <3>1, Zenon DEF TakeRecycler, RecyclePooled, Deallocate, Account, ReleaseStep
    <3>3. ~RecycleUnpooled(t)
      BY <3>1, ChunkAfterRecycle, Zenon DEF ReleaseStep
    <3> QED
      BY <3>2, <3>3, Zenon DEF Advances
  <2>2. ASSUME NEW u \in Thread, NEW i \in 1 .. Len(releasing[u]), NEW f, f = releasing[u][i]
        PROVE  /\ FrameIsSound(f)'
               /\ f.next = "deallocate" => chunkOf'[f.segment] = chunkOf[f.segment]
    BY <2>1, <2>2, <1>OtherFramesStay
  <2>3. FramesAreSound'
    BY <2>2, Zenon DEF FramesAreSound
  <2>4. FramesAreDisjoint'
    <3> SUFFICES ASSUME NEW u \in Thread, NEW v \in Thread,
                        NEW i \in 1 .. Len(releasing[u]), NEW j \in 1 .. Len(releasing[v]), <<u, i>> # <<v, j>>
                 PROVE  Disjoint(releasing[u][i], releasing[v][j])'
      BY Zenon DEF FramesAreDisjoint
    <3>1. PICK f, g : f = releasing[u][i] /\ g = releasing[v][j]
      BY Zenon
    <3>2. Disjoint(f, g)
      BY <3>1, Zenon DEF IInv, FramesAreDisjoint
    <3>3. Disjoint(f, g)'
      BY <2>2, <3>1, <3>2, Zenon DEF Disjoint
    <3> QED
      BY <3>1, <3>3, Zenon DEF Disjoint
  <2> QED
    BY <2>3, <2>4, Zenon DEF InnermostGoesFirst, IInv
<1>FramesWithOneNew.
      ASSUME FiniteSetFacts, IInv, NEW t \in Thread, Get(t) \/ FinishGet(t) \/ Use(t) \/ FinishRelease(t) \/ DropProvider(t),
             NEW k \in Nat, NEW g, Places(t, k, g), Apart(t, k, g), k # 0 => FrameIsSound(g)'
      PROVE  FramesAreSound' /\ FramesAreDisjoint'
  <2> USE <1>FramesWithOneNew
  <2>1. ASSUME NEW u \in Thread, NEW i \in 1 .. Len(releasing[u]), NEW f, f = releasing[u][i],
               Advances(t) => ~(u = t /\ i = Len(releasing[t]))
        PROVE  /\ FrameIsSound(f)'
               /\ f.next = "deallocate" => chunkOf'[f.segment] = chunkOf[f.segment]
    BY <2>1, <1>OtherFramesStay
  <2>2. FramesAreSound'
    <3> SUFFICES ASSUME NEW u \in Thread, NEW i \in 1 .. Len(releasing'[u]) PROVE FrameIsSound(releasing[u][i])'
      BY Zenon DEF FramesAreSound
    <3>1. PICK f : f = releasing'[u][i]
      BY Zenon
    <3>2. FrameIsSound(f)'
      <4>1. CASE u = t /\ i = k /\ f = g
        <5>1. k # 0
          BY <4>1
        <5> QED
          BY <4>1, <5>1, Zenon
      <4>2. CASE /\ i \in 1 .. Len(releasing[u]) /\ f = releasing[u][i]
                 /\ Advances(t) => ~(u = t /\ i = Len(releasing[t]))
        BY <4>2, <2>1, Zenon
      <4> QED
        BY <4>1, <4>2, <3>1, Zenon DEF Places
    <3> QED
      BY <3>1, <3>2, Zenon DEF FrameIsSound
  <2>3. FramesAreDisjoint'
    <3> SUFFICES ASSUME NEW u \in Thread, NEW v \in Thread, NEW i \in 1 .. Len(releasing'[u]),
                        NEW j \in 1 .. Len(releasing'[v]), ~(u = v /\ i = j)
                 PROVE  Disjoint(releasing[u][i], releasing[v][j])'
      BY Zenon DEF FramesAreDisjoint
    <3>1. PICK f, h : f = releasing'[u][i] /\ h = releasing'[v][j]
      BY Zenon
    <3>2. Disjoint(f, h)'
      <4> DEFINE Old(w, n, x) == /\ ~(w = t /\ n = k) /\ n \in 1 .. Len(releasing[w]) /\ x = releasing[w][n]
                                 /\ Advances(t) => ~(w = t /\ n = Len(releasing[t]))
      <4>1. (u = t /\ i = k /\ f = g) \/ Old(u, i, f)
        BY <3>1, Zenon DEF Places
      <4>2. (v = t /\ j = k /\ h = g) \/ Old(v, j, h)
        BY <3>1, Zenon DEF Places
      <4>3. i # 0 /\ j # 0
        OBVIOUS
      <4>4. CASE Old(u, i, f) /\ Old(v, j, h)
        <5>1. <<u, i>> # <<v, j>>
          BY Zenon
        <5>2. Disjoint(f, h)
          <6>1. /\ i \in 1 .. Len(releasing[u]) /\ f = releasing[u][i]
                /\ j \in 1 .. Len(releasing[v]) /\ h = releasing[v][j]
            BY <4>4, Zenon
          <6>2. FramesAreDisjoint
            BY Zenon DEF IInv
          <6> QED
            BY <5>1, <6>1, <6>2, Zenon DEF FramesAreDisjoint
        <5>3. /\ f.next = "deallocate" => chunkOf'[f.segment] = chunkOf[f.segment]
              /\ h.next = "deallocate" => chunkOf'[h.segment] = chunkOf[h.segment]
          BY <4>4, <2>1, Zenon
        <5> QED
          BY <5>2, <5>3, Zenon DEF Disjoint
      <4>5. CASE Old(u, i, f) /\ v = t /\ j = k /\ h = g
        BY <4>3, <4>5, Zenon DEF Apart
      <4>6. CASE Old(v, j, h) /\ u = t /\ i = k /\ f = g
        <5>1. Disjoint(h, f)'
          BY <4>3, <4>6, Zenon DEF Apart
        <5> QED
          BY <5>1, Zenon DEF Disjoint
      <4> QED
        BY <4>1, <4>2, <4>4, <4>5, <4>6, Zenon
    <3> QED
      BY <3>1, <3>2, Zenon DEF Disjoint
  <2> QED
    BY <2>2, <2>3, Zenon
<1>FramesOfStarts.
      ASSUME FiniteSetFacts, IInv, NEW t \in Thread, Use(t) \/ ReleaseChild(t), NEW b \in Segment,
             releasing[t] = <<>> \/ InStep(t, "children"), ~Advances(t),
             b \in recycler, refs[b] = 1, UNCHANGED recycler, refs' = [refs EXCEPT ![b] = refs[b] - 1],
             releasing' = [releasing EXCEPT ![t] = Append(releasing[t], Frame(b))]
      PROVE  InnermostGoesFirst' /\ FramesAreSound' /\ FramesAreDisjoint'
  <2> USE <1>FramesOfStarts
  <2>0. PICK k, g : k = Len(releasing[t]) + 1 /\ g = Frame(b)
    BY Zenon
  <2>1. TypeOK /\ CountTypes
    BY Types, Zenon DEF IInv, CountIsExact
  <2>2. /\ Len(releasing[t]) \in Nat /\ Len(releasing'[t]) = k
        /\ \A u \in Thread \ {t} : releasing'[u] = releasing[u]
        /\ \A i \in 1 .. Len(releasing[t]) : releasing'[t][i] = releasing[t][i]
        /\ releasing'[t][k] = g
    BY <2>0, <2>1, FrameStarts, Zenon
  <2>3. Places(t, k, g)
    <3> SUFFICES ASSUME NEW u \in Thread, NEW i \in 1 .. Len(releasing'[u])
                 PROVE  \/ u = t /\ i = k /\ releasing'[u][i] = g
                        \/ ~(u = t /\ i = k) /\ i \in 1 .. Len(releasing[u]) /\ releasing'[u][i] = releasing[u][i]
      BY Zenon DEF Places
    <3>1. CASE u = t
      <4>1. i = k \/ (i \in 1 .. Len(releasing[t]) /\ i # k)
        BY <2>0, <2>2, <3>1
      <4> QED
        BY <4>1, <3>1, <2>2, Zenon
    <3>2. CASE u # t
      BY <3>2, <2>2, Zenon
    <3> QED
      BY <3>1, <3>2, Zenon
  <2>4. refs'[b] = 0
    BY <2>1, SMTT(30) DEF CountTypes
  <2>5. FrameIsSound(g)'
    BY <2>0, <2>4, Zenon DEF FrameIsSound, Frame
  <2>6. Apart(t, k, g)
    <3> SUFFICES ASSUME NEW u \in Thread, NEW i \in 1 .. Len(releasing[u]), NEW f, f = releasing[u][i]
                 PROVE  Disjoint(f, g)'
      BY Zenon DEF Apart
    <3>1. FrameIsSound(f)
      BY <1>FrameFacts, Zenon
    <3> QED
      BY <2>0, <3>1 DEF FrameIsSound, Disjoint, Frame
  <2>7. InnermostGoesFirst'
    <3> SUFFICES ASSUME NEW u \in Thread, NEW i \in 1 .. Len(releasing'[u]) - 1
                 PROVE  releasing'[u][i].next = "children"
      BY Zenon DEF InnermostGoesFirst
    <3>1. CASE u # t
      BY <3>1, <2>2 DEF IInv, InnermostGoesFirst
    <3>2. CASE u = t
      <4>1. i \in 1 .. Len(releasing[t]) /\ releasing'[t][i] = releasing[t][i]
        BY <3>2, <2>0, <2>2
      <4>2. CASE i \in 1 .. Len(releasing[t]) - 1
        BY <3>2, <4>1, <4>2, Zenon DEF IInv, InnermostGoesFirst
      <4>3. CASE i = Len(releasing[t])
        <5>1. releasing[t] # <<>> /\ InStep(t, "children")
          BY <4>1
        <5> QED
          BY <5>1, <4>1, <4>3, <3>2, Released
      <4> QED
        BY <2>2, <4>1, <4>2, <4>3
    <3> QED
      BY <3>1, <3>2, Zenon
  <2>8. k \in Nat
    BY <2>0, <2>2
  <2>9. Get(t) \/ FinishGet(t) \/ Use(t) \/ FinishRelease(t) \/ DropProvider(t)
    BY Zenon DEF FinishRelease
  <2>10. FramesAreSound' /\ FramesAreDisjoint'
    BY <2>3, <2>5, <2>6, <2>8, <2>9, <1>FramesWithOneNew, Zenon
  <2> QED
    BY <2>7, <2>10, Zenon
<1>FramesOfAdvances.
      ASSUME FiniteSetFacts, IInv, NEW t \in Thread, Advances(t)
      PROVE  InnermostGoesFirst' /\ FramesAreSound' /\ FramesAreDisjoint'
  <2> USE <1>FramesOfAdvances
  <2>1. TypeOK /\ CountTypes
    BY Types, Zenon DEF IInv, CountIsExact
  <2>2. PICK k : k = Len(releasing[t])
    BY Zenon
  <2>3. /\ releasing[t] # <<>> /\ Releasing(t) \in Segment /\ k \in Nat \ {0}
        /\ releasing[t][k].segment = Releasing(t)
        /\ \A x : InStep(t, x) <=> releasing[t][k].next = x
    <3>1. releasing[t] # <<>>
      BY Zenon DEF Advances, TakeRecycler, RecyclePooled, RecycleUnpooled, Deallocate, Account, InStep
    <3> QED
      BY <2>2, <3>1, Released, Zenon
  <2>4. ASSUME NEW n \in ReleaseStep, releasing' = [releasing EXCEPT ![t] = NextFrame(t, n)],
               NEW g, g = [segment |-> Releasing(t), next |-> n], FrameIsSound(g)', Apart(t, k, g)
        PROVE  InnermostGoesFirst' /\ FramesAreSound' /\ FramesAreDisjoint'
    <3>1. /\ \A u \in Thread : Len(releasing'[u]) = Len(releasing[u])
          /\ \A u \in Thread : \A i \in 1 .. Len(releasing[u]) :
               releasing'[u][i] = IF u = t /\ i = k THEN g ELSE releasing[u][i]
      <4>1. /\ \A u \in Thread : Len(releasing'[u]) = Len(releasing[u])
            /\ \A u \in Thread : \A i \in 1 .. Len(releasing[u]) :
                 releasing'[u][i] = IF u = t /\ i = Len(releasing[t]) THEN [segment |-> Releasing(t), next |-> n]
                                                                      ELSE releasing[u][i]
        BY <2>1, <2>3, <2>4, FrameMoves, Zenon
      <4>2. ASSUME NEW u \in Thread, NEW i \in 1 .. Len(releasing[u])
            PROVE  releasing'[u][i] = IF u = t /\ i = k THEN g ELSE releasing[u][i]
        <5>1. CASE u = t /\ i = k
          BY <5>1, <4>1, <2>2, <2>4, Zenon
        <5>2. CASE ~(u = t /\ i = k)
          BY <5>2, <4>1, <2>2, Zenon
        <5> QED
          BY <5>1, <5>2, Zenon
      <4> QED
        BY <4>1, <4>2, Zenon
    <3>2. Places(t, k, g)
      BY <2>2, <3>1, Zenon DEF Places
    <3>3. InnermostGoesFirst'
      <4> SUFFICES ASSUME NEW u \in Thread, NEW i \in 1 .. Len(releasing'[u]) - 1
                   PROVE  releasing'[u][i].next = "children"
        BY Zenon DEF InnermostGoesFirst
      <4>1. releasing[u] \in Seq(FrameType)
        BY <2>1, Types, Zenon
      <4>2. i \in 1 .. Len(releasing[u]) - 1 /\ i \in 1 .. Len(releasing[u]) /\ i # Len(releasing[u])
        BY <3>1, <4>1
      <4>3. releasing'[u][i] = releasing[u][i]
        BY <2>2, <3>1, <4>2, Zenon
      <4> QED
        BY <4>2, <4>3, Zenon DEF IInv, InnermostGoesFirst
    <3>4. k \in Nat /\ (Get(t) \/ FinishGet(t) \/ Use(t) \/ FinishRelease(t) \/ DropProvider(t))
      BY <2>3, Zenon DEF FinishRelease, Advances
    <3>5. FramesAreSound' /\ FramesAreDisjoint'
      BY <2>4, <3>2, <3>4, <1>FramesWithOneNew, Zenon
    <3> QED
      BY <3>3, <3>5, Zenon
  <2>5. ASSUME NEW n \in {"account", "drop"}, releasing' = [releasing EXCEPT ![t] = NextFrame(t, n)]
        PROVE  InnermostGoesFirst' /\ FramesAreSound' /\ FramesAreDisjoint'
    <3>1. PICK g : g = [segment |-> Releasing(t), next |-> n]
      BY Zenon
    <3>2. g.next = n
      BY <3>1, Zenon
    <3>3. n \in ReleaseStep /\ n \notin {"children", "recycle", "deallocate"}
      BY Zenon DEF ReleaseStep
    <3>4. FrameIsSound(g)'
      BY <3>2, <3>3, Zenon DEF FrameIsSound
    <3>5. Apart(t, k, g)
      BY <3>2, <3>3, Zenon DEF Apart, Disjoint
    <3> QED
      BY <2>4, <2>5, <3>1, <3>3, <3>4, <3>5, Zenon
  <2>6. ASSUME NEW u \in Thread, NEW i \in 1 .. Len(releasing[u]), NEW f, f = releasing[u][i], ~(u = t /\ i = k)
        PROVE  Disjoint(f, releasing[t][k]) /\ FrameIsSound(f)
    <3>1. <<u, i>> # <<t, k>> /\ k \in 1 .. Len(releasing[t])
      BY <2>2, <2>3, <2>6
    <3>2. FramesAreDisjoint
      BY Zenon DEF IInv
    <3>3. Disjoint(f, releasing[t][k])
      BY <2>6, <3>1, <3>2, Zenon DEF FramesAreDisjoint
    <3> QED
      BY <2>6, <3>3, <1>FrameFacts, Zenon
  <2>7. CASE TakeRecycler(t)
    <3>1. PICK g : g = [segment |-> Releasing(t), next |-> "recycle"]
      BY Zenon
    <3>2. g.segment = Releasing(t) /\ g.next = "recycle"
      BY <3>1, Zenon
    <3>3. InStep(t, "children") /\ Releasing(t) \in recycler
      BY <2>3, <2>7, Released, Zenon DEF TakeRecycler
    <3>4. Releasing(t) \notin recycler' \cup available'
      BY <2>7, <3>3, Zenon DEF TakeRecycler, poolVars, IInv, CountIsExact, PoolIsClean
    <3>5. Releasing(t) \in Unpooled => chunkOf'[Releasing(t)] # None
      BY <2>7, <3>3, Zenon DEF TakeRecycler, chunkVars, IInv, ChunksAreKnown
    <3>6. FrameIsSound(g)'
      BY <3>2, <3>4, <3>5, Zenon DEF FrameIsSound
    <3>7. Apart(t, k, g)
      <4> SUFFICES ASSUME NEW u \in Thread, NEW i \in 1 .. Len(releasing[u]), NEW f, f = releasing[u][i],
                          ~(u = t /\ i = k)
                   PROVE  Disjoint(f, g)'
        BY Zenon DEF Apart
      <4>1. Disjoint(f, releasing[t][k]) /\ releasing[t][k].next = "children"
        BY <2>3, <2>6, <3>3, Zenon
      <4> QED
        BY <2>3, <3>2, <4>1, Zenon DEF Disjoint
    <3>8. releasing' = [releasing EXCEPT ![t] = NextFrame(t, "recycle")] /\ "recycle" \in ReleaseStep
      BY <2>7, Zenon DEF TakeRecycler, ReleaseStep
    <3> QED
      BY <2>4, <3>1, <3>6, <3>7, <3>8, Zenon
  <2>8. CASE RecyclePooled(t)
    BY <2>5, <2>8, Zenon DEF RecyclePooled
  <2>9. CASE RecycleUnpooled(t)
    <3> DEFINE c == chunkOf[Releasing(t)]
    <3>1. /\ Releasing(t) \in Unpooled /\ c \in Chunk /\ UNCHANGED chunkOf
          /\ \/ chunks'[c] = Gone /\ releasing' = [releasing EXCEPT ![t] = NextFrame(t, "deallocate")]
             \/ releasing' = [releasing EXCEPT ![t] = NextFrame(t, "drop")]
      BY <2>9, ChunkAfterRecycle, Zenon DEF RecycleUnpooled
    <3>2. chunks[c] # Gone
      BY <2>9, RecycledIsCounted, Zenon DEF RecycleUnpooled
    <3>3. CASE chunks'[c] = Gone /\ releasing' = [releasing EXCEPT ![t] = NextFrame(t, "deallocate")]
      <4>1. PICK g : g = [segment |-> Releasing(t), next |-> "deallocate"]
        BY Zenon
      <4>2. g.segment = Releasing(t) /\ g.next = "deallocate"
        BY <4>1, Zenon
      <4>3. FrameIsSound(g)'
        BY <3>1, <3>3, <4>2, SegmentsAreKnown, Zenon DEF FrameIsSound
      <4>4. Apart(t, k, g)
        <5> SUFFICES ASSUME NEW u \in Thread, NEW i \in 1 .. Len(releasing[u]), NEW f, f = releasing[u][i],
                            ~(u = t /\ i = k)
                     PROVE  Disjoint(f, g)'
          BY Zenon DEF Apart
        <5>1. FrameIsSound(f)
          BY <2>6, Zenon
        <5> QED
          BY <3>1, <3>2, <4>2, <5>1, Zenon DEF Disjoint, FrameIsSound
      <4>5. "deallocate" \in ReleaseStep
        BY Zenon DEF ReleaseStep
      <4> QED
        BY <2>4, <3>3, <4>1, <4>3, <4>4, <4>5, Zenon
    <3> QED
      BY <2>5, <3>1, <3>3, Zenon
  <2>10. CASE Deallocate(t)
    BY <2>5, <2>10, Zenon DEF Deallocate
  <2>11. CASE Account(t)
    BY <2>5, <2>11, Zenon DEF Account
  <2> QED
    BY <2>7, <2>8, <2>9, <2>10, <2>11, Zenon DEF Advances
<1>FramesOfEnds.
      ASSUME FiniteSetFacts, IInv, NEW t \in Thread, DropRecycler(t)
      PROVE  InnermostGoesFirst' /\ FramesAreSound' /\ FramesAreDisjoint'
  <2> USE <1>FramesOfEnds
  <2>1. TypeOK /\ InnermostGoesFirst
    BY Zenon DEF IInv, CountIsExact
  <2>2. /\ Len(releasing[t]) \in Nat \ {0} /\ Len(releasing'[t]) = Len(releasing[t]) - 1
        /\ \A u \in Thread \ {t} : releasing'[u] = releasing[u]
        /\ \A i \in 1 .. Len(releasing[t]) - 1 : releasing'[t][i] = releasing[t][i]
    BY <2>1, FrameEnds, Zenon DEF DropRecycler
  <2>3. ~Advances(t)
    BY Zenon DEF DropRecycler, Advances, TakeRecycler, RecyclePooled, RecycleUnpooled, Deallocate, Account, InStep
  <2>4. ASSUME NEW u \in Thread, NEW i \in 1 .. Len(releasing'[u])
        PROVE  i # 0 /\ i \in 1 .. Len(releasing[u]) /\ releasing'[u][i] = releasing[u][i]
    <3>1. CASE u = t
      BY <2>2, <3>1
    <3>2. CASE u # t
      BY <2>2, <3>2
    <3> QED
      BY <3>1, <3>2, Zenon
  <2>5. PICK g : g = 0
    BY Zenon
  <2>6. Places(t, 0, g)
    BY <2>3, <2>4, Zenon DEF Places
  <2>7. Apart(t, 0, g)
    BY Zenon DEF Apart
  <2>8. Get(t) \/ FinishGet(t) \/ Use(t) \/ FinishRelease(t) \/ DropProvider(t)
    BY Zenon DEF FinishRelease
  <2>9. FramesAreSound' /\ FramesAreDisjoint'
    <3>1. 0 \in Nat /\ (0 # 0 => FrameIsSound(g)')
      BY Zenon
    <3> QED
      BY <2>6, <2>7, <2>8, <3>1, <1>FramesWithOneNew, Zenon
  <2>10. InnermostGoesFirst'
    <3> SUFFICES ASSUME NEW u \in Thread, NEW i \in 1 .. Len(releasing'[u]) - 1
                 PROVE  releasing'[u][i].next = "children"
      BY Zenon DEF InnermostGoesFirst
    <3>1. CASE u = t
      BY <2>1, <2>2, <3>1 DEF InnermostGoesFirst
    <3>2. CASE u # t
      BY <2>1, <2>2, <3>2, Zenon DEF InnermostGoesFirst
    <3> QED
      BY <3>1, <3>2, Zenon
  <2> QED
    BY <2>9, <2>10, Zenon
<1>StartsIsNoAdvance.
      ASSUME NEW t \in Thread, Use(t) \/ ReleaseChild(t), releasing[t] = <<>> \/ InStep(t, "children"),
             UNCHANGED recycler, IInv
      PROVE  ~Advances(t)
  <2> USE <1>StartsIsNoAdvance
  <2>1. ~RecyclePooled(t) /\ ~RecycleUnpooled(t) /\ ~Deallocate(t) /\ ~Account(t)
    BY Zenon DEF RecyclePooled, RecycleUnpooled, Deallocate, Account, InStep
  <2>2. ASSUME TakeRecycler(t) PROVE FALSE
    <3>1. Releasing(t) \in recycler
      BY <2>2, Released, Zenon DEF TakeRecycler, InStep
    <3> QED
      BY <2>2, <3>1, Zenon DEF TakeRecycler
  <2> QED
    BY <2>1, <2>2, Zenon DEF Advances
<1> SUFFICES ASSUME FiniteSetFacts, IInv, NEW t \in Thread, Get(t) \/ FinishGet(t) \/ Use(t) \/ FinishRelease(t) \/ DropProvider(t)
             PROVE  InnermostGoesFirst' /\ FramesAreSound' /\ FramesAreDisjoint'
  BY Zenon
<1>1. ASSUME NEW b \in Segment, Starts(t, b)
      PROVE  InnermostGoesFirst' /\ FramesAreSound' /\ FramesAreDisjoint'
  <2>1. ~Advances(t)
    BY <1>1, <1>StartsIsNoAdvance, Zenon DEF Starts
  <2> QED
    BY <1>1, <2>1, <1>FramesOfStarts, Zenon DEF Starts
<1> QED
  BY <1>1, Stacks, <1>FramesOfOtherSteps, <1>FramesOfAdvances, <1>FramesOfEnds, Zenon
\* Which releases recycle, deallocate or account.
LEMMA OuterStepsStay ==
  ASSUME FiniteSetFacts, IInv, NEW t \in Thread, Get(t) \/ FinishGet(t) \/ Use(t) \/ FinishRelease(t) \/ DropProvider(t),
         ~Advances(t), NEW u \in Thread, NEW x \in {"recycle", "account"}
  PROVE  /\ InStep(u, x)' <=> InStep(u, x)
         /\ InStep(u, x) => Releasing(u)' = Releasing(u)
<1>1. TypeOK /\ InnermostGoesFirst /\ x \in ReleaseStep /\ x \notin {"children", "drop"}
  BY Zenon DEF IInv, CountIsExact, ReleaseStep
<1>2. CASE UNCHANGED releasing
  BY <1>2, Zenon DEF InStep, Releasing
<1>3. ASSUME NEW b \in Segment, Starts(t, b)
      PROVE  (InStep(u, x)' <=> InStep(u, x)) /\ (InStep(u, x) => Releasing(u)' = Releasing(u))
  BY <1>1, <1>3, FrameStarts, Zenon DEF Starts
<1>4. CASE DropRecycler(t)
  BY <1>1, <1>4, FrameEnds, Zenon DEF DropRecycler
<1> QED
  BY <1>2, <1>3, <1>4, Stacks, Zenon

LEMMA RecyclingSteps ==
  ASSUME FiniteSetFacts, IInv, NEW t \in Thread, Get(t) \/ FinishGet(t) \/ Use(t) \/ FinishRelease(t) \/ DropProvider(t),
         NEW b \in Segment
  PROVE  /\ TakeRecycler(t) => (Recycling(b)' <=> Recycling(b) \/ b = Releasing(t))
         /\ RecyclePooled(t) \/ RecycleUnpooled(t) => (Recycling(b)' <=> Recycling(b) /\ b # Releasing(t))
         /\ \/ TakeRecycler(t) \/ RecyclePooled(t) \/ RecycleUnpooled(t)
            \/ Recycling(b)' <=> Recycling(b)
<1>1. TypeOK
  BY Zenon DEF IInv, CountIsExact
<1>2. ASSUME NEW y, InStep(t, y), NEW n \in ReleaseStep, releasing' = [releasing EXCEPT ![t] = NextFrame(t, n)]
      PROVE  /\ \A u \in Thread : (InStep(u, "recycle")' <=> IF u = t THEN n = "recycle" ELSE InStep(u, "recycle"))
             /\ \A u \in Thread : Releasing(u)' = Releasing(u)
  <2>1. releasing[t] # <<>> /\ "recycle" \in ReleaseStep
    BY <1>2, Zenon DEF InStep, ReleaseStep
  <2>2. /\ \A u \in Thread, x \in ReleaseStep : InStep(u, x)' <=> IF u = t THEN x = n ELSE InStep(u, x)
        /\ \A u \in Thread : Releasing(u)' = Releasing(u)
    BY <1>1, <1>2, <2>1, FrameMoves, Zenon
  <2> QED
    BY <2>1, <2>2, Zenon
<1>3. ASSUME TakeRecycler(t) PROVE Recycling(b)' <=> Recycling(b) \/ b = Releasing(t)
  <2>1. /\ \A u \in Thread : (InStep(u, "recycle")' <=> IF u = t THEN TRUE ELSE InStep(u, "recycle"))
        /\ \A u \in Thread : Releasing(u)' = Releasing(u)
    BY <1>2, <1>3, Zenon DEF TakeRecycler, ReleaseStep
  <2>2. ~InStep(t, "recycle")
    BY <1>3, Zenon DEF TakeRecycler, InStep
  <2> QED
    BY <2>1, <2>2, Zenon DEF Recycling
<1>4. ASSUME RecyclePooled(t) \/ RecycleUnpooled(t) PROVE Recycling(b)' <=> Recycling(b) /\ b # Releasing(t)
  <2>1. InStep(t, "recycle")
    BY <1>4, Zenon DEF RecyclePooled, RecycleUnpooled
  <2>2. PICK n \in ReleaseStep : n # "recycle" /\ releasing' = [releasing EXCEPT ![t] = NextFrame(t, n)]
    <3>1. ASSUME RecycleUnpooled(t)
          PROVE  \E n \in {"deallocate", "drop"} : releasing' = [releasing EXCEPT ![t] = NextFrame(t, n)]
      BY <3>1, ChunkAfterRecycle, Zenon
    <3> QED
      BY <1>4, <3>1, Zenon DEF RecyclePooled, ReleaseStep
  <2>3. /\ \A u \in Thread : (InStep(u, "recycle")' <=> IF u = t THEN FALSE ELSE InStep(u, "recycle"))
        /\ \A u \in Thread : Releasing(u)' = Releasing(u)
    BY <1>2, <2>1, <2>2, Zenon
  <2>4. ASSUME NEW u \in Thread, u # t, InStep(u, "recycle") PROVE Releasing(u) # Releasing(t)
    <3> DEFINE f == releasing[u][Len(releasing[u])]
               g == releasing[t][Len(releasing[t])]
    <3>1. /\ f.next = "recycle" /\ f.segment = Releasing(u) /\ Len(releasing[u]) \in 1 .. Len(releasing[u])
          /\ g.next = "recycle" /\ g.segment = Releasing(t) /\ Len(releasing[t]) \in 1 .. Len(releasing[t])
      <4>1. ASSUME NEW v \in Thread, InStep(v, "recycle")
            PROVE  /\ releasing[v][Len(releasing[v])].next = "recycle"
                   /\ releasing[v][Len(releasing[v])].segment = Releasing(v)
                   /\ Len(releasing[v]) \in Nat \ {0}
        <5>1. releasing[v] # <<>>
          BY <4>1, Zenon DEF InStep
        <5> QED
          BY <4>1, <5>1, Released, Zenon
      <4> QED
        BY <2>1, <2>4, <4>1
    <3>2. <<u, Len(releasing[u])>> # <<t, Len(releasing[t])>>
      BY <2>4, Zenon
    <3>3. Disjoint(f, g)
      BY <3>1, <3>2, Zenon DEF IInv, FramesAreDisjoint
    <3> HIDE DEF f, g
    <3> QED
      BY <3>1, <3>3, Zenon DEF Disjoint
  <2> QED
    BY <2>1, <2>3, <2>4, Zenon DEF Recycling
<1>5. ASSUME ~(TakeRecycler(t) \/ RecyclePooled(t) \/ RecycleUnpooled(t)) PROVE Recycling(b)' <=> Recycling(b)
  <2>1. ASSUME NEW u \in Thread
        PROVE  (InStep(u, "recycle")' <=> InStep(u, "recycle")) /\ (InStep(u, "recycle") => Releasing(u)' = Releasing(u))
    <3>1. CASE ~Advances(t)
      BY <3>1, OuterStepsStay, Zenon
    <3>2. CASE Deallocate(t)
      BY <3>2, <1>2, Zenon DEF Deallocate, ReleaseStep, InStep
    <3>3. CASE Account(t)
      BY <3>3, <1>2, Zenon DEF Account, ReleaseStep, InStep
    <3> QED
      BY <3>1, <3>2, <3>3, <1>5, Zenon DEF Advances
  <2> QED
    BY <2>1, Zenon DEF Recycling
<1> QED
  BY <1>3, <1>4, <1>5, Zenon

-----------------------------------------------------------------------------
\* The pool

\* Only its own steps move a thread.
LEMMA OthersStay ==
  ASSUME FiniteSetFacts, IInv, NEW t \in Thread, Get(t) \/ FinishGet(t) \/ Use(t) \/ FinishRelease(t) \/ DropProvider(t)
  PROVE  /\ \A u \in Thread \ {t} : at'[u] = at[u] /\ hand'[u] = hand[u] /\ releasing'[u] = releasing[u]
         /\ releasing'[t] # releasing[t] => at'[t] = "idle"
         /\ Get(t) \/ FinishGet(t) => UNCHANGED <<releasing, provider>>
         /\ ~(Get(t) \/ FinishGet(t)) => UNCHANGED <<at, hand>>
<1>1. GetTypes /\ TypeOK /\ InnermostGoesFirst
  BY Types, Zenon DEF IInv, CountIsExact
<1>2. ASSUME NEW place, NEW what, Goto(t, place, what)
      PROVE  \A u \in Thread \ {t} : at'[u] = at[u] /\ hand'[u] = hand[u]
  BY <1>1, <1>2, Zenon DEF Goto, GetTypes
<1>3. ASSUME Get(t) \/ FinishGet(t)
      PROVE  /\ \A u \in Thread \ {t} : at'[u] = at[u] /\ hand'[u] = hand[u]
             /\ UNCHANGED <<releasing, provider>>
  <2>1. \E place, what : Goto(t, place, what)
    BY <1>3, Zenon DEF Get, FinishGet, Dequeue, TakeSpace, ChargeBudget, Prepare, Refuse, AllocateChunk, Emplace
  <2>2. UNCHANGED <<releasing, provider>>
    BY <1>3, Zenon DEF Get, FinishGet, Dequeue, TakeSpace, ChargeBudget, Prepare, Refuse, AllocateChunk, Emplace,
                       poolVars
  <2> QED
    BY <1>2, <2>1, <2>2, Zenon
<1>4. ASSUME ~(Get(t) \/ FinishGet(t)) PROVE UNCHANGED <<at, hand>>
  <2>1. \/ \E b \in Segment : Release(t, b)
        \/ \E b \in Segment, u \in Thread : Copy(t, u, b)
        \/ \E b, p \in Segment : StoreChild(t, p, b)
        \/ \E b, p \in Segment : LoadChild(t, p, b)
        \/ FinishRelease(t) \/ DropProvider(t)
    BY <1>4, Zenon DEF Use
  <2> QED
    BY <2>1, Zenon DEF Release, Copy, StoreChild, LoadChild, FinishRelease, ReleaseChild, TakeRecycler, RecyclePooled,
                       RecycleUnpooled, Deallocate, Account, DropRecycler, DropProvider
<1>5. \A u \in Thread \ {t} : releasing'[u] = releasing[u]
  <2>1. releasing \in [Thread -> Seq(FrameType)]
    BY <1>1, Types, Zenon
  <2>2. ASSUME Advances(t) PROVE \E n : releasing' = [releasing EXCEPT ![t] = NextFrame(t, n)]
    BY <2>2, ChunkAfterRecycle, Zenon DEF Advances, TakeRecycler, RecyclePooled, Deallocate, Account
  <2>3. UNCHANGED releasing \/ \E s : releasing' = [releasing EXCEPT ![t] = s]
    BY <2>2, Stacks, Zenon DEF DropRecycler, Starts
  <2> QED
    BY <2>1, <2>3, Zenon
<1>6. ASSUME releasing'[t] # releasing[t] PROVE at'[t] = "idle"
  <2>1. UNCHANGED at
    BY <1>3, <1>4, <1>6, Zenon
  <2>2. \/ Advances(t) \/ DropRecycler(t) \/ \E b \in Segment : Starts(t, b)
    BY <1>6, Stacks, Zenon
  <2>3. ASSUME releasing[t] # <<>> PROVE at[t] = "idle"
    BY <2>3, Released, Zenon
  <2>4. ASSUME Advances(t) \/ DropRecycler(t) PROVE releasing[t] # <<>>
    BY <2>4, Zenon DEF Advances, DropRecycler, TakeRecycler, RecyclePooled, RecycleUnpooled, Deallocate, Account, InStep
  <2>5. ASSUME Use(t) PROVE at[t] = "idle"
    BY <2>5, Zenon DEF Use, Release, Copy, StoreChild, LoadChild, Idle
  <2>6. ASSUME ReleaseChild(t) PROVE releasing[t] # <<>>
    BY <2>6, Zenon DEF ReleaseChild, InStep
  <2> QED
    BY <2>1, <2>2, <2>3, <2>4, <2>5, <2>6, Zenon DEF Starts
<1> QED
  BY <1>3, <1>4, <1>5, <1>6, Zenon

LEMMA GettersStay ==
  ASSUME FiniteSetFacts, IInv, NEW t \in Thread, Get(t) \/ FinishGet(t) \/ Use(t) \/ FinishRelease(t) \/ DropProvider(t)
  PROVE  GettersHaveTheManager'
<1>1. GettersHaveTheManager
  BY Zenon DEF IInv
<1> SUFFICES ASSUME NEW u \in Thread, at'[u] # "idle" PROVE releasing'[u] = <<>> /\ u \in provider'
  BY Zenon DEF GettersHaveTheManager
<1>2. at[u] # "idle" \/ (u = t /\ Get(t))
  <2>1. CASE u # t
    BY <2>1, OthersStay, Zenon
  <2>2. CASE u = t /\ ~Get(t)
    <3>1. CASE ~FinishGet(t)
      BY <2>2, <3>1, OthersStay, Zenon
    <3>2. CASE FinishGet(t)
      BY <3>2, <2>2, Zenon DEF FinishGet, Prepare, Refuse, AllocateChunk, Emplace
    <3> QED
      BY <3>1, <3>2, Zenon
  <2> QED
    BY <2>1, <2>2, Zenon
<1>3. releasing'[u] = releasing[u]
  BY OthersStay, Zenon
<1>4. releasing[u] = <<>> /\ u \in provider
  BY <1>1, <1>2, Zenon DEF GettersHaveTheManager, Get, Dequeue, TakeSpace, ChargeBudget, Idle
<1>5. u \in provider'
  <2>1. CASE DropProvider(t)
    <3>1. at[t] = "idle" /\ UNCHANGED at /\ provider' = provider \ {t}
      BY <2>1, Zenon DEF DropProvider, Idle
    <3> QED
      BY <1>4, <3>1, Zenon
  <2>2. CASE ~DropProvider(t)
    <3>1. UNCHANGED provider
      BY <2>2, Cases, Zenon DEF Dequeue, Prepare, TakeSpace, ChargeBudget, Refuse, AllocateChunk, Emplace, Release, Copy,
                         StoreChild, LoadChild, ReleaseChild, TakeRecycler, RecyclePooled, RecycleUnpooled, Deallocate,
                         Account, DropRecycler, poolVars
    <3> QED
      BY <1>4, <3>1, Zenon
  <2> QED
    BY <2>1, <2>2, Zenon
<1> QED
  BY <1>3, <1>4, <1>5, Zenon

LEMMA PoolStays ==
  FiniteSetFacts /\ IInv =>
  \A t \in Thread :
  (Get(t) \/ FinishGet(t) \/ Use(t) \/ FinishRelease(t) \/ DropProvider(t)) =>
    PreparedByOne' /\ NoSegmentIsLost'
<1>PreparingSteps.
      ASSUME FiniteSetFacts, IInv, NEW t \in Thread, Get(t) \/ FinishGet(t) \/ Use(t) \/ FinishRelease(t) \/ DropProvider(t),
             ~Dequeue(t), ~Prepare(t), NEW u \in Thread
      PROVE  /\ at'[u] = "prepare" <=> at[u] = "prepare"
             /\ at[u] = "prepare" => hand'[u] = hand[u]
  <2> USE <1>PreparingSteps
  <2>1. GetTypes
    BY Types, Zenon DEF IInv, CountIsExact
  <2>2. CASE u # t \/ ~(Get(t) \/ FinishGet(t))
    BY <2>2, OthersStay, Zenon
  <2>3. CASE u = t /\ (Get(t) \/ FinishGet(t))
    <3>1. at[t] # "prepare"
      BY <2>3, Zenon DEF Get, FinishGet, TakeSpace, ChargeBudget, Refuse, AllocateChunk, Emplace, Idle
    <3>2. \E place \in {"idle", "budget", "emplace"} : at' = [at EXCEPT ![t] = place]
      BY <2>3, Zenon DEF Get, FinishGet, TakeSpace, ChargeBudget, Refuse, AllocateChunk, Emplace, Goto
    <3> QED
      BY <2>1, <2>3, <3>1, <3>2, Zenon DEF GetTypes
  <2> QED
    BY <2>2, <2>3, Zenon
<1> SUFFICES ASSUME FiniteSetFacts, IInv, NEW t \in Thread, Get(t) \/ FinishGet(t) \/ Use(t) \/ FinishRelease(t) \/ DropProvider(t)
             PROVE  PreparedByOne' /\ NoSegmentIsLost'
  BY Zenon
<1> DEFINE Goal == PreparedByOne' /\ NoSegmentIsLost'
<1> SUFFICES Goal
  BY Zenon
<1>1. CountTypes /\ PoolTypes /\ GetTypes
  BY Types, Zenon DEF IInv, CountIsExact
<1>2. PreparedByOne /\ NoSegmentIsLost
  BY Zenon DEF IInv
<1>3. \A b \in Segment :
        /\ TakeRecycler(t) => (Recycling(b)' <=> Recycling(b) \/ b = Releasing(t))
        /\ RecyclePooled(t) \/ RecycleUnpooled(t) => (Recycling(b)' <=> Recycling(b) /\ b # Releasing(t))
        /\ \/ TakeRecycler(t) \/ RecyclePooled(t) \/ RecycleUnpooled(t)
           \/ Recycling(b)' <=> Recycling(b)
  BY RecyclingSteps, Zenon
<1>4. ASSUME NEW b \in Segment, NEW u \in Thread, ~Dequeue(t), ~Prepare(t)
      PROVE  Preparing(u, b)' <=> Preparing(u, b)
  BY <1>4, <1>PreparingSteps, Zenon DEF Preparing
<1>5. ASSUME NEW u \in Thread, at[u] = "prepare"
      PROVE  /\ hand[u] \in Pooled \ (available \cup recycler) /\ hand[u] \in Segment /\ ~Recycling(hand[u])
             /\ \A v \in Thread \ {u} : ~Preparing(v, hand[u])
  BY <1>2, <1>5, Zenon DEF PreparedByOne, Segment
<1>6. ASSUME ~Dequeue(t), ~Prepare(t),
             \A b \in Segment : \A u \in Thread : Preparing(u, b) =>
                  b \notin available' \cup recycler' /\ (Recycling(b)' => Recycling(b)),
             \A b \in Pooled : b \notin available' \cup recycler' =>
                  \/ Recycling(b)'
                  \/ (Recycling(b) => Recycling(b)') /\ b \notin available \cup recycler
      PROVE  Goal
  <2>1. PreparedByOne'
    <3> SUFFICES ASSUME NEW u \in Thread, at'[u] = "prepare"
                 PROVE  /\ hand'[u] \in Pooled \ (available' \cup recycler')
                        /\ ~Recycling(hand[u])'
                        /\ \A v \in Thread \ {u} : ~Preparing(v, hand[u])'
      BY Zenon DEF PreparedByOne
    <3>1. at[u] = "prepare" /\ hand'[u] = hand[u]
      BY <1>6, <1>PreparingSteps, Zenon
    <3>2. PICK b : b = hand[u]
      BY Zenon
    <3>3. /\ b \in Pooled /\ b \in Segment /\ ~Recycling(b) /\ Preparing(u, b)
          /\ \A v \in Thread \ {u} : ~Preparing(v, b)
      BY <1>5, <3>1, <3>2, Zenon DEF Preparing
    <3>4. b \notin available' \cup recycler' /\ ~Recycling(b)'
      BY <1>6, <3>3, Zenon
    <3>5. \A v \in Thread \ {u} : ~Preparing(v, b)'
      BY <1>4, <1>6, <3>3, Zenon
    <3> QED
      BY <3>1, <3>2, <3>3, <3>4, <3>5, Zenon DEF Recycling, Preparing
  <2>2. NoSegmentIsLost'
    <3> SUFFICES ASSUME NEW b \in Pooled, b \notin available' \cup recycler'
                 PROVE  Recycling(b)' \/ \E u \in Thread : Preparing(u, b)'
      BY Zenon DEF NoSegmentIsLost
    <3>1. CASE b \notin available \cup recycler /\ (Recycling(b) => Recycling(b)')
      <4>1. Recycling(b) \/ \E u \in Thread : Preparing(u, b)
        BY <1>2, <3>1, Zenon DEF NoSegmentIsLost
      <4>2. b \in Segment
        BY Zenon DEF Segment
      <4> QED
        BY <1>4, <1>6, <3>1, <4>1, <4>2, Zenon
    <3> QED
      BY <1>6, <3>1, Zenon
  <2> QED
    BY <2>1, <2>2, Zenon
<1>7. CASE UNCHANGED <<available, recycler>> /\ ~Dequeue(t) /\ ~Prepare(t) /\ ~TakeRecycler(t) /\ ~RecyclePooled(t)
           /\ ~RecycleUnpooled(t)
  <2>1. \A b \in Segment : \A u \in Thread : Preparing(u, b) =>
          b \notin available' \cup recycler' /\ (Recycling(b)' => Recycling(b))
    BY <1>3, <1>5, <1>7, Zenon DEF Preparing
  <2>2. \A b \in Pooled : b \notin available' \cup recycler' =>
          (Recycling(b) => Recycling(b)') /\ b \notin available \cup recycler
    BY <1>3, <1>7, Zenon DEF Segment
  <2> QED
    BY <1>6, <1>7, <2>1, <2>2, Zenon
<1>8. CASE Dequeue(t)
  <2>1. PICK d \in available : available' = available \ {d} /\ Goto(t, "prepare", d)
    BY <1>8, Zenon DEF Dequeue
  <2>2. /\ UNCHANGED recycler /\ at[t] = "idle" /\ at'[t] = "prepare" /\ hand'[t] = d
        /\ \A u \in Thread \ {t} : at'[u] = at[u] /\ hand'[u] = hand[u]
    BY <1>1, <1>8, <2>1, Zenon DEF Dequeue, Goto, GetTypes, Idle, countVars
  <2>3. d \in Pooled /\ d \in Segment /\ d \notin recycler
    BY <1>1, Zenon DEF PoolTypes, Segment, IInv, CountIsExact, PoolIsClean
  <2>4. ~Recycling(d)
    BY Released, ZenonT(30) DEF Recycling, InStep
  <2>5. \A b \in Segment : Recycling(b)' <=> Recycling(b)
    BY <1>3, <1>8, Zenon DEF Dequeue, TakeRecycler, RecyclePooled, RecycleUnpooled, Idle, InStep
  <2>6. \A u \in Thread \ {t} : \A b \in Segment : Preparing(u, b)' <=> Preparing(u, b)
    BY <2>2, Zenon DEF Preparing
  <2>7. \A b \in Segment : Preparing(t, b)' <=> b = d
    BY <2>2, Zenon DEF Preparing
  <2>8. PreparedByOne'
    <3> SUFFICES ASSUME NEW u \in Thread, at'[u] = "prepare"
                 PROVE  /\ hand'[u] \in Pooled \ (available' \cup recycler')
                        /\ ~Recycling(hand[u])'
                        /\ \A v \in Thread \ {u} : ~Preparing(v, hand[u])'
      BY Zenon DEF PreparedByOne
    <3>1. PICK b : b = hand'[u]
      BY Zenon
    <3>2. b \in Pooled \ (available' \cup recycler') /\ b \in Segment /\ ~Recycling(b)'
      BY <1>5, <2>1, <2>2, <2>3, <2>4, <2>5, <3>1, Zenon
    <3>3. \A v \in Thread \ {u} : ~Preparing(v, b)'
      <4>1. CASE u = t
        BY <1>5, <2>2, <2>3, <2>6, <3>1, <4>1, Zenon DEF Preparing
      <4>2. CASE u # t
        BY <1>5, <2>2, <2>6, <2>7, <3>1, <3>2, <4>2, ZenonT(30)
      <4> QED
        BY <4>1, <4>2, Zenon
    <3> QED
      BY <3>1, <3>2, <3>3, Zenon DEF Recycling, Preparing
  <2>9. NoSegmentIsLost'
    <3> SUFFICES ASSUME NEW b \in Pooled, b \notin available' \cup recycler'
                 PROVE  Recycling(b)' \/ \E u \in Thread : Preparing(u, b)'
      BY Zenon DEF NoSegmentIsLost
    <3>1. b \in Segment
      BY Zenon DEF Segment
    <3>2. CASE b = d
      BY <2>7, <3>1, <3>2, Zenon
    <3>3. CASE b # d
      <4>1. Recycling(b) \/ \E u \in Thread : Preparing(u, b)
        BY <1>2, <2>1, <2>2, <3>3, Zenon DEF NoSegmentIsLost
      <4>2. \A u \in Thread : Preparing(u, b) => u # t
        BY <2>2, Zenon DEF Preparing
      <4> QED
        BY <2>5, <2>6, <3>1, <4>1, <4>2, Zenon
    <3> QED
      BY <3>2, <3>3, Zenon
  <2> QED
    BY <2>8, <2>9, Zenon
<1>9. CASE Prepare(t)
  <2>1. /\ at[t] = "prepare" /\ UNCHANGED available /\ recycler' = recycler \cup {hand[t]} /\ at'[t] = "idle"
        /\ \A u \in Thread \ {t} : at'[u] = at[u] /\ hand'[u] = hand[u]
    BY <1>1, <1>9, Zenon DEF Prepare, Goto, GetTypes, poolVars
  <2>2. \A b \in Segment : Recycling(b)' <=> Recycling(b)
    <3>1. releasing[t] = <<>>
      BY <2>1, Zenon DEF IInv, GettersHaveTheManager
    <3> QED
      BY <1>3, <3>1, Zenon DEF TakeRecycler, RecyclePooled, RecycleUnpooled, InStep
  <2>3. \A u \in Thread \ {t} : \A b \in Segment : Preparing(u, b)' <=> Preparing(u, b)
    BY <2>1, Zenon DEF Preparing
  <2>4. \A b \in Segment : ~Preparing(t, b)'
    BY <2>1, Zenon DEF Preparing
  <2>5. PreparedByOne'
    <3> SUFFICES ASSUME NEW u \in Thread, at'[u] = "prepare"
                 PROVE  /\ hand'[u] \in Pooled \ (available' \cup recycler')
                        /\ ~Recycling(hand[u])'
                        /\ \A v \in Thread \ {u} : ~Preparing(v, hand[u])'
      BY Zenon DEF PreparedByOne
    <3>1. PICK b : b = hand'[u]
      BY Zenon
    <3>2. u # t /\ at[u] = "prepare" /\ b = hand[u]
      BY <2>1, <3>1, Zenon
    <3>3. /\ b \in Pooled \ (available \cup recycler) /\ b \in Segment /\ ~Recycling(b)
          /\ \A v \in Thread \ {u} : ~Preparing(v, b)
      BY <1>5, <3>2, Zenon
    <3>4. b # hand[t]
      BY <2>1, <3>2, <3>3, Zenon DEF Preparing
    <3>5. \A v \in Thread \ {u} : ~Preparing(v, b)'
      BY <2>3, <2>4, <3>3, Zenon
    <3> QED
      BY <2>1, <2>2, <3>1, <3>3, <3>4, <3>5, Zenon DEF Recycling, Preparing
  <2>6. NoSegmentIsLost'
    <3> SUFFICES ASSUME NEW b \in Pooled, b \notin available' \cup recycler'
                 PROVE  Recycling(b)' \/ \E u \in Thread : Preparing(u, b)'
      BY Zenon DEF NoSegmentIsLost
    <3>1. b \in Segment /\ b # hand[t] /\ b \notin available \cup recycler
      BY <2>1, Zenon DEF Segment
    <3>2. Recycling(b) \/ \E u \in Thread : Preparing(u, b)
      BY <1>2, <3>1, Zenon DEF NoSegmentIsLost
    <3>3. \A u \in Thread : Preparing(u, b) => u # t
      BY <3>1, Zenon DEF Preparing
    <3> QED
      BY <2>2, <2>3, <3>1, <3>2, <3>3, Zenon
  <2> QED
    BY <2>5, <2>6, Zenon
<1>10. ASSUME Advances(t) PROVE ~Dequeue(t) /\ ~Prepare(t) /\ releasing[t] # <<>>
  <2>1. releasing[t] # <<>>
    BY <1>10, Zenon DEF Advances, TakeRecycler, RecyclePooled, RecycleUnpooled, Deallocate, Account, InStep
  <2> QED
    BY <2>1, Released, Zenon DEF Dequeue, Prepare, Idle
<1>11. CASE TakeRecycler(t)
  <2>1. /\ Releasing(t) \in recycler /\ recycler' = recycler \ {Releasing(t)} /\ UNCHANGED available
    BY <1>11, Released, Zenon DEF TakeRecycler, InStep, poolVars
  <2>2. ~Dequeue(t) /\ ~Prepare(t)
    BY <1>10, <1>11, Zenon DEF Advances
  <2>3. \A b \in Segment : \A u \in Thread : Preparing(u, b) =>
          b \notin available' \cup recycler' /\ (Recycling(b)' => Recycling(b))
    BY <1>3, <1>5, <1>11, <2>1, Zenon DEF Preparing
  <2>4. \A b \in Pooled : b \notin available' \cup recycler' =>
          Recycling(b)' \/ ((Recycling(b) => Recycling(b)') /\ b \notin available \cup recycler)
    BY <1>3, <1>11, <2>1, Zenon DEF Segment
  <2> QED
    BY <1>6, <2>2, <2>3, <2>4, Zenon
<1>12. CASE RecyclePooled(t) \/ RecycleUnpooled(t)
  <2>1. /\ InStep(t, "recycle") /\ UNCHANGED recycler
        /\ \/ Releasing(t) \in Pooled /\ available' = available \cup {Releasing(t)}
           \/ Releasing(t) \notin Pooled /\ UNCHANGED available
    BY <1>12, SegmentsAreKnown, Zenon DEF RecyclePooled, RecycleUnpooled, countVars, poolVars
  <2>2. ~Dequeue(t) /\ ~Prepare(t)
    BY <1>10, <1>12, Zenon DEF Advances
  <2>3. Recycling(Releasing(t))
    BY <2>1, Zenon DEF Recycling
  <2>4. \A b \in Segment : \A u \in Thread : Preparing(u, b) =>
          b \notin available' \cup recycler' /\ (Recycling(b)' => Recycling(b))
    BY <1>3, <1>5, <1>12, <2>1, <2>3, Zenon DEF Preparing
  <2>5. \A b \in Pooled : b \notin available' \cup recycler' =>
          ((Recycling(b) => Recycling(b)') /\ b \notin available \cup recycler)
    BY <1>3, <1>12, <2>1, Zenon DEF Segment
  <2> QED
    BY <1>6, <2>2, <2>4, <2>5, Zenon
<1>13. CASE Emplace(t)
  <2>1. /\ at[t] = "emplace" /\ UNCHANGED available /\ \E v \in Unpooled : recycler' = recycler \cup {v}
    BY <1>13, Zenon DEF Emplace, poolVars
  <2>2. releasing[t] = <<>>
    BY <2>1, Zenon DEF IInv, GettersHaveTheManager
  <2>3. ~Dequeue(t) /\ ~Prepare(t) /\ ~TakeRecycler(t) /\ ~RecyclePooled(t) /\ ~RecycleUnpooled(t)
    BY <2>1, <2>2, Zenon DEF Dequeue, Prepare, TakeRecycler, RecyclePooled, RecycleUnpooled, Idle, InStep
  <2>4. \A b \in Segment : \A u \in Thread : Preparing(u, b) =>
          b \notin available' \cup recycler' /\ (Recycling(b)' => Recycling(b))
    BY <1>3, <1>5, <2>1, <2>3, SegmentsAreKnown, Zenon DEF Preparing
  <2>5. \A b \in Pooled : b \notin available' \cup recycler' =>
          ((Recycling(b) => Recycling(b)') /\ b \notin available \cup recycler)
    BY <1>3, <2>1, <2>3, Zenon DEF Segment
  <2> QED
    BY <1>6, <2>3, <2>4, <2>5, Zenon
<1>14. ASSUME ~Dequeue(t), ~Prepare(t), ~TakeRecycler(t), ~RecyclePooled(t), ~RecycleUnpooled(t), ~Emplace(t)
       PROVE  UNCHANGED <<available, recycler>>
  BY <1>14, Cases, Zenon DEF TakeSpace, ChargeBudget, Refuse, AllocateChunk, Release, Copy,
                         StoreChild, LoadChild, ReleaseChild, Deallocate,
                         Account, DropRecycler, DropProvider, poolVars, countVars
<1> HIDE DEF Goal
<1> QED
  BY <1>7, <1>8, <1>9, <1>11, <1>12, <1>13, <1>14, Zenon
\* Once the manager is gone nobody has anything of it.
LEMMA DeadIsIdle ==
  ASSUME FiniteSetFacts, IInv, destroyed, NEW t \in Thread
  PROVE  Idle(t) /\ t \notin provider /\ held[t] = {} /\ recycler = {}
<1>1. ~ManagerAlive(provider, recycler, releasing)
  BY Zenon DEF IInv, DestroyedIsDead
<1>2. /\ provider = {} /\ recycler = {}
      /\ \A u \in Thread : \A i \in DOMAIN releasing[u] : releasing[u][i].next = "children"
  BY <1>1, Zenon DEF ManagerAlive
<1>3. releasing[t] = <<>>
  <2> SUFFICES ASSUME releasing[t] # <<>> PROVE FALSE
    BY Zenon
  <2>1. releasing[t] \in Seq(FrameType)
    BY Types, Zenon DEF IInv, CountIsExact
  <2>2. Len(releasing[t]) \in DOMAIN releasing[t]
    BY <2>1
  <2>3. releasing[t][Len(releasing[t])].next = "children"
    BY <1>2, <2>2, Zenon
  <2> QED
    BY <1>2, <2>3, Released, ZenonT(30)
<1>4. at[t] = "idle"
  BY <1>2, Zenon DEF IInv, GettersHaveTheManager
<1>5. held[t] = {}
  BY <1>2, Referenced, Zenon
<1> QED
  BY <1>2, <1>3, <1>4, <1>5, Zenon DEF Idle

LEMMA DeadStaysDead ==
  ASSUME FiniteSetFacts, IInv, NEW t \in Thread, Get(t) \/ FinishGet(t) \/ Use(t) \/ FinishRelease(t) \/ DropProvider(t)
  PROVE  DestroyedIsDead'
<1>1. CASE DropRecycler(t)
  <2>1. UNCHANGED <<provider, recycler>> /\ destroyed' = ~ManagerAlive(provider, recycler, releasing')
    BY <1>1, Zenon DEF DropRecycler, countVars
  <2> QED
    BY <2>1, Zenon DEF DestroyedIsDead, ManagerAlive
<1>2. CASE DropProvider(t)
  <2>1. UNCHANGED <<releasing, recycler>> /\ destroyed' = ~ManagerAlive(provider', recycler, releasing)
    BY <1>2, Zenon DEF DropProvider, countVars
  <2> QED
    BY <2>1, Zenon DEF DestroyedIsDead, ManagerAlive
<1>3. CASE ~DropRecycler(t) /\ ~DropProvider(t)
  <2>1. UNCHANGED destroyed
    BY <1>3, Cases, Zenon DEF Dequeue, Prepare, TakeSpace, ChargeBudget, Refuse, AllocateChunk, Emplace, Release, Copy,
                         StoreChild, LoadChild, ReleaseChild, TakeRecycler, RecyclePooled, RecycleUnpooled, Deallocate,
                         Account, poolVars
  <2>2. ASSUME destroyed PROVE FALSE
    <3>1. /\ at[t] = "idle" /\ releasing[t] = <<>> /\ t \notin provider /\ held[t] = {}
      BY <2>2, DeadIsIdle, Zenon DEF Idle
    <3> QED
      BY <3>1, <1>3, Cases, Zenon DEF Dequeue, Prepare, TakeSpace, ChargeBudget, Refuse, AllocateChunk, Emplace, Release,
                         Copy, StoreChild, LoadChild, ReleaseChild, TakeRecycler, RecyclePooled, RecycleUnpooled,
                         Deallocate, Account, InStep
  <2> QED
    BY <2>1, <2>2, Zenon DEF DestroyedIsDead
<1> QED
  BY <1>1, <1>2, <1>3, Zenon

-----------------------------------------------------------------------------
\* Chunks

\* What a step does to the segments of a chunk, and to the threads that take space in it.
LEMMA ChunksStay ==
  FiniteSetFacts /\ IInv =>
  \A t \in Thread :
  (Get(t) \/ FinishGet(t) \/ Use(t) \/ FinishRelease(t) \/ DropProvider(t)) =>
    ChunksAreCounted' /\ ChunksAreKnown'
<1>ResidentsStay.
      ASSUME FiniteSetFacts, IInv, NEW t \in Thread, Get(t) \/ FinishGet(t) \/ Use(t) \/ FinishRelease(t) \/ DropProvider(t),
             ~Emplace(t), ~RecycleUnpooled(t), ~Deallocate(t), NEW c \in Chunk
      PROVE  Residents(c)' = Residents(c) /\ UNCHANGED chunkOf
  <2> USE <1>ResidentsStay
  <2>1. UNCHANGED chunkOf
    BY Cases, Zenon DEF Dequeue, Prepare, TakeSpace, ChargeBudget, Refuse, AllocateChunk, Release, Copy,
                           StoreChild, LoadChild, ReleaseChild, TakeRecycler, RecyclePooled,
                           Account, DropRecycler, DropProvider, chunkVars
  <2>2. ASSUME NEW u \in Unpooled PROVE u \in recycler' \/ Recycling(u)' <=> u \in recycler \/ Recycling(u)
    <3>1. /\ u \in Segment /\ u \notin Pooled
      BY SegmentsAreKnown, Zenon DEF Segment
    <3>2. CASE Prepare(t)
      <4>1. recycler' = recycler \cup {hand[t]} /\ hand[t] \in Pooled /\ releasing[t] = <<>>
        BY <3>2, Zenon DEF Prepare, IInv, PreparedByOne, GettersHaveTheManager
      <4>2. Recycling(u)' <=> Recycling(u)
        BY <3>1, <4>1, RecyclingSteps, Zenon DEF TakeRecycler, RecyclePooled, RecycleUnpooled, InStep
      <4> QED
        BY <3>1, <4>1, <4>2, Zenon
    <3>3. CASE TakeRecycler(t)
      <4>1. recycler' = recycler \ {Releasing(t)} /\ Releasing(t) \in recycler
        BY <3>3, Released, Zenon DEF TakeRecycler, InStep
      <4>2. Recycling(u)' <=> Recycling(u) \/ u = Releasing(t)
        BY <3>1, <3>3, RecyclingSteps, Zenon
      <4> QED
        BY <4>1, <4>2, Zenon
    <3>4. CASE RecyclePooled(t)
      <4>1. UNCHANGED recycler /\ Releasing(t) \in Pooled
        BY <3>4, Zenon DEF RecyclePooled, countVars
      <4>2. Recycling(u)' <=> Recycling(u) /\ u # Releasing(t)
        BY <3>1, <3>4, RecyclingSteps, Zenon
      <4> QED
        BY <3>1, <4>1, <4>2, Zenon
    <3>5. CASE ~Prepare(t) /\ ~TakeRecycler(t) /\ ~RecyclePooled(t)
      <4>1. UNCHANGED recycler
        BY <3>5, Cases, Zenon DEF Dequeue, TakeSpace, ChargeBudget, Refuse, AllocateChunk, Release, Copy,
                           StoreChild, LoadChild, ReleaseChild, Account, DropRecycler, DropProvider, countVars
      <4>2. Recycling(u)' <=> Recycling(u)
        BY <3>1, <3>5, RecyclingSteps, Zenon
      <4> QED
        BY <4>1, <4>2, Zenon
    <3> QED
      BY <3>2, <3>3, <3>4, <3>5, Zenon
  <2> QED
    BY <2>1, <2>2, Zenon DEF Residents
<1>EnteringStay.
      ASSUME FiniteSetFacts, IInv, NEW t \in Thread, Get(t) \/ FinishGet(t) \/ Use(t) \/ FinishRelease(t) \/ DropProvider(t),
             ~TakeSpace(t), ~AllocateChunk(t), ~Emplace(t), NEW u \in Thread
      PROVE  /\ at'[u] = "emplace" <=> at[u] = "emplace"
             /\ at[u] = "emplace" => hand'[u] = hand[u]
             /\ \A c : Entering(c)' = Entering(c)
  <2> USE <1>EnteringStay
  <2>1. GetTypes
    BY Types, Zenon DEF IInv, CountIsExact
  <2>2. ASSUME NEW v \in Thread
        PROVE  /\ at'[v] = "emplace" <=> at[v] = "emplace"
               /\ at[v] = "emplace" => hand'[v] = hand[v]
    <3>1. CASE v # t \/ ~(Get(t) \/ FinishGet(t))
      BY <3>1, OthersStay, Zenon
    <3>2. CASE v = t /\ (Get(t) \/ FinishGet(t))
      <4>1. at[t] # "emplace"
        BY <3>2, Zenon DEF Get, FinishGet, Dequeue, ChargeBudget, Prepare, Refuse, Idle
      <4>2. \E place \in {"idle", "budget", "prepare"} : at' = [at EXCEPT ![t] = place]
        BY <3>2, Zenon DEF Get, FinishGet, Dequeue, ChargeBudget, Prepare, Refuse, Goto
      <4> QED
        BY <2>1, <3>2, <4>1, <4>2, Zenon DEF GetTypes
    <3> QED
      BY <3>1, <3>2, Zenon
  <2>3. \A c : Entering(c)' = Entering(c)
    BY <2>2, Zenon DEF Entering
  <2> QED
    BY <2>2, <2>3, Zenon
<1>ChunkAfterTakeSpace.
      ASSUME FiniteSetFacts, IInv, NEW t \in Thread, TakeSpace(t)
      PROVE  /\ last[t] \in Chunk /\ chunks[last[t]].owner = t /\ chunks[last[t]].active \in Nat
             /\ last[t] \in allocated
             /\ chunks'[last[t]].owner = t /\ chunks'[last[t]].active = chunks[last[t]].active + 1
             /\ \A d \in Chunk \ {last[t]} : chunks'[d] = chunks[d]
  <2> USE <1>ChunkAfterTakeSpace
  <2>1. ChunkTypes
    BY Types, Zenon DEF IInv, CountIsExact
  <2>2. PICK c : c = last[t]
    BY Zenon
  <2>3. /\ c \in Chunk /\ chunks[c].owner = t /\ chunks' = [chunks EXCEPT ![c].active = @ + 1, ![c].used = @ + 1]
    BY <2>1, <2>2, Zenon DEF TakeSpace, ChunkTypes, IInv, ChunksAreKnown
  <2>4. chunks[c] # Gone
    BY <2>3, SegmentsAreKnown DEF Gone
  <2>5. chunks[c].active \in Nat /\ c \in allocated
    BY <2>3, <2>4, Counted, Zenon DEF IInv, ChunksAreCounted
  <2>6. chunks[c] \in [owner : Thread \cup {None}, active : Nat, used : Nat]
    BY <2>1, <2>3, Zenon DEF ChunkTypes
  <2>7. /\ chunks'[c].owner = chunks[c].owner /\ chunks'[c].active = chunks[c].active + 1
        /\ \A d \in Chunk \ {c} : chunks'[d] = chunks[d]
    BY <2>1, <2>3, <2>6, Zenon DEF ChunkTypes
  <2> QED
    BY <2>2, <2>3, <2>5, <2>7, Zenon
<1>ChunksStayKnown.
      ASSUME FiniteSetFacts, IInv, NEW t \in Thread, Get(t) \/ FinishGet(t) \/ Use(t) \/ FinishRelease(t) \/ DropProvider(t)
      PROVE  ChunksAreKnown'
  <2> USE <1>ChunksStayKnown
  <2>1. ChunkTypes /\ GetTypes /\ ChunksAreKnown
    BY Types, Zenon DEF IInv, CountIsExact
  <2>2. ASSUME NEW c \in Chunk, c \notin allocated PROVE chunks[c] = Gone
    BY <2>2, Zenon DEF IInv, ChunksAreCounted
  <2>3. \A u \in Unpooled : chunkOf'[u] # None => chunkOf'[u] \in allocated'
    <3>1. CASE Emplace(t)
      <4>1. PICK v \in Unpooled : chunkOf' = [chunkOf EXCEPT ![v] = hand[t]]
        BY <3>1, Zenon DEF Emplace
      <4>2. hand[t] \in Chunk /\ t \in Entering(hand[t])
        BY <2>1, <3>1, Zenon DEF Emplace, ChunksAreKnown, Entering
      <4>3. hand[t] \in allocated /\ UNCHANGED allocated
        BY <3>1, <4>2, Counted, Zenon DEF Emplace
      <4> QED
        BY <2>1, <4>1, <4>3, Zenon DEF ChunkTypes, ChunksAreKnown
    <3>2. CASE AllocateChunk(t)
      BY <2>1, <3>2, Zenon DEF AllocateChunk, ChunksAreKnown
    <3>3. CASE Deallocate(t)
      BY <2>1, <3>3, Zenon DEF Deallocate, ChunksAreKnown, ChunkTypes
    <3>4. CASE ~Emplace(t) /\ ~AllocateChunk(t) /\ ~Deallocate(t)
      <4>1. UNCHANGED <<chunkOf, allocated>>
        BY <3>4, Cases, Zenon DEF Dequeue, Prepare, TakeSpace, ChargeBudget, Refuse, Release, Copy,
                           StoreChild, LoadChild, ReleaseChild, TakeRecycler, RecyclePooled, RecycleUnpooled,
                           Account, DropRecycler, DropProvider, chunkVars
      <4> QED
        BY <2>1, <4>1, Zenon DEF ChunksAreKnown
    <3> QED
      BY <3>1, <3>2, <3>3, <3>4, Zenon
  <2>4. \A u \in Unpooled : u \in recycler' => chunkOf'[u] # None
    <3>1. CASE Emplace(t)
      <4>1. PICK v \in Unpooled : chunkOf' = [chunkOf EXCEPT ![v] = hand[t]] /\ recycler' = recycler \cup {v}
        BY <3>1, Zenon DEF Emplace
      <4>2. hand[t] # None
        BY <2>1, <3>1, SegmentsAreKnown, Zenon DEF Emplace, ChunksAreKnown
      <4> QED
        BY <2>1, <4>1, <4>2, Zenon DEF ChunkTypes, ChunksAreKnown
    <3>2. CASE Prepare(t)
      <4>1. UNCHANGED chunkOf /\ recycler' = recycler \cup {hand[t]} /\ hand[t] \in Pooled
        BY <3>2, Zenon DEF Prepare, chunkVars, IInv, PreparedByOne
      <4> QED
        BY <2>1, <4>1, SegmentsAreKnown, Zenon DEF ChunksAreKnown
    <3>3. CASE TakeRecycler(t)
      BY <2>1, <3>3, Zenon DEF TakeRecycler, chunkVars, ChunksAreKnown
    <3>4. CASE Deallocate(t)
      <4> DEFINE c == chunkOf[Releasing(t)]
      <4>1. c \in Chunk /\ chunks[c] = Gone
        BY <3>4, Released, Zenon DEF Deallocate, InStep
      <4>2. Residents(c) = {}
        BY <4>1, Counted, Zenon
      <4>3. \A u \in Unpooled : u \in recycler => chunkOf[u] # c
        BY <4>2, Zenon DEF Residents
      <4>4. UNCHANGED recycler /\ \A u \in Unpooled : chunkOf[u] # c => chunkOf'[u] = chunkOf[u]
        BY <3>4, Zenon DEF Deallocate, countVars
      <4> QED
        BY <2>1, <4>3, <4>4, Zenon DEF ChunksAreKnown
    <3>5. CASE ~Emplace(t) /\ ~Prepare(t) /\ ~TakeRecycler(t) /\ ~Deallocate(t)
      <4>1. UNCHANGED <<chunkOf, recycler>>
        BY <3>5, Cases, Zenon DEF Dequeue, TakeSpace, ChargeBudget, Refuse, AllocateChunk, Release, Copy,
                           StoreChild, LoadChild, ReleaseChild, RecyclePooled, RecycleUnpooled,
                           Account, DropRecycler, DropProvider, chunkVars, countVars
      <4> QED
        BY <2>1, <4>1, Zenon DEF ChunksAreKnown
    <3> QED
      BY <3>1, <3>2, <3>3, <3>4, <3>5, Zenon
  <2>5. \A u \in Thread : at'[u] = "emplace" => hand'[u] \in Chunk
    <3>1. CASE TakeSpace(t) \/ AllocateChunk(t)
      <4>1. \E c \in Chunk : Goto(t, "emplace", c)
        BY <3>1, <1>ChunkAfterTakeSpace, Zenon DEF TakeSpace, AllocateChunk
      <4> QED
        BY <2>1, <4>1, Zenon DEF Goto, GetTypes, ChunksAreKnown
    <3>2. CASE Emplace(t)
      <4>1. Goto(t, "idle", None)
        BY <3>2, Zenon DEF Emplace
      <4> QED
        BY <2>1, <4>1, Zenon DEF Goto, GetTypes, ChunksAreKnown
    <3>3. CASE ~TakeSpace(t) /\ ~AllocateChunk(t) /\ ~Emplace(t)
      BY <2>1, <3>3, <1>EnteringStay, Zenon DEF ChunksAreKnown
    <3> QED
      BY <3>1, <3>2, <3>3, Zenon
  <2>6. \A u \in Thread : last'[u] # None => chunks'[last'[u]].owner = u
    <3>1. CASE TakeSpace(t)
      <4>1. UNCHANGED last
        BY <3>1, Zenon DEF TakeSpace
      <4>2. \A d \in Chunk : chunks'[d].owner = chunks[d].owner
        BY <3>1, <1>ChunkAfterTakeSpace, Zenon
      <4> QED
        BY <2>1, <4>1, <4>2, Zenon DEF ChunksAreKnown, ChunkTypes
    <3>2. CASE AllocateChunk(t)
      <4>1. PICK c \in Chunk \ allocated :
              /\ chunks' = [chunks EXCEPT ![c] = [owner |-> t, active |-> 1, used |-> 1]]
              /\ last' = [last EXCEPT ![t] = c]
        BY <3>2, Zenon DEF AllocateChunk
      <4>2. chunks[c].owner = None
        BY <2>2 DEF Gone
      <4>3. \A u \in Thread : last[u] # None => last[u] # c
        BY <2>1, <4>2, SegmentsAreKnown, Zenon DEF ChunksAreKnown
      <4>4. chunks'[c].owner = t /\ \A d \in Chunk \ {c} : chunks'[d] = chunks[d]
        BY <2>1, <4>1, Zenon DEF ChunkTypes
      <4> QED
        BY <2>1, <4>1, <4>3, <4>4 DEF ChunksAreKnown, ChunkTypes
    <3>3. CASE RecycleUnpooled(t)
      <4> DEFINE c == chunkOf[Releasing(t)]
      <4>1. /\ c \in Chunk /\ \A d \in Chunk \ {c} : chunks'[d] = chunks[d]
            /\ \/ last' = [last EXCEPT ![chunks[c].owner] = None]
               \/ chunks'[c].owner = chunks[c].owner /\ last' = last
        BY <3>3, ChunkAfterRecycle, Zenon
      <4>2. CASE chunks'[c].owner = chunks[c].owner /\ last' = last
        BY <2>1, <4>1, <4>2, Zenon DEF ChunksAreKnown, ChunkTypes
      <4>3. CASE last' = [last EXCEPT ![chunks[c].owner] = None]
        <5> HIDE DEF c
        <5> SUFFICES ASSUME NEW u \in Thread, last'[u] # None PROVE chunks'[last'[u]].owner = u
          BY Zenon
        <5>1. u # chunks[c].owner /\ last'[u] = last[u] /\ last[u] \in Chunk
          BY <2>1, <4>3, Zenon DEF ChunkTypes
        <5>2. last[u] # c
          BY <2>1, <5>1, Zenon DEF ChunksAreKnown, ChunkTypes
        <5> QED
          BY <2>1, <4>1, <5>1, <5>2, Zenon DEF ChunksAreKnown
      <4> QED
        BY <4>1, <4>2, <4>3, Zenon
    <3>4. CASE ~TakeSpace(t) /\ ~AllocateChunk(t) /\ ~RecycleUnpooled(t)
      <4>1. UNCHANGED <<last, chunks>>
        BY <3>4, Cases, Zenon DEF Dequeue, Prepare, ChargeBudget, Refuse, Emplace, Release, Copy,
                           StoreChild, LoadChild, ReleaseChild, TakeRecycler, RecyclePooled, Deallocate,
                           Account, DropRecycler, DropProvider, chunkVars
      <4> QED
        BY <2>1, <4>1, Zenon DEF ChunksAreKnown
    <3> QED
      BY <3>1, <3>2, <3>3, <3>4, Zenon
  <2> QED
    BY <2>3, <2>4, <2>5, <2>6, Zenon DEF ChunksAreKnown
<1>ChunksStayCounted.
      ASSUME FiniteSetFacts, IInv, NEW t \in Thread, Get(t) \/ FinishGet(t) \/ Use(t) \/ FinishRelease(t) \/ DropProvider(t)
      PROVE  ChunksAreCounted'
  <2> USE <1>ChunksStayCounted
  <2>1. ChunkTypes /\ GetTypes /\ ChunksAreKnown
    BY Types, Zenon DEF IInv, CountIsExact
  <2>2. \A c \in Chunk : chunks[c] # Gone => c \in allocated /\ chunks[c].owner \in Thread
    BY Zenon DEF IInv, ChunksAreCounted
  <2>3. ASSUME NEW c \in Chunk
        PROVE  /\ IsFiniteSet(Residents(c)) /\ IsFiniteSet(Entering(c))
               /\ Cardinality(Residents(c)) \in Nat /\ Cardinality(Entering(c)) \in Nat
               /\ chunks[c].active = Cardinality(Residents(c)) + Cardinality(Entering(c))
    BY Counted, Counts, Zenon
  <2> DEFINE Good(c) == /\ chunks'[c].active = Cardinality(Residents(c)') + Cardinality(Entering(c)')
                        /\ chunks'[c] # Gone => c \in allocated' /\ chunks'[c].owner \in Thread
  <2>4. ASSUME NEW c \in Chunk, chunks'[c] = chunks[c], c \in allocated => c \in allocated',
               Residents(c)' = Residents(c), Entering(c)' = Entering(c)
        PROVE  Good(c)
    BY <2>2, <2>3, <2>4, Zenon
  <2> SUFFICES ASSUME NEW c \in Chunk PROVE Good(c)
    BY Zenon DEF ChunksAreCounted
  <2> HIDE DEF Good
  <2>5. ASSUME NEW e \in Chunk, Goto(t, "emplace", e), at[t] # "emplace"
        PROVE  /\ t \notin Entering(e) /\ Entering(e)' = Entering(e) \cup {t}
               /\ c # e => Entering(c)' = Entering(c)
    BY <2>1, <2>5, Zenon DEF Goto, Entering, GetTypes
  <2>6. CASE TakeSpace(t)
    <3>1. Residents(c)' = Residents(c)
      <4>1. ~Emplace(t) /\ ~RecycleUnpooled(t) /\ ~Deallocate(t)
        BY <2>6, Zenon DEF TakeSpace, Emplace, RecycleUnpooled, Deallocate, Idle, InStep
      <4> QED
        BY <4>1, <1>ResidentsStay, Zenon
    <3>2. /\ last[t] \in Chunk /\ last[t] \in allocated /\ UNCHANGED allocated
          /\ chunks'[last[t]].owner = t /\ chunks'[last[t]].active = chunks[last[t]].active + 1
          /\ \A d \in Chunk \ {last[t]} : chunks'[d] = chunks[d]
      BY <2>6, <1>ChunkAfterTakeSpace, Zenon DEF TakeSpace
    <3>3. Goto(t, "emplace", last[t]) /\ at[t] # "emplace"
      BY <2>6, Zenon DEF TakeSpace, Idle
    <3>4. CASE c = last[t]
      <4>1. Entering(c)' = Entering(c) \cup {t} /\ t \notin Entering(c)
        BY <2>5, <3>2, <3>3, <3>4, Zenon
      <4>2. Cardinality(Entering(c)') = Cardinality(Entering(c)) + 1
        BY <2>3, <4>1, OneMore, Zenon
      <4>3. Cardinality(Residents(c)') = Cardinality(Residents(c))
        BY <3>1, Zenon
      <4> QED
        BY <2>3, <3>2, <3>4, <4>2, <4>3 DEF Good
    <3>5. CASE c # last[t]
      BY <2>4, <2>5, <3>1, <3>2, <3>3, <3>5, Zenon
    <3> QED
      BY <3>4, <3>5, Zenon
  <2>7. CASE AllocateChunk(t)
    <3>1. PICK e \in Chunk \ allocated :
            /\ allocated' = allocated \cup {e}
            /\ chunks' = [chunks EXCEPT ![e] = [owner |-> t, active |-> 1, used |-> 1]]
            /\ Goto(t, "emplace", e)
      BY <2>7, Zenon DEF AllocateChunk
    <3>2. at[t] = "budget"
      BY <2>7, Zenon DEF AllocateChunk
    <3>3. Residents(c)' = Residents(c)
      <4>1. releasing[t] = <<>>
        BY <3>2, Zenon DEF IInv, GettersHaveTheManager
      <4>2. ~Emplace(t) /\ ~RecycleUnpooled(t) /\ ~Deallocate(t)
        BY <3>2, <4>1, Zenon DEF Emplace, RecycleUnpooled, Deallocate, InStep
      <4> QED
        BY <4>2, <1>ResidentsStay, Zenon
    <3>4. chunks'[e].owner = t /\ chunks'[e].active = 1 /\ \A d \in Chunk \ {e} : chunks'[d] = chunks[d]
      BY <2>1, <3>1, Zenon DEF ChunkTypes
    <3>5. CASE c = e
      <4>1. Entering(c)' = Entering(c) \cup {t} /\ t \notin Entering(c)
        BY <2>5, <3>1, <3>2, <3>5, Zenon
      <4>2. Residents(c) = {} /\ Entering(c) = {}
        BY <2>2, <3>5, Counted, Zenon
      <4>3. Cardinality(Entering(c)') = Cardinality(Entering(c)) + 1
        BY <2>3, <4>1, OneMore, Zenon
      <4>4. Cardinality(Entering(c)) = 0 /\ Cardinality(Residents(c)) = 0
        BY <2>3, <4>2, Counts, Zenon
      <4>5. Cardinality(Residents(c)') = 0 /\ Cardinality(Entering(c)') = 1
        BY <3>3, <4>3, <4>4
      <4> QED
        BY <3>1, <3>4, <3>5, <4>5, SMTT(30) DEF Good
    <3>6. CASE c # e
      BY <2>4, <2>5, <3>1, <3>2, <3>3, <3>4, <3>6, Zenon
    <3> QED
      BY <3>5, <3>6, Zenon
  <2>8. CASE Emplace(t)
    <3>1. PICK v \in Unpooled :
            /\ chunkOf[v] = None /\ chunkOf' = [chunkOf EXCEPT ![v] = hand[t]]
            /\ recycler' = recycler \cup {v}
      BY <2>8, Zenon DEF Emplace
    <3>2. PICK e : e = hand[t]
      BY Zenon
    <3>3. /\ at[t] = "emplace" /\ e \in Chunk /\ UNCHANGED <<chunks, allocated>> /\ Goto(t, "idle", None)
      BY <2>1, <2>8, <3>2, Zenon DEF Emplace, ChunksAreKnown
    <3>4. \A u \in Unpooled : Recycling(u)' <=> Recycling(u)
      <4>1. releasing[t] = <<>>
        BY <3>3, Zenon DEF IInv, GettersHaveTheManager
      <4>2. ~TakeRecycler(t) /\ ~RecyclePooled(t) /\ ~RecycleUnpooled(t)
        BY <4>1, Zenon DEF TakeRecycler, RecyclePooled, RecycleUnpooled, InStep
      <4> QED
        BY <4>2, RecyclingSteps, Zenon DEF Segment
    <3>5. t \in Entering(e) /\ Entering(e)' = Entering(e) \ {t} /\ (c # e => Entering(c)' = Entering(c))
      BY <2>1, <3>2, <3>3, Zenon DEF Goto, Entering, GetTypes
    <3>6. \A u \in Unpooled \ {v} : chunkOf'[u] = chunkOf[u] /\ (u \in recycler' <=> u \in recycler)
      BY <2>1, <3>1, Zenon DEF ChunkTypes
    <3>7. chunkOf'[v] = e /\ v \in recycler'
      BY <2>1, <3>1, <3>2, Zenon DEF ChunkTypes
    <3>8. CASE c = e
      <4>1. v \notin Residents(c) /\ Residents(c)' = Residents(c) \cup {v}
        BY <3>1, <3>4, <3>6, <3>7, <3>8, SegmentsAreKnown, Zenon DEF Residents
      <4>2. Cardinality(Residents(c)') = Cardinality(Residents(c)) + 1
        BY <2>3, <4>1, OneMore, Zenon
      <4>3. Cardinality(Entering(c)') = Cardinality(Entering(c)) - 1
        BY <2>3, <3>5, <3>8, OneLess, Zenon
      <4> QED
        BY <2>2, <2>3, <3>3, <4>2, <4>3 DEF Good
    <3>9. CASE c # e
      <4>1. Residents(c)' = Residents(c)
        BY <3>1, <3>4, <3>6, <3>7, <3>9, SegmentsAreKnown, Zenon DEF Residents
      <4> QED
        BY <2>4, <3>3, <3>5, <3>9, <4>1, Zenon
    <3> QED
      BY <3>8, <3>9, Zenon
  <2>9. ASSUME ~TakeSpace(t), ~AllocateChunk(t), ~Emplace(t) PROVE Entering(c)' = Entering(c)
    BY <2>9, <1>EnteringStay, Zenon
  <2>10. ASSUME RecycleUnpooled(t) \/ Deallocate(t) PROVE ~TakeSpace(t) /\ ~AllocateChunk(t) /\ ~Emplace(t)
    <3>1. releasing[t] # <<>>
      BY <2>10, Zenon DEF RecycleUnpooled, Deallocate, InStep
    <3>2. at[t] = "idle"
      BY <3>1, Released, Zenon
    <3> QED
      BY <3>1, <3>2, Zenon DEF TakeSpace, AllocateChunk, Emplace, Idle
  <2>11. CASE RecycleUnpooled(t)
    <3>1. PICK r, e : r = Releasing(t) /\ e = chunkOf[Releasing(t)]
      BY Zenon
    <3>2. /\ r \in Unpooled /\ e \in Chunk /\ r \in Residents(e) /\ UNCHANGED <<recycler, chunkOf, allocated>>
          /\ e \in allocated /\ chunks[e].owner \in Thread
      BY <2>11, <3>1, RecycledIsCounted, Zenon DEF RecycleUnpooled, countVars
    <3>3. /\ \A d \in Chunk \ {e} : chunks'[d] = chunks[d]
          /\ chunks'[e].active = chunks[e].active - 1
          /\ chunks'[e] = Gone \/ chunks'[e].owner = chunks[e].owner
      BY <2>11, <3>1, ChunkAfterRecycle, Zenon
    <3>4. \A u \in Unpooled : Recycling(u)' <=> Recycling(u) /\ u # r
      BY <2>11, <3>1, RecyclingSteps, Zenon DEF Segment
    <3>5. r \notin recycler /\ chunkOf[r] = e
      BY <2>11, <3>1, Released, Zenon DEF RecycleUnpooled, InStep
    <3>6. Entering(c)' = Entering(c)
      BY <2>9, <2>10, <2>11, Zenon
    <3>7. CASE c = e
      <4>1. Residents(c)' = Residents(c) \ {r}
        BY <3>2, <3>4, <3>5, <3>7, Zenon DEF Residents
      <4>2. Cardinality(Residents(c)') = Cardinality(Residents(c)) - 1
        BY <2>3, <3>2, <3>7, <4>1, OneLess, Zenon
      <4>3. Cardinality(Entering(c)') = Cardinality(Entering(c))
        BY <3>6, Zenon
      <4> QED
        BY <2>3, <3>2, <3>3, <3>7, <4>2, <4>3 DEF Good
    <3>8. CASE c # e
      <4>1. Residents(c)' = Residents(c)
        BY <3>2, <3>4, <3>5, <3>8, Zenon DEF Residents
      <4> QED
        BY <2>4, <3>2, <3>3, <3>6, <3>8, <4>1, Zenon
    <3> QED
      BY <3>7, <3>8, Zenon
  <2>12. CASE Deallocate(t)
    <3>1. PICK e : e = chunkOf[Releasing(t)]
      BY Zenon
    <3>2. /\ e \in Chunk /\ chunks[e] = Gone /\ UNCHANGED <<recycler, chunks>> /\ allocated' = allocated \ {e}
          /\ chunkOf' = [u \in Unpooled |-> IF chunkOf[u] = e THEN None ELSE chunkOf[u]]
      BY <2>12, <3>1, Released, Zenon DEF Deallocate, countVars, InStep
    <3>3. \A u \in Unpooled : Recycling(u)' <=> Recycling(u)
      <4>1. ~TakeRecycler(t) /\ ~RecyclePooled(t) /\ ~RecycleUnpooled(t)
        BY <2>12, Zenon DEF Deallocate, TakeRecycler, RecyclePooled, RecycleUnpooled, InStep
      <4> QED
        BY <4>1, RecyclingSteps, Zenon DEF Segment
    <3>4. Residents(e) = {}
      BY <3>2, Counted, Zenon
    <3>5. Residents(c)' = Residents(c)
      BY <3>2, <3>3, <3>4, SegmentsAreKnown, Zenon DEF Residents
    <3>6. Entering(c)' = Entering(c)
      BY <2>9, <2>10, <2>12, Zenon
    <3>7. chunks'[c] # Gone => c \in allocated' /\ chunks'[c].owner \in Thread
      BY <2>2, <3>2, Zenon
    <3> QED
      BY <2>3, <3>2, <3>5, <3>6, <3>7, Zenon DEF Good
  <2>13. CASE ~TakeSpace(t) /\ ~AllocateChunk(t) /\ ~Emplace(t) /\ ~RecycleUnpooled(t) /\ ~Deallocate(t)
    <3>1. UNCHANGED <<chunks, allocated>>
      BY <2>13, Cases, Zenon DEF Dequeue, Prepare, ChargeBudget, Refuse, Release, Copy,
                           StoreChild, LoadChild, ReleaseChild, TakeRecycler, RecyclePooled,
                           Account, DropRecycler, DropProvider, chunkVars
    <3>2. Residents(c)' = Residents(c) /\ Entering(c)' = Entering(c)
      BY <2>9, <2>13, <1>ResidentsStay, Zenon
    <3> QED
      BY <2>4, <3>1, <3>2, Zenon
  <2> QED
    BY <2>6, <2>7, <2>8, <2>11, <2>12, <2>13, Zenon
<1> SUFFICES ASSUME FiniteSetFacts, IInv, NEW t \in Thread, Get(t) \/ FinishGet(t) \/ Use(t) \/ FinishRelease(t) \/ DropProvider(t)
             PROVE  ChunksAreCounted' /\ ChunksAreKnown'
  BY Zenon
<1> QED
  BY <1>ChunksStayCounted, <1>ChunksStayKnown, Zenon
\* Who is charged, granted and accounting, in the steps that do not change the counter of the budget.
LEMMA BudgetStays ==
  FiniteSetFacts /\ IInv =>
  \A t \in Thread :
  (Get(t) \/ FinishGet(t) \/ Use(t) \/ FinishRelease(t) \/ DropProvider(t)) =>
    GrantsFit' /\ BudgetIsKept'
<1>ChargesStay.
      ASSUME FiniteSetFacts, IInv, NEW t \in Thread, Get(t) \/ FinishGet(t) \/ Use(t) \/ FinishRelease(t) \/ DropProvider(t)
      PROVE  /\ ~ChargeBudget(t) /\ ~Refuse(t) /\ ~AllocateChunk(t) => Charged' = Charged /\ Granted' = Granted
             /\ Deallocate(t) => Accounting' = Accounting \cup {t} /\ t \notin Accounting
             /\ Account(t) => Accounting' = Accounting \ {t} /\ t \in Accounting
             /\ ~Deallocate(t) /\ ~Account(t) => Accounting' = Accounting
  <2> USE <1>ChargesStay
  <2>1. GetTypes /\ TypeOK
    BY Types, Zenon DEF IInv, CountIsExact
  <2>2. ASSUME ~ChargeBudget(t), ~Refuse(t), ~AllocateChunk(t)
        PROVE  Charged' = Charged /\ Granted' = Granted
    <3>1. ASSUME NEW u \in Thread PROVE /\ at'[u] = "budget" <=> at[u] = "budget"
                                        /\ at[u] = "budget" => hand'[u] = hand[u]
      <4>1. CASE u # t \/ ~(Get(t) \/ FinishGet(t))
        BY <4>1, OthersStay, Zenon
      <4>2. CASE u = t /\ (Get(t) \/ FinishGet(t))
        <5>1. at[t] # "budget"
          BY <2>2, <4>2, Zenon DEF Get, FinishGet, Dequeue, Prepare, TakeSpace, Emplace, Idle
        <5>2. \E place \in {"idle", "prepare", "emplace"} : \E what : Goto(t, place, what)
          BY <2>2, <4>2, Zenon DEF Get, FinishGet, Dequeue, Prepare, TakeSpace, Emplace
        <5>3. at'[t] # "budget"
          BY <2>1, <5>2, Zenon DEF Goto, GetTypes
        <5> QED
          BY <4>2, <5>1, <5>3, Zenon
      <4> QED
        BY <4>1, <4>2, Zenon
    <3> QED
      BY <3>1, Zenon DEF Charged, Granted
  <2>3. ASSUME NEW x \in ReleaseStep, InStep(t, x), NEW n \in ReleaseStep,
               releasing' = [releasing EXCEPT ![t] = NextFrame(t, n)]
        PROVE  \A u \in Thread : InStep(u, "account")' <=> IF u = t THEN n = "account" ELSE InStep(u, "account")
    <3>1. releasing[t] # <<>> /\ "account" \in ReleaseStep
      BY <2>3, Zenon DEF InStep, ReleaseStep
    <3>2. \A u \in Thread, y \in ReleaseStep : InStep(u, y)' <=> IF u = t THEN y = n ELSE InStep(u, y)
      BY <2>1, <2>3, <3>1, FrameMoves, Zenon
    <3> QED
      BY <3>1, <3>2, Zenon
  <2>4. ASSUME Deallocate(t) PROVE Accounting' = Accounting \cup {t} /\ t \notin Accounting
    <3>1. /\ InStep(t, "deallocate") /\ ~InStep(t, "account")
          /\ releasing' = [releasing EXCEPT ![t] = NextFrame(t, "account")]
      BY <2>4, Zenon DEF Deallocate, InStep
    <3>2. \A u \in Thread : InStep(u, "account")' <=> u = t \/ InStep(u, "account")
      BY <2>3, <3>1, Zenon DEF ReleaseStep
    <3> QED
      BY <3>1, <3>2, Zenon DEF Accounting
  <2>5. ASSUME Account(t) PROVE Accounting' = Accounting \ {t} /\ t \in Accounting
    <3>1. InStep(t, "account") /\ releasing' = [releasing EXCEPT ![t] = NextFrame(t, "drop")]
      BY <2>5, Zenon DEF Account
    <3>2. \A u \in Thread : InStep(u, "account")' <=> u # t /\ InStep(u, "account")
      BY <2>3, <3>1, Zenon DEF ReleaseStep
    <3> QED
      BY <3>1, <3>2, Zenon DEF Accounting
  <2>6. ASSUME ~Deallocate(t), ~Account(t) PROVE Accounting' = Accounting
    <3>1. CASE ~Advances(t)
      BY <3>1, OuterStepsStay, Zenon DEF Accounting
    <3>2. ASSUME NEW n \in {"recycle", "deallocate", "drop"}, NEW x \in {"children", "recycle"},
                 InStep(t, x), releasing' = [releasing EXCEPT ![t] = NextFrame(t, n)]
          PROVE  Accounting' = Accounting
      <4>1. n \in ReleaseStep /\ n # "account" /\ x \in ReleaseStep /\ ~InStep(t, "account")
        BY <3>2, Zenon DEF ReleaseStep, InStep
      <4>2. \A u \in Thread : InStep(u, "account")' <=> InStep(u, "account")
        BY <2>3, <3>2, <4>1, Zenon
      <4> QED
        BY <4>2, Zenon DEF Accounting
    <3>3. CASE TakeRecycler(t)
      BY <3>2, <3>3, Zenon DEF TakeRecycler
    <3>4. CASE RecyclePooled(t)
      BY <3>2, <3>4, Zenon DEF RecyclePooled
    <3>5. CASE RecycleUnpooled(t)
      <4>1. \E n \in {"deallocate", "drop"} : releasing' = [releasing EXCEPT ![t] = NextFrame(t, n)]
        BY <3>5, ChunkAfterRecycle, Zenon
      <4>2. InStep(t, "recycle")
        BY <3>5, Zenon DEF RecycleUnpooled
      <4> QED
        BY <3>2, <4>1, <4>2, Zenon
    <3> QED
      BY <2>6, <3>1, <3>3, <3>4, <3>5, Zenon DEF Advances
  <2> QED
    BY <2>2, <2>4, <2>5, <2>6, Zenon
<1> SUFFICES ASSUME FiniteSetFacts, IInv, NEW t \in Thread, Get(t) \/ FinishGet(t) \/ Use(t) \/ FinishRelease(t) \/ DropProvider(t)
             PROVE  GrantsFit' /\ BudgetIsKept'
  BY Zenon
<1>1. GetTypes /\ Budget \in Nat
  BY Types, ChunksHaveRoom, Zenon DEF IInv, CountIsExact
<1>2. /\ IsFiniteSet(Charged) /\ IsFiniteSet(Accounting) /\ IsFiniteSet(allocated) /\ IsFiniteSet(Granted)
      /\ Cardinality(Charged) \in Nat /\ Cardinality(Accounting) \in Nat
      /\ Cardinality(allocated) \in Nat /\ Cardinality(Granted) \in Nat
      /\ bytes = Cardinality(allocated) + Cardinality(Charged) + Cardinality(Accounting)
      /\ Cardinality(allocated) + Cardinality(Granted) <= Budget
  BY ChargedIsPaid, Zenon DEF IInv, GrantsFit
<1> DEFINE Goal == GrantsFit' /\ BudgetIsKept'
<1>3. ASSUME NEW a \in Nat, NEW g \in Nat, NEW h \in Nat, NEW k \in Nat, IsFiniteSet(allocated'),
             Cardinality(allocated') = a, Cardinality(Granted') = g, Cardinality(Charged') = h,
             Cardinality(Accounting') = k, a + g <= Budget, bytes' = a + h + k
      PROVE  Goal
  <2>1. GrantsFit'
    BY <1>3, Zenon DEF GrantsFit
  <2>2. a <= Budget
    BY <1>1, <1>3
  <2>3. BudgetIsKept'
    BY <1>3, <2>2, Zenon DEF BudgetIsKept
  <2> QED
    BY <2>1, <2>3, Zenon
<1> SUFFICES Goal
  BY Zenon
<1> HIDE DEF Goal
<1> DEFINE a == Cardinality(allocated)
           g == Cardinality(Granted)
           h == Cardinality(Charged)
           k == Cardinality(Accounting)
<1>4. CASE ChargeBudget(t)
  <2>1. /\ at[t] # "budget" /\ bytes' = bytes + 1 /\ allocated' = allocated
        /\ Goto(t, "budget", bytes < Budget)
    BY <1>4, Zenon DEF ChargeBudget, Idle
  <2>2. Charged' = Charged \cup {t} /\ t \notin Charged
    BY <1>1, <2>1, Zenon DEF Charged, Goto, GetTypes
  <2>3. Granted' = IF bytes < Budget THEN Granted \cup {t} ELSE Granted
    BY <1>1, <2>1, Zenon DEF Granted, Goto, GetTypes
  <2>4. Cardinality(Charged') = h + 1
    BY <1>2, <2>2, OneMore, Zenon
  <2>5. Accounting' = Accounting
    <3>1. ~Deallocate(t) /\ ~Account(t)
      BY <1>4, Zenon DEF ChargeBudget, Deallocate, Account, Idle, InStep
    <3> QED
      BY <3>1, <1>ChargesStay, Zenon
  <2>6. g <= h
    <3>1. Granted \subseteq Charged
      BY Zenon DEF Granted, Charged
    <3> QED
      BY <1>2, <3>1, NoMore, Zenon
  <2>7. t \notin Granted
    BY <2>1, Zenon DEF Granted
  <2>8. CASE bytes < Budget
    <3>1. Cardinality(Granted') = g + 1
      BY <1>2, <2>3, <2>7, <2>8, OneMore, Zenon
    <3>2. a + (g + 1) <= Budget /\ bytes' = a + (h + 1) + k
      BY <1>1, <1>2, <2>1, <2>6, <2>8, SMTT(30)
    <3>3. g + 1 \in Nat /\ h + 1 \in Nat
      BY <1>2
    <3> QED
      BY <1>2, <1>3, <2>1, <2>4, <2>5, <3>1, <3>2, <3>3, Zenon
  <2>9. CASE ~(bytes < Budget)
    <3>1. Granted' = Granted
      BY <2>3, <2>9, Zenon
    <3>2. bytes' = a + (h + 1) + k /\ h + 1 \in Nat
      BY <1>2, <2>1
    <3> QED
      BY <1>2, <1>3, <2>1, <2>4, <2>5, <3>1, <3>2, Zenon
  <2> QED
    BY <2>8, <2>9, Zenon
<1>5. ASSUME at[t] = "budget", NEW p \in {"idle", "emplace"}, NEW w, Goto(t, p, w)
      PROVE  /\ Charged' = Charged \ {t} /\ Granted' = Granted \ {t} /\ Accounting' = Accounting
             /\ Cardinality(Charged') = h - 1 /\ h - 1 \in Nat
  <2>1. /\ Charged' = Charged \ {t} /\ Granted' = Granted \ {t} /\ t \in Charged
    BY <1>1, <1>5, Zenon DEF Charged, Granted, Goto, GetTypes
  <2>2. releasing[t] = <<>>
    BY <1>5, Zenon DEF IInv, GettersHaveTheManager
  <2>3. ~Deallocate(t) /\ ~Account(t)
    BY <2>2, Zenon DEF Deallocate, Account, InStep
  <2>4. Accounting' = Accounting
    BY <2>3, <1>ChargesStay, Zenon
  <2>5. Cardinality(Charged') = h - 1 /\ h \in Nat \ {0}
    BY <1>2, <2>1, OneLess, Zenon
  <2> QED
    BY <2>1, <2>4, <2>5
<1>6. CASE Refuse(t)
  <2>1. at[t] = "budget" /\ Goto(t, "idle", None) /\ bytes' = bytes - 1 /\ allocated' = allocated
    BY <1>6, Zenon DEF Refuse
  <2>2. /\ Granted' = Granted \ {t} /\ Accounting' = Accounting
        /\ Cardinality(Charged') = h - 1 /\ h - 1 \in Nat
    BY <1>5, <2>1, Zenon
  <2>3. Cardinality(Granted') <= g /\ Cardinality(Granted') \in Nat
    BY <1>2, <2>2, NoMore, Zenon
  <2>4. a + Cardinality(Granted') <= Budget /\ bytes' = a + (h - 1) + k
    BY <1>1, <1>2, <2>1, <2>3
  <2> QED
    BY <1>2, <1>3, <2>1, <2>2, <2>3, <2>4, Zenon
<1>7. CASE AllocateChunk(t)
  <2>1. PICK c \in Chunk \ allocated : allocated' = allocated \cup {c} /\ Goto(t, "emplace", c)
    BY <1>7, Zenon DEF AllocateChunk
  <2>2. at[t] = "budget" /\ hand[t] = TRUE /\ bytes' = bytes
    BY <1>7, Zenon DEF AllocateChunk
  <2>3. /\ Granted' = Granted \ {t} /\ Accounting' = Accounting
        /\ Cardinality(Charged') = h - 1 /\ h - 1 \in Nat
    BY <1>5, <2>1, <2>2, Zenon
  <2>4. Cardinality(Granted') = g - 1 /\ g \in Nat \ {0}
    BY <1>2, <2>2, <2>3, OneLess, Zenon DEF Granted
  <2>5. Cardinality(allocated') = a + 1 /\ IsFiniteSet(allocated')
    BY <1>2, <2>1, OneMore, Zenon
  <2>6. (a + 1) + (g - 1) <= Budget /\ bytes' = (a + 1) + (h - 1) + k /\ g - 1 \in Nat /\ a + 1 \in Nat
    BY <1>1, <1>2, <2>2, <2>3, <2>4
  <2> QED
    BY <1>2, <1>3, <2>3, <2>4, <2>5, <2>6, Zenon
<1>8. ASSUME ~ChargeBudget(t), ~Refuse(t), ~AllocateChunk(t)
      PROVE  Charged' = Charged /\ Granted' = Granted
  BY <1>8, <1>ChargesStay, Zenon
<1>9. ASSUME Deallocate(t) \/ Account(t) PROVE Charged' = Charged /\ Granted' = Granted
  <2>1. releasing[t] # <<>>
    BY <1>9, Zenon DEF Deallocate, Account, InStep
  <2>2. at[t] = "idle"
    BY <2>1, Released, Zenon
  <2>3. ~ChargeBudget(t) /\ ~Refuse(t) /\ ~AllocateChunk(t)
    BY <2>1, <2>2, Zenon DEF ChargeBudget, Refuse, AllocateChunk, Idle
  <2> QED
    BY <1>8, <2>3, Zenon
<1>10. CASE Deallocate(t)
  <2>1. /\ Accounting' = Accounting \cup {t} /\ t \notin Accounting
    BY <1>10, <1>ChargesStay, Zenon
  <2>2. PICK c : c = chunkOf[Releasing(t)]
    BY Zenon
  <2>3. allocated' = allocated \ {c} /\ bytes' = bytes
    BY <1>10, <2>2, Zenon DEF Deallocate
  <2>4. Releasing(t) \in Unpooled /\ c \in Chunk
    BY <1>10, <2>2, Released, Zenon DEF Deallocate, InStep
  <2>5. c \in allocated
    BY <2>2, <2>4, SegmentsAreKnown, Zenon DEF IInv, ChunksAreKnown
  <2>6. IsFiniteSet(allocated') /\ Cardinality(allocated') = a - 1 /\ a \in Nat \ {0}
    BY <1>2, <2>3, <2>5, OneLess, Zenon
  <2>7. Cardinality(Accounting') = k + 1
    BY <1>2, <2>1, OneMore, Zenon
  <2>8. (a - 1) + g <= Budget /\ bytes' = (a - 1) + h + (k + 1) /\ a - 1 \in Nat /\ k + 1 \in Nat
    BY <1>1, <1>2, <2>3, <2>6
  <2> QED
    BY <1>2, <1>3, <1>9, <1>10, <2>6, <2>7, <2>8, Zenon
<1>11. CASE Account(t)
  <2>1. /\ Accounting' = Accounting \ {t} /\ t \in Accounting
    BY <1>11, <1>ChargesStay, Zenon
  <2>2. allocated' = allocated /\ bytes' = bytes - 1
    BY <1>11, Zenon DEF Account
  <2>3. Cardinality(Accounting') = k - 1 /\ k \in Nat \ {0}
    BY <1>2, <2>1, OneLess, Zenon
  <2>4. bytes' = a + h + (k - 1) /\ k - 1 \in Nat
    BY <1>2, <2>2, <2>3
  <2> QED
    BY <1>2, <1>3, <1>9, <1>11, <2>2, <2>3, <2>4, Zenon
<1>12. CASE ~ChargeBudget(t) /\ ~Refuse(t) /\ ~AllocateChunk(t) /\ ~Deallocate(t) /\ ~Account(t)
  <2>1. UNCHANGED <<bytes, allocated>>
    BY <1>12, Cases, Zenon DEF Dequeue, Prepare, TakeSpace, Emplace, Release, Copy,
                         StoreChild, LoadChild, ReleaseChild, TakeRecycler, RecyclePooled, RecycleUnpooled,
                         DropRecycler, DropProvider, chunkVars
  <2>2. Charged' = Charged /\ Granted' = Granted /\ Accounting' = Accounting
    BY <1>8, <1>12, <1>ChargesStay, Zenon
  <2> QED
    BY <1>2, <1>3, <2>1, <2>2, Zenon
<1> QED
  BY <1>4, <1>6, <1>7, <1>10, <1>11, <1>12, Zenon
-----------------------------------------------------------------------------
(* The invariant *)

LEMMA InitIInv ==
  ASSUME FiniteSetFacts
  PROVE  Init => IInv
<1> SUFFICES ASSUME Init PROVE IInv
  BY Zenon
<1>1. IsFiniteSet({}) /\ Cardinality({}) = 0
  BY Zenon DEF FiniteSetFacts
<1>2. CountTypes /\ PoolTypes /\ GetTypes
  BY Zenon DEF Init, CountTypes, PoolTypes, GetTypes, Segment
<1>3. ChunkTypes
  BY Zenon DEF Init, ChunkTypes, Gone
<1>4. releasing = [t \in Thread |-> <<>>] /\ releasing \in [Thread -> Seq(FrameType)]
  BY DEF Init
<1>5. TypeOK
  BY <1>2, <1>3, <1>4, Types, Zenon
<1>6. ASSUME NEW t \in Thread PROVE releasing[t] = <<>> /\ Len(releasing[t]) = 0 /\ \A x : ~InStep(t, x)
  BY <1>4, Zenon DEF InStep
<1>7. \A b : ~Recycling(b)
  BY <1>6, Zenon DEF Recycling
<1>8. ReferencesAreCounted
  <2> SUFFICES ASSUME NEW b \in Segment PROVE refs[b] = Cardinality(Holders(b)) + Cardinality(Parents(b))
    BY Zenon DEF ReferencesAreCounted
  <2>1. Holders(b) = {} /\ Parents(b) = {} /\ refs[b] = 0
    BY Zenon DEF Init, Holders, Parents
  <2> QED
    BY <1>1, <2>1
<1>9. PoolIsClean /\ UsedSegmentsAreOwned
  BY DEF Init, PoolIsClean, UsedSegmentsAreOwned, Segment
<1>10. InnermostGoesFirst /\ FramesAreSound /\ FramesAreDisjoint
  BY <1>6 DEF InnermostGoesFirst, FramesAreSound, FramesAreDisjoint
<1>11. GettersHaveTheManager /\ PreparedByOne /\ NoSegmentIsLost /\ DestroyedIsDead
  BY Zenon DEF Init, GettersHaveTheManager, PreparedByOne, NoSegmentIsLost, DestroyedIsDead
<1>12. ChunksAreCounted
  <2> SUFFICES ASSUME NEW c \in Chunk
               PROVE  /\ chunks[c].active = Cardinality(Residents(c)) + Cardinality(Entering(c))
                      /\ chunks[c] = Gone
    BY Zenon DEF ChunksAreCounted
  <2>1. Residents(c) = {} /\ Entering(c) = {}
    BY <1>7, Zenon DEF Init, Residents, Entering
  <2>2. chunks[c] = Gone /\ chunks[c].active = 0
    BY Zenon DEF Init, Gone
  <2> QED
    BY <1>1, <2>1, <2>2, SMTT(30)
<1>13. ChunksAreKnown
  BY Zenon DEF Init, ChunksAreKnown
<1>14. GrantsFit /\ BudgetIsKept
  <2>1. allocated = {} /\ Charged = {} /\ Granted = {} /\ bytes = 0
    BY Zenon DEF Init, Charged, Granted
  <2>2. Accounting = {}
    BY <1>6, Zenon DEF Accounting
  <2> QED
    BY <1>1, <2>1, <2>2, ChunksHaveRoom DEF GrantsFit, BudgetIsKept
<1> QED
  BY <1>5, <1>8, <1>9, <1>10, <1>11, <1>12, <1>13, <1>14, Zenon DEF IInv, CountIsExact

LEMMA PoolStaysClean ==
  ASSUME TypeOK', UsedSegmentsAreOwned', available' \cap recycler' = {}
  PROVE  PoolIsClean'
<1> SUFFICES ASSUME NEW b \in available' PROVE (refs[b] = 0 /\ b \notin recycler /\ children[b] = {})'
  BY Zenon DEF PoolIsClean
<1>1. b \in Segment /\ refs'[b] \in Nat /\ b \notin recycler'
  BY Zenon DEF TypeOK, Segment
<1> QED
  BY <1>1 DEF UsedSegmentsAreOwned

LEMMA StepIInv ==
  ASSUME FiniteSetFacts
  PROVE  IInv /\ Next => IInv'
<1> SUFFICES ASSUME IInv, Next PROVE IInv'
  BY Zenon
<1>1. PICK t \in Thread : Get(t) \/ FinishGet(t) \/ Use(t) \/ FinishRelease(t) \/ DropProvider(t)
  BY Zenon DEF Next
<1>2. TypeOK'
  BY <1>1, TypesStay, Zenon
<1>3. ReferencesAreCounted'
  BY ReferencesStay, Zenon
<1>4. UsedSegmentsAreOwned' /\ available' \cap recycler' = {}
  BY <1>1, OwnersStay, Zenon
<1>5. PoolIsClean'
  BY <1>2, <1>4, PoolStaysClean, Zenon
<1>6. InnermostGoesFirst' /\ FramesAreSound' /\ FramesAreDisjoint'
  BY <1>1, FramesStay, Zenon
<1>7. GettersHaveTheManager' /\ PreparedByOne' /\ NoSegmentIsLost' /\ DestroyedIsDead'
  BY <1>1, GettersStay, PoolStays, DeadStaysDead, Zenon
<1>8. ChunksAreCounted' /\ ChunksAreKnown'
  BY <1>1, ChunksStay, Zenon
<1>9. GrantsFit' /\ BudgetIsKept'
  BY <1>1, BudgetStays, Zenon
<1> QED
  BY <1>2, <1>3, <1>4, <1>5, <1>6, <1>7, <1>8, <1>9, Zenon DEF IInv, CountIsExact

LEMMA StutterIInv ==
  ASSUME FiniteSetFacts
  PROVE  IInv /\ UNCHANGED vars => IInv'
<1> SUFFICES ASSUME IInv, UNCHANGED vars PROVE IInv'
  BY Zenon
<1>1. /\ UNCHANGED <<refs, held, children, recycler, available, provider, destroyed, at, hand, releasing>>
      /\ UNCHANGED <<chunkOf, chunks, last, allocated, bytes>>
  BY Zenon DEF vars, countVars, poolVars, chunkVars
<1>2. TypeOK'
  BY <1>1, Zenon DEF IInv, CountIsExact, TypeOK
<1>3. ReferencesAreCounted' /\ PoolIsClean' /\ UsedSegmentsAreOwned'
  <2>1. ReferencesAreCounted'
    BY ReferencesStay, Zenon
  <2> QED
    BY <1>1, <2>1, Zenon DEF IInv, CountIsExact, PoolIsClean, UsedSegmentsAreOwned
<1>4. InnermostGoesFirst' /\ GettersHaveTheManager'
  BY <1>1, Zenon DEF IInv, InnermostGoesFirst, GettersHaveTheManager
<1>5. FramesAreSound' /\ FramesAreDisjoint'
  <2>1. \A f : FrameIsSound(f)' <=> FrameIsSound(f)
    BY <1>1, Zenon DEF FrameIsSound
  <2>2. \A f, g : Disjoint(f, g)' <=> Disjoint(f, g)
    BY <1>1, Zenon DEF Disjoint
  <2> QED
    BY <1>1, <2>1, <2>2, Zenon DEF IInv, FramesAreSound, FramesAreDisjoint
<1>6. \A b : Recycling(b)' <=> Recycling(b)
  BY <1>1, Zenon DEF Recycling, InStep, Releasing
<1>7. PreparedByOne' /\ NoSegmentIsLost'
  BY <1>1, <1>6, Zenon DEF IInv, PreparedByOne, NoSegmentIsLost, Preparing
<1>8. DestroyedIsDead'
  BY <1>1, Zenon DEF IInv, DestroyedIsDead, ManagerAlive
<1>9. ChunksAreCounted' /\ ChunksAreKnown'
  <2>1. \A c : Residents(c)' = Residents(c) /\ Entering(c)' = Entering(c)
    BY <1>1, <1>6, Zenon DEF Residents, Entering
  <2> QED
    BY <1>1, <2>1, Zenon DEF IInv, ChunksAreCounted, ChunksAreKnown
<1>10. GrantsFit' /\ BudgetIsKept'
  <2>1. Granted' = Granted /\ Charged' = Charged /\ Accounting' = Accounting
    BY <1>1, Zenon DEF Granted, Charged, Accounting, InStep
  <2> QED
    BY <1>1, <2>1, Zenon DEF IInv, GrantsFit, BudgetIsKept
<1> QED
  BY <1>2, <1>3, <1>4, <1>5, <1>7, <1>8, <1>9, <1>10, Zenon DEF IInv, CountIsExact

-----------------------------------------------------------------------------
(* The theorems *)

INSTANCE FiniteSetTheorems

LEMMA FiniteSetsAreSo == FiniteSetFacts
<1>1. IsFiniteSet({}) /\ Cardinality({}) = 0
  BY FS_EmptySet, Zenon
<1>2. ASSUME NEW S, IsFiniteSet(S) PROVE Cardinality(S) \in Nat /\ (Cardinality(S) = 0 <=> S = {})
  BY <1>2, FS_EmptySet, FS_CardinalityType, Zenon
<1>3. ASSUME NEW S, NEW x, IsFiniteSet(S)
      PROVE  /\ IsFiniteSet(S \cup {x}) /\ IsFiniteSet(S \ {x})
             /\ x \notin S => Cardinality(S \cup {x}) = Cardinality(S) + 1
             /\ x \in S => Cardinality(S \ {x}) = Cardinality(S) - 1
  BY <1>3, FS_AddElement, FS_RemoveElement, Zenon
<1>4. ASSUME NEW S, NEW T, IsFiniteSet(S), IsFiniteSet(T) PROVE IsFiniteSet(S \cup T)
  BY <1>4, FS_Union, Zenon
<1>5. ASSUME NEW S, NEW T, IsFiniteSet(S), T \subseteq S
      PROVE  IsFiniteSet(T) /\ Cardinality(T) <= Cardinality(S)
  BY <1>5, FS_Subset, Zenon
<1> QED
  BY <1>1, <1>2, <1>3, <1>4, <1>5, Zenon DEF FiniteSetFacts

\* The inductive invariant of the buffers holds in every reachable state, for any number of threads,
\* segments and chunks and any budget: it relates every shared_ptr, every frame of a release in progress and
\* every charge of BufferManager.cpp, TupleBufferImpl.cpp and UnpooledChunksManager.cpp to the counters.
THEOREM Invariance == Spec => []IInv
<1>1. Init => IInv
  BY FiniteSetsAreSo, InitIInv, Zenon
<1>2. IInv /\ [Next]_vars => IInv'
  BY FiniteSetsAreSo, StepIInv, StutterIInv, Zenon
<1> QED
  BY <1>1, <1>2, PTL DEF Spec

\* The reference counter of a control block (TupleBufferImpl.cpp) is exactly the number of TupleBuffer
\* objects and parents of its segment, and a segment in availableBuffers is clean, however many threads
\* retain, release, store and load children at the same time.
THEOREM CountIsAlwaysExact == Spec => []CountIsExact
<1>1. IInv => CountIsExact
  BY Zenon DEF IInv
<1> QED
  BY Invariance, <1>1, PTL

\* A chunk of UnpooledChunksManager.cpp is neither erased nor deallocated while one of its segments is in use
\* or a thread is between taking its space and entering the segment.
THEOREM ChunksAlwaysOutliveTheirSegments == Spec => []ChunksOutliveTheirSegments
<1>1. ASSUME IInv PROVE ChunksOutliveTheirSegments
  <2>1. ChunkTypes /\ ChunksAreKnown /\ IInv
    BY <1>1, Types, Zenon DEF IInv, CountIsExact
  <2>2. ASSUME NEW u \in Unpooled, u \in recycler \/ Recycling(u)
        PROVE  chunkOf[u] \in allocated /\ chunks[chunkOf[u]] # Gone
    <3>1. ASSUME Recycling(u) PROVE chunkOf[u] \in Chunk
      BY <1>1, <3>1, Released, ZenonT(30) DEF Recycling, InStep
    <3>2. chunkOf[u] \in Chunk
      BY <2>1, <2>2, <3>1, Zenon DEF ChunkTypes, ChunksAreKnown
    <3>3. u \in Residents(chunkOf[u])
      BY <2>2, Zenon DEF Residents
    <3> QED
      BY <1>1, <3>2, <3>3, FiniteSetsAreSo, Counted, Zenon
  <2>3. ASSUME NEW t \in Thread, at[t] = "emplace" PROVE hand[t] \in allocated /\ chunks[hand[t]] # Gone
    <3>1. hand[t] \in Chunk /\ t \in Entering(hand[t])
      BY <2>1, <2>3, Zenon DEF ChunksAreKnown, Entering
    <3> QED
      BY <1>1, <3>1, FiniteSetsAreSo, Counted, Zenon
  <2> QED
    BY <2>2, <2>3, Zenon DEF ChunksOutliveTheirSegments
<1> QED
  BY Invariance, <1>1, PTL

\* The chunks that are allocated never exceed the budget, and currentlyAllocatedUnpooledBytes is the number of
\* chunks allocated, charged in advance or deallocated and not yet accounted for: no charge is lost or
\* refunded twice.
THEOREM BudgetIsAlwaysKept == Spec => []BudgetIsKept
<1>1. IInv => BudgetIsKept
  BY Zenon DEF IInv
<1> QED
  BY Invariance, <1>1, PTL

\* When the last shared_ptr to the BufferManager goes, in a thread or at the end of a release, destroy finds
\* every pooled segment in availableBuffers and no segment referenced: its INVARIANT never fires.
THEOREM DestroyAlwaysFindsAllBuffers == Spec => []DestroyFindsAllBuffers
<1>1. ASSUME IInv PROVE DestroyFindsAllBuffers
  <2> SUFFICES ASSUME destroyed PROVE available = Pooled /\ \A b \in Segment : refs[b] = 0
    BY Zenon DEF DestroyFindsAllBuffers
  <2>1. /\ PoolTypes /\ NoSegmentIsLost /\ \A t \in Thread : Idle(t)
    BY <1>1, FiniteSetsAreSo, Types, DeadIsIdle, Zenon DEF IInv, CountIsExact
  <2>2. recycler = {}
    BY <1>1, Zenon DEF IInv, DestroyedIsDead, ManagerAlive
  <2>3. \A b \in Segment : refs[b] = 0
    BY <1>1, <2>2, Unowned, Zenon
  <2>4. ASSUME NEW b \in Pooled PROVE b \in available
    <3>1. ~Recycling(b) /\ \A t \in Thread : ~Preparing(t, b)
      BY <2>1, Zenon DEF Recycling, InStep, Idle, Preparing
    <3> QED
      BY <2>1, <2>2, <3>1, Zenon DEF NoSegmentIsLost
  <2> QED
    BY <2>1, <2>3, <2>4, Zenon DEF PoolTypes
<1> QED
  BY Invariance, <1>1, PTL
=============================================================================
