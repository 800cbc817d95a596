-------------------------- MODULE WindowStoreProofs --------------------------
\* The window store for every input, any number of workers and origins, and all
\* window sizes and slides: no watermark is lost, no record comes late,
\* windows are triggered once, in order, and their slices are kept until they
\* are probed.  Before that, the slices of SliceAssigner.hpp make up its windows.
EXTENDS WindowStore, TLAPS

-----------------------------------------------------------------------------
\* Multiples of the slide, and what the remainder has to do with them.

Multiple(x, p) == x % p = 0

LEMMA MaxOfTwo ==
  ASSUME NEW x \in Int, NEW y \in Int
  PROVE  Max({x, y}) = IF x >= y THEN x ELSE y
<1>1. \E m \in {x, y} : \A n \in {x, y} : m >= n
  OBVIOUS
<1> QED
  BY <1>1 DEF Max

LEMMA MinOfTwo ==
  ASSUME NEW x \in Int, NEW y \in Int
  PROVE  Min({x, y}) = IF x <= y THEN x ELSE y
<1>1. \E m \in {x, y} : \A n \in {x, y} : m <= n
  OBVIOUS
<1> QED
  BY <1>1 DEF Min

-----------------------------------------------------------------------------
\* The last start of a slide at or before a timestamp, and the last end of a
\* window.
IsSlideStart(slide, ts, a) == a \in Nat /\ Multiple(a, slide) /\ a <= ts /\ ts < a + slide
IsWindowEnd(size, slide, ts, b) ==
    b \in Nat /\ Multiple(b - size, slide) /\ size <= b /\ b <= ts /\ ts < b + slide

\* The slice of a timestamp before the end of the first window.
EarlySlice(size, slide, ts, a, start, end) ==
    /\ ts < size /\ IsSlideStart(slide, ts, a)
    /\ start = a
    /\ end = IF a + slide <= size THEN a + slide ELSE size

\* The slice of a later timestamp.
LateSlice(size, slide, ts, a, b, start, end) ==
    /\ size <= ts /\ IsSlideStart(slide, ts, a) /\ IsWindowEnd(size, slide, ts, b)
    /\ start = IF a >= b THEN a ELSE b
    /\ end = IF a <= b THEN a + slide ELSE b + slide

-----------------------------------------------------------------------------
-----------------------------------------------------------------------------
\* For every window size, slide and timestamp, overlapping, adjacent or with
\* gaps: the timestamp lies in its slice, all timestamps of the slice have the
\* same bounds, and getAllWindowsForSlice finds exactly the windows that
\* contain them.
THEOREM SlicesMakeUpTheirWindows ==
  \A size, slide \in Nat \ {0} : \A ts \in Nat : SliceMakesUpItsWindows(size, slide, ts)
<1>RemainderIsSmall.
      ASSUME NEW p \in Nat \ {0}, NEW x \in Int
      PROVE  x % p \in 0..(p - 1)
  BY <1>RemainderIsSmall
<1>QuotientAndRemainder.
      ASSUME NEW p \in Nat \ {0}, NEW x \in Int
      PROVE  x \div p \in Int /\ x = p * (x \div p) + (x % p)
  BY <1>QuotientAndRemainder
<1>RemainderOfSum.
      ASSUME NEW p \in Nat \ {0}, NEW q \in Int, NEW r \in 0..(p - 1)
      PROVE  (p * q + r) % p = r
  BY <1>RemainderOfSum
<1>RestIsMultiple.
      ASSUME NEW p \in Nat \ {0}, NEW x \in Int
      PROVE  Multiple(x - (x % p), p)
  <2> USE <1>RestIsMultiple
  <2>1. x - (x % p) = p * (x \div p) + 0
    BY <1>QuotientAndRemainder, <1>RemainderIsSmall
  <2> QED
    BY <2>1, <1>RemainderOfSum, <1>QuotientAndRemainder DEF Multiple
<1>MultipleHasQuotient.
      ASSUME NEW p \in Nat \ {0}, NEW x \in Int, Multiple(x, p)
      PROVE  x \div p \in Int /\ x = p * (x \div p)
    BY <1>MultipleHasQuotient, <1>QuotientAndRemainder DEF Multiple
<1>MultiplesAddUp.
      ASSUME NEW p \in Nat \ {0}, NEW x \in Int, NEW y \in Int, Multiple(x, p), Multiple(y, p)
      PROVE  Multiple(x + y, p) /\ Multiple(x - y, p)
  <2> USE <1>MultiplesAddUp
  <2>1. PICK a \in Int : x = p * a
    BY <1>MultipleHasQuotient, Zenon
  <2>2. PICK b \in Int : y = p * b
    BY <1>MultipleHasQuotient, Zenon
  <2>3. x + y = p * (a + b) + 0 /\ x - y = p * (a - b) + 0
    BY <2>1, <2>2
  <2>4. a + b \in Int /\ a - b \in Int /\ 0 \in 0..(p - 1)
    OBVIOUS
  <2> QED
    BY <2>3, <2>4, <1>RemainderOfSum, Zenon DEF Multiple
<1>SmallMultipleIsZero.
      ASSUME NEW p \in Nat \ {0}, NEW x \in Int, Multiple(x, p), -p < x, x < p
      PROVE  x = 0
    BY <1>SmallMultipleIsZero DEF Multiple
<1>SlideStartExists.
      ASSUME NEW slide \in Nat \ {0}, NEW ts \in Nat
      PROVE  IsSlideStart(slide, ts, ts - (ts % slide))
  <2> USE <1>SlideStartExists
  <2> DEFINE a == ts - (ts % slide)
  <2>1. a \in Int /\ a <= ts /\ ts < a + slide
    BY <1>RemainderIsSmall
  <2>2. Multiple(a, slide)
    <3>1. ts \in Int
      OBVIOUS
    <3> QED
      BY <3>1, <1>RestIsMultiple, Zenon
  <2>3. a >= 0
    <3> HIDE DEF a
    <3> QED
      BY <2>1, <2>2, <1>SmallMultipleIsZero
  <2> QED
    BY <2>1, <2>2, <2>3 DEF IsSlideStart
<1>WindowEndExists.
      ASSUME NEW size \in Nat \ {0}, NEW slide \in Nat \ {0}, NEW ts \in Nat, size <= ts
      PROVE  IsWindowEnd(size, slide, ts, ts - ((ts - size) % slide))
  <2> USE <1>WindowEndExists
  <2>1. IsSlideStart(slide, ts - size, (ts - size) - ((ts - size) % slide))
    BY <1>SlideStartExists
  <2>2. (ts - size) % slide \in Int
    BY <1>RemainderIsSmall
  <2> DEFINE b == ts - ((ts - size) % slide)
  <2>3. (ts - size) - ((ts - size) % slide) = b - size /\ b \in Int
    BY <2>2
  <2> HIDE DEF b
  <2>4. IsWindowEnd(size, slide, ts, b)
    BY <2>1, <2>3 DEF IsSlideStart, IsWindowEnd
  <2> QED
    BY <2>4, Zenon DEF b
<1>EarlySliceExists.
      ASSUME NEW size \in Nat \ {0}, NEW slide \in Nat \ {0}, NEW ts \in Nat, ts < size
      PROVE  EarlySlice(size, slide, ts, ts - (ts % slide),
                        getSliceStartTs(size, slide, ts), getSliceEndTs(size, slide, ts))
  <2> USE <1>EarlySliceExists
  <2>1. IsSlideStart(slide, ts, ts - (ts % slide))
    BY <1>SlideStartExists, Zenon
  <2>2. ts % slide \in Int
    BY <1>RemainderIsSmall
  <2>3. getSliceStartTs(size, slide, ts) = ts - (ts % slide)
    BY <2>2, MaxOfTwo DEF getSliceStartTs
  <2>4. getSliceEndTs(size, slide, ts)
          = IF ts + slide - (ts % slide) <= size THEN ts + slide - (ts % slide) ELSE size
    BY <2>2, MinOfTwo DEF getSliceEndTs
  <2>5. ts + slide - (ts % slide) = (ts - (ts % slide)) + slide
    BY <2>2
  <2> QED
    BY <2>1, <2>3, <2>4, <2>5, Zenon DEF EarlySlice
<1>LateSliceExists.
      ASSUME NEW size \in Nat \ {0}, NEW slide \in Nat \ {0}, NEW ts \in Nat, size <= ts
      PROVE  LateSlice(size, slide, ts, ts - (ts % slide), ts - ((ts - size) % slide),
                       getSliceStartTs(size, slide, ts), getSliceEndTs(size, slide, ts))
  <2> USE <1>LateSliceExists
  <2> DEFINE r == ts % slide
             s == (ts - size) % slide
  <2>1. IsSlideStart(slide, ts, ts - r) /\ IsWindowEnd(size, slide, ts, ts - s)
    BY <1>SlideStartExists, <1>WindowEndExists, Zenon
  <2>2. r \in Int /\ s \in Int
    BY <1>RemainderIsSmall
  <2>3. getSliceStartTs(size, slide, ts) = Max({ts - r, ts - s})
    BY DEF getSliceStartTs
  <2>4. getSliceEndTs(size, slide, ts) = Min({ts + slide - r, ts + slide - s})
    BY DEF getSliceEndTs
  <2> HIDE DEF r, s
  <2>5. getSliceStartTs(size, slide, ts) = IF ts - r >= ts - s THEN ts - r ELSE ts - s
    BY <2>2, <2>3, MaxOfTwo
  <2>6. getSliceEndTs(size, slide, ts) = IF ts - r <= ts - s THEN (ts - r) + slide ELSE (ts - s) + slide
    BY <2>2, <2>4, MinOfTwo
  <2>7. LateSlice(size, slide, ts, ts - r, ts - s,
                  getSliceStartTs(size, slide, ts), getSliceEndTs(size, slide, ts))
    BY <2>1, <2>5, <2>6, Zenon DEF LateSlice
  <2> QED
    BY <2>7, Zenon DEF r, s
<1>MultiplesAreApart.
      ASSUME NEW p \in Nat \ {0}, NEW x \in Int, NEW y \in Int,
             Multiple(x, p), Multiple(y, p), x < y
      PROVE  x + p <= y
  <2> USE <1>MultiplesAreApart
  <2>1. Multiple(y - x, p)
    BY <1>MultiplesAddUp, Zenon
  <2>2. y - x < p => y - x = 0
    BY <2>1, <1>SmallMultipleIsZero
  <2> QED
    BY <2>2
<1>SameMultiples.
      ASSUME NEW p \in Nat \ {0}, NEW x \in Int, NEW d \in Int, Multiple(d, p)
      PROVE  Multiple(x - d, p) <=> Multiple(x, p)
  <2> USE <1>SameMultiples
  <2>1. x - d \in Int /\ (x - d) + d = x
    OBVIOUS
  <2>2. Multiple(x, p) => Multiple(x - d, p)
    BY <1>MultiplesAddUp, Zenon
  <2>3. Multiple(x - d, p) => Multiple((x - d) + d, p)
    BY <2>1, <1>MultiplesAddUp, Zenon
  <2> QED
    BY <2>1, <2>2, <2>3, Zenon
<1>WindowsContaining.
      ASSUME NEW size, NEW slide, NEW t
      PROVE  ContainingWindows(size, slide, t)
               = {e \in size..(t + size) : Multiple(e - size, slide) /\ e - size <= t /\ t < e}
    BY <1>WindowsContaining, Zenon DEF ContainingWindows, Multiple
<1>WindowsOfEarlySlice.
      ASSUME NEW size \in Nat \ {0}, NEW slide \in Nat \ {0}, NEW t \in Nat,
             NEW a, NEW start, NEW end, EarlySlice(size, slide, t, a, start, end)
      PROVE  getAllWindowsForSlice(size, slide, start, end) = ContainingWindows(size, slide, t)
  <2> USE <1>WindowsOfEarlySlice
  <2>1. a \in Nat /\ start = a /\ end \in Int /\ end <= size /\ t < size /\ a <= t /\ t < a + slide
    BY DEF EarlySlice, IsSlideStart
  <2>2. Max({end, size}) = size
    BY <2>1, MaxOfTwo
  <2>3. (size - size) % slide = 0
    OBVIOUS
  <2>4. getAllWindowsForSlice(size, slide, start, end)
          = {e \in size..(a + size) : Multiple(e - size, slide)}
    BY <2>1, <2>2, <2>3, Zenon DEF getAllWindowsForSlice, Multiple
  <2>5. ASSUME NEW e \in Int, Multiple(e - size, slide), e - size <= t PROVE e - size <= a
    BY <2>5, <2>1, <1>MultiplesAreApart DEF EarlySlice, IsSlideStart
  <2> QED
    BY <2>1, <2>4, <2>5, <1>WindowsContaining
<1>WindowsOfLateSlice.
      ASSUME NEW size \in Nat \ {0}, NEW slide \in Nat \ {0}, NEW t \in Nat,
             NEW a, NEW b, NEW start, NEW end, LateSlice(size, slide, t, a, b, start, end)
      PROVE  getAllWindowsForSlice(size, slide, start, end) = ContainingWindows(size, slide, t)
  <2> USE <1>WindowsOfLateSlice
  <2>1. /\ a \in Nat /\ b \in Nat /\ start \in Nat /\ end \in Nat
        /\ a <= t /\ t < a + slide /\ size <= b /\ b <= t /\ t < b + slide
        /\ Multiple(a, slide) /\ Multiple(b - size, slide) /\ Multiple(slide, slide)
        /\ start = IF a >= b THEN a ELSE b
        /\ end = IF a <= b THEN a + slide ELSE b + slide
    BY DEF LateSlice, IsSlideStart, IsWindowEnd, Multiple
  <2>2. Max({end, size}) = end
    BY <2>1, MaxOfTwo
  \* A window end that contains t is past b, and starts at or before a.
  <2>3. ASSUME NEW e \in Int, Multiple(e - size, slide)
        PROVE  (e - size <= t => e - size <= a) /\ (t < e => b + slide <= e)
    <3>1. e - size > a => a + slide <= e - size
      BY <2>1, <2>3, <1>MultiplesAreApart
    <3>2. e - size > b - size => (b - size) + slide <= e - size
      BY <2>1, <2>3, <1>MultiplesAreApart
    <3> QED
      BY <2>1, <3>1, <3>2
  <2>4. Multiple((b + slide) - size, slide)
    <3>1. Multiple((b - size) + slide, slide) /\ (b - size) + slide = (b + slide) - size
      BY <2>1, <1>MultiplesAddUp
    <3> QED
      BY <3>1, Zenon
  <2> DEFINE Containing == {e \in Int : Multiple(e - size, slide) /\ e - size <= t /\ t < e}
  <2>7. ContainingWindows(size, slide, t) = Containing
    <3>1. ASSUME NEW e
          PROVE  e \in size..(t + size) /\ t < e <=> e \in Int /\ e - size <= t /\ t < e
      BY <2>1
    <3> QED
      BY <3>1, <1>WindowsContaining, Zenon
  <2>5. CASE end = b + slide
    <3>1. getAllWindowsForSlice(size, slide, start, end)
            = {e \in end..(start + size) : Multiple(e - end, slide)}
      BY <2>2, <2>4, <2>5, Zenon DEF getAllWindowsForSlice, Multiple
    <3>2. ASSUME NEW e \in Int
          PROVE  Multiple(e - end, slide) <=> Multiple(e - size, slide)
      <4>1. (e - size) - (end - size) = e - end /\ e - size \in Int /\ end - size \in Int
        BY <2>1
      <4>2. Multiple((e - size) - (end - size), slide) <=> Multiple(e - size, slide)
        BY <4>1, <2>4, <2>5, <1>SameMultiples, Zenon
      <4> QED
        BY <4>1, <4>2, Zenon
    <3>3. ASSUME NEW e \in Int, Multiple(e - size, slide)
          PROVE  (end <= e /\ e <= start + size) <=> (e - size <= t /\ t < e)
      BY <2>1, <2>3, <2>5, <3>3
    <3>6. {e \in end..(start + size) : Multiple(e - end, slide)} = Containing
      <4>1. ASSUME NEW e
            PROVE  e \in end..(start + size) <=> e \in Int /\ end <= e /\ e <= start + size
        BY <2>1
      <4> QED
        BY <4>1, <3>2, <3>3, Zenon
    <3> QED
      BY <2>7, <3>1, <3>6, Zenon
  <2>6. CASE end # b + slide
    <3>1. a < b /\ end = a + slide /\ start = b
      BY <2>1, <2>6
    <3>2. ~Multiple(end - size, slide)
      BY <2>1, <2>3, <3>1
    <3>3. getAllWindowsForSlice(size, slide, start, end)
            = {e \in (b + slide)..(end + size - slide) : Multiple(e - (b + slide), slide)}
      BY <2>2, <3>1, <3>2, Zenon DEF getAllWindowsForSlice, Multiple
    <3>4. ASSUME NEW e \in Int
          PROVE  Multiple(e - (b + slide), slide) <=> Multiple(e - size, slide)
      <4>1. /\ (e - size) - ((b + slide) - size) = e - (b + slide)
            /\ e - size \in Int /\ (b + slide) - size \in Int
        BY <2>1
      <4>2. Multiple((e - size) - ((b + slide) - size), slide) <=> Multiple(e - size, slide)
        BY <4>1, <2>4, <1>SameMultiples, Zenon
      <4> QED
        BY <4>1, <4>2, Zenon
    <3>5. ASSUME NEW e \in Int, Multiple(e - size, slide)
          PROVE  (b + slide <= e /\ e <= end + size - slide) <=> (e - size <= t /\ t < e)
      BY <2>1, <2>3, <3>1, <3>5
    <3>6. {e \in (b + slide)..(end + size - slide) : Multiple(e - (b + slide), slide)} = Containing
      <4>1. ASSUME NEW e
            PROVE  e \in (b + slide)..(end + size - slide)
                     <=> e \in Int /\ b + slide <= e /\ e <= end + size - slide
        BY <2>1
      <4> QED
        BY <4>1, <3>4, <3>5, Zenon
    <3> QED
      BY <2>7, <3>3, <3>6, Zenon
  <2> QED
    BY <2>5, <2>6, Zenon
<1>SlideStartIsUnique.
      ASSUME NEW slide \in Nat \ {0}, NEW t \in Nat, NEW a, NEW b,
             IsSlideStart(slide, t, a), IsSlideStart(slide, t, b)
      PROVE  a = b
  <2> USE <1>SlideStartIsUnique
  <2>1. a < b => a + slide <= b
    BY <1>MultiplesAreApart DEF IsSlideStart
  <2>2. b < a => b + slide <= a
    BY <1>MultiplesAreApart DEF IsSlideStart
  <2> QED
    BY <2>1, <2>2 DEF IsSlideStart
<1>WindowEndIsUnique.
      ASSUME NEW size \in Nat \ {0}, NEW slide \in Nat \ {0}, NEW t \in Nat, NEW a, NEW b,
             IsWindowEnd(size, slide, t, a), IsWindowEnd(size, slide, t, b)
      PROVE  a = b
  <2> USE <1>WindowEndIsUnique
  <2>1. t - size \in Nat /\ a - size \in Int /\ b - size \in Int
    BY DEF IsWindowEnd
  <2>2. IsSlideStart(slide, t - size, a - size) /\ IsSlideStart(slide, t - size, b - size)
    BY DEF IsWindowEnd, IsSlideStart
  <2>3. a - size = b - size
    BY <2>1, <2>2, <1>SlideStartIsUnique, Zenon
  <2> QED
    BY <2>3 DEF IsWindowEnd
<1>EarlySlicesAgree.
      ASSUME NEW size \in Nat \ {0}, NEW slide \in Nat \ {0}, NEW ts \in Nat,
             NEW a, NEW start, NEW end, EarlySlice(size, slide, ts, a, start, end),
             NEW t \in start..(end - 1)
      PROVE  /\ t \in Nat
             /\ EarlySlice(size, slide, t, a, start, end)
             /\ getSliceStartTs(size, slide, t) = start /\ getSliceEndTs(size, slide, t) = end
  <2> USE <1>EarlySlicesAgree
  <2>1. t \in Nat /\ t < size /\ IsSlideStart(slide, t, a)
    BY DEF EarlySlice, IsSlideStart
  <2>2. EarlySlice(size, slide, t, a, start, end)
    BY <2>1, Zenon DEF EarlySlice
  <2> DEFINE c == t - (t % slide)
  <2>3. EarlySlice(size, slide, t, c, getSliceStartTs(size, slide, t), getSliceEndTs(size, slide, t))
    BY <2>1, <1>EarlySliceExists, Zenon
  <2> HIDE DEF c
  <2>4. c = a
    BY <2>1, <2>3, <1>SlideStartIsUnique, Zenon DEF EarlySlice
  <2> QED
    BY <2>1, <2>2, <2>3, <2>4, Zenon DEF EarlySlice
<1>LateSlicesAgree.
      ASSUME NEW size \in Nat \ {0}, NEW slide \in Nat \ {0}, NEW ts \in Nat,
             NEW a, NEW b, NEW start, NEW end, LateSlice(size, slide, ts, a, b, start, end),
             NEW t \in start..(end - 1)
      PROVE  /\ t \in Nat
             /\ LateSlice(size, slide, t, a, b, start, end)
             /\ getSliceStartTs(size, slide, t) = start /\ getSliceEndTs(size, slide, t) = end
  <2> USE <1>LateSlicesAgree
  <2>1. t \in Nat /\ size <= t /\ IsSlideStart(slide, t, a) /\ IsWindowEnd(size, slide, t, b)
    BY DEF LateSlice, IsSlideStart, IsWindowEnd
  <2>2. LateSlice(size, slide, t, a, b, start, end)
    BY <2>1, Zenon DEF LateSlice
  <2> DEFINE c == t - (t % slide)
             d == t - ((t - size) % slide)
  <2>3. LateSlice(size, slide, t, c, d, getSliceStartTs(size, slide, t), getSliceEndTs(size, slide, t))
    BY <2>1, <1>LateSliceExists, Zenon
  <2> HIDE DEF c, d
  <2>4. c = a /\ d = b
    BY <2>1, <2>3, <1>SlideStartIsUnique, <1>WindowEndIsUnique, Zenon DEF LateSlice
  <2> QED
    BY <2>1, <2>2, <2>3, <2>4, Zenon DEF LateSlice
<1> SUFFICES ASSUME NEW size \in Nat \ {0}, NEW slide \in Nat \ {0}, NEW ts \in Nat
             PROVE  SliceMakesUpItsWindows(size, slide, ts)
  BY Zenon
<1> DEFINE start == getSliceStartTs(size, slide, ts)
           end == getSliceEndTs(size, slide, ts)
           a == ts - (ts % slide)
           b == ts - ((ts - size) % slide)
<1>1. ASSUME ts < size
      PROVE  EarlySlice(size, slide, ts, a, start, end)
  BY <1>1, <1>EarlySliceExists, Zenon
<1>2. ASSUME size <= ts
      PROVE  LateSlice(size, slide, ts, a, b, start, end)
  BY <1>2, <1>LateSliceExists, Zenon
<1>s. ASSUME /\ ts \in start..(end - 1)
             /\ \A t \in start..(end - 1) :
                  /\ getSliceStartTs(size, slide, t) = start /\ getSliceEndTs(size, slide, t) = end
                  /\ getAllWindowsForSlice(size, slide, start, end) = ContainingWindows(size, slide, t)
      PROVE  SliceMakesUpItsWindows(size, slide, ts)
  BY <1>s, Zenon DEF SliceMakesUpItsWindows
<1> HIDE DEF start, end, a, b
<1>3. CASE ts < size
  <2>1. ts \in start..(end - 1)
    BY <1>1, <1>3 DEF EarlySlice, IsSlideStart
  <2> QED
    BY <1>1, <1>3, <1>s, <2>1, <1>EarlySlicesAgree, <1>WindowsOfEarlySlice
<1>4. CASE size <= ts
  <2>1. ts \in start..(end - 1)
    BY <1>2, <1>4 DEF LateSlice, IsSlideStart, IsWindowEnd
  <2> QED
    BY <1>2, <1>4, <1>s, <2>1, <1>LateSlicesAgree, <1>WindowsOfLateSlice
<1> QED
  BY <1>3, <1>4

-----------------------------------------------------------------------------
\* Finite sets and sequences
\*
\* What the proofs use of the library: LibraryFacts is a hypothesis of the lemmas, which TheLibrary discharges
\* before the theorems.

Empty == IsFiniteSet({}) /\ Cardinality({}) = 0 /\ \A S : IsFiniteSet(S) => (Cardinality(S) = 0 <=> S = {})
Count == \A S : IsFiniteSet(S) => Cardinality(S) \in Nat
Subset ==
  \A S : \A T \in SUBSET S :
    IsFiniteSet(S) => /\ IsFiniteSet(T) /\ Cardinality(T) <= Cardinality(S)
                      /\ Cardinality(S) = Cardinality(T) => S = T
OneMore ==
  \A S, x : IsFiniteSet(S) =>
    /\ IsFiniteSet(S \cup {x})
    /\ Cardinality(S \cup {x}) = IF x \in S THEN Cardinality(S) ELSE Cardinality(S) + 1
OneLess ==
  \A S, x : IsFiniteSet(S) =>
    /\ IsFiniteSet(S \ {x})
    /\ Cardinality(S \ {x}) = IF x \in S THEN Cardinality(S) - 1 ELSE Cardinality(S)
Interval ==
  \A a, b \in Int : IsFiniteSet(a..b) /\ Cardinality(a..b) = IF a > b THEN 0 ELSE b - a + 1
Bounded == \A S \in SUBSET Nat : \A n \in Nat : (\A s \in S : s <= n) => IsFiniteSet(S)
Image ==
  \A S, T : IsFiniteSet(S) =>
    \A f \in Surjection(S, T) : IsFiniteSet(T) /\ Cardinality(T) <= Cardinality(S)
SameCount ==
  \A S, T : IsFiniteSet(S) /\ ExistsBijection(S, T) => IsFiniteSet(T) /\ Cardinality(T) = Cardinality(S)
Union == \A S : IsFiniteSet(S) /\ (\A T \in S : IsFiniteSet(T)) => IsFiniteSet(UNION S)
Product ==
  \A S, T : IsFiniteSet(S) /\ IsFiniteSet(T) =>
    IsFiniteSet(S \X T) /\ Cardinality(S \X T) = Cardinality(S) * Cardinality(T)
Minimum == \A S \in SUBSET Nat : S # {} => \E x \in S : \A y \in S : x <= y
Length == \A S : \A s \in Seq(S) : Len(s) \in Nat /\ DOMAIN s = 1..Len(s)
List == \A S : \A n \in Nat : \A s \in [1..n -> S] : s \in Seq(S) /\ Len(s) = n
Concat == \A S : \A s, t \in Seq(S) : s \o t \in Seq(S) /\ Len(s \o t) = Len(s) + Len(t)

LibraryFacts ==
  /\ Empty /\ Count /\ Subset /\ OneMore /\ OneLess /\ Interval /\ Bounded /\ Image /\ SameCount /\ Union
  /\ Product /\ Minimum /\ Length /\ List /\ Concat

-----------------------------------------------------------------------------
\* Facts about the constants

LEMMA NaturalsHaveAMinimum ==
  ASSUME LibraryFacts, NEW S \in SUBSET Nat, S # {}
  PROVE  Min(S) \in S /\ \A n \in S : Min(S) <= n
  BY Zenon DEF LibraryFacts, Minimum, Min

\* What InputIsOrderly says of a chunk.
LEMMA InputType ==
  ASSUME NEW c \in Input
  PROVE  /\ c.origin \in Origin /\ c.sn \in Nat \ {0} /\ c.number \in Nat \ {0}
         /\ c.last \in BOOLEAN /\ c.ts \in Nat
         /\ <<c.origin, c.sn>> \in Key
  BY InputIsOrderly, Zenon DEF Key

LEMMA ChunksAreFinite ==
  ASSUME LibraryFacts, NEW k, NEW S, S \subseteq Chunks(k)
  PROVE  /\ IsFiniteSet(S) /\ Cardinality(S) \in Nat
         /\ IsFiniteSet(Chunks(k)) /\ Cardinality(Chunks(k)) \in Nat
         /\ Cardinality(S) = Cardinality(Chunks(k)) => S = Chunks(k)
<1>1. Chunks(k) \subseteq Input
  BY Zenon DEF Chunks
<1>2. IsFiniteSet(Chunks(k))
  BY <1>1, InputIsOrderly, Zenon DEF LibraryFacts, Subset
<1> QED
  BY <1>2, Zenon DEF LibraryFacts, Subset, Count

LEMMA OriginsAreFinite ==
  ASSUME LibraryFacts, NEW S \in SUBSET Origin
  PROVE  IsFiniteSet(S) /\ Cardinality(S) \in 0..Len(Origins)
<1>1. Origins \in Surjection(1..Len(Origins), Origin)
  BY OriginsAreListed DEF Surjection, Origin
<1>2. Len(Origins) \in Nat
  BY OriginsAreListed
<1>3. IsFiniteSet(1..Len(Origins)) /\ Cardinality(1..Len(Origins)) = Len(Origins)
  <2>1. /\ IsFiniteSet(1..Len(Origins))
        /\ Cardinality(1..Len(Origins)) = IF 1 > Len(Origins) THEN 0 ELSE Len(Origins) - 1 + 1
    BY <1>2, 1 \in Int, Len(Origins) \in Int, Zenon DEF LibraryFacts, Interval
  <2> QED
    BY <2>1, <1>2
<1>4. IsFiniteSet(Origin) /\ Cardinality(Origin) <= Len(Origins)
  BY <1>1, <1>3 DEF LibraryFacts, Image
<1>5. IsFiniteSet(S) /\ Cardinality(S) <= Cardinality(Origin)
  BY <1>4, Zenon DEF LibraryFacts, Subset
<1> QED
  BY <1>2, <1>4, <1>5 DEF LibraryFacts, Count

\* As many sequence numbers as their count: no gap before the current one.
LEMMA CountedSequence ==
  ASSUME LibraryFacts, NEW o \in Origin, NEW n \in Nat, \A i \in 1..n : <<o, i>> \in Key
  PROVE  n <= Cardinality(Sequence(o))
<1> DEFINE D == {d \in Input : d.origin = o}
           f == [c \in D |-> c.sn]
<1>1. IsFiniteSet(D)
  BY InputIsOrderly, Zenon DEF LibraryFacts, Subset
<1>2. f \in Surjection(D, Sequence(o))
  BY Zenon DEF Surjection, Sequence
<1>3. IsFiniteSet(Sequence(o))
  BY <1>1, <1>2, Zenon DEF LibraryFacts, Image
<1>4. 1..n \subseteq Sequence(o)
  BY Zenon DEF Sequence, Key
<1>5. Cardinality(1..n) <= Cardinality(Sequence(o))
  BY <1>3, <1>4, Zenon DEF LibraryFacts, Subset
<1>6. Cardinality(1..n) = n
  BY DEF LibraryFacts, Interval
<1> QED
  BY <1>5, <1>6, Zenon

\* A window that the assigner finds for a timestamp ends after it.
LEMMA WindowsEndLater ==
  ASSUME NEW t \in Nat, NEW e
  PROVE  /\ e \in ContainingWindows(WindowSize, WindowSlide, t) => e \in Nat /\ t < e
         /\ WindowsOf(t) = ContainingWindows(WindowSize, WindowSlide, t)
<1>1. SliceMakesUpItsWindows(WindowSize, WindowSlide, t)
  BY WindowsAreValid, SlicesMakeUpTheirWindows, Zenon
<1>2. WindowsOf(t) = ContainingWindows(WindowSize, WindowSlide, t)
  BY <1>1, Zenon DEF SliceMakesUpItsWindows, WindowsOf, SliceStart, SliceEnd
<1>3. e \in ContainingWindows(WindowSize, WindowSlide, t) => e \in Nat /\ t < e
  BY WindowsAreValid DEF ContainingWindows
<1> QED
  BY <1>2, <1>3, Zenon

-----------------------------------------------------------------------------
\* What the steps do to a worker's variables

\* After a step of w, its variables are these, and the other workers' the same.
Now(w, at, task, value, seen) ==
    /\ Shape'
    /\ \A v \in Worker \ {w} : worker'[v] = worker[v]
    /\ worker'[w].at = at /\ worker'[w].task = task
    /\ worker'[w].value = value /\ worker'[w].seen = seen

LEMMA GotoFields ==
  ASSUME Shape, NEW w \in Worker, NEW place, Goto(w, place)
  PROVE  Now(w, place, worker[w].task, worker[w].value, worker[w].seen)
  BY Zenon DEF Shape, Local, Goto, Now

LEMMA IdleFields ==
  ASSUME Shape, NEW w \in Worker, worker' = [worker EXCEPT ![w] = Idle]
  PROVE  Now(w, "idle", NoTask, 0, <<>>)
  BY Zenon DEF Shape, Local, Idle, Now

LEMMA BuildFields ==
  ASSUME Shape, NEW w \in Worker, NEW c, BeginBuild(w, c)
  PROVE  Now(w, IF c.ts = 0 THEN "merge" ELSE "find", c, worker[w].value, worker[w].seen)
  BY Zenon DEF Shape, Local, BeginBuild, Now

LEMMA CountFields ==
  ASSUME Shape, NEW w \in Worker, CountChunk(w)
  PROVE  LET now == Counted(collected[KeyOf(w)].counter, worker[w].task)
         IN  Now(w, IF now = 0 THEN "storeSeq" ELSE "read", worker[w].task,
                 IF now = 0 THEN collected[KeyOf(w)].value ELSE 0, worker[w].seen)
  BY Zenon DEF Shape, Local, CountChunk, Now

LEMMA ShiftFields ==
  ASSUME Shape, NEW w \in Worker, ShiftCurrentValue(w)
  PROVE  \E place \in {"shift", "moveHead", "read"} : \E value :
           /\ Now(w, place, worker[w].task, value, worker[w].seen)
           /\ ~Ready(worker[w].task.origin) <=> place = "read"
<1> DEFINE o == worker[w].task.origin
           next == currentSeq[o] + 1
           place == IF next % BlockSize = 0 THEN "moveHead" ELSE "shift"
<1>1. CASE Ready(o)
  <2>1. worker' = [worker EXCEPT ![w].at = IF next % BlockSize = 0 THEN "moveHead" ELSE @,
                                 ![w].value = next \div BlockSize]
    BY <1>1, Zenon DEF ShiftCurrentValue
  <2>2. worker[w].at = "shift"
    BY Zenon DEF ShiftCurrentValue, At
  <2>3. Now(w, place, worker[w].task, next \div BlockSize, worker[w].seen)
    <3> HIDE DEF next
    <3> QED
      BY <2>1, <2>2, Zenon DEF Shape, Local, Now
  <2> QED
    BY <2>3, <1>1, Zenon
<1>2. CASE ~Ready(o)
  <2>1. Now(w, "read", worker[w].task, worker[w].value, worker[w].seen)
    BY <1>2, GotoFields, Zenon DEF ShiftCurrentValue
  <2> QED
    BY <2>1, <1>2, Zenon
<1> QED
  BY <1>1, <1>2, Zenon

LEMMA ReadFields ==
  ASSUME Shape, NEW w \in Worker, ReadWatermark(w)
  PROVE  LET o == Origins[Len(worker[w].seen) + 1]
             seen == Append(worker[w].seen, slot[<<o, currentSeq[o]>>].value)
         IN  Now(w, IF Len(seen) = Len(Origins) THEN "trigger" ELSE "read", worker[w].task,
                 worker[w].value, seen)
  BY Zenon DEF Shape, Local, ReadWatermark, At, Now

LEMMA TriggerFields ==
  ASSUME Shape, NEW w \in Worker, NEW ends, Trigger(w, ends)
  PROVE  Now(w, "emit", worker[w].task, worker[w].value, worker[w].seen)
<1>1. PICK windowsToEmit : worker' = [worker EXCEPT ![w].at = "emit", ![w].trigger = windowsToEmit]
  BY Zenon DEF Trigger
<1> QED
  BY <1>1, Zenon DEF Shape, Local, Now

LEMMA TerminateFields ==
  ASSUME Shape, NEW w \in Worker, NEW o, BeginTerminate(w, o)
  PROVE  Now(w, "terminate", [origin |-> o, sn |-> 0], worker[w].value, worker[w].seen)
  BY Zenon DEF Shape, Local, BeginTerminate, Now

LEMMA ProbeFields ==
  ASSUME Shape, NEW w \in Worker, NEW q, BeginProbe(w, q)
  PROVE  Now(w, "probe", q, worker[w].value, worker[w].seen)
  BY Zenon DEF Shape, Local, BeginProbe, Now

LEMMA CloseFields ==
  ASSUME Shape, NEW w \in Worker, CloseProbe(w)
  PROVE  \E value : Now(w, "gcWindows", worker[w].task, value, worker[w].seen)
<1>1. PICK value : worker' = [worker EXCEPT ![w].at = "gcWindows", ![w].value = value]
  BY Zenon DEF CloseProbe
<1> QED
  BY <1>1, Zenon DEF Shape, Local, Now

-----------------------------------------------------------------------------
\* Most steps are of two kinds: the worker goes on with its chunk, ...
Advance(w) ==
    /\ Shape' /\ \A v \in Worker \ {w} : worker'[v] = worker[v]
    /\ worker[w].at \in Build \cup Report
    /\ worker'[w].at \in Build \cup Report \cup {"emit"}
    /\ worker'[w].task = worker[w].task
    /\ worker'[w].at \in Build <=> worker[w].at \in Build \ {"count"}
    /\ Building(w)' => Building(w)
    /\ UNCHANGED <<todo, done, ended, active>>

\* ... or does something else.
Elsewhere == {"idle", "probe", "gcWindows", "gcSlices"}
Aside(w) ==
    /\ Shape' /\ \A v \in Worker \ {w} : worker'[v] = worker[v]
    /\ worker[w].at \in Elsewhere /\ worker'[w].at \in Elsewhere
    /\ worker'[w].seen \in {worker[w].seen, <<>>}
    /\ UNCHANGED <<queueVars, todo, done, ended, active, emitted>>

LEMMA BuildingAdvances ==
  ASSUME Shape, NEW w \in Worker,
         FindSlice(w) \/ CreateSlice(w) \/ RegisterSlice(w) \/ InsertRecord(w)
  PROVE  Advance(w) /\ worker'[w].seen = worker[w].seen /\ worker'[w].at \in Build
<1>1. CASE FindSlice(w)
  <2>1. PICK place \in {"insert", "create"} :
          Goto(w, place) /\ UNCHANGED taskVars /\ worker[w].at = "find"
    BY <1>1, Zenon DEF FindSlice, At
  <2>2. Now(w, place, worker[w].task, worker[w].value, worker[w].seen)
    BY <2>1, GotoFields, Zenon
  <2> QED
    BY <2>1, <2>2, Zenon DEF Advance, Now, Build, Report, Building, taskVars
<1>2. CASE CreateSlice(w)
  <2>1. PICK place \in {"insert", "register"} :
          Goto(w, place) /\ UNCHANGED taskVars /\ worker[w].at = "create"
    BY <1>2, Zenon DEF CreateSlice, At
  <2>2. Now(w, place, worker[w].task, worker[w].value, worker[w].seen)
    BY <2>1, GotoFields, Zenon
  <2> QED
    BY <2>1, <2>2, Zenon DEF Advance, Now, Build, Report, Building, taskVars
<1>3. CASE RegisterSlice(w)
  <2>1. Goto(w, "insert") /\ UNCHANGED taskVars /\ worker[w].at = "register"
    BY <1>3, Zenon DEF RegisterSlice, At
  <2>2. Now(w, "insert", worker[w].task, worker[w].value, worker[w].seen)
    BY <2>1, GotoFields, Zenon
  <2> QED
    BY <2>1, <2>2, Zenon DEF Advance, Now, Build, Report, Building, taskVars
<1>4. CASE InsertRecord(w)
  <2>1. Goto(w, "merge") /\ UNCHANGED taskVars /\ worker[w].at = "insert"
    BY <1>4, Zenon DEF InsertRecord, At
  <2>2. Now(w, "merge", worker[w].task, worker[w].value, worker[w].seen)
    BY <2>1, GotoFields, Zenon
  <2> QED
    BY <2>1, <2>2, Zenon DEF Advance, Now, Build, Report, Building, taskVars
<1> QED
  BY <1>1, <1>2, <1>3, <1>4, Zenon

LEMMA UpdatingAdvances ==
  ASSUME Shape, NEW w \in Worker, UpdateWatermark(w), UNCHANGED taskVars
  PROVE  /\ Advance(w)
         /\ worker[w].at \notin {"trigger", "emit"}
         /\ ~ReadWatermark(w) => /\ worker'[w].seen = worker[w].seen
                                /\ worker'[w].at \notin {"trigger", "emit"}
<1> USE DEF Advance, Now, Build, Report, Building, taskVars
<1>1. CASE MergeWatermark(w)
  BY <1>1, GotoFields DEF MergeWatermark, At
<1>2. CASE CountChunk(w)
  <2> DEFINE now == Counted(collected[KeyOf(w)].counter, worker[w].task)
  <2>1. Now(w, IF now = 0 THEN "storeSeq" ELSE "read", worker[w].task,
            IF now = 0 THEN collected[KeyOf(w)].value ELSE 0, worker[w].seen)
    BY <1>2, CountFields, Zenon
  <2>2. worker[w].at = "count"
    BY <1>2, Zenon DEF CountChunk, At
  <2> HIDE DEF now
  <2> QED
    BY <2>1, <2>2, Zenon
<1>3. CASE StoreSeq(w)
  BY <1>3, GotoFields DEF StoreSeq, At
<1>4. CASE StoreValue(w)
  BY <1>4, GotoFields, SMTT(30) DEF StoreValue, At
<1>5. CASE ShiftCurrentValue(w)
  BY <1>5, ShiftFields, ZenonT(30) DEF ShiftCurrentValue, At
<1>6. CASE MoveHead(w)
  BY <1>6, GotoFields DEF MoveHead, At
<1>7. CASE ReadWatermark(w)
  <2> DEFINE o == Origins[Len(worker[w].seen) + 1]
             seen == Append(worker[w].seen, slot[<<o, currentSeq[o]>>].value)
  <2>1. Now(w, IF Len(seen) = Len(Origins) THEN "trigger" ELSE "read", worker[w].task,
            worker[w].value, seen)
    BY <1>7, ReadFields, Zenon
  <2>2. worker[w].at = "read"
    BY <1>7, Zenon DEF ReadWatermark, At
  <2> HIDE DEF o, seen
  <2> QED
    BY <1>7, <2>1, <2>2, Zenon
<1> QED
  BY <1>1, <1>2, <1>3, <1>4, <1>5, <1>6, <1>7, ZenonT(30) DEF UpdateWatermark

LEMMA TriggeringAdvances ==
  ASSUME Shape, NEW w \in Worker, TriggerWindows(w)
  PROVE  Advance(w) /\ worker'[w].seen = worker[w].seen /\ worker'[w].at = "emit"
<1>1. Now(w, "emit", worker[w].task, worker[w].value, worker[w].seen)
  BY GotoFields, TriggerFields, Zenon DEF TriggerWindows
<1> QED
  BY <1>1, Zenon DEF Advance, Now, Build, Report, Building, taskVars, TriggerWindows, At

LEMMA ProbingIsAside ==
  ASSUME Shape, NEW w \in Worker,
         (\E q \in probes : BeginProbe(w, q)) \/ CloseProbe(w) \/ CollectWindows(w) \/ CollectSlices(w)
  PROVE  Aside(w)
<1> USE DEF Aside, Elsewhere, Now, taskVars, storeVars
<1>1. ASSUME NEW q \in probes, BeginProbe(w, q) PROVE Aside(w)
  BY <1>1, ProbeFields, Zenon DEF BeginProbe, At
<1>2. CASE CloseProbe(w)
  BY <1>2, CloseFields, Zenon DEF CloseProbe, At
<1>3. CASE CollectWindows(w)
  BY <1>3, GotoFields, Zenon DEF CollectWindows, At
<1>4. CASE CollectSlices(w)
  BY <1>4, IdleFields, Zenon DEF CollectSlices, At
<1> QED
  BY <1>1, <1>2, <1>3, <1>4, Zenon

LEMMA StepKinds ==
  ASSUME Shape, NEW w \in Worker, Step(w)
  PROVE  \/ \E c \in Input : BeginBuild(w, c)
         \/ Advance(w)
         \/ \E o \in Origin : BeginTerminate(w, o)
         \/ TerminatePipeline(w)
         \/ EmitWindows(w)
         \/ Aside(w)
<1>1. CASE FindSlice(w) \/ CreateSlice(w) \/ RegisterSlice(w) \/ InsertRecord(w)
  BY <1>1, BuildingAdvances, Zenon
<1>2. CASE UpdateWatermark(w) /\ UNCHANGED <<storeVars, taskVars>>
  BY <1>2, UpdatingAdvances, Zenon
<1>3. CASE TriggerWindows(w)
  BY <1>3, TriggeringAdvances, Zenon
<1>4. CASE (\E q \in probes : BeginProbe(w, q)) \/ CloseProbe(w) \/ CollectWindows(w) \/ CollectSlices(w)
  BY <1>4, ProbingIsAside, Zenon
<1> QED
  BY <1>1, <1>2, <1>3, <1>4, Zenon DEF Step

LEMMA PipelineEndFields ==
  ASSUME Shape, NEW w \in Worker, TerminatePipeline(w)
  PROVE  Now(w, "emit", worker[w].task, worker[w].value, worker[w].seen)
  BY GotoFields, TriggerFields, Zenon DEF TerminatePipeline

-----------------------------------------------------------------------------
LEMMA ChunksStayHeldOnce ==
  ASSUME TypeOK, ChunksAreHeldOnce, PipelinesEndOnce, NEW w \in Worker, Step(w)
  PROVE  ChunksAreHeldOnce'
<1>s. Shape
  BY Zenon DEF TypeOK
<1> USE DEF ChunksAreHeldOnce, Holds, Building, Build, Report
<1>1. ASSUME NEW c \in Input, BeginBuild(w, c) PROVE ChunksAreHeldOnce'
  <2>1. Now(w, IF c.ts = 0 THEN "merge" ELSE "find", c, worker[w].value, worker[w].seen)
    BY <1>s, <1>1, BuildFields, Zenon
  <2>2. c \in todo /\ todo' = todo \ {c} /\ done' = done
    BY <1>1, Zenon DEF BeginBuild
  <2> QED
    BY <2>1, <2>2 DEF Now
<1>2. CASE Advance(w)
  BY <1>2 DEF Advance
<1>3. ASSUME NEW o \in Origin, BeginTerminate(w, o) PROVE ChunksAreHeldOnce'
  <2>1. Now(w, "terminate", [origin |-> o, sn |-> 0], worker[w].value, worker[w].seen)
    BY <1>s, <1>3, TerminateFields, Zenon
  <2>2. todo' = todo /\ done' = done
    BY <1>3, Zenon DEF BeginTerminate
  <2> QED
    BY <2>1, <2>2, ZenonT(30) DEF Now
<1>4. CASE TerminatePipeline(w)
  <2>1. Now(w, "emit", worker[w].task, worker[w].value, worker[w].seen)
    BY <1>s, <1>4, PipelineEndFields, Zenon
  <2>2. todo' = todo /\ done' = done /\ worker[w].task.sn = 0
    BY <1>4, Zenon DEF TerminatePipeline, PipelinesEndOnce
  <2>3. worker[w].task \notin Input
    BY <2>2, InputType, Zenon
  <2> QED
    BY <2>1, <2>2, <2>3 DEF Now
<1>5. CASE EmitWindows(w)
  <2>1. Now(w, "idle", NoTask, 0, <<>>)
    BY <1>s, <1>5, IdleFields, Zenon DEF EmitWindows
  <2>2. todo' = todo /\ done' = done \cup ({worker[w].task} \cap Input) /\ worker[w].at = "emit"
    BY <1>5, Zenon DEF EmitWindows, At
  <2> QED
    BY <2>1, <2>2 DEF Now
<1>6. CASE Aside(w)
  BY <1>6 DEF Aside, Elsewhere
<1> HIDE DEF ChunksAreHeldOnce
<1> QED
  BY <1>s, <1>1, <1>2, <1>3, <1>4, <1>5, <1>6, StepKinds, ZenonT(30)

\* A chunk leaves the set of those ahead when it is counted, and none comes
\* back.
LEMMA AheadSteps ==
  ASSUME TypeOK, ChunksAreHeldOnce, NEW w \in Worker, Step(w)
  PROVE  Ahead' = IF At(w, "count") THEN Ahead \ {worker[w].task} ELSE Ahead
<1>s. Shape
  BY Zenon DEF TypeOK
<1> USE DEF Ahead, Build, At
<1>1. ASSUME NEW c \in Input, BeginBuild(w, c) PROVE worker[w].at # "count" /\ Ahead' = Ahead
  <2>1. Now(w, IF c.ts = 0 THEN "merge" ELSE "find", c, worker[w].value, worker[w].seen)
    BY <1>s, <1>1, BuildFields, Zenon
  <2>2. c \in todo /\ todo' = todo \ {c} /\ worker[w].at = "idle"
    BY <1>1, Zenon DEF BeginBuild
  <2> QED
    BY <2>1, <2>2 DEF Now
<1>2. CASE Advance(w)
  <2>1. CASE worker[w].at = "count"
    <3>1. /\ worker[w].task \notin todo
          /\ \A v \in Worker \ {w} : worker[v].at \in Build => worker[v].task # worker[w].task
      BY <2>1, Zenon DEF ChunksAreHeldOnce, Holds
    <3>2. worker'[w].at \notin Build /\ todo' = todo
      BY <1>2, <2>1, Zenon DEF Advance
    <3> QED
      BY <1>2, <2>1, <3>1, <3>2 DEF Advance
  <2>2. CASE worker[w].at # "count"
    BY <1>2, <2>2 DEF Advance
  <2> QED
    BY <2>1, <2>2, Zenon
<1>3. ASSUME NEW o \in Origin, BeginTerminate(w, o) PROVE worker[w].at # "count" /\ Ahead' = Ahead
  <2>1. Now(w, "terminate", [origin |-> o, sn |-> 0], worker[w].value, worker[w].seen)
    BY <1>s, <1>3, TerminateFields, Zenon
  <2>2. todo' = todo /\ worker[w].at = "idle"
    BY <1>3, Zenon DEF BeginTerminate
  <2> QED
    BY <2>1, <2>2 DEF Now
<1>4. CASE TerminatePipeline(w)
  <2>1. Now(w, "emit", worker[w].task, worker[w].value, worker[w].seen)
    BY <1>s, <1>4, PipelineEndFields, Zenon
  <2>2. todo' = todo /\ worker[w].at = "terminate"
    BY <1>4, Zenon DEF TerminatePipeline
  <2> QED
    BY <2>1, <2>2 DEF Now
<1>5. CASE EmitWindows(w)
  <2>1. Now(w, "idle", NoTask, 0, <<>>)
    BY <1>s, <1>5, IdleFields, Zenon DEF EmitWindows
  <2>2. todo' = todo /\ worker[w].at = "emit"
    BY <1>5, Zenon DEF EmitWindows
  <2> QED
    BY <2>1, <2>2 DEF Now
<1>6. CASE Aside(w)
  BY <1>6, ZenonT(30) DEF Aside, Elsewhere
<1> HIDE DEF Ahead, At
<1> QED
  BY <1>s, <1>1, <1>2, <1>3, <1>4, <1>5, <1>6, StepKinds, Zenon DEF At

LEMMA PipelinesStillEndOnce ==
  ASSUME LibraryFacts, TypeOK, PipelinesEndOnce, NEW w \in Worker, Step(w)
  PROVE  PipelinesEndOnce' /\ active' \in 0..Len(Origins)
<1>s. Shape /\ active = Cardinality(Open) /\ Open \subseteq Origin /\ Open' \subseteq Origin
  BY Zenon DEF TypeOK, PipelinesEndOnce, Open
<1>t. Cardinality(Open) \in 0..Len(Origins) /\ Cardinality(Open') \in 0..Len(Origins) /\ IsFiniteSet(Open)
  BY <1>s, OriginsAreFinite, Zenon
<1> DEFINE Ends ==
             /\ \A c \in Input : c.origin \in ended => c \in done
             /\ \A v \in Worker : At(v, "terminate") => worker[v].task.sn = 0 /\ worker[v].task.origin \in ended
             /\ \A u, v \in Worker : At(u, "terminate") /\ At(v, "terminate")
                                       /\ worker[u].task.origin = worker[v].task.origin => u = v
<1>e. Ends
  BY Zenon DEF PipelinesEndOnce
<1>q. ASSUME Ends', active' = Cardinality(Open') PROVE PipelinesEndOnce' /\ active' \in 0..Len(Origins)
  BY <1>q, <1>t, Zenon DEF PipelinesEndOnce
\* A step that neither begins nor ends the termination of a pipeline
<1>k. ASSUME UNCHANGED <<ended, active>>, done \subseteq done', ~At(w, "terminate"), ~At(w, "terminate")',
             \A v \in Worker \ {w} : worker'[v] = worker[v]
      PROVE  PipelinesEndOnce' /\ active' \in 0..Len(Origins)
  <2>1. Open' = Open
    BY <1>k, Zenon DEF Open, At
  <2>2. Ends'
    BY <1>k, <1>e, ZenonT(30) DEF At
  <2> QED
    BY <1>k, <1>s, <1>q, <2>1, <2>2, ZenonT(30)
<1>1. ASSUME NEW c \in Input, BeginBuild(w, c) PROVE PipelinesEndOnce' /\ active' \in 0..Len(Origins)
  <2>1. Now(w, IF c.ts = 0 THEN "merge" ELSE "find", c, worker[w].value, worker[w].seen)
    BY <1>s, <1>1, BuildFields, Zenon
  <2>2. UNCHANGED <<ended, active, done>> /\ worker[w].at = "idle"
    BY <1>1, Zenon DEF BeginBuild, At
  <2> QED
    BY <2>1, <2>2, <1>k, Zenon DEF Now, At
<1>2. CASE Advance(w)
  BY <1>2, <1>k, Zenon DEF Advance, Build, Report, At
<1>3. ASSUME NEW o \in Origin, BeginTerminate(w, o) PROVE PipelinesEndOnce' /\ active' \in 0..Len(Origins)
  <2>1. Now(w, "terminate", [origin |-> o, sn |-> 0], worker[w].value, worker[w].seen)
    BY <1>s, <1>3, TerminateFields, Zenon
  <2>2. /\ o \notin ended /\ ended' = ended \cup {o} /\ done' = done /\ active' = active
        /\ worker[w].at = "idle" /\ \A c \in Input : c.origin = o => c \in done
    BY <1>3, Zenon DEF BeginTerminate, At
  <2>3. Open' = Open
    BY <2>1, <2>2 DEF Open, At, Now
  <2>4. Ends'
    BY <1>e, <2>1, <2>2 DEF At, Now
  <2> QED
    BY <1>s, <1>q, <2>2, <2>3, <2>4, ZenonT(30)
<1>4. CASE TerminatePipeline(w)
  <2>1. Now(w, "emit", worker[w].task, worker[w].value, worker[w].seen)
    BY <1>s, <1>4, PipelineEndFields, Zenon
  <2>2. ended' = ended /\ done' = done /\ active' = active - 1 /\ worker[w].at = "terminate"
    BY <1>4, Zenon DEF TerminatePipeline, At
  <2> DEFINE o == worker[w].task.origin
  <2>6. o \in Origin /\ o \in ended
    BY <1>e, <2>2, Zenon DEF At, TypeOK
  <2>7. \A v \in Worker \ {w} : worker[v].at = "terminate" => worker[v].task.origin # o
    BY <1>e, <2>2, Zenon DEF At
  <2> HIDE DEF Ends
  <2>3. o \in Open /\ Open' = Open \ {o}
    BY <2>1, <2>2, <2>6, <2>7, SMTT(30) DEF Open, At, Now
  <2>4. Ends'
    BY <1>e, <2>1, <2>2, ZenonT(30) DEF At, Now, Ends
  <2>5. Cardinality(Open') = Cardinality(Open) - 1
    BY <1>t, <2>3, ZenonT(30) DEF LibraryFacts, OneLess
  <2> QED
    BY <1>s, <1>q, <2>2, <2>4, <2>5, ZenonT(30)
<1>5. CASE EmitWindows(w)
  <2>1. Now(w, "idle", NoTask, 0, <<>>)
    BY <1>s, <1>5, IdleFields, Zenon DEF EmitWindows
  <2> QED
    BY <1>5, <2>1, <1>k, Zenon DEF EmitWindows, Now, At
<1>6. CASE Aside(w)
  BY <1>6, <1>k, Zenon DEF Aside, Elsewhere, At
<1> QED
  BY <1>s, <1>1, <1>2, <1>3, <1>4, <1>5, <1>6, StepKinds, Zenon

-----------------------------------------------------------------------------
\* The watermark queue

LEMMA QueueSteps ==
  ASSUME NEW w \in Worker, Step(w)
  PROVE  /\ (UpdateWatermark(w) /\ UNCHANGED <<storeVars, taskVars>>) \/ UNCHANGED queueVars
         /\ At(w, "count") <=> CountChunk(w)
<1> USE DEF At
<1>1. CASE FindSlice(w) \/ CreateSlice(w) \/ RegisterSlice(w) \/ InsertRecord(w)
  BY <1>1, Zenon DEF FindSlice, CreateSlice, RegisterSlice, InsertRecord, CountChunk
<1>2. CASE UpdateWatermark(w) /\ UNCHANGED <<storeVars, taskVars>>
  BY <1>2, Zenon DEF UpdateWatermark, MergeWatermark, CountChunk, StoreSeq, StoreValue, ShiftCurrentValue,
              MoveHead, ReadWatermark
<1>3. CASE TriggerWindows(w) \/ TerminatePipeline(w) \/ EmitWindows(w)
  BY <1>3, Zenon DEF TriggerWindows, TerminatePipeline, EmitWindows, CountChunk
<1>4. CASE (\E q \in probes : BeginProbe(w, q)) \/ CloseProbe(w) \/ CollectWindows(w) \/ CollectSlices(w)
  BY <1>4, Zenon DEF BeginProbe, CloseProbe, CollectWindows, CollectSlices, CountChunk
<1>5. ASSUME NEW c \in Input, BeginBuild(w, c) PROVE UNCHANGED queueVars /\ worker[w].at # "count"
  BY <1>5, Zenon DEF BeginBuild
<1>6. ASSUME NEW o \in Origin, BeginTerminate(w, o) PROVE UNCHANGED queueVars /\ worker[w].at # "count"
  BY <1>6, Zenon DEF BeginTerminate
<1>7. CountChunk(w) => worker[w].at = "count"
  BY Zenon DEF CountChunk
<1> QED
  BY <1>1, <1>2, <1>3, <1>4, <1>5, <1>6, <1>7, ZenonT(30) DEF Step

\* The chunk of a worker that builds, counts or reports it
LEMMA TaskFacts ==
  ASSUME ChunksAreHeldOnce, NEW w \in Worker, worker[w].at \in Build \cup Report
  PROVE  /\ worker[w].task \in Input /\ worker[w].task.origin \in Origin
         /\ KeyOf(w) \in Key /\ worker[w].task \in Chunks(KeyOf(w))
         /\ worker[w].task \in Ahead <=> worker[w].at \in Build
<1>1. worker[w].task \in Input
  BY Zenon DEF ChunksAreHeldOnce
<1>2. worker[w].at \in Build => worker[w].task \in Ahead
  BY Zenon DEF Ahead
<1>3. worker[w].at \in Report => worker[w].task \notin Ahead
  BY <1>1, Zenon DEF ChunksAreHeldOnce, Holds, Ahead, Build, Report
<1> QED
  BY <1>1, <1>2, <1>3, InputType, Zenon DEF KeyOf, Chunks, Key

LEMMA CountersStayExact ==
  ASSUME LibraryFacts, TypeOK, ChunksAreHeldOnce, CountersAreExact, NEW w \in Worker, Step(w)
  PROVE  CountersAreExact'
<1> SUFFICES ASSUME NEW k \in Key
             PROVE  collected'[k].counter =
                      (IF \E c \in Chunks(k) \ Ahead' : c.last THEN Cardinality(Chunks(k)) ELSE 0)
                        - Cardinality(Chunks(k) \ Ahead')
  BY Zenon DEF CountersAreExact
<1>1. collected[k].counter =
        (IF \E c \in Chunks(k) \ Ahead : c.last THEN Cardinality(Chunks(k)) ELSE 0)
          - Cardinality(Chunks(k) \ Ahead)
  BY Zenon DEF CountersAreExact
<1>2. CASE ~At(w, "count")
  <2>1. Ahead' = Ahead
    BY <1>2, AheadSteps, ZenonT(30)
  <2>2. collected'[k].counter = collected[k].counter
    <3>1. CASE UNCHANGED queueVars
      BY <3>1, Zenon DEF queueVars
    <3>2. CASE MergeWatermark(w)
      BY <3>2, ZenonT(30) DEF MergeWatermark, TypeOK
    <3>3. UpdateWatermark(w) /\ ~MergeWatermark(w) => collected' = collected
      BY <1>2, Zenon DEF UpdateWatermark, CountChunk, StoreSeq, StoreValue, ShiftCurrentValue, MoveHead,
                  ReadWatermark, queueVars
    <3> QED
      BY <3>1, <3>2, <3>3, QueueSteps, ZenonT(30)
  <2> QED
    BY <1>1, <2>1, <2>2, Zenon
<1>3. CASE At(w, "count")
  <2> DEFINE task == worker[w].task
             n == Cardinality(Chunks(k))
             counted == Chunks(k) \ Ahead
  <2>1. /\ CountChunk(w) /\ Ahead' = Ahead \ {task}
        /\ task \in Input /\ KeyOf(w) \in Key /\ task \in Chunks(KeyOf(w)) /\ task \in Ahead
    BY <1>3, QueueSteps, AheadSteps, TaskFacts, Zenon DEF At, Build
  <2>2. collected'[k].counter = IF k = KeyOf(w) THEN Counted(collected[k].counter, task)
                                ELSE collected[k].counter
    BY <2>1, ZenonT(30) DEF CountChunk, TypeOK
  <2>3. CASE k # KeyOf(w)
    <3>1. task \notin Chunks(k)
      BY <2>1, <2>3, Zenon DEF Chunks
    <3>2. Chunks(k) \ Ahead' = Chunks(k) \ Ahead
      BY <2>1, <3>1, ZenonT(30)
    <3> QED
      BY <1>1, <2>2, <2>3, <3>2, Zenon
  <2>4. CASE k = KeyOf(w)
    <3>1. Chunks(k) \ Ahead' = counted \cup {task} /\ task \notin counted
      BY <2>1, <2>4, Zenon
    <3>2. IsFiniteSet(counted) /\ Cardinality(counted) \in Nat /\ n \in Nat
      BY ChunksAreFinite, Zenon
    <3>3. Cardinality(counted \cup {task}) = Cardinality(counted) + 1
      BY <3>1, <3>2, Zenon DEF LibraryFacts, OneMore
    <3> DEFINE m == Cardinality(counted)
               newLast == \E c \in Chunks(k) \ Ahead' : c.last
               newCount == Cardinality(Chunks(k) \ Ahead')
    <3>7. newCount = m + 1
      BY <3>1, <3>3, Zenon
    <3>8. newLast <=> task.last \/ \E c \in counted : c.last
      BY <3>1, Zenon
    <3>9. SUFFICES collected'[k].counter = (IF newLast THEN n ELSE 0) - newCount
      BY Zenon
    <3>4. \A c \in counted : c \in Input /\ c # task /\ c.origin = task.origin /\ c.sn = task.sn
      BY <2>1, <2>4, Zenon DEF Chunks, KeyOf
    <3>5. CASE task.last
      <4>1. task.number = n
        BY <2>1, <2>4, <3>5, InputIsOrderly, Zenon DEF KeyOf
      <4>2. ~\E c \in counted : c.last
        BY <2>1, <3>4, <3>5, InputIsOrderly, ZenonT(30)
      <4>3. collected'[k].counter = (0 - m) + n - 1
        BY <1>1, <2>2, <2>4, <3>5, <4>1, <4>2, ZenonT(30) DEF Counted
      <4> HIDE DEF newLast, newCount, m, n
      <4> QED
        BY <3>2, <3>5, <3>7, <3>8, <4>3 DEF m, n
    <3>6. CASE ~task.last
      <4>1. collected'[k].counter = collected[k].counter - 1
        BY <2>2, <2>4, <3>6, Zenon DEF Counted
      <4>2. collected[k].counter = (IF newLast THEN n ELSE 0) - m
        BY <1>1, <3>6, <3>8, Zenon
      <4>3. m \in Nat /\ n \in Nat
        BY <3>2, Zenon
      <4> HIDE DEF newLast, newCount, m, n
      <4> QED
        BY <3>7, <4>1, <4>2, <4>3
    <3> QED
      BY <3>5, <3>6, ZenonT(30)
  <2> QED
    BY <2>3, <2>4, Zenon
<1> QED
  BY <1>2, <1>3, Zenon

\* A step that is none of the queue's: the worker does not report its chunk.
LEMMA OutsideSteps ==
  ASSUME Shape, NEW w \in Worker, Step(w), ~UpdateWatermark(w)
  PROVE  /\ Shape' /\ \A v \in Worker \ {w} : worker'[v] = worker[v]
         /\ UNCHANGED queueVars
         /\ worker[w].at \notin Report \ {"trigger"} /\ worker'[w].at \notin Report
         /\ \/ worker'[w].seen = <<>>
            \/ worker'[w].seen = worker[w].seen
                 /\ (worker'[w].at = "emit" \/ worker[w].at \notin {"trigger", "emit"})
<1> USE DEF Now, Report
<1>1. CASE FindSlice(w) \/ CreateSlice(w) \/ RegisterSlice(w) \/ InsertRecord(w)
  <2>1. Advance(w) /\ worker'[w].seen = worker[w].seen /\ worker'[w].at \in Build
    BY <1>1, BuildingAdvances, Zenon
  <2>2. UNCHANGED queueVars /\ worker[w].at \in {"find", "create", "register", "insert"}
    BY <1>1, Zenon DEF FindSlice, CreateSlice, RegisterSlice, InsertRecord, At
  <2> QED
    BY <2>1, <2>2, Zenon DEF Advance, Build
<1>2. CASE TriggerWindows(w)
  BY <1>2, TriggeringAdvances, Zenon DEF Advance, TriggerWindows, At
<1>3. CASE TerminatePipeline(w)
  BY <1>3, PipelineEndFields, Zenon DEF TerminatePipeline, At
<1>4. CASE EmitWindows(w)
  BY <1>4, IdleFields, Zenon DEF EmitWindows, At
<1>5. CASE (\E q \in probes : BeginProbe(w, q)) \/ CloseProbe(w) \/ CollectWindows(w) \/ CollectSlices(w)
  BY <1>5, ProbingIsAside, Zenon DEF Aside, Elsewhere
<1>6. ASSUME NEW c \in Input, BeginBuild(w, c)
      PROVE  /\ Shape' /\ \A v \in Worker \ {w} : worker'[v] = worker[v]
             /\ UNCHANGED queueVars /\ worker[w].at = "idle" /\ worker'[w].at \notin Report
             /\ worker'[w].seen = worker[w].seen
  <2>1. Now(w, IF c.ts = 0 THEN "merge" ELSE "find", c, worker[w].value, worker[w].seen)
    BY <1>6, BuildFields, Zenon
  <2>2. UNCHANGED queueVars /\ worker[w].at = "idle"
    BY <1>6, Zenon DEF BeginBuild, At
  <2> QED
    BY <2>1, <2>2, Zenon
<1>7. ASSUME NEW o \in Origin, BeginTerminate(w, o)
      PROVE  /\ Shape' /\ \A v \in Worker \ {w} : worker'[v] = worker[v]
             /\ UNCHANGED queueVars /\ worker[w].at = "idle" /\ worker'[w].at \notin Report
             /\ worker'[w].seen = worker[w].seen
  BY <1>7, TerminateFields, Zenon DEF BeginTerminate, At
<1> QED
  BY <1>1, <1>2, <1>3, <1>4, <1>5, <1>6, <1>7, ZenonT(30) DEF Step

LEMMA ValuesAreNaturals ==
  ASSUME NEW k, NEW v \in Values(k)
  PROVE  v \in Nat
  BY InputType DEF Values, Chunks

LEMMA ValuesStayTimestamps ==
  ASSUME TypeOK, ChunksAreHeldOnce, ValuesAreTimestamps, NEW w \in Worker, Step(w)
  PROVE  ValuesAreTimestamps'
<1>s. Shape
  BY Zenon DEF TypeOK
<1> DEFINE Slots == Key \cup {<<o, 0>> : o \in Origin}
           Others == \A v \in Worker \ {w} : worker'[v] = worker[v]
<1>q. ASSUME \A k \in Key : collected'[k].value \in Values(k),
             \A k \in Slots : slot'[k].value \in Values(k),
             Others, Storing(w)' => worker'[w].value \in Values(KeyOf(w)')
      PROVE  ValuesAreTimestamps'
  <2>1. ASSUME NEW v \in Worker, Storing(v)' PROVE worker'[v].value \in Values(KeyOf(v)')
    <3>1. CASE v = w
      BY <1>q, <2>1, <3>1, Zenon
    <3>2. CASE v # w
      BY <1>q, <2>1, <3>2, Zenon DEF ValuesAreTimestamps, Storing, KeyOf
    <3> QED
      BY <3>1, <3>2, Zenon
  <2> QED
    BY <1>q, <2>1, Zenon DEF ValuesAreTimestamps, Values
<1>c. \A k \in Key : collected[k].value \in Values(k)
  BY Zenon DEF ValuesAreTimestamps
<1>d. \A k \in Slots : slot[k].value \in Values(k)
  BY Zenon DEF ValuesAreTimestamps
<1>k. worker[w].at \in Build \cup Report => KeyOf(w) \in Key /\ worker[w].task.ts \in Values(KeyOf(w))
  BY TaskFacts, Zenon DEF Values
<1>1. CASE ~UpdateWatermark(w)
  <2>1. Others /\ UNCHANGED queueVars /\ worker'[w].at \notin Report
    BY <1>1, <1>s, OutsideSteps, Zenon
  <2>2. ~Storing(w)'
    BY <2>1, Zenon DEF Storing, Report
  <2> HIDE DEF Slots
  <2> QED
    BY <1>c, <1>d, <1>q, <2>1, <2>2, Zenon DEF queueVars
<1>2. CASE MergeWatermark(w)
  <2>1. Now(w, "count", worker[w].task, worker[w].value, worker[w].seen)
    BY <1>2, <1>s, GotoFields, Zenon DEF MergeWatermark
  <2>2. KeyOf(w) \in Key /\ worker[w].task.ts \in Values(KeyOf(w)) /\ slot' = slot
    BY <1>2, <1>k, Zenon DEF MergeWatermark, At, Build
  <2> DEFINE a == collected[KeyOf(w)].value
             b == worker[w].task.ts
  <2>3. Max({a, b}) \in {a, b}
    BY <1>c, <2>2, ValuesAreNaturals, MaxOfTwo
  <2>4. \A k \in Key : collected'[k].value = IF k = KeyOf(w) THEN Max({a, b}) ELSE collected[k].value
    BY <1>2, Zenon DEF MergeWatermark, TypeOK
  <2>5. Others /\ ~Storing(w)'
    BY <2>1, Zenon DEF Now, Storing
  <2> HIDE DEF Slots
  <2> QED
    BY <1>c, <1>d, <1>q, <2>2, <2>3, <2>4, <2>5, ZenonT(30)
<1>3. CASE CountChunk(w)
  <2> DEFINE now == Counted(collected[KeyOf(w)].counter, worker[w].task)
  <2>1. Now(w, IF now = 0 THEN "storeSeq" ELSE "read", worker[w].task,
            IF now = 0 THEN collected[KeyOf(w)].value ELSE 0, worker[w].seen)
    BY <1>3, <1>s, CountFields, Zenon
  <2>2. KeyOf(w) \in Key /\ slot' = slot
    BY <1>3, <1>k, Zenon DEF CountChunk, At, Build
  <2>3. \A k \in Key : collected'[k].value = collected[k].value
    BY <1>3, ZenonT(30) DEF CountChunk, TypeOK
  <2> HIDE DEF now, Slots
  <2>4. Others /\ KeyOf(w)' = KeyOf(w)
    BY <2>1, Zenon DEF Now, KeyOf
  <2>5. Storing(w)' => worker'[w].value = collected[KeyOf(w)].value
    BY <2>1, Zenon DEF Now, Storing
  <2> QED
    BY <1>c, <1>d, <1>q, <2>2, <2>3, <2>4, <2>5, Zenon
<1>4. CASE StoreSeq(w)
  <2>1. Now(w, "storeValue", worker[w].task, worker[w].value, worker[w].seen)
    BY <1>4, <1>s, GotoFields, Zenon DEF StoreSeq
  <2>2. worker[w].value \in Values(KeyOf(w)) /\ collected' = collected
    BY <1>4, Zenon DEF StoreSeq, At, ValuesAreTimestamps, Storing
  <2>3. \A k \in Slots : slot'[k].value = slot[k].value
    BY <1>4, ZenonT(30) DEF StoreSeq, TypeOK
  <2>4. Others /\ KeyOf(w)' = KeyOf(w) /\ worker'[w].value = worker[w].value
    BY <2>1, Zenon DEF Now, KeyOf
  <2> HIDE DEF Slots
  <2> QED
    BY <1>c, <1>d, <1>q, <2>2, <2>3, <2>4, Zenon
<1>5. CASE StoreValue(w)
  <2>1. Now(w, "shift", worker[w].task, worker[w].value, worker[w].seen)
    BY <1>5, <1>s, GotoFields, Zenon DEF StoreValue
  <2>2. worker[w].value \in Values(KeyOf(w)) /\ collected' = collected
    BY <1>5, Zenon DEF StoreValue, At, ValuesAreTimestamps, Storing
  <2>3. \A k \in Slots : slot'[k].value = IF k = KeyOf(w) THEN worker[w].value ELSE slot[k].value
    BY <1>5, ZenonT(30) DEF StoreValue, TypeOK
  <2>4. Others /\ ~Storing(w)'
    BY <2>1, Zenon DEF Now, Storing
  <2> HIDE DEF Slots
  <2> QED
    BY <1>c, <1>d, <1>q, <2>2, <2>3, <2>4, Zenon
<1>6. CASE ShiftCurrentValue(w)
  <2>1. Others /\ ~Storing(w)'
    BY <1>6, <1>s, ShiftFields, Zenon DEF Now, Storing
  <2> HIDE DEF Slots
  <2> QED
    BY <1>6, <1>c, <1>d, <1>q, <2>1, ZenonT(30) DEF ShiftCurrentValue
<1>7. CASE MoveHead(w)
  <2>1. Others /\ ~Storing(w)'
    BY <1>7, <1>s, GotoFields, SMTT(30) DEF MoveHead, Now, Storing
  <2> HIDE DEF Slots
  <2> QED
    BY <1>7, <1>c, <1>d, <1>q, <2>1, ZenonT(30) DEF MoveHead
<1>8. CASE ReadWatermark(w)
  <2> DEFINE o == Origins[Len(worker[w].seen) + 1]
             seen == Append(worker[w].seen, slot[<<o, currentSeq[o]>>].value)
  <2>1. Now(w, IF Len(seen) = Len(Origins) THEN "trigger" ELSE "read", worker[w].task,
            worker[w].value, seen)
    BY <1>8, <1>s, ReadFields, Zenon
  <2> HIDE DEF o, seen, Slots
  <2>2. Others /\ ~Storing(w)'
    BY <2>1, Zenon DEF Now, Storing
  <2> QED
    BY <1>8, <1>c, <1>d, <1>q, <2>2, ZenonT(30) DEF ReadWatermark, queueVars
<1> QED
  BY <1>1, <1>2, <1>3, <1>4, <1>5, <1>6, <1>7, <1>8, Zenon DEF UpdateWatermark

\* The worker whose count is back at zero has seen all chunks counted.
LEMMA StoredStaysComplete ==
  LibraryFacts /\ TypeOK /\ ChunksAreHeldOnce /\ CountersAreExact' /\ StoredIsComplete =>
  \A w \in Worker :
  Step(w) =>
    StoredIsComplete'
<1>CountedIsComplete.
      ASSUME LibraryFacts, CountersAreExact', ChunksAreHeldOnce, TypeOK, NEW w \in Worker, Step(w), At(w, "count"),
             collected'[KeyOf(w)].counter = 0
      PROVE  Chunks(KeyOf(w)) \cap Ahead' = {}
  <2> USE <1>CountedIsComplete
  <2> DEFINE k == KeyOf(w)
             counted == Chunks(k) \ Ahead'
             n == Cardinality(Chunks(k))
             m == Cardinality(counted)
  <2>1. k \in Key /\ worker[w].task \in counted
    BY TaskFacts, AheadSteps, Zenon DEF At, Build
  <2>2. 0 = (IF \E c \in counted : c.last THEN n ELSE 0) - m
    BY <2>1, Zenon DEF CountersAreExact
  <2>3. IsFiniteSet(counted) /\ m \in Nat /\ n \in Nat /\ (m = n => counted = Chunks(k))
    BY ChunksAreFinite, Zenon
  <2>4. m # 0
    BY <2>1, <2>3, Zenon DEF LibraryFacts, Empty
  <2>5. m = n
    <3> HIDE DEF m, n, counted
    <3> QED
      BY <2>2, <2>3, <2>4, SMTT(30)
  <2>6. counted = Chunks(k)
    BY <2>3, <2>5, Zenon
  <2> QED
    BY <2>6, Zenon
<1> SUFFICES ASSUME LibraryFacts, TypeOK, ChunksAreHeldOnce, CountersAreExact', StoredIsComplete, NEW w \in Worker, Step(w)
             PROVE  StoredIsComplete'
  OBVIOUS
<1>s. Shape
  BY Zenon DEF TypeOK
<1>a. Ahead' \subseteq Ahead
  BY AheadSteps, Zenon
<1> DEFINE Others == \A v \in Worker \ {w} : worker'[v] = worker[v]
           Passed == \A o \in Origin : \A n \in 1..currentSeq[o] : <<o, n>> \in Key /\ slot[<<o, n>>].set
           Grows == \A k \in Key : slot[k].set => slot'[k].set
<1>p. Passed
  BY Zenon DEF StoredIsComplete
<1>q. ASSUME Others, \A k \in Key : slot'[k].set => slot[k].set \/ (Storing(w) /\ k = KeyOf(w)),
             Storing(w)' => Chunks(KeyOf(w)') \cap Ahead' = {}, Passed'
      PROVE  StoredIsComplete'
  <2>1. ASSUME NEW v \in Worker, Storing(v)' PROVE Chunks(KeyOf(v)') \cap Ahead' = {}
    <3>1. CASE v = w
      BY <1>q, <2>1, <3>1, Zenon
    <3>2. CASE v # w
      <4>1. Storing(v) /\ KeyOf(v)' = KeyOf(v)
        BY <1>q, <2>1, <3>2, Zenon DEF Storing, KeyOf
      <4> QED
        BY <4>1, <1>a, Zenon DEF StoredIsComplete
    <3> QED
      BY <3>1, <3>2, Zenon
  <2>2. ASSUME NEW k \in Key, slot'[k].set PROVE Chunks(k) \cap Ahead' = {}
    BY <1>q, <2>2, <1>a, Zenon DEF StoredIsComplete
  <2>3. \A v \in Worker : Storing(v)' => (Chunks(KeyOf(v)) \cap Ahead = {})'
    BY <2>1, Zenon DEF Chunks
  <2> QED
    BY <1>q, <2>2, <2>3, Zenon DEF StoredIsComplete, Chunks
<1>r. ASSUME currentSeq' = currentSeq, Grows PROVE Passed'
  BY <1>r, <1>p, Zenon
<1> HIDE DEF Passed
<1>1. CASE ~UpdateWatermark(w)
  <2>1. Others /\ UNCHANGED queueVars /\ worker'[w].at \notin Report
    BY <1>1, <1>s, OutsideSteps, Zenon
  <2>2. ~Storing(w)'
    BY <2>1, Zenon DEF Storing, Report
  <2> QED
    BY <1>q, <1>r, <2>1, <2>2, ZenonT(30) DEF queueVars
<1>2. CASE MergeWatermark(w)
  <2>1. Others /\ ~Storing(w)'
    BY <1>2, <1>s, GotoFields, SMTT(30) DEF MergeWatermark, Now, Storing
  <2> QED
    BY <1>2, <1>q, <1>r, <2>1, Zenon DEF MergeWatermark
<1>3. CASE CountChunk(w)
  <2> DEFINE now == Counted(collected[KeyOf(w)].counter, worker[w].task)
  <2>1. Now(w, IF now = 0 THEN "storeSeq" ELSE "read", worker[w].task,
            IF now = 0 THEN collected[KeyOf(w)].value ELSE 0, worker[w].seen)
    BY <1>3, <1>s, CountFields, Zenon
  <2>2. KeyOf(w) \in Key /\ slot' = slot /\ currentSeq' = currentSeq /\ At(w, "count")
    BY <1>3, TaskFacts, Zenon DEF CountChunk, At, Build
  <2>3. collected'[KeyOf(w)].counter = now
    BY <1>3, <2>2, Zenon DEF CountChunk, TypeOK
  <2> HIDE DEF now
  <2>4. Others /\ KeyOf(w)' = KeyOf(w)
    BY <2>1, Zenon DEF Now, KeyOf
  <2>5. Storing(w)' => now = 0
    BY <2>1, Zenon DEF Now, Storing
  <2>6. Storing(w)' => Chunks(KeyOf(w)) \cap Ahead' = {}
    BY <2>2, <2>3, <2>5, <1>CountedIsComplete, ZenonT(30)
  <2> QED
    BY <1>q, <1>r, <2>2, <2>4, <2>6, ZenonT(30)
<1>4. CASE StoreSeq(w)
  <2>1. Now(w, "storeValue", worker[w].task, worker[w].value, worker[w].seen)
    BY <1>4, <1>s, GotoFields, Zenon DEF StoreSeq
  <2>2. Storing(w) /\ currentSeq' = currentSeq
    BY <1>4, Zenon DEF StoreSeq, At, Storing
  <2>3. \A k \in Key : slot'[k].set = IF k = KeyOf(w) THEN TRUE ELSE slot[k].set
    BY <1>4, ZenonT(30) DEF StoreSeq, TypeOK
  <2>4. Others /\ KeyOf(w)' = KeyOf(w)
    BY <2>1, Zenon DEF Now, KeyOf
  <2>5. Chunks(KeyOf(w)) \cap Ahead' = {}
    BY <2>2, <1>a, Zenon DEF StoredIsComplete
  <2> QED
    BY <1>q, <1>r, <2>2, <2>3, <2>4, <2>5, ZenonT(30)
<1>5. CASE StoreValue(w)
  <2>1. Others /\ ~Storing(w)'
    BY <1>5, <1>s, GotoFields DEF StoreValue, Now, Storing
  <2>2. currentSeq' = currentSeq /\ \A k \in Key : slot'[k].set = slot[k].set
    BY <1>5, Zenon DEF StoreValue, TypeOK
  <2> QED
    BY <1>q, <1>r, <2>1, <2>2, Zenon
<1>6. CASE ShiftCurrentValue(w)
  <2>1. Others /\ ~Storing(w)' /\ slot' = slot
    BY <1>6, <1>s, ShiftFields, Zenon DEF ShiftCurrentValue, Now, Storing
  <2> DEFINE o == worker[w].task.origin
  <2>2. CASE Ready(o)
    <3>1. currentSeq' = [currentSeq EXCEPT ![o] = currentSeq[o] + 1] /\ o \in Origin
      BY <1>6, <2>2, TaskFacts, Zenon DEF ShiftCurrentValue, At, Report
    <3>2. <<o, currentSeq[o] + 1>> \in Key /\ slot[<<o, currentSeq[o] + 1>>].set
      BY <2>2, Zenon DEF Ready
    <3>3. \A u \in Origin : currentSeq[u] \in Nat /\ currentSeq'[u] = IF u = o THEN currentSeq[o] + 1 ELSE currentSeq[u]
      BY <3>1, Zenon DEF TypeOK
    <3>4. ASSUME NEW u \in Origin, NEW n \in 1..currentSeq'[u] PROVE <<u, n>> \in Key /\ slot[<<u, n>>].set
      <4>1. n \in 1..currentSeq[u] \/ (u = o /\ n = currentSeq[o] + 1)
        BY <3>3
      <4> QED
        BY <1>p, <3>2, <4>1, Zenon DEF Passed
    <3>5. Passed'
      BY <2>1, <3>4, Zenon DEF Passed
    <3> QED
      BY <1>q, <2>1, <3>5, Zenon
  <2>3. CASE ~Ready(o)
    BY <1>6, <1>q, <1>r, <2>1, <2>3, Zenon DEF ShiftCurrentValue
  <2> QED
    BY <2>2, <2>3, Zenon
<1>7. CASE MoveHead(w)
  <2>1. Others /\ ~Storing(w)'
    BY <1>7, <1>s, GotoFields, SMTT(30) DEF MoveHead, Now, Storing
  <2> QED
    BY <1>7, <1>q, <1>r, <2>1, Zenon DEF MoveHead
<1>8. CASE ReadWatermark(w)
  <2> DEFINE o == Origins[Len(worker[w].seen) + 1]
             seen == Append(worker[w].seen, slot[<<o, currentSeq[o]>>].value)
  <2>1. Now(w, IF Len(seen) = Len(Origins) THEN "trigger" ELSE "read", worker[w].task,
            worker[w].value, seen)
    BY <1>8, <1>s, ReadFields, Zenon
  <2> HIDE DEF o, seen
  <2>2. Others /\ ~Storing(w)'
    BY <2>1, Zenon DEF Now, Storing
  <2> QED
    BY <1>8, <1>q, <1>r, <2>2, ZenonT(30) DEF ReadWatermark, queueVars
<1> QED
  BY <1>1, <1>2, <1>3, <1>4, <1>5, <1>6, <1>7, <1>8, ZenonT(30) DEF UpdateWatermark
LEMMA NoShiftGetsLost ==
  ASSUME TypeOK, ChunksAreHeldOnce, NoShiftIsLost, NEW w \in Worker, Step(w)
  PROVE  NoShiftIsLost'
<1>s. Shape
  BY Zenon DEF TypeOK
<1> SUFFICES ASSUME NEW o \in Origin PROVE Updating(o)' = {} => ~Ready(o)'
  BY Zenon DEF NoShiftIsLost
<1> DEFINE Others == \A v \in Worker \ {w} : worker'[v] = worker[v]
           mine == worker[w].task.origin
\* Where nothing becomes ready, only a worker that stops updating matters.
<1>k. ASSUME Others, Ready(o)' => Ready(o), w \in Updating(o) => w \in Updating(o)'
      PROVE  Updating(o)' = {} => ~Ready(o)'
  BY <1>k, Zenon DEF NoShiftIsLost, Updating
<1>j. ASSUME w \in Updating(o)' PROVE Updating(o)' = {} => ~Ready(o)'
  BY <1>j, Zenon
<1>r. ASSUME slot' = slot, currentSeq' = currentSeq PROVE Ready(o)' <=> Ready(o)
  BY <1>r, Zenon DEF Ready
<1>1. CASE ~UpdateWatermark(w)
  <2>1. Others /\ UNCHANGED queueVars /\ worker[w].at \notin Report \ {"trigger"}
    BY <1>1, <1>s, OutsideSteps, Zenon
  <2>2. w \notin Updating(o)
    BY <2>1, Zenon DEF Updating, Report
  <2> QED
    BY <1>k, <1>r, <2>1, <2>2, ZenonT(30) DEF queueVars
<1>2. CASE MergeWatermark(w) \/ CountChunk(w) \/ ReadWatermark(w)
  <2>1. Others
    BY <1>2, <1>s, GotoFields, ZenonT(30) DEF MergeWatermark, CountChunk, ReadWatermark, Now, Shape
  <2>2. w \notin Updating(o) /\ slot' = slot /\ currentSeq' = currentSeq
    BY <1>2, Zenon DEF Updating, MergeWatermark, CountChunk, ReadWatermark, At, queueVars
  <2> QED
    BY <1>k, <1>r, <2>1, <2>2, ZenonT(30)
<1>3. CASE StoreSeq(w) \/ StoreValue(w) \/ MoveHead(w)
  <2>1. PICK place \in {"storeValue", "shift"} : Now(w, place, worker[w].task, worker[w].value, worker[w].seen)
    BY <1>3, <1>s, GotoFields, ZenonT(30) DEF StoreSeq, StoreValue, MoveHead
  <2>2. CASE o = mine
    BY <2>1, <2>2, <1>j, ZenonT(30) DEF Updating, Now
  <2>3. CASE o # mine
    <3>1. w \notin Updating(o)
      BY <2>3, Zenon DEF Updating
    <3>2. \A k \in Key : k # KeyOf(w) => slot'[k] = slot[k]
      BY <1>3, Zenon DEF StoreSeq, StoreValue, MoveHead, TypeOK
    <3>3. currentSeq' = currentSeq
      BY <1>3, Zenon DEF StoreSeq, StoreValue, MoveHead
    <3>4. Ready(o)' => Ready(o)
      BY <2>3, <3>2, <3>3, Zenon DEF Ready, KeyOf
    <3> QED
      BY <1>k, <2>1, <3>1, <3>4, ZenonT(30) DEF Now
  <2> QED
    BY <2>2, <2>3, Zenon
<1>4. CASE ShiftCurrentValue(w)
  <2>1. PICK place \in {"shift", "moveHead", "read"} : \E value :
          /\ Now(w, place, worker[w].task, value, worker[w].seen)
          /\ ~Ready(mine) <=> place = "read"
    BY <1>4, <1>s, ShiftFields, Zenon
  <2>2. slot' = slot /\ (~Ready(mine) => currentSeq' = currentSeq)
        /\ (Ready(mine) => currentSeq' = [currentSeq EXCEPT ![mine] = currentSeq[mine] + 1])
    BY <1>4, Zenon DEF ShiftCurrentValue
  <2>3. CASE o = mine /\ Ready(mine)
    BY <2>1, <2>3, <1>j, Zenon DEF Updating, Now
  <2>4. CASE o = mine /\ ~Ready(mine)
    BY <2>2, <2>4, <1>r, Zenon
  <2>5. CASE o # mine
    <3>1. currentSeq'[o] = currentSeq[o]
      BY <2>2, <2>5, Zenon DEF TypeOK
    <3>2. Ready(o)' => Ready(o)
      BY <2>2, <3>1, Zenon DEF Ready
    <3>3. w \notin Updating(o)
      BY <2>5, Zenon DEF Updating
    <3> QED
      BY <1>k, <2>1, <3>2, <3>3, ZenonT(30) DEF Now
  <2> QED
    BY <2>3, <2>4, <2>5, Zenon
<1> QED
  BY <1>1, <1>2, <1>3, <1>4, ZenonT(30) DEF UpdateWatermark

-----------------------------------------------------------------------------
\* What the workers read from the queue

LEMMA AheadIsInput ==
  ASSUME TypeOK, ChunksAreHeldOnce
  PROVE  Ahead \subseteq Input
  BY ZenonT(30) DEF TypeOK, ChunksAreHeldOnce, Ahead

\* The current value is the timestamp of a sequence number before any that is
\* still to come.
LEMMA UpdatingIsTheQueues ==
  ASSUME NEW w \in Worker, Step(w), UpdateWatermark(w)
  PROVE  UNCHANGED <<storeVars, taskVars>>
<1>1. worker[w].at \in {"merge", "count", "storeSeq", "storeValue", "shift", "moveHead", "read"}
  BY Zenon DEF UpdateWatermark, MergeWatermark, CountChunk, StoreSeq, StoreValue, ShiftCurrentValue,
         MoveHead, ReadWatermark, At
<1>2. ~(FindSlice(w) \/ CreateSlice(w) \/ RegisterSlice(w) \/ InsertRecord(w))
  BY <1>1, Zenon DEF FindSlice, CreateSlice, RegisterSlice, InsertRecord, At
<1>3. ~(TriggerWindows(w) \/ TerminatePipeline(w) \/ EmitWindows(w))
  <2>1. TriggerWindows(w) => worker[w].at = "trigger"
    BY Zenon DEF TriggerWindows, At
  <2>2. ASSUME TerminatePipeline(w) PROVE worker[w].at = "terminate"
    BY <2>2, Zenon DEF TerminatePipeline, At
  <2>3. EmitWindows(w) => worker[w].at = "emit"
    BY Zenon DEF EmitWindows, At
  <2> QED
    BY <1>1, <2>1, <2>2, <2>3, ZenonT(30)
<1>4. ~(CloseProbe(w) \/ CollectWindows(w) \/ CollectSlices(w) \/ \E q \in probes : BeginProbe(w, q))
  <2>1. CloseProbe(w) => worker[w].at = "probe"
    BY Zenon DEF CloseProbe, At
  <2>2. CollectWindows(w) => worker[w].at = "gcWindows"
    BY Zenon DEF CollectWindows, At
  <2>3. CollectSlices(w) => worker[w].at = "gcSlices"
    BY Zenon DEF CollectSlices, At
  <2>4. (\E q \in probes : BeginProbe(w, q)) => worker[w].at = "idle"
    BY Zenon DEF BeginProbe, At
  <2> QED
    BY <1>1, <2>1, <2>2, <2>3, <2>4, ZenonT(30)
<1>5. ~((\E c \in Input : BeginBuild(w, c)) \/ \E o \in Origin : BeginTerminate(w, o))
  BY <1>1, Zenon DEF BeginBuild, BeginTerminate, At
<1> QED
  BY <1>2, <1>3, <1>4, <1>5, ZenonT(30) DEF Step

LEMMA SeenStaysSafe ==
  TypeOK /\ ChunksAreHeldOnce /\ ValuesAreTimestamps /\ StoredIsComplete /\ SeenIsSafe =>
  \A w \in Worker :
  Step(w) =>
    SeenIsSafe'
<1>CurrentValueIsSafe.
      ASSUME TypeOK, ChunksAreHeldOnce, ValuesAreTimestamps, StoredIsComplete, NEW o \in Origin
      PROVE  LET value == slot[<<o, currentSeq[o]>>].value
             IN  value \in Nat /\ \A c \in Ahead : c.origin = o /\ c.ts # 0 => value <= c.ts
  <2> USE <1>CurrentValueIsSafe
  <2> DEFINE n == currentSeq[o]
             value == slot[<<o, n>>].value
  <2>1. n \in Nat /\ <<o, n>> \in Key \cup {<<u, 0>> : u \in Origin}
    <3>1. n \in Nat
      BY Zenon DEF TypeOK
    <3>2. CASE n = 0
      BY <3>2
    <3>3. CASE n # 0
      BY <3>1, <3>3 DEF StoredIsComplete
    <3> QED
      BY <3>1, <3>2, <3>3, Zenon
  <2>2. value \in Values(<<o, n>>) /\ value \in Nat
    BY <2>1, ValuesAreNaturals, Zenon DEF ValuesAreTimestamps
  <2>3. ASSUME NEW c \in Ahead, c.origin = o, c.ts # 0, value # 0 PROVE value <= c.ts
    <3>1. PICK d \in Input : d.origin = o /\ d.sn = n /\ d.ts = value
      BY <2>2, <2>3, Zenon DEF Values, Chunks
    <3>2. c \in Input /\ c.sn \in Nat \ {0} /\ c \in Chunks(<<o, c.sn>>)
      BY <2>3, AheadIsInput, InputType, Zenon DEF Chunks
    <3>3. ~(c.sn \in 1..n)
      <4>1. ASSUME c.sn \in 1..n PROVE FALSE
        <5>1. <<o, c.sn>> \in Key /\ slot[<<o, c.sn>>].set
          BY <4>1, Zenon DEF StoredIsComplete
        <5>2. Chunks(<<o, c.sn>>) \cap Ahead = {}
          BY <5>1, Zenon DEF StoredIsComplete
        <5> QED
          BY <5>2, <3>2, Zenon
      <4> QED
        BY <4>1, Zenon
    <3>4. d.sn < c.sn
      BY <2>1, <3>1, <3>2, <3>3
    <3> QED
      BY <2>3, <3>1, <3>2, <3>4, TimestampsAscend, Zenon
  <2>4. ASSUME NEW c \in Ahead, c.origin = o, c.ts # 0 PROVE value <= c.ts
    <3>1. c.ts \in Nat
      BY AheadIsInput, InputType, ZenonT(30)
    <3> QED
      BY <2>2, <2>3, <2>4, <3>1
  <2> QED
    BY <2>2, <2>4, Zenon
<1> SUFFICES ASSUME TypeOK, ChunksAreHeldOnce, ValuesAreTimestamps, StoredIsComplete, SeenIsSafe,
                    NEW w \in Worker, Step(w)
             PROVE  SeenIsSafe'
  OBVIOUS
<1>s. Shape
  BY Zenon DEF TypeOK
<1>a. Ahead' \subseteq Ahead
  BY AheadSteps, Zenon
<1>o. Len(Origins) \in Nat /\ Len(Origins) # 0 /\ \A i \in 1..Len(Origins) : Origins[i] \in Origin
  BY OriginsAreListed DEF Origin
<1> DEFINE Safe(seen, place) ==
             /\ seen \in Seq(Nat)
             /\ place = "trigger" => Len(seen) = Len(Origins)
             /\ place \notin {"trigger", "emit"} => Len(seen) < Len(Origins)
             /\ \A i \in DOMAIN seen : \A c \in Ahead : c.origin = Origins[i] /\ c.ts # 0 => seen[i] <= c.ts
           Others == \A v \in Worker \ {w} : worker'[v] = worker[v]
<1>1. \A v \in Worker : Safe(worker[v].seen, worker[v].at)
  BY Zenon DEF SeenIsSafe, At
<1>2. ASSUME Others, Safe(worker'[w].seen, worker'[w].at) PROVE SeenIsSafe'
  <2>1. \A v \in Worker : Safe(worker'[v].seen, worker'[v].at)
    <3> HIDE DEF Safe
    <3> QED
      BY <1>1, <1>2, Zenon
  <2> QED
    BY <2>1, <1>a, Zenon DEF SeenIsSafe, At
<1>3. CASE ~UpdateWatermark(w)
  <2>1. /\ Others /\ worker'[w].at \notin Report
        /\ \/ worker'[w].seen = <<>>
           \/ worker'[w].seen = worker[w].seen
                /\ (worker'[w].at = "emit" \/ worker[w].at \notin {"trigger", "emit"})
    BY <1>3, <1>s, OutsideSteps, Zenon
  <2>2. worker'[w].at # "trigger"
    BY <2>1, Zenon DEF Report
  <2>3. CASE worker'[w].seen = <<>>
    <3>1. Safe(<<>>, worker'[w].at)
      BY <1>o, <2>2, SMTT(30)
    <3> HIDE DEF Safe
    <3> QED
      BY <1>2, <2>1, <2>3, <3>1, ZenonT(30)
  <2>4. CASE worker'[w].seen = worker[w].seen
               /\ (worker'[w].at = "emit" \/ worker[w].at \notin {"trigger", "emit"})
    <3>1. Safe(worker[w].seen, worker'[w].at)
      BY <1>1, <2>2, <2>4, ZenonT(30)
    <3> HIDE DEF Safe
    <3> QED
      BY <1>2, <2>1, <2>4, <3>1, ZenonT(30)
  <2> QED
    BY <2>1, <2>3, <2>4, Zenon
<1>4. CASE UpdateWatermark(w) /\ ~ReadWatermark(w)
  <2>1. UNCHANGED taskVars
    BY <1>4, UpdatingIsTheQueues, Zenon
  <2>2. /\ Advance(w) /\ worker[w].at \notin {"trigger", "emit"}
        /\ worker'[w].seen = worker[w].seen /\ worker'[w].at \notin {"trigger", "emit"}
    BY <1>4, <1>s, <2>1, UpdatingAdvances, ZenonT(30)
  <2>3. Safe(worker[w].seen, worker'[w].at)
    BY <1>1, <2>2, Zenon
  <2> HIDE DEF Safe
  <2> QED
    BY <1>2, <2>2, <2>3, Zenon DEF Advance
<1>5. CASE ReadWatermark(w)
  <2> DEFINE seen == worker[w].seen
             o == Origins[Len(seen) + 1]
             value == slot[<<o, currentSeq[o]>>].value
             new == Append(seen, value)
             place == IF Len(new) = Len(Origins) THEN "trigger" ELSE "read"
  <2>1. Now(w, place, worker[w].task, worker[w].value, new)
    BY <1>5, <1>s, ReadFields, ZenonT(30)
  <2>2. worker[w].at = "read" /\ seen \in Seq(Nat) /\ Len(seen) < Len(Origins)
    BY <1>5, <1>1, Zenon DEF ReadWatermark, At
  <2>3. o \in Origin
    BY <1>o, <2>2
  <2>4. value \in Nat /\ \A c \in Ahead : c.origin = o /\ c.ts # 0 => value <= c.ts
    <3> HIDE DEF o
    <3> QED
      BY <2>3, <1>CurrentValueIsSafe, Zenon
  <2> HIDE DEF value
  <2>5. new \in Seq(Nat) /\ Len(new) = Len(seen) + 1
    BY <2>2, <2>4
  <2>6. ASSUME NEW i \in DOMAIN new, NEW c \in Ahead, c.origin = Origins[i], c.ts # 0 PROVE new[i] <= c.ts
    <3>1. CASE i = Len(seen) + 1
      BY <2>2, <2>4, <2>6, <3>1, SMTT(30)
    <3>2. CASE i # Len(seen) + 1
      <4>1. i \in DOMAIN seen /\ new[i] = seen[i]
        BY <2>2, <2>4, <3>2
      <4> QED
        BY <1>1, <2>6, <4>1, ZenonT(30)
    <3> QED
      BY <3>1, <3>2, Zenon
  <2> HIDE DEF new, seen
  <2>7. Safe(new, place)
    BY <1>o, <2>2, <2>5, <2>6, SMTT(30)
  <2> HIDE DEF Safe, place
  <2> QED
    BY <1>2, <2>1, <2>7, Zenon DEF Now
<1> QED
  BY <1>3, <1>4, <1>5, Zenon

-----------------------------------------------------------------------------
\* The types

LEMMA TaskTypesStay ==
  ASSUME TypeOK, ChunksAreHeldOnce, NEW w \in Worker, Step(w)
  PROVE  Shape' /\ todo' \subseteq Input /\ done' \subseteq Input /\ ended' \subseteq Origin
<1>s. Shape
  BY Zenon DEF TypeOK
<1>1. Shape'
  BY <1>s, OutsideSteps, UpdatingAdvances, UpdatingIsTheQueues, ZenonT(30) DEF Advance
<1>2. todo' \subseteq todo /\ done' \subseteq done \cup Input /\ ended' \subseteq ended \cup Origin
  <2>1. ASSUME NEW c \in Input, BeginBuild(w, c) PROVE todo' \subseteq todo /\ done' = done /\ ended' = ended
    BY <2>1, Zenon DEF BeginBuild
  <2>2. ASSUME NEW o \in Origin, BeginTerminate(w, o)
        PROVE  todo' = todo /\ done' = done /\ ended' \subseteq ended \cup Origin
    BY <2>2, Zenon DEF BeginTerminate
  <2>3. CASE TerminatePipeline(w) \/ EmitWindows(w)
    BY <2>3, Zenon DEF TerminatePipeline, EmitWindows
  <2>4. CASE Advance(w) \/ Aside(w)
    BY <2>4, Zenon DEF Advance, Aside
  <2> QED
    BY <1>s, <2>1, <2>2, <2>3, <2>4, StepKinds, ZenonT(30)
<1> QED
  BY <1>1, <1>2, ZenonT(30) DEF TypeOK

LEMMA QueueTypesStay ==
  ASSUME LibraryFacts, TypeOK, ChunksAreHeldOnce, ValuesAreTimestamps, StoredIsComplete', NEW w \in Worker, Step(w)
  PROVE  /\ collected' \in [Key -> [value : Nat, counter : Int]]
         /\ slot' \in [Key \cup {<<o, 0>> : o \in Origin} -> [set : BOOLEAN, value : Nat]]
         /\ currentSeq' \in [Origin -> Nat]
         /\ \A o \in Origin : currentSeq'[o] <= Cardinality(Sequence(o))
<1> DEFINE Slots == Key \cup {<<o, 0>> : o \in Origin}
           Slot == [set : BOOLEAN, value : Nat]
           Collected == [value : Nat, counter : Int]
<1>1. collected \in [Key -> Collected] /\ slot \in [Slots -> Slot] /\ currentSeq \in [Origin -> Nat]
  BY Zenon DEF TypeOK
<1>2. worker[w].at \in Build \cup Report => KeyOf(w) \in Key /\ worker[w].task \in Input
  BY TaskFacts, Zenon
<1> HIDE DEF Slots
<1>3. collected' \in [Key -> Collected]
  <2>1. CASE MergeWatermark(w)
    <3>1. KeyOf(w) \in Key /\ worker[w].task.ts \in Nat /\ collected[KeyOf(w)].value \in Nat
      BY <1>1, <1>2, <2>1, InputType, ZenonT(30) DEF MergeWatermark, At, Build
    <3>2. Max({collected[KeyOf(w)].value, worker[w].task.ts}) \in Nat
      BY <3>1, MaxOfTwo
    <3> QED
      BY <1>1, <2>1, <3>1, <3>2, ZenonT(30) DEF MergeWatermark
  <2>2. CASE CountChunk(w)
    <3> DEFINE now == Counted(collected[KeyOf(w)].counter, worker[w].task)
    <3>1. KeyOf(w) \in Key /\ worker[w].task.number \in Nat /\ collected[KeyOf(w)].counter \in Int
      BY <1>1, <1>2, <2>2, InputType, Zenon DEF CountChunk, At, Build
    <3>2. now \in Int
      BY <3>1 DEF Counted
    <3>3. collected' = [collected EXCEPT ![KeyOf(w)].counter = now]
      BY <2>2, Zenon DEF CountChunk
    <3> HIDE DEF now
    <3> QED
      BY <1>1, <3>1, <3>2, <3>3, Zenon
  <2>3. UpdateWatermark(w) /\ ~MergeWatermark(w) /\ ~CountChunk(w) => collected' = collected
    BY Zenon DEF UpdateWatermark, StoreSeq, StoreValue, ShiftCurrentValue, MoveHead, ReadWatermark, queueVars
  <2>4. UNCHANGED queueVars => collected' = collected
    BY Zenon DEF queueVars
  <2> HIDE DEF Collected
  <2> QED
    BY <1>1, <2>1, <2>2, <2>3, <2>4, QueueSteps, ZenonT(30)
<1>4. slot' \in [Slots -> Slot]
  <2>1. CASE StoreSeq(w)
    BY <1>1, <2>1, Zenon DEF StoreSeq
  <2>2. CASE StoreValue(w)
    <3>1. worker[w].value \in Nat
      BY <2>2, ValuesAreNaturals, ZenonT(30) DEF StoreValue, At, ValuesAreTimestamps, Storing
    <3> QED
      BY <1>1, <2>2, <3>1, Zenon DEF StoreValue
  <2>3. UpdateWatermark(w) /\ ~StoreSeq(w) /\ ~StoreValue(w) => slot' = slot
    BY Zenon DEF UpdateWatermark, MergeWatermark, CountChunk, ShiftCurrentValue, MoveHead, ReadWatermark, queueVars
  <2>4. UNCHANGED queueVars => slot' = slot
    BY Zenon DEF queueVars
  <2> HIDE DEF Slot
  <2> QED
    BY <1>1, <2>1, <2>2, <2>3, <2>4, QueueSteps, ZenonT(30)
<1>5. currentSeq' \in [Origin -> Nat]
  <2>1. CASE ShiftCurrentValue(w)
    BY <1>1, <2>1, SMTT(30) DEF ShiftCurrentValue
  <2>2. UpdateWatermark(w) /\ ~ShiftCurrentValue(w) => currentSeq' = currentSeq
    BY Zenon DEF UpdateWatermark, MergeWatermark, CountChunk, StoreSeq, StoreValue, MoveHead, ReadWatermark, queueVars
  <2>3. UNCHANGED queueVars => currentSeq' = currentSeq
    BY Zenon DEF queueVars
  <2> QED
    BY <1>1, <2>1, <2>2, <2>3, QueueSteps, ZenonT(30)
<1>6. ASSUME NEW o \in Origin PROVE currentSeq'[o] <= Cardinality(Sequence(o))
  <2>1. currentSeq'[o] \in Nat /\ \A n \in 1..currentSeq'[o] : <<o, n>> \in Key
    BY <1>5, Zenon DEF StoredIsComplete
  <2> QED
    BY <2>1, CountedSequence, Zenon
<1> QED
  BY <1>3, <1>4, <1>5, <1>6, ZenonT(30) DEF Slots

LEMMA WindowEndsAreFinite ==
  ASSUME LibraryFacts
  PROVE  IsFiniteSet(WindowEnds) /\ WindowEnds \subseteq Nat
<1>1. Times \subseteq Nat /\ IsFiniteSet(Times)
  <2> DEFINE f == [c \in Input |-> c.ts]
  <2>1. f \in Surjection(Input, {c.ts : c \in Input})
    BY Zenon DEF Surjection
  <2>2. IsFiniteSet({c.ts : c \in Input})
    BY <2>1, InputIsOrderly, Zenon DEF LibraryFacts, Image
  <2> QED
    BY <2>2, InputType, Zenon DEF Times, LibraryFacts, Subset
<1>2. ASSUME NEW t \in Times PROVE IsFiniteSet(WindowsOf(t)) /\ WindowsOf(t) \subseteq Nat
  <2>1. WindowsOf(t) = ContainingWindows(WindowSize, WindowSlide, t)
    BY <1>1, WindowsEndLater, Zenon
  <2>2. /\ ContainingWindows(WindowSize, WindowSlide, t) \subseteq Nat /\ t + WindowSize \in Nat
        /\ \A e \in ContainingWindows(WindowSize, WindowSlide, t) : e <= t + WindowSize
    BY <1>1, WindowsAreValid DEF ContainingWindows
  <2> QED
    BY <2>1, <2>2, Zenon DEF LibraryFacts, Bounded
<1> DEFINE All == {WindowsOf(t) : t \in Times}
           g == [t \in Times |-> WindowsOf(t)]
<1>3. g \in Surjection(Times, All)
  BY Zenon DEF Surjection
<1>4. IsFiniteSet(All)
  BY <1>1, <1>3, Zenon DEF LibraryFacts, Image
<1>5. \A S \in All : IsFiniteSet(S) /\ S \subseteq Nat
  BY <1>2, Zenon
<1> HIDE DEF All
<1>6. IsFiniteSet(UNION All) /\ UNION All \subseteq Nat
  BY <1>4, <1>5, Zenon DEF LibraryFacts, Union
<1> QED
  BY <1>6, Zenon DEF WindowEnds, All

WindowType == [state : {"Absent", "Filling", "Waiting", "Emitted"}, slices : SUBSET SliceEnds]

LEMMA MarkedWindows ==
  ASSUME windows \in [WindowEnds -> WindowType], NEW ends,
         NEW state \in {"Absent", "Filling", "Waiting", "Emitted"}
  PROVE  /\ Marked(ends, state) \in [WindowEnds -> WindowType]
         /\ \A e \in WindowEnds : Marked(ends, state)[e].state = IF e \in ends THEN state ELSE windows[e].state
  BY Zenon DEF Marked, WindowType

LEMMA StoreTypesStay ==
  ASSUME TypeOK, ChunksAreHeldOnce, NEW w \in Worker, Step(w)
  PROVE  /\ DOMAIN slices' \subseteq SliceEnds
         /\ windows' \in [WindowEnds -> WindowType]
         /\ windowsLock' \in {{}} \cup {{v} : v \in Worker}
<1> DEFINE Locks == {{}} \cup {{v} : v \in Worker}
           Goal == DOMAIN slices' \subseteq SliceEnds /\ windows' \in [WindowEnds -> WindowType] /\ windowsLock' \in Locks
<1>1. DOMAIN slices \subseteq SliceEnds /\ windows \in [WindowEnds -> WindowType] /\ windowsLock \in Locks
  BY Zenon DEF TypeOK, WindowType
<1>2. Building(w) => SliceEnd(worker[w].task.ts) \in SliceEnds
  <2>1. Building(w) => worker[w].task.ts \in Times
    BY TaskFacts, Zenon DEF ChunksAreHeldOnce, Building, Build, Times
  <2> QED
    BY <2>1, Zenon DEF SliceEnds
<1>3. CASE UNCHANGED storeVars
  BY <1>1, <1>3, Zenon DEF storeVars
<1>4. CASE CreateSlice(w)
  <2>1. SliceEnd(worker[w].task.ts) \in SliceEnds
    BY <1>2, <1>4, Zenon DEF CreateSlice, At, Building
  <2>2. windowsLock' \in Locks
    BY <1>1, <1>4 DEF CreateSlice
  <2>3. DOMAIN slices' \subseteq DOMAIN slices \cup {SliceEnd(worker[w].task.ts)}
    BY <1>4, Zenon DEF CreateSlice
  <2>4. windows' = windows
    BY <1>4, Zenon DEF CreateSlice
  <2> QED
    BY <1>1, <2>1, <2>2, <2>3, <2>4, ZenonT(30)
<1>5. CASE RegisterSlice(w)
  <2> DEFINE end == SliceEnd(worker[w].task.ts)
  <2>1. end \in SliceEnds
    BY <1>2, <1>5, Zenon DEF RegisterSlice, At, Building
  <2>2. windows' = [e \in WindowEnds |-> IF e \in WindowsOf(worker[w].task.ts)
                       THEN [state |-> "Filling", slices |-> windows[e].slices \cup {end}] ELSE windows[e]]
    BY <1>5, Zenon DEF RegisterSlice
  <2>3. slices' = slices /\ windowsLock' = windowsLock \ {w}
    BY <1>5, Zenon DEF RegisterSlice
  <2>4. windowsLock' \in Locks
    BY <1>1, <2>3, Zenon
  <2> HIDE DEF end
  <2>5. windows' \in [WindowEnds -> WindowType]
    BY <1>1, <2>1, <2>2, Zenon DEF WindowType
  <2> QED
    BY <1>1, <2>3, <2>4, <2>5, Zenon
<1>6. CASE InsertRecord(w)
  <2>1. DOMAIN slices' = DOMAIN slices /\ windows' = windows /\ windowsLock' = windowsLock
    BY <1>6, Zenon DEF InsertRecord
  <2> QED
    BY <1>1, <2>1, Zenon
<1>7. CASE TriggerWindows(w)
  <2>1. slices' = slices /\ windowsLock' = windowsLock
        /\ (windows' = windows \/ windows' = Marked(Triggerable(Watermark(w)), "Emitted"))
    BY <1>7, Zenon DEF TriggerWindows
  <2> QED
    BY <1>1, <2>1, MarkedWindows
<1>8. CASE TerminatePipeline(w)
  <2>1. slices' = slices /\ windowsLock' = windowsLock
        /\ (windows' = Marked(Pending, "Waiting") \/ windows' = Marked(Pending, "Emitted"))
    BY <1>8, Zenon DEF TerminatePipeline
  <2> QED
    BY <1>1, <2>1, MarkedWindows
<1>9. CASE CollectWindows(w)
  <2>1. slices' = slices /\ windowsLock' = windowsLock
    BY <1>9, Zenon DEF CollectWindows
  <2>2. Absent \in WindowType
    BY Zenon DEF Absent, WindowType
  <2>3. windows' \in [WindowEnds -> WindowType]
    BY <1>1, <1>9, <2>2, Zenon DEF CollectWindows
  <2> QED
    BY <1>1, <2>1, <2>3, ZenonT(30)
<1>10. CASE CollectSlices(w)
  <2>1. DOMAIN slices' \subseteq DOMAIN slices /\ windows' = windows /\ windowsLock' = windowsLock
    BY <1>10, Zenon DEF CollectSlices
  <2> QED
    BY <1>1, <2>1, Zenon
<1>11. \/ CreateSlice(w) \/ RegisterSlice(w) \/ InsertRecord(w) \/ TriggerWindows(w)
       \/ TerminatePipeline(w) \/ CollectWindows(w) \/ CollectSlices(w)
       \/ UNCHANGED storeVars
  <2>1. CASE FindSlice(w) \/ EmitWindows(w) \/ CloseProbe(w)
    BY <2>1, Zenon DEF FindSlice, EmitWindows, CloseProbe
  <2>2. CASE \E c \in Input : BeginBuild(w, c)
    BY <2>2, Zenon DEF BeginBuild
  <2>3. CASE \E o \in Origin : BeginTerminate(w, o)
    BY <2>3, Zenon DEF BeginTerminate
  <2>4. CASE \E q \in probes : BeginProbe(w, q)
    BY <2>4, Zenon DEF BeginProbe
  <2>5. CASE UpdateWatermark(w) /\ UNCHANGED <<storeVars, taskVars>>
    BY <2>5, Zenon
  <2> QED
    BY <2>1, <2>2, <2>3, <2>4, <2>5, ZenonT(30) DEF Step
<1> HIDE DEF Goal
<1> QED
  BY <1>3, <1>4, <1>5, <1>6, <1>7, <1>8, <1>9, <1>10, <1>11, ZenonT(30) DEF Goal

-----------------------------------------------------------------------------
\* Triggering

\* Windows that end later than all triggered ones go behind them, in order: a
\* worker that triggers has read a watermark of every origin, and when the last
\* pipeline ends, no record is to come.
LEMMA TriggeredStaysPast ==
  LibraryFacts /\ TypeOK /\ ChunksAreHeldOnce /\ PipelinesEndOnce /\ SeenIsSafe /\ TriggeredIsPast /\ Ascending(emitted) =>
  \A w \in Worker :
  Step(w) =>
    emitted' \in Seq(Nat) /\ Ascending(emitted') /\ TriggeredIsPast'
<1>TriggerExtends.
      ASSUME LibraryFacts, TypeOK, Ascending(emitted), NEW w \in Worker, NEW ends \in SUBSET WindowEnds, Trigger(w, ends),
             \A i \in DOMAIN emitted : \A e \in ends : emitted[i] < e
      PROVE  /\ emitted' \in Seq(Nat) /\ Ascending(emitted')
             /\ \A i \in DOMAIN emitted' : emitted'[i] \in ends \/ \E j \in DOMAIN emitted : emitted'[i] = emitted[j]
  <2> USE <1>TriggerExtends
  <2> DEFINE n == Cardinality(ends)
             m == Len(emitted)
  <2>1. n \in Nat /\ ends \subseteq Nat
    BY WindowEndsAreFinite, ZenonT(30) DEF LibraryFacts, Subset, Count
  <2>2. PICK order \in [1..n -> ends] : Ascending(order) /\ emitted' = emitted \o order
    BY Zenon DEF Trigger
  <2> HIDE DEF n
  <2>3. order \in Seq(Nat) /\ Len(order) = n /\ emitted \in Seq(Nat) /\ m \in Nat
    <3>1. order \in [1..n -> Nat]
      BY <2>1, <2>2, Zenon
    <3>2. order \in Seq(Nat) /\ Len(order) = n
      BY <2>1, <3>1 DEF LibraryFacts, List, Length
    <3>3. emitted \in Seq(Nat) /\ m \in Nat
      BY Zenon DEF TypeOK, LibraryFacts, Length
    <3> QED
      BY <3>2, <3>3, Zenon
  <2>4. emitted' \in Seq(Nat) /\ Len(emitted') = m + n
    BY <2>2, <2>3, Zenon DEF LibraryFacts, Concat
  <2>5. ASSUME NEW i \in DOMAIN emitted'
        PROVE  \/ i \in DOMAIN emitted /\ i <= m /\ emitted'[i] = emitted[i]
               \/ i > m /\ i - m \in 1..n /\ emitted'[i] = order[i - m] /\ order[i - m] \in ends
    <3>1. i \in 1..(m + n)
      BY <2>4
    <3>2. emitted'[i] = IF i <= m THEN emitted[i] ELSE order[i - m]
      BY <2>2, <2>3, <3>1
    <3> QED
      BY <2>1, <2>2, <2>3, <3>1, <3>2
  <2>6. ASSUME NEW i \in DOMAIN emitted', NEW j \in DOMAIN emitted', i < j PROVE emitted'[i] < emitted'[j]
    <3>1. i \in Nat /\ j \in Nat
      BY <2>4
    <3>2. CASE j <= m
      <4>1. i \in DOMAIN emitted /\ j \in DOMAIN emitted /\ emitted'[i] = emitted[i] /\ emitted'[j] = emitted[j]
        BY <2>3, <2>5, <2>6, <3>1, <3>2, SMTT(30)
      <4> QED
        BY <2>6, <4>1, Zenon DEF Ascending
    <3>3. CASE i <= m /\ j > m
      BY <2>3, <2>5, <2>6, <3>1, <3>3, SMTT(30)
    <3>4. CASE i > m
      <4>1. i - m \in DOMAIN order /\ j - m \in DOMAIN order /\ i - m < j - m
        BY <2>2, <2>3, <2>5, <2>6, <3>1, <3>4
      <4>2. emitted'[i] = order[i - m] /\ emitted'[j] = order[j - m]
        BY <2>3, <2>5, <2>6, <3>1, <3>4, SMTT(30)
      <4> QED
        BY <2>2, <4>1, <4>2, Zenon DEF Ascending
    <3> QED
      BY <2>3, <3>1, <3>2, <3>3, <3>4, SMTT(30)
  <2> QED
    BY <2>4, <2>5, <2>6, ZenonT(30) DEF Ascending
<1>WatermarkIsSafe.
      ASSUME LibraryFacts, TypeOK, ChunksAreHeldOnce, SeenIsSafe, NEW w \in Worker, At(w, "trigger")
      PROVE  Watermark(w) \in Nat /\ \A c \in Ahead : c.ts # 0 => Watermark(w) <= c.ts
  <2> USE <1>WatermarkIsSafe
  <2> DEFINE seen == worker[w].seen
             S == {seen[i] : i \in DOMAIN seen}
  <2>1. seen \in Seq(Nat) /\ Len(seen) = Len(Origins)
    BY Zenon DEF SeenIsSafe
  <2>2. Origins \in Seq(Origin) /\ Len(Origins) # 0 /\ Len(Origins) \in Nat
    BY OriginsAreListed
  <2>3. S \in SUBSET Nat /\ S # {}
    <3>1. 1 \in DOMAIN seen /\ \A i \in DOMAIN seen : seen[i] \in Nat
      BY <2>1, <2>2
    <3> HIDE DEF seen
    <3> QED
      BY <3>1, Zenon
  <2>4. Watermark(w) \in Nat /\ \A n \in S : Watermark(w) <= n
    <3> HIDE DEF S
    <3>1. Watermark(w) = Min(S)
      BY Zenon DEF Watermark, S
    <3>2. Min(S) \in S /\ \A n \in S : Min(S) <= n
      BY <2>3, NaturalsHaveAMinimum, Zenon
    <3> QED
      BY <2>3, <3>1, <3>2, Zenon
  <2>5. ASSUME NEW c \in Ahead, c.ts # 0 PROVE Watermark(w) <= c.ts
    <3>1. c.ts \in Nat /\ c.origin \in Origin
      BY AheadIsInput, InputType, Zenon
    <3>2. PICK i \in DOMAIN Origins : c.origin = Origins[i]
      BY <3>1, Zenon DEF Origin
    <3>3. i \in DOMAIN seen
      BY <2>1, <2>2
    <3>4. seen[i] \in Nat /\ seen[i] \in S
      BY <2>1, <3>3, SMTT(30)
    <3>5. seen[i] <= c.ts
      BY <2>5, <3>2, <3>3, ZenonT(30) DEF SeenIsSafe
    <3> HIDE DEF S, seen
    <3> QED
      BY <2>4, <3>1, <3>4, <3>5
  <2> QED
    BY <2>4, <2>5, Zenon
<1>LastPipelineEnd.
      ASSUME LibraryFacts, TypeOK, ChunksAreHeldOnce, PipelinesEndOnce, NEW w \in Worker, At(w, "terminate"), active - 1 <= 0
      PROVE  Ahead = {}
  <2> USE <1>LastPipelineEnd
  <2> DEFINE o == worker[w].task.origin
  <2>1. o \in Open /\ o \in ended
    BY Zenon DEF PipelinesEndOnce, Open, TypeOK
  <2>2. Open \subseteq Origin /\ IsFiniteSet(Open) /\ Cardinality(Open) \in Nat
    <3>1. Open \subseteq Origin
      BY Zenon DEF Open
    <3> QED
      BY <3>1, OriginsAreFinite
  <2>3. active = Cardinality(Open)
    BY Zenon DEF PipelinesEndOnce
  <2>4. Cardinality(Open \ {o}) = Cardinality(Open) - 1 /\ IsFiniteSet(Open \ {o})
    BY <2>1, <2>2, ZenonT(30) DEF LibraryFacts, OneLess
  <2>5. Cardinality(Open \ {o}) = 0
    BY <2>2, <2>3, <2>4 DEF LibraryFacts, Count
  <2>6. Open \ {o} = {}
    BY <2>4, <2>5, ZenonT(30) DEF LibraryFacts, Empty
  <2>7. Origin \subseteq ended
    BY <2>1, <2>6, Zenon DEF Open
  <2>8. Input \subseteq done
    BY <2>7, InputType, Zenon DEF PipelinesEndOnce
  <2> QED
    BY <2>8, AheadIsInput, ZenonT(30) DEF Ahead, ChunksAreHeldOnce, Holds, TypeOK
<1> SUFFICES ASSUME LibraryFacts, TypeOK, ChunksAreHeldOnce, PipelinesEndOnce, SeenIsSafe, TriggeredIsPast, Ascending(emitted),
                    NEW w \in Worker, Step(w)
             PROVE  emitted' \in Seq(Nat) /\ Ascending(emitted') /\ TriggeredIsPast'
  OBVIOUS
<1>a. Ahead' \subseteq Ahead
  BY AheadSteps, Zenon
<1>w. windows \in [WindowEnds -> WindowType] /\ emitted \in Seq(Nat)
  BY Zenon DEF TypeOK, WindowType
<1>f. /\ \A i \in DOMAIN emitted : \A c \in Ahead : c.ts # 0 => emitted[i] < c.ts
      /\ \A i \in DOMAIN emitted : \A e \in Pending : emitted[i] < e
  BY Zenon DEF TriggeredIsPast
<1> DEFINE Goal == emitted' \in Seq(Nat) /\ Ascending(emitted') /\ TriggeredIsPast'
\* Nothing is triggered, and what becomes pending ends later.
<1>1. ASSUME emitted' = emitted,
             \A e \in Pending' : e \in Pending \/ \A i \in DOMAIN emitted : emitted[i] < e
      PROVE  Goal
  BY <1>1, <1>a, <1>w, <1>f, ZenonT(30) DEF TriggeredIsPast
\* Pending windows are triggered that end before what remains.
<1>2. ASSUME NEW ends \in SUBSET Pending, Trigger(w, ends), windows' = Marked(ends, "Emitted"),
             \A e \in ends : \A c \in Ahead : c.ts # 0 => e < c.ts,
             \A e \in ends : \A d \in Pending \ ends : e < d
      PROVE  Goal
  <2>1. ends \in SUBSET WindowEnds
    BY Zenon DEF Pending
  <2>2. /\ emitted' \in Seq(Nat) /\ Ascending(emitted')
        /\ \A i \in DOMAIN emitted' : emitted'[i] \in ends \/ \E j \in DOMAIN emitted : emitted'[i] = emitted[j]
    BY <1>2, <1>f, <2>1, <1>TriggerExtends, ZenonT(30)
  <2>3. \A e \in WindowEnds : windows'[e].state = IF e \in ends THEN "Emitted" ELSE windows[e].state
    BY <1>2, <1>w, MarkedWindows
  <2>4. Pending' \subseteq Pending \ ends
    BY <2>3, Zenon DEF Pending
  <2>5. TriggeredIsPast'
    BY <1>2, <1>a, <1>f, <2>2, <2>4, Zenon DEF TriggeredIsPast
  <2> QED
    BY <2>2, <2>5, Zenon
<1> SUFFICES Goal
  BY Zenon
<1> HIDE DEF Goal
<1>3. CASE UNCHANGED <<windows, emitted>>
  BY <1>3, <1>1, Zenon DEF Pending
<1>4. CASE RegisterSlice(w)
  <2> DEFINE ts == worker[w].task.ts
  <2>1. worker[w].task \in Ahead /\ ts # 0 /\ ts \in Nat
    BY <1>4, TaskFacts, InputType, ZenonT(30) DEF RegisterSlice, At, Build, Building, ChunksAreHeldOnce
  <2>2. emitted' = emitted /\ \A e \in WindowEnds : e \notin WindowsOf(ts) => windows'[e] = windows[e]
    BY <1>4, Zenon DEF RegisterSlice
  <2>3. ASSUME NEW e \in WindowsOf(ts), NEW i \in DOMAIN emitted PROVE emitted[i] < e
    <3>1. e \in Nat /\ ts < e
      BY <2>1, WindowsEndLater, Zenon
    <3>2. emitted[i] < ts /\ emitted[i] \in Nat
      BY <1>f, <1>w, <2>1, SMTT(30)
    <3> QED
      BY <2>1, <3>1, <3>2, SMTT(30)
  <2>4. \A e \in Pending' : e \in Pending \/ e \in WindowsOf(ts)
    BY <2>2, Zenon DEF Pending
  <2> QED
    BY <1>1, <2>2, <2>3, <2>4, ZenonT(30)
<1>5. CASE TriggerWindows(w) /\ ~UNCHANGED <<windows, emitted>>
  <2> DEFINE ends == Triggerable(Watermark(w))
  <2>1. At(w, "trigger") /\ windows' = Marked(ends, "Emitted") /\ Trigger(w, ends)
    BY <1>5, Zenon DEF TriggerWindows
  <2>2. Watermark(w) \in Nat /\ \A c \in Ahead : c.ts # 0 => Watermark(w) <= c.ts
    BY <2>1, <1>WatermarkIsSafe, Zenon
  <2>3. ends \in SUBSET Pending /\ \A e \in Pending : e \in Nat /\ (e \in ends <=> e < Watermark(w))
    BY WindowEndsAreFinite, Zenon DEF Triggerable, Pending
  <2>4. \A c \in Ahead : c.ts \in Nat
    BY AheadIsInput, InputType, Zenon
  <2> HIDE DEF ends
  <2>5. \A e \in ends : \A c \in Ahead : c.ts # 0 => e < c.ts
    BY <2>2, <2>3, <2>4
  <2>6. \A e \in ends : \A d \in Pending \ ends : e < d
    BY <2>2, <2>3
  <2> QED
    BY <1>2, <2>1, <2>3, <2>5, <2>6, ZenonT(30)
<1>6. CASE TerminatePipeline(w) /\ emitted' = emitted /\ windows' = Marked(Pending, "Waiting")
  <2>1. Pending' \subseteq Pending
    BY <1>6, <1>w, MarkedWindows DEF Pending
  <2> QED
    BY <1>6, <1>1, <2>1, Zenon
<1>7. CASE TerminatePipeline(w) /\ ~(emitted' = emitted /\ windows' = Marked(Pending, "Waiting"))
  <2>1. /\ At(w, "terminate") /\ active - 1 <= 0
        /\ windows' = Marked(Pending, "Emitted") /\ Trigger(w, Pending)
    BY <1>7, Zenon DEF TerminatePipeline
  <2>2. Ahead = {}
    BY <2>1, <1>LastPipelineEnd, Zenon
  <2> QED
    BY <1>2, <2>1, <2>2, Zenon
<1>8. CASE CollectWindows(w)
  <2>1. emitted' = emitted /\ Pending' \subseteq Pending
    <3>1. \A e \in WindowEnds : windows'[e] \in {windows[e], Absent}
      BY <1>8, <1>w, Zenon DEF CollectWindows
    <3> QED
      BY <1>8, <3>1, SMTT(30) DEF CollectWindows, Pending, Absent
  <2> QED
    BY <1>1, <2>1, Zenon
<1>9. \/ RegisterSlice(w) \/ TriggerWindows(w) \/ TerminatePipeline(w) \/ CollectWindows(w)
      \/ UNCHANGED <<windows, emitted>>
  <2>1. CASE FindSlice(w) \/ CreateSlice(w) \/ InsertRecord(w)
    BY <2>1, Zenon DEF FindSlice, CreateSlice, InsertRecord, storeVars
  <2>2. CASE \E c \in Input : BeginBuild(w, c)
    BY <2>2, Zenon DEF BeginBuild, storeVars
  <2>3. CASE \E o \in Origin : BeginTerminate(w, o)
    BY <2>3, Zenon DEF BeginTerminate, storeVars
  <2>4. CASE \E q \in probes : BeginProbe(w, q)
    BY <2>4, Zenon DEF BeginProbe, storeVars
  <2>5. CASE UpdateWatermark(w) /\ UNCHANGED <<storeVars, taskVars>>
    BY <2>5, Zenon DEF storeVars
  <2>6. CASE EmitWindows(w) \/ CloseProbe(w) \/ CollectSlices(w)
    BY <2>6, Zenon DEF EmitWindows, CloseProbe, CollectSlices, storeVars
  <2> QED
    BY <2>1, <2>2, <2>3, <2>4, <2>5, <2>6, Zenon DEF Step
<1> QED
  BY <1>3, <1>4, <1>5, <1>6, <1>7, <1>8, <1>9, ZenonT(30)

-----------------------------------------------------------------------------
\* The invariant

LEMMA InitIInv ==
  ASSUME LibraryFacts
  PROVE  Init => IInv
<1> SUFFICES ASSUME Init PROVE IInv
  BY Zenon
<1>1. worker = [w \in Worker |-> Idle] /\ \A w \in Worker : worker[w].at = "idle" /\ worker[w].seen = <<>>
  BY Zenon DEF Init, Idle
<1>2. Shape
  BY <1>1, Zenon DEF Shape, Local, Idle
<1>3. Ahead = Input
  BY <1>1, Zenon DEF Init, Ahead, Build
<1>4. \A k \in Key : collected[k] = [value |-> 0, counter |-> 0]
  BY Zenon DEF Init, QueueInit
<1>5. \A k \in Key \cup {<<o, 0>> : o \in Origin} :
        slot[k] = [set |-> k[2] = 0, value |-> 0] /\ slot[k].value = 0
  BY Zenon DEF Init, QueueInit
<1>6. \A k \in Key : ~slot[k].set
  <2> SUFFICES ASSUME NEW k \in Key PROVE ~slot[k].set
    BY Zenon
  <2>1. k[2] # 0
    BY InputType DEF Key
  <2>2. slot[k] = [set |-> FALSE, value |-> 0]
    BY <1>5, <2>1, Zenon
  <2> QED
    BY <2>2
<1>7. \A o \in Origin : currentSeq[o] = 0
  BY Zenon DEF Init, QueueInit
<1>8. emitted = <<>> /\ emitted \in Seq(Nat) /\ DOMAIN emitted = {} /\ Ascending(emitted)
  BY DEF Init, Ascending
<1>9. Open = Origin
  BY Zenon DEF Init, Open
<1>10. active \in 0..Len(Origins) /\ active = Cardinality(Open)
  BY <1>9, OriginsAreFinite, Zenon DEF Init
<1>11. TypeOK
  <2>1. collected \in [Key -> [value : Nat, counter : Int]]
    BY SMTT(30) DEF Init, QueueInit
  <2>2. slot \in [Key \cup {<<o, 0>> : o \in Origin} -> [set : BOOLEAN, value : Nat]]
    BY Zenon DEF Init, QueueInit
  <2>3. currentSeq \in [Origin -> Nat]
    BY Zenon DEF Init, QueueInit
  <2>4. ASSUME NEW o \in Origin PROVE currentSeq[o] <= Cardinality(Sequence(o))
    BY <1>7, CountedSequence, SMTT(30)
  <2>5. windows \in [WindowEnds -> [state : {"Absent", "Filling", "Waiting", "Emitted"}, slices : SUBSET SliceEnds]]
    BY Zenon DEF Init, Absent
  <2>6. DOMAIN slices \subseteq SliceEnds
    BY Zenon DEF Init
  <2>7. todo \subseteq Input /\ done \subseteq Input /\ ended \subseteq Origin
    BY Zenon DEF Init
  <2>8. windowsLock \in {{}} \cup {{w} : w \in Worker}
    BY Zenon DEF Init
  <2> QED
    BY <1>2, <1>8, <1>10, <2>1, <2>2, <2>3, <2>4, <2>5, <2>6, <2>7, <2>8, ZenonT(30) DEF TypeOK
<1>12. NoShiftIsLost
  BY <1>6, ZenonT(30) DEF NoShiftIsLost, Ready
<1>13. ChunksAreHeldOnce
  BY <1>1, ZenonT(30) DEF Init, ChunksAreHeldOnce, Building, Holds, Build, Report
<1>14. PipelinesEndOnce
  BY <1>1, <1>10, Zenon DEF Init, PipelinesEndOnce, At
<1>15. CountersAreExact
  <2> SUFFICES ASSUME NEW k \in Key
               PROVE  collected[k].counter =
                        (IF \E c \in Chunks(k) \ Ahead : c.last THEN Cardinality(Chunks(k)) ELSE 0)
                          - Cardinality(Chunks(k) \ Ahead)
    BY Zenon DEF CountersAreExact
  <2>1. Chunks(k) \ Ahead = {}
    BY <1>3, Zenon DEF Chunks
  <2>2. Cardinality(Chunks(k) \ Ahead) = 0
    BY <2>1, Zenon DEF LibraryFacts, Empty
  <2>3. ~\E c \in Chunks(k) \ Ahead : c.last
    BY <2>1, Zenon
  <2> QED
    BY <1>4, <2>2, <2>3
<1>16. ValuesAreTimestamps
  <2>1. \A k \in Key \cup {<<o, 0>> : o \in Origin} : slot[k].value = 0
    BY <1>5, Zenon
  <2>2. \A k \in Key : collected[k].value = 0
    BY <1>4
  <2>3. \A w \in Worker : ~Storing(w)
    BY <1>1, Zenon DEF Storing
  <2>4. \A k : 0 \in Values(k)
    BY Zenon DEF Values
  <2> QED
    BY <2>1, <2>2, <2>3, <2>4, ZenonT(30) DEF ValuesAreTimestamps
<1>17. StoredIsComplete
  BY <1>1, <1>6, <1>7, SMTT(30) DEF StoredIsComplete, Storing
<1>18. SeenIsSafe
  <2>1. Len(Origins) \in Nat /\ Len(Origins) # 0
    BY OriginsAreListed
  <2>2. <<>> \in Seq(Nat) /\ Len(<<>>) = 0 /\ DOMAIN <<>> = {}
    OBVIOUS
  <2>3. \A w \in Worker : worker[w].seen = <<>> /\ ~At(w, "trigger")
    BY <1>1, Zenon DEF At
  <2> SUFFICES ASSUME NEW w \in Worker
               PROVE  /\ worker[w].seen \in Seq(Nat)
                      /\ At(w, "trigger") => Len(worker[w].seen) = Len(Origins)
                      /\ worker[w].at \notin {"trigger", "emit"} => Len(worker[w].seen) < Len(Origins)
                      /\ \A i \in DOMAIN worker[w].seen : \A c \in Ahead :
                            c.origin = Origins[i] /\ c.ts # 0 => worker[w].seen[i] <= c.ts
    BY Zenon DEF SeenIsSafe
  <2>4. worker[w].seen \in Seq(Nat) /\ Len(worker[w].seen) = 0 /\ DOMAIN worker[w].seen = {}
    BY <2>2, <2>3, Zenon
  <2>5. Len(worker[w].seen) < Len(Origins)
    BY <2>1, <2>4
  <2> QED
    BY <2>3, <2>4, <2>5, Zenon
<1>19. TriggeredIsPast
  BY <1>8, Zenon DEF TriggeredIsPast
<1> QED
  BY <1>8, <1>11, <1>12, <1>13, <1>14, <1>15, <1>16, <1>17, <1>18, <1>19, ZenonT(30) DEF IInv

LEMMA StepIInv ==
  ASSUME LibraryFacts, IInv, NEW w \in Worker, Step(w)
  PROVE  IInv'
<1>1. TypeOK /\ NoShiftIsLost /\ ChunksAreHeldOnce /\ PipelinesEndOnce
  BY Zenon DEF IInv
<1>2. /\ CountersAreExact /\ ValuesAreTimestamps /\ StoredIsComplete /\ SeenIsSafe
      /\ TriggeredIsPast /\ Ascending(emitted)
  BY Zenon DEF IInv
<1>3. ChunksAreHeldOnce' /\ NoShiftIsLost'
  BY <1>1, ChunksStayHeldOnce, NoShiftGetsLost, Zenon
<1>4. PipelinesEndOnce' /\ active' \in 0..Len(Origins)
  BY <1>1, PipelinesStillEndOnce, Zenon
<1>5. CountersAreExact' /\ ValuesAreTimestamps'
  BY <1>1, <1>2, CountersStayExact, ValuesStayTimestamps, ZenonT(30)
<1>6. StoredIsComplete' /\ SeenIsSafe'
  BY <1>1, <1>2, <1>5, StoredStaysComplete, SeenStaysSafe, ZenonT(30)
<1>7. emitted' \in Seq(Nat) /\ Ascending(emitted') /\ TriggeredIsPast'
  BY <1>1, <1>2, TriggeredStaysPast, Zenon
<1>8. Shape' /\ todo' \subseteq Input /\ done' \subseteq Input /\ ended' \subseteq Origin
  BY <1>1, TaskTypesStay, Zenon
<1>9. /\ collected' \in [Key -> [value : Nat, counter : Int]]
      /\ slot' \in [Key \cup {<<o, 0>> : o \in Origin} -> [set : BOOLEAN, value : Nat]]
      /\ currentSeq' \in [Origin -> Nat]
      /\ \A o \in Origin : currentSeq'[o] <= Cardinality(Sequence(o))
  BY <1>1, <1>2, <1>6, QueueTypesStay, Zenon
<1>10. /\ DOMAIN slices' \subseteq SliceEnds
       /\ windows' \in [WindowEnds -> WindowType]
       /\ windowsLock' \in {{}} \cup {{v} : v \in Worker}
  BY <1>1, StoreTypesStay, Zenon
<1>11. TypeOK'
  BY <1>4, <1>7, <1>8, <1>9, <1>10, ZenonT(30) DEF TypeOK, WindowType
<1> QED
  BY <1>3, <1>4, <1>5, <1>6, <1>7, <1>11, ZenonT(30) DEF IInv

LEMMA Stuttering ==
  ASSUME IInv, UNCHANGED vars
  PROVE  IInv'
<1>1. /\ UNCHANGED <<worker, collected, slot, currentSeq, todo, done, ended, active>>
      /\ UNCHANGED <<slices, windows, windowsLock, emitted>>
  BY Zenon DEF vars, queueVars, storeVars, taskVars
<1>2. Ahead' = Ahead /\ Open' = Open /\ Pending' = Pending
  BY <1>1, Zenon DEF Ahead, Open, At, Pending
<1>3. TypeOK'
  BY <1>1, Zenon DEF IInv, TypeOK, Shape, Local
<1>4. NoShiftIsLost'
  BY <1>1, Zenon DEF IInv, NoShiftIsLost, Updating, Ready
<1>5. ChunksAreHeldOnce' /\ PipelinesEndOnce'
  BY <1>1, <1>2, Zenon DEF IInv, ChunksAreHeldOnce, Holds, Building, PipelinesEndOnce, At
<1>6. CountersAreExact'
  BY <1>1, <1>2, Zenon DEF IInv, CountersAreExact
<1>7. ValuesAreTimestamps' /\ StoredIsComplete'
  BY <1>1, <1>2, Zenon DEF IInv, ValuesAreTimestamps, StoredIsComplete, Storing, KeyOf
<1>8. SeenIsSafe'
  BY <1>1, <1>2, Zenon DEF IInv, SeenIsSafe, At
<1>9. TriggeredIsPast' /\ Ascending(emitted)'
  BY <1>1, <1>2, Zenon DEF IInv, TriggeredIsPast, Ascending
<1> QED
  BY <1>3, <1>4, <1>5, <1>6, <1>7, <1>8, <1>9, ZenonT(30) DEF IInv

-----------------------------------------------------------------------------
\* The probe side: slices are kept for the probe tasks

LEMMA SliceEndsAreFinite ==
  ASSUME LibraryFacts
  PROVE  /\ IsFiniteSet(SliceEnds) /\ SliceEnds \subseteq Nat
         /\ \A t \in Times : t \in Nat /\ t < SliceEnd(t)
<1>1. Times \subseteq Nat /\ IsFiniteSet(Times)
  <2> DEFINE f == [c \in Input |-> c.ts]
  <2>1. f \in Surjection(Input, {c.ts : c \in Input})
    BY Zenon DEF Surjection
  <2>2. IsFiniteSet({c.ts : c \in Input})
    BY <2>1, InputIsOrderly, Zenon DEF LibraryFacts, Image
  <2> QED
    BY <2>2, InputType, Zenon DEF Times, LibraryFacts, Subset
<1>2. ASSUME NEW t \in Times PROVE SliceEnd(t) \in Nat /\ t \in Nat /\ t < SliceEnd(t)
  <2>1. SliceMakesUpItsWindows(WindowSize, WindowSlide, t) /\ t \in Nat
    BY <1>1, WindowsAreValid, SlicesMakeUpTheirWindows, Zenon
  <2>2. t \in SliceStart(t)..(SliceEnd(t) - 1)
    BY <2>1, Zenon DEF SliceMakesUpItsWindows, SliceStart, SliceEnd
  <2>3. SliceEnd(t) \in Int
    <3>1. \A a, b \in Int : Min({a, b}) \in {a, b}
      BY MinOfTwo, Zenon
    <3>2. /\ t + WindowSlide - (t % WindowSlide) \in Int
          /\ (IF t < WindowSize THEN WindowSize ELSE t + WindowSlide - ((t - WindowSize) % WindowSlide)) \in Int
      BY <2>1, WindowsAreValid
    <3> QED
      BY <3>1, <3>2, Zenon DEF SliceEnd, getSliceEndTs
  <2> QED
    BY <2>1, <2>2, <2>3
<1> DEFINE g == [t \in Times |-> SliceEnd(t)]
<1>3. g \in Surjection(Times, SliceEnds)
  BY Zenon DEF Surjection, SliceEnds
<1>4. IsFiniteSet(SliceEnds)
  BY <1>1, <1>3, Zenon DEF LibraryFacts, Image
<1> QED
  BY <1>2, <1>4, ZenonT(30) DEF SliceEnds

LEMMA PairsAreCounted ==
  ASSUME LibraryFacts, NEW S \in SUBSET SliceEnds, NEW k
  PROVE  /\ IsFiniteSet(Pairs(k, S)) /\ Cardinality(Pairs(k, S)) = Cardinality(S) * Cardinality(S)
         /\ \A p \in Pairs(k, S) : /\ p.sn = k /\ p.left \in S /\ p.right \in S
                                   /\ p.total = Cardinality(S) * Cardinality(S)
<1> DEFINE n == Cardinality(S) * Cardinality(S)
           Pair(c) == [sn |-> k, left |-> c[1], right |-> c[2], total |-> n]
           f == [c \in S \X S |-> Pair(c)]
<1>1. IsFiniteSet(S)
  BY SliceEndsAreFinite, Zenon DEF LibraryFacts, Subset
<1>2. IsFiniteSet(S \X S) /\ Cardinality(S \X S) = Cardinality(S) * Cardinality(S)
  BY <1>1, ZenonT(30) DEF LibraryFacts, Product
<1>3. Pairs(k, S) = {[sn |-> k, left |-> l, right |-> r, total |-> n] : l, r \in S}
  BY DEF Pairs, n
<1> HIDE DEF n
<1>4. /\ \A c \in S \X S : Pair(c) \in Pairs(k, S)
      /\ \A p \in Pairs(k, S) : \E c \in S \X S : p = Pair(c)
  <2>1. ASSUME NEW l \in S, NEW r \in S
        PROVE  [sn |-> k, left |-> l, right |-> r, total |-> n] = Pair(<<l, r>>) /\ <<l, r>> \in S \X S
    BY Zenon
  <2>2. \A p \in Pairs(k, S) : \E l, r \in S : p = Pair(<<l, r>>)
    BY <1>3, <2>1
  <2>3. ASSUME NEW c \in S \X S PROVE Pair(c) \in Pairs(k, S)
    <3>1. Pair(c) = [sn |-> k, left |-> c[1], right |-> c[2], total |-> n] /\ c[1] \in S /\ c[2] \in S
      BY Zenon
    <3> QED
      BY <1>3, <3>1
  <2> HIDE DEF Pair
  <2> QED
    BY <2>1, <2>2, <2>3, ZenonT(30)
<1>5. \A c, d \in S \X S : Pair(c) = Pair(d) => c = d
  OBVIOUS
<1>6. \A p \in Pairs(k, S) : p.sn = k /\ p.left \in S /\ p.right \in S /\ p.total = n
  BY <1>4
<1> HIDE DEF Pair
<1>7. f \in Bijection(S \X S, Pairs(k, S))
  <2>1. f \in [S \X S -> Pairs(k, S)] /\ \A p \in Pairs(k, S) : \E c \in S \X S : f[c] = p
    BY <1>4, Zenon
  <2>2. \A c, d \in S \X S : f[c] = f[d] => c = d
    BY <1>5, Zenon
  <2> QED
    BY <2>1, <2>2, Zenon DEF Bijection, Injection, Surjection, IsInjective
<1>8. IsFiniteSet(Pairs(k, S)) /\ Cardinality(Pairs(k, S)) = Cardinality(S \X S)
  BY <1>2, <1>7, Zenon DEF ExistsBijection, LibraryFacts, SameCount
<1> QED
  BY <1>2, <1>6, <1>8, ZenonT(30) DEF n

\* A window is not complete while one of its tasks is to come.
LEMMA OutstandingIsIncomplete ==
  ASSUME LibraryFacts, ProbesAreCounted
  PROVE  /\ \A p \in probes \cup InHand : ~Complete(p.sn)
         /\ \A w \in Worker : \A t \in worker[w].trigger : ~Complete(t.sn)
<1>1. ASSUME NEW p \in probes \cup InHand, Complete(p.sn) PROVE FALSE
  <2> DEFINE k == p.sn
             D == {q \in probed : q.sn = k}
  <2>1. k \in DOMAIN emitted /\ p \notin probed
    BY <1>1, Zenon DEF ProbesAreCounted, ProbeTasks
  <2>2. PICK S \in SUBSET SliceEnds : \A q \in ProbeTasks : q.sn = k => q \in Pairs(k, S)
    BY <2>1, Zenon DEF ProbesAreCounted
  <2>3. p \in Pairs(k, S) /\ D \subseteq Pairs(k, S)
    BY <2>2, Zenon DEF ProbeTasks
  <2>4. PICK r \in probed : r.sn = k /\ Cardinality(D) = r.total
    BY <1>1, Zenon DEF Complete
  <2>5. r \in Pairs(k, S)
    BY <2>3, <2>4, Zenon
  <2>6. IsFiniteSet(Pairs(k, S)) /\ Cardinality(D) = Cardinality(Pairs(k, S))
    BY <2>4, <2>5, PairsAreCounted, ZenonT(30)
  <2>7. D = Pairs(k, S)
    BY <2>3, <2>6, Zenon DEF LibraryFacts, Subset
  <2> QED
    BY <2>1, <2>3, <2>7, Zenon
<1>2. \A w \in Worker : \A t \in worker[w].trigger : ~Complete(t.sn)
  BY Zenon DEF ProbesAreCounted, ProbeTasks, Complete
<1> QED
  BY <1>1, <1>2, Zenon

-----------------------------------------------------------------------------
\* What a step does to the probe side

Others(w) == \A v \in Worker \ {w} : worker'[v] = worker[v]

\* Nothing: there is no task and no triggered window in the worker's hands.
Collecting(w) == worker[w].at \in {"gcWindows", "gcSlices"}
Unprobed(w) ==
    /\ UNCHANGED <<emitted, probes, probed>>
    /\ worker[w].at \notin {"probe", "emit"} /\ worker'[w].at # "probe"
    /\ worker'[w].trigger \in {worker[w].trigger, {}}
    /\ Collecting(w)' => Collecting(w) /\ worker'[w].value = worker[w].value

\* A worker triggers windows that were not triggered before.
Triggering(w, ends) ==
    /\ worker[w].at \in {"trigger", "terminate"}
    /\ Trigger(w, ends)
    /\ ends \subseteq Pending
    /\ windows' = Marked(ends, "Emitted")
    /\ UNCHANGED <<slices, probes, probed>>

\* Only triggering adds to the triggered windows.
LEMMA TriggerKinds ==
  ASSUME NEW w \in Worker, TriggerWindows(w) \/ TerminatePipeline(w)
  PROVE  \/ \E ends \in SUBSET WindowEnds : Triggering(w, ends)
         \/ /\ Goto(w, "emit") /\ worker[w].at \in {"trigger", "terminate"}
            /\ UNCHANGED <<emitted, probes, probed>>
            /\ windows' = windows \/ windows' = Marked(Pending, "Waiting")
<1> DEFINE passed == Triggerable(Watermark(w))
<1>1. passed \subseteq Pending /\ passed \subseteq WindowEnds /\ Pending \subseteq WindowEnds
  BY Zenon DEF Triggerable, Pending
<1>2. worker[w].at \in {"trigger", "terminate"} /\ UNCHANGED <<slices, probes, probed>>
  BY Zenon DEF TriggerWindows, TerminatePipeline, At, taskVars
<1>3. CASE TriggerWindows(w)
  <2>1. CASE Trigger(w, passed) /\ windows' = Marked(passed, "Emitted")
    <3>1. Triggering(w, passed)
      BY <1>1, <1>2, <2>1, Zenon DEF Triggering
    <3> QED
      BY <1>1, <3>1, Zenon
  <2>2. CASE Goto(w, "emit") /\ UNCHANGED <<windows, emitted>>
    BY <1>2, <2>2, Zenon
  <2> QED
    BY <1>3, <2>1, <2>2, ZenonT(30) DEF TriggerWindows
<1>4. CASE TerminatePipeline(w)
  <2>1. CASE Trigger(w, Pending) /\ windows' = Marked(Pending, "Emitted")
    <3>1. Triggering(w, Pending)
      BY <1>2, <2>1, Zenon DEF Triggering
    <3> QED
      BY <1>1, <3>1, Zenon
  <2>2. CASE Goto(w, "emit") /\ windows' = Marked(Pending, "Waiting") /\ UNCHANGED emitted
    BY <1>2, <2>2, Zenon
  <2> QED
    BY <1>4, <2>1, <2>2, ZenonT(30) DEF TerminatePipeline
<1> QED
  BY <1>3, <1>4, Zenon

LEMMA ProbeKinds ==
  Shape => \A w \in Worker : Step(w) =>
    /\ Others(w)
    /\ \/ Unprobed(w)
       \/ \E ends \in SUBSET WindowEnds : Triggering(w, ends)
       \/ EmitWindows(w) \/ (\E q \in probes : BeginProbe(w, q)) \/ CloseProbe(w)
<1>GotoKeepsTrigger.
      ASSUME Shape, NEW w \in Worker, NEW place, Goto(w, place)
      PROVE  worker'[w].trigger = worker[w].trigger /\ worker'[w].at = place /\ worker'[w].value = worker[w].value
    BY <1>GotoKeepsTrigger, Zenon DEF Shape, Local, Goto
<1>UpdatingKeepsTrigger.
      ASSUME Shape, NEW w \in Worker, UpdateWatermark(w)
      PROVE  worker'[w].trigger = worker[w].trigger
  <2> USE <1>UpdatingKeepsTrigger
  <2>1. CASE MergeWatermark(w) \/ StoreSeq(w) \/ StoreValue(w) \/ MoveHead(w)
    BY <2>1, <1>GotoKeepsTrigger, Zenon DEF MergeWatermark, StoreSeq, StoreValue, MoveHead
  <2>2. CASE CountChunk(w)
    BY <2>2, Zenon DEF Shape, Local, CountChunk
  <2>3. CASE ShiftCurrentValue(w)
    <3>1. CASE Ready(worker[w].task.origin)
      <4>1. PICK place, value : worker' = [worker EXCEPT ![w].at = place, ![w].value = value]
        BY <2>3, <3>1, ZenonT(30) DEF ShiftCurrentValue
      <4> QED
        BY <4>1, Zenon DEF Shape, Local
    <3>2. CASE ~Ready(worker[w].task.origin)
      BY <2>3, <3>2, <1>GotoKeepsTrigger, Zenon DEF ShiftCurrentValue
    <3> QED
      BY <3>1, <3>2, Zenon
  <2>4. CASE ReadWatermark(w)
    BY <2>4, Zenon DEF Shape, Local, ReadWatermark
  <2> QED
    BY <2>1, <2>2, <2>3, <2>4, ZenonT(30) DEF UpdateWatermark
<1> SUFFICES ASSUME Shape, NEW w \in Worker, Step(w)
             PROVE  /\ Others(w)
                    /\ \/ Unprobed(w)
                       \/ \E ends \in SUBSET WindowEnds : Triggering(w, ends)
                       \/ EmitWindows(w) \/ (\E q \in probes : BeginProbe(w, q)) \/ CloseProbe(w)
  OBVIOUS
<1> DEFINE Goal == Others(w) /\ Unprobed(w)
<1>1. ASSUME Advance(w), worker'[w].trigger = worker[w].trigger, UNCHANGED <<emitted, probes, probed>>
      PROVE  Goal
  BY <1>1, Zenon DEF Advance, Others, Unprobed, Collecting, Build, Report
<1>2. CASE FindSlice(w) \/ CreateSlice(w) \/ RegisterSlice(w) \/ InsertRecord(w)
  <2>1. Advance(w)
    BY <1>2, BuildingAdvances, Zenon
  <2>2. \E place : Goto(w, place)
    BY <1>2, Zenon DEF FindSlice, CreateSlice, RegisterSlice, InsertRecord
  <2>3. UNCHANGED <<emitted, probes, probed>>
    BY <1>2, Zenon DEF FindSlice, CreateSlice, RegisterSlice, InsertRecord, storeVars, taskVars
  <2> QED
    BY <1>1, <2>1, <2>2, <2>3, <1>GotoKeepsTrigger, ZenonT(30)
<1>3. CASE UpdateWatermark(w) /\ UNCHANGED <<storeVars, taskVars>>
  <2>1. Advance(w) /\ UNCHANGED <<emitted, probes, probed>>
    BY <1>3, UpdatingAdvances, Zenon DEF storeVars, taskVars
  <2> QED
    BY <1>1, <1>3, <2>1, <1>UpdatingKeepsTrigger, ZenonT(30)
<1>4. ASSUME NEW c \in Input, BeginBuild(w, c) PROVE Goal
  <2>1. Now(w, IF c.ts = 0 THEN "merge" ELSE "find", c, worker[w].value, worker[w].seen)
    BY <1>4, BuildFields, Zenon
  <2>2. worker'[w].trigger = worker[w].trigger
    BY <1>4, Zenon DEF Shape, Local, BeginBuild
  <2>3. worker[w].at = "idle" /\ UNCHANGED <<emitted, probes, probed>>
    BY <1>4, Zenon DEF BeginBuild, At, storeVars
  <2> QED
    BY <2>1, <2>2, <2>3, ZenonT(30) DEF Now, Others, Unprobed, Collecting
<1>5. ASSUME NEW o \in Origin, BeginTerminate(w, o) PROVE Goal
  <2>1. Now(w, "terminate", [origin |-> o, sn |-> 0], worker[w].value, worker[w].seen)
    BY <1>5, TerminateFields, Zenon
  <2>2. worker'[w].trigger = worker[w].trigger
    BY <1>5, Zenon DEF Shape, Local, BeginTerminate
  <2>3. worker[w].at = "idle" /\ UNCHANGED <<emitted, probes, probed>>
    BY <1>5, Zenon DEF BeginTerminate, At, storeVars
  <2> QED
    BY <2>1, <2>2, <2>3, ZenonT(30) DEF Now, Others, Unprobed, Collecting
<1>6. ASSUME Goto(w, "emit"), worker[w].at \in {"trigger", "terminate"}, UNCHANGED <<emitted, probes, probed>>
      PROVE  Goal
  BY <1>6, GotoFields, <1>GotoKeepsTrigger DEF Now, Others, Unprobed, Collecting
<1>7. ASSUME NEW ends \in SUBSET WindowEnds, Triggering(w, ends) PROVE Others(w)
  BY <1>7, TriggerFields, Zenon DEF Triggering, Now, Others
<1>8. CASE TriggerWindows(w) \/ TerminatePipeline(w)
  BY <1>6, <1>7, <1>8, TriggerKinds, Zenon
<1>9. CASE CollectWindows(w)
  BY <1>9, GotoFields, <1>GotoKeepsTrigger
     DEF CollectWindows, At, taskVars, Now, Others, Unprobed, Collecting
<1>10. CASE CollectSlices(w)
  <2>1. Now(w, "idle", NoTask, 0, <<>>) /\ worker'[w].trigger = {}
    BY <1>10, IdleFields, Zenon DEF CollectSlices, Shape, Idle
  <2>2. worker[w].at = "gcSlices" /\ UNCHANGED <<emitted, probes, probed>>
    BY <1>10, Zenon DEF CollectSlices, At, taskVars
  <2> QED
    BY <2>1, <2>2, Zenon DEF Now, Others, Unprobed, Collecting
<1>11. CASE EmitWindows(w)
  BY <1>11, IdleFields, Zenon DEF EmitWindows, Now, Others
<1>12. ASSUME NEW q \in probes, BeginProbe(w, q) PROVE Others(w)
  BY <1>12, ProbeFields, Zenon DEF Now, Others
<1>13. CASE CloseProbe(w)
  BY <1>13, CloseFields, Zenon DEF Now, Others
<1> QED
  BY <1>2, <1>3, <1>4, <1>5, <1>8, <1>9, <1>10, <1>11, <1>12, <1>13, ZenonT(30) DEF Step

-----------------------------------------------------------------------------
\* The tasks of the probe side

LEMMA HandSteps ==
  ASSUME NEW w \in Worker, Others(w)
  PROVE  \A p : p \in InHand' <=> \/ \E v \in Worker \ {w} : At(v, "probe") /\ worker[v].task = p
                                  \/ worker'[w].at = "probe" /\ worker'[w].task = p
<1>1. \A v \in Worker \ {w} : worker'[v] = worker[v]
  BY Zenon DEF Others
<1>2. \A p : p \in InHand' <=> \E v \in Worker : worker'[v].at = "probe" /\ worker'[v].task = p
  BY Zenon DEF InHand, At
<1> QED
  BY <1>1, <1>2, Zenon DEF At

LEMMA InHandIs ==
  \A p : p \in InHand <=> \E v \in Worker : At(v, "probe") /\ worker[v].task = p
  BY Zenon DEF InHand

\* Triggered windows have numbers of their own, and the slices they had.
LEMMA TriggerNumbers ==
  ASSUME LibraryFacts, TypeOK, NEW w \in Worker, NEW ends \in SUBSET WindowEnds, Triggering(w, ends)
  PROVE  /\ DOMAIN emitted \subseteq DOMAIN emitted'
         /\ \A i \in DOMAIN emitted : emitted'[i] = emitted[i]
         /\ worker'[w].at = "emit"
         /\ \A t \in worker'[w].trigger :
              /\ t.sn \in DOMAIN emitted' /\ t.sn \notin DOMAIN emitted
              /\ emitted'[t.sn] \in ends /\ t.slices = windows[emitted'[t.sn]].slices
         /\ \A t, u \in worker'[w].trigger : t.sn = u.sn => t = u
         /\ \A e \in ends : \E i \in DOMAIN emitted' : emitted'[i] = e
<1> DEFINE n == Cardinality(ends)
           m == Len(emitted)
<1>1. n \in Nat /\ ends \subseteq Nat /\ IsFiniteSet(ends)
  BY WindowEndsAreFinite, ZenonT(30) DEF LibraryFacts, Subset, Count
<1>2. PICK order \in [1..n -> ends] :
        /\ Ascending(order) /\ emitted' = emitted \o order
        /\ worker' = [worker EXCEPT ![w].at = "emit",
              ![w].trigger = {[sn |-> m + i, slices |-> windows[order[i]].slices] : i \in DOMAIN order}]
  BY Zenon DEF Triggering, Trigger
<1>a. {order[i] : i \in 1..n} = ends
  <2> DEFINE I == {order[i] : i \in 1..n}
  <2>1. I \subseteq ends
    BY <1>2, Zenon
  <2>2. ASSUME NEW i \in 1..n, NEW j \in 1..n, order[i] = order[j] PROVE i = j
    <3>1. order[i] \in Nat /\ order[j] \in Nat /\ i \in Int /\ j \in Int /\ DOMAIN order = 1..n
      BY <1>1, <1>2
    <3> QED
      BY <1>2, <2>2, <3>1 DEF Ascending
  <2>3. order \in [1..n -> I] /\ \A e \in I : \E i \in 1..n : order[i] = e
    BY <1>2, Zenon
  <2>4. ExistsBijection(1..n, I)
    <3> HIDE DEF I, n
    <3> QED
      BY <2>2, <2>3, Zenon DEF ExistsBijection, Bijection, Injection, Surjection, IsInjective
  <2>5. IsFiniteSet(1..n) /\ Cardinality(1..n) = n
    BY <1>1 DEF LibraryFacts, Interval
  <2>6. Cardinality(I) = n
    BY <2>4, <2>5, ZenonT(30) DEF LibraryFacts, SameCount
  <2> QED
    BY <1>1, <2>1, <2>6, ZenonT(30) DEF LibraryFacts, Subset
<1> HIDE DEF n
<1>3. order \in Seq(Nat) /\ Len(order) = n /\ DOMAIN order = 1..n /\ emitted \in Seq(Nat) /\ m \in Nat
  <2>1. order \in [1..n -> Nat]
    BY <1>1, <1>2, Zenon
  <2>2. order \in Seq(Nat) /\ Len(order) = n
    BY <1>1, <2>1 DEF LibraryFacts, List, Length
  <2>3. emitted \in Seq(Nat) /\ m \in Nat
    BY Zenon DEF TypeOK, LibraryFacts, Length
  <2> QED
    BY <2>1, <2>2, <2>3, ZenonT(30)
<1>4. emitted' \in Seq(Nat) /\ Len(emitted') = m + n
  BY <1>2, <1>3, ZenonT(30) DEF LibraryFacts, Concat
<1>5. /\ DOMAIN emitted = 1..m /\ DOMAIN emitted' = 1..(m + n)
      /\ \A i \in 1..m : emitted'[i] = emitted[i]
      /\ \A i \in 1..n : m + i \in 1..(m + n) /\ m + i \notin 1..m /\ emitted'[m + i] = order[i]
  <2>1. DOMAIN emitted = 1..m /\ DOMAIN emitted' = 1..(m + n)
    BY <1>3, <1>4
  <2>2. ASSUME NEW i \in 1..m PROVE emitted'[i] = emitted[i]
    BY <1>1, <1>2, <1>3, <2>2
  <2>3. ASSUME NEW i \in 1..n
        PROVE  m + i \in 1..(m + n) /\ m + i \notin 1..m /\ emitted'[m + i] = order[i]
    <3>1. m + i \in 1..(m + n) /\ ~(m + i <= m) /\ (m + i) - m = i
      BY <1>1, <1>3
    <3> QED
      BY <1>2, <1>3, <3>1
  <2> QED
    BY <2>1, <2>2, <2>3, Zenon
<1>6. /\ worker'[w].at = "emit"
      /\ worker'[w].trigger = {[sn |-> m + i, slices |-> windows[order[i]].slices] : i \in 1..n}
  <2> DEFINE T == {[sn |-> m + i, slices |-> windows[order[i]].slices] : i \in DOMAIN order}
  <2>1. worker' = [worker EXCEPT ![w].at = "emit", ![w].trigger = T]
    BY <1>2, Zenon
  <2>2. T = {[sn |-> m + i, slices |-> windows[order[i]].slices] : i \in 1..n}
    BY <1>3, Zenon
  <2> HIDE DEF T
  <2>3. worker'[w].at = "emit" /\ worker'[w].trigger = T
    BY <2>1, ZenonT(30) DEF TypeOK, Shape, Local
  <2> QED
    BY <2>2, <2>3, Zenon
<1>7. \A t \in worker'[w].trigger : \E i \in 1..n : t.sn = m + i /\ t = [sn |-> m + i, slices |-> windows[order[i]].slices]
  BY <1>6
<1>8. ASSUME NEW t \in worker'[w].trigger
      PROVE  /\ t.sn \in DOMAIN emitted' /\ t.sn \notin DOMAIN emitted
             /\ emitted'[t.sn] \in ends /\ t.slices = windows[emitted'[t.sn]].slices
  <2>1. PICK i \in 1..n : t.sn = m + i /\ t.slices = windows[order[i]].slices
    BY <1>7
  <2>2. order[i] \in ends
    BY <1>2, Zenon
  <2> QED
    BY <1>5, <2>1, <2>2, Zenon
<1>9. ASSUME NEW t \in worker'[w].trigger, NEW u \in worker'[w].trigger, t.sn = u.sn PROVE t = u
  <2>1. PICK i \in 1..n : t.sn = m + i /\ t = [sn |-> m + i, slices |-> windows[order[i]].slices]
    BY <1>7, Zenon
  <2>2. PICK j \in 1..n : u.sn = m + j /\ u = [sn |-> m + j, slices |-> windows[order[j]].slices]
    BY <1>7, Zenon
  <2>3. i = j
    <3>1. m + i = m + j
      BY <1>9, <2>1, <2>2, ZenonT(30)
    <3>2. i \in Int /\ j \in Int /\ m \in Int
      BY <1>1, <1>3
    <3> HIDE DEF m
    <3> QED
      BY <3>1, <3>2
  <2> QED
    BY <2>1, <2>2, <2>3, Zenon
<1>10. ASSUME NEW e \in ends PROVE \E i \in DOMAIN emitted' : emitted'[i] = e
  <2>1. PICK i \in 1..n : order[i] = e
    BY <1>a, Zenon
  <2> QED
    BY <1>5, <2>1, ZenonT(30)
<1>11. DOMAIN emitted \subseteq DOMAIN emitted' /\ \A i \in DOMAIN emitted : emitted'[i] = emitted[i]
  BY <1>1, <1>3, <1>5
<1> QED
  BY <1>6, <1>8, <1>9, <1>10, <1>11, ZenonT(30)

LEMMA ProbesStayCounted ==
  ASSUME LibraryFacts, TypeOK, ProbesAreCounted, NEW w \in Worker, Step(w)
  PROVE  ProbesAreCounted'
<1>s. Shape /\ windows \in [WindowEnds -> WindowType]
  BY Zenon DEF TypeOK, WindowType
<1>o. \A v \in Worker \ {w} : worker'[v] = worker[v]
  BY <1>s, ProbeKinds, Zenon DEF Others
<1>h. Others(w)
  BY <1>o, Zenon DEF Others
<1> DEFINE Hand(p) == \E v \in Worker \ {w} : At(v, "probe") /\ worker[v].task = p
<1>i. \A p : p \in InHand' <=> Hand(p) \/ (worker'[w].at = "probe" /\ worker'[w].task = p)
  BY <1>h, HandSteps, Zenon
<1>j. \A p : p \in InHand <=> Hand(p) \/ (worker[w].at = "probe" /\ worker[w].task = p)
  BY InHandIs, Zenon DEF At
<1>c1. \A v \in Worker : worker[v].at # "emit" => worker[v].trigger = {}
  BY Zenon DEF ProbesAreCounted, At
<1>c2. \A v \in Worker : \A t \in worker[v].trigger :
          /\ t.sn \in DOMAIN emitted /\ t.slices \subseteq SliceEnds
          /\ \A p \in ProbeTasks : p.sn # t.sn
          /\ \A x \in Worker : \A u \in worker[x].trigger : u.sn = t.sn => x = v /\ u = t
  BY Zenon DEF ProbesAreCounted
<1>c3. \A p \in ProbeTasks : p.sn \in DOMAIN emitted
  BY Zenon DEF ProbesAreCounted
<1>c4. \A k \in DOMAIN emitted : \E ends \in SUBSET SliceEnds :
          \A p \in ProbeTasks : p.sn = k => p \in Pairs(k, ends)
  BY Zenon DEF ProbesAreCounted
<1>c5. (probes \cup InHand) \cap probed = {} /\ probes \cap InHand = {}
  BY Zenon DEF ProbesAreCounted
<1>c6. \A v, x \in Worker : worker[v].at = "probe" /\ worker[x].at = "probe" /\ worker[v].task = worker[x].task => v = x
  BY Zenon DEF ProbesAreCounted, At
<1> HIDE DEF Hand
\* What is to show, without the primes on defined operators.
<1> DEFINE Tasks == (probes \cup InHand \cup probed)'
<1> DEFINE Goal ==
           /\ \A v \in Worker : worker'[v].at # "emit" => worker'[v].trigger = {}
           /\ \A v \in Worker : \A t \in worker'[v].trigger :
                 /\ t.sn \in DOMAIN emitted' /\ t.slices \subseteq SliceEnds
                 /\ \A p \in Tasks : p.sn # t.sn
                 /\ \A x \in Worker : \A u \in worker'[x].trigger : u.sn = t.sn => x = v /\ u = t
           /\ \A p \in Tasks : p.sn \in DOMAIN emitted'
           /\ \A k \in DOMAIN emitted' : \E ends \in SUBSET SliceEnds :
                 \A p \in Tasks : p.sn = k => p \in Pairs(k, ends)
           /\ ((probes \cup InHand) \cap probed = {} /\ probes \cap InHand = {})'
           /\ \A v, x \in Worker : worker'[v].at = "probe" /\ worker'[x].at = "probe" /\ worker'[v].task = worker'[x].task => v = x
<1> SUFFICES Goal
  BY Zenon DEF ProbesAreCounted, ProbeTasks, At
\* The tasks stay the same, and so do the numbers and what is to be emitted.
<1>1. ASSUME emitted' = emitted, Tasks = ProbeTasks,
             \A v \in Worker : worker'[v].trigger \in {worker[v].trigger, {}},
             worker[w].at # "emit"
      PROVE  /\ \A v \in Worker : worker'[v].at # "emit" => worker'[v].trigger = {}
             /\ \A v \in Worker : \A t \in worker'[v].trigger :
                   /\ t.sn \in DOMAIN emitted' /\ t.slices \subseteq SliceEnds
                   /\ \A p \in Tasks : p.sn # t.sn
                   /\ \A x \in Worker : \A u \in worker'[x].trigger : u.sn = t.sn => x = v /\ u = t
             /\ \A p \in Tasks : p.sn \in DOMAIN emitted'
             /\ \A k \in DOMAIN emitted' : \E ends \in SUBSET SliceEnds :
                   \A p \in Tasks : p.sn = k => p \in Pairs(k, ends)
  <2> HIDE DEF Tasks
  <2>1. ASSUME NEW v \in Worker, worker'[v].at # "emit" PROVE worker'[v].trigger = {}
    BY <1>1, <1>o, <1>c1, <2>1, ZenonT(30)
  <2>2. \A v \in Worker : \A t \in worker'[v].trigger : t \in worker[v].trigger
    BY <1>1, Zenon
  <2>3. ASSUME NEW v \in Worker, NEW t \in worker'[v].trigger
        PROVE  /\ t.sn \in DOMAIN emitted' /\ t.slices \subseteq SliceEnds
               /\ \A p \in Tasks : p.sn # t.sn
               /\ \A x \in Worker : \A u \in worker'[x].trigger : u.sn = t.sn => x = v /\ u = t
    BY <1>1, <1>c2, <2>2, ZenonT(30)
  <2> QED
    BY <1>1, <1>c3, <1>c4, <2>1, <2>3, ZenonT(30)
<1>2. CASE Unprobed(w)
  <2>1. /\ emitted' = emitted /\ probes' = probes /\ probed' = probed
        /\ worker[w].at \notin {"probe", "emit"} /\ worker'[w].at # "probe"
        /\ worker'[w].trigger \in {worker[w].trigger, {}}
    BY <1>2, ZenonT(30) DEF Unprobed
  <2>2. InHand' = InHand
    BY <1>i, <1>j, <2>1, ZenonT(30)
  <2>3. Tasks = ProbeTasks
    BY <2>1, <2>2, Zenon DEF ProbeTasks
  <2>4. \A v \in Worker : worker'[v].trigger \in {worker[v].trigger, {}}
    BY <1>o, <2>1, Zenon
  <2>5. \A v, x \in Worker : worker'[v].at = "probe" /\ worker'[x].at = "probe" /\ worker'[v].task = worker'[x].task => v = x
    BY <1>o, <1>c6, <2>1, ZenonT(30)
  <2> HIDE DEF Tasks
  <2> QED
    BY <1>1, <1>c5, <2>1, <2>2, <2>3, <2>4, <2>5, ZenonT(30)
<1>3. ASSUME NEW ends \in SUBSET WindowEnds, Triggering(w, ends) PROVE Goal
  <2>1. probes' = probes /\ probed' = probed /\ worker[w].at \in {"trigger", "terminate"} /\ ends \subseteq WindowEnds
    BY <1>3, Zenon DEF Triggering
  <2>2. /\ DOMAIN emitted \subseteq DOMAIN emitted'
        /\ worker'[w].at = "emit"
        /\ \A t \in worker'[w].trigger :
              /\ t.sn \in DOMAIN emitted' /\ t.sn \notin DOMAIN emitted
              /\ emitted'[t.sn] \in ends /\ t.slices = windows[emitted'[t.sn]].slices
        /\ \A t, u \in worker'[w].trigger : t.sn = u.sn => t = u
    BY <1>3, TriggerNumbers, ZenonT(30)
  <2>3. InHand' = InHand
    BY <1>i, <1>j, <2>1, <2>2, ZenonT(30)
  <2>4. Tasks = ProbeTasks
    BY <2>1, <2>3, ZenonT(30) DEF ProbeTasks
  <2> HIDE DEF Tasks
  <2>5. \A v \in Worker : worker'[v].at # "emit" => worker'[v].trigger = {}
    BY <1>o, <1>c1, <2>2, ZenonT(30)
  <2>6. \A t \in worker'[w].trigger : t.slices \subseteq SliceEnds
    <3>1. \A e \in WindowEnds : windows[e].slices \subseteq SliceEnds
      BY <1>s, Zenon DEF WindowType
    <3> QED
      BY <2>2, <3>1, ZenonT(30)
  <2>7. ASSUME NEW v \in Worker, NEW t \in worker'[v].trigger
        PROVE  /\ t.sn \in DOMAIN emitted' /\ t.slices \subseteq SliceEnds
               /\ \A p \in Tasks : p.sn # t.sn
    <3>1. CASE v = w
      BY <1>c3, <2>2, <2>4, <2>6, <3>1, ZenonT(30)
    <3>2. CASE v # w
      BY <1>o, <1>c2, <2>2, <2>4, <3>2, ZenonT(30)
    <3> QED
      BY <3>1, <3>2, ZenonT(30)
  <2>8. ASSUME NEW v \in Worker, NEW t \in worker'[v].trigger,
               NEW x \in Worker, NEW u \in worker'[x].trigger, u.sn = t.sn
        PROVE  x = v /\ u = t
    <3>1. CASE v = w /\ x = w
      BY <2>2, <2>8, <3>1, ZenonT(30)
    <3>2. CASE v = w /\ x # w
      BY <1>o, <1>c2, <2>2, <2>8, <3>2, ZenonT(30)
    <3>3. CASE v # w /\ x = w
      BY <1>o, <1>c2, <2>2, <2>8, <3>3, ZenonT(30)
    <3>4. CASE v # w /\ x # w
      BY <1>o, <1>c2, <2>8, <3>4, ZenonT(30)
    <3> QED
      BY <3>1, <3>2, <3>3, <3>4, ZenonT(30)
  <2>9. ASSUME NEW k \in DOMAIN emitted'
        PROVE  \E S \in SUBSET SliceEnds : \A p \in Tasks : p.sn = k => p \in Pairs(k, S)
    <3>1. CASE k \in DOMAIN emitted
      BY <1>c4, <2>4, <3>1, ZenonT(30)
    <3>2. CASE k \notin DOMAIN emitted
      <4>1. {} \in SUBSET SliceEnds /\ \A p \in Tasks : p.sn # k
        BY <1>c3, <2>4, <3>2, Zenon
      <4> QED
        BY <4>1, Zenon
    <3> QED
      BY <3>1, <3>2, ZenonT(30)
  <2>10. \A v, x \in Worker : worker'[v].at = "probe" /\ worker'[x].at = "probe" /\ worker'[v].task = worker'[x].task => v = x
    BY <1>o, <1>c6, <2>2, ZenonT(30)
  <2>11. \A p \in Tasks : p.sn \in DOMAIN emitted'
    BY <1>c3, <2>2, <2>4, Zenon
  <2> QED
    BY <1>c5, <2>1, <2>3, <2>5, <2>7, <2>8, <2>9, <2>10, <2>11, ZenonT(30)
<1>4. CASE EmitWindows(w)
  <2> DEFINE N == UNION {Pairs(t.sn, t.slices) : t \in worker[w].trigger}
  <2>1. /\ worker[w].at = "emit" /\ probes' = probes \cup N
        /\ probed' = probed /\ emitted' = emitted
    BY <1>4, Zenon DEF EmitWindows, At, storeVars
  <2>2. worker'[w].at = "idle" /\ worker'[w].trigger = {}
    BY <1>4, <1>s, Zenon DEF EmitWindows, Idle, Shape
  <2>3. InHand' = InHand
    BY <1>i, <1>j, <2>1, <2>2, ZenonT(30)
  <2>4. Tasks = ProbeTasks \cup N
    BY <2>1, <2>3, Zenon DEF ProbeTasks
  <2>5. ASSUME NEW p \in N PROVE \E t \in worker[w].trigger : p.sn = t.sn /\ p \in Pairs(t.sn, t.slices)
    <3>1. PICK t \in worker[w].trigger : p \in Pairs(t.sn, t.slices)
      BY Zenon
    <3>2. t.slices \in SUBSET SliceEnds
      BY <1>c2, Zenon
    <3>3. p.sn = t.sn
      BY <3>1, <3>2, PairsAreCounted
    <3> QED
      BY <3>1, <3>3, Zenon
  <2> HIDE DEF Tasks, N
  <2>6. \A v \in Worker : worker'[v].at # "emit" => worker'[v].trigger = {}
    BY <1>o, <1>c1, <2>2, Zenon
  <2>7. ASSUME NEW v \in Worker, NEW t \in worker'[v].trigger PROVE v # w /\ t \in worker[v].trigger
    BY <1>o, <2>2, Zenon
  <2>8. ASSUME NEW v \in Worker, NEW t \in worker'[v].trigger
        PROVE  /\ t.sn \in DOMAIN emitted' /\ t.slices \subseteq SliceEnds
               /\ \A p \in Tasks : p.sn # t.sn
               /\ \A x \in Worker : \A u \in worker'[x].trigger : u.sn = t.sn => x = v /\ u = t
    <3>1. ASSUME NEW p \in N PROVE p.sn # t.sn
      <4>1. PICK s \in worker[w].trigger : p.sn = s.sn
        BY <2>5, Zenon
      <4> QED
        BY <1>c2, <2>7, <4>1, Zenon
    <3> QED
      BY <1>c2, <2>1, <2>4, <2>7, <3>1, ZenonT(30)
  <2>9. \A p \in Tasks : p.sn \in DOMAIN emitted'
    BY <1>c2, <1>c3, <2>1, <2>4, <2>5, ZenonT(30)
  <2>10. ASSUME NEW k \in DOMAIN emitted'
        PROVE  \E S \in SUBSET SliceEnds : \A p \in Tasks : p.sn = k => p \in Pairs(k, S)
    <3>1. ASSUME NEW t \in worker[w].trigger, t.sn = k
          PROVE  \A p \in Tasks : p.sn = k => p \in Pairs(k, t.slices)
      <4>1. ASSUME NEW p \in N, p.sn = k PROVE p \in Pairs(k, t.slices)
        <5>1. PICK s \in worker[w].trigger : p.sn = s.sn /\ p \in Pairs(s.sn, s.slices)
          BY <2>5, Zenon
        <5>2. s = t
          BY <1>c2, <3>1, <4>1, <5>1, ZenonT(30)
        <5> QED
          BY <3>1, <5>1, <5>2, ZenonT(30)
      <4>2. \A p \in ProbeTasks : p.sn # k
        BY <1>c2, <3>1, Zenon
      <4> QED
        BY <2>4, <4>1, <4>2, ZenonT(30)
    <3>2. CASE \E t \in worker[w].trigger : t.sn = k
      <4>1. PICK t \in worker[w].trigger : t.sn = k
        BY <3>2, Zenon
      <4>2. t.slices \in SUBSET SliceEnds
        BY <1>c2, Zenon
      <4> QED
        BY <3>1, <4>1, <4>2, ZenonT(30)
    <3>3. CASE \A t \in worker[w].trigger : t.sn # k
      <4>1. PICK S \in SUBSET SliceEnds : \A p \in ProbeTasks : p.sn = k => p \in Pairs(k, S)
        BY <1>c4, <2>1, Zenon
      <4>2. \A p \in N : p.sn # k
        BY <2>5, <3>3, Zenon
      <4> QED
        BY <2>4, <4>1, <4>2, ZenonT(30)
    <3> QED
      BY <3>2, <3>3, Zenon
  <2>11. \A v, x \in Worker : worker'[v].at = "probe" /\ worker'[x].at = "probe" /\ worker'[v].task = worker'[x].task => v = x
    BY <1>o, <1>c6, <2>2, ZenonT(30)
  <2>12. ASSUME NEW p \in N PROVE p \notin ProbeTasks
    <3>1. PICK s \in worker[w].trigger : p.sn = s.sn
      BY <2>5, Zenon
    <3> QED
      BY <1>c2, <3>1, Zenon
  <2>13. ((probes \cup InHand) \cap probed = {} /\ probes \cap InHand = {})'
    BY <1>c5, <2>1, <2>3, <2>12, ZenonT(30) DEF ProbeTasks
  <2> QED
    BY <2>6, <2>8, <2>9, <2>10, <2>11, <2>13, ZenonT(30)
<1>5. ASSUME NEW q \in probes, BeginProbe(w, q) PROVE Goal
  <2>1. /\ worker[w].at = "idle" /\ probes' = probes \ {q}
        /\ probed' = probed /\ emitted' = emitted
    BY <1>5, Zenon DEF BeginProbe, At, storeVars
  <2>2. worker'[w].at = "probe" /\ worker'[w].task = q /\ worker'[w].trigger = worker[w].trigger
    BY <1>5, <1>s, ZenonT(30) DEF BeginProbe, Shape, Local
  <2>3. InHand' = InHand \cup {q}
    BY <1>i, <1>j, <2>1, <2>2, ZenonT(30)
  <2>4. Tasks = ProbeTasks
    BY <2>1, <2>3, ZenonT(30) DEF ProbeTasks
  <2>5. \A v \in Worker : worker'[v].trigger \in {worker[v].trigger, {}}
    BY <1>o, <2>2, ZenonT(30)
  <2>6. \A v \in Worker : worker[v].at = "probe" => worker[v].task # q
    BY <1>c5, InHandIs, ZenonT(30) DEF At
  <2>7. \A v, x \in Worker : worker'[v].at = "probe" /\ worker'[x].at = "probe" /\ worker'[v].task = worker'[x].task => v = x
    BY <1>o, <1>c6, <2>1, <2>2, <2>6, ZenonT(30)
  <2>8. ((probes \cup InHand) \cap probed = {} /\ probes \cap InHand = {})'
    BY <1>c5, <2>1, <2>3, ZenonT(30)
  <2> HIDE DEF Tasks
  <2> QED
    BY <1>1, <2>1, <2>4, <2>5, <2>7, <2>8, ZenonT(30)
<1>6. CASE CloseProbe(w)
  <2>1. /\ worker[w].at = "probe" /\ probes' = probes
        /\ probed' = probed \cup {worker[w].task} /\ emitted' = emitted
    BY <1>6, Zenon DEF CloseProbe, At, storeVars
  <2>2. worker'[w].at = "gcWindows" /\ worker'[w].trigger = worker[w].trigger
    <3>1. PICK value : worker' = [worker EXCEPT ![w].at = "gcWindows", ![w].value = value]
      BY <1>6, Zenon DEF CloseProbe
    <3> QED
      BY <1>s, <3>1, ZenonT(30) DEF Shape, Local
  <2>3. InHand' = InHand \ {worker[w].task}
    <3>1. ~Hand(worker[w].task)
      BY <1>c6, <2>1, ZenonT(30) DEF Hand, At
    <3> QED
      BY <1>i, <1>j, <2>1, <2>2, <3>1, ZenonT(30)
  <2>4. worker[w].task \in InHand
    BY <1>j, <2>1, Zenon
  <2>5. Tasks = ProbeTasks
    BY <2>1, <2>3, <2>4, ZenonT(30) DEF ProbeTasks
  <2>6. \A v \in Worker : worker'[v].trigger \in {worker[v].trigger, {}}
    BY <1>o, <2>2, ZenonT(30)
  <2>7. \A v, x \in Worker : worker'[v].at = "probe" /\ worker'[x].at = "probe" /\ worker'[v].task = worker'[x].task => v = x
    BY <1>o, <1>c6, <2>2, ZenonT(30)
  <2>8. ((probes \cup InHand) \cap probed = {} /\ probes \cap InHand = {})'
    BY <1>c5, <2>1, <2>3, <2>4, ZenonT(30)
  <2> HIDE DEF Tasks
  <2> QED
    BY <1>1, <2>1, <2>5, <2>6, <2>7, <2>8, ZenonT(30)
<1> HIDE DEF Goal
<1> QED
  BY <1>s, <1>2, <1>3, <1>4, <1>5, <1>6, ProbeKinds, Zenon

-----------------------------------------------------------------------------
\* What the probe side has completed, and what may be collected

LEMMA EmittedGrows ==
  ASSUME LibraryFacts, TypeOK, NEW w \in Worker, Step(w)
  PROVE  DOMAIN emitted \subseteq DOMAIN emitted' /\ \A i \in DOMAIN emitted : emitted'[i] = emitted[i]
<1>1. CASE emitted' = emitted
  BY <1>1, Zenon
<1>2. ASSUME NEW ends \in SUBSET WindowEnds, Triggering(w, ends)
      PROVE  DOMAIN emitted \subseteq DOMAIN emitted' /\ \A i \in DOMAIN emitted : emitted'[i] = emitted[i]
  BY <1>2, TriggerNumbers, Zenon
<1>3. \/ emitted' = emitted
      \/ \E ends \in SUBSET WindowEnds : Triggering(w, ends)
  BY ProbeKinds, Zenon DEF TypeOK, Unprobed, EmitWindows, BeginProbe, CloseProbe, storeVars
<1> QED
  BY <1>1, <1>2, <1>3, ZenonT(30)

\* A window that is completely probed stays so: none of its tasks is to come.
LEMMA CollectionStaysSafe ==
  LibraryFacts /\ IInv /\ ProbesAreCounted /\ CollectionIsSafe => \A w \in Worker : Step(w) =>
    CollectionIsSafe'
<1>CompleteStays.
      ASSUME LibraryFacts, TypeOK, ProbesAreCounted, NEW w \in Worker, Step(w), NEW k, Complete(k)
      PROVE  Complete(k)'
  <2> USE <1>CompleteStays
  <2>1. CASE probed' = probed
    BY <2>1, Zenon DEF Complete
  <2>2. CASE CloseProbe(w)
    <3>1. worker[w].task \in InHand /\ probed' = probed \cup {worker[w].task}
      BY <2>2, InHandIs, Zenon DEF CloseProbe
    <3>2. worker[w].task.sn # k
      BY <3>1, OutstandingIsIncomplete, Zenon
    <3>3. {q \in probed' : q.sn = k} = {q \in probed : q.sn = k}
      BY <3>1, <3>2, ZenonT(30)
    <3>4. PICK p \in probed : p.sn = k /\ Cardinality({q \in probed : q.sn = k}) = p.total
      BY Zenon DEF Complete
    <3>5. p \in probed' /\ p.sn = k /\ Cardinality({q \in probed' : q.sn = k}) = p.total
      BY <3>1, <3>3, <3>4, ZenonT(30)
    <3> QED
      BY <3>5, Zenon DEF Complete
  <2>3. probed' = probed \/ CloseProbe(w)
    BY ProbeKinds, ZenonT(30) DEF TypeOK, Unprobed, Triggering, EmitWindows, BeginProbe
  <2> QED
    BY <2>1, <2>2, <2>3, ZenonT(30)
<1>ProbeWatermarkIsAStart.
      ASSUME LibraryFacts
      PROVE  emitted \in Seq(Nat) =>
               \/ ProbeWatermark = 0
               \/ \E n \in DOMAIN emitted : ProbeWatermark = emitted[n] - WindowSize /\ \A k \in 1..n : Complete(k)
  <2> USE <1>ProbeWatermarkIsAStart
  <2> SUFFICES ASSUME emitted \in Seq(Nat)
               PROVE  \/ ProbeWatermark = 0
                      \/ \E n \in DOMAIN emitted : ProbeWatermark = emitted[n] - WindowSize /\ \A k \in 1..n : Complete(k)
    BY Zenon
  <2> DEFINE m == Len(emitted)
             S == {n \in 0..m : \A k \in 1..n : Complete(k)}
             T == {m - n : n \in S}
  <2>1. m \in Nat /\ DOMAIN emitted = 1..m
    BY Zenon DEF LibraryFacts, Length
  <2>2. 0 \in S
    BY <2>1
  <2>3. T \in SUBSET Nat /\ T # {}
    BY <2>1, <2>2
  <2>4. Min(T) \in T /\ \A t \in T : Min(T) <= t
    BY <2>3, NaturalsHaveAMinimum, Zenon
  <2>5. PICK x \in S : Min(T) = m - x
    BY <2>4, Zenon
  <2>6. \A n \in S : x >= n
    <3> SUFFICES ASSUME NEW n \in S PROVE x >= n
      BY Zenon
    <3>1. m - n \in T /\ n \in Int /\ x \in Int
      BY <2>1
    <3>2. m - x <= m - n
      BY <2>4, <2>5, <3>1, Zenon
    <3> HIDE DEF S, T, m
    <3> QED
      BY <2>1, <3>1, <3>2
  <2> HIDE DEF T
  <2>7. Max(S) \in S
    <3> HIDE DEF S
    <3> QED
      BY <2>6, Zenon DEF Max
  <2>8. ProbeSequence = Max(S)
    BY Zenon DEF ProbeSequence
  <2>9. CASE ProbeSequence = 0
    BY <2>9, Zenon DEF ProbeWatermark
  <2>10. CASE ProbeSequence # 0
    <3>1. ProbeSequence \in 1..m /\ \A k \in 1..ProbeSequence : Complete(k)
      BY <2>1, <2>7, <2>8, <2>10
    <3> QED
      BY <2>1, <2>10, <3>1, ZenonT(30) DEF ProbeWatermark
  <2> QED
    BY <2>9, <2>10, Zenon
<1> SUFFICES ASSUME LibraryFacts, IInv, ProbesAreCounted, CollectionIsSafe, NEW w \in Worker, Step(w)
             PROVE  CollectionIsSafe'
  OBVIOUS
<1>s. TypeOK /\ Shape /\ emitted \in Seq(Nat)
  BY Zenon DEF IInv, TypeOK
<1>o. \A v \in Worker \ {w} : worker'[v] = worker[v]
  BY <1>s, ProbeKinds, Zenon DEF Others
<1>e. DOMAIN emitted \subseteq DOMAIN emitted' /\ \A i \in DOMAIN emitted : emitted'[i] = emitted[i]
  BY <1>s, EmittedGrows, Zenon
<1>c. \A k : Complete(k) => Complete(k)'
  BY <1>s, <1>CompleteStays, Zenon
<1> DEFINE Safe(value) == \/ value = 0
                          \/ \E n \in DOMAIN emitted : value = emitted[n] - WindowSize /\ \A k \in 1..n : Complete(k)
           SafeNow(value) == \/ value = 0
                             \/ \E n \in DOMAIN emitted' : value = emitted'[n] - WindowSize /\ \A k \in 1..n : Complete(k)'
<1>1. \A value : Safe(value) => SafeNow(value)
  BY <1>e, <1>c, Zenon
<1>2. \A v \in Worker : Collecting(v) => Safe(worker[v].value)
  BY Zenon DEF CollectionIsSafe, Collecting
<1>3. SUFFICES ASSUME NEW v \in Worker, worker'[v].at \in {"gcWindows", "gcSlices"}
               PROVE  SafeNow(worker'[v].value)
  BY Zenon DEF CollectionIsSafe
<1>4. ASSUME Collecting(v), worker'[v].value = worker[v].value PROVE SafeNow(worker'[v].value)
  BY <1>1, <1>2, <1>4, ZenonT(30)
<1>5. CASE CloseProbe(w) /\ v = w
  <2>1. emitted' \in Seq(Nat)
    BY <1>s, <1>5, Zenon DEF CloseProbe, storeVars
  <2>2. worker'[w].value = ProbeWatermark'
    BY <1>s, <1>5, ZenonT(30) DEF CloseProbe, Shape, Local
  <2>3. (emitted \in Seq(Nat) =>
            \/ ProbeWatermark = 0
            \/ \E n \in DOMAIN emitted : ProbeWatermark = emitted[n] - WindowSize /\ \A k \in 1..n : Complete(k))'
    BY <1>ProbeWatermarkIsAStart, PTL
  <2> QED
    BY <1>5, <2>1, <2>2, <2>3, ZenonT(30)
<1>6. CASE ~(CloseProbe(w) /\ v = w)
  <2> HIDE DEF SafeNow
  <2>1. CASE v # w
    BY <1>3, <1>4, <1>o, <2>1, ZenonT(30) DEF Collecting
  <2>2. CASE v = w
    <3>1. CASE Unprobed(w)
      BY <1>3, <1>4, <2>2, <3>1, ZenonT(30) DEF Unprobed, Collecting
    <3>2. CASE \E ends \in SUBSET WindowEnds : Triggering(w, ends)
      BY <1>s, <1>3, <2>2, <3>2, TriggerNumbers, ZenonT(30)
    <3>3. CASE EmitWindows(w)
      <4>1. worker'[w].at = "idle"
        BY <1>s, <3>3, ZenonT(30) DEF EmitWindows, Idle, Shape
      <4> QED
        BY <1>3, <2>2, <4>1, ZenonT(30)
    <3>4. ASSUME NEW q \in probes, BeginProbe(w, q) PROVE FALSE
      <4>1. worker'[w].at = "probe"
        BY <1>s, <3>4, ZenonT(30) DEF BeginProbe, Shape, Local
      <4> QED
        BY <1>3, <2>2, <4>1, ZenonT(30)
    <3> QED
      BY <1>s, <1>6, <2>2, <3>1, <3>2, <3>3, <3>4, ProbeKinds, ZenonT(30)
  <2> QED
    BY <2>1, <2>2, Zenon
<1> QED
  BY <1>5, <1>6, ZenonT(30)

-----------------------------------------------------------------------------
\* What windows and tasks need

\* No window that is completely probed, with all before it, ends later.
Uncollected(e) == \A n \in DOMAIN emitted : (\A k \in 1..n : Complete(k)) => emitted[n] <= e

LEMMA NeededIsUncollected ==
  ASSUME LibraryFacts, IInv
  PROVE  /\ \A e \in Pending : e \in Nat /\ Uncollected(e)
         /\ \A k \in DOMAIN emitted : ~Complete(k) => emitted[k] \in Nat /\ Uncollected(emitted[k])
         /\ \A v \in Worker : Building(v) =>
              /\ worker[v].task.ts \in Times /\ worker[v].task.ts \in Nat /\ Uncollected(worker[v].task.ts)
              /\ \A n \in DOMAIN emitted : emitted[n] < worker[v].task.ts
<1>1. TypeOK /\ ChunksAreHeldOnce /\ TriggeredIsPast /\ Ascending(emitted)
  BY Zenon DEF IInv
<1>2. emitted \in Seq(Nat) /\ DOMAIN emitted \subseteq Nat \ {0} /\ \A n \in DOMAIN emitted : emitted[n] \in Nat
  BY <1>1 DEF TypeOK
<1>3. ASSUME NEW e \in Pending PROVE e \in Nat /\ Uncollected(e)
  <2>1. e \in Nat
    BY WindowEndsAreFinite, Zenon DEF Pending
  <2> QED
    BY <1>1, <1>2, <2>1 DEF TriggeredIsPast, Uncollected
<1>4. ASSUME NEW k \in DOMAIN emitted, ~Complete(k) PROVE emitted[k] \in Nat /\ Uncollected(emitted[k])
  <2>1. ASSUME NEW n \in DOMAIN emitted, \A j \in 1..n : Complete(j) PROVE emitted[n] <= emitted[k]
    <3>1. k \notin 1..n
      BY <1>4, <2>1, Zenon
    <3>2. n < k
      BY <1>2, <3>1
    <3> QED
      BY <1>1, <1>2, <3>2 DEF Ascending
  <2> QED
    BY <1>2, <2>1, Zenon DEF Uncollected
<1>5. ASSUME NEW v \in Worker, Building(v)
      PROVE  /\ worker[v].task.ts \in Times /\ worker[v].task.ts \in Nat /\ Uncollected(worker[v].task.ts)
             /\ \A n \in DOMAIN emitted : emitted[n] < worker[v].task.ts
  <2>1. worker[v].task \in Ahead /\ worker[v].task.ts # 0 /\ worker[v].task.ts \in Nat
    BY <1>1, <1>5, TaskFacts, InputType, ZenonT(30) DEF Building, Build, ChunksAreHeldOnce
  <2>2. worker[v].task.ts \in Times
    BY <1>1, <1>5, TaskFacts, ZenonT(30) DEF ChunksAreHeldOnce, Building, Build, Times
  <2>3. \A n \in DOMAIN emitted : emitted[n] < worker[v].task.ts
    BY <1>1, <2>1, Zenon DEF TriggeredIsPast
  <2> QED
    BY <1>2, <2>1, <2>2, <2>3 DEF Uncollected
<1> QED
  BY <1>3, <1>4, <1>5, ZenonT(30)

\* Only a collection removes slices, and none that is still needed.
LEMMA SlicesAreKept ==
  ASSUME LibraryFacts, IInv, CollectionIsSafe, NEW w \in Worker, Step(w)
  PROVE  \A s : \A e \in Nat : IsSliceOf(s, e) /\ Uncollected(e) => s \in DOMAIN slices'
<1>1. \/ DOMAIN slices \subseteq DOMAIN slices' \/ CollectSlices(w)
  <2>1. CASE slices' = slices
    BY <2>1, Zenon
  <2>2. CASE CreateSlice(w)
    BY <2>2, Zenon DEF CreateSlice
  <2>3. CASE InsertRecord(w)
    BY <2>3, Zenon DEF InsertRecord
  <2>4. slices' = slices \/ CreateSlice(w) \/ InsertRecord(w) \/ CollectSlices(w)
    <3>1. CASE FindSlice(w) \/ RegisterSlice(w) \/ EmitWindows(w) \/ CloseProbe(w) \/ CollectWindows(w)
      BY <3>1, Zenon DEF FindSlice, RegisterSlice, EmitWindows, CloseProbe, CollectWindows, storeVars
    <3>2. CASE TriggerWindows(w) \/ TerminatePipeline(w)
      BY <3>2, Zenon DEF TriggerWindows, TerminatePipeline
    <3>3. CASE UpdateWatermark(w) /\ UNCHANGED <<storeVars, taskVars>>
      BY <3>3, Zenon DEF storeVars
    <3>4. CASE \/ \E c \in Input : BeginBuild(w, c)
               \/ \E o \in Origin : BeginTerminate(w, o)
               \/ \E p \in probes : BeginProbe(w, p)
      BY <3>4, Zenon DEF BeginBuild, BeginTerminate, BeginProbe, storeVars
    <3> QED
      BY <3>1, <3>2, <3>3, <3>4, ZenonT(30) DEF Step
  <2> QED
    BY <2>1, <2>2, <2>3, <2>4, ZenonT(30)
<1>2. ASSUME CollectSlices(w), NEW s, NEW e \in Nat, IsSliceOf(s, e), Uncollected(e) PROVE s \in DOMAIN slices'
  <2>1. s \in DOMAIN slices /\ e < s + WindowSize /\ s \in Nat
    BY <1>2, SliceEndsAreFinite, ZenonT(30) DEF IsSliceOf, IInv, TypeOK
  <2>2. WindowSize \in Nat
    BY WindowsAreValid, Zenon
  <2>3. ~(s + WindowSize < worker[w].value)
    <3>1. \/ worker[w].value = 0
          \/ \E n \in DOMAIN emitted : worker[w].value = emitted[n] - WindowSize /\ \A k \in 1..n : Complete(k)
      BY <1>2, Zenon DEF CollectionIsSafe, CollectSlices, At
    <3>2. ASSUME NEW n \in DOMAIN emitted, worker[w].value = emitted[n] - WindowSize, \A k \in 1..n : Complete(k)
          PROVE  ~(s + WindowSize < worker[w].value)
      <4>1. emitted[n] \in Nat /\ emitted[n] <= e
        BY <1>2, <3>2 DEF Uncollected, IInv, TypeOK
      <4> QED
        BY <2>1, <2>2, <3>2, <4>1, SMTT(30)
    <3> QED
      BY <2>1, <2>2, <3>1, <3>2
  <2> QED
    BY <1>2, <2>1, <2>3, ZenonT(30) DEF CollectSlices
<1> QED
  BY <1>1, <1>2, Zenon DEF IsSliceOf

\* Windows are created and marked, and keep their slices.
LEMMA WindowsKeepSlices ==
  LibraryFacts /\ IInv /\ ProbesAreCounted /\ NeededSlicesAreKept /\ CollectionIsSafe =>
  \A w \in Worker :
  Step(w) =>
    /\ \A e \in WindowEnds : windows'[e].state = "Absent" => windows'[e].slices = {}
    /\ \A e \in WindowEnds : windows'[e].state = "Emitted" => \E i \in DOMAIN emitted' : emitted'[i] = e
    /\ \A e \in WindowEnds : windows'[e].state \in {"Filling", "Waiting"} =>
         \A s \in windows'[e].slices : s \in DOMAIN slices' /\ e < s + WindowSize
<1>WindowKinds.
      ASSUME TypeOK, NEW w \in Worker, Step(w)
      PROVE  \/ windows' = windows
             \/ RegisterSlice(w)
             \/ \E ends \in SUBSET WindowEnds : Triggering(w, ends)
             \/ windows' = Marked(Pending, "Waiting")
             \/ windows' = [e \in WindowEnds |-> IF e < worker[w].value /\ windows[e].state = "Emitted"
                                                 THEN Absent ELSE windows[e]]
  <2> USE <1>WindowKinds
  <2>1. CASE FindSlice(w) \/ CreateSlice(w) \/ InsertRecord(w) \/ EmitWindows(w) \/ CloseProbe(w) \/ CollectSlices(w)
    BY <2>1, Zenon DEF FindSlice, CreateSlice, InsertRecord, EmitWindows, CloseProbe, CollectSlices, storeVars
  <2>2. CASE UpdateWatermark(w) /\ UNCHANGED <<storeVars, taskVars>>
    BY <2>2, Zenon DEF storeVars
  <2>3. CASE \/ \E c \in Input : BeginBuild(w, c)
             \/ \E o \in Origin : BeginTerminate(w, o)
             \/ \E p \in probes : BeginProbe(w, p)
    BY <2>3, Zenon DEF BeginBuild, BeginTerminate, BeginProbe, storeVars
  <2>4. CASE CollectWindows(w)
    BY <2>4, Zenon DEF CollectWindows
  <2>5. CASE TriggerWindows(w) \/ TerminatePipeline(w)
    BY <2>5, TriggerKinds, ZenonT(30)
  <2> QED
    BY <2>1, <2>2, <2>3, <2>4, <2>5, Zenon DEF Step
<1>MarkedSlices.
      ASSUME NEW ends, NEW state, windows \in [WindowEnds -> WindowType], NEW e \in WindowEnds
      PROVE  Marked(ends, state)[e].slices = windows[e].slices
    BY <1>MarkedSlices, Zenon DEF Marked, WindowType
<1> SUFFICES ASSUME LibraryFacts, IInv, ProbesAreCounted, NeededSlicesAreKept, CollectionIsSafe, NEW w \in Worker, Step(w)
             PROVE  /\ \A e \in WindowEnds : windows'[e].state = "Absent" => windows'[e].slices = {}
                    /\ \A e \in WindowEnds : windows'[e].state = "Emitted" => \E i \in DOMAIN emitted' : emitted'[i] = e
                    /\ \A e \in WindowEnds : windows'[e].state \in {"Filling", "Waiting"} =>
                         \A s \in windows'[e].slices : s \in DOMAIN slices' /\ e < s + WindowSize
  OBVIOUS
<1>t. TypeOK /\ windows \in [WindowEnds -> WindowType] /\ emitted \in Seq(Nat)
  BY Zenon DEF IInv, TypeOK, WindowType
<1>e. DOMAIN emitted \subseteq DOMAIN emitted' /\ \A i \in DOMAIN emitted : emitted'[i] = emitted[i]
  BY <1>t, EmittedGrows, Zenon
<1>1. \A e \in WindowEnds : windows[e].state = "Absent" => windows[e].slices = {}
  BY Zenon DEF NeededSlicesAreKept
<1>2. \A e \in WindowEnds : windows[e].state = "Emitted" => \E i \in DOMAIN emitted' : emitted'[i] = e
  BY <1>e, Zenon DEF NeededSlicesAreKept
<1>3. ASSUME NEW e \in WindowEnds, windows[e].state \in {"Filling", "Waiting"}, NEW s \in windows[e].slices
      PROVE  s \in DOMAIN slices' /\ e < s + WindowSize
  <2>1. e \in Pending
    BY <1>3, Zenon DEF Pending
  <2>2. IsSliceOf(s, e) /\ e \in Nat /\ Uncollected(e)
    BY <1>3, <2>1, NeededIsUncollected, ZenonT(30) DEF NeededSlicesAreKept
  <2> QED
    BY <2>2, SlicesAreKept, Zenon DEF IsSliceOf
<1> DEFINE Goal(e) ==
      /\ windows'[e].state = "Absent" => windows'[e].slices = {}
      /\ windows'[e].state = "Emitted" => \E i \in DOMAIN emitted' : emitted'[i] = e
      /\ windows'[e].state \in {"Filling", "Waiting"} => \A s \in windows'[e].slices : s \in DOMAIN slices' /\ e < s + WindowSize
<1> SUFFICES ASSUME NEW e \in WindowEnds PROVE Goal(e)
  BY Zenon
<1>4. CASE windows'[e] = windows[e]
  BY <1>1, <1>2, <1>3, <1>4, ZenonT(30)
<1>5. CASE windows' = [x \in WindowEnds |-> IF x < worker[w].value /\ windows[x].state = "Emitted"
                                            THEN Absent ELSE windows[x]]
  <2>1. windows'[e] = windows[e] \/ windows'[e] = Absent
    BY <1>5, Zenon
  <2> QED
    BY <1>4, <2>1 DEF Absent
<1>6. CASE windows' = Marked(Pending, "Waiting")
  <2>1. /\ windows'[e].state = IF e \in Pending THEN "Waiting" ELSE windows[e].state
        /\ windows'[e].slices = windows[e].slices
    BY <1>t, <1>6, MarkedWindows, <1>MarkedSlices
  <2>2. e \in Pending <=> windows[e].state \in {"Filling", "Waiting"}
    BY Zenon DEF Pending
  <2> QED
    BY <1>1, <1>2, <1>3, <2>1, <2>2, ZenonT(30)
<1>7. ASSUME NEW ends \in SUBSET WindowEnds, Triggering(w, ends) PROVE Goal(e)
  <2>1. windows' = Marked(ends, "Emitted")
    BY <1>7, Zenon DEF Triggering
  <2>2. /\ windows'[e].state = IF e \in ends THEN "Emitted" ELSE windows[e].state
        /\ windows'[e].slices = windows[e].slices
    BY <1>t, <2>1, MarkedWindows, <1>MarkedSlices
  <2>3. e \in ends => \E i \in DOMAIN emitted' : emitted'[i] = e
    BY <1>t, <1>7, TriggerNumbers, Zenon
  <2> QED
    BY <1>1, <1>2, <1>3, <2>2, <2>3, Zenon
<1>8. CASE RegisterSlice(w)
  <2> DEFINE ts == worker[w].task.ts
  <2>1. /\ At(w, "register") /\ slices' = slices
        /\ windows' = [x \in WindowEnds |-> IF x \in WindowsOf(ts)
                         THEN [state |-> "Filling", slices |-> windows[x].slices \cup {SliceEnd(ts)}] ELSE windows[x]]
    BY <1>8, Zenon DEF RegisterSlice
  <2>2. Building(w)
    BY <2>1, Zenon DEF Building, At
  <2>3. ts \in Times /\ ts \in Nat /\ \A n \in DOMAIN emitted : emitted[n] < ts
    BY <2>2, NeededIsUncollected, ZenonT(30)
  <2>4. CASE e \notin WindowsOf(ts)
    <3>1. windows'[e] = windows[e]
      BY <2>1, <2>4, Zenon
    <3> QED
      BY <1>4, <3>1, Zenon
  <2>5. CASE e \in WindowsOf(ts)
    <3>1. e \in ContainingWindows(WindowSize, WindowSlide, ts)
      BY <2>3, <2>5, WindowsEndLater, ZenonT(30)
    <3>2. e \in Nat /\ ts < e /\ e <= ts + WindowSize
      BY <2>3, <3>1, WindowsEndLater, WindowsAreValid, SMTT(30) DEF ContainingWindows
    <3>3. windows'[e].state = "Filling" /\ windows'[e].slices = windows[e].slices \cup {SliceEnd(ts)}
      BY <2>1, <2>5, Zenon
    <3>4. SliceEnd(ts) \in Nat /\ ts < SliceEnd(ts) /\ WindowSize \in Nat
      BY <2>3, SliceEndsAreFinite, WindowsAreValid, Zenon DEF SliceEnds
    <3>5. SliceEnd(ts) \in DOMAIN slices' /\ e < SliceEnd(ts) + WindowSize
      <4>1. SliceEnd(ts) \in DOMAIN slices'
        BY <2>1, Zenon DEF NeededSlicesAreKept
      <4> HIDE DEF ts
      <4> QED
        BY <2>3, <3>2, <3>4, <4>1
    <3>6. windows[e].state # "Emitted"
      <4> SUFFICES ASSUME NEW i \in DOMAIN emitted, emitted[i] = e PROVE FALSE
        BY Zenon DEF NeededSlicesAreKept
      <4>1. e < ts
        BY <2>3, Zenon
      <4> HIDE DEF ts
      <4> QED
        BY <2>3, <3>2, <4>1
    <3>7. windows[e].state \in {"Absent", "Filling", "Waiting", "Emitted"}
      BY <1>t, Zenon DEF WindowType
    <3>8. \A s \in windows[e].slices : s \in DOMAIN slices' /\ e < s + WindowSize
      BY <1>1, <1>3, <3>6, <3>7, ZenonT(30)
    <3> HIDE DEF ts
    <3> QED
      BY <3>3, <3>5, <3>8, ZenonT(30)
  <2> QED
    BY <2>4, <2>5, Zenon
<1>9. CASE windows' = windows
  BY <1>4, <1>9, ZenonT(30)
<1> HIDE DEF Goal
<1> QED
  BY <1>t, <1>5, <1>6, <1>7, <1>8, <1>9, <1>WindowKinds, ZenonT(30)
\* Tasks that are handed on keep the slices they name; a worker registers a slice that it has just created.
LEMMA TasksKeepSlices ==
  LibraryFacts /\ IInv /\ ProbesAreCounted /\ NeededSlicesAreKept /\ CollectionIsSafe =>
  \A w \in Worker :
  Step(w) =>
    /\ \A v \in Worker : worker'[v].at = "register" => SliceEnd(worker'[v].task.ts) \in DOMAIN slices'
    /\ \A v \in Worker : \A t \in worker'[v].trigger : \A s \in t.slices :
         s \in DOMAIN slices' /\ emitted'[t.sn] < s + WindowSize
    /\ \A p \in probes' \cup InHand' :
         {p.left, p.right} \subseteq DOMAIN slices'
         /\ emitted'[p.sn] < p.left + WindowSize /\ emitted'[p.sn] < p.right + WindowSize
<1>RegisteredIsCreated.
      ASSUME Shape, NEW w \in Worker, Step(w), worker'[w].at = "register"
      PROVE  SliceEnd(worker'[w].task.ts) \in DOMAIN slices'
  <2> USE <1>RegisteredIsCreated
  <2>1. CASE CreateSlice(w)
    <3>1. CASE Goto(w, "insert")
      BY <3>1, GotoFields DEF Now
    <3>2. CASE ~Goto(w, "insert")
      <4>1. Goto(w, "register") /\ SliceEnd(worker[w].task.ts) \in DOMAIN slices'
        BY <2>1, <3>2, Zenon DEF CreateSlice
      <4>2. worker'[w].task = worker[w].task
        BY <4>1, GotoFields, Zenon DEF Now
      <4> QED
        BY <4>1, <4>2, Zenon
    <3> QED
      BY <3>1, <3>2, Zenon
  <2>2. CASE FindSlice(w) \/ RegisterSlice(w) \/ InsertRecord(w)
    <3>1. \E place \in {"insert", "create", "merge"} : Goto(w, place)
      BY <2>2, Zenon DEF FindSlice, RegisterSlice, InsertRecord
    <3> QED
      BY <3>1, GotoFields, ZenonT(30) DEF Now
  <2>3. CASE UpdateWatermark(w) /\ UNCHANGED <<storeVars, taskVars>>
    <3>1. Advance(w)
      BY <2>3, UpdatingAdvances, ZenonT(30)
    <3>2. ~Building(w)
      BY <2>3, ZenonT(30) DEF Building, UpdateWatermark, MergeWatermark, CountChunk, StoreSeq, StoreValue,
                  ShiftCurrentValue, MoveHead, ReadWatermark, At
    <3> QED
      BY <3>1, <3>2, ZenonT(30) DEF Advance, Building
  <2>4. CASE TriggerWindows(w)
    BY <2>4, TriggeringAdvances, Zenon
  <2>5. ASSUME NEW c \in Input, BeginBuild(w, c) PROVE FALSE
    <3>1. worker'[w].at = IF c.ts = 0 THEN "merge" ELSE "find"
      BY <2>5, BuildFields, ZenonT(30) DEF Now
    <3> QED
      BY <3>1, Zenon
  <2>6. ASSUME NEW o \in Origin, BeginTerminate(w, o) PROVE FALSE
    BY <2>6, TerminateFields, Zenon DEF Now
  <2>7. CASE TerminatePipeline(w)
    BY <2>7, PipelineEndFields, Zenon DEF Now
  <2>8. CASE EmitWindows(w)
    <3>1. worker'[w].at = "idle"
      BY <2>8, IdleFields, ZenonT(30) DEF EmitWindows, Now
    <3> QED
      BY <3>1, Zenon
  <2>9. CASE (\E q \in probes : BeginProbe(w, q)) \/ CloseProbe(w) \/ CollectWindows(w) \/ CollectSlices(w)
    BY <2>9, ProbingIsAside, ZenonT(30) DEF Aside, Elsewhere
  <2> QED
    BY <2>1, <2>2, <2>3, <2>4, <2>5, <2>6, <2>7, <2>8, <2>9, ZenonT(30) DEF Step
<1> SUFFICES ASSUME LibraryFacts, IInv, ProbesAreCounted, NeededSlicesAreKept, CollectionIsSafe, NEW w \in Worker, Step(w)
             PROVE  /\ \A v \in Worker : worker'[v].at = "register" => SliceEnd(worker'[v].task.ts) \in DOMAIN slices'
                    /\ \A v \in Worker : \A t \in worker'[v].trigger : \A s \in t.slices :
                         s \in DOMAIN slices' /\ emitted'[t.sn] < s + WindowSize
                    /\ \A p \in probes' \cup InHand' :
                         {p.left, p.right} \subseteq DOMAIN slices'
                         /\ emitted'[p.sn] < p.left + WindowSize /\ emitted'[p.sn] < p.right + WindowSize
  OBVIOUS
<1>t. TypeOK /\ Shape /\ windows \in [WindowEnds -> WindowType] /\ emitted \in Seq(Nat)
  BY Zenon DEF IInv, TypeOK, WindowType
<1>e. DOMAIN emitted \subseteq DOMAIN emitted' /\ \A i \in DOMAIN emitted : emitted'[i] = emitted[i]
  BY <1>t, EmittedGrows, Zenon
<1>o. \A v \in Worker \ {w} : worker'[v] = worker[v]
  BY <1>t, ProbeKinds, ZenonT(30) DEF Others
<1>h. Others(w)
  BY <1>o, Zenon DEF Others
<1>k. \A s : \A e \in Nat : IsSliceOf(s, e) /\ Uncollected(e) => s \in DOMAIN slices'
  BY SlicesAreKept, Zenon
<1>1. ASSUME NEW v \in Worker, worker'[v].at = "register" PROVE SliceEnd(worker'[v].task.ts) \in DOMAIN slices'
  <2>1. CASE v = w
    BY <1>t, <1>1, <2>1, <1>RegisteredIsCreated, ZenonT(30)
  <2>2. CASE v # w
    <3> DEFINE ts == worker[v].task.ts
    <3>1. At(v, "register") /\ worker'[v].task = worker[v].task
      BY <1>o, <1>1, <2>2, ZenonT(30) DEF At
    <3>2. Building(v) /\ SliceEnd(ts) \in DOMAIN slices
      BY <3>1, Zenon DEF Building, At, NeededSlicesAreKept
    <3>3. ts \in Times /\ ts \in Nat /\ Uncollected(ts)
      BY <3>2, NeededIsUncollected, Zenon
    <3>4. SliceEnd(ts) \in Nat /\ ts < SliceEnd(ts) /\ WindowSize \in Nat
      BY <3>3, SliceEndsAreFinite, WindowsAreValid, ZenonT(30) DEF SliceEnds
    <3> HIDE DEF ts
    <3>5. IsSliceOf(SliceEnd(ts), ts)
      BY <3>2, <3>3, <3>4 DEF IsSliceOf
    <3>6. SliceEnd(ts) \in DOMAIN slices'
      BY <1>k, <3>3, <3>5, ZenonT(30)
    <3> QED
      BY <3>1, <3>6, Zenon DEF ts
  <2> QED
    BY <2>1, <2>2, ZenonT(30)
\* What has a sequence number that is not complete keeps its slices.
<1>2. ASSUME NEW k \in DOMAIN emitted, ~Complete(k), NEW s, IsSliceOf(s, emitted[k])
      PROVE  s \in DOMAIN slices' /\ emitted'[k] < s + WindowSize
  <2>1. emitted[k] \in Nat /\ Uncollected(emitted[k])
    BY <1>2, NeededIsUncollected, Zenon
  <2>2. s \in DOMAIN slices'
    BY <1>k, <1>2, <2>1, ZenonT(30)
  <2> QED
    BY <1>e, <1>2, <2>2, ZenonT(30) DEF IsSliceOf
<1>3. ASSUME NEW v \in Worker, NEW t \in worker[v].trigger, NEW s \in t.slices
      PROVE  s \in DOMAIN slices' /\ emitted'[t.sn] < s + WindowSize
  <2>1. t.sn \in DOMAIN emitted /\ ~Complete(t.sn)
    BY OutstandingIsIncomplete, Zenon DEF ProbesAreCounted
  <2>2. IsSliceOf(s, emitted[t.sn])
    BY Zenon DEF NeededSlicesAreKept
  <2> QED
    BY <1>2, <2>1, <2>2, ZenonT(30)
<1>4. ASSUME NEW p \in probes \cup InHand
      PROVE  /\ {p.left, p.right} \subseteq DOMAIN slices'
             /\ emitted'[p.sn] < p.left + WindowSize /\ emitted'[p.sn] < p.right + WindowSize
  <2>1. p.sn \in DOMAIN emitted /\ ~Complete(p.sn)
    BY OutstandingIsIncomplete, ZenonT(30) DEF ProbesAreCounted, ProbeTasks
  <2>2. IsSliceOf(p.left, emitted[p.sn]) /\ IsSliceOf(p.right, emitted[p.sn])
    BY Zenon DEF NeededSlicesAreKept
  <2> QED
    BY <1>2, <2>1, <2>2, ZenonT(30)
<1>5. ASSUME NEW ends \in SUBSET WindowEnds, Triggering(w, ends), NEW t \in worker'[w].trigger, NEW s \in t.slices
      PROVE  s \in DOMAIN slices' /\ emitted'[t.sn] < s + WindowSize
  <2>1. \A u \in worker'[w].trigger : emitted'[u.sn] \in ends /\ u.slices = windows[emitted'[u.sn]].slices
    BY <1>t, <1>5, TriggerNumbers, ZenonT(30)
  <2> DEFINE e == emitted'[t.sn]
  <2>2. e \in Pending /\ slices' = slices /\ t.slices = windows[e].slices
    BY <1>5, <2>1, ZenonT(30) DEF Triggering
  <2>3. s \in windows[e].slices
    BY <2>2, Zenon
  <2>4. \A x \in Pending : \A r \in windows[x].slices : r \in DOMAIN slices /\ x < r + WindowSize
    BY Zenon DEF NeededSlicesAreKept, IsSliceOf
  <2> HIDE DEF e
  <2>5. s \in DOMAIN slices /\ e < s + WindowSize
    BY <2>2, <2>3, <2>4, ZenonT(30)
  <2> QED
    BY <2>2, <2>5, ZenonT(30) DEF e
<1>6. ASSUME NEW v \in Worker, NEW t \in worker'[v].trigger, NEW s \in t.slices
      PROVE  s \in DOMAIN slices' /\ emitted'[t.sn] < s + WindowSize
  <2>1. CASE t \in worker[v].trigger
    BY <1>3, <2>1, ZenonT(30)
  <2>2. CASE t \notin worker[v].trigger
    <3>1. v = w
      BY <1>o, <2>2, ZenonT(30)
    <3>2. worker'[w].trigger \notin {worker[w].trigger, {}}
      BY <2>2, <3>1, ZenonT(30)
    <3>3. ASSUME EmitWindows(w) \/ (\E q \in probes : BeginProbe(w, q)) \/ CloseProbe(w) PROVE FALSE
      <4>1. CASE EmitWindows(w)
        <5>1. worker'[w].trigger = {}
          BY <1>t, <4>1, ZenonT(30) DEF EmitWindows, Idle, Shape
        <5> QED
          BY <3>2, <5>1, ZenonT(30)
      <4>2. ASSUME NEW q \in probes, BeginProbe(w, q) PROVE FALSE
        <5>1. worker'[w].trigger = worker[w].trigger
          BY <1>t, <4>2, ZenonT(30) DEF BeginProbe, Shape, Local
        <5> QED
          BY <3>2, <5>1, ZenonT(30)
      <4>3. CASE CloseProbe(w)
        <5>1. PICK value : worker' = [worker EXCEPT ![w].at = "gcWindows", ![w].value = value]
          BY <4>3, Zenon DEF CloseProbe
        <5>2. worker'[w].trigger = worker[w].trigger
          BY <1>t, <5>1, ZenonT(30) DEF Shape, Local
        <5> QED
          BY <3>2, <5>2, ZenonT(30)
      <4> QED
        BY <3>3, <4>1, <4>2, <4>3, ZenonT(30)
    <3>4. \E ends \in SUBSET WindowEnds : Triggering(w, ends)
      BY <1>t, <3>2, <3>3, ProbeKinds, ZenonT(30) DEF Unprobed
    <3> QED
      BY <1>5, <3>1, <3>4, ZenonT(30)
  <2> QED
    BY <2>1, <2>2, ZenonT(30)
<1>7. ASSUME NEW p \in probes' \cup InHand'
      PROVE  /\ {p.left, p.right} \subseteq DOMAIN slices'
             /\ emitted'[p.sn] < p.left + WindowSize /\ emitted'[p.sn] < p.right + WindowSize
  <2>1. CASE p \in probes \cup InHand
    BY <1>4, <2>1, Zenon
  <2>2. CASE \E t \in worker[w].trigger : p \in Pairs(t.sn, t.slices)
    <3>1. PICK t \in worker[w].trigger : p \in Pairs(t.sn, t.slices)
      BY <2>2, Zenon
    <3>2. t.slices \in SUBSET SliceEnds
      BY Zenon DEF ProbesAreCounted
    <3>3. p.sn = t.sn /\ p.left \in t.slices /\ p.right \in t.slices
      BY <3>1, <3>2, PairsAreCounted
    <3> QED
      BY <1>3, <3>3, Zenon
  <2>3. p \in probes \cup InHand \/ \E t \in worker[w].trigger : p \in Pairs(t.sn, t.slices)
    <3>1. \A q : q \in InHand' => q \in InHand \/ (worker'[w].at = "probe" /\ worker'[w].task = q)
      BY <1>h, HandSteps, InHandIs, ZenonT(30)
    <3>2. CASE Unprobed(w)
      BY <3>1, <3>2, Zenon DEF Unprobed
    <3>3. ASSUME NEW ends \in SUBSET WindowEnds, Triggering(w, ends) PROVE p \in probes \cup InHand
      <4>1. worker'[w].at = "emit" /\ probes' = probes
        BY <1>t, <3>3, TriggerNumbers, ZenonT(30) DEF Triggering
      <4> QED
        BY <3>1, <4>1, Zenon
    <3>4. CASE EmitWindows(w)
      <4>1. worker'[w].at = "idle"
        BY <1>t, <3>4, Zenon DEF EmitWindows, Idle, Shape
      <4>2. InHand' \subseteq InHand
        BY <3>1, <4>1, Zenon
      <4>3. probes' = probes \cup UNION {Pairs(t.sn, t.slices) : t \in worker[w].trigger}
        BY <3>4, Zenon DEF EmitWindows
      <4> QED
        BY <4>2, <4>3, Zenon
    <3>5. ASSUME NEW q \in probes, BeginProbe(w, q) PROVE p \in probes \cup InHand
      <4>1. worker'[w].task = q /\ probes' \subseteq probes
        BY <1>t, <3>5, ZenonT(30) DEF BeginProbe, Shape, Local
      <4> QED
        BY <3>1, <4>1, Zenon
    <3>6. CASE CloseProbe(w)
      <4>1. PICK value : worker' = [worker EXCEPT ![w].at = "gcWindows", ![w].value = value]
        BY <3>6, Zenon DEF CloseProbe
      <4>2. worker'[w].at = "gcWindows" /\ probes' = probes
        BY <1>t, <3>6, <4>1, ZenonT(30) DEF CloseProbe, Shape, Local
      <4> QED
        BY <3>1, <4>2, Zenon
    <3> QED
      BY <1>t, <3>2, <3>3, <3>4, <3>5, <3>6, ProbeKinds, Zenon
  <2> QED
    BY <2>1, <2>2, <2>3, ZenonT(30)
<1> QED
  BY <1>1, <1>6, <1>7, ZenonT(30)
LEMMA NeededSlicesStayKept ==
  ASSUME LibraryFacts, IInv, ProbeInv, NEW w \in Worker, Step(w)
  PROVE  NeededSlicesAreKept'
<1>1. ProbesAreCounted /\ NeededSlicesAreKept /\ CollectionIsSafe
  BY Zenon DEF ProbeInv
<1>2. /\ \A e \in WindowEnds : windows'[e].state = "Absent" => windows'[e].slices = {}
      /\ \A e \in WindowEnds : windows'[e].state = "Emitted" => \E i \in DOMAIN emitted' : emitted'[i] = e
      /\ \A e \in WindowEnds : windows'[e].state \in {"Filling", "Waiting"} =>
              \A s \in windows'[e].slices : s \in DOMAIN slices' /\ e < s + WindowSize
  BY <1>1, WindowsKeepSlices, Zenon
<1>3. /\ \A v \in Worker : worker'[v].at = "register" => SliceEnd(worker'[v].task.ts) \in DOMAIN slices'
      /\ \A v \in Worker : \A t \in worker'[v].trigger : \A s \in t.slices :
              s \in DOMAIN slices' /\ emitted'[t.sn] < s + WindowSize
      /\ \A p \in probes' \cup InHand' :
              {p.left, p.right} \subseteq DOMAIN slices'
              /\ emitted'[p.sn] < p.left + WindowSize /\ emitted'[p.sn] < p.right + WindowSize
  BY <1>1, TasksKeepSlices, Zenon
<1>4. \A p \in probes' \cup InHand' :
        /\ p.left \in DOMAIN slices' /\ emitted'[p.sn] < p.left + WindowSize
        /\ p.right \in DOMAIN slices' /\ emitted'[p.sn] < p.right + WindowSize
  BY <1>3, Zenon
<1>5. Pending' = {e \in WindowEnds : windows'[e].state \in {"Filling", "Waiting"}}
  BY Zenon DEF Pending
<1>6. \A e \in Pending' : \A s \in windows'[e].slices : s \in DOMAIN slices' /\ e < s + WindowSize
  BY <1>2, <1>5, Zenon
<1> QED
  BY <1>2, <1>3, <1>4, <1>6, Zenon DEF NeededSlicesAreKept, IsSliceOf, At

LEMMA StepProbeInv ==
  ASSUME LibraryFacts, IInv, ProbeInv, NEW w \in Worker, Step(w)
  PROVE  ProbeInv'
<1>1. TypeOK /\ ProbesAreCounted /\ CollectionIsSafe
  BY Zenon DEF ProbeInv, IInv
<1>2. ProbesAreCounted' /\ CollectionIsSafe'
  BY <1>1, ProbesStayCounted, CollectionStaysSafe, ZenonT(30)
<1> QED
  BY <1>2, NeededSlicesStayKept, Zenon DEF ProbeInv

LEMMA StutteringProbeInv ==
  ASSUME ProbeInv, UNCHANGED vars
  PROVE  ProbeInv'
<1>1. UNCHANGED <<worker, slices, windows, emitted, probes, probed>>
  BY Zenon DEF vars, storeVars, taskVars
<1>2. InHand' = InHand /\ ProbeTasks' = ProbeTasks /\ Pending' = Pending
  BY <1>1, Zenon DEF InHand, ProbeTasks, Pending, At
<1>3. ProbesAreCounted'
  BY <1>1, <1>2, ZenonT(30) DEF ProbeInv, ProbesAreCounted, At
<1>4. NeededSlicesAreKept'
  BY <1>1, <1>2, Zenon DEF ProbeInv, NeededSlicesAreKept, IsSliceOf, At
<1>5. CollectionIsSafe'
  BY <1>1, Zenon DEF ProbeInv, CollectionIsSafe, Complete
<1> QED
  BY <1>3, <1>4, <1>5, ZenonT(30) DEF ProbeInv

LEMMA InitProbeInv == Init => ProbeInv
<1> SUFFICES ASSUME Init PROVE ProbeInv
  BY Zenon
<1>1. \A w \in Worker : worker[w].at = "idle" /\ worker[w].trigger = {}
  BY Zenon DEF Init, Idle
<1>2. probes = {} /\ probed = {} /\ emitted = <<>> /\ DOMAIN emitted = {}
  BY DEF Init
<1>3. InHand = {} /\ ProbeTasks = {}
  BY <1>1, <1>2, Zenon DEF InHand, ProbeTasks, At
<1>4. \A e \in WindowEnds : windows[e].state = "Absent" /\ windows[e].slices = {}
  BY Zenon DEF Init, Absent
<1>5. Pending = {}
  BY <1>4, Zenon DEF Pending
<1>6. ProbesAreCounted
  BY <1>1, <1>2, <1>3, ZenonT(30) DEF ProbesAreCounted, At
<1>7. NeededSlicesAreKept
  BY <1>1, <1>2, <1>3, <1>4, <1>5, ZenonT(30) DEF NeededSlicesAreKept, At
<1>8. CollectionIsSafe
  BY <1>1, Zenon DEF CollectionIsSafe
<1> QED
  BY <1>6, <1>7, <1>8, ZenonT(30) DEF ProbeInv

-----------------------------------------------------------------------------
\* The theorems

INSTANCE FiniteSetTheorems
INSTANCE SequenceTheorems

LEMMA TheLibrary == LibraryFacts
<1>1. Empty /\ Count
  BY FS_EmptySet, FS_CardinalityType DEF Empty, Count
<1>2. Subset
  BY FS_Subset DEF Subset
<1>3. OneMore /\ OneLess
  BY FS_AddElement, FS_RemoveElement DEF OneMore, OneLess
<1>4. Interval /\ Bounded
  BY FS_Interval, FS_BoundedSetOfNaturals DEF Interval, Bounded
<1>5. Image /\ SameCount
  BY FS_Surjection, FS_Bijection DEF Image, SameCount
<1>6. Union /\ Product
  BY FS_UNION, FS_Product DEF Union, Product
<1>7. Minimum
  <2> SUFFICES ASSUME NEW S \in SUBSET Nat, S # {} PROVE \E x \in S : \A y \in S : x <= y
    BY Zenon DEF Minimum
  <2>1. PICK x \in S : \A y \in S : ~(<<y, x>> \in OpToRel(<, Nat))
    BY NatLessThanWellFounded, WFMin, Zenon
  <2>2. ASSUME NEW y \in S PROVE ~(y < x)
    <3>1. <<y, x>> \in Nat \X Nat /\ <<y, x>>[1] = y /\ <<y, x>>[2] = x
      BY Zenon
    <3>2. y < x => <<y, x>> \in OpToRel(<, Nat)
      BY <3>1, Zenon DEF OpToRel
    <3> QED
      BY <3>2, <2>1, Zenon
  <2>3. \A y \in S : x <= y
    BY <2>2
  <2> QED
    BY <2>3, Zenon
<1>8. Length
  BY LenProperties DEF Length
<1>9. List
  BY IsASeq, LenProperties DEF List
<1>10. Concat
  BY ConcatProperties DEF Concat
<1> QED
  BY <1>1, <1>2, <1>3, <1>4, <1>5, <1>6, <1>7, <1>8, <1>9, <1>10, Zenon DEF LibraryFacts

\* The inductive invariant of the window store: every chunk is in one place,
\* counters and stored values are exact, what workers have read as watermark is
\* safe, and triggered windows lie in the past of everything still to come.
THEOREM Invariance == Spec => []IInv
<1>1. IInv /\ [Next]_vars => IInv'
  <2> SUFFICES ASSUME IInv, [Next]_vars PROVE IInv'
    BY Zenon
  <2>1. ASSUME NEW w \in Worker, Step(w) PROVE IInv'
    BY <2>1, TheLibrary, StepIInv, Zenon
  <2>2. CASE UNCHANGED vars
    BY <2>2, Stuttering, Zenon
  <2> QED
    BY <2>1, <2>2, Zenon DEF Next
<1>2. Init => IInv
  BY TheLibrary, InitIInv, Zenon
<1> QED
  BY <1>1, <1>2, PTL DEF Spec

\* NonBlockingMonotonicSeqQueue, with any number of workers that store sequence
\* numbers out of order: a number that is stored behind a gap is passed once the
\* gap is closed, by whoever closes it.
THEOREM NoShiftIsEverLost == Spec => []NoShiftIsLost
<1>1. IInv => NoShiftIsLost
  BY Zenon DEF IInv
<1> QED
  BY <1>1, Invariance, PTL

\* A window that checkAndTriggerWindows or the end of the last pipeline has
\* triggered is complete: no worker has a record for it, so the WindowingError
\* of a slice added to a triggered window is never thrown.
THEOREM NoRecordIsEverLate == Spec => []NoRecordIsLate
<1>1. ASSUME IInv PROVE NoRecordIsLate
  <2>1. TypeOK /\ ChunksAreHeldOnce /\ TriggeredIsPast
    BY <1>1, Zenon DEF IInv
  <2> SUFFICES ASSUME NEW w \in Worker, Building(w), NEW i \in DOMAIN emitted,
                      emitted[i] \in ContainingWindows(WindowSize, WindowSlide, worker[w].task.ts)
               PROVE  FALSE
    BY Zenon DEF NoRecordIsLate
  <2>2. worker[w].task \in Ahead /\ worker[w].task.ts # 0 /\ worker[w].task.ts \in Nat
    BY <2>1, TaskFacts, InputType, ZenonT(30) DEF Building, Build, ChunksAreHeldOnce
  <2>3. emitted[i] < worker[w].task.ts
    BY <2>1, <2>2, Zenon DEF TriggeredIsPast
  <2>4. emitted[i] \in Nat /\ worker[w].task.ts < emitted[i]
    BY <2>2, WindowsEndLater, ZenonT(30)
  <2> QED
    BY <2>2, <2>3, <2>4
<1>2. IInv => NoRecordIsLate
  BY <1>1, Zenon
<1> QED
  BY <1>2, Invariance, PTL

\* The sequence numbers of the triggered windows follow their ends, although
\* many workers trigger windows, and no window is triggered twice.
THEOREM EachWindowOnceInOrder == Spec => []TriggeredOnceInOrder
<1>1. IInv => TriggeredOnceInOrder
  BY Zenon DEF IInv, TriggeredOnceInOrder
<1> QED
  BY <1>1, Invariance, PTL

\* garbageCollectSlicesAndWindows never removes a slice that a probe task still
\* needs, however late the worker that collects uses the watermark it has read:
\* the INVARIANT that NLJProbePhysicalOperatorBase.cpp asserts, since a probe
\* uses the slices without owning them.
THEOREM ProbesAlwaysFindTheirSlices == Spec => []ProbesFindTheirSlices
<1>1. IInv /\ ProbeInv /\ [Next]_vars => ProbeInv'
  <2> SUFFICES ASSUME IInv, ProbeInv, [Next]_vars PROVE ProbeInv'
    BY Zenon
  <2>1. ASSUME NEW w \in Worker, Step(w) PROVE ProbeInv'
    BY <2>1, TheLibrary, StepProbeInv, Zenon
  <2>2. CASE UNCHANGED vars
    BY <2>2, StutteringProbeInv, Zenon
  <2> QED
    BY <2>1, <2>2, Zenon DEF Next
<1>2. ProbeInv => ProbesFindTheirSlices
  BY Zenon DEF ProbeInv, NeededSlicesAreKept, ProbesFindTheirSlices, IsSliceOf
<1> QED
  BY <1>1, <1>2, InitProbeInv, Invariance, PTL DEF Spec
=============================================================================
