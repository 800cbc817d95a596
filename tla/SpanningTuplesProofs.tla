------------------------ MODULE SpanningTuplesProofs -------------------------
(***************************************************************************)
(* Spanning tuples for any number of workers, any stream and any ring:     *)
(* each tuple is resolved once, by one worker that gets all of its         *)
(* buffers, and none is missed, although the workers share the ring        *)
(* without a lock.                                                         *)
(***************************************************************************)
EXTENDS SpanningTuples, TLAPS

-----------------------------------------------------------------------------
\* Places in the ring

LEMMA Places ==
  ASSUME NEW a \in Nat
  PROVE  Index(a) \in 0..(RingSize - 1) /\ ABAItNo(a) \in Nat /\ ABAItNo(a) > 0
  BY RingType DEF Index, ABAItNo

\* How far apart two buffers are says how many rounds they are apart.
LEMMA Apart ==
  ASSUME NEW a \in Nat, NEW b \in Nat
  PROVE  LET d == ABAItNo(b) - ABAItNo(a) IN
         /\ d \in Int /\ RingSize * d \in Int
         /\ (b - Index(b)) - (a - Index(a)) = RingSize * d
         /\ d >= 1 => RingSize * d >= RingSize
         /\ RingSize * d > 0 => d >= 1
<1> DEFINE d == ABAItNo(b) - ABAItNo(a)
           x == ABAItNo(a) - 1
           y == ABAItNo(b) - 1
<1>1. d \in Int /\ x \in Int /\ y \in Int /\ d = y - x
  BY Places
<1>2. a = RingSize * x + Index(a) /\ b = RingSize * y + Index(b)
  <2>1. ASSUME NEW c \in Nat PROVE c = RingSize * (c \div RingSize) + (c % RingSize) /\ c \div RingSize \in Int
    BY <2>1, RingType
  <2>2. ASSUME NEW c \in Nat PROVE c = RingSize * (ABAItNo(c) - 1) + Index(c)
    <3>1. c = RingSize * (c \div RingSize) + (c % RingSize) /\ c \div RingSize \in Int
      BY <2>1, <2>2, Zenon
    <3>2. ABAItNo(c) - 1 = c \div RingSize
      BY <3>1 DEF ABAItNo
    <3> QED
      BY <3>1, <3>2, Zenon DEF Index
  <2> QED
    BY <2>2, Zenon
<1> HIDE DEF d, x, y
<1>3. RingSize * d = RingSize * y - RingSize * x /\ RingSize * d \in Int
      /\ RingSize * x \in Int /\ RingSize * y \in Int
  BY <1>1, RingType
<1>4. (d >= 1 => RingSize * d >= RingSize) /\ (RingSize * d > 0 => d >= 1)
  BY <1>1, RingType
<1>5. (b - Index(b)) - (a - Index(a)) = RingSize * d
  <2>1. PICK p \in Int : p = RingSize * x
    BY <1>3, Zenon
  <2>2. PICK q \in Int : q = RingSize * y
    BY <1>3, Zenon
  <2>3. a = p + Index(a) /\ b = q + Index(b) /\ RingSize * d = q - p
    BY <1>2, <1>3, <2>1, <2>2, Zenon
  <2>4. (b - Index(b)) - (a - Index(a)) = q - p
    BY <2>3, Places
  <2> QED
    BY <2>3, <2>4, Zenon
<1> QED
  BY <1>1, <1>3, <1>4, <1>5, Zenon DEF d

\* Buffers that share an entry are at least a round apart.
LEMMA Rounds ==
  ASSUME NEW a \in Nat, NEW b \in Nat, a < b, Index(a) = Index(b)
  PROVE  ABAItNo(a) < ABAItNo(b) /\ a + RingSize <= b
<1> DEFINE d == ABAItNo(b) - ABAItNo(a)
<1>1. PICK p \in Int : p = RingSize * d
  BY Apart, Zenon
<1>2. (b - Index(b)) - (a - Index(a)) = p /\ (d >= 1 => p >= RingSize) /\ (p > 0 => d >= 1)
  BY <1>1, Apart, Zenon
<1>3. d >= 1 /\ p >= RingSize
  BY <1>2, Places
<1> QED
  BY <1>2, <1>3, Places, RingType

LEMMA SamePlace ==
  ASSUME NEW a \in Nat, NEW b \in Nat, Index(a) = Index(b)
  PROVE  /\ ABAItNo(a) = ABAItNo(b) <=> a = b
         /\ ABAItNo(a) < ABAItNo(b) <=> a < b
<1>1. CASE a = b
  BY <1>1, Places
<1>2. CASE a < b
  BY <1>2, Places, Rounds
<1>3. CASE b < a
  BY <1>3, Places, Rounds
<1> QED
  BY <1>1, <1>2, <1>3

\* Which entry and round a buffer near another one has.
LEMMA Near ==
  ASSUME NEW a \in Nat, NEW b \in Nat, NEW i \in 0..(RingSize - 1)
  PROVE  /\ b - i = a - Index(a) => Index(b) = i /\ ABAItNo(b) = ABAItNo(a)
         /\ b - i = (a - Index(a)) + RingSize => Index(b) = i /\ ABAItNo(b) = ABAItNo(a) + 1
         /\ b - i = (a - Index(a)) - RingSize => Index(b) = i /\ ABAItNo(b) = ABAItNo(a) - 1
<1>q. ASSUME NEW m \in Int, b = RingSize * (m - 1) + i PROVE Index(b) = i /\ ABAItNo(b) = m
  <2>1. ASSUME NEW q \in Int
        PROVE  (RingSize * q + i) % RingSize = i /\ (RingSize * q + i) \div RingSize = q
    BY <2>1, RingType
  <2>2. m - 1 \in Int
    BY <1>q
  <2>3. b % RingSize = i /\ b \div RingSize = m - 1
    BY <1>q, <2>1, <2>2, Zenon
  <2> QED
    BY <1>q, <2>3 DEF Index, ABAItNo
<1> DEFINE n == ABAItNo(a)
           p == RingSize * (n - 1)
<1>1. n \in Int /\ Index(a) \in Int /\ n + 1 \in Int /\ n - 1 \in Int
  BY Places
<1>2. p \in Int /\ a = p + Index(a)
  <2>1. p \in Int
    <3> HIDE DEF n
    <3> QED
      BY <1>1, RingType
  <2>2. a = RingSize * (a \div RingSize) + (a % RingSize) /\ a \div RingSize \in Int
    BY RingType
  <2>3. n - 1 = a \div RingSize
    BY <2>2 DEF ABAItNo
  <2> QED
    BY <2>1, <2>2, <2>3, Zenon DEF Index
<1>3. RingSize * ((n + 1) - 1) = p + RingSize /\ RingSize * ((n - 1) - 1) = p - RingSize
  <2> HIDE DEF n
  <2> QED
    BY <1>1, RingType
<1>4. ASSUME b - i = a - Index(a) PROVE Index(b) = i /\ ABAItNo(b) = n
  <2>1. b = p + i
    <3> HIDE DEF p
    <3> QED
      BY <1>2, <1>4, <1>1
  <2> QED
    BY <1>1, <2>1, <1>q, Zenon
<1>5. ASSUME b - i = (a - Index(a)) + RingSize PROVE Index(b) = i /\ ABAItNo(b) = n + 1
  <2>1. b = (p + RingSize) + i
    <3> HIDE DEF p
    <3> QED
      BY <1>2, <1>5, <1>1, RingType
  <2>2. b = RingSize * ((n + 1) - 1) + i
    BY <2>1, <1>3, Zenon
  <2> QED
    BY <1>1, <2>2, <1>q, Zenon
<1>6. ASSUME b - i = (a - Index(a)) - RingSize PROVE Index(b) = i /\ ABAItNo(b) = n - 1
  <2>1. b = (p - RingSize) + i
    <3> HIDE DEF p
    <3> QED
      BY <1>2, <1>6, <1>1, RingType
  <2>2. b = RingSize * ((n - 1) - 1) + i
    BY <2>1, <1>3, Zenon
  <2> QED
    BY <1>1, <2>2, <1>q, Zenon
<1> QED
  BY <1>4, <1>5, <1>6, Zenon

LEMMA NextRound ==
  ASSUME NEW a \in Nat
  PROVE  Index(a + RingSize) = Index(a) /\ ABAItNo(a + RingSize) = ABAItNo(a) + 1
<1>1. a + RingSize \in Nat /\ (a + RingSize) - Index(a) = (a - Index(a)) + RingSize
      /\ Index(a) \in 0..(RingSize - 1)
  BY Places, RingType
<1> QED
  BY <1>1, Near, Zenon

LEMMA ABAItNoGrows ==
  ASSUME NEW a \in Nat, NEW b \in Nat, a <= b
  PROVE  ABAItNo(a) <= ABAItNo(b)
<1> SUFFICES ASSUME ABAItNo(b) < ABAItNo(a) PROVE FALSE
  BY Places
<1> DEFINE d == ABAItNo(a) - ABAItNo(b)
<1>1. PICK p \in Int : p = RingSize * d
  BY Apart, Zenon
<1>2. (a - Index(a)) - (b - Index(b)) = p /\ (d >= 1 => p >= RingSize)
  BY <1>1, Apart, Zenon
<1>3. p >= RingSize
  BY <1>2, Places
<1> QED
  BY <1>2, <1>3, Places, RingType

\* Remainders of numbers less than two rounds.
LEMMA SmallRemainder ==
  ASSUME NEW x \in Nat
  PROVE  /\ x < RingSize => x % RingSize = x
         /\ RingSize <= x /\ x < RingSize + RingSize => x % RingSize = x - RingSize
<1>q. ASSUME NEW q \in Int, NEW r \in 0..(RingSize - 1)
      PROVE  (RingSize * q + r) % RingSize = r
  BY <1>q, RingType
<1>1. ASSUME x < RingSize PROVE x % RingSize = x
  <2>1. x \in 0..(RingSize - 1) /\ x = RingSize * 0 + x /\ 0 \in Int
    BY <1>1, RingType
  <2> QED
    BY <2>1, <1>q, Zenon
<1>2. ASSUME RingSize <= x, x < RingSize + RingSize PROVE x % RingSize = x - RingSize
  <2>1. x - RingSize \in 0..(RingSize - 1) /\ x = RingSize * 1 + (x - RingSize) /\ 1 \in Int
    BY <1>2, RingType
  <2> QED
    BY <2>1, <1>q, Zenon
<1> QED
  BY <1>1, <1>2, Zenon

\* The searches read the entries of the buffers before and after.
LEMMA LeadingPlace ==
  ASSUME NEW sn \in Nat, NEW d \in 1..RingSize, d <= sn
  PROVE  LeadingIndex(sn, d) = Index(sn - d) /\ LeadingABA(sn, d) = ABAItNo(sn - d)
<1> DEFINE i == Index(sn)
<1>0. i \in 0..(RingSize - 1) /\ sn - d \in Nat /\ (i + RingSize) - d \in Nat
  BY Places, RingType
<1>1. CASE i < d
  <2>1. /\ (i + RingSize) - d \in 0..(RingSize - 1)
        /\ (i + RingSize) - d < RingSize
        /\ (sn - d) - ((i + RingSize) - d) = (sn - i) - RingSize
    BY <1>0, <1>1, RingType
  <2>2. Index(sn - d) = (i + RingSize) - d /\ ABAItNo(sn - d) = ABAItNo(sn) - 1
    BY <1>0, <2>1, Near, Zenon
  <2>3. ((i + RingSize) - d) % RingSize = (i + RingSize) - d
    BY <1>0, <2>1, SmallRemainder, Zenon
  <2>4. LeadingIndex(sn, d) = ((i + RingSize) - d) % RingSize
    BY <1>0, RingType DEF LeadingIndex
  <2> QED
    BY <1>1, <2>2, <2>3, <2>4, Zenon DEF LeadingABA
<1>2. CASE ~(i < d)
  <2>1. /\ i - d \in 0..(RingSize - 1)
        /\ RingSize <= (i + RingSize) - d /\ (i + RingSize) - d < RingSize + RingSize
        /\ (sn - d) - (i - d) = sn - i
        /\ ((i + RingSize) - d) - RingSize = i - d
    BY <1>0, <1>2, RingType
  <2>2. Index(sn - d) = i - d /\ ABAItNo(sn - d) = ABAItNo(sn)
    BY <1>0, <2>1, Near, Zenon
  <2>3. ((i + RingSize) - d) % RingSize = i - d
    BY <1>0, <2>1, SmallRemainder, Zenon
  <2>4. LeadingIndex(sn, d) = ((i + RingSize) - d) % RingSize
    BY <1>0, RingType DEF LeadingIndex
  <2> QED
    BY <1>2, <2>2, <2>3, <2>4, Zenon DEF LeadingABA
<1> QED
  BY <1>1, <1>2, Zenon

LEMMA TrailingPlace ==
  ASSUME NEW sn \in Nat, NEW d \in 1..RingSize
  PROVE  TrailingIndex(sn, d) = Index(sn + d) /\ TrailingABA(sn, d) = ABAItNo(sn + d)
<1> DEFINE i == Index(sn)
<1>0. i \in 0..(RingSize - 1) /\ sn + d \in Nat /\ i + d \in Nat /\ i + d < RingSize + RingSize
  BY Places, RingType
<1>1. CASE i + d >= RingSize
  <2>1. /\ (i + d) - RingSize \in 0..(RingSize - 1) /\ RingSize <= i + d
        /\ (sn + d) - ((i + d) - RingSize) = (sn - i) + RingSize
    BY <1>0, <1>1, RingType
  <2>2. Index(sn + d) = (i + d) - RingSize /\ ABAItNo(sn + d) = ABAItNo(sn) + 1
    BY <1>0, <2>1, Near, Zenon
  <2>3. (i + d) % RingSize = (i + d) - RingSize
    BY <1>0, <2>1, SmallRemainder, Zenon
  <2> QED
    BY <1>1, <2>2, <2>3, Zenon DEF TrailingIndex, TrailingABA
<1>2. CASE ~(i + d >= RingSize)
  <2>1. i + d \in 0..(RingSize - 1) /\ i + d < RingSize /\ (sn + d) - (i + d) = sn - i
    BY <1>0, <1>2, RingType
  <2>2. Index(sn + d) = i + d /\ ABAItNo(sn + d) = ABAItNo(sn)
    BY <1>0, <2>1, Near, Zenon
  <2>3. (i + d) % RingSize = i + d
    BY <1>0, <2>1, SmallRemainder, Zenon
  <2> QED
    BY <1>2, <2>2, <2>3, Zenon DEF TrailingIndex, TrailingABA
<1> QED
  BY <1>1, <1>2, Zenon

\* The entry after the entry of a buffer is the next buffer's.
LEMMA NextPlace ==
  ASSUME NEW sn \in Nat
  PROVE  /\ Index(sn + 1) = (Index(sn) + 1) % RingSize
         /\ ABAItNo(sn + 1) = IF Index(sn) = RingSize - 1 THEN ABAItNo(sn) + 1 ELSE ABAItNo(sn)
<1>1. 1 \in 1..RingSize
  BY RingType
<1>2. TrailingIndex(sn, 1) = Index(sn + 1) /\ TrailingABA(sn, 1) = ABAItNo(sn + 1)
  BY <1>1, TrailingPlace, Zenon
<1>3. Index(sn) + 1 >= RingSize <=> Index(sn) = RingSize - 1
  BY Places, RingType
<1> QED
  BY <1>2, <1>3, Zenon DEF TrailingIndex, TrailingABA

-----------------------------------------------------------------------------
\* The parts of the invariant

Ring == 0..(RingSize - 1)
Place == {"idle", "set", "publish", "searchLeading", "searchTrailing",
          "claim", "takeFirst", "markFirst", "take", "mark"}
Workers == [at : Place, sn : 0..Last, distance : Nat, first : 0..Last, final : 0..Last, buffers : Seq(0..Last)]
Entries == [aba : Nat, delimiter : BOOLEAN, claimed : BOOLEAN, usedLeading : BOOLEAN,
            usedTrailing : BOOLEAN, leading : 0..Last, trailing : 0..Last]

LEMMA TypeFacts ==
  ASSUME Types
  PROVE  /\ worker \in [Worker -> Workers] /\ entry \in [Ring -> Entries]
         /\ \A w \in Worker : worker[w] \in Workers
         /\ \A i \in Ring : entry[i] \in Entries
         /\ Last \in Nat /\ \A sn \in 0..Last : sn \in Nat /\ Index(sn) \in Ring /\ entry[Index(sn)] \in Entries
         /\ \A sn \in Buffer : sn \in 0..Last /\ sn # 0
<1>1. worker \in [Worker -> Workers]
  BY Zenon DEF Types, Workers, Place
<1>2. Last \in Nat /\ ABAItNo(Last) \in Nat
  BY StreamIsNotEmpty, Places
<1>3. entry \in [Ring -> [aba : 0..ABAItNo(Last), delimiter : BOOLEAN, claimed : BOOLEAN, usedLeading : BOOLEAN,
                     usedTrailing : BOOLEAN, leading : 0..Last, trailing : 0..Last]]
  BY Zenon DEF Types, TypeOK, Ring
<1>4. \A k \in 0..ABAItNo(Last) : k \in Nat
  BY <1>2
<1>5. entry \in [Ring -> Entries]
  BY <1>3, <1>4, Zenon DEF Entries
<1>6. \A sn \in 0..Last : sn \in Nat
  BY <1>2
<1>7. \A sn \in 0..Last : sn \in Nat /\ Index(sn) \in Ring
  BY <1>6, Places, Zenon DEF Ring
<1>8. \A sn \in Buffer : sn \in 0..Last /\ sn # 0
  BY <1>2 DEF Buffer
<1> QED
  BY <1>1, <1>2, <1>5, <1>7, <1>8, Zenon

IsTuple(a, b) == a \in delimited /\ b \in delimited /\ a < b /\ \A c \in delimited : ~(a < c /\ c < b)

LEMMA Tuples ==
  ASSUME Types
  PROVE  /\ delimited \subseteq 0..Last /\ \A c \in delimited : c \in Nat
         /\ \A a, b : <<a, b>> \in SpanningTuple <=> IsTuple(a, b)
         /\ \A t \in SpanningTuple : t = <<t[1], t[2]>> /\ IsTuple(t[1], t[2])
         /\ \A a, b : IsTuple(a, b) => a \in 0..Last /\ b \in 0..Last
<1>1. delimited \subseteq 0..Last
  BY Zenon DEF Types, TypeOK
<1>2. \A c \in delimited : c \in Nat
  BY <1>1, StreamIsNotEmpty
<1>3. ASSUME NEW a, NEW b PROVE <<a, b>> \in SpanningTuple <=> IsTuple(a, b)
  BY DEF SpanningTuple, IsTuple
<1>4. ASSUME NEW t \in SpanningTuple PROVE t = <<t[1], t[2]>> /\ IsTuple(t[1], t[2])
  BY DEF SpanningTuple, IsTuple
<1> QED
  BY <1>1, <1>2, <1>3, <1>4, Zenon DEF IsTuple

\* A buffer continues one tuple, and completes one.
LEMMA OneTuple ==
  ASSUME Types, NEW a, NEW b, NEW c, NEW d, NEW sn \in Nat, IsTuple(a, b), IsTuple(c, d)
  PROVE  /\ a <= sn /\ sn < b /\ c <= sn /\ sn < d => a = c /\ b = d
         /\ a < sn /\ sn <= b /\ c < sn /\ sn <= d => a = c /\ b = d
         /\ a = c => b = d
<1>1. a \in Nat /\ b \in Nat /\ c \in Nat /\ d \in Nat
  BY Tuples, Zenon DEF IsTuple
<1> QED
  BY <1>1 DEF IsTuple

\* Nobody has won the tuple that starts in a.
Nobody(a) == (\A w \in Worker : Taking(w) => worker[w].first # a) /\ \A x \in resolved : x.first # a

\* SearchesAreExact, for one worker.
Exact(w) ==
  LET r == worker[w] IN
  /\ r.at \in {"set", "publish", "searchLeading", "searchTrailing", "claim"} => r.buffers = <<>>
  /\ r.at \in {"set", "publish", "searchLeading"} => r.first = 0
  /\ r.at = "searchLeading" =>
      /\ r.distance \in 1..r.sn
      /\ \A c \in (r.sn - r.distance + 1)..r.sn : Published(c) /\ (c < r.sn => c \notin delimited)
  /\ r.at = "searchTrailing" =>
      /\ r.distance # 0 /\ r.first \in delimited /\ r.first <= r.sn
      /\ r.sn + r.distance <= Last + 1
      /\ \A c \in r.first..(r.sn + r.distance - 1) : Published(c) /\ (c > r.first => c \notin delimited)
  /\ r.at = "claim" \/ Taking(w) => Complete(r.first, r.final) /\ r.first <= r.sn /\ r.sn <= r.final

TakesInOrder(w) ==
  Taking(w) =>
    LET r == worker[w] IN
    /\ r.at = "takeFirst" => Taken(w) = 0
    /\ r.at = "markFirst" => Taken(w) = 1
    /\ r.at = "take" => Taken(w) \in 1..(r.final - r.first)
    /\ r.at = "mark" => Taken(w) \in 2..(r.final - r.first + 1)
    /\ \A k \in 1..Taken(w) : r.buffers[k] = r.first + k - 1
AllTakeInOrder == \A w \in Worker : TakesInOrder(w)
OneTaker == \A u, v \in Worker : Taking(u) /\ Taking(v) /\ worker[u].first = worker[v].first => u = v
NotTakenAgain == \A v \in Worker : Taking(v) => \A x \in resolved : x.first # worker[v].first
ResolvedWhole == \A x \in resolved : /\ Complete(x.first, x.first + Len(x.buffers) - 1)
                                     /\ \A k \in 1..Len(x.buffers) : x.buffers[k] = x.first + k - 1
ResolvedOnce == \A x, y \in resolved : x.first = y.first => x = y
ClaimedIsWon == \A a \in delimited : Published(a) => (Held(a) /\ ~entry[Index(a)].claimed <=> Nobody(a))

LEMMA ClaimParts ==
  ClaimsAreExclusive <=>
    /\ AllTakeInOrder /\ OneTaker /\ NotTakenAgain /\ ResolvedWhole /\ ResolvedOnce /\ ClaimedIsWon
<1> DEFINE Right == /\ AllTakeInOrder /\ OneTaker /\ NotTakenAgain /\ ResolvedWhole /\ ResolvedOnce /\ ClaimedIsWon
<1>1. ASSUME ClaimsAreExclusive PROVE Right
  <2>1. AllTakeInOrder
    BY <1>1, Zenon DEF ClaimsAreExclusive, TakesInOrder, AllTakeInOrder
  <2>2. OneTaker
    BY <1>1, Zenon DEF ClaimsAreExclusive, OneTaker
  <2>3. NotTakenAgain
    BY <1>1, Zenon DEF ClaimsAreExclusive, NotTakenAgain
  <2>4. ResolvedWhole /\ ResolvedOnce
    BY <1>1, Zenon DEF ClaimsAreExclusive, ResolvedWhole, ResolvedOnce
  <2>5. ClaimedIsWon
    BY <1>1, Zenon DEF ClaimsAreExclusive, ClaimedIsWon, Nobody
  <2> QED
    BY <2>1, <2>2, <2>3, <2>4, <2>5, Zenon
<1>2. ASSUME Right PROVE ClaimsAreExclusive
  <2>1. ASSUME NEW w \in Worker, Taking(w)
        PROVE  LET r == worker[w] IN
               /\ r.at = "takeFirst" => Taken(w) = 0
               /\ r.at = "markFirst" => Taken(w) = 1
               /\ r.at = "take" => Taken(w) \in 1..(r.final - r.first)
               /\ r.at = "mark" => Taken(w) \in 2..(r.final - r.first + 1)
               /\ \A k \in 1..Taken(w) : r.buffers[k] = r.first + k - 1
               /\ \A v \in Worker : Taking(v) /\ worker[v].first = r.first => v = w
               /\ \A x \in resolved : x.first # r.first
    BY <1>2, <2>1, Zenon DEF AllTakeInOrder, TakesInOrder, OneTaker, NotTakenAgain
  <2>2. \A a \in delimited : Published(a) =>
          (Held(a) /\ ~entry[Index(a)].claimed
            <=> (\A w \in Worker : Taking(w) => worker[w].first # a) /\ \A x \in resolved : x.first # a)
    BY <1>2, Zenon DEF ClaimedIsWon, Nobody
  <2> QED
    BY <1>2, <2>1, <2>2, Zenon DEF ClaimsAreExclusive, ResolvedWhole, ResolvedOnce
<1> QED
  BY <1>1, <1>2, Zenon

LEMMA ClaimPartsThen ==
  AllTakeInOrder' /\ OneTaker' /\ NotTakenAgain' /\ ResolvedWhole' /\ ResolvedOnce' /\ ClaimedIsWon'
    => ClaimsAreExclusive'
<1>1. (ClaimsAreExclusive <=>
         /\ AllTakeInOrder /\ OneTaker /\ NotTakenAgain /\ ResolvedWhole /\ ResolvedOnce /\ ClaimedIsWon)'
  BY ClaimParts, PTL
<1> QED
  BY <1>1, Zenon

MarkedRight(sn) ==
  Published(sn) =>
    /\ Held(sn) /\ ~entry[Index(sn)].usedTrailing <=> ~TrailingMarked(sn)
    /\ Held(sn) /\ ~entry[Index(sn)].usedLeading <=> sn # 0 /\ ~LeadingMarked(sn)

KeepsReferences(sn) ==
  Held(sn) =>
    /\ ~entry[Index(sn)].usedTrailing => entry[Index(sn)].trailing = IF TrailingTaken(sn) THEN Null ELSE sn
    /\ ~entry[Index(sn)].usedLeading => entry[Index(sn)].leading = IF LeadingTaken(sn) THEN Null ELSE sn
SetIsSet(v) ==
  worker[v].at = "publish" => /\ entry[Index(worker[v].sn)].leading = worker[v].sn
                              /\ entry[Index(worker[v].sn)].trailing = worker[v].sn
Unset(i) == \A v \in Worker : worker[v].at = "publish" => Index(worker[v].sn) # i
UsedIsEmpty(i) ==
  Unset(i) => /\ entry[i].usedLeading => entry[i].leading = Null
              /\ entry[i].usedTrailing => entry[i].trailing = Null

LEMMA ReferenceParts ==
  ReferencesAreKept <=> /\ \A sn \in 0..Last : KeepsReferences(sn)
                        /\ \A v \in Worker : SetIsSet(v)
                        /\ \A i \in Ring : UsedIsEmpty(i)
  BY Zenon DEF ReferencesAreKept, KeepsReferences, SetIsSet, UsedIsEmpty, Unset, At, Ring

LEMMA ReferencePartsThen ==
  ASSUME \A sn \in 0..Last : KeepsReferences(sn)', \A v \in Worker : SetIsSet(v)', \A i \in Ring : UsedIsEmpty(i)'
  PROVE  ReferencesAreKept'
  BY Zenon DEF ReferencesAreKept, KeepsReferences, SetIsSet, UsedIsEmpty, Unset, At, Ring

Sought(a, b) == (\A c \in a..b : Published(c)) /\ Held(a) /\ ~entry[Index(a)].claimed

LEMMA FoundParts ==
  ASSUME Types
  PROVE  TuplesAreFound <=> \A a, b \in 0..Last : IsTuple(a, b) /\ Sought(a, b) => \E v \in Worker : Finder(v, a, b)
<1>1. ASSUME TuplesAreFound, NEW a \in 0..Last, NEW b \in 0..Last, IsTuple(a, b), Sought(a, b)
      PROVE  \E v \in Worker : Finder(v, a, b)
  <2>1. PICK t \in SpanningTuple : t = <<a, b>>
    BY <1>1, Tuples, Zenon
  <2>2. t[1] = a /\ t[2] = b
    BY <2>1
  <2> QED
    BY <1>1, <2>1, <2>2, Zenon DEF TuplesAreFound, Sought
<1>2. ASSUME \A a, b \in 0..Last : IsTuple(a, b) /\ Sought(a, b) => \E v \in Worker : Finder(v, a, b)
      PROVE  TuplesAreFound
  <2> SUFFICES ASSUME NEW t \in SpanningTuple, Sought(t[1], t[2]) PROVE \E v \in Worker : Finder(v, t[1], t[2])
    BY Zenon DEF TuplesAreFound, Sought
  <2>1. IsTuple(t[1], t[2]) /\ t[1] \in 0..Last /\ t[2] \in 0..Last
    BY Tuples, Zenon
  <2> QED
    BY <1>2, <2>1, Zenon
<1> QED
  BY <1>1, <1>2, Zenon

-----------------------------------------------------------------------------
\* The start

EntryT == [aba : 0..ABAItNo(Last), delimiter : BOOLEAN, claimed : BOOLEAN, usedLeading : BOOLEAN,
           usedTrailing : BOOLEAN, leading : 0..Last, trailing : 0..Last]

LEMMA InitIInv ==
  ASSUME Init
  PROVE  IInv
<1>1. /\ delimited \subseteq 0..Last /\ 0 \in delimited /\ todo = Buffer /\ resolved = {}
      /\ worker = [w \in Worker |-> Idle]
      /\ entry = [i \in Ring |-> IF i = 0 THEN FirstEntry ELSE DefaultEntry]
  <2>1. PICK d \in SUBSET Buffer : delimited = {0} \cup d
    BY Zenon DEF Init
  <2>2. Buffer \subseteq 0..Last /\ 0 \in 0..Last
    BY StreamIsNotEmpty DEF Buffer
  <2>3. delimited \subseteq 0..Last /\ 0 \in delimited
    BY <2>1, <2>2, Zenon
  <2> QED
    BY <2>3, Zenon DEF Init, Ring
<1>2. /\ \A w \in Worker : worker[w] = Idle
      /\ \A i \in Ring : entry[i] = IF i = 0 THEN FirstEntry ELSE DefaultEntry
      /\ \A i \in Ring : i # 0 => entry[i] = DefaultEntry
  BY <1>1, Zenon
<1>3. 0 \in Ring /\ entry[0] = FirstEntry /\ Index(0) = 0 /\ ABAItNo(0) = 1
  <2>1. 0 \in Ring /\ Index(0) = 0 /\ ABAItNo(0) = 1
    BY RingType DEF Ring, Index, ABAItNo
  <2> QED
    BY <1>2, <2>1, Zenon
<1>4. /\ Idle.at = "idle" /\ Idle.sn = 0 /\ Idle.distance = 0 /\ Idle.first = 0 /\ Idle.final = 0 /\ Idle.buffers = <<>>
      /\ FirstEntry.aba = 1 /\ FirstEntry.delimiter = TRUE /\ FirstEntry.claimed = FALSE /\ FirstEntry.usedLeading = TRUE
      /\ FirstEntry.usedTrailing = FALSE /\ FirstEntry.leading = Null /\ FirstEntry.trailing = Null
      /\ DefaultEntry.aba = 0 /\ DefaultEntry.usedLeading = TRUE /\ DefaultEntry.usedTrailing = TRUE
      /\ DefaultEntry.leading = Null /\ DefaultEntry.trailing = Null
  BY Zenon DEF Idle, FirstEntry, DefaultEntry
<1>5. \A w \in Worker : worker[w].at = "idle" /\ worker[w].sn = 0 /\ ~Taking(w)
  <2>1. \A w \in Worker : worker[w].at = "idle" /\ worker[w].sn = 0
    BY <1>2, <1>4, Zenon
  <2> QED
    BY <2>1, Zenon DEF Taking
<1>6. \A sn \in 0..Last : sn \in Nat /\ Index(sn) \in Ring /\ ABAItNo(sn) \in Nat /\ ABAItNo(sn) > 0
  BY Places, StreamIsNotEmpty DEF Ring
<1>7. ASSUME NEW sn \in 0..Last, sn # 0 PROVE ~Published(sn) /\ ~Held(sn)
  <2>1. CASE Index(sn) = 0
    <3>1. ABAItNo(0) < ABAItNo(sn)
      <4>1. 0 < sn /\ sn \in Nat /\ 0 \in Nat
        BY <1>7, StreamIsNotEmpty
      <4> QED
        BY <1>3, <2>1, <4>1, Rounds, Zenon
    <3>2. entry[Index(sn)].aba = 1
      BY <1>3, <1>4, <2>1, Zenon
    <3>3. ABAItNo(sn) > 1 /\ ABAItNo(sn) \in Nat
      BY <1>3, <1>6, <3>1
    <3>4. ~(1 >= ABAItNo(sn)) /\ 1 # ABAItNo(sn)
      BY <3>3
    <3> QED
      BY <3>2, <3>4, Zenon DEF Published, Held
  <2>2. CASE Index(sn) # 0
    <3>1. entry[Index(sn)].aba = 0
      BY <1>2, <1>4, <1>6, <2>2, Zenon
    <3>2. ~(0 >= ABAItNo(sn)) /\ 0 # ABAItNo(sn)
      BY <1>6
    <3> QED
      BY <3>1, <3>2, Zenon DEF Published, Held
  <2> QED
    BY <2>1, <2>2, Zenon
<1>8. Published(0) /\ Held(0) /\ entry[Index(0)] = FirstEntry
  <2>1. entry[Index(0)].aba = 1
    BY <1>3, <1>4, Zenon
  <2>2. 1 >= 1
    OBVIOUS
  <2> QED
    BY <1>3, <2>1, <2>2, Zenon DEF Published, Held
<1>9. 0 \in 0..Last /\ Last \in Nat /\ Null \in 0..Last /\ Null = 0
  BY StreamIsNotEmpty DEF Null
<1>10. \A sn \in 0..Last : /\ ~LeadingTaken(sn) /\ ~TrailingTaken(sn) /\ ~LeadingMarked(sn) /\ ~TrailingMarked(sn)
  BY <1>1, <1>5, Zenon DEF LeadingTaken, TrailingTaken, LeadingMarked, TrailingMarked, LeadingResolved, TrailingResolved
<1>11. Types
  <2>1. FirstEntry \in EntryT /\ DefaultEntry \in EntryT
    <3>1. ABAItNo(Last) \in Nat /\ ABAItNo(Last) > 0
      BY <1>9, Places, Zenon
    <3>2. 0 \in 0..ABAItNo(Last) /\ 1 \in 0..ABAItNo(Last)
      BY <3>1
    <3> QED
      BY <1>9, <3>2, Zenon DEF EntryT, FirstEntry, DefaultEntry
  <2>2. entry \in [Ring -> EntryT]
    BY <1>1, <2>1, Zenon
  <2>3. Idle \in Workers
    <3>1. <<>> \in Seq(0..Last) /\ 0 \in Nat
      OBVIOUS
    <3> QED
      BY <1>9, <3>1, Zenon DEF Idle, Workers, Place
  <2>4. worker \in [Worker -> Workers]
    BY <1>1, <2>3, Zenon
  <2>5. 0 \in 0..RingSize /\ Len(Idle.buffers) <= RingSize
    <3>1. Len(<<>>) = 0
      OBVIOUS
    <3>2. 0 \in 0..RingSize /\ 0 <= RingSize
      BY RingType
    <3> QED
      BY <1>4, <3>1, <3>2, Zenon
  <2>6. TypeOK
    <3>1. \A w \in Worker :
        /\ worker[w].at \in {"idle", "set", "publish", "searchLeading", "searchTrailing",
                             "claim", "takeFirst", "markFirst", "take", "mark"}
        /\ worker[w].sn \in 0..Last /\ worker[w].first \in 0..Last /\ worker[w].final \in 0..Last
        /\ worker[w].distance \in 0..RingSize
        /\ Len(worker[w].buffers) <= RingSize
      BY <1>2, <1>4, <1>9, <2>5, Zenon
    <3> QED
      BY <1>1, <2>2, <3>1, Zenon DEF TypeOK, EntryT, Ring
  <2> QED
    BY <1>1, <2>4, <2>6, Zenon DEF Types, Workers, Place
<1>12. EveryBufferHasOneTask
  BY <1>5, Zenon DEF EveryBufferHasOneTask, At
<1>13. EntriesFollowTheStream
  <2>1. \A sn \in 0..Last : Published(sn) <=> InRing(sn)
    <3>1. 0 \notin todo
      BY <1>1 DEF Buffer
    <3>2. InRing(0)
      BY <1>5, <3>1, Zenon DEF InRing
    <3>3. \A sn \in 0..Last : sn # 0 => sn \in todo
      BY <1>1, <1>9 DEF Buffer
    <3> QED
      BY <1>7, <1>8, <3>2, <3>3, Zenon DEF InRing
  <2>2. \A sn \in 0..Last : Held(sn) => entry[Index(sn)].delimiter = (sn \in delimited)
    <3>1. entry[Index(0)].delimiter = (0 \in delimited)
      <4>1. (0 \in delimited) = TRUE
        BY <1>1, Zenon
      <4> QED
        BY <1>4, <1>8, <4>1, Zenon
    <3> QED
      BY <1>7, <3>1, Zenon
  <2>3. ASSUME NEW i \in Ring PROVE IF entry[i].aba = 0 THEN entry[i].usedLeading /\ entry[i].usedTrailing
                                    ELSE \E sn \in 0..Last : Index(sn) = i /\ Held(sn)
    <3>1. CASE i = 0
      <4>1. entry[i].aba # 0
        BY <1>3, <1>4, <3>1
      <4> QED
        BY <1>3, <1>8, <1>9, <3>1, <4>1, Zenon
    <3>2. CASE i # 0
      BY <1>2, <1>4, <3>2, Zenon
    <3> QED
      BY <3>1, <3>2, Zenon
  <2> QED
    BY <1>5, <2>1, <2>2, <2>3, Zenon DEF EntriesFollowTheStream, Ring
<1>14. SearchesAreExact
  BY <1>5, Zenon DEF SearchesAreExact
<1>15. ClaimsAreExclusive
  <2>1. AllTakeInOrder /\ OneTaker /\ NotTakenAgain
    BY <1>5, Zenon DEF AllTakeInOrder, TakesInOrder, OneTaker, NotTakenAgain
  <2>2. ResolvedWhole /\ ResolvedOnce
    BY <1>1, Zenon DEF ResolvedWhole, ResolvedOnce
  <2>3. \A a : Nobody(a)
    BY <1>1, <1>5, Zenon DEF Nobody
  <2>4. ClaimedIsWon
    BY <1>1, <1>4, <1>7, <1>8, <2>3, Zenon DEF ClaimedIsWon
  <2> QED
    BY <2>1, <2>2, <2>4, ClaimParts, Zenon
<1>16. UsesAreMarked
  BY <1>4, <1>7, <1>8, <1>10, Zenon DEF UsesAreMarked
<1>17. ReferencesAreKept
  <2>1. \A sn \in 0..Last : KeepsReferences(sn)
    BY <1>4, <1>7, <1>8, <1>9, <1>10, Zenon DEF KeepsReferences
  <2>2. \A v \in Worker : SetIsSet(v)
    BY <1>5, Zenon DEF SetIsSet
  <2>3. \A i \in Ring : UsedIsEmpty(i)
    <3>1. \A i \in Ring : entry[i].leading = Null /\ entry[i].trailing = Null
      BY <1>2, <1>4, Zenon
    <3> QED
      BY <3>1, Zenon DEF UsedIsEmpty
  <2> QED
    BY <2>1, <2>2, <2>3, ReferenceParts, Zenon
<1>18. TuplesAreFound
  <2>1. ASSUME NEW a \in 0..Last, NEW b \in 0..Last, IsTuple(a, b) PROVE ~Sought(a, b)
    <3>1. b # 0 /\ b \in a..b
      BY <2>1, StreamIsNotEmpty DEF IsTuple
    <3> QED
      BY <1>7, <3>1, Zenon DEF Sought
  <2> QED
    BY <1>11, <2>1, FoundParts, Zenon
<1> QED
  BY <1>11, <1>12, <1>13, <1>14, <1>15, <1>16, <1>17, <1>18, Zenon DEF IInv

LEMMA StutterKeepsIInv ==
  ASSUME IInv, UNCHANGED vars
  PROVE  IInv'
<1>1. delimited' = delimited /\ entry' = entry /\ todo' = todo /\ worker' = worker /\ resolved' = resolved
  BY Zenon DEF vars
<1>2. /\ \A sn : (Published(sn)' <=> Published(sn)) /\ (Held(sn)' <=> Held(sn))
      /\ \A w \in Worker : (Taking(w)' <=> Taking(w)) /\ Taken(w)' = Taken(w) /\ Marked(w)' = Marked(w)
      /\ SpanningTuple' = SpanningTuple
      /\ \A w, place : At(w, place)' <=> At(w, place)
  BY <1>1, Zenon DEF Published, Held, Taking, Taken, Marked, SpanningTuple, At
<1>3. \A a, b : Complete(a, b)' <=> Complete(a, b)
  BY <1>2, Zenon DEF Complete
<1>4. \A sn : /\ LeadingTaken(sn)' <=> LeadingTaken(sn)
              /\ TrailingTaken(sn)' <=> TrailingTaken(sn)
              /\ LeadingMarked(sn)' <=> LeadingMarked(sn)
              /\ TrailingMarked(sn)' <=> TrailingMarked(sn)
  BY <1>1, <1>2, Zenon DEF LeadingTaken, TrailingTaken, LeadingMarked, TrailingMarked, LeadingResolved, TrailingResolved
<1>5. Types'
  BY <1>1, Zenon DEF IInv, Types, TypeOK
<1>6. EveryBufferHasOneTask'
  BY <1>1, <1>2, Zenon DEF IInv, EveryBufferHasOneTask
<1>7. EntriesFollowTheStream'
  <2>1. \A sn : (InRing(sn)' <=> InRing(sn)) /\ (UsedUp(sn)' <=> UsedUp(sn))
    BY <1>1, Zenon DEF InRing, UsedUp
  <2> QED
    BY <1>1, <1>2, <2>1, Zenon DEF IInv, EntriesFollowTheStream
<1>8. SearchesAreExact'
  <2>1. \A w \in Worker : Exact(w)
    BY Zenon DEF IInv, SearchesAreExact, Exact
  <2>2. \A w \in Worker : Exact(w)'
    BY <1>1, <1>2, <1>3, <2>1, Zenon DEF Exact
  <2> QED
    BY <2>2, Zenon DEF SearchesAreExact, Exact
<1>9. ClaimsAreExclusive'
  <2>1. /\ AllTakeInOrder /\ OneTaker /\ NotTakenAgain /\ ResolvedWhole /\ ResolvedOnce /\ ClaimedIsWon
    BY ClaimParts, Zenon DEF IInv
  <2>2. AllTakeInOrder' /\ OneTaker' /\ NotTakenAgain'
    BY <1>1, <1>2, <2>1, Zenon DEF AllTakeInOrder, TakesInOrder, OneTaker, NotTakenAgain
  <2>3. ResolvedWhole' /\ ResolvedOnce'
    BY <1>1, <1>3, <2>1, Zenon DEF ResolvedWhole, ResolvedOnce
  <2>4. \A a : Nobody(a)' <=> Nobody(a)
    BY <1>1, <1>2, Zenon DEF Nobody
  <2>5. ClaimedIsWon'
    BY <1>1, <1>2, <2>1, <2>4, Zenon DEF ClaimedIsWon
  <2> QED
    BY <2>2, <2>3, <2>5, ClaimPartsThen, Zenon
<1>10. UsesAreMarked'
  BY <1>1, <1>2, <1>4, Zenon DEF IInv, UsesAreMarked
<1>11. ReferencesAreKept'
  <2>1. /\ \A sn \in 0..Last : KeepsReferences(sn)
        /\ \A v \in Worker : SetIsSet(v)
        /\ \A i \in Ring : UsedIsEmpty(i)
    BY ReferenceParts, Zenon DEF IInv
  <2>2. ASSUME NEW sn \in 0..Last PROVE KeepsReferences(sn)'
    <3>1. /\ Held(sn)' <=> Held(sn)
          /\ LeadingTaken(sn)' <=> LeadingTaken(sn)
          /\ TrailingTaken(sn)' <=> TrailingTaken(sn)
      BY <1>2, <1>4, Zenon
    <3>2. entry'[Index(sn)] = entry[Index(sn)] /\ KeepsReferences(sn)
      BY <1>1, <2>1, Zenon
    <3> QED
      BY <3>1, <3>2, Zenon DEF KeepsReferences
  <2>3. ASSUME NEW v \in Worker PROVE SetIsSet(v)'
    BY <1>1, <2>1, Zenon DEF SetIsSet
  <2>4. ASSUME NEW i \in Ring PROVE UsedIsEmpty(i)'
    <3>1. (Unset(i)' <=> Unset(i)) /\ entry'[i] = entry[i]
      BY <1>1, Zenon DEF Unset
    <3> QED
      BY <2>1, <3>1, Zenon DEF UsedIsEmpty
  <2> QED
    BY <2>2, <2>3, <2>4, ReferencePartsThen, Zenon
<1>12. TuplesAreFound'
  <2>1. ASSUME NEW w \in Worker, NEW a, NEW b PROVE Finder(w, a, b)' <=> Finder(w, a, b)
    <3>1. worker'[w] = worker[w] /\ (Taking(w)' <=> Taking(w))
      BY <1>1, <1>2, Zenon
    <3> QED
      BY <3>1, Zenon DEF Finder
  <2> QED
    BY <1>1, <1>2, <2>1, Zenon DEF IInv, TuplesAreFound
<1> QED
  BY <1>5, <1>6, <1>7, <1>8, <1>9, <1>10, <1>11, <1>12, Zenon DEF IInv

-----------------------------------------------------------------------------
\* Tuples

\* What a worker that takes a tuple knows of it.
LEMMA TakingFacts ==
  Types /\ SearchesAreExact /\ ClaimsAreExclusive => \A w \in Worker : Taking(w) =>
    LET r == worker[w]
    IN  /\ r.first \in 0..Last /\ r.final \in 0..Last /\ IsTuple(r.first, r.final)
        /\ r.final - r.first < RingSize
        /\ \A c \in r.first..r.final : Published(c)
        /\ Taken(w) \in Nat /\ Marked(w) \in Nat
        /\ Marked(w) <= Taken(w) /\ Taken(w) <= r.final - r.first + 1
        /\ r.at = "take" => NextOf(r) \in 0..Last /\ r.first < NextOf(r) /\ NextOf(r) <= r.final
        /\ r.at = "mark" => LET c == r.first + Len(r.buffers) - 1
                            IN  c \in 0..Last /\ r.first < c /\ c <= r.final
<1>Counting.
      ASSUME NEW f \in Nat, NEW l \in Nat, NEW n \in Nat, f < l
      PROVE  /\ n = 0 => n <= l - f + 1
             /\ n = 1 => n - 1 \in Nat /\ n - 1 <= n /\ n <= l - f + 1
             /\ n \in 1..(l - f) => n <= l - f + 1 /\ f < f + n /\ f + n <= l /\ f + n \in Nat
             /\ n \in 2..(l - f + 1) =>
                  /\ n - 1 \in Nat /\ n - 1 <= n /\ n <= l - f + 1
                  /\ f < f + n - 1 /\ f + n - 1 <= l /\ f + n - 1 \in Nat
  BY <1>Counting
<1> SUFFICES ASSUME Types, SearchesAreExact, ClaimsAreExclusive, NEW w \in Worker, Taking(w)
             PROVE  LET r == worker[w]
                    IN  /\ r.first \in 0..Last /\ r.final \in 0..Last /\ IsTuple(r.first, r.final)
                        /\ r.final - r.first < RingSize
                        /\ \A c \in r.first..r.final : Published(c)
                        /\ Taken(w) \in Nat /\ Marked(w) \in Nat
                        /\ Marked(w) <= Taken(w) /\ Taken(w) <= r.final - r.first + 1
                        /\ r.at = "take" => NextOf(r) \in 0..Last /\ r.first < NextOf(r) /\ NextOf(r) <= r.final
                        /\ r.at = "mark" => LET c == r.first + Len(r.buffers) - 1
                                            IN  c \in 0..Last /\ r.first < c /\ c <= r.final
  BY Zenon
<1> DEFINE r == worker[w]
<1>1. worker[w] \in Workers /\ Last \in Nat
  BY TypeFacts, Zenon
<1>2. r.first \in Nat /\ r.final \in Nat /\ r.first <= Last /\ r.final <= Last /\ Len(r.buffers) \in Nat
  BY <1>1 DEF Workers
<1>3. Complete(r.first, r.final)
  BY Zenon DEF SearchesAreExact
<1>4. IsTuple(r.first, r.final) /\ r.final - r.first < RingSize /\ \A c \in r.first..r.final : Published(c)
  BY <1>3, Tuples, Zenon DEF Complete
<1>5. /\ r.at = "takeFirst" => Taken(w) = 0
      /\ r.at = "markFirst" => Taken(w) = 1
      /\ r.at = "take" => Taken(w) \in 1..(r.final - r.first)
      /\ r.at = "mark" => Taken(w) \in 2..(r.final - r.first + 1)
  BY Zenon DEF ClaimsAreExclusive
<1>6. r.at \in {"takeFirst", "markFirst", "take", "mark"}
  BY Zenon DEF Taking
<1>7. r.first < r.final
  BY <1>4, Zenon DEF IsTuple
<1>t. Taken(w) = Len(r.buffers) /\ Taken(w) \in Nat
  BY <1>2, Zenon DEF Taken
<1>8. Marked(w) \in Nat /\ Marked(w) <= Taken(w) /\ Taken(w) <= r.final - r.first + 1
  <2>1. Marked(w) = IF r.at \in {"markFirst", "mark"} THEN Taken(w) - 1 ELSE Taken(w)
    BY Zenon DEF Marked
  <2> HIDE DEF r
  <2>2. Taken(w) <= Taken(w)
    BY <1>t
  <2>3. CASE r.at = "takeFirst"
    BY <1>2, <1>5, <1>7, <1>t, <2>1, <2>2, <2>3, <1>Counting, Zenon
  <2>4. CASE r.at = "markFirst"
    <3>1. Marked(w) = Taken(w) - 1 /\ Taken(w) = 1
      BY <1>5, <2>1, <2>4, Zenon
    <3>2. Taken(w) - 1 \in Nat /\ Taken(w) - 1 <= Taken(w) /\ Taken(w) <= r.final - r.first + 1
      <4>1. Taken(w) = 1
        BY <3>1, Zenon
      <4> QED
        BY <1>2, <1>7, <1>t, <4>1, <1>Counting, Zenon
    <3> QED
      BY <3>1, <3>2, Zenon
  <2>5. CASE r.at = "take"
    BY <1>2, <1>5, <1>7, <1>t, <2>1, <2>2, <2>5, <1>Counting, Zenon
  <2>6. CASE r.at = "mark"
    <3>1. Marked(w) = Taken(w) - 1 /\ Taken(w) \in 2..(r.final - r.first + 1)
      BY <1>5, <2>1, <2>6, Zenon
    <3>2. Taken(w) - 1 \in Nat /\ Taken(w) - 1 <= Taken(w) /\ Taken(w) <= r.final - r.first + 1
      <4>1. Taken(w) \in 2..(r.final - r.first + 1)
        BY <3>1, Zenon
      <4> QED
        BY <1>2, <1>7, <1>t, <4>1, <1>Counting, Zenon
    <3> QED
      BY <3>1, <3>2, Zenon
  <2> QED
    BY <1>6, <2>3, <2>4, <2>5, <2>6, Zenon
<1>9. r.at = "take" => NextOf(r) \in 0..Last /\ r.first < NextOf(r) /\ NextOf(r) <= r.final
  <2>1. NextOf(r) = r.first + Taken(w)
    BY <1>t, Zenon DEF NextOf
  <2> HIDE DEF r
  <2> QED
    BY <1>1, <1>2, <1>5, <1>t, <2>1
<1>10. r.at = "mark" => LET c == r.first + Len(r.buffers) - 1 IN c \in 0..Last /\ r.first < c /\ c <= r.final
  <2> SUFFICES ASSUME r.at = "mark"
               PROVE  LET c == r.first + Taken(w) - 1 IN c \in 0..Last /\ r.first < c /\ c <= r.final
    BY <1>t, Zenon
  <2>1. Taken(w) \in 2..(r.final - r.first + 1)
    BY <1>5, Zenon
  <2> HIDE DEF r
  <2> QED
    <3> DEFINE c == r.first + Taken(w) - 1
    <3>1. r.first < c /\ c <= r.final /\ c \in Nat
      BY <1>2, <1>7, <1>t, <2>1, <1>Counting, Zenon
    <3> QED
      BY <1>1, <1>2, <3>1
<1> QED
  BY <1>1, <1>4, <1>t, <1>8, <1>9, <1>10, Zenon DEF Workers

LEMMA ResolvedFacts ==
  ASSUME Types, ClaimsAreExclusive, NEW x \in resolved
  PROVE  LET final == x.first + Len(x.buffers) - 1
         IN  /\ x.first \in 0..Last /\ final \in 0..Last /\ IsTuple(x.first, final)
             /\ final - x.first < RingSize /\ Len(x.buffers) \in Nat
             /\ \A c \in x.first..final : Published(c)
<1>1. Complete(x.first, x.first + Len(x.buffers) - 1)
  BY Zenon DEF ClaimsAreExclusive
<1>2. x.buffers \in Seq(0..Last)
  BY Zenon DEF Types
<1>3. Len(x.buffers) \in Nat
  BY <1>2
<1> QED
  BY <1>1, <1>3, Tuples, Zenon DEF Complete

\* A buffer that is marked, or taken, is part of a complete tuple.
LEMMA TakenIsComplete ==
  ASSUME Types, SearchesAreExact, ClaimsAreExclusive, NEW sn \in 0..Last
  PROVE  /\ TrailingMarked(sn) => TrailingTaken(sn)
         /\ LeadingMarked(sn) => LeadingTaken(sn)
         /\ TrailingTaken(sn) =>
              \E a, b \in 0..Last : IsTuple(a, b) /\ b - a < RingSize /\ a <= sn /\ sn < b
         /\ LeadingTaken(sn) =>
              \E a, b \in 0..Last : IsTuple(a, b) /\ b - a < RingSize /\ a < sn /\ sn <= b
<1>0. sn \in Nat /\ \A c \in 0..Last : c \in Nat
  BY StreamIsNotEmpty
<1>1. ASSUME NEW w \in Worker, Taking(w)
      PROVE  /\ TrailingPart(sn, worker[w].first, Marked(w), worker[w].final)
                  => TrailingPart(sn, worker[w].first, Taken(w), worker[w].final)
             /\ LeadingPart(sn, worker[w].first, Marked(w)) => LeadingPart(sn, worker[w].first, Taken(w))
  <2>1. Marked(w) \in Nat /\ Taken(w) \in Nat /\ Marked(w) <= Taken(w) /\ worker[w].first \in Nat
    BY <1>0, <1>1, TakingFacts, Zenon
  <2> QED
    BY <1>0, <2>1 DEF TrailingPart, LeadingPart
<1>2. (TrailingMarked(sn) => TrailingTaken(sn)) /\ (LeadingMarked(sn) => LeadingTaken(sn))
  BY <1>1, Zenon DEF TrailingMarked, TrailingTaken, LeadingMarked, LeadingTaken
<1>3. ASSUME TrailingTaken(sn)
      PROVE  \E a, b \in 0..Last : IsTuple(a, b) /\ b - a < RingSize /\ a <= sn /\ sn < b
  <2>1. CASE TrailingResolved(sn)
    <3>1. PICK x \in resolved : TrailingPart(sn, x.first, Len(x.buffers), x.first + Len(x.buffers) - 1)
      BY <2>1, Zenon DEF TrailingResolved
    <3> QED
      BY <3>1, ResolvedFacts, Zenon DEF TrailingPart
  <2>2. ASSUME NEW w \in Worker, Taking(w), TrailingPart(sn, worker[w].first, Taken(w), worker[w].final)
        PROVE  \E a, b \in 0..Last : IsTuple(a, b) /\ b - a < RingSize /\ a <= sn /\ sn < b
    BY <2>2, TakingFacts, Zenon DEF TrailingPart
  <2> QED
    BY <1>3, <2>1, <2>2, Zenon DEF TrailingTaken
<1>4. ASSUME LeadingTaken(sn)
      PROVE  \E a, b \in 0..Last : IsTuple(a, b) /\ b - a < RingSize /\ a < sn /\ sn <= b
  <2>1. CASE LeadingResolved(sn)
    <3>1. PICK x \in resolved : LeadingPart(sn, x.first, Len(x.buffers))
      BY <2>1, Zenon DEF LeadingResolved
    <3>2. LET final == x.first + Len(x.buffers) - 1
          IN  x.first \in 0..Last /\ final \in 0..Last /\ IsTuple(x.first, final) /\ final - x.first < RingSize
      BY ResolvedFacts, Zenon
    <3>3. x.first < sn /\ sn <= x.first + Len(x.buffers) - 1
      <4>1. x.first \in Nat /\ Len(x.buffers) \in Nat
        BY <1>0, ResolvedFacts, Zenon
      <4> QED
        BY <1>0, <3>1, <4>1 DEF LeadingPart
    <3> QED
      BY <3>2, <3>3, Zenon
  <2>2. ASSUME NEW w \in Worker, Taking(w), LeadingPart(sn, worker[w].first, Taken(w))
        PROVE  \E a, b \in 0..Last : IsTuple(a, b) /\ b - a < RingSize /\ a < sn /\ sn <= b
    <3>1. /\ worker[w].first \in Nat /\ worker[w].final \in Nat /\ Taken(w) \in Nat
          /\ Taken(w) <= worker[w].final - worker[w].first + 1
      BY <1>0, <2>2, TakingFacts, Zenon
    <3>2. worker[w].first < sn /\ sn <= worker[w].final
      BY <1>0, <2>2, <3>1 DEF LeadingPart
    <3> QED
      BY <2>2, <3>2, TakingFacts, Zenon
  <2> QED
    BY <1>4, <2>1, <2>2, Zenon DEF LeadingTaken
<1> QED
  BY <1>2, <1>3, <1>4, Zenon

LEMMA TakenIsPublished ==
  ASSUME Types, SearchesAreExact, ClaimsAreExclusive, NEW sn \in 0..Last, LeadingTaken(sn) \/ TrailingTaken(sn)
  PROVE  Published(sn)
<1>1. ASSUME NEW w \in Worker, Taking(w),
             LeadingPart(sn, worker[w].first, Taken(w)) \/ TrailingPart(sn, worker[w].first, Taken(w), worker[w].final)
      PROVE  Published(sn)
  <2>1. PICK f, l, n : f = worker[w].first /\ l = worker[w].final /\ n = Taken(w)
    BY Zenon
  <2>2. f \in 0..Last /\ l \in 0..Last /\ n \in Nat /\ n <= l - f + 1 /\ \A c \in f..l : Published(c)
    BY <1>1, <2>1, TakingFacts, Zenon
  <2>3. LeadingPart(sn, f, n) \/ TrailingPart(sn, f, n, l)
    BY <1>1, <2>1, Zenon
  <2>4. sn \in f..l
    BY <2>2, <2>3, StreamIsNotEmpty DEF LeadingPart, TrailingPart
  <2> QED
    BY <2>2, <2>4, Zenon
<1>2. ASSUME NEW x \in resolved,
             \/ LeadingPart(sn, x.first, Len(x.buffers))
             \/ TrailingPart(sn, x.first, Len(x.buffers), x.first + Len(x.buffers) - 1)
      PROVE  Published(sn)
  <2>1. PICK f, n, l : f = x.first /\ n = Len(x.buffers) /\ l = x.first + Len(x.buffers) - 1
    BY Zenon
  <2>2. f \in 0..Last /\ l \in 0..Last /\ n \in Nat /\ \A c \in f..l : Published(c)
    BY <1>2, <2>1, ResolvedFacts, Zenon
  <2>3. (LeadingPart(sn, f, n) \/ TrailingPart(sn, f, n, l)) /\ l = f + n - 1
    BY <1>2, <2>1, Zenon
  <2>4. sn \in f..l
    BY <2>2, <2>3, StreamIsNotEmpty DEF LeadingPart, TrailingPart
  <2> QED
    BY <2>2, <2>4, Zenon
<1> QED
  BY <1>1, <1>2, Zenon DEF LeadingTaken, TrailingTaken, LeadingResolved, TrailingResolved

\* An entry is passed on only when the tuple of its buffer was in the ring as a whole.
LEMMA PassedOn ==
  ASSUME Types, SearchesAreExact, ClaimsAreExclusive, UsesAreMarked,
         NEW a \in 0..Last, a + RingSize <= Last, Published(a + RingSize)
  PROVE  /\ Published(a) /\ ~Held(a)
         /\ \E b \in delimited : a < b /\ b < a + RingSize
<1>1. a \in Nat /\ a + RingSize \in 0..Last
  BY StreamIsNotEmpty, RingType
<1>2. entry[Index(a)].aba \in Nat /\ ABAItNo(a) \in Nat
  BY <1>1, TypeFacts, Places DEF Entries
<1>3. Published(a) /\ ~Held(a)
  BY <1>1, <1>2, NextRound DEF Published, Held
<1>4. TrailingMarked(a)
  BY <1>3, Zenon DEF UsesAreMarked
<1>5. PICK c \in 0..Last, b \in 0..Last : IsTuple(c, b) /\ b - c < RingSize /\ c <= a /\ a < b
  BY <1>4, TakenIsComplete, Zenon
<1>6. b < a + RingSize
  BY <1>1, <1>5, RingType, StreamIsNotEmpty
<1> QED
  BY <1>3, <1>5, <1>6, Zenon DEF IsTuple

\* Only who has won a tuple takes and marks its buffers.
LEMMA Untouched ==
  ASSUME Types, SearchesAreExact, ClaimsAreExclusive, NEW a, NEW b, IsTuple(a, b), NEW sn \in 0..Last,
         \A x \in resolved : x.first # a
  PROVE  /\ (\A v \in Worker : Taking(v) /\ worker[v].first = a => a + Taken(v) <= sn) =>
              /\ a <= sn /\ sn < b => ~TrailingTaken(sn)
              /\ a < sn /\ sn <= b => ~LeadingTaken(sn)
         /\ (\A v \in Worker : Taking(v) /\ worker[v].first = a => a + Marked(v) <= sn) =>
              /\ a <= sn /\ sn < b => ~TrailingMarked(sn)
              /\ a < sn /\ sn <= b => ~LeadingMarked(sn)
<1>0. sn \in Nat /\ \A c \in 0..Last : c \in Nat
  BY TypeFacts, Zenon
<1>1. ASSUME NEW x \in resolved
      PROVE  /\ a <= sn /\ sn < b => ~TrailingPart(sn, x.first, Len(x.buffers), x.first + Len(x.buffers) - 1)
             /\ a < sn /\ sn <= b => ~LeadingPart(sn, x.first, Len(x.buffers))
  <2>1. IsTuple(x.first, x.first + Len(x.buffers) - 1) /\ x.first \in Nat /\ Len(x.buffers) \in Nat /\ x.first # a
    BY <1>0, ResolvedFacts, Zenon
  <2>2. /\ TrailingPart(sn, x.first, Len(x.buffers), x.first + Len(x.buffers) - 1)
             => x.first <= sn /\ sn < x.first + Len(x.buffers) - 1
        /\ LeadingPart(sn, x.first, Len(x.buffers)) => x.first < sn /\ sn <= x.first + Len(x.buffers) - 1
    BY <1>0, <2>1 DEF TrailingPart, LeadingPart
  <2>3. /\ a <= sn /\ sn < b /\ x.first <= sn /\ sn < x.first + Len(x.buffers) - 1 => a = x.first
        /\ a < sn /\ sn <= b /\ x.first < sn /\ sn <= x.first + Len(x.buffers) - 1 => a = x.first
    <3> DEFINE c == x.first
               d == x.first + Len(x.buffers) - 1
    <3>1. IsTuple(c, d)
      BY <2>1, Zenon
    <3> HIDE DEF c, d
    <3>2. /\ a <= sn /\ sn < b /\ c <= sn /\ sn < d => a = c
          /\ a < sn /\ sn <= b /\ c < sn /\ sn <= d => a = c
      BY <1>0, <3>1, OneTuple, Zenon
    <3> QED
      BY <3>2, Zenon DEF c, d
  <2> QED
    BY <2>1, <2>2, <2>3, Zenon
<1>2. /\ a <= sn /\ sn < b => ~TrailingResolved(sn)
      /\ a < sn /\ sn <= b => ~LeadingResolved(sn)
  BY <1>1, Zenon DEF TrailingResolved, LeadingResolved
<1>3. ASSUME NEW v \in Worker, Taking(v), NEW n \in Nat, n <= worker[v].final - worker[v].first + 1,
             worker[v].first = a => a + n <= sn
      PROVE  /\ a <= sn /\ sn < b => ~TrailingPart(sn, worker[v].first, n, worker[v].final)
             /\ a < sn /\ sn <= b => ~LeadingPart(sn, worker[v].first, n)
  <2>1. IsTuple(worker[v].first, worker[v].final) /\ worker[v].first \in Nat /\ worker[v].final \in Nat
    BY <1>0, <1>3, TakingFacts, Zenon
  <2>2. /\ TrailingPart(sn, worker[v].first, n, worker[v].final) =>
             worker[v].first <= sn /\ sn < worker[v].final /\ ~(worker[v].first + n <= sn)
        /\ LeadingPart(sn, worker[v].first, n) =>
             worker[v].first < sn /\ sn <= worker[v].final /\ ~(worker[v].first + n <= sn)
    BY <1>0, <1>3, <2>1 DEF TrailingPart, LeadingPart
  <2>3. /\ a <= sn /\ sn < b /\ worker[v].first <= sn /\ sn < worker[v].final => a = worker[v].first
        /\ a < sn /\ sn <= b /\ worker[v].first < sn /\ sn <= worker[v].final => a = worker[v].first
    <3> DEFINE c == worker[v].first
               d == worker[v].final
    <3>1. IsTuple(c, d)
      BY <2>1, Zenon
    <3> HIDE DEF c, d
    <3>2. /\ a <= sn /\ sn < b /\ c <= sn /\ sn < d => a = c
          /\ a < sn /\ sn <= b /\ c < sn /\ sn <= d => a = c
      BY <1>0, <3>1, OneTuple, Zenon
    <3> QED
      BY <3>2, Zenon DEF c, d
  <2> QED
    BY <1>3, <2>2, <2>3, Zenon
<1>4. ASSUME NEW v \in Worker, Taking(v)
      PROVE  /\ Taken(v) \in Nat /\ Taken(v) <= worker[v].final - worker[v].first + 1
             /\ Marked(v) \in Nat /\ Marked(v) <= worker[v].final - worker[v].first + 1
  <2>1. /\ Taken(v) \in Nat /\ Marked(v) \in Nat /\ Marked(v) <= Taken(v)
        /\ Taken(v) <= worker[v].final - worker[v].first + 1
        /\ worker[v].first \in Nat /\ worker[v].final \in Nat
    BY <1>0, <1>4, TakingFacts, Zenon
  <2> QED
    BY <2>1
<1>5. ASSUME \A v \in Worker : Taking(v) /\ worker[v].first = a => a + Taken(v) <= sn
      PROVE  /\ a <= sn /\ sn < b => ~TrailingTaken(sn)
             /\ a < sn /\ sn <= b => ~LeadingTaken(sn)
  BY <1>2, <1>3, <1>4, <1>5, Zenon DEF TrailingTaken, LeadingTaken
<1>6. ASSUME \A v \in Worker : Taking(v) /\ worker[v].first = a => a + Marked(v) <= sn
      PROVE  /\ a <= sn /\ sn < b => ~TrailingMarked(sn)
             /\ a < sn /\ sn <= b => ~LeadingMarked(sn)
  BY <1>2, <1>3, <1>4, <1>6, Zenon DEF TrailingMarked, LeadingMarked
<1> QED
  BY <1>5, <1>6, Zenon

\* A tuple nobody has won stays in the ring.
LEMMA UnclaimedIsHeld ==
  ASSUME Types, SearchesAreExact, ClaimsAreExclusive, UsesAreMarked, NEW a, NEW b, IsTuple(a, b), Nobody(a),
         NEW sn \in 0..Last, a <= sn, sn <= b, Published(sn)
  PROVE  Held(sn)
<1>1. a \in Nat /\ b \in Nat /\ sn \in Nat
  BY Tuples, TypeFacts, Zenon DEF IsTuple
<1>2. CASE sn < b
  <2>1. ~TrailingMarked(sn)
    BY <1>2, Untouched, Zenon DEF Nobody
  <2> QED
    BY <2>1, Zenon DEF UsesAreMarked
<1>3. CASE sn = b
  <2>1. a < sn /\ sn # 0
    BY <1>1, <1>3 DEF IsTuple
  <2>2. ~LeadingMarked(sn)
    BY <2>1, Untouched, Zenon DEF Nobody
  <2> QED
    BY <2>1, <2>2, Zenon DEF UsesAreMarked
<1> QED
  BY <1>1, <1>2, <1>3

\* A worker's tuple stays in the ring as far as the worker has not marked it.
LEMMA UnmarkedIsHeld ==
  ASSUME Types, SearchesAreExact, ClaimsAreExclusive, UsesAreMarked, NEW w \in Worker, Taking(w),
         NEW sn \in 0..Last, worker[w].first + Marked(w) <= sn, sn <= worker[w].final
  PROVE  /\ Held(sn) /\ worker[w].first <= sn
         /\ sn < worker[w].final => ~TrailingMarked(sn) /\ ~entry[Index(sn)].usedTrailing
         /\ worker[w].first < sn => ~LeadingMarked(sn) /\ ~entry[Index(sn)].usedLeading
         /\ worker[w].first + Taken(w) <= sn =>
              /\ sn < worker[w].final => ~TrailingTaken(sn)
              /\ worker[w].first < sn => ~LeadingTaken(sn)
<1> DEFINE a == worker[w].first
           b == worker[w].final
<1>1. /\ a \in Nat /\ b \in Nat /\ sn \in Nat /\ IsTuple(a, b) /\ Marked(w) \in Nat
      /\ \A c \in a..b : Published(c)
  BY TypeFacts, TakingFacts, Zenon
<1>2. a <= sn /\ a < b
  BY <1>1 DEF IsTuple
<1>3. Published(sn)
  BY <1>1, <1>2
<1>4. \A v \in Worker : Taking(v) /\ worker[v].first = a => v = w
  BY Zenon DEF ClaimsAreExclusive
<1>5. \A x \in resolved : x.first # a
  BY Zenon DEF ClaimsAreExclusive
<1> HIDE DEF a, b
<1>6. (sn < b => ~TrailingMarked(sn)) /\ (a < sn => ~LeadingMarked(sn))
  BY <1>1, <1>2, <1>4, <1>5, Untouched, Zenon DEF a, b
<1>7. a + Taken(w) <= sn => (sn < b => ~TrailingTaken(sn)) /\ (a < sn => ~LeadingTaken(sn))
  BY <1>1, <1>2, <1>4, <1>5, Untouched, Zenon DEF a, b
<1>8. (sn < b => ~TrailingMarked(sn) /\ ~entry[Index(sn)].usedTrailing /\ Held(sn))
  BY <1>3, <1>6, Zenon DEF UsesAreMarked
<1>9. a < sn => sn # 0
  BY <1>1
<1>10. a < sn => ~LeadingMarked(sn) /\ ~entry[Index(sn)].usedLeading /\ Held(sn)
  BY <1>3, <1>6, <1>9, Zenon DEF UsesAreMarked
<1>11. sn < b \/ a < sn
  BY <1>1, <1>2
<1>12. a < sn \/ a = sn
  BY <1>1, <1>2
<1> QED
  BY <1>2, <1>7, <1>8, <1>9, <1>10, <1>11, <1>12, Zenon DEF a, b

\* A buffer with a delimiter is taken as the first of its tuple by who has won the tuple.
LEMMA ClaimedWhenUsed ==
  ASSUME Types, SearchesAreExact, ClaimsAreExclusive, NEW a \in delimited, TrailingTaken(a)
  PROVE  ~Nobody(a)
<1>0. a \in 0..Last /\ a \in Nat
  BY Tuples, Zenon
<1>1. ASSUME NEW c \in Nat, NEW d, IsTuple(c, d), c <= a, a < d
      PROVE  c = a
  BY <1>0, <1>1 DEF IsTuple
<1>2. CASE TrailingResolved(a)
  <2>1. PICK x \in resolved : TrailingPart(a, x.first, Len(x.buffers), x.first + Len(x.buffers) - 1)
    BY <1>2, Zenon DEF TrailingResolved
  <2>2. x.first \in Nat /\ IsTuple(x.first, x.first + Len(x.buffers) - 1)
    BY ResolvedFacts, TypeFacts, Zenon
  <2> QED
    BY <1>1, <2>1, <2>2, Zenon DEF TrailingPart, Nobody
<1>3. ASSUME NEW v \in Worker, Taking(v), TrailingPart(a, worker[v].first, Taken(v), worker[v].final)
      PROVE  ~Nobody(a)
  <2>1. worker[v].first \in Nat /\ IsTuple(worker[v].first, worker[v].final)
    BY <1>3, TakingFacts, TypeFacts, Zenon
  <2> QED
    BY <1>1, <1>3, <2>1, Zenon DEF TrailingPart, Nobody
<1> QED
  BY <1>2, <1>3, Zenon DEF TrailingTaken

-----------------------------------------------------------------------------
\* What the formatter relies on

Minimum == \A S \in SUBSET Nat : S # {} => \E x \in S : \A y \in S : x <= y

LEMMA Consequences ==
  IInv /\ Minimum => EachTupleOnceAndWhole /\ NoTupleIsMissed /\ RingIsSound
<1>OnceAndWhole.
      ASSUME IInv
      PROVE  EachTupleOnceAndWhole
  <2> USE <1>OnceAndWhole
  <2>1. Types /\ ClaimsAreExclusive /\ ResolvedWhole /\ ResolvedOnce
    BY ClaimParts, Zenon DEF IInv
  <2>2. ASSUME NEW x \in resolved PROVE \E t \in SpanningTuple : x.first = t[1] /\ Whole(t, x.buffers)
    <3>1. PICK f, n, l, bs : f = x.first /\ n = Len(x.buffers) /\ l = x.first + Len(x.buffers) - 1 /\ bs = x.buffers
      BY Zenon
    <3>2. f \in 0..Last /\ l \in 0..Last /\ n \in Nat /\ IsTuple(f, l)
      BY <2>1, <2>2, <3>1, ResolvedFacts, Zenon
    <3>3. bs \in Seq(0..Last) /\ \A k \in 1..n : bs[k] = f + k - 1
      BY <2>1, <2>2, <3>1, Zenon DEF Types, ResolvedWhole
    <3>4. l = f + n - 1 /\ n = Len(bs)
      BY <3>1, Zenon
    <3>5. PICK t \in SpanningTuple : t = <<f, l>>
      BY <2>1, <3>2, Tuples, Zenon
    <3>6. t[1] = f /\ t[2] = l
      BY <3>5
    <3>7. l - f + 1 = n
      BY <3>2, <3>4, StreamIsNotEmpty
    <3>8. bs = [k \in 1..n |-> f + k - 1]
      BY <3>3, <3>4
    <3>9. Whole(t, bs)
      BY <3>6, <3>7, <3>8, Zenon DEF Whole
    <3> QED
      BY <3>1, <3>6, <3>9, Zenon
  <2> QED
    BY <2>1, <2>2, Zenon DEF EachTupleOnceAndWhole, ResolvedOnce
<1>AllResolved.
      ASSUME IInv, AllIdle, NEW a, NEW b, IsTuple(a, b), \A c \in a..b : Published(c)
      PROVE  \E x \in resolved : x.first = a /\ x.first + Len(x.buffers) - 1 = b
  <2> USE <1>AllResolved
  <2>1. Types /\ ClaimsAreExclusive /\ ClaimedIsWon
        /\ \A u, v \in 0..Last : IsTuple(u, v) /\ Sought(u, v) => \E w \in Worker : Finder(w, u, v)
    BY ClaimParts, FoundParts, Zenon DEF IInv
  <2>2. a \in 0..Last /\ b \in 0..Last /\ a \in delimited /\ a < b
    BY <2>1, Tuples, Zenon DEF IsTuple
  <2>3. \A w \in Worker : worker[w].at = "idle" /\ ~Taking(w)
    BY Zenon DEF AllIdle, At, Taking
  <2>4. \A w \in Worker : ~Finder(w, a, b)
    BY <2>3, Zenon DEF Finder
  <2>5. Published(a)
    <3>1. a \in a..b
      BY <2>2, StreamIsNotEmpty
    <3> QED
      BY <3>1, Zenon
  <2>6. ~Nobody(a)
    BY <2>1, <2>2, <2>4, <2>5, Zenon DEF Sought, ClaimedIsWon
  <2>7. PICK x \in resolved : x.first = a
    BY <2>3, <2>6, Zenon DEF Nobody
  <2>8. PICK l : l = x.first + Len(x.buffers) - 1
    BY Zenon
  <2>9. IsTuple(a, l)
    BY <2>1, <2>7, <2>8, ResolvedFacts, Zenon
  <2>10. 0 \in Nat
    OBVIOUS
  <2>11. l = b
    BY <2>1, <2>9, <2>10, OneTuple, Zenon
  <2> QED
    BY <2>7, <2>8, <2>11, Zenon
<1>NoneIsMissed.
      ASSUME IInv
      PROVE  NoTupleIsMissed
  <2> USE <1>NoneIsMissed
  <2> SUFFICES ASSUME AllIdle, NEW t \in SpanningTuple, \A sn \in (t[1] + 1)..t[2] : InRing(sn), t[1] \notin todo
               PROVE  \E x \in resolved : x.first = t[1]
    BY Zenon DEF NoTupleIsMissed
  <2>1. Types /\ EntriesFollowTheStream
    BY Zenon DEF IInv
  <2>a. PICK a, b : a = t[1] /\ b = t[2]
    BY Zenon
  <2>2. IsTuple(a, b) /\ a \in 0..Last /\ b \in 0..Last
    BY <2>1, <2>a, Tuples, Zenon
  <2>3. InRing(a)
    <3>1. \A w \in Worker : worker[w].at \notin {"set", "publish"}
      BY Zenon DEF AllIdle, At
    <3> QED
      BY <2>a, <3>1, Zenon DEF InRing
  <2>4. \A c \in a..b : c \in 0..Last /\ (c = a \/ c \in (a + 1)..b)
    BY <2>2, StreamIsNotEmpty
  <2>5. \A c \in a..b : Published(c)
    BY <2>1, <2>3, <2>4, <2>a, Zenon DEF EntriesFollowTheStream
  <2> QED
    BY <2>2, <2>5, <2>a, <1>AllResolved, Zenon
<1>ReferencesAreThere.
      ASSUME IInv
      PROVE  ReferencesAreKeptForTheirTuple
  <2> USE <1>ReferencesAreThere
  <2>1. /\ Types /\ SearchesAreExact /\ ClaimsAreExclusive /\ UsesAreMarked /\ AllTakeInOrder
        /\ \A sn \in 0..Last : KeepsReferences(sn)
    BY ClaimParts, ReferenceParts, Zenon DEF IInv
  <2> SUFFICES ASSUME NEW w \in Worker
               PROVE  /\ worker[w].at = "takeFirst" => entry[Index(worker[w].first)].trailing = worker[w].first
                      /\ worker[w].at = "take" =>
                          \A sn \in NextOf(worker[w])..worker[w].final :
                              /\ entry[Index(sn)].aba = ABAItNo(sn)
                              /\ entry[Index(sn)].leading = sn
                              /\ sn < worker[w].final => entry[Index(sn)].trailing = sn
    BY Zenon DEF ReferencesAreKeptForTheirTuple, At
  <2>a. PICK f, l, n : f = worker[w].first /\ l = worker[w].final /\ n = Taken(w)
    BY Zenon
  <2>2. ASSUME Taking(w), Marked(w) = n, NEW sn \in 0..Last, f + n <= sn, sn <= l
        PROVE  /\ Held(sn)
               /\ sn < l => entry[Index(sn)].trailing = sn
               /\ f < sn => entry[Index(sn)].leading = sn
    <3>1. /\ Held(sn)
          /\ sn < l => ~TrailingTaken(sn) /\ ~entry[Index(sn)].usedTrailing
          /\ f < sn => ~LeadingTaken(sn) /\ ~entry[Index(sn)].usedLeading
      BY <2>1, <2>2, <2>a, UnmarkedIsHeld, Zenon
    <3> QED
      BY <2>1, <3>1, Zenon DEF KeepsReferences
  <2>3. ASSUME worker[w].at = "takeFirst" PROVE entry[Index(f)].trailing = f
    <3>1. Taking(w) /\ Marked(w) = n
      BY <2>3, <2>a DEF Taking, Marked
    <3>2. n = 0
      BY <2>1, <2>3, <2>a, <3>1, Zenon DEF AllTakeInOrder, TakesInOrder
    <3>3. f \in 0..Last /\ l \in 0..Last /\ f < l
      BY <2>1, <2>a, <3>1, TakingFacts, Zenon DEF IsTuple
    <3>4. f + n <= f /\ f <= l
      BY <3>2, <3>3, StreamIsNotEmpty
    <3> QED
      BY <2>2, <3>1, <3>3, <3>4, Zenon
  <2>4. ASSUME worker[w].at = "take", NEW sn \in NextOf(worker[w])..worker[w].final
        PROVE  /\ entry[Index(sn)].aba = ABAItNo(sn)
               /\ entry[Index(sn)].leading = sn
               /\ sn < worker[w].final => entry[Index(sn)].trailing = sn
    <3>1. Taking(w) /\ Marked(w) = n
      BY <2>4, <2>a DEF Taking, Marked
    <3>2. /\ f \in 0..Last /\ l \in 0..Last /\ n \in Nat
          /\ NextOf(worker[w]) \in 0..Last /\ f < NextOf(worker[w])
      BY <2>1, <2>4, <2>a, <3>1, TakingFacts, Zenon
    <3>3. NextOf(worker[w]) = f + n
      BY <2>a, Zenon DEF NextOf, Taken
    <3>4. sn \in (f + n)..l /\ f + n \in 0..Last /\ f < f + n
      BY <2>4, <2>a, <3>2, <3>3, Zenon
    <3>5. sn \in 0..Last /\ f + n <= sn /\ sn <= l /\ f < sn
      BY <3>2, <3>4, StreamIsNotEmpty
    <3> QED
      BY <2>2, <2>a, <3>1, <3>5, Zenon DEF Held
  <2> QED
    BY <2>3, <2>4, <2>a, Zenon
\* A stream that ends with a delimiter has a tuple around every two buffers that follow each other.
<1>TupleAround.
      ASSUME Types, Minimum, Last \in delimited, NEW k \in 0..Last, k # Last
      PROVE  \E a, b \in 0..Last : IsTuple(a, b) /\ a <= k /\ k < b
  <2> USE <1>TupleAround
  <2> DEFINE After == {c \in delimited : k < c}
             Back == {n \in 0..Last : Last - n \in delimited /\ Last - n <= k}
  <2>1. Last \in Nat /\ 0 \in delimited /\ delimited \subseteq 0..Last /\ k \in Nat
    BY StreamIsNotEmpty DEF Types, TypeOK
  <2>2. After \in SUBSET Nat /\ Last \in After
    <3>1. k < Last /\ \A c \in 0..Last : c \in Nat
      BY <2>1
    <3> QED
      BY <2>1, <3>1, Zenon
  <2>3. Back \in SUBSET Nat /\ Last \in Back
    <3>1. Last - Last = 0 /\ 0 <= k /\ Last \in 0..Last /\ \A n \in 0..Last : n \in Nat
      BY <2>1
    <3> QED
      BY <2>1, <3>1, Zenon
  <2>4. PICK b \in After : \A y \in After : b <= y
    BY <2>2, Zenon DEF Minimum
  <2>5. PICK n \in Back : \A y \in Back : n <= y
    BY <2>3, Zenon DEF Minimum
  <2> DEFINE a == Last - n
  <2>6. a \in 0..Last /\ b \in 0..Last /\ a \in delimited /\ b \in delimited /\ a <= k /\ k < b /\ a < b
    BY <2>1, <2>4, <2>5
  <2>7. ASSUME NEW c \in delimited, a < c, c < b PROVE FALSE
    <3>1. c \in 0..Last
      BY <2>1, Zenon
    <3>2. CASE k < c
      <4>1. c \in After
        BY <3>2, Zenon
      <4>2. b <= c
        BY <2>4, <4>1, Zenon
      <4> QED
        BY <2>6, <2>7, <3>1, <4>2, StreamIsNotEmpty
    <3>3. CASE ~(k < c)
      <4>1. Last - c \in Back
        BY <2>1, <3>1, <3>3
      <4>2. n <= Last - c
        BY <2>5, <4>1, Zenon
      <4> QED
        BY <2>1, <2>5, <2>7, <3>1, <4>2
    <3> QED
      BY <3>2, <3>3, Zenon
  <2> HIDE DEF a
  <2>8. IsTuple(a, b)
    BY <2>6, <2>7, Zenon DEF IsTuple
  <2> QED
    BY <2>6, <2>8, Zenon
<1>EndIsValid.
      ASSUME IInv, Minimum
      PROVE  FinalStateIsValid
  <2> USE <1>EndIsValid
  <2> SUFFICES ASSUME AllIdle, todo = {}, Last \in delimited PROVE Valid
    BY Zenon DEF FinalStateIsValid
  <2>1. /\ Types /\ EntriesFollowTheStream /\ SearchesAreExact /\ ClaimsAreExclusive /\ UsesAreMarked
        /\ \A i \in Ring : UsedIsEmpty(i)
    BY ReferenceParts, Zenon DEF IInv
  <2>2. \A w \in Worker : worker[w].at = "idle"
    BY Zenon DEF AllIdle, At
  <2>3. \A sn \in 0..Last : Published(sn)
    <3>1. \A w \in Worker : worker[w].at \notin {"set", "publish"}
      BY <2>2, Zenon
    <3> QED
      BY <2>1, <3>1, Zenon DEF EntriesFollowTheStream, InRing
  <2>4. Last \in Nat /\ Last \in 0..Last
    BY StreamIsNotEmpty
  <2>5. ASSUME NEW a \in 0..Last, NEW b \in 0..Last, IsTuple(a, b), NEW sn \in 0..Last
        PROVE  /\ a < sn /\ sn <= b => LeadingMarked(sn)
               /\ a <= sn /\ sn < b => TrailingMarked(sn)
    <3>1. \A c \in a..b : c \in 0..Last
      BY StreamIsNotEmpty
    <3>2. \A c \in a..b : Published(c)
      BY <2>3, <3>1, Zenon
    <3>3. PICK x \in resolved : x.first = a /\ x.first + Len(x.buffers) - 1 = b
      BY <2>5, <3>2, <1>AllResolved, Zenon
    <3>4. PICK n : n = Len(x.buffers)
      BY Zenon
    <3>5. n \in Nat
      BY <2>1, <3>4, ResolvedFacts, Zenon
    <3>6. a + n - 1 = b
      BY <3>3, <3>4, Zenon
    <3>7. /\ a < sn /\ sn <= b => LeadingPart(sn, a, n)
          /\ a <= sn /\ sn < b => TrailingPart(sn, a, n, b)
      BY <3>5, <3>6, StreamIsNotEmpty DEF LeadingPart, TrailingPart
    <3>8. LeadingPart(sn, a, n) => LeadingMarked(sn)
      BY <3>3, <3>4, Zenon DEF LeadingMarked, LeadingResolved
    <3>9. TrailingPart(sn, a, n, b) => TrailingMarked(sn)
      BY <3>3, <3>4, Zenon DEF TrailingMarked, TrailingResolved
    <3> QED
      BY <3>7, <3>8, <3>9, Zenon
  <2>6. ASSUME NEW sn \in 0..Last, Held(sn) PROVE entry[Index(sn)].usedLeading /\ (sn # Last => entry[Index(sn)].usedTrailing)
    <3>1. sn # 0 => LeadingMarked(sn)
      <4> SUFFICES ASSUME sn # 0 PROVE LeadingMarked(sn)
        BY Zenon
      <4>1. PICK k \in 0..Last : k = sn - 1 /\ k # Last
        BY <2>4
      <4>2. PICK a, b \in 0..Last : IsTuple(a, b) /\ a <= k /\ k < b
        BY <2>1, <4>1, <1>TupleAround, Zenon
      <4>3. a < sn /\ sn <= b
        BY <4>1, <4>2, StreamIsNotEmpty
      <4> QED
        BY <2>5, <4>2, <4>3, Zenon
    <3>2. sn # Last => TrailingMarked(sn)
      <4> SUFFICES ASSUME sn # Last PROVE TrailingMarked(sn)
        BY Zenon
      <4>1. PICK a, b \in 0..Last : IsTuple(a, b) /\ a <= sn /\ sn < b
        BY <2>1, <1>TupleAround, Zenon
      <4> QED
        BY <2>5, <4>1, Zenon
    <3> QED
      BY <2>1, <2>3, <2>6, <3>1, <3>2, Zenon DEF UsesAreMarked
  <2>7. ASSUME NEW i \in Ring PROVE Unset(i)
    <3>1. \A w \in Worker : worker[w].at # "publish"
      BY <2>2, Zenon
    <3> QED
      BY <3>1, Zenon DEF Unset
  <2>8. ASSUME NEW i \in Ring
        PROVE  /\ entry[i].usedLeading
               /\ (IF i = RingSize - 1 THEN entry[i].aba + 1 ELSE entry[i].aba) = entry[(i + 1) % RingSize].aba
                      => entry[i].usedTrailing
    <3>1. CASE entry[i].aba = 0
      BY <2>1, <3>1, Zenon DEF EntriesFollowTheStream, Ring
    <3>2. CASE entry[i].aba # 0
      <4>1. PICK sn \in 0..Last : Index(sn) = i /\ Held(sn)
        BY <2>1, <3>2, Zenon DEF EntriesFollowTheStream, Ring
      <4>2. CASE sn # Last
        BY <2>6, <4>1, <4>2, Zenon
      <4>3. CASE sn = Last
        <5> SUFFICES (IF i = RingSize - 1 THEN entry[i].aba + 1 ELSE entry[i].aba) # entry[(i + 1) % RingSize].aba
          BY <2>6, <4>1, Zenon
        <5>1. entry[i].aba = ABAItNo(Last)
          BY <4>1, <4>3, Zenon DEF Held
        <5>2. PICK j, m : j = Index(Last + 1) /\ m = ABAItNo(Last + 1)
          BY Zenon
        <5>3. j = (i + 1) % RingSize /\ m = IF i = RingSize - 1 THEN ABAItNo(Last) + 1 ELSE ABAItNo(Last)
          BY <2>4, <4>1, <4>3, <5>2, NextPlace, Zenon
        <5>4. Last + 1 \in Nat /\ ~(Last + 1 \in 0..Last)
          BY <2>4
        <5>5. j \in Ring /\ m \in Nat /\ m > 0
          BY <5>2, <5>4, Places, Zenon DEF Ring
        <5>6. m # 0
          BY <5>5
        <5>7. entry[j].aba # m
          <6> SUFFICES ASSUME entry[j].aba = m PROVE FALSE
            BY Zenon
          <6>1. PICK c \in 0..Last : Index(c) = j /\ Held(c)
            BY <2>1, <5>5, <5>6, Zenon DEF EntriesFollowTheStream, Ring
          <6>2. ABAItNo(c) = m
            BY <6>1, Zenon DEF Held
          <6>3. c \in Nat
            BY <2>1, TypeFacts, Zenon
          <6>4. c = Last + 1
            BY <5>2, <5>4, <6>1, <6>2, <6>3, SamePlace, Zenon
          <6> QED
            BY <5>4, <6>4, Zenon
        <5> QED
          BY <5>1, <5>3, <5>7, Zenon
      <4> QED
        BY <4>2, <4>3, Zenon
    <3> QED
      BY <3>1, <3>2, Zenon
  <2>9. \A i \in Ring : /\ entry[i].usedLeading => entry[i].leading = Null
                        /\ entry[i].usedTrailing => entry[i].trailing = Null
    BY <2>1, <2>7, Zenon DEF UsedIsEmpty
  <2> QED
    BY <2>8, <2>9, Zenon DEF Valid, Ring
<1> QED
  BY <1>OnceAndWhole, <1>NoneIsMissed, <1>ReferencesAreThere, <1>EndIsValid, Zenon DEF RingIsSound, IInv, Types

-----------------------------------------------------------------------------
\* What the steps do to a worker and to an entry

\* After a step of w, its variables are these, and the other workers' the same.
Now(w, at, sn, distance, first, final, buffers) ==
  /\ worker'[w].at = at /\ worker'[w].sn = sn /\ worker'[w].distance = distance
  /\ worker'[w].first = first /\ worker'[w].final = final /\ worker'[w].buffers = buffers
  /\ \A v \in Worker : v # w => worker'[v] = worker[v]

\* After a step, entry i is in this state and has these references, and the other entries are the same.
State(i, aba, delimiter, claimed, usedLeading, usedTrailing) ==
  /\ entry'[i].aba = aba /\ entry'[i].delimiter = delimiter /\ entry'[i].claimed = claimed
  /\ entry'[i].usedLeading = usedLeading /\ entry'[i].usedTrailing = usedTrailing
  /\ \A j \in Ring : j # i => entry'[j] = entry[j]
References(i, leading, trailing) == entry'[i].leading = leading /\ entry'[i].trailing = trailing

LEMMA Becomes ==
  ASSUME Types, NEW w \in Worker, NEW n, worker' = [worker EXCEPT ![w] = n]
  PROVE  Now(w, n.at, n.sn, n.distance, n.first, n.final, n.buffers)
<1>1. worker \in [Worker -> Workers]
  BY TypeFacts, Zenon
<1> QED
  BY <1>1, Zenon DEF Now

LEMMA BeginDoes ==
  ASSUME Types, NEW w \in Worker, NEW sn \in Buffer, BeginBuffer(w, sn)
  PROVE  /\ At(w, "idle") /\ UsedUp(sn) /\ sn \in todo /\ todo' = todo \ {sn}
         /\ Now(w, "set", sn, 0, 0, 0, <<>>)
         /\ UNCHANGED <<delimited, entry, resolved>>
  BY TypeFacts DEF BeginBuffer, Now, Idle

LEMMA SetDoes ==
  ASSUME Types, NEW w \in Worker, SetBuffers(w)
  PROVE  LET r == worker[w]
             i == Index(r.sn)
             e == entry[i]
         IN  /\ r.at = "set"
             /\ Now(w, "publish", r.sn, r.distance, r.first, r.final, r.buffers)
             /\ State(i, e.aba, e.delimiter, e.claimed, e.usedLeading, e.usedTrailing)
             /\ References(i, r.sn, r.sn)
             /\ UNCHANGED <<delimited, todo, resolved>>
<1>1. worker \in [Worker -> Workers] /\ entry \in [Ring -> Entries] /\ Index(worker[w].sn) \in Ring
  BY TypeFacts, Zenon DEF Workers
<1>2. At(w, "set") /\ Goto(w, "publish") /\ UNCHANGED <<delimited, todo, resolved>>
      /\ entry' = [entry EXCEPT ![Index(worker[w].sn)].leading = worker[w].sn, ![Index(worker[w].sn)].trailing = worker[w].sn]
  BY Zenon DEF SetBuffers
<1>3. Now(w, "publish", worker[w].sn, worker[w].distance, worker[w].first, worker[w].final, worker[w].buffers)
  BY <1>1, <1>2 DEF Goto, Now, Workers
<1>4. State(Index(worker[w].sn), entry[Index(worker[w].sn)].aba, entry[Index(worker[w].sn)].delimiter,
            entry[Index(worker[w].sn)].claimed, entry[Index(worker[w].sn)].usedLeading, entry[Index(worker[w].sn)].usedTrailing)
      /\ References(Index(worker[w].sn), worker[w].sn, worker[w].sn)
  BY <1>1, <1>2 DEF State, References, Entries
<1> QED
  BY <1>2, <1>3, <1>4, Zenon DEF At

LEMMA PublishDoes ==
  ASSUME Types, NEW w \in Worker, Publish(w)
  PROVE  LET r == worker[w]
             i == Index(r.sn)
             e == entry[i]
         IN  /\ r.at = "publish"
             /\ Now(w, "searchLeading", r.sn, 1, r.first, r.final, r.buffers)
             /\ State(i, ABAItNo(r.sn), r.sn \in delimited, FALSE, FALSE, FALSE)
             /\ References(i, e.leading, e.trailing)
             /\ UNCHANGED <<delimited, todo, resolved>>
<1> DEFINE r == worker[w]
           i == Index(r.sn)
           e == entry[i]
<1>1. worker \in [Worker -> Workers] /\ entry \in [Ring -> Entries] /\ i \in Ring
  BY TypeFacts, Zenon DEF Workers
<1>2. /\ At(w, "publish") /\ UNCHANGED <<delimited, todo, resolved>>
      /\ entry' = [entry EXCEPT ![i] = [Fresh(r.sn) EXCEPT !.leading = e.leading, !.trailing = e.trailing]]
      /\ worker' = [worker EXCEPT ![w].at = "searchLeading", ![w].distance = 1]
  BY Zenon DEF Publish
<1>3. Now(w, "searchLeading", r.sn, 1, r.first, r.final, r.buffers)
  BY <1>1, <1>2 DEF Now, Workers
<1>4. State(i, ABAItNo(r.sn), r.sn \in delimited, FALSE, FALSE, FALSE) /\ References(i, e.leading, e.trailing)
  BY <1>1, <1>2 DEF State, References, Fresh
<1> QED
  BY <1>2, <1>3, <1>4, Zenon DEF At

\* What a worker does next is AfterResolving.
Resumes(w) ==
  IF worker[w].sn \in delimited /\ worker[w].first # worker[w].sn
  THEN Now(w, "searchTrailing", worker[w].sn, 1, worker[w].sn, worker[w].final, <<>>)
  ELSE Now(w, "idle", 0, 0, 0, 0, <<>>)

LEMMA ResumeDoes ==
  ASSUME Types, NEW w \in Worker, worker' = [worker EXCEPT ![w] = AfterResolving(worker[w])]
  PROVE  Resumes(w)
<1> DEFINE r == worker[w]
<1>1. worker \in [Worker -> Workers] /\ r \in Workers
  BY TypeFacts, Zenon
<1>2. CASE r.sn \in delimited /\ r.first # r.sn
  <2>1. worker' = [worker EXCEPT ![w] = TrailingSearch(r)]
    BY <1>2, Zenon DEF AfterResolving
  <2> DEFINE n == TrailingSearch(r)
  <2>2. /\ n.at = "searchTrailing" /\ n.sn = r.sn /\ n.distance = 1
        /\ n.first = r.sn /\ n.final = r.final /\ n.buffers = <<>>
    <3> HIDE DEF r
    <3> QED
      BY <1>1 DEF Workers, TrailingSearch
  <2>3. Now(w, "searchTrailing", r.sn, 1, r.sn, r.final, <<>>)
    <3> HIDE DEF n, r
    <3>1. worker' = [worker EXCEPT ![w] = n]
      BY <2>1, Zenon DEF n
    <3>2. Now(w, n.at, n.sn, n.distance, n.first, n.final, n.buffers)
      BY <3>1, Becomes, Zenon
    <3> QED
      BY <2>2, <3>2, Zenon DEF Now
  <2> QED
    BY <1>2, <2>3, Zenon DEF Resumes
<1>3. CASE ~(r.sn \in delimited /\ r.first # r.sn)
  <2>1. worker' = [worker EXCEPT ![w] = Idle]
    BY <1>3, Zenon DEF AfterResolving
  <2> DEFINE n == Idle
  <2>2. /\ n.at = "idle" /\ n.sn = 0 /\ n.distance = 0
        /\ n.first = 0 /\ n.final = 0 /\ n.buffers = <<>>
    <3> HIDE DEF r
    <3> QED
      BY <1>1 DEF Idle
  <2>3. Now(w, "idle", 0, 0, 0, 0, <<>>)
    <3> HIDE DEF n, r
    <3>1. worker' = [worker EXCEPT ![w] = n]
      BY <2>1, Zenon DEF n
    <3>2. Now(w, n.at, n.sn, n.distance, n.first, n.final, n.buffers)
      BY <3>1, Becomes, Zenon
    <3> QED
      BY <2>2, <3>2, Zenon DEF Now
  <2> QED
    BY <1>3, <2>3, Zenon DEF Resumes
<1> QED
  BY <1>2, <1>3, Zenon

LEMMA SearchLeadingDoes ==
  ASSUME Types, NEW w \in Worker, SearchLeading(w)
  PROVE  LET r == worker[w]
             e == entry[LeadingIndex(r.sn, r.distance)]
             k == LeadingABA(r.sn, r.distance)
         IN  /\ r.at = "searchLeading"
             /\ UNCHANGED <<delimited, entry, todo, resolved>>
             /\ \/ e.aba # k /\ Resumes(w)
                \/ e.aba = k /\ ~e.delimiter
                   /\ Now(w, "searchLeading", r.sn, r.distance + 1, r.first, r.final, r.buffers)
                \/ e.aba = k /\ e.delimiter /\ r.sn \in delimited
                   /\ Now(w, "claim", r.sn, r.distance, r.sn - r.distance, r.sn, r.buffers)
                \/ e.aba = k /\ e.delimiter /\ r.sn \notin delimited
                   /\ Now(w, "searchTrailing", r.sn, 1, r.sn - r.distance, r.sn, r.buffers)
<1> DEFINE r == worker[w]
           e == entry[LeadingIndex(r.sn, r.distance)]
           k == LeadingABA(r.sn, r.distance)
           found == [r EXCEPT !.first = r.sn - r.distance, !.final = r.sn]
           New == CASE e.aba # k -> AfterResolving(r)
                    [] e.aba = k /\ ~e.delimiter -> [r EXCEPT !.distance = @ + 1]
                    [] OTHER -> IF r.sn \in delimited
                                THEN [found EXCEPT !.at = "claim"]
                                ELSE [found EXCEPT !.at = "searchTrailing", !.distance = 1]
<1>1. worker \in [Worker -> Workers] /\ r \in Workers
  BY TypeFacts, Zenon
<1>a. r.at = "searchLeading"
  BY Zenon DEF SearchLeading, At
<1>2. r.at = "searchLeading" /\ UNCHANGED <<delimited, entry, todo, resolved>> /\ worker' = [worker EXCEPT ![w] = New]
  BY Zenon DEF SearchLeading, At
<1>3. CASE e.aba # k
  <2>1. worker' = [worker EXCEPT ![w] = AfterResolving(r)]
    BY <1>2, <1>3, Zenon
  <2> QED
    BY <1>2, <1>3, <2>1, ResumeDoes, Zenon
<1>4. CASE e.aba = k /\ ~e.delimiter
  <2>1. worker' = [worker EXCEPT ![w] = [r EXCEPT !.distance = @ + 1]]
    <3> HIDE DEF e, k
    <3>1. New = [r EXCEPT !.distance = @ + 1]
      BY <1>4
    <3> QED
      BY <1>2, <3>1, Zenon
  <2> DEFINE n == [r EXCEPT !.distance = @ + 1]
  <2>2. /\ n.at = "searchLeading" /\ n.sn = r.sn /\ n.distance = r.distance + 1
        /\ n.first = r.first /\ n.final = r.final /\ n.buffers = r.buffers
    <3> HIDE DEF r
    <3> QED
      BY <1>a, <1>1 DEF Workers
  <2>3. Now(w, "searchLeading", r.sn, r.distance + 1, r.first, r.final, r.buffers)
    <3> HIDE DEF n, r
    <3>1. worker' = [worker EXCEPT ![w] = n]
      BY <2>1, Zenon DEF n
    <3>2. Now(w, n.at, n.sn, n.distance, n.first, n.final, n.buffers)
      BY <3>1, Becomes, Zenon
    <3> QED
      BY <2>2, <3>2, Zenon DEF Now
  <2> QED
    BY <1>2, <1>4, <2>3, Zenon
<1>5. CASE e.aba = k /\ e.delimiter /\ r.sn \in delimited
  <2>1. worker' = [worker EXCEPT ![w] = [found EXCEPT !.at = "claim"]]
    <3> HIDE DEF e, k, found
    <3>1. New = [found EXCEPT !.at = "claim"]
      BY <1>5
    <3> QED
      BY <1>2, <3>1, Zenon
  <2> DEFINE n == [found EXCEPT !.at = "claim"]
  <2>2. /\ n.at = "claim" /\ n.sn = r.sn /\ n.distance = r.distance
        /\ n.first = r.sn - r.distance /\ n.final = r.sn /\ n.buffers = r.buffers
    <3> HIDE DEF r
    <3> QED
      BY <1>1 DEF Workers
  <2>3. Now(w, "claim", r.sn, r.distance, r.sn - r.distance, r.sn, r.buffers)
    <3> HIDE DEF n, r
    <3>1. worker' = [worker EXCEPT ![w] = n]
      BY <2>1, Zenon DEF n
    <3>2. Now(w, n.at, n.sn, n.distance, n.first, n.final, n.buffers)
      BY <3>1, Becomes, Zenon
    <3> QED
      BY <2>2, <3>2, Zenon DEF Now
  <2> QED
    BY <1>2, <1>5, <2>3, Zenon
<1>6. CASE e.aba = k /\ e.delimiter /\ r.sn \notin delimited
  <2>1. worker' = [worker EXCEPT ![w] = [found EXCEPT !.at = "searchTrailing", !.distance = 1]]
    <3> HIDE DEF e, k, found
    <3>1. New = [found EXCEPT !.at = "searchTrailing", !.distance = 1]
      BY <1>6
    <3> QED
      BY <1>2, <3>1, Zenon
  <2> DEFINE n == [found EXCEPT !.at = "searchTrailing", !.distance = 1]
  <2>2. /\ n.at = "searchTrailing" /\ n.sn = r.sn /\ n.distance = 1
        /\ n.first = r.sn - r.distance /\ n.final = r.sn /\ n.buffers = r.buffers
    <3> HIDE DEF r
    <3> QED
      BY <1>1 DEF Workers
  <2>3. Now(w, "searchTrailing", r.sn, 1, r.sn - r.distance, r.sn, r.buffers)
    <3> HIDE DEF n, r
    <3>1. worker' = [worker EXCEPT ![w] = n]
      BY <2>1, Zenon DEF n
    <3>2. Now(w, n.at, n.sn, n.distance, n.first, n.final, n.buffers)
      BY <3>1, Becomes, Zenon
    <3> QED
      BY <2>2, <3>2, Zenon DEF Now
  <2> QED
    BY <1>2, <1>6, <2>3, Zenon
<1> QED
  BY <1>3, <1>4, <1>5, <1>6, Zenon

LEMMA SearchTrailingDoes ==
  ASSUME Types, NEW w \in Worker, SearchTrailing(w)
  PROVE  LET r == worker[w]
             e == entry[TrailingIndex(r.sn, r.distance)]
             k == TrailingABA(r.sn, r.distance)
         IN  /\ r.at = "searchTrailing"
             /\ UNCHANGED <<delimited, entry, todo, resolved>>
             /\ \/ e.aba # k /\ Now(w, "idle", 0, 0, 0, 0, <<>>)
                \/ e.aba = k /\ ~e.delimiter
                   /\ Now(w, "searchTrailing", r.sn, r.distance + 1, r.first, r.final, r.buffers)
                \/ e.aba = k /\ e.delimiter
                   /\ Now(w, "claim", r.sn, r.distance, r.first, r.sn + r.distance, r.buffers)
<1> DEFINE r == worker[w]
           e == entry[TrailingIndex(r.sn, r.distance)]
           k == TrailingABA(r.sn, r.distance)
           New == CASE e.aba # k -> Idle
                    [] e.aba = k /\ ~e.delimiter -> [r EXCEPT !.distance = @ + 1]
                    [] OTHER -> [r EXCEPT !.at = "claim", !.final = r.sn + r.distance]
<1>1. worker \in [Worker -> Workers] /\ r \in Workers
  BY TypeFacts, Zenon
<1>a. r.at = "searchTrailing"
  BY Zenon DEF SearchTrailing, At
<1>2. r.at = "searchTrailing" /\ UNCHANGED <<delimited, entry, todo, resolved>> /\ worker' = [worker EXCEPT ![w] = New]
  BY Zenon DEF SearchTrailing, At
<1>3. CASE e.aba # k
  <2>1. worker' = [worker EXCEPT ![w] = Idle]
    BY <1>2, <1>3, Zenon
  <2> DEFINE n == Idle
  <2>2. /\ n.at = "idle" /\ n.sn = 0 /\ n.distance = 0
        /\ n.first = 0 /\ n.final = 0 /\ n.buffers = <<>>
    <3> HIDE DEF r
    <3> QED
      BY <1>1 DEF Idle
  <2>3. Now(w, "idle", 0, 0, 0, 0, <<>>)
    <3> HIDE DEF n, r
    <3>1. worker' = [worker EXCEPT ![w] = n]
      BY <2>1, Zenon DEF n
    <3>2. Now(w, n.at, n.sn, n.distance, n.first, n.final, n.buffers)
      BY <3>1, Becomes, Zenon
    <3> QED
      BY <2>2, <3>2, Zenon DEF Now
  <2> QED
    BY <1>2, <1>3, <2>3, Zenon
<1>4. CASE e.aba = k /\ ~e.delimiter
  <2>1. worker' = [worker EXCEPT ![w] = [r EXCEPT !.distance = @ + 1]]
    <3> HIDE DEF e, k
    <3>1. New = [r EXCEPT !.distance = @ + 1]
      BY <1>4
    <3> QED
      BY <1>2, <3>1, Zenon
  <2> DEFINE n == [r EXCEPT !.distance = @ + 1]
  <2>2. /\ n.at = "searchTrailing" /\ n.sn = r.sn /\ n.distance = r.distance + 1
        /\ n.first = r.first /\ n.final = r.final /\ n.buffers = r.buffers
    <3> HIDE DEF r
    <3> QED
      BY <1>a, <1>1 DEF Workers
  <2>3. Now(w, "searchTrailing", r.sn, r.distance + 1, r.first, r.final, r.buffers)
    <3> HIDE DEF n, r
    <3>1. worker' = [worker EXCEPT ![w] = n]
      BY <2>1, Zenon DEF n
    <3>2. Now(w, n.at, n.sn, n.distance, n.first, n.final, n.buffers)
      BY <3>1, Becomes, Zenon
    <3> QED
      BY <2>2, <3>2, Zenon DEF Now
  <2> QED
    BY <1>2, <1>4, <2>3, Zenon
<1>5. CASE e.aba = k /\ e.delimiter
  <2>1. worker' = [worker EXCEPT ![w] = [r EXCEPT !.at = "claim", !.final = r.sn + r.distance]]
    <3> HIDE DEF e, k
    <3>1. New = [r EXCEPT !.at = "claim", !.final = r.sn + r.distance]
      BY <1>5
    <3> QED
      BY <1>2, <3>1, Zenon
  <2> DEFINE n == [r EXCEPT !.at = "claim", !.final = r.sn + r.distance]
  <2>2. /\ n.at = "claim" /\ n.sn = r.sn /\ n.distance = r.distance
        /\ n.first = r.first /\ n.final = r.sn + r.distance /\ n.buffers = r.buffers
    <3> HIDE DEF r
    <3> QED
      BY <1>1 DEF Workers
  <2>3. Now(w, "claim", r.sn, r.distance, r.first, r.sn + r.distance, r.buffers)
    <3> HIDE DEF n, r
    <3>1. worker' = [worker EXCEPT ![w] = n]
      BY <2>1, Zenon DEF n
    <3>2. Now(w, n.at, n.sn, n.distance, n.first, n.final, n.buffers)
      BY <3>1, Becomes, Zenon
    <3> QED
      BY <2>2, <3>2, Zenon DEF Now
  <2> QED
    BY <1>2, <1>5, <2>3, Zenon
<1> QED
  BY <1>3, <1>4, <1>5, Zenon

LEMMA TryClaimDoes ==
  ASSUME Types, NEW w \in Worker, TryClaim(w)
  PROVE  LET r == worker[w]
             i == Index(r.first)
             e == entry[i]
         IN  /\ r.at = "claim" /\ UNCHANGED <<delimited, todo, resolved>>
             /\ \/ /\ Claimable(r.first)
                   /\ Now(w, "takeFirst", r.sn, r.distance, r.first, r.final, r.buffers)
                   /\ State(i, e.aba, e.delimiter, TRUE, e.usedLeading, e.usedTrailing)
                   /\ References(i, e.leading, e.trailing)
                \/ ~Claimable(r.first) /\ entry' = entry /\ Resumes(w)
<1> DEFINE r == worker[w]
           i == Index(r.first)
           e == entry[i]
<1>1. worker \in [Worker -> Workers] /\ entry \in [Ring -> Entries] /\ i \in Ring
  BY TypeFacts, Zenon DEF Workers
<1>2. r.at = "claim" /\ UNCHANGED <<delimited, todo, resolved>>
  BY Zenon DEF TryClaim, At
<1>3. CASE Claimable(r.first) /\ entry' = [entry EXCEPT ![i].claimed = TRUE] /\ Goto(w, "takeFirst")
  <2>1. Now(w, "takeFirst", r.sn, r.distance, r.first, r.final, r.buffers)
    BY <1>1, <1>3 DEF Goto, Now, Workers
  <2>2. State(i, e.aba, e.delimiter, TRUE, e.usedLeading, e.usedTrailing) /\ References(i, e.leading, e.trailing)
    BY <1>1, <1>3 DEF State, References, Entries
  <2> QED
    BY <1>2, <1>3, <2>1, <2>2, Zenon
<1>4. CASE ~Claimable(r.first) /\ worker' = [worker EXCEPT ![w] = AfterResolving(r)] /\ entry' = entry
  BY <1>2, <1>4, ResumeDoes, Zenon
<1> QED
  BY <1>3, <1>4, Zenon DEF TryClaim

-----------------------------------------------------------------------------
\* Which buffers are in the ring

\* All steps but one leave every entry to the buffer it holds.
SameOccupancy == \A i \in Ring : entry'[i].aba = entry[i].aba /\ entry'[i].delimiter = entry[i].delimiter
OthersStay(w) == \A v \in Worker : v # w => worker'[v] = worker[v]

LEMMA SameRing ==
  ASSUME Types, SameOccupancy, delimited' = delimited
  PROVE  /\ \A sn \in 0..Last : Published(sn)' <=> Published(sn)
         /\ \A sn \in 0..Last : Held(sn)' <=> Held(sn)
         /\ \A sn \in 0..Last : entry'[Index(sn)].aba = entry[Index(sn)].aba
                                /\ entry'[Index(sn)].delimiter = entry[Index(sn)].delimiter
<1>1. \A sn \in 0..Last : Index(sn) \in Ring
  BY TypeFacts, Zenon
<1> QED
  BY <1>1, Zenon DEF Published, Held, SameOccupancy

\* The entry of a buffer that a worker is about to publish is used up.
LEMMA BeforePublishing ==
  ASSUME Types, EveryBufferHasOneTask, EntriesFollowTheStream, NEW w \in Worker, worker[w].at \in {"set", "publish"}
  PROVE  LET p == worker[w].sn
         IN  /\ p \in 0..Last /\ p \in Nat /\ p # 0 /\ p \in Buffer /\ p \notin todo
             /\ Index(p) \in Ring
             /\ entry[Index(p)].usedLeading /\ entry[Index(p)].usedTrailing
             /\ entry[Index(p)].aba = ABAItNo(p) - 1
             /\ ~Published(p)
<1> DEFINE p == worker[w].sn
<1>1. p \in Buffer \ todo
  BY Zenon DEF EveryBufferHasOneTask, At
<1>2. p \in 0..Last /\ p \in Nat /\ p # 0 /\ Index(p) \in Ring
  BY <1>1, TypeFacts, Zenon
<1>3. UsedUp(p)
  BY Zenon DEF EntriesFollowTheStream
<1>4. entry[Index(p)].usedLeading /\ entry[Index(p)].usedTrailing /\ entry[Index(p)].aba = ABAItNo(p) - 1
  BY <1>3, Zenon DEF UsedUp
<1>5. ~Published(p)
  <2>1. ABAItNo(p) \in Nat
    BY <1>2, Places, Zenon
  <2> QED
    BY <1>4, <2>1 DEF Published
<1> QED
  BY <1>1, <1>2, <1>4, <1>5, Zenon

LEMMA Publishing ==
  ASSUME Types, EveryBufferHasOneTask, EntriesFollowTheStream, NEW w \in Worker, Publish(w)
  PROVE  LET p == worker[w].sn
         IN  /\ \A sn \in 0..Last : Published(sn)' <=> Published(sn) \/ sn = p
             /\ \A sn \in 0..Last : Held(sn)' <=> (Held(sn) /\ Index(sn) # Index(p)) \/ sn = p
             /\ \A sn \in 0..Last : Index(sn) # Index(p) => entry'[Index(sn)] = entry[Index(sn)]
             /\ \A sn \in 0..Last : Index(sn) = Index(p) /\ Held(sn) => sn # p
<1> DEFINE p == worker[w].sn
<1>1. worker[w].at = "publish" /\ State(Index(p), ABAItNo(p), p \in delimited, FALSE, FALSE, FALSE)
  BY PublishDoes, Zenon
<1>2. p \in Nat /\ p \in 0..Last /\ Index(p) \in Ring /\ entry[Index(p)].aba = ABAItNo(p) - 1 /\ ~Published(p)
  BY <1>1, BeforePublishing, Zenon
<1>3. \A sn \in 0..Last : Index(sn) # Index(p) => entry'[Index(sn)] = entry[Index(sn)]
  BY <1>1, TypeFacts, Zenon DEF State
<1>4. entry'[Index(p)].aba = ABAItNo(p)
  BY <1>1, Zenon DEF State
<1> HIDE DEF p
<1>5. ASSUME NEW sn \in 0..Last
      PROVE  /\ Published(sn)' <=> Published(sn) \/ sn = p
             /\ Held(sn)' <=> (Held(sn) /\ Index(sn) # Index(p)) \/ sn = p
             /\ Index(sn) = Index(p) /\ Held(sn) => sn # p
  <2>1. sn \in Nat
    BY TypeFacts, Zenon
  <2>2. CASE Index(sn) # Index(p)
    BY <1>3, <2>2, Zenon DEF Published, Held
  <2>3. CASE Index(sn) = Index(p)
    <3>1. ABAItNo(sn) \in Nat /\ ABAItNo(p) \in Nat /\ (ABAItNo(sn) = ABAItNo(p) <=> sn = p)
          /\ (ABAItNo(sn) < ABAItNo(p) <=> sn < p)
      BY <1>2, <2>1, <2>3, Places, SamePlace, Zenon
    <3>2. (Published(sn) <=> ABAItNo(p) - 1 >= ABAItNo(sn)) /\ (Held(sn) <=> ABAItNo(p) - 1 = ABAItNo(sn))
      BY <1>2, <2>3, Zenon DEF Published, Held
    <3>3. (Published(sn)' <=> ABAItNo(p) >= ABAItNo(sn)) /\ (Held(sn)' <=> ABAItNo(p) = ABAItNo(sn))
      BY <1>4, <2>3, Zenon DEF Published, Held
    <3> QED
      BY <1>2, <2>1, <2>3, <3>1, <3>2, <3>3
  <2> QED
    BY <2>2, <2>3, Zenon
<1> QED
  BY <1>3, <1>5, Zenon DEF p

-----------------------------------------------------------------------------
\* Which buffers have been taken and marked

LEMMA OthersKeepTheirs ==
  ASSUME NEW w \in Worker, OthersStay(w)
  PROVE  \A v \in Worker : v # w =>
           /\ Taking(v)' <=> Taking(v)
           /\ Taken(v)' = Taken(v) /\ Marked(v)' = Marked(v)
           /\ worker'[v].first = worker[v].first /\ worker'[v].final = worker[v].final
  BY Zenon DEF OthersStay, Taking, Taken, Marked

LEMMA UsesStay ==
  ASSUME Types, NEW w \in Worker, OthersStay(w), resolved' = resolved, ~Taking(w),
         ~Taking(w)' \/ (Taken(w)' = 0 /\ Marked(w)' = 0 /\ worker'[w].first \in 0..Last), NEW sn \in 0..Last
  PROVE  /\ LeadingTaken(sn)' <=> LeadingTaken(sn)
         /\ TrailingTaken(sn)' <=> TrailingTaken(sn)
         /\ LeadingMarked(sn)' <=> LeadingMarked(sn)
         /\ TrailingMarked(sn)' <=> TrailingMarked(sn)
<1>1. \A v \in Worker : v # w =>
           /\ Taking(v)' <=> Taking(v)
           /\ Taken(v)' = Taken(v) /\ Marked(v)' = Marked(v)
           /\ worker'[v].first = worker[v].first /\ worker'[v].final = worker[v].final
  BY OthersKeepTheirs, Zenon
<1>2. LeadingResolved(sn)' <=> LeadingResolved(sn)
  BY Zenon DEF LeadingResolved
<1>3. TrailingResolved(sn)' <=> TrailingResolved(sn)
  BY Zenon DEF TrailingResolved
<1>4. ASSUME Taking(w)'
      PROVE  /\ ~LeadingPart(sn, worker'[w].first, Taken(w)')
             /\ ~LeadingPart(sn, worker'[w].first, Marked(w)')
             /\ ~TrailingPart(sn, worker'[w].first, Taken(w)', worker'[w].final)
             /\ ~TrailingPart(sn, worker'[w].first, Marked(w)', worker'[w].final)
  <2>1. Taken(w)' = 0 /\ Marked(w)' = 0 /\ worker'[w].first \in Nat /\ sn \in Nat
    BY <1>4, TypeFacts, Zenon
  <2> QED
    BY <2>1 DEF LeadingPart, TrailingPart
<1>5. LeadingTaken(sn)' <=> LeadingTaken(sn)
  BY <1>1, <1>2, <1>4, Zenon DEF LeadingTaken, LeadingPart
<1>6. LeadingMarked(sn)' <=> LeadingMarked(sn)
  BY <1>1, <1>2, <1>4, Zenon DEF LeadingMarked, LeadingPart
<1>7. TrailingTaken(sn)' <=> TrailingTaken(sn)
  BY <1>1, <1>3, <1>4, Zenon DEF TrailingTaken, TrailingPart
<1>8. TrailingMarked(sn)' <=> TrailingMarked(sn)
  BY <1>1, <1>3, <1>4, Zenon DEF TrailingMarked, TrailingPart
<1> QED
  BY <1>5, <1>6, <1>7, <1>8, Zenon

\* After a step of a worker that takes a tuple, it has taken n of its buffers and marked m, or
\* it has the whole tuple.
Progress(w, n, m) ==
  /\ OthersStay(w)
  /\ \/ /\ resolved' = resolved /\ Taking(w)' /\ Taken(w)' = n /\ Marked(w)' = m
        /\ worker'[w].first = worker[w].first /\ worker'[w].final = worker[w].final
     \/ /\ resolved' = resolved \cup {[by |-> worker[w].sn, first |-> worker[w].first, buffers |-> worker[w].buffers]}
        /\ ~Taking(w)' /\ n = Taken(w) /\ m = n /\ worker[w].first + n - 1 = worker[w].final

LEMMA UsesGrow ==
  ASSUME Types, SearchesAreExact, ClaimsAreExclusive, NEW w \in Worker, Taking(w),
         NEW n \in Nat, NEW m \in Nat, Taken(w) <= n, Marked(w) <= m, Progress(w, n, m), NEW sn \in 0..Last
  PROVE  /\ LeadingTaken(sn)' <=> LeadingTaken(sn) \/ LeadingPart(sn, worker[w].first, n)
         /\ TrailingTaken(sn)' <=> TrailingTaken(sn) \/ TrailingPart(sn, worker[w].first, n, worker[w].final)
         /\ LeadingMarked(sn)' <=> LeadingMarked(sn) \/ LeadingPart(sn, worker[w].first, m)
         /\ TrailingMarked(sn)' <=> TrailingMarked(sn) \/ TrailingPart(sn, worker[w].first, m, worker[w].final)
<1>1. \A v \in Worker : v # w =>
           /\ Taking(v)' <=> Taking(v)
           /\ Taken(v)' = Taken(v) /\ Marked(v)' = Marked(v)
           /\ worker'[v].first = worker[v].first /\ worker'[v].final = worker[v].final
  BY OthersKeepTheirs, Zenon DEF Progress
<1>2. /\ LeadingPart(sn, worker[w].first, Taken(w)) => LeadingPart(sn, worker[w].first, n)
      /\ LeadingPart(sn, worker[w].first, Marked(w)) => LeadingPart(sn, worker[w].first, m)
      /\ TrailingPart(sn, worker[w].first, Taken(w), worker[w].final) => TrailingPart(sn, worker[w].first, n, worker[w].final)
      /\ TrailingPart(sn, worker[w].first, Marked(w), worker[w].final) => TrailingPart(sn, worker[w].first, m, worker[w].final)
  <2>1. worker[w].first \in Nat /\ sn \in Nat /\ Taken(w) \in Nat /\ Marked(w) \in Nat
    BY TakingFacts, TypeFacts, Zenon
  <2> QED
    BY <2>1 DEF LeadingPart, TrailingPart
<1>3. CASE /\ resolved' = resolved /\ Taking(w)' /\ Taken(w)' = n /\ Marked(w)' = m
           /\ worker'[w].first = worker[w].first /\ worker'[w].final = worker[w].final
  <2>1. LeadingResolved(sn)' <=> LeadingResolved(sn)
    BY <1>3, Zenon DEF LeadingResolved
  <2>2. TrailingResolved(sn)' <=> TrailingResolved(sn)
    BY <1>3, Zenon DEF TrailingResolved
  <2>3. LeadingTaken(sn)' <=> LeadingTaken(sn) \/ LeadingPart(sn, worker[w].first, n)
    BY <1>1, <1>2, <1>3, <2>1, Zenon DEF LeadingTaken, LeadingPart
  <2>4. LeadingMarked(sn)' <=> LeadingMarked(sn) \/ LeadingPart(sn, worker[w].first, m)
    BY <1>1, <1>2, <1>3, <2>1, Zenon DEF LeadingMarked, LeadingPart
  <2>5. TrailingTaken(sn)' <=> TrailingTaken(sn) \/ TrailingPart(sn, worker[w].first, n, worker[w].final)
    BY <1>1, <1>2, <1>3, <2>2, Zenon DEF TrailingTaken, TrailingPart
  <2>6. TrailingMarked(sn)' <=> TrailingMarked(sn) \/ TrailingPart(sn, worker[w].first, m, worker[w].final)
    BY <1>1, <1>2, <1>3, <2>2, Zenon DEF TrailingMarked, TrailingPart
  <2> QED
    BY <2>3, <2>4, <2>5, <2>6, Zenon
<1>4. CASE /\ resolved' = resolved \cup {[by |-> worker[w].sn, first |-> worker[w].first, buffers |-> worker[w].buffers]}
           /\ ~Taking(w)' /\ n = Taken(w) /\ m = n /\ worker[w].first + n - 1 = worker[w].final
  <2> DEFINE x == [by |-> worker[w].sn, first |-> worker[w].first, buffers |-> worker[w].buffers]
  <2>0. x.first = worker[w].first /\ x.buffers = worker[w].buffers
    OBVIOUS
  <2>x. x.first = worker[w].first /\ Len(x.buffers) = n /\ x.first + Len(x.buffers) - 1 = worker[w].final
    BY <1>4, <2>0, Zenon DEF Taken
  <2>r. resolved' = resolved \cup {x}
    BY <1>4, Zenon
  <2> HIDE DEF x
  <2>1. LeadingResolved(sn)' <=> LeadingResolved(sn) \/ LeadingPart(sn, worker[w].first, n)
    BY <2>x, <2>r, Zenon DEF LeadingResolved
  <2>2. TrailingResolved(sn)' <=> TrailingResolved(sn) \/ TrailingPart(sn, worker[w].first, n, worker[w].final)
    BY <2>x, <2>r, Zenon DEF TrailingResolved
  <2>3. LeadingTaken(sn)' <=> LeadingTaken(sn) \/ LeadingPart(sn, worker[w].first, n)
    BY <1>1, <1>2, <1>4, <2>1, Zenon DEF LeadingTaken, LeadingPart
  <2>4. LeadingMarked(sn)' <=> LeadingMarked(sn) \/ LeadingPart(sn, worker[w].first, m)
    BY <1>1, <1>2, <1>4, <2>1, Zenon DEF LeadingMarked, LeadingPart
  <2>5. TrailingTaken(sn)' <=> TrailingTaken(sn) \/ TrailingPart(sn, worker[w].first, n, worker[w].final)
    BY <1>1, <1>2, <1>4, <2>2, Zenon DEF TrailingTaken, TrailingPart
  <2>6. TrailingMarked(sn)' <=> TrailingMarked(sn) \/ TrailingPart(sn, worker[w].first, m, worker[w].final)
    BY <1>1, <1>2, <1>4, <2>2, Zenon DEF TrailingMarked, TrailingPart
  <2> QED
    BY <2>3, <2>4, <2>5, <2>6, Zenon
<1> QED
  BY <1>3, <1>4, Zenon DEF Progress

-----------------------------------------------------------------------------
\* The steps of a worker that has won a tuple: it takes buffer c of the tuple, or marks it

LEMMA TakeStep ==
  Types /\ SearchesAreExact /\ ClaimsAreExclusive => \A w \in Worker : (TakeFirst(w) \/ Take(w)) =>
    LET r == worker[w]
        c == r.first + Taken(w)
        i == Index(c)
        e == entry[i]
    IN  /\ Taking(w) /\ Marked(w) = Taken(w) /\ Taken(w) \in Nat
        /\ (r.at = "takeFirst" /\ c = r.first) \/ (r.at = "take" /\ r.first < c)
        /\ c \in 0..Last /\ r.first <= c /\ c <= r.final
        /\ UNCHANGED <<delimited, todo, resolved>>
        /\ worker'[w].at = (IF r.at = "takeFirst" THEN "markFirst" ELSE "mark")
        /\ worker'[w].sn = r.sn /\ worker'[w].distance = r.distance
        /\ Progress(w, Taken(w) + 1, Taken(w))
        /\ \A k \in 1..(Taken(w) + 1) :
             worker'[w].buffers[k] = IF k <= Taken(w) THEN r.buffers[k]
                                     ELSE IF r.first = c THEN e.trailing ELSE e.leading
        /\ worker'[w].buffers \in Seq(0..Last)
        /\ State(i, e.aba, e.delimiter, e.claimed, e.usedLeading, e.usedTrailing)
        /\ References(i, IF r.first = c THEN e.leading ELSE Null, IF c = r.final THEN e.trailing ELSE Null)
<1>TakeFirstDoes.
      ASSUME Types, NEW w \in Worker, TakeFirst(w)
      PROVE  LET r == worker[w]
                 i == Index(r.first)
                 e == entry[i]
             IN  /\ r.at = "takeFirst" /\ UNCHANGED <<delimited, todo, resolved>>
                 /\ Now(w, "markFirst", r.sn, r.distance, r.first, r.final, <<e.trailing>>)
                 /\ State(i, e.aba, e.delimiter, e.claimed, e.usedLeading, e.usedTrailing)
                 /\ References(i, e.leading, Null)
  <2> USE <1>TakeFirstDoes
  <2> DEFINE r == worker[w]
             i == Index(r.first)
             e == entry[i]
  <2>1. worker \in [Worker -> Workers] /\ entry \in [Ring -> Entries] /\ i \in Ring
    BY TypeFacts, Zenon DEF Workers
  <2>2. /\ r.at = "takeFirst" /\ UNCHANGED <<delimited, todo, resolved>>
        /\ worker' = [worker EXCEPT ![w].at = "markFirst", ![w].buffers = <<e.trailing>>]
        /\ entry' = [entry EXCEPT ![i].trailing = Null]
    BY Zenon DEF TakeFirst, At
  <2>3. Now(w, "markFirst", r.sn, r.distance, r.first, r.final, <<e.trailing>>)
    BY <2>1, <2>2 DEF Now, Workers
  <2>4. State(i, e.aba, e.delimiter, e.claimed, e.usedLeading, e.usedTrailing) /\ References(i, e.leading, Null)
    BY <2>1, <2>2 DEF State, References, Entries
  <2> QED
    BY <2>2, <2>3, <2>4, Zenon
<1>TakeDoes.
      ASSUME Types, NEW w \in Worker, Take(w), NextOf(worker[w]) \in 0..Last
      PROVE  LET r == worker[w]
                 i == Index(NextOf(r))
                 e == entry[i]
             IN  /\ r.at = "take" /\ UNCHANGED <<delimited, todo, resolved>>
                 /\ Now(w, "mark", r.sn, r.distance, r.first, r.final, Append(r.buffers, e.leading))
                 /\ State(i, e.aba, e.delimiter, e.claimed, e.usedLeading, e.usedTrailing)
                 /\ References(i, Null, IF NextOf(r) = r.final THEN e.trailing ELSE Null)
  <2> USE <1>TakeDoes
  <2> DEFINE r == worker[w]
             i == Index(NextOf(r))
             e == entry[i]
             new == IF NextOf(r) = r.final THEN e.trailing ELSE Null
  <2>1. worker \in [Worker -> Workers] /\ entry \in [Ring -> Entries] /\ i \in Ring
    BY TypeFacts, Zenon
  <2>2. /\ r.at = "take" /\ UNCHANGED <<delimited, todo, resolved>>
        /\ worker' = [worker EXCEPT ![w].at = "mark", ![w].buffers = Append(@, e.leading)]
        /\ entry' = [entry EXCEPT ![i].leading = Null, ![i].trailing = IF NextOf(r) = r.final THEN @ ELSE Null]
    BY Zenon DEF Take, At
  <2>3. Now(w, "mark", r.sn, r.distance, r.first, r.final, Append(r.buffers, e.leading))
    BY <2>1, <2>2 DEF Now, Workers
  <2>4. State(i, e.aba, e.delimiter, e.claimed, e.usedLeading, e.usedTrailing) /\ References(i, Null, new)
    BY <2>1, <2>2 DEF State, References, Entries
  <2> QED
    BY <2>2, <2>3, <2>4, Zenon
<1> SUFFICES ASSUME Types, SearchesAreExact, ClaimsAreExclusive, NEW w \in Worker, TakeFirst(w) \/ Take(w)
             PROVE  LET r == worker[w]
                        c == r.first + Taken(w)
                        i == Index(c)
                        e == entry[i]
                    IN  /\ Taking(w) /\ Marked(w) = Taken(w) /\ Taken(w) \in Nat
                        /\ (r.at = "takeFirst" /\ c = r.first) \/ (r.at = "take" /\ r.first < c)
                        /\ c \in 0..Last /\ r.first <= c /\ c <= r.final
                        /\ UNCHANGED <<delimited, todo, resolved>>
                        /\ worker'[w].at = (IF r.at = "takeFirst" THEN "markFirst" ELSE "mark")
                        /\ worker'[w].sn = r.sn /\ worker'[w].distance = r.distance
                        /\ Progress(w, Taken(w) + 1, Taken(w))
                        /\ \A k \in 1..(Taken(w) + 1) :
                             worker'[w].buffers[k] = IF k <= Taken(w) THEN r.buffers[k]
                                                     ELSE IF r.first = c THEN e.trailing ELSE e.leading
                        /\ worker'[w].buffers \in Seq(0..Last)
                        /\ State(i, e.aba, e.delimiter, e.claimed, e.usedLeading, e.usedTrailing)
                        /\ References(i, IF r.first = c THEN e.leading ELSE Null, IF c = r.final THEN e.trailing ELSE Null)
  BY Zenon
<1> DEFINE r == worker[w]
           c == r.first + Taken(w)
           i == Index(c)
           e == entry[i]
<1>0. r \in Workers /\ Last \in Nat
  BY TypeFacts, Zenon
<1>1. r.first \in Nat /\ r.final \in Nat /\ r.first \in 0..Last /\ r.buffers \in Seq(0..Last) /\ Len(r.buffers) \in Nat
  BY <1>0 DEF Workers
<1>2. CASE TakeFirst(w)
  <2>1. /\ r.at = "takeFirst" /\ UNCHANGED <<delimited, todo, resolved>>
        /\ Now(w, "markFirst", r.sn, r.distance, r.first, r.final, <<entry[Index(r.first)].trailing>>)
        /\ LET d == entry[Index(r.first)]
           IN  /\ State(Index(r.first), d.aba, d.delimiter, d.claimed, d.usedLeading, d.usedTrailing)
               /\ References(Index(r.first), d.leading, Null)
    BY <1>2, <1>TakeFirstDoes, Zenon
  <2>2. Taking(w) /\ Marked(w) = Taken(w)
    BY <2>1, Zenon DEF Taking, Marked
  <2>3. Taken(w) = 0
    BY <2>1, <2>2, Zenon DEF ClaimsAreExclusive
  <2>4. c = r.first
    BY <1>1, <2>3
  <2>5. r.first < r.final
    BY <2>2, TakingFacts, Zenon DEF IsTuple
  <2>6. c <= r.final /\ r.first <= c /\ c # r.final
    BY <1>1, <2>4, <2>5
  <2>7. e.trailing \in 0..Last
    BY <1>1, <2>4, TypeFacts, Zenon DEF Entries
  <2> HIDE DEF c, e
  <2>8. worker'[w].buffers = <<e.trailing>>
    BY <2>1, <2>4, Zenon DEF Now, e, i
  <2>9. /\ worker'[w].buffers \in Seq(0..Last) /\ Len(worker'[w].buffers) = 1
        /\ worker'[w].buffers[1] = e.trailing
    BY <2>7, <2>8
  <2>10. Taken(w)' = Taken(w) + 1 /\ Marked(w)' = Taken(w)
    <3>1. Taken(w)' = 1
      BY <2>9, Zenon DEF Taken
    <3>2. Marked(w)' = Taken(w)' - 1
      BY <2>1, Zenon DEF Marked, Now
    <3> QED
      BY <2>3, <3>1, <3>2
  <2>11. Progress(w, Taken(w) + 1, Taken(w))
    BY <2>1, <2>10, Zenon DEF Progress, Now, OthersStay, Taking
  <2>12. ASSUME NEW k \in 1..(Taken(w) + 1)
         PROVE worker'[w].buffers[k] = IF k <= Taken(w) THEN r.buffers[k] ELSE IF r.first = c THEN e.trailing ELSE e.leading
    <3>1. k = 1 /\ ~(k <= Taken(w))
      BY <2>3
    <3> QED
      BY <2>4, <2>9, <3>1, Zenon
  <2>13. /\ State(i, e.aba, e.delimiter, e.claimed, e.usedLeading, e.usedTrailing)
         /\ References(i, IF r.first = c THEN e.leading ELSE Null, IF c = r.final THEN e.trailing ELSE Null)
    BY <2>1, <2>4, <2>6, Zenon DEF e
  <2>14. worker'[w].at = "markFirst" /\ worker'[w].sn = r.sn /\ worker'[w].distance = r.distance
    BY <2>1, Zenon DEF Now
  <2>15. Taken(w) \in Nat /\ c \in 0..Last
    BY <1>1, <2>3, <2>4
  <2> QED
    BY <2>1, <2>2, <2>4, <2>6, <2>9, <2>11, <2>12, <2>13, <2>14, <2>15, Zenon DEF c, e
<1>3. CASE Take(w)
  <2>1. Taking(w) /\ Marked(w) = Taken(w) /\ r.at = "take"
    BY <1>3, Zenon DEF Taking, Marked, Take, At
  <2>2. /\ NextOf(r) \in 0..Last /\ r.first < NextOf(r) /\ NextOf(r) <= r.final
        /\ Taken(w) \in Nat
    BY <2>1, TakingFacts, Zenon
  <2>3. c = NextOf(r)
    BY Zenon DEF NextOf, Taken
  <2>4. LET d == entry[Index(NextOf(r))]
        IN  /\ UNCHANGED <<delimited, todo, resolved>>
            /\ Now(w, "mark", r.sn, r.distance, r.first, r.final, Append(r.buffers, d.leading))
            /\ State(Index(NextOf(r)), d.aba, d.delimiter, d.claimed, d.usedLeading, d.usedTrailing)
            /\ References(Index(NextOf(r)), Null, IF NextOf(r) = r.final THEN d.trailing ELSE Null)
    BY <1>3, <2>2, <1>TakeDoes, Zenon
  <2>5. e.leading \in 0..Last
    BY <2>2, <2>3, TypeFacts, Zenon DEF Entries
  <2>6. r.first <= c /\ r.first # c
    <3>1. c \in Nat
      BY <2>2, <2>3, <1>0
    <3> HIDE DEF c
    <3> QED
      BY <1>1, <2>2, <2>3, <3>1
  <2> HIDE DEF c, e
  <2>8. worker'[w].buffers = Append(r.buffers, e.leading)
    BY <2>4, <2>3, Zenon DEF Now, e, i
  <2>t. Taken(w) = Len(r.buffers)
    BY Zenon DEF Taken
  <2>9. /\ worker'[w].buffers \in Seq(0..Last) /\ Len(worker'[w].buffers) = Len(r.buffers) + 1
        /\ \A k \in 1..(Len(r.buffers) + 1) :
             worker'[w].buffers[k] = IF k <= Len(r.buffers) THEN r.buffers[k] ELSE e.leading
    <3> HIDE DEF r
    <3> QED
      BY <1>1, <2>5, <2>8
  <2>10. Taken(w)' = Taken(w) + 1 /\ Marked(w)' = Taken(w)
    <3>1. Taken(w)' = Taken(w) + 1
      BY <2>9, <2>t, Zenon DEF Taken
    <3>2. Marked(w)' = Taken(w)' - 1
      BY <2>4, Zenon DEF Marked, Now
    <3> QED
      BY <2>2, <3>1, <3>2
  <2>11. Progress(w, Taken(w) + 1, Taken(w))
    BY <2>4, <2>10, Zenon DEF Progress, Now, OthersStay, Taking
  <2>13. /\ State(i, e.aba, e.delimiter, e.claimed, e.usedLeading, e.usedTrailing)
         /\ References(i, IF r.first = c THEN e.leading ELSE Null, IF c = r.final THEN e.trailing ELSE Null)
    BY <2>3, <2>4, <2>6, Zenon DEF e
  <2>14. worker'[w].at = "mark" /\ worker'[w].sn = r.sn /\ worker'[w].distance = r.distance
    BY <2>4, Zenon DEF Now
  <2> QED
    BY <2>1, <2>2, <2>3, <2>4, <2>6, <2>9, <2>11, <2>13, <2>14, <2>t, Zenon DEF c, e
<1> QED
  BY <1>2, <1>3, Zenon

LEMMA MarkStep ==
  Types /\ SearchesAreExact /\ ClaimsAreExclusive => \A w \in Worker : (MarkFirst(w) \/ Mark(w)) =>
    LET r == worker[w]
        c == r.first + Taken(w) - 1
        i == Index(c)
        e == entry[i]
    IN  /\ Taking(w) /\ Marked(w) = Taken(w) - 1 /\ Taken(w) \in Nat /\ Taken(w) # 0
        /\ (r.at = "markFirst" /\ c = r.first) \/ (r.at = "mark" /\ r.first < c)
        /\ c \in 0..Last /\ r.first <= c /\ c <= r.final
        /\ UNCHANGED <<delimited, todo>>
        /\ \/ /\ c # r.final /\ resolved' = resolved /\ Taking(w)'
              /\ Now(w, "take", r.sn, r.distance, r.first, r.final, r.buffers)
           \/ /\ c = r.final /\ Resumes(w) /\ ~Taking(w)'
              /\ resolved' = resolved \cup {[by |-> r.sn, first |-> r.first, buffers |-> r.buffers]}
        /\ Progress(w, Taken(w), Taken(w))
        /\ State(i, e.aba, e.delimiter, e.claimed,
                 IF r.first = c THEN e.usedLeading ELSE TRUE, IF c = r.final THEN e.usedTrailing ELSE TRUE)
        /\ References(i, e.leading, e.trailing)
<1>MarkFirstDoes.
      ASSUME Types, NEW w \in Worker, MarkFirst(w)
      PROVE  LET r == worker[w]
                 i == Index(r.first)
                 e == entry[i]
             IN  /\ r.at = "markFirst" /\ UNCHANGED <<delimited, todo, resolved>>
                 /\ Now(w, "take", r.sn, r.distance, r.first, r.final, r.buffers)
                 /\ State(i, e.aba, e.delimiter, e.claimed, e.usedLeading, TRUE)
                 /\ References(i, e.leading, e.trailing)
  <2> USE <1>MarkFirstDoes
  <2> DEFINE r == worker[w]
             i == Index(r.first)
             e == entry[i]
  <2>1. worker \in [Worker -> Workers] /\ entry \in [Ring -> Entries] /\ i \in Ring
    BY TypeFacts, Zenon DEF Workers
  <2>2. /\ r.at = "markFirst" /\ UNCHANGED <<delimited, todo, resolved>>
        /\ Goto(w, "take") /\ entry' = [entry EXCEPT ![i].usedTrailing = TRUE]
    BY Zenon DEF MarkFirst, At
  <2>3. Now(w, "take", r.sn, r.distance, r.first, r.final, r.buffers)
    BY <2>1, <2>2 DEF Goto, Now, Workers
  <2>4. State(i, e.aba, e.delimiter, e.claimed, e.usedLeading, TRUE) /\ References(i, e.leading, e.trailing)
    BY <2>1, <2>2 DEF State, References, Entries
  <2> QED
    BY <2>2, <2>3, <2>4, Zenon
<1>MarkDoes.
      ASSUME Types, NEW w \in Worker, Mark(w), worker[w].first + Len(worker[w].buffers) - 1 \in 0..Last
      PROVE  LET r == worker[w]
                 sn == r.first + Len(r.buffers) - 1
                 i == Index(sn)
                 e == entry[i]
             IN  /\ r.at = "mark" /\ UNCHANGED <<delimited, todo>>
                 /\ \/ /\ sn = r.final /\ Resumes(w)
                       /\ resolved' = resolved \cup {[by |-> r.sn, first |-> r.first, buffers |-> r.buffers]}
                    \/ /\ sn # r.final /\ resolved' = resolved
                       /\ Now(w, "take", r.sn, r.distance, r.first, r.final, r.buffers)
                 /\ State(i, e.aba, e.delimiter, e.claimed, TRUE, IF sn = r.final THEN e.usedTrailing ELSE TRUE)
                 /\ References(i, e.leading, e.trailing)
  <2> USE <1>MarkDoes
  <2> DEFINE r == worker[w]
             sn == r.first + Len(r.buffers) - 1
             i == Index(sn)
             e == entry[i]
             new == IF sn = r.final THEN e.usedTrailing ELSE TRUE
  <2>1. worker \in [Worker -> Workers] /\ entry \in [Ring -> Entries] /\ i \in Ring
    BY TypeFacts, Zenon
  <2>2. /\ r.at = "mark" /\ UNCHANGED <<delimited, todo>>
        /\ entry' = [entry EXCEPT ![i] = Used(@, sn, r.final)]
    BY Zenon DEF Mark, At
  <2>3. State(i, e.aba, e.delimiter, e.claimed, TRUE, new) /\ References(i, e.leading, e.trailing)
    <3> HIDE DEF sn, i, r
    <3> QED
      BY <2>1, <2>2 DEF State, References, Entries, Used
  <2>4. CASE sn = r.final
    <3>1. /\ worker' = [worker EXCEPT ![w] = AfterResolving(r)]
          /\ resolved' = resolved \cup {[by |-> r.sn, first |-> r.first, buffers |-> r.buffers]}
      BY <2>4, Zenon DEF Mark
    <3>2. Resumes(w)
      BY <3>1, ResumeDoes, Zenon
    <3> QED
      BY <2>2, <2>3, <2>4, <3>1, <3>2, Zenon
  <2>5. CASE sn # r.final
    <3>1. Goto(w, "take") /\ resolved' = resolved
      BY <2>5, Zenon DEF Mark
    <3>2. Now(w, "take", r.sn, r.distance, r.first, r.final, r.buffers)
      BY <2>1, <2>2, <3>1 DEF Goto, Now, Workers
    <3> QED
      BY <2>2, <2>3, <2>5, <3>1, <3>2, Zenon
  <2> QED
    BY <2>4, <2>5, Zenon
<1> SUFFICES ASSUME Types, SearchesAreExact, ClaimsAreExclusive, NEW w \in Worker, MarkFirst(w) \/ Mark(w)
             PROVE  LET r == worker[w]
                        c == r.first + Taken(w) - 1
                        i == Index(c)
                        e == entry[i]
                    IN  /\ Taking(w) /\ Marked(w) = Taken(w) - 1 /\ Taken(w) \in Nat /\ Taken(w) # 0
                        /\ (r.at = "markFirst" /\ c = r.first) \/ (r.at = "mark" /\ r.first < c)
                        /\ c \in 0..Last /\ r.first <= c /\ c <= r.final
                        /\ UNCHANGED <<delimited, todo>>
                        /\ \/ /\ c # r.final /\ resolved' = resolved /\ Taking(w)'
                              /\ Now(w, "take", r.sn, r.distance, r.first, r.final, r.buffers)
                           \/ /\ c = r.final /\ Resumes(w) /\ ~Taking(w)'
                              /\ resolved' = resolved \cup {[by |-> r.sn, first |-> r.first, buffers |-> r.buffers]}
                        /\ Progress(w, Taken(w), Taken(w))
                        /\ State(i, e.aba, e.delimiter, e.claimed,
                                 IF r.first = c THEN e.usedLeading ELSE TRUE, IF c = r.final THEN e.usedTrailing ELSE TRUE)
                        /\ References(i, e.leading, e.trailing)
  BY Zenon
<1> DEFINE r == worker[w]
           c == r.first + Taken(w) - 1
           i == Index(c)
           e == entry[i]
<1>0. r \in Workers /\ Last \in Nat
  BY TypeFacts, Zenon
<1>1. r.first \in Nat /\ r.final \in Nat /\ r.first \in 0..Last /\ r.buffers \in Seq(0..Last) /\ Len(r.buffers) \in Nat
  BY <1>0 DEF Workers
<1>n. ASSUME Now(w, "take", r.sn, r.distance, r.first, r.final, r.buffers), resolved' = resolved
      PROVE  Progress(w, Taken(w), Taken(w)) /\ Taking(w)'
  <2>1. Taken(w)' = Taken(w) /\ Marked(w)' = Taken(w)' /\ Taking(w)'
    BY <1>n, Zenon DEF Now, Taken, Marked, Taking
  <2> QED
    BY <1>n, <2>1, Zenon DEF Progress, Now, OthersStay
<1>2. CASE MarkFirst(w)
  <2>1. /\ r.at = "markFirst" /\ UNCHANGED <<delimited, todo, resolved>>
        /\ Now(w, "take", r.sn, r.distance, r.first, r.final, r.buffers)
        /\ LET d == entry[Index(r.first)]
           IN  /\ State(Index(r.first), d.aba, d.delimiter, d.claimed, d.usedLeading, TRUE)
               /\ References(Index(r.first), d.leading, d.trailing)
    BY <1>2, <1>MarkFirstDoes, Zenon
  <2>2. Taking(w) /\ Marked(w) = Taken(w) - 1
    BY <2>1, Zenon DEF Taking, Marked
  <2>3. Taken(w) = 1
    BY <2>1, <2>2, Zenon DEF ClaimsAreExclusive
  <2>4. c = r.first
    BY <1>1, <2>3
  <2>5. r.first < r.final
    BY <2>2, TakingFacts, Zenon DEF IsTuple
  <2>6. c <= r.final /\ r.first <= c /\ c # r.final
    BY <1>1, <2>4, <2>5
  <2>7. Taken(w) \in Nat /\ Taken(w) # 0 /\ c \in 0..Last
    BY <1>1, <2>3, <2>4
  <2>8. Progress(w, Taken(w), Taken(w)) /\ Taking(w)'
    BY <1>n, <2>1, Zenon
  <2> HIDE DEF c, e
  <2>13. /\ State(i, e.aba, e.delimiter, e.claimed,
                  IF r.first = c THEN e.usedLeading ELSE TRUE, IF c = r.final THEN e.usedTrailing ELSE TRUE)
         /\ References(i, e.leading, e.trailing)
    BY <2>1, <2>4, <2>6, Zenon DEF e
  <2> QED
    BY <2>1, <2>2, <2>4, <2>6, <2>7, <2>8, <2>13, Zenon DEF c, e
<1>3. CASE Mark(w)
  <2>1. Taking(w) /\ Marked(w) = Taken(w) - 1 /\ r.at = "mark"
    BY <1>3, Zenon DEF Taking, Marked, Mark, At
  <2>2. c = r.first + Len(r.buffers) - 1
    BY Zenon DEF Taken
  <2>3. c \in 0..Last /\ r.first < c /\ c <= r.final /\ Taken(w) \in Nat
    BY <2>1, <2>2, TakingFacts, Zenon
  <2>4. Taken(w) # 0 /\ r.first <= c /\ r.first # c
    BY <1>1, <2>3
  <2> HIDE DEF c
  <2>5. LET d == entry[Index(c)]
        IN  /\ UNCHANGED <<delimited, todo>>
            /\ \/ /\ c = r.final /\ Resumes(w)
                  /\ resolved' = resolved \cup {[by |-> r.sn, first |-> r.first, buffers |-> r.buffers]}
               \/ /\ c # r.final /\ resolved' = resolved
                  /\ Now(w, "take", r.sn, r.distance, r.first, r.final, r.buffers)
            /\ State(Index(c), d.aba, d.delimiter, d.claimed, TRUE, IF c = r.final THEN d.usedTrailing ELSE TRUE)
            /\ References(Index(c), d.leading, d.trailing)
    BY <1>3, <2>2, <2>3, <1>MarkDoes, Zenon
  <2>6. ASSUME c = r.final, Resumes(w),
               resolved' = resolved \cup {[by |-> r.sn, first |-> r.first, buffers |-> r.buffers]}
        PROVE  Progress(w, Taken(w), Taken(w)) /\ ~Taking(w)'
    <3>1. ~Taking(w)' /\ OthersStay(w)
      BY <2>6, Zenon DEF Resumes, Now, Taking, OthersStay
    <3> QED
      BY <2>6, <3>1, Zenon DEF Progress, c
  <2>7. Progress(w, Taken(w), Taken(w))
    BY <1>n, <2>5, <2>6, Zenon
  <2>8. \/ /\ c # r.final /\ resolved' = resolved /\ Taking(w)'
           /\ Now(w, "take", r.sn, r.distance, r.first, r.final, r.buffers)
        \/ /\ c = r.final /\ Resumes(w) /\ ~Taking(w)'
           /\ resolved' = resolved \cup {[by |-> r.sn, first |-> r.first, buffers |-> r.buffers]}
    BY <1>n, <2>5, <2>6, Zenon
  <2>13. /\ State(i, e.aba, e.delimiter, e.claimed,
                  IF r.first = c THEN e.usedLeading ELSE TRUE, IF c = r.final THEN e.usedTrailing ELSE TRUE)
         /\ References(i, e.leading, e.trailing)
    BY <2>4, <2>5, Zenon
  <2> QED
    BY <2>1, <2>3, <2>4, <2>5, <2>7, <2>8, <2>13, Zenon DEF c
<1> QED
  BY <1>2, <1>3, Zenon

\* What these steps change in what has been taken and marked.
LEMMA TakeUses ==
  ASSUME Types, SearchesAreExact, ClaimsAreExclusive, NEW w \in Worker, TakeFirst(w) \/ Take(w), NEW sn \in 0..Last
  PROVE  LET r == worker[w]
             c == r.first + Taken(w)
         IN  /\ LeadingTaken(sn)' <=> LeadingTaken(sn) \/ (sn = c /\ r.first # c)
             /\ TrailingTaken(sn)' <=> TrailingTaken(sn) \/ (sn = c /\ c # r.final)
             /\ LeadingMarked(sn)' <=> LeadingMarked(sn)
             /\ TrailingMarked(sn)' <=> TrailingMarked(sn)
<1> DEFINE a == worker[w].first
           b == worker[w].final
           n == Taken(w)
<1>1. /\ Taking(w) /\ Marked(w) = n /\ n \in Nat /\ a <= a + n /\ a + n <= b
      /\ Progress(w, n + 1, n)
  BY TakeStep, Zenon
<1>2. a \in Nat /\ b \in Nat /\ sn \in Nat
  BY <1>1, TakingFacts, TypeFacts, Zenon
<1>3. /\ LeadingTaken(sn)' <=> LeadingTaken(sn) \/ LeadingPart(sn, a, n + 1)
      /\ TrailingTaken(sn)' <=> TrailingTaken(sn) \/ TrailingPart(sn, a, n + 1, b)
      /\ LeadingMarked(sn)' <=> LeadingMarked(sn) \/ LeadingPart(sn, a, n)
      /\ TrailingMarked(sn)' <=> TrailingMarked(sn) \/ TrailingPart(sn, a, n, b)
  <2>1. n + 1 \in Nat /\ n <= n + 1 /\ n <= n
    BY <1>1
  <2> QED
    BY <1>1, <2>1, UsesGrow, Zenon
<1>4. /\ LeadingPart(sn, a, n) => LeadingTaken(sn) /\ LeadingMarked(sn)
      /\ TrailingPart(sn, a, n, b) => TrailingTaken(sn) /\ TrailingMarked(sn)
  BY <1>1, Zenon DEF LeadingTaken, LeadingMarked, TrailingTaken, TrailingMarked
<1> HIDE DEF a, b, n
<1>5. /\ LeadingPart(sn, a, n + 1) <=> LeadingPart(sn, a, n) \/ (sn = a + n /\ a # a + n)
      /\ TrailingPart(sn, a, n + 1, b) <=> TrailingPart(sn, a, n, b) \/ (sn = a + n /\ a + n # b)
  BY <1>1, <1>2 DEF LeadingPart, TrailingPart
<1> QED
  BY <1>3, <1>4, <1>5, Zenon DEF a, b, n

LEMMA MarkUses ==
  ASSUME Types, SearchesAreExact, ClaimsAreExclusive, NEW w \in Worker, MarkFirst(w) \/ Mark(w), NEW sn \in 0..Last
  PROVE  LET r == worker[w]
             c == r.first + Taken(w) - 1
         IN  /\ LeadingTaken(sn)' <=> LeadingTaken(sn)
             /\ TrailingTaken(sn)' <=> TrailingTaken(sn)
             /\ LeadingMarked(sn)' <=> LeadingMarked(sn) \/ (sn = c /\ r.first # c)
             /\ TrailingMarked(sn)' <=> TrailingMarked(sn) \/ (sn = c /\ c # r.final)
<1> DEFINE a == worker[w].first
           b == worker[w].final
           n == Taken(w)
<1>1. /\ Taking(w) /\ Marked(w) = n - 1 /\ n \in Nat /\ n # 0 /\ a <= a + n - 1 /\ a + n - 1 <= b
      /\ Progress(w, n, n)
  BY MarkStep, Zenon
<1>2. a \in Nat /\ b \in Nat /\ sn \in Nat
  BY <1>1, TakingFacts, TypeFacts, Zenon
<1>3. /\ LeadingTaken(sn)' <=> LeadingTaken(sn) \/ LeadingPart(sn, a, n)
      /\ TrailingTaken(sn)' <=> TrailingTaken(sn) \/ TrailingPart(sn, a, n, b)
      /\ LeadingMarked(sn)' <=> LeadingMarked(sn) \/ LeadingPart(sn, a, n)
      /\ TrailingMarked(sn)' <=> TrailingMarked(sn) \/ TrailingPart(sn, a, n, b)
  <2>1. n - 1 <= n /\ n <= n
    BY <1>1
  <2> QED
    BY <1>1, <2>1, UsesGrow, Zenon
<1>4. /\ LeadingPart(sn, a, n) => LeadingTaken(sn)
      /\ TrailingPart(sn, a, n, b) => TrailingTaken(sn)
      /\ LeadingPart(sn, a, n - 1) => LeadingMarked(sn)
      /\ TrailingPart(sn, a, n - 1, b) => TrailingMarked(sn)
  BY <1>1, Zenon DEF LeadingTaken, LeadingMarked, TrailingTaken, TrailingMarked
<1> HIDE DEF a, b, n
<1>5. /\ LeadingPart(sn, a, n) <=> LeadingPart(sn, a, n - 1) \/ (sn = a + n - 1 /\ a # a + n - 1)
      /\ TrailingPart(sn, a, n, b) <=> TrailingPart(sn, a, n - 1, b) \/ (sn = a + n - 1 /\ a + n - 1 # b)
  BY <1>1, <1>2 DEF LeadingPart, TrailingPart
<1> QED
  BY <1>3, <1>4, <1>5, Zenon DEF a, b, n

-----------------------------------------------------------------------------
\* What the searches see: whether the next buffer before, or after, is in the ring

LEMMA LeadingSearch ==
  ASSUME IInv, NEW w \in Worker, SearchLeading(w)
  PROVE  LET r == worker[w]
             c == r.sn - r.distance
         IN  /\ r.at = "searchLeading" /\ UNCHANGED <<delimited, entry, todo, resolved>>
             /\ c \in 0..Last /\ c < r.sn /\ r.sn \in Buffer /\ r.sn \in 0..Last /\ r.distance \in 1..r.sn
             /\ r.first = 0 /\ r.buffers = <<>>
             /\ \A k \in (c + 1)..r.sn : Published(k) /\ (k < r.sn => k \notin delimited)
             /\ \/ ~Held(c) /\ Resumes(w)
                \/ /\ Held(c) /\ r.distance < RingSize /\ c \notin delimited /\ c # 0
                   /\ Now(w, "searchLeading", r.sn, r.distance + 1, r.first, r.final, r.buffers)
                \/ /\ Held(c) /\ r.distance < RingSize /\ c \in delimited /\ r.sn \in delimited
                   /\ Now(w, "claim", r.sn, r.distance, c, r.sn, r.buffers)
                \/ /\ Held(c) /\ r.distance < RingSize /\ c \in delimited /\ r.sn \notin delimited
                   /\ Now(w, "searchTrailing", r.sn, 1, c, r.sn, r.buffers)
<1> DEFINE r == worker[w]
           c == r.sn - r.distance
<1>1. Types /\ EveryBufferHasOneTask /\ EntriesFollowTheStream /\ SearchesAreExact
  BY Zenon DEF IInv
<1>2. LET e == entry[LeadingIndex(r.sn, r.distance)]
          k == LeadingABA(r.sn, r.distance)
      IN  /\ r.at = "searchLeading"
          /\ UNCHANGED <<delimited, entry, todo, resolved>>
          /\ \/ e.aba # k /\ Resumes(w)
             \/ e.aba = k /\ ~e.delimiter
                /\ Now(w, "searchLeading", r.sn, r.distance + 1, r.first, r.final, r.buffers)
             \/ e.aba = k /\ e.delimiter /\ r.sn \in delimited
                /\ Now(w, "claim", r.sn, r.distance, r.sn - r.distance, r.sn, r.buffers)
             \/ e.aba = k /\ e.delimiter /\ r.sn \notin delimited
                /\ Now(w, "searchTrailing", r.sn, 1, r.sn - r.distance, r.sn, r.buffers)
  BY <1>1, SearchLeadingDoes, Zenon
<1>3. r.sn \in Buffer
  BY <1>1, <1>2, Zenon DEF EveryBufferHasOneTask, At
<1>4. r.sn \in Nat /\ r.sn \in 0..Last /\ Last \in Nat /\ r.distance \in 0..RingSize
  BY <1>1, <1>3, TypeFacts, Zenon DEF Types, TypeOK
<1>5. /\ r.first = 0 /\ r.buffers = <<>> /\ r.distance \in 1..r.sn
      /\ \A k \in (r.sn - r.distance + 1)..r.sn : Published(k) /\ (k < r.sn => k \notin delimited)
  BY <1>1, <1>2, Zenon DEF SearchesAreExact
<1> HIDE DEF r
<1>6. r.distance \in 1..RingSize /\ r.distance \in Nat /\ c \in 0..Last /\ c < r.sn /\ r.distance <= r.sn /\ c \in Nat
  BY <1>4, <1>5, RingType
<1>7. LeadingIndex(r.sn, r.distance) = Index(c) /\ LeadingABA(r.sn, r.distance) = ABAItNo(c)
  BY <1>4, <1>6, LeadingPlace, Zenon
<1>8. Published(r.sn)
  BY <1>4, <1>5, <1>6
<1>9. Held(c) => r.distance < RingSize
  <2> SUFFICES ASSUME Held(c), r.distance = RingSize PROVE FALSE
    BY <1>4, <1>6, RingType
  <2>1. r.sn = c + RingSize
    BY <1>4, <1>6
  <2>2. Index(r.sn) = Index(c) /\ ABAItNo(r.sn) = ABAItNo(c) + 1
    BY <1>6, <2>1, NextRound, Zenon
  <2>3. ABAItNo(c) >= ABAItNo(c) + 1
    BY <1>8, <2>2, Zenon DEF Published, Held
  <2>4. ABAItNo(c) \in Nat
    BY <1>6, Places, Zenon
  <2> HIDE DEF c
  <2> QED
    BY <2>3, <2>4
<1> HIDE DEF c
<1>10. Held(c) => entry[Index(c)].delimiter = (c \in delimited)
  BY <1>1, <1>6, Zenon DEF EntriesFollowTheStream
<1>11. 0 \in delimited
  BY <1>1, Zenon DEF Types, TypeOK
<1>12. LET e == entry[Index(c)]
       IN  \/ e.aba # ABAItNo(c) /\ Resumes(w)
           \/ e.aba = ABAItNo(c) /\ ~e.delimiter
                /\ Now(w, "searchLeading", r.sn, r.distance + 1, r.first, r.final, r.buffers)
           \/ e.aba = ABAItNo(c) /\ e.delimiter /\ r.sn \in delimited
                /\ Now(w, "claim", r.sn, r.distance, c, r.sn, r.buffers)
           \/ e.aba = ABAItNo(c) /\ e.delimiter /\ r.sn \notin delimited
                /\ Now(w, "searchTrailing", r.sn, 1, c, r.sn, r.buffers)
  BY <1>2, <1>7, Zenon DEF c
<1>13. \/ ~Held(c) /\ Resumes(w)
       \/ /\ Held(c) /\ r.distance < RingSize /\ c \notin delimited /\ c # 0
          /\ Now(w, "searchLeading", r.sn, r.distance + 1, r.first, r.final, r.buffers)
       \/ /\ Held(c) /\ r.distance < RingSize /\ c \in delimited /\ r.sn \in delimited
          /\ Now(w, "claim", r.sn, r.distance, c, r.sn, r.buffers)
       \/ /\ Held(c) /\ r.distance < RingSize /\ c \in delimited /\ r.sn \notin delimited
          /\ Now(w, "searchTrailing", r.sn, 1, c, r.sn, r.buffers)
  BY <1>9, <1>10, <1>11, <1>12, Zenon DEF Held
<1> QED
  BY <1>2, <1>3, <1>4, <1>5, <1>6, <1>13, Zenon DEF c, r

LEMMA TrailingSearching ==
  ASSUME IInv, NEW w \in Worker, SearchTrailing(w)
  PROVE  LET r == worker[w]
             c == r.sn + r.distance
         IN  /\ r.at = "searchTrailing" /\ UNCHANGED <<delimited, entry, todo, resolved>>
             /\ r.sn \in Buffer /\ r.sn \in 0..Last /\ r.distance \in Nat /\ r.distance # 0 /\ c \in Nat /\ r.sn < c
             /\ r.first \in delimited /\ r.first <= r.sn /\ r.buffers = <<>>
             /\ \A k \in r.first..(c - 1) : Published(k) /\ (k > r.first => k \notin delimited)
             /\ \/ (c \in 0..Last => ~Held(c)) /\ Now(w, "idle", 0, 0, 0, 0, <<>>)
                \/ /\ c \in 0..Last /\ Held(c) /\ r.distance < RingSize /\ c \notin delimited
                   /\ Now(w, "searchTrailing", r.sn, r.distance + 1, r.first, r.final, r.buffers)
                \/ /\ c \in 0..Last /\ Held(c) /\ r.distance < RingSize /\ c \in delimited
                   /\ Now(w, "claim", r.sn, r.distance, r.first, c, r.buffers)
<1> DEFINE r == worker[w]
           c == r.sn + r.distance
<1>1. /\ Types /\ EveryBufferHasOneTask /\ EntriesFollowTheStream /\ SearchesAreExact
      /\ ClaimsAreExclusive /\ UsesAreMarked
  BY Zenon DEF IInv
<1>2. LET e == entry[TrailingIndex(r.sn, r.distance)]
          k == TrailingABA(r.sn, r.distance)
      IN  /\ r.at = "searchTrailing"
          /\ UNCHANGED <<delimited, entry, todo, resolved>>
          /\ \/ e.aba # k /\ Now(w, "idle", 0, 0, 0, 0, <<>>)
             \/ e.aba = k /\ ~e.delimiter
                /\ Now(w, "searchTrailing", r.sn, r.distance + 1, r.first, r.final, r.buffers)
             \/ e.aba = k /\ e.delimiter
                /\ Now(w, "claim", r.sn, r.distance, r.first, r.sn + r.distance, r.buffers)
  BY <1>1, SearchTrailingDoes, Zenon
<1>3. r.sn \in Buffer
  BY <1>1, <1>2, Zenon DEF EveryBufferHasOneTask, At
<1>4. r.sn \in Nat /\ r.sn \in 0..Last /\ Last \in Nat /\ r.distance \in 0..RingSize
  BY <1>1, <1>3, TypeFacts, Zenon DEF Types, TypeOK
<1>5. /\ r.distance # 0 /\ r.first \in delimited /\ r.first <= r.sn /\ r.buffers = <<>>
      /\ r.sn + r.distance <= Last + 1
      /\ \A k \in r.first..(r.sn + r.distance - 1) : Published(k) /\ (k > r.first => k \notin delimited)
  BY <1>1, <1>2, Zenon DEF SearchesAreExact
<1>6. r.first \in Nat
  BY <1>1, <1>5, Tuples, Zenon
<1> HIDE DEF r
<1>7. r.distance \in 1..RingSize /\ r.distance \in Nat /\ c \in Nat /\ r.sn < c /\ c <= Last + 1
  BY <1>4, <1>5, RingType
<1>8. TrailingIndex(r.sn, r.distance) = Index(c) /\ TrailingABA(r.sn, r.distance) = ABAItNo(c)
  BY <1>4, <1>7, TrailingPlace, Zenon
<1>9. entry[Index(c)].aba = ABAItNo(c) => c \in 0..Last
  <2> HIDE DEF c
  <2> SUFFICES ASSUME entry[Index(c)].aba = ABAItNo(c) PROVE c \in 0..Last
    OBVIOUS
  <2>1. ABAItNo(c) \in Nat /\ ABAItNo(c) > 0 /\ Index(c) \in Ring
    BY <1>7, Places, Zenon DEF Ring
  <2>2. entry[Index(c)].aba # 0
    BY <2>1
  <2>3. PICK s \in 0..Last : Index(s) = Index(c) /\ Held(s)
    BY <1>1, <2>1, <2>2, Zenon DEF EntriesFollowTheStream, Ring
  <2>4. ABAItNo(s) = ABAItNo(c)
    BY <2>3, Zenon DEF Held
  <2>5. s \in Nat
    BY <1>1, TypeFacts, Zenon
  <2>6. s = c
    BY <1>7, <2>3, <2>4, <2>5, SamePlace, Zenon
  <2> QED
    BY <2>6, Zenon
<1>10. c \in 0..Last /\ Held(c) => r.distance < RingSize
  <2> SUFFICES ASSUME c \in 0..Last, Held(c), r.distance = RingSize PROVE FALSE
    BY <1>7, RingType
  <2>1. ABAItNo(c) \in Nat
    BY <1>7, Places, Zenon
  <2>2. Published(c)
    BY <2>1 DEF Published, Held
  <2>3. r.sn + RingSize <= Last /\ Published(r.sn + RingSize)
    BY <1>4, <2>2
  <2>4. PICK b \in delimited : r.sn < b /\ b < r.sn + RingSize
    BY <1>1, <1>4, <2>3, PassedOn, Zenon
  <2>5. b \in Nat
    BY <1>1, Tuples, Zenon
  <2> QED
    BY <1>4, <1>5, <1>6, <2>4, <2>5
<1> HIDE DEF c
<1>11. c \in 0..Last /\ Held(c) => entry[Index(c)].delimiter = (c \in delimited)
  BY <1>1, Zenon DEF EntriesFollowTheStream
<1>12. LET e == entry[Index(c)]
       IN  \/ e.aba # ABAItNo(c) /\ Now(w, "idle", 0, 0, 0, 0, <<>>)
           \/ e.aba = ABAItNo(c) /\ ~e.delimiter
                /\ Now(w, "searchTrailing", r.sn, r.distance + 1, r.first, r.final, r.buffers)
           \/ e.aba = ABAItNo(c) /\ e.delimiter
                /\ Now(w, "claim", r.sn, r.distance, r.first, c, r.buffers)
  BY <1>2, <1>8, Zenon DEF c
<1>13. \/ (c \in 0..Last => ~Held(c)) /\ Now(w, "idle", 0, 0, 0, 0, <<>>)
       \/ /\ c \in 0..Last /\ Held(c) /\ r.distance < RingSize /\ c \notin delimited
          /\ Now(w, "searchTrailing", r.sn, r.distance + 1, r.first, r.final, r.buffers)
       \/ /\ c \in 0..Last /\ Held(c) /\ r.distance < RingSize /\ c \in delimited
          /\ Now(w, "claim", r.sn, r.distance, r.first, c, r.buffers)
  BY <1>9, <1>10, <1>11, <1>12, Zenon DEF Held
<1>14. \A k \in r.first..(c - 1) : Published(k) /\ (k > r.first => k \notin delimited)
  BY <1>4, <1>5, <1>6, <1>7 DEF c
<1>15. r.at = "searchTrailing" /\ UNCHANGED <<delimited, entry, todo, resolved>>
  BY <1>2, Zenon
<1> QED
  BY <1>3, <1>4, <1>5, <1>7, <1>13, <1>14, <1>15, Zenon DEF c, r

-----------------------------------------------------------------------------
\* What all steps have in common

LEMMA StepFrame ==
  ASSUME IInv, NEW w \in Worker, Step(w)
  PROVE  /\ delimited' = delimited /\ OthersStay(w)
         /\ Publish(w) \/ SameOccupancy
         /\ \A sn \in 0..Last : Published(sn) => Published(sn)'
<1>1. /\ Types /\ EveryBufferHasOneTask /\ EntriesFollowTheStream /\ SearchesAreExact /\ ClaimsAreExclusive
  BY Zenon DEF IInv
<1>2. delimited' = delimited /\ OthersStay(w) /\ (Publish(w) \/ SameOccupancy)
  <2>1. ASSUME NEW sn \in Buffer, BeginBuffer(w, sn) PROVE  delimited' = delimited /\ OthersStay(w) /\ SameOccupancy
    <3>1. Now(w, "set", sn, 0, 0, 0, <<>>) /\ UNCHANGED <<delimited, entry, resolved>>
      BY <1>1, <2>1, BeginDoes, Zenon
    <3> QED
      BY <3>1, Zenon DEF Now, OthersStay, SameOccupancy
  <2>2. CASE SetBuffers(w)
    BY <1>1, <2>2, SetDoes, Zenon DEF Now, State, OthersStay, SameOccupancy
  <2>3. CASE Publish(w)
    BY <1>1, <2>3, PublishDoes, Zenon DEF Now, OthersStay
  <2>4. CASE SearchLeading(w)
    BY <1>1, <2>4, SearchLeadingDoes, Zenon DEF Now, Resumes, OthersStay, SameOccupancy
  <2>5. CASE SearchTrailing(w)
    BY <1>1, <2>5, SearchTrailingDoes, Zenon DEF Now, OthersStay, SameOccupancy
  <2>6. CASE TryClaim(w)
    BY <1>1, <2>6, TryClaimDoes, Zenon DEF Now, State, Resumes, OthersStay, SameOccupancy
  <2>7. CASE TakeFirst(w) \/ Take(w)
    BY <1>1, <2>7, TakeStep, Zenon DEF Progress, State, SameOccupancy
  <2>8. CASE MarkFirst(w) \/ Mark(w)
    BY <1>1, <2>8, MarkStep, Zenon DEF Progress, State, SameOccupancy
  <2> QED
    BY <2>1, <2>2, <2>3, <2>4, <2>5, <2>6, <2>7, <2>8, Zenon DEF Step
<1>3. CASE Publish(w)
  BY <1>1, <1>2, <1>3, Publishing, Zenon
<1>4. CASE SameOccupancy
  BY <1>1, <1>2, <1>4, SameRing, Zenon
<1> QED
  BY <1>2, <1>3, <1>4, Zenon

\* A tuple that was complete stays complete.
LEMMA CompleteStays ==
  ASSUME IInv, NEW w \in Worker, Step(w), NEW a, NEW b, Complete(a, b)
  PROVE  Complete(a, b)'
<1>1. delimited' = delimited /\ \A sn \in 0..Last : Published(sn) => Published(sn)'
  BY StepFrame, Zenon
<1>2. Types
  BY Zenon DEF IInv
<1>3. a \in 0..Last /\ b \in 0..Last
  BY <1>2, Tuples, Zenon DEF Complete
<1>4. \A c \in a..b : c \in 0..Last
  BY <1>3, StreamIsNotEmpty
<1>5. SpanningTuple' = SpanningTuple
  BY <1>1, Zenon DEF SpanningTuple
<1> QED
  BY <1>1, <1>4, <1>5, Zenon DEF Complete

\* A step that neither publishes nor is one of who wins, takes or marks.
Quiet(w) ==
  /\ ~Taking(w) /\ ~Taking(w)' /\ resolved' = resolved
  /\ \A i \in Ring : /\ entry'[i].aba = entry[i].aba /\ entry'[i].delimiter = entry[i].delimiter
                     /\ entry'[i].claimed = entry[i].claimed
                     /\ entry'[i].usedLeading = entry[i].usedLeading
                     /\ entry'[i].usedTrailing = entry[i].usedTrailing
Wins(w) == TryClaim(w) /\ Claimable(worker[w].first)

LEMMA KindsOfSteps ==
  ASSUME IInv, NEW w \in Worker, Step(w)
  PROVE  \/ Publish(w) \/ Wins(w) \/ TakeFirst(w) \/ Take(w) \/ MarkFirst(w) \/ Mark(w)
         \/ /\ Quiet(w) /\ ~Publish(w)
            /\ \/ SetBuffers(w) \/ entry' = entry
<1>1. Types
  BY Zenon DEF IInv
<1>2. Resumes(w) => ~Taking(w)'
  BY Zenon DEF Resumes, Now, Taking
<1>3. ASSUME NEW sn \in Buffer, BeginBuffer(w, sn) PROVE Quiet(w) /\ ~Publish(w) /\ entry' = entry
  <2>1. worker[w].at = "idle" /\ worker'[w].at = "set" /\ resolved' = resolved /\ entry' = entry
    BY <1>1, <1>3, BeginDoes, Zenon DEF Now, At
  <2> QED
    BY <2>1, Zenon DEF Quiet, Taking, Publish, At
<1>4. ASSUME SetBuffers(w) PROVE Quiet(w) /\ ~Publish(w)
  <2>1. /\ worker[w].at = "set" /\ worker'[w].at = "publish" /\ resolved' = resolved
        /\ LET i == Index(worker[w].sn)
               e == entry[i]
           IN State(i, e.aba, e.delimiter, e.claimed, e.usedLeading, e.usedTrailing)
    BY <1>1, <1>4, SetDoes, Zenon DEF Now
  <2> QED
    BY <2>1, Zenon DEF Quiet, Taking, Publish, At, State
<1>5. ASSUME SearchLeading(w) PROVE Quiet(w) /\ ~Publish(w) /\ entry' = entry
  <2>1. /\ worker[w].at = "searchLeading" /\ resolved' = resolved /\ entry' = entry
        /\ Resumes(w) \/ worker'[w].at \in {"searchLeading", "claim", "searchTrailing"}
    BY <1>1, <1>5, SearchLeadingDoes, Zenon DEF Now
  <2>2. ~Taking(w)'
    BY <1>2, <2>1, Zenon DEF Taking
  <2> QED
    BY <2>1, <2>2, Zenon DEF Quiet, Taking, Publish, At
<1>6. ASSUME SearchTrailing(w) PROVE Quiet(w) /\ ~Publish(w) /\ entry' = entry
  <2>1. /\ worker[w].at = "searchTrailing" /\ resolved' = resolved /\ entry' = entry
        /\ worker'[w].at \in {"idle", "claim", "searchTrailing"}
    BY <1>1, <1>6, SearchTrailingDoes, Zenon DEF Now
  <2> QED
    BY <2>1, Zenon DEF Quiet, Taking, Publish, At
<1>7. ASSUME TryClaim(w), ~Claimable(worker[w].first) PROVE Quiet(w) /\ ~Publish(w) /\ entry' = entry
  <2>1. worker[w].at = "claim" /\ resolved' = resolved /\ entry' = entry /\ Resumes(w)
    BY <1>1, <1>7, TryClaimDoes, Zenon
  <2> QED
    BY <1>2, <2>1, Zenon DEF Quiet, Taking, Publish, At
<1> QED
  BY <1>3, <1>4, <1>5, <1>6, <1>7, Zenon DEF Step, Wins

\* A winning step takes nothing yet.
LEMMA WinDoes ==
  ASSUME IInv, NEW w \in Worker, Wins(w)
  PROVE  LET r == worker[w]
             i == Index(r.first)
             e == entry[i]
         IN  /\ ~Taking(w) /\ Taking(w)' /\ Taken(w)' = 0 /\ Marked(w)' = 0 /\ worker'[w].first \in 0..Last
             /\ ~Publish(w) /\ Step(w) /\ resolved' = resolved /\ Held(r.first) /\ r.at = "claim"
             /\ Now(w, "takeFirst", r.sn, r.distance, r.first, r.final, r.buffers)
             /\ State(i, e.aba, e.delimiter, TRUE, e.usedLeading, e.usedTrailing)
             /\ References(i, e.leading, e.trailing)
<1>1. Types /\ SearchesAreExact
  BY Zenon DEF IInv
<1>a. PICK f : f = worker[w].first
  BY Zenon
<1>2. /\ worker[w].at = "claim" /\ resolved' = resolved
      /\ LET r == worker[w]
             i == Index(r.first)
             e == entry[i]
         IN  /\ Now(w, "takeFirst", r.sn, r.distance, r.first, r.final, r.buffers)
             /\ State(i, e.aba, e.delimiter, TRUE, e.usedLeading, e.usedTrailing)
             /\ References(i, e.leading, e.trailing)
  BY <1>1, TryClaimDoes, Zenon DEF Wins
<1>3. f \in 0..Last
  <2>1. worker[w] \in Workers
    BY <1>1, TypeFacts, Zenon
  <2> QED
    BY <1>a, <2>1 DEF Workers
<1>4. worker'[w].first = f /\ worker'[w].buffers = worker[w].buffers /\ worker'[w].at = "takeFirst"
  BY <1>2, <1>a, Zenon DEF Now
<1>5. worker'[w].buffers = <<>>
  BY <1>1, <1>2, <1>4, Zenon DEF SearchesAreExact
<1>6. Taken(w)' = 0 /\ Marked(w)' = 0
  BY <1>4, <1>5 DEF Taken, Marked
<1>7. ~Taking(w) /\ Taking(w)' /\ ~Publish(w) /\ Step(w)
  BY <1>2, <1>4, Zenon DEF Taking, Publish, At, Step, Wins
<1>8. Held(worker[w].first)
  BY Zenon DEF Wins, Claimable, Held
<1> QED
  BY <1>2, <1>3, <1>4, <1>6, <1>7, <1>8, Zenon

-----------------------------------------------------------------------------
\* The types

LEMMA TypesStay ==
  IInv => \A w \in Worker : Step(w) =>
    Types'
<1>EntriesType.
      ASSUME IInv, NEW w \in Worker, Step(w)
      PROVE  entry' \in [Ring -> EntryT]
  <2> USE <1>EntriesType
  <2>1. Types /\ EveryBufferHasOneTask /\ EntriesFollowTheStream /\ SearchesAreExact /\ ClaimsAreExclusive
    BY Zenon DEF IInv
  <2>2. entry \in [Ring -> EntryT]
    BY <2>1, Zenon DEF Types, TypeOK, Ring, EntryT
  <2>3. worker[w] \in Workers /\ Last \in Nat /\ Null \in 0..Last
    BY <2>1, TypeFacts DEF Null
  <2>4. worker[w].sn \in 0..Last /\ worker[w].first \in 0..Last
    BY <2>3, Zenon DEF Workers
  <2>5. \A sn \in 0..Last : Index(sn) \in Ring
    BY <2>1, TypeFacts, Zenon
  <2>6. CASE UNCHANGED entry
    BY <2>2, <2>6, Zenon
  <2>7. CASE SetBuffers(w)
    <3> DEFINE sn == worker[w].sn
               i == Index(sn)
    <3>1. entry' = [entry EXCEPT ![i].leading = sn, ![i].trailing = sn]
      BY <2>7, Zenon DEF SetBuffers
    <3>2. i \in Ring /\ sn \in 0..Last
      BY <2>4, <2>5, Zenon
    <3> HIDE DEF i, sn
    <3> QED
      BY <2>2, <3>1, <3>2, Zenon DEF EntryT
  <2>8. CASE Publish(w)
    <3> DEFINE sn == worker[w].sn
               i == Index(sn)
               e == entry[i]
               n == [Fresh(sn) EXCEPT !.leading = e.leading, !.trailing = e.trailing]
    <3>1. entry' = [entry EXCEPT ![i] = n]
      BY <2>8, Zenon DEF Publish
    <3>2. i \in Ring /\ sn \in 0..Last
      BY <2>4, <2>5, Zenon
    <3>3. ABAItNo(sn) \in 0..ABAItNo(Last)
      <4>1. sn \in Nat /\ sn <= Last
        BY <2>3, <3>2
      <4>2. ABAItNo(sn) \in Nat /\ ABAItNo(Last) \in Nat /\ ABAItNo(sn) <= ABAItNo(Last)
        BY <2>3, <4>1, Places, ABAItNoGrows, Zenon
      <4> QED
        BY <4>2
    <3>4. e \in EntryT
      BY <2>2, <3>2, Zenon
    <3>5. n \in EntryT
      <4>1. e.leading \in 0..Last /\ e.trailing \in 0..Last
        BY <3>4, Zenon DEF EntryT
      <4>2. (sn \in delimited) \in BOOLEAN
        OBVIOUS
      <4>3. Fresh(sn) \in EntryT
        BY <3>2, <3>3, <4>2, Zenon DEF EntryT, Fresh
      <4> HIDE DEF e, sn
      <4> QED
        BY <4>1, <4>3, Zenon DEF EntryT
    <3> HIDE DEF n, i
    <3> QED
      BY <2>2, <3>1, <3>2, <3>5, Zenon
  <2>9. CASE TryClaim(w)
    <3> DEFINE i == Index(worker[w].first)
    <3>1. entry' = [entry EXCEPT ![i].claimed = TRUE] \/ UNCHANGED entry
      BY <2>9, Zenon DEF TryClaim
    <3>2. i \in Ring
      BY <2>4, <2>5, Zenon
    <3> HIDE DEF i
    <3>3. CASE entry' = [entry EXCEPT ![i].claimed = TRUE]
      BY <2>2, <3>2, <3>3, Zenon DEF EntryT
    <3> QED
      BY <2>6, <3>1, <3>3, Zenon
  <2>10. CASE TakeFirst(w)
    <3> DEFINE i == Index(worker[w].first)
    <3>1. entry' = [entry EXCEPT ![i].trailing = Null]
      BY <2>10, Zenon DEF TakeFirst
    <3>2. i \in Ring
      BY <2>4, <2>5, Zenon
    <3> HIDE DEF i
    <3> QED
      BY <2>2, <2>3, <3>1, <3>2, Zenon DEF EntryT
  <2>11. CASE MarkFirst(w)
    <3> DEFINE i == Index(worker[w].first)
    <3>1. entry' = [entry EXCEPT ![i].usedTrailing = TRUE]
      BY <2>11, Zenon DEF MarkFirst
    <3>2. i \in Ring
      BY <2>4, <2>5, Zenon
    <3> HIDE DEF i
    <3> QED
      BY <2>2, <3>1, <3>2, Zenon DEF EntryT
  <2>12. CASE Take(w)
    <3> DEFINE i == Index(NextOf(worker[w]))
               last == NextOf(worker[w]) = worker[w].final
    <3>1. entry' = [entry EXCEPT ![i].leading = Null, ![i].trailing = IF last THEN @ ELSE Null]
      BY <2>12, Zenon DEF Take
    <3>2. i \in Ring
      <4>1. NextOf(worker[w]) = worker[w].first + Taken(w)
        BY Zenon DEF NextOf, Taken
      <4> QED
        BY <2>1, <2>5, <2>12, <4>1, TakeStep, Zenon
    <3> HIDE DEF i, last
    <3> QED
      BY <2>2, <2>3, <3>1, <3>2, Zenon DEF EntryT
  <2>13. CASE Mark(w)
    <3> DEFINE sn == worker[w].first + Len(worker[w].buffers) - 1
               i == Index(sn)
               u == IF sn = worker[w].final THEN entry[i].usedTrailing ELSE TRUE
               n == Used(entry[i], sn, worker[w].final)
    <3>1. entry' = [entry EXCEPT ![i] = n]
      BY <2>13, Zenon DEF Mark
    <3>2. i \in Ring
      BY <2>1, <2>5, <2>13, MarkStep, Zenon DEF Taken
    <3>3. entry[i] \in EntryT
      BY <2>2, <3>2, Zenon
    <3>4. u \in BOOLEAN /\ n = [entry[i] EXCEPT !.usedLeading = TRUE, !.usedTrailing = u]
      BY <3>3, Zenon DEF EntryT, Used
    <3>5. n \in EntryT
      <4> HIDE DEF n, u, i
      <4> QED
        BY <3>3, <3>4, Zenon DEF EntryT
    <3> HIDE DEF i, n
    <3> QED
      BY <2>2, <3>1, <3>2, <3>5, Zenon
  <2>14. ASSUME NEW sn \in Buffer, BeginBuffer(w, sn)
         PROVE  UNCHANGED entry
    BY <2>14, Zenon DEF BeginBuffer
  <2>15. SearchLeading(w) \/ SearchTrailing(w) => UNCHANGED entry
    BY Zenon DEF SearchLeading, SearchTrailing
  <2> QED
    BY <2>6, <2>7, <2>8, <2>9, <2>10, <2>11, <2>12, <2>13, <2>14, <2>15, Zenon DEF Step
<1>WorkersType.
      ASSUME IInv, NEW w \in Worker, Step(w)
      PROVE  worker' \in [Worker -> Workers]
  <2> USE <1>WorkersType
  <2>1. Types /\ SearchesAreExact /\ ClaimsAreExclusive
    BY Zenon DEF IInv
  <2> DEFINE r == worker[w]
  <2>2. worker \in [Worker -> Workers] /\ r \in Workers /\ Last \in Nat /\ entry \in [Ring -> Entries]
    BY <2>1, TypeFacts, Zenon
  <2>3. 0 \in 0..Last /\ 0 \in Nat /\ 1 \in Nat /\ <<>> \in Seq(0..Last)
    BY <2>2
  <2>4. Idle \in Workers
    BY <2>3, Zenon DEF Workers, Idle, Place
  <2>r. /\ r.sn \in 0..Last /\ r.first \in 0..Last /\ r.final \in 0..Last /\ r.distance \in Nat
        /\ r.buffers \in Seq(0..Last)
    BY <2>2, Zenon DEF Workers
  <2>5. AfterResolving(r) \in Workers
    <3>1. TrailingSearch(r) \in Workers
      <4> HIDE DEF r
      <4> QED
        BY <2>2, <2>3, <2>r, Zenon DEF Workers, TrailingSearch, Place
    <3> QED
      BY <2>4, <3>1, Zenon DEF AfterResolving
  <2>6. ASSUME NEW n \in Workers, worker' = [worker EXCEPT ![w] = n]
        PROVE  worker' \in [Worker -> Workers]
    BY <2>2, <2>6, Zenon
  <2>7. ASSUME NEW p \in Place, Goto(w, p)
        PROVE  worker' \in [Worker -> Workers]
    BY <2>2, <2>7, Zenon DEF Goto, Workers
  <2>8. ASSUME NEW sn \in Buffer, BeginBuffer(w, sn)
        PROVE  worker' \in [Worker -> Workers]
    <3>1. worker' = [worker EXCEPT ![w] = [Idle EXCEPT !.at = "set", !.sn = sn]]
      BY <2>8, Zenon DEF BeginBuffer
    <3>2. sn \in 0..Last
      BY <2>1, TypeFacts, Zenon
    <3>3. [Idle EXCEPT !.at = "set", !.sn = sn] \in Workers
      BY <2>4, <3>2, Zenon DEF Workers, Place
    <3> QED
      BY <2>6, <3>1, <3>3, Zenon
  <2>9. CASE SetBuffers(w)
    BY <2>7, <2>9, Zenon DEF SetBuffers, Place
  <2>10. CASE Publish(w)
    <3>1. worker' = [worker EXCEPT ![w].at = "searchLeading", ![w].distance = 1]
      BY <2>10, Zenon DEF Publish
    <3> QED
      BY <2>2, <2>3, <3>1, Zenon DEF Workers, Place
  <2>11. CASE SearchLeading(w)
    <3> DEFINE c == r.sn - r.distance
               found == [r EXCEPT !.first = c, !.final = r.sn]
    <3>1. \/ worker' = [worker EXCEPT ![w] = AfterResolving(r)]
          \/ worker' = [worker EXCEPT ![w] = [r EXCEPT !.distance = @ + 1]]
          \/ worker' = [worker EXCEPT ![w] = [found EXCEPT !.at = "claim"]]
          \/ worker' = [worker EXCEPT ![w] = [found EXCEPT !.at = "searchTrailing", !.distance = 1]]
      <4> DEFINE e == entry[LeadingIndex(r.sn, r.distance)]
                 k == LeadingABA(r.sn, r.distance)
      <4>1. worker' = [worker EXCEPT ![w] =
               CASE e.aba # k -> AfterResolving(r)
                 [] e.aba = k /\ ~e.delimiter -> [r EXCEPT !.distance = @ + 1]
                 [] OTHER -> IF r.sn \in delimited
                             THEN [found EXCEPT !.at = "claim"]
                             ELSE [found EXCEPT !.at = "searchTrailing", !.distance = 1]]
        BY <2>11, Zenon DEF SearchLeading
      <4> HIDE DEF e, k, found
      <4>2. \A a, b, c1, c2, v :
              v = (CASE e.aba # k -> a [] e.aba = k /\ ~e.delimiter -> b [] OTHER -> IF r.sn \in delimited THEN c1 ELSE c2)
                => v = a \/ v = b \/ v = c1 \/ v = c2
        OBVIOUS
      <4> QED
        BY <4>1, <4>2, Zenon
    <3>2. c \in 0..Last
      BY <2>11, LeadingSearch, Zenon
    <3> HIDE DEF c, r
    <3>3. found \in Workers
      BY <2>2, <2>r, <3>2, Zenon DEF Workers
    <3> HIDE DEF found
    <3>4. [found EXCEPT !.at = "claim"] \in Workers
      BY <3>3, Zenon DEF Workers, Place
    <3>5. [found EXCEPT !.at = "searchTrailing", !.distance = 1] \in Workers
      BY <2>3, <3>3, Zenon DEF Workers, Place
    <3>6. [r EXCEPT !.distance = @ + 1] \in Workers
      <4>1. r.distance + 1 \in Nat
        BY <2>r
      <4> QED
        BY <2>2, <4>1, Zenon DEF Workers
    <3> QED
      BY <2>5, <2>6, <3>1, <3>4, <3>5, <3>6, Zenon
  <2>12. CASE SearchTrailing(w)
    <3> DEFINE c == r.sn + r.distance
    <3>1. \/ worker' = [worker EXCEPT ![w] = Idle]
          \/ worker' = [worker EXCEPT ![w] = [r EXCEPT !.distance = @ + 1]]
          \/ /\ worker' = [worker EXCEPT ![w] = [r EXCEPT !.at = "claim", !.final = c]]
             /\ worker'[w].at = "claim"
      <4> DEFINE e == entry[TrailingIndex(r.sn, r.distance)]
                 k == TrailingABA(r.sn, r.distance)
      <4>1. worker' = [worker EXCEPT ![w] =
               CASE e.aba # k -> Idle
                 [] e.aba = k /\ ~e.delimiter -> [r EXCEPT !.distance = @ + 1]
                 [] OTHER -> [r EXCEPT !.at = "claim", !.final = c]]
        BY <2>12, Zenon DEF SearchTrailing
      <4> HIDE DEF e, k
      <4>2. \A a, b, d, v :
              v = (CASE e.aba # k -> a [] e.aba = k /\ ~e.delimiter -> b [] OTHER -> d)
                => v = a \/ v = b \/ v = d
        OBVIOUS
      <4>3. worker' = [worker EXCEPT ![w] = [r EXCEPT !.at = "claim", !.final = c]] => worker'[w].at = "claim"
        BY <2>2, Zenon DEF Workers
      <4> QED
        BY <4>1, <4>2, <4>3, Zenon
    <3>2. worker'[w].at = "claim" => c \in 0..Last
      BY <2>12, TrailingSearching, Zenon DEF Now
    <3> HIDE DEF c, r
    <3>4. c \in 0..Last => [r EXCEPT !.at = "claim", !.final = c] \in Workers
      BY <2>2, Zenon DEF Workers, Place
    <3>6. [r EXCEPT !.distance = @ + 1] \in Workers
      <4>1. r.distance + 1 \in Nat
        BY <2>r
      <4> QED
        BY <2>2, <4>1, Zenon DEF Workers
    <3> QED
      BY <2>4, <2>6, <3>1, <3>2, <3>4, <3>6, Zenon
  <2>13. CASE TryClaim(w)
    <3>1. Goto(w, "takeFirst") \/ worker' = [worker EXCEPT ![w] = AfterResolving(r)]
      BY <2>13, Zenon DEF TryClaim
    <3> QED
      BY <2>5, <2>6, <2>7, <3>1, Zenon DEF Place
  <2>14. CASE TakeFirst(w)
    <3> DEFINE b == <<entry[Index(r.first)].trailing>>
    <3>1. worker' = [worker EXCEPT ![w].at = "markFirst", ![w].buffers = b]
      BY <2>14, Zenon DEF TakeFirst
    <3>2. entry[Index(r.first)].trailing \in 0..Last
      BY <2>1, <2>r, TypeFacts, Zenon DEF Entries
    <3>3. b \in Seq(0..Last)
      BY <3>2
    <3> HIDE DEF b
    <3> QED
      BY <2>2, <3>1, <3>3, Zenon DEF Workers, Place
  <2>15. CASE MarkFirst(w)
    BY <2>7, <2>15, Zenon DEF MarkFirst, Place
  <2>16. CASE Take(w)
    <3> DEFINE b == Append(r.buffers, entry[Index(NextOf(r))].leading)
    <3>1. worker' = [worker EXCEPT ![w].at = "mark", ![w].buffers = b]
      BY <2>16, Zenon DEF Take
    <3>2. entry[Index(NextOf(r))].leading \in 0..Last
      <4>1. NextOf(r) = r.first + Taken(w)
        BY Zenon DEF NextOf, Taken
      <4>2. NextOf(r) \in 0..Last
        BY <2>1, <2>16, <4>1, TakeStep, Zenon
      <4> QED
        BY <2>1, <4>2, TypeFacts, Zenon DEF Entries
    <3>3. b \in Seq(0..Last)
      <4> HIDE DEF r
      <4> QED
        BY <2>r, <3>2
    <3> HIDE DEF b
    <3> QED
      BY <2>2, <3>1, <3>3, Zenon DEF Workers, Place
  <2>17. CASE Mark(w)
    <3>1. Goto(w, "take") \/ worker' = [worker EXCEPT ![w] = AfterResolving(r)]
      BY <2>17, Zenon DEF Mark
    <3> QED
      BY <2>5, <2>6, <2>7, <3>1, Zenon DEF Place
  <2> QED
    BY <2>8, <2>9, <2>10, <2>11, <2>12, <2>13, <2>14, <2>15, <2>16, <2>17, Zenon DEF Step
<1> SUFFICES ASSUME IInv, NEW w \in Worker, Step(w)
             PROVE  Types'
  BY Zenon
<1>1. Types /\ EveryBufferHasOneTask /\ EntriesFollowTheStream /\ SearchesAreExact /\ ClaimsAreExclusive
  BY Zenon DEF IInv
<1> DEFINE r == worker[w]
<1>2. /\ r \in Workers /\ r.distance \in 0..RingSize /\ Len(r.buffers) <= RingSize
      /\ Len(<<>>) <= RingSize /\ 0 \in 0..RingSize /\ 1 \in 0..RingSize
  <2>1. r \in Workers /\ r.distance \in 0..RingSize /\ Len(r.buffers) <= RingSize
    BY <1>1, TypeFacts, Zenon DEF Types, TypeOK
  <2>2. Len(<<>>) <= RingSize /\ 0 \in 0..RingSize /\ 1 \in 0..RingSize
    BY RingType
  <2> QED
    BY <2>1, <2>2, Zenon
<1>3. todo' \subseteq todo
  <2>1. ASSUME NEW sn \in Buffer, BeginBuffer(w, sn)
        PROVE  todo' \subseteq todo
    BY <2>1, Zenon DEF BeginBuffer
  <2>2. ASSUME todo' = todo
        PROVE  todo' \subseteq todo
    BY <2>2, Zenon
  <2> QED
    BY <2>1, <2>2, Zenon DEF Step, SetBuffers, Publish, SearchLeading, SearchTrailing, TryClaim, TakeFirst,
                             MarkFirst, Take, Mark
<1>b. Resumes(w) => worker'[w].distance \in 0..RingSize /\ Len(worker'[w].buffers) <= RingSize
  BY <1>2, Zenon DEF Resumes, Now
<1>4. worker'[w].distance \in 0..RingSize /\ Len(worker'[w].buffers) <= RingSize
  <2>1. ASSUME NEW sn \in Buffer, BeginBuffer(w, sn)
        PROVE  worker'[w].distance \in 0..RingSize /\ Len(worker'[w].buffers) <= RingSize
    <3>1. Now(w, "set", sn, 0, 0, 0, <<>>)
      BY <1>1, <2>1, BeginDoes, Zenon
    <3> QED
      BY <1>2, <3>1, Zenon DEF Now
  <2>2. CASE SetBuffers(w)
    BY <1>1, <1>2, <2>2, SetDoes, Zenon DEF Now
  <2>3. CASE Publish(w)
    BY <1>1, <1>2, <2>3, PublishDoes, Zenon DEF Now
  <2>4. CASE SearchLeading(w)
    <3>1. r.distance < RingSize => r.distance + 1 \in 0..RingSize
      BY <1>2, RingType
    <3> QED
      BY <1>2, <1>b, <2>4, <3>1, LeadingSearch, Zenon DEF Now
  <2>5. CASE SearchTrailing(w)
    <3>1. r.distance < RingSize => r.distance + 1 \in 0..RingSize
      BY <1>2, RingType
    <3> QED
      BY <1>2, <2>5, <3>1, TrailingSearching, Zenon DEF Now
  <2>6. CASE TryClaim(w)
    BY <1>1, <1>2, <1>b, <2>6, TryClaimDoes, Zenon DEF Now
  <2>7. CASE TakeFirst(w) \/ Take(w)
    <3>1. /\ Taking(w) /\ Taken(w) \in Nat /\ worker'[w].distance = r.distance
          /\ r.first + Taken(w) <= r.final /\ Progress(w, Taken(w) + 1, Taken(w)) /\ UNCHANGED resolved
          /\ worker'[w].at \in {"markFirst", "mark"}
      BY <1>1, <2>7, TakeStep, Zenon
    <3>2. r.first \in Nat /\ r.final \in Nat /\ r.final - r.first < RingSize
      BY <1>1, <3>1, TakingFacts, TypeFacts, Zenon
    <3>3. Taken(w) + 1 <= RingSize
      <4> HIDE DEF r
      <4> QED
        BY <3>1, <3>2, RingType
    <3>4. Taken(w)' = Taken(w) + 1
      BY <3>1, Zenon DEF Progress, Taking
    <3> QED
      BY <1>2, <3>1, <3>3, <3>4, Zenon DEF Taken
  <2>8. CASE MarkFirst(w) \/ Mark(w)
    BY <1>1, <1>2, <1>b, <2>8, MarkStep, Zenon DEF Now
  <2> QED
    BY <2>1, <2>2, <2>3, <2>4, <2>5, <2>6, <2>7, <2>8, Zenon DEF Step
<1>5. \A x \in resolved' : x.first \in 0..Last /\ x.buffers \in Seq(0..Last)
  <2>1. CASE resolved' = resolved
    BY <1>1, <2>1, Zenon DEF Types
  <2>2. CASE Mark(w)
    <3> DEFINE x == [by |-> r.sn, first |-> r.first, buffers |-> r.buffers]
    <3>1. resolved' = resolved \/ resolved' = resolved \cup {x}
      BY <1>1, <2>2, MarkStep, Zenon
    <3>2. x.first \in 0..Last /\ x.buffers \in Seq(0..Last)
      BY <1>2 DEF Workers
    <3> HIDE DEF x
    <3> QED
      BY <1>1, <3>1, <3>2, Zenon DEF Types
  <2> QED
    BY <2>1, <2>2, Zenon DEF Step, BeginBuffer, SetBuffers, Publish, SearchLeading, SearchTrailing, TryClaim,
                             TakeFirst, MarkFirst, Take
<1>6. /\ delimited' = delimited /\ OthersStay(w)
      /\ entry' \in [Ring -> EntryT] /\ worker' \in [Worker -> Workers]
  BY StepFrame, <1>EntriesType, <1>WorkersType, Zenon
<1>7. \A v \in Worker : worker'[v].distance \in 0..RingSize /\ Len(worker'[v].buffers) <= RingSize
  BY <1>1, <1>4, <1>6, Zenon DEF OthersStay, Types, TypeOK
<1>8. \A v \in Worker : worker'[v].at \in Place /\ worker'[v].sn \in 0..Last /\ worker'[v].first \in 0..Last
                        /\ worker'[v].final \in 0..Last
  BY <1>6, Zenon DEF Workers
<1>9. delimited' \subseteq 0..Last /\ 0 \in delimited' /\ todo' \subseteq Buffer
  BY <1>1, <1>3, <1>6, Zenon DEF Types, TypeOK
<1>10. TypeOK'
  BY <1>6, <1>7, <1>8, <1>9, Zenon DEF TypeOK, Ring, EntryT, Place
<1> QED
  BY <1>5, <1>6, <1>10, Zenon DEF Types, Workers, Place

-----------------------------------------------------------------------------
\* Tasks and entries

LEMMA TaskKept ==
  ASSUME IInv, NEW w \in Worker, Step(w), ~\E sn \in Buffer : BeginBuffer(w, sn)
  PROVE  /\ todo' = todo /\ worker[w].at # "idle"
         /\ \/ worker'[w].at = "idle" /\ worker'[w].sn = 0
            \/ worker'[w].at # "idle" /\ worker'[w].sn = worker[w].sn
         /\ \/ SetBuffers(w) /\ worker[w].at = "set" /\ worker'[w].at = "publish"
            \/ Publish(w) /\ worker[w].at = "publish" /\ worker'[w].at = "searchLeading"
            \/ ~SetBuffers(w) /\ ~Publish(w) /\ worker[w].at \notin {"set", "publish"} /\ worker'[w].at \notin {"set", "publish"}
<1>1. Types /\ EveryBufferHasOneTask /\ EntriesFollowTheStream /\ SearchesAreExact /\ ClaimsAreExclusive
  BY Zenon DEF IInv
<1>2. CASE SetBuffers(w)
  BY <1>1, <1>2, SetDoes, Zenon DEF Now
<1>3. CASE Publish(w)
  BY <1>1, <1>3, PublishDoes, Zenon DEF Now
<1>a. worker[w].at \notin {"set", "publish"} => ~SetBuffers(w) /\ ~Publish(w)
  BY Zenon DEF SetBuffers, Publish, At
<1>b. Resumes(w) => \/ worker'[w].at = "idle" /\ worker'[w].sn = 0
                    \/ worker'[w].at = "searchTrailing" /\ worker'[w].sn = worker[w].sn
  BY Zenon DEF Resumes, Now
<1>4. CASE SearchLeading(w)
  BY <1>1, <1>4, <1>a, <1>b, SearchLeadingDoes, Zenon DEF Now
<1>5. CASE SearchTrailing(w)
  BY <1>1, <1>5, <1>a, SearchTrailingDoes, Zenon DEF Now
<1>6. CASE TryClaim(w)
  BY <1>1, <1>6, <1>a, <1>b, TryClaimDoes, Zenon DEF Now
<1>7. CASE TakeFirst(w) \/ Take(w)
  BY <1>1, <1>7, <1>a, TakeStep, Zenon
<1>8. CASE MarkFirst(w) \/ Mark(w)
  <2>1. /\ todo' = todo /\ worker[w].at \in {"markFirst", "mark"}
        /\ Resumes(w) \/ (worker'[w].at = "take" /\ worker'[w].sn = worker[w].sn)
    BY <1>1, <1>8, MarkStep, Zenon DEF Now
  <2> QED
    BY <1>a, <1>b, <2>1, Zenon
<1> QED
  BY <1>2, <1>3, <1>4, <1>5, <1>6, <1>7, <1>8, Zenon DEF Step

LEMMA TasksStay ==
  ASSUME IInv, NEW w \in Worker, Step(w)
  PROVE  EveryBufferHasOneTask'
<1>1. Types /\ EveryBufferHasOneTask /\ OthersStay(w)
  BY StepFrame, Zenon DEF IInv
<1>2. ASSUME NEW sn \in Buffer, BeginBuffer(w, sn)
      PROVE  EveryBufferHasOneTask'
  <2>1. /\ worker[w].at = "idle" /\ sn \in todo /\ todo' = todo \ {sn}
        /\ worker'[w].at = "set" /\ worker'[w].sn = sn
    BY <1>1, <1>2, BeginDoes, Zenon DEF Now, At
  <2>2. \A v \in Worker : worker[v].sn # sn
    BY <1>1, <2>1, TypeFacts, Zenon DEF EveryBufferHasOneTask, At
  <2>3. ASSUME NEW v \in Worker
        PROVE  /\ worker'[v].at = "idle" => worker'[v].sn = 0
               /\ worker'[v].at # "idle" => worker'[v].sn \in Buffer \ todo'
    BY <1>1, <2>1, <2>2, Zenon DEF EveryBufferHasOneTask, At, OthersStay
  <2>4. ASSUME NEW v \in Worker, NEW u \in Worker, worker'[v].at # "idle", worker'[u].sn = worker'[v].sn
        PROVE  u = v
    <3>1. CASE v = w
      BY <1>1, <2>1, <2>2, <2>4, <3>1, Zenon DEF OthersStay
    <3>2. CASE v # w
      BY <1>1, <2>1, <2>2, <2>4, <3>2, Zenon DEF EveryBufferHasOneTask, At, OthersStay
    <3> QED
      BY <3>1, <3>2, Zenon
  <2> QED
    BY <2>3, <2>4, Zenon DEF EveryBufferHasOneTask, At
<1>3. CASE ~\E sn \in Buffer : BeginBuffer(w, sn)
  <2>1. /\ todo' = todo /\ worker[w].at # "idle"
        /\ \/ worker'[w].at = "idle" /\ worker'[w].sn = 0
           \/ worker'[w].at # "idle" /\ worker'[w].sn = worker[w].sn
    BY <1>3, TaskKept, Zenon
  <2>2. \A v \in Worker : worker[v].at # "idle" => worker[v].sn # 0
    BY <1>1, TypeFacts, Zenon DEF EveryBufferHasOneTask, At
  <2>3. ASSUME NEW v \in Worker
        PROVE  /\ worker'[v].at = "idle" => worker'[v].sn = 0
               /\ worker'[v].at # "idle" => worker'[v].sn \in Buffer \ todo'
    BY <1>1, <2>1, Zenon DEF EveryBufferHasOneTask, At, OthersStay
  <2>4. ASSUME NEW v \in Worker, NEW u \in Worker, worker'[v].at # "idle", worker'[u].sn = worker'[v].sn
        PROVE  u = v
    <3>1. worker[v].at # "idle" /\ worker'[v].sn = worker[v].sn /\ worker[v].sn # 0
      BY <1>1, <2>1, <2>2, <2>4, Zenon DEF OthersStay
    <3>2. worker'[u].sn = worker[u].sn
      BY <1>1, <2>1, <2>4, <3>1, Zenon DEF OthersStay
    <3> QED
      BY <1>1, <2>4, <3>1, <3>2, Zenon DEF EveryBufferHasOneTask, At
  <2> QED
    BY <2>3, <2>4, Zenon DEF EveryBufferHasOneTask, At
<1> QED
  BY <1>2, <1>3, Zenon

\* Marks are only removed from an entry by the next buffer.
LEMMA MarksStay ==
  ASSUME IInv, NEW w \in Worker, Step(w), ~Publish(w), NEW i \in Ring
  PROVE  /\ entry[i].usedLeading => entry'[i].usedLeading
         /\ entry[i].usedTrailing => entry'[i].usedTrailing
<1>1. Types /\ SearchesAreExact /\ ClaimsAreExclusive
  BY Zenon DEF IInv
<1>2. CASE entry' = entry
  BY <1>2, Zenon
<1>3. CASE SetBuffers(w)
  BY <1>1, <1>3, SetDoes, Zenon DEF State
<1>4. CASE TryClaim(w)
  BY <1>1, <1>4, TryClaimDoes, Zenon DEF State
<1>5. CASE TakeFirst(w) \/ Take(w)
  BY <1>1, <1>5, TakeStep, Zenon DEF State
<1>6. CASE MarkFirst(w) \/ Mark(w)
  BY <1>1, <1>6, MarkStep, Zenon DEF State
<1> QED
  BY <1>2, <1>3, <1>4, <1>5, <1>6, Zenon DEF Step, BeginBuffer, SearchLeading, SearchTrailing

LEMMA EntriesStay ==
  ASSUME IInv, NEW w \in Worker, Step(w)
  PROVE  EntriesFollowTheStream'
<1>1. Types /\ EveryBufferHasOneTask /\ EntriesFollowTheStream /\ OthersStay(w) /\ delimited' = delimited
  BY StepFrame, Zenon DEF IInv
<1>2. \A sn \in 0..Last : Index(sn) \in Ring
  BY <1>1, TypeFacts, Zenon
<1>3. CASE Publish(w)
  <2> DEFINE p == worker[w].sn
  <2>1. /\ worker[w].at = "publish" /\ worker'[w].at = "searchLeading" /\ worker'[w].sn = p /\ todo' = todo
        /\ State(Index(p), ABAItNo(p), p \in delimited, FALSE, FALSE, FALSE)
    BY <1>1, <1>3, PublishDoes, Zenon DEF Now
  <2>2. /\ p \in 0..Last /\ p \in Nat /\ p \notin todo /\ Index(p) \in Ring
        /\ entry[Index(p)].aba = ABAItNo(p) - 1
    BY <1>1, <2>1, BeforePublishing, Zenon
  <2>3. /\ \A sn \in 0..Last : Published(sn)' <=> Published(sn) \/ sn = p
        /\ \A sn \in 0..Last : Held(sn)' <=> (Held(sn) /\ Index(sn) # Index(p)) \/ sn = p
        /\ \A sn \in 0..Last : Index(sn) # Index(p) => entry'[Index(sn)] = entry[Index(sn)]
    BY <1>1, <1>3, Publishing, Zenon
  <2>4. \A v \in Worker : worker[v].sn = p => v = w
    BY <1>1, <2>1, Zenon DEF EveryBufferHasOneTask, At
  <2>5. ASSUME NEW sn \in 0..Last
        PROVE  InRing(sn)' <=> InRing(sn) \/ sn = p
    BY <1>1, <2>1, <2>2, <2>4, Zenon DEF InRing, OthersStay
  <2>6. \A sn \in 0..Last : Published(sn)' <=> InRing(sn)'
    BY <1>1, <2>3, <2>5, Zenon DEF EntriesFollowTheStream
  <2>7. \A sn \in 0..Last : Held(sn)' => entry'[Index(sn)].delimiter = (sn \in delimited')
    BY <1>1, <2>1, <2>3, Zenon DEF EntriesFollowTheStream, State
  <2>8. ASSUME NEW i \in Ring
        PROVE  IF entry'[i].aba = 0 THEN entry'[i].usedLeading /\ entry'[i].usedTrailing
               ELSE \E sn \in 0..Last : Index(sn) = i /\ Held(sn)'
    <3>1. CASE i = Index(p)
      <4>1. entry'[i].aba # 0
        <5>1. ABAItNo(p) \in Nat /\ ABAItNo(p) > 0
          BY <2>2, Places, Zenon
        <5>2. entry'[i].aba = ABAItNo(p)
          BY <2>1, <3>1, Zenon DEF State
        <5> QED
          BY <5>1, <5>2
      <4> QED
        BY <2>2, <2>3, <3>1, <4>1, Zenon
    <3>2. CASE i # Index(p)
      <4>1. entry'[i] = entry[i]
        BY <2>1, <3>2, Zenon DEF State
      <4> QED
        BY <1>1, <2>3, <3>2, <4>1, Zenon DEF EntriesFollowTheStream, Ring
    <3> QED
      BY <3>1, <3>2, Zenon
  <2>9. ASSUME NEW v \in Worker, worker'[v].at \in {"set", "publish"}
        PROVE  UsedUp(worker[v].sn)' /\ worker'[v] = worker[v]
    <3>1. v # w /\ worker'[v] = worker[v]
      BY <1>1, <2>1, <2>9, Zenon DEF OthersStay
    <3>2. /\ worker[v].sn \in 0..Last /\ worker[v].sn \in Nat /\ UsedUp(worker[v].sn) /\ worker[v].sn # p
          /\ entry[Index(worker[v].sn)].aba = ABAItNo(worker[v].sn) - 1
      BY <1>1, <2>4, <2>9, <3>1, BeforePublishing, Zenon DEF EntriesFollowTheStream
    <3>3. Index(worker[v].sn) # Index(p)
      <4> SUFFICES ASSUME Index(worker[v].sn) = Index(p) PROVE FALSE
        BY Zenon
      <4>1. ABAItNo(worker[v].sn) # ABAItNo(p)
        BY <2>2, <3>2, SamePlace, Zenon
      <4>2. ABAItNo(worker[v].sn) \in Nat /\ ABAItNo(p) \in Nat
        BY <2>2, <3>2, Places, Zenon
      <4>3. ABAItNo(worker[v].sn) - 1 = ABAItNo(p) - 1
        BY <2>2, <3>2, Zenon
      <4> QED
        BY <4>1, <4>2, <4>3
    <3>4. entry'[Index(worker[v].sn)] = entry[Index(worker[v].sn)]
      BY <2>3, <3>2, <3>3, Zenon
    <3> QED
      BY <3>1, <3>2, <3>4, Zenon DEF UsedUp
  <2> QED
    BY <2>6, <2>7, <2>8, <2>9, Zenon DEF EntriesFollowTheStream, Ring, UsedUp
<1>4. CASE ~Publish(w)
  <2>1. SameOccupancy
    BY <1>4, StepFrame, Zenon
  <2>2. /\ \A sn \in 0..Last : Published(sn)' <=> Published(sn)
        /\ \A sn \in 0..Last : Held(sn)' <=> Held(sn)
        /\ \A sn \in 0..Last : entry'[Index(sn)].aba = entry[Index(sn)].aba
                                /\ entry'[Index(sn)].delimiter = entry[Index(sn)].delimiter
    BY <1>1, <2>1, SameRing, Zenon
  <2>3. \A i \in Ring : /\ entry[i].usedLeading => entry'[i].usedLeading
                        /\ entry[i].usedTrailing => entry'[i].usedTrailing
    BY <1>4, MarksStay, Zenon
  <2>4. \A sn \in 0..Last : UsedUp(sn) => UsedUp(sn)'
    BY <1>2, <2>2, <2>3, Zenon DEF UsedUp
  <2>5. \A sn \in 0..Last : Held(sn)' => entry'[Index(sn)].delimiter = (sn \in delimited')
    BY <1>1, <2>2, Zenon DEF EntriesFollowTheStream
  <2>6. ASSUME NEW i \in Ring
        PROVE  IF entry'[i].aba = 0 THEN entry'[i].usedLeading /\ entry'[i].usedTrailing
               ELSE \E sn \in 0..Last : Index(sn) = i /\ Held(sn)'
    BY <1>1, <2>1, <2>2, <2>3, Zenon DEF EntriesFollowTheStream, SameOccupancy, Ring
  <2>7. (\A sn \in 0..Last : InRing(sn)' <=> InRing(sn)) /\
        \A v \in Worker : worker'[v].at \in {"set", "publish"} => UsedUp(worker'[v].sn) /\ worker'[v].sn \in 0..Last
    <3>1. ASSUME NEW b \in Buffer, BeginBuffer(w, b)
          PROVE  /\ \A sn \in 0..Last : InRing(sn)' <=> InRing(sn)
                 /\ UsedUp(worker'[w].sn) /\ worker'[w].sn \in 0..Last
      <4>1. /\ worker[w].at = "idle" /\ b \in todo /\ todo' = todo \ {b} /\ UsedUp(b)
            /\ worker'[w].at = "set" /\ worker'[w].sn = b
        BY <1>1, <3>1, BeginDoes, Zenon DEF Now, At
      <4>2. b \in 0..Last
        BY <1>1, TypeFacts, Zenon
      <4> QED
        BY <1>1, <4>1, <4>2, Zenon DEF InRing, OthersStay
    <3>2. CASE ~\E b \in Buffer : BeginBuffer(w, b)
      <4>1. /\ todo' = todo /\ worker[w].at # "idle"
            /\ \/ worker'[w].at = "idle" /\ worker'[w].sn = 0
               \/ worker'[w].at # "idle" /\ worker'[w].sn = worker[w].sn
            /\ \/ worker[w].at = "set" /\ worker'[w].at = "publish"
               \/ worker[w].at \notin {"set", "publish"} /\ worker'[w].at \notin {"set", "publish"}
        BY <1>4, <3>2, TaskKept, Zenon
      <4>2. \A sn \in 0..Last : InRing(sn)' <=> InRing(sn)
        BY <1>1, <4>1, Zenon DEF InRing, OthersStay
      <4>3. worker'[w].at \in {"set", "publish"} => UsedUp(worker'[w].sn) /\ worker'[w].sn \in 0..Last
        <5>1. worker'[w].at \in {"set", "publish"} => worker[w].at = "set" /\ worker'[w].sn = worker[w].sn
          BY <4>1, Zenon
        <5> QED
          BY <1>1, <5>1, BeforePublishing, Zenon DEF EntriesFollowTheStream
      <4> QED
        BY <1>1, <4>2, <4>3, BeforePublishing, Zenon DEF EntriesFollowTheStream, OthersStay
    <3> QED
      BY <1>1, <3>1, <3>2, BeforePublishing, Zenon DEF EntriesFollowTheStream, OthersStay
  <2> QED
    BY <1>1, <2>2, <2>4, <2>5, <2>6, <2>7, Zenon DEF EntriesFollowTheStream, Ring, UsedUp
<1> QED
  BY <1>3, <1>4, Zenon

-----------------------------------------------------------------------------
\* What a search has passed

LEMMA SearchesStay ==
  IInv => \A w \in Worker : Step(w) =>
    SearchesAreExact'
<1>ExactStaysForOthers.
      ASSUME IInv, NEW w \in Worker, Step(w), NEW v \in Worker, v # w
      PROVE  Exact(v)'
  <2> USE <1>ExactStaysForOthers
  <2>1. /\ Types /\ delimited' = delimited /\ worker'[v] = worker[v]
        /\ \A sn \in 0..Last : Published(sn) => Published(sn)'
    BY StepFrame, Zenon DEF IInv, OthersStay
  <2>2. Exact(v)
    BY Zenon DEF IInv, SearchesAreExact, Exact
  <2> DEFINE r == worker[v]
  <2>3. r \in Workers /\ Last \in Nat
    BY <2>1, TypeFacts, Zenon
  <2>4. r.sn \in Nat /\ r.sn <= Last /\ r.distance \in Nat /\ r.first \in Nat
    BY <2>3 DEF Workers
  <2> HIDE DEF r
  <2>5. r.distance \in 1..r.sn => \A c \in (r.sn - r.distance + 1)..r.sn : c \in 0..Last
    BY <2>3, <2>4
  <2>6. r.sn + r.distance <= Last + 1 => \A c \in r.first..(r.sn + r.distance - 1) : c \in 0..Last
    BY <2>3, <2>4
  <2>7. Complete(r.first, r.final) => Complete(r.first, r.final)'
    <3>1. \A a, b : Complete(a, b) => Complete(a, b)'
      BY CompleteStays, Zenon
    <3>2. r' = r
      BY <2>1, Zenon DEF r
    <3> QED
      BY <3>1, <3>2, <2>1, Zenon DEF r, Complete
  <2>8. Taking(v)' <=> Taking(v)
    BY <2>1, Zenon DEF Taking
  <2> QED
    BY <2>1, <2>2, <2>5, <2>6, <2>7, <2>8, Zenon DEF Exact, r
<1>CompleteNow.
      ASSUME IInv, NEW w \in Worker, Step(w), NEW a, NEW b, Complete(a, b), worker'[w].first = a, worker'[w].final = b
      PROVE  Complete(worker[w].first, worker[w].final)'
  <2> USE <1>CompleteNow
  <2>1. Complete(a, b)'
    BY CompleteStays, Zenon
  <2> QED
    BY <2>1, Zenon DEF Complete
\* A worker that goes on to the tuple its buffer starts.
<1>ResumesExactly.
      ASSUME IInv, NEW w \in Worker, Step(w), Resumes(w), NEW p \in 0..Last, worker[w].sn = p, Published(p)
      PROVE  Exact(w)'
  <2> USE <1>ResumesExactly
  <2>1. delimited' = delimited /\ Published(p)'
    BY StepFrame, Zenon
  <2>2. CASE p \in delimited /\ worker'[w].at = "searchTrailing" /\ worker'[w].sn = p /\ worker'[w].distance = 1
             /\ worker'[w].first = p /\ worker'[w].buffers = <<>>
    <3>1. p \in Nat /\ p + 1 <= Last + 1 /\ \A c \in p..(p + 1 - 1) : c = p /\ ~(c > p)
      BY StreamIsNotEmpty
    <3>2. p <= p /\ 1 # 0
      BY <3>1
    <3>3. ~Taking(w)'
      BY <2>2, Zenon DEF Taking
    <3>4. worker'[w].first \in delimited'
      BY <2>1, <2>2, Zenon
    <3> QED
      BY <2>1, <2>2, <3>1, <3>2, <3>3, <3>4, Zenon DEF Exact
  <2>3. CASE worker'[w].at = "idle"
    BY <2>3, Zenon DEF Exact, Taking
  <2> QED
    BY <2>2, <2>3, Zenon DEF Resumes, Now
<1>ExactStays.
      ASSUME IInv, NEW w \in Worker, Step(w)
      PROVE  Exact(w)'
  <2> USE <1>ExactStays
  <2>1. /\ Types /\ EveryBufferHasOneTask /\ EntriesFollowTheStream /\ SearchesAreExact /\ ClaimsAreExclusive
        /\ UsesAreMarked /\ delimited' = delimited /\ \A sn \in 0..Last : Published(sn) => Published(sn)'
    BY StepFrame, Zenon DEF IInv
  <2>2. Exact(w) /\ Last \in Nat /\ \A sn \in 0..Last : sn \in Nat
    BY <2>1, TypeFacts, Zenon DEF SearchesAreExact, Exact
  <2>r. PICK s, d, f, l, bs : /\ s = worker[w].sn /\ d = worker[w].distance /\ f = worker[w].first
                              /\ l = worker[w].final /\ bs = worker[w].buffers
    BY Zenon
  <2>3. ASSUME NEW sn \in Buffer, BeginBuffer(w, sn)
        PROVE  Exact(w)'
    <3>1. Now(w, "set", sn, 0, 0, 0, <<>>)
      BY <2>1, <2>3, BeginDoes, Zenon
    <3> QED
      BY <3>1, Zenon DEF Exact, Now, Taking
  <2>4. CASE SetBuffers(w)
    <3>1. worker[w].at = "set" /\ Now(w, "publish", s, d, f, l, bs)
      BY <2>1, <2>4, <2>r, SetDoes, Zenon
    <3>2. bs = <<>> /\ f = 0
      BY <2>2, <2>r, <3>1, Zenon DEF Exact
    <3> QED
      BY <3>1, <3>2, Zenon DEF Exact, Now, Taking
  <2>5. CASE Publish(w)
    <3>1. worker[w].at = "publish" /\ Now(w, "searchLeading", s, 1, f, l, bs)
      BY <2>1, <2>5, <2>r, PublishDoes, Zenon
    <3>2. bs = <<>> /\ f = 0
      BY <2>2, <2>r, <3>1, Zenon DEF Exact
    <3>3. s \in 0..Last /\ s \in Nat /\ s # 0
      BY <2>1, <2>r, <3>1, BeforePublishing, Zenon
    <3>4. Published(s)'
      BY <2>1, <2>5, <2>r, <3>3, Publishing, Zenon
    <3>5. 1 \in 1..s /\ \A c \in (s - 1 + 1)..s : c = s /\ ~(c < s)
      BY <3>3
    <3> QED
      BY <3>1, <3>2, <3>4, <3>5, Zenon DEF Exact, Now, Taking
  <2>6. CASE SearchLeading(w)
    <3> DEFINE c == s - d
    <3>1. /\ worker[w].at = "searchLeading"
          /\ c \in 0..Last /\ c < s /\ s \in Buffer /\ s \in 0..Last /\ d \in 1..s
          /\ f = 0 /\ bs = <<>>
          /\ \A k \in (c + 1)..s : Published(k) /\ (k < s => k \notin delimited)
          /\ \/ ~Held(c) /\ Resumes(w)
             \/ /\ Held(c) /\ d < RingSize /\ c \notin delimited /\ c # 0
                /\ Now(w, "searchLeading", s, d + 1, f, l, bs)
             \/ /\ Held(c) /\ d < RingSize /\ c \in delimited /\ s \in delimited
                /\ Now(w, "claim", s, d, c, s, bs)
             \/ /\ Held(c) /\ d < RingSize /\ c \in delimited /\ s \notin delimited
                /\ Now(w, "searchTrailing", s, 1, c, s, bs)
      BY <2>6, <2>r, LeadingSearch, Zenon
    <3>2. s \in Nat /\ c \in Nat /\ d \in Nat /\ s <= Last /\ d # 0 /\ d <= s
      BY <2>2, <3>1
    <3>3. Held(c) => Published(c)
      <4>1. ABAItNo(c) \in Nat
        BY <3>2, Places, Zenon
      <4> HIDE DEF c
      <4> QED
        BY <4>1 DEF Held, Published
    <3>4. Held(c) => \A k \in c..s : Published(k) /\ Published(k)'
      <4> HIDE DEF c
      <4>1. \A k \in c..s : k \in 0..Last /\ (k = c \/ k \in (c + 1)..s)
        BY <2>2, <3>1, <3>2
      <4> QED
        BY <2>1, <3>1, <3>3, <4>1, Zenon
    <3>5. Published(s)
      <4>1. s \in (c + 1)..s
        BY <3>1, <3>2
      <4> QED
        BY <3>1, <4>1, Zenon
    <3>6. CASE Resumes(w)
      BY <2>r, <3>1, <3>5, <3>6, <1>ResumesExactly, Zenon
    <3>7. CASE Held(c) /\ c \notin delimited /\ c # 0 /\ Now(w, "searchLeading", s, d + 1, f, l, bs)
      <4>1. d + 1 \in 1..s /\ \A k \in (s - (d + 1) + 1)..s : k \in c..s /\ (k = c \/ k \in (c + 1)..s) /\ (k = c => k < s)
        BY <3>2, <3>7
      <4> HIDE DEF c
      <4>2. \A k \in (s - (d + 1) + 1)..s : Published(k)' /\ (k < s => k \notin delimited')
        BY <2>1, <3>1, <3>4, <3>7, <4>1, Zenon
      <4> QED
        BY <3>1, <3>7, <4>1, <4>2, Zenon DEF Exact, Now, Taking
    <3>8. CASE Held(c) /\ d < RingSize /\ c \in delimited /\ s \in delimited /\ Now(w, "claim", s, d, c, s, bs)
      <4>1. s - c < RingSize
        BY <3>2, <3>8
      <4> HIDE DEF c
      <4>2. IsTuple(c, s)
        <5>1. ASSUME NEW k \in delimited, c < k, k < s PROVE FALSE
          <6>1. k \in Nat
            BY <2>1, Tuples, Zenon
          <6>2. k \in (c + 1)..s
            BY <3>2, <5>1, <6>1
          <6> QED
            BY <3>1, <5>1, <6>2, Zenon
        <5> QED
          BY <3>1, <3>8, <5>1, Zenon DEF IsTuple
      <4>3. Complete(c, s)
        BY <2>1, <3>4, <3>8, <4>1, <4>2, Tuples, Zenon DEF Complete
      <4>4. Complete(worker[w].first, worker[w].final)'
        BY <3>8, <4>3, <1>CompleteNow, Zenon DEF Now
      <4>5. c <= s /\ s <= s
        BY <3>1, <3>2
      <4> QED
        BY <3>1, <3>8, <4>4, <4>5, Zenon DEF Exact, Now
    <3>9. CASE Held(c) /\ c \in delimited /\ s \notin delimited /\ Now(w, "searchTrailing", s, 1, c, s, bs)
      <4>1. c <= s /\ s + 1 <= Last + 1
            /\ \A k \in c..(s + 1 - 1) : k \in c..s /\ (k > c => k \in (c + 1)..s /\ (k < s \/ k = s))
        <5> HIDE DEF c
        <5> QED
          BY <2>2, <3>1, <3>2
      <4> HIDE DEF c
      <4>2. \A k \in c..(s + 1 - 1) : Published(k)' /\ (k > c => k \notin delimited')
        BY <2>1, <3>1, <3>4, <3>9, <4>1, Zenon
      <4>3. 1 # 0 /\ ~Taking(w)'
        BY <3>9 DEF Now, Taking
      <4>4. c \in delimited'
        BY <2>1, <3>9, Zenon
      <4> QED
        BY <3>1, <3>9, <4>1, <4>2, <4>3, <4>4, Zenon DEF Exact, Now
    <3> QED
      BY <3>1, <3>6, <3>7, <3>8, <3>9, Zenon
  <2>7. CASE SearchTrailing(w)
    <3> DEFINE c == s + d
    <3>1. /\ worker[w].at = "searchTrailing" /\ s \in Buffer /\ s \in 0..Last /\ d \in Nat /\ d # 0 /\ c \in Nat /\ s < c
          /\ f \in delimited /\ f <= s /\ bs = <<>>
          /\ \A k \in f..(c - 1) : Published(k) /\ (k > f => k \notin delimited)
          /\ \/ (c \in 0..Last => ~Held(c)) /\ Now(w, "idle", 0, 0, 0, 0, <<>>)
             \/ /\ c \in 0..Last /\ Held(c) /\ d < RingSize /\ c \notin delimited
                /\ Now(w, "searchTrailing", s, d + 1, f, l, bs)
             \/ /\ c \in 0..Last /\ Held(c) /\ d < RingSize /\ c \in delimited
                /\ Now(w, "claim", s, d, f, c, bs)
      BY <2>7, <2>r, TrailingSearching, Zenon
    <3>2. s \in Nat /\ s <= Last /\ f \in Nat /\ f <= Last
      <4>1. f \in 0..Last
        BY <2>1, <3>1, Tuples, Zenon
      <4> QED
        BY <2>2, <3>1, <4>1
    <3>3. c \in 0..Last /\ Held(c) => \A k \in f..c : Published(k) /\ Published(k)' /\ k \in 0..Last
      <4> SUFFICES ASSUME c \in 0..Last, Held(c)
                   PROVE  \A k \in f..c : Published(k) /\ Published(k)' /\ k \in 0..Last
        BY Zenon
      <4>1. ABAItNo(c) \in Nat
        BY <3>1, Places, Zenon
      <4> HIDE DEF c
      <4>2. Published(c)
        BY <4>1 DEF Held, Published
      <4>3. \A k \in f..c : k \in 0..Last /\ (k = c \/ k \in f..(c - 1))
        BY <2>2, <3>1, <3>2
      <4> QED
        BY <2>1, <3>1, <4>2, <4>3, Zenon
    <3>4. CASE Now(w, "idle", 0, 0, 0, 0, <<>>)
      BY <3>4, Zenon DEF Exact, Now, Taking
    <3>5. CASE c \in 0..Last /\ Held(c) /\ c \notin delimited /\ Now(w, "searchTrailing", s, d + 1, f, l, bs)
      <4>1. d + 1 # 0 /\ s + (d + 1) <= Last + 1
            /\ \A k \in f..(s + (d + 1) - 1) : k \in f..c /\ (k = c \/ k \in f..(c - 1))
        BY <2>2, <3>1, <3>2, <3>5
      <4> HIDE DEF c
      <4>2. \A k \in f..(s + (d + 1) - 1) : Published(k)' /\ (k > f => k \notin delimited')
        BY <2>1, <3>1, <3>3, <3>5, <4>1, Zenon
      <4>3. f \in delimited' /\ ~Taking(w)'
        BY <2>1, <3>1, <3>5, Zenon DEF Taking, Now
      <4> QED
        BY <3>1, <3>5, <4>1, <4>2, <4>3, Zenon DEF Exact, Now
    <3>6. CASE c \in 0..Last /\ Held(c) /\ c \in delimited /\ Now(w, "claim", s, d, f, c, bs)
      <4> HIDE DEF c
      <4>1. IsTuple(f, c)
        <5>1. ASSUME NEW k \in delimited, f < k, k < c PROVE FALSE
          <6>1. k \in Nat
            BY <2>1, Tuples, Zenon
          <6>2. k \in f..(c - 1) /\ k > f
            BY <3>1, <3>2, <5>1, <6>1
          <6> QED
            BY <3>1, <6>2, Zenon
        <5>2. f < c
          BY <3>1, <3>2
        <5> QED
          BY <3>1, <3>6, <5>1, <5>2, Zenon DEF IsTuple
      <4>2. c - f < RingSize
        <5> SUFFICES ASSUME f + RingSize <= c PROVE FALSE
          BY <3>1, <3>2, RingType
        <5>1. f + RingSize <= Last /\ f + RingSize \in f..c /\ f \in 0..Last
          BY <2>2, <3>2, <3>6, RingType
        <5>2. Published(f + RingSize)
          BY <3>3, <3>6, <5>1, Zenon
        <5>3. PICK b \in delimited : f < b /\ b < f + RingSize
          BY <2>1, <5>1, <5>2, PassedOn, Zenon
        <5>4. b \in Nat
          BY <2>1, Tuples, Zenon
        <5>5. f < b /\ b < c
          BY <3>1, <3>2, <5>3, <5>4, RingType
        <5> QED
          BY <4>1, <5>5, Zenon DEF IsTuple
      <4>3. Complete(f, c)
        BY <2>1, <3>3, <3>6, <4>1, <4>2, Tuples, Zenon DEF Complete
      <4>4. Complete(worker[w].first, worker[w].final)'
        BY <3>6, <4>3, <1>CompleteNow, Zenon DEF Now
      <4>5. s <= c
        BY <3>1, <3>2
      <4> QED
        BY <3>1, <3>6, <4>4, <4>5, Zenon DEF Exact, Now
    <3> QED
      BY <3>1, <3>4, <3>5, <3>6, Zenon
  <2>8. ASSUME worker[w].at = "claim" \/ Taking(w)
        PROVE  /\ Complete(f, l) /\ f <= s /\ s <= l /\ s \in 0..Last /\ Published(s)
    <3>1. Complete(f, l) /\ f <= s /\ s <= l
      BY <2>2, <2>8, <2>r, Zenon DEF Exact
    <3>2. s \in 0..Last /\ f \in 0..Last /\ l \in 0..Last
      BY <2>1, <2>r, TypeFacts, Zenon DEF Workers
    <3>3. s \in f..l
      BY <2>2, <3>1, <3>2
    <3> QED
      BY <3>1, <3>2, <3>3, Zenon DEF Complete
  <2>9. ASSUME worker[w].at = "claim" \/ Taking(w), Resumes(w)
        PROVE  Exact(w)'
    BY <2>8, <2>9, <2>r, <1>ResumesExactly, Zenon
  <2>10. ASSUME worker[w].at = "claim" \/ Taking(w), worker'[w].at \in {"takeFirst", "markFirst", "take", "mark"},
                worker'[w].sn = s, worker'[w].first = f, worker'[w].final = l
         PROVE  Exact(w)'
    <3>1. Complete(f, l) /\ f <= s /\ s <= l
      BY <2>8, <2>10, Zenon
    <3>2. Complete(worker[w].first, worker[w].final)'
      BY <2>10, <3>1, <1>CompleteNow, Zenon
    <3> QED
      BY <2>10, <3>1, <3>2, Zenon DEF Exact
  <2>11. CASE TryClaim(w)
    <3>1. worker[w].at = "claim" /\ (Resumes(w) \/ Now(w, "takeFirst", s, d, f, l, bs))
      BY <2>1, <2>11, <2>r, TryClaimDoes, Zenon
    <3> QED
      BY <2>9, <2>10, <3>1, Zenon DEF Now
  <2>12. CASE TakeFirst(w) \/ Take(w)
    <3>1. /\ Taking(w) /\ UNCHANGED resolved /\ worker'[w].at \in {"markFirst", "mark"} /\ worker'[w].sn = s
          /\ Progress(w, Taken(w) + 1, Taken(w))
      BY <2>1, <2>12, <2>r, TakeStep, Zenon
    <3>2. worker'[w].first = f /\ worker'[w].final = l
      BY <2>r, <3>1, Zenon DEF Progress, Taking
    <3> QED
      BY <2>10, <3>1, <3>2, Zenon
  <2>13. CASE MarkFirst(w) \/ Mark(w)
    <3>1. Taking(w) /\ (Resumes(w) \/ Now(w, "take", s, d, f, l, bs))
      BY <2>1, <2>13, <2>r, MarkStep, Zenon
    <3> QED
      BY <2>9, <2>10, <3>1, Zenon DEF Now
  <2> QED
    BY <2>3, <2>4, <2>5, <2>6, <2>7, <2>11, <2>12, <2>13, Zenon DEF Step
<1> SUFFICES ASSUME IInv, NEW w \in Worker, Step(w)
             PROVE  SearchesAreExact'
  BY Zenon
<1>1. \A v \in Worker : Exact(v)'
  BY <1>ExactStays, <1>ExactStaysForOthers, Zenon
<1> QED
  BY <1>1, Zenon DEF SearchesAreExact, Exact

-----------------------------------------------------------------------------
\* Claims

LEMMA ClaimsStay ==
  IInv => \A w \in Worker : Step(w) =>
    ClaimsAreExclusive'
<1>OrderStaysForOthers.
      ASSUME IInv, NEW w \in Worker, Step(w), NEW v \in Worker, v # w
      PROVE  TakesInOrder(v)'
  <2> USE <1>OrderStaysForOthers
  <2>1. worker'[v] = worker[v] /\ TakesInOrder(v)
    BY StepFrame, ClaimParts, Zenon DEF IInv, OthersStay, AllTakeInOrder
  <2> QED
    BY <2>1, Zenon DEF TakesInOrder, Taking, Taken
<1>ResolvedStays.
      ASSUME IInv, NEW w \in Worker, Step(w)
      PROVE  \A x \in resolved : Complete(x.first, x.first + Len(x.buffers) - 1)'
  <2> USE <1>ResolvedStays
  <2>1. ResolvedWhole
    BY ClaimParts, Zenon DEF IInv
  <2> QED
    BY <2>1, CompleteStays, Zenon DEF ResolvedWhole
\* A step of a worker that has not won a tuple and does not win one.
<1>ClaimsStayWithoutWin.
      ASSUME IInv, NEW w \in Worker, Step(w), ~Publish(w), ~Taking(w), ~Taking(w)', resolved' = resolved,
             \A i \in Ring : entry'[i].claimed = entry[i].claimed
      PROVE  ClaimsAreExclusive'
  <2> USE <1>ClaimsStayWithoutWin
  <2>1. /\ Types /\ OthersStay(w) /\ delimited' = delimited /\ SameOccupancy
        /\ OneTaker /\ NotTakenAgain /\ ResolvedWhole /\ ResolvedOnce /\ ClaimedIsWon
    BY StepFrame, ClaimParts, Zenon DEF IInv
  <2>2. \A v \in Worker : v # w => (Taking(v)' <=> Taking(v)) /\ worker'[v].first = worker[v].first
    BY <2>1, OthersKeepTheirs, Zenon
  <2>3. AllTakeInOrder'
    <3>1. TakesInOrder(w)'
      BY Zenon DEF TakesInOrder
    <3> QED
      BY <3>1, <1>OrderStaysForOthers, Zenon DEF AllTakeInOrder
  <2>4. OneTaker' /\ NotTakenAgain'
    BY <2>1, <2>2, Zenon DEF OneTaker, NotTakenAgain
  <2>5. ResolvedWhole' /\ ResolvedOnce'
    BY <2>1, <1>ResolvedStays, Zenon DEF ResolvedWhole, ResolvedOnce
  <2>6. \A sn \in 0..Last : (Published(sn)' <=> Published(sn)) /\ (Held(sn)' <=> Held(sn))
    BY <2>1, SameRing, Zenon
  <2>7. \A a \in delimited : a \in 0..Last /\ Index(a) \in Ring
    BY <2>1, Tuples, TypeFacts, Zenon
  <2>8. \A a : Nobody(a)' <=> Nobody(a)
    BY <2>2, Zenon DEF Nobody
  <2>9. ClaimedIsWon'
    BY <2>1, <2>6, <2>7, <2>8, Zenon DEF ClaimedIsWon
  <2> QED
    BY <2>3, <2>4, <2>5, <2>9, ClaimPartsThen, Zenon
<1>ClaimsStayOnPublish.
      ASSUME IInv, NEW w \in Worker, Publish(w)
      PROVE  ClaimsAreExclusive'
  <2> USE <1>ClaimsStayOnPublish
  <2>0. Step(w)
    BY Zenon DEF Step
  <2>1. /\ Types /\ EveryBufferHasOneTask /\ EntriesFollowTheStream /\ SearchesAreExact /\ ClaimsAreExclusive /\ UsesAreMarked
        /\ OthersStay(w) /\ delimited' = delimited
        /\ OneTaker /\ NotTakenAgain /\ ResolvedWhole /\ ResolvedOnce /\ ClaimedIsWon
    BY <2>0, StepFrame, ClaimParts, Zenon DEF IInv
  <2>p. PICK p : p = worker[w].sn
    BY Zenon
  <2>2. /\ worker[w].at = "publish" /\ worker'[w].at = "searchLeading" /\ resolved' = resolved
        /\ State(Index(p), ABAItNo(p), p \in delimited, FALSE, FALSE, FALSE)
    BY <2>1, <2>p, PublishDoes, Zenon DEF Now
  <2>3. ~Taking(w) /\ ~Taking(w)'
    BY <2>2, Zenon DEF Taking
  <2>4. \A v \in Worker : v # w => (Taking(v)' <=> Taking(v)) /\ worker'[v].first = worker[v].first
    BY <2>1, OthersKeepTheirs, Zenon
  <2>5. AllTakeInOrder'
    <3>1. TakesInOrder(w)'
      BY <2>3, Zenon DEF TakesInOrder
    <3> QED
      BY <2>0, <3>1, <1>OrderStaysForOthers, Zenon DEF AllTakeInOrder
  <2>6. OneTaker' /\ NotTakenAgain'
    BY <2>1, <2>2, <2>3, <2>4, Zenon DEF OneTaker, NotTakenAgain
  <2>7. ResolvedWhole' /\ ResolvedOnce'
    BY <2>0, <2>1, <2>2, <1>ResolvedStays, Zenon DEF ResolvedWhole, ResolvedOnce
  <2>8. \A a : Nobody(a)' <=> Nobody(a)
    BY <2>2, <2>3, <2>4, Zenon DEF Nobody
  <2>9. /\ p \in 0..Last /\ Index(p) \in Ring /\ ~Published(p) /\ entry[Index(p)].usedTrailing
    BY <2>1, <2>2, <2>p, BeforePublishing, Zenon
  <2>10. /\ \A sn \in 0..Last : Published(sn)' <=> Published(sn) \/ sn = p
         /\ \A sn \in 0..Last : Held(sn)' <=> (Held(sn) /\ Index(sn) # Index(p)) \/ sn = p
         /\ \A sn \in 0..Last : Index(sn) # Index(p) => entry'[Index(sn)] = entry[Index(sn)]
    BY <2>1, <2>p, Publishing, Zenon
  <2>11. ASSUME NEW a \in delimited, Published(a)'
         PROVE  Held(a)' /\ ~entry'[Index(a)].claimed <=> Nobody(a)'
    <3>1. a \in 0..Last /\ a \in Nat
      BY <2>1, Tuples, Zenon
    <3>2. CASE a = p
      <4>1. Held(a)' /\ ~entry'[Index(a)].claimed
        BY <2>2, <2>10, <3>1, <3>2, Zenon DEF State
      <4>2. \A v \in Worker : Taking(v) => worker[v].first # a
        <5> SUFFICES ASSUME NEW v \in Worker, Taking(v), worker[v].first = a PROVE FALSE
          BY Zenon
        <5>1. /\ IsTuple(a, worker[v].final) /\ worker[v].final \in 0..Last
              /\ \A c \in a..worker[v].final : Published(c)
          BY <2>1, TakingFacts, Zenon
        <5>2. a \in a..worker[v].final
          BY <3>1, <5>1, StreamIsNotEmpty DEF IsTuple
        <5> QED
          BY <2>9, <3>2, <5>1, <5>2, Zenon
      <4>3. \A x \in resolved : x.first # a
        <5> SUFFICES ASSUME NEW x \in resolved, x.first = a PROVE FALSE
          BY Zenon
        <5> DEFINE l == x.first + Len(x.buffers) - 1
        <5>1. IsTuple(x.first, l) /\ l \in 0..Last /\ \A c \in x.first..l : Published(c)
          BY <2>1, ResolvedFacts, Zenon
        <5> HIDE DEF l
        <5>2. a \in a..l
          BY <3>1, <5>1, StreamIsNotEmpty DEF IsTuple
        <5> QED
          BY <2>9, <3>2, <5>1, <5>2, Zenon
      <4> QED
        BY <2>8, <4>1, <4>2, <4>3, Zenon DEF Nobody
    <3>3. CASE a # p /\ Index(a) # Index(p)
      BY <2>1, <2>8, <2>10, <2>11, <3>1, <3>3, Zenon DEF ClaimedIsWon
    <3>4. CASE a # p /\ Index(a) = Index(p)
      <4>1. ~Held(a)' /\ Published(a)
        BY <2>10, <2>11, <3>1, <3>4, Zenon
      <4>2. ~Nobody(a)
        <5>1. CASE Held(a)
          <6>1. TrailingMarked(a)
            BY <2>1, <2>9, <3>1, <3>4, <4>1, <5>1, Zenon DEF UsesAreMarked
          <6>2. TrailingTaken(a)
            BY <2>1, <3>1, <6>1, TakenIsComplete, Zenon
          <6> QED
            BY <2>1, <6>2, ClaimedWhenUsed, Zenon
        <5>2. CASE ~Held(a)
          BY <2>1, <4>1, <5>2, Zenon DEF ClaimedIsWon
        <5> QED
          BY <5>1, <5>2, Zenon
      <4> QED
        BY <2>8, <4>1, <4>2, Zenon
    <3> QED
      BY <3>2, <3>3, <3>4, Zenon
  <2>12. ClaimedIsWon'
    BY <2>1, <2>11, Zenon DEF ClaimedIsWon
  <2> QED
    BY <2>5, <2>6, <2>7, <2>12, ClaimPartsThen, Zenon
\* The exchange that wins a tuple.
<1>ClaimsStayOnWin.
      ASSUME IInv, NEW w \in Worker, TryClaim(w), Claimable(worker[w].first)
      PROVE  ClaimsAreExclusive'
  <2> USE <1>ClaimsStayOnWin
  <2>0. Step(w) /\ ~Publish(w)
    BY Zenon DEF Step, TryClaim, Publish, At
  <2>1. /\ Types /\ SearchesAreExact /\ OthersStay(w) /\ delimited' = delimited /\ SameOccupancy
        /\ OneTaker /\ NotTakenAgain /\ ResolvedWhole /\ ResolvedOnce /\ ClaimedIsWon
    BY <2>0, StepFrame, ClaimParts, Zenon DEF IInv
  <2>a. PICK a, l : a = worker[w].first /\ l = worker[w].final
    BY Zenon
  <2>2. /\ worker[w].at = "claim" /\ resolved' = resolved
        /\ worker'[w].at = "takeFirst" /\ worker'[w].first = a /\ worker'[w].buffers = worker[w].buffers
        /\ State(Index(a), entry[Index(a)].aba, entry[Index(a)].delimiter, TRUE, entry[Index(a)].usedLeading,
                 entry[Index(a)].usedTrailing)
    BY <2>1, <2>a, TryClaimDoes, Zenon DEF Now
  <2>3. ~Taking(w) /\ Taking(w)' /\ Held(a) /\ ~entry[Index(a)].claimed
    BY <2>2, <2>a, Zenon DEF Taking, Claimable, Held
  <2>4. \A v \in Worker : v # w => (Taking(v)' <=> Taking(v)) /\ worker'[v].first = worker[v].first
    BY <2>1, OthersKeepTheirs, Zenon
  <2>5. a \in delimited /\ a \in 0..Last /\ a \in Nat /\ Published(a)
    <3>1. Complete(a, l) /\ worker[w].buffers = <<>>
      BY <2>1, <2>2, <2>a, Zenon DEF SearchesAreExact
    <3>2. IsTuple(a, l) /\ l \in 0..Last /\ a \in 0..Last /\ a \in Nat /\ a \in delimited
      BY <2>1, <3>1, Tuples, Zenon DEF Complete, IsTuple
    <3>3. a \in a..l
      BY <3>2, StreamIsNotEmpty DEF IsTuple
    <3> QED
      BY <3>1, <3>2, <3>3, Zenon DEF Complete
  <2>6. Nobody(a)
    BY <2>1, <2>3, <2>5, Zenon DEF ClaimedIsWon
  <2>7. AllTakeInOrder'
    <3>1. worker[w].buffers = <<>>
      BY <2>1, <2>2, Zenon DEF SearchesAreExact
    <3>2. Taken(w)' = 0
      BY <2>2, <3>1 DEF Taken
    <3>3. \A k \in 1..0 : FALSE
      OBVIOUS
    <3>4. TakesInOrder(w)'
      BY <2>2, <3>2, <3>3, Zenon DEF TakesInOrder
    <3> QED
      BY <2>0, <3>4, <1>OrderStaysForOthers, Zenon DEF AllTakeInOrder
  <2>8. OneTaker' /\ NotTakenAgain'
    <3>1. OneTaker'
      BY <2>1, <2>2, <2>4, <2>6, Zenon DEF OneTaker, Nobody
    <3>2. NotTakenAgain'
      BY <2>1, <2>2, <2>4, <2>6, Zenon DEF NotTakenAgain, Nobody
    <3> QED
      BY <3>1, <3>2, Zenon
  <2>9. ResolvedWhole' /\ ResolvedOnce'
    BY <2>0, <2>1, <2>2, <1>ResolvedStays, Zenon DEF ResolvedWhole, ResolvedOnce
  <2>10. \A sn \in 0..Last : (Published(sn)' <=> Published(sn)) /\ (Held(sn)' <=> Held(sn))
    BY <2>1, SameRing, Zenon
  <2>11. ASSUME NEW b \in delimited, Published(b)'
         PROVE  Held(b)' /\ ~entry'[Index(b)].claimed <=> Nobody(b)'
    <3>1. b \in 0..Last /\ b \in Nat /\ Index(b) \in Ring
      BY <2>1, Tuples, TypeFacts, Zenon
    <3>2. CASE b = a
      <4>1. ~Nobody(b)'
        BY <2>2, <2>3, <3>2, Zenon DEF Nobody
      <4>2. entry'[Index(b)].claimed
        BY <2>2, <3>2, Zenon DEF State
      <4> QED
        BY <4>1, <4>2, Zenon
    <3>3. CASE b # a
      <4>1. Nobody(b)' <=> Nobody(b)
        BY <2>2, <2>3, <2>4, <3>3, Zenon DEF Nobody
      <4>2. CASE Index(b) = Index(a)
        <5>1. ~Held(b) /\ ~Held(b)'
          <6>1. ABAItNo(b) # ABAItNo(a)
            BY <2>5, <3>1, <3>3, <4>2, SamePlace, Zenon
          <6> QED
            BY <2>3, <2>10, <3>1, <4>2, <6>1, Zenon DEF Held
        <5> QED
          BY <2>1, <2>10, <2>11, <3>1, <4>1, <5>1, Zenon DEF ClaimedIsWon
      <4>3. CASE Index(b) # Index(a)
        <5>1. entry'[Index(b)] = entry[Index(b)]
          BY <2>2, <3>1, <4>3, Zenon DEF State
        <5> QED
          BY <2>1, <2>10, <2>11, <3>1, <4>1, <5>1, Zenon DEF ClaimedIsWon
      <4> QED
        BY <4>2, <4>3, Zenon
    <3> QED
      BY <3>2, <3>3, Zenon
  <2>12. ClaimedIsWon'
    BY <2>1, <2>11, Zenon DEF ClaimedIsWon
  <2> QED
    BY <2>7, <2>8, <2>9, <2>12, ClaimPartsThen, Zenon
\* Steps of who has won a tuple, up to the last one, leave who has won what as it is.
<1>WinsStay.
      ASSUME IInv, NEW w \in Worker, Step(w), ~Publish(w), Taking(w), Taking(w)', resolved' = resolved,
             worker'[w].first = worker[w].first, TakesInOrder(w)',
             \A i \in Ring : entry'[i].claimed = entry[i].claimed
      PROVE  ClaimsAreExclusive'
  <2> USE <1>WinsStay
  <2>1. /\ Types /\ OthersStay(w) /\ delimited' = delimited /\ SameOccupancy
        /\ OneTaker /\ NotTakenAgain /\ ResolvedWhole /\ ResolvedOnce /\ ClaimedIsWon
    BY StepFrame, ClaimParts, Zenon DEF IInv
  <2>2. \A v \in Worker : (Taking(v)' <=> Taking(v)) /\ worker'[v].first = worker[v].first
    BY <2>1, OthersKeepTheirs, Zenon
  <2>3. AllTakeInOrder'
    BY <1>OrderStaysForOthers, Zenon DEF AllTakeInOrder
  <2>4. OneTaker' /\ NotTakenAgain'
    BY <2>1, <2>2, Zenon DEF OneTaker, NotTakenAgain
  <2>5. ResolvedWhole' /\ ResolvedOnce'
    BY <2>1, <1>ResolvedStays, Zenon DEF ResolvedWhole, ResolvedOnce
  <2>6. \A a : Nobody(a)' <=> Nobody(a)
    BY <2>2, Zenon DEF Nobody
  <2>7. \A a \in delimited : a \in 0..Last /\ Index(a) \in Ring
    BY <2>1, Tuples, TypeFacts, Zenon
  <2>8. \A a \in delimited : /\ Published(a)' <=> Published(a)
                             /\ Held(a)' <=> Held(a)
                             /\ entry'[Index(a)].claimed = entry[Index(a)].claimed
    BY <2>1, <2>7, SameRing, Zenon
  <2>9. ClaimedIsWon'
    BY <2>1, <2>6, <2>8, Zenon DEF ClaimedIsWon
  <2> QED
    BY <2>3, <2>4, <2>5, <2>9, ClaimPartsThen, Zenon
<1>ClaimsStayOnTake.
      ASSUME IInv, NEW w \in Worker, TakeFirst(w) \/ Take(w)
      PROVE  ClaimsAreExclusive'
  <2> USE <1>ClaimsStayOnTake
  <2>0. Step(w) /\ ~Publish(w)
    BY Zenon DEF Step, TakeFirst, Take, Publish, At
  <2>1. /\ Types /\ SearchesAreExact /\ ClaimsAreExclusive /\ UsesAreMarked /\ ReferencesAreKept
    BY Zenon DEF IInv
  <2>a. PICK f, l, n, c : f = worker[w].first /\ l = worker[w].final /\ n = Taken(w) /\ c = worker[w].first + Taken(w)
    BY Zenon
  <2>2. /\ Taking(w) /\ Marked(w) = n /\ n \in Nat
        /\ (worker[w].at = "takeFirst" /\ c = f) \/ (worker[w].at = "take" /\ f < c)
        /\ c \in 0..Last /\ f <= c /\ c <= l
        /\ resolved' = resolved
        /\ worker'[w].at = (IF worker[w].at = "takeFirst" THEN "markFirst" ELSE "mark")
        /\ Progress(w, n + 1, n)
        /\ \A k \in 1..(n + 1) :
             worker'[w].buffers[k] = IF k <= n THEN worker[w].buffers[k]
                                     ELSE IF f = c THEN entry[Index(c)].trailing ELSE entry[Index(c)].leading
        /\ State(Index(c), entry[Index(c)].aba, entry[Index(c)].delimiter, entry[Index(c)].claimed,
                 entry[Index(c)].usedLeading, entry[Index(c)].usedTrailing)
    BY <2>1, <2>a, TakeStep, Zenon
  <2>3. Taking(w)' /\ Taken(w)' = n + 1 /\ worker'[w].first = f /\ worker'[w].final = l
    <3>1. Taking(w)'
      BY <2>2, Zenon DEF Taking
    <3> QED
      BY <2>2, <2>a, <3>1, Zenon DEF Progress
  <2>4. f \in 0..Last /\ l \in 0..Last /\ f \in Nat /\ l \in Nat /\ f < l
    <3>1. f \in 0..Last /\ l \in 0..Last /\ IsTuple(f, l)
      BY <2>1, <2>2, <2>a, TakingFacts, Zenon
    <3> QED
      BY <3>1, StreamIsNotEmpty DEF IsTuple
  <2>5. IF f = c THEN entry[Index(c)].trailing = c ELSE entry[Index(c)].leading = c
    <3>1. f + n <= c /\ c <= l
      <4>1. c = f + n
        BY <2>a, Zenon
      <4> QED
        BY <2>2, <2>4, <4>1
    <3>2. /\ Held(c)
          /\ c < l => ~TrailingTaken(c) /\ ~entry[Index(c)].usedTrailing
          /\ f < c => ~LeadingTaken(c) /\ ~entry[Index(c)].usedLeading
      BY <2>1, <2>2, <2>a, <3>1, UnmarkedIsHeld, Zenon
    <3>3. CASE f = c
      <4>1. ~TrailingTaken(c) /\ ~entry[Index(c)].usedTrailing
        BY <2>4, <3>2, <3>3, Zenon
      <4> QED
        BY <2>1, <2>2, <3>2, <3>3, <4>1, Zenon DEF ReferencesAreKept
    <3>4. CASE f # c
      <4>1. f < c
        BY <2>2, <3>4, Zenon
      <4> QED
        BY <2>1, <2>2, <3>2, <3>4, <4>1, Zenon DEF ReferencesAreKept
    <3> QED
      BY <3>3, <3>4, Zenon
  <2>6. TakesInOrder(w)
    BY <2>1, ClaimParts, Zenon DEF AllTakeInOrder
  <2>7. TakesInOrder(w)'
    <3>1. \A k \in 1..(n + 1) : worker'[w].buffers[k] = f + k - 1
      <4> SUFFICES ASSUME NEW k \in 1..(n + 1) PROVE worker'[w].buffers[k] = f + k - 1
        BY Zenon
      <4>1. CASE k <= n
        <5>1. k \in 1..n
          BY <2>2, <4>1
        <5>2. worker[w].buffers[k] = f + k - 1
          BY <2>2, <2>6, <2>a, <5>1, Zenon DEF TakesInOrder
        <5> QED
          BY <2>2, <4>1, <5>2, Zenon
      <4>2. CASE ~(k <= n)
        <5>1. worker'[w].buffers[k] = c
          BY <2>2, <2>5, <4>2, Zenon
        <5>2. c = f + n
          BY <2>a, Zenon
        <5>3. c = f + k - 1
          BY <2>2, <2>4, <4>2, <5>2
        <5> QED
          BY <5>1, <5>3, Zenon
      <4> QED
        BY <4>1, <4>2, Zenon
    <3>2. CASE worker[w].at = "takeFirst"
      <4>1. n = 0
        BY <2>2, <2>6, <2>a, <3>2, Zenon DEF TakesInOrder
      <4>2. n + 1 = 1
        BY <4>1
      <4>3. worker'[w].at = "markFirst"
        BY <2>2, <3>2, Zenon
      <4>4. worker'[w].at # "takeFirst" /\ worker'[w].at # "take" /\ worker'[w].at # "mark"
        BY <4>3
      <4> QED
        BY <2>3, <3>1, <4>2, <4>3, <4>4, Zenon DEF TakesInOrder
    <3>3. CASE worker[w].at = "take"
      <4>1. n \in 1..(l - f)
        BY <2>2, <2>6, <2>a, <3>3, Zenon DEF TakesInOrder
      <4>2. n + 1 \in 2..(l - f + 1)
        BY <2>4, <4>1
      <4>3. worker'[w].at = "mark"
        BY <2>2, <3>3
      <4>4. worker'[w].at # "takeFirst" /\ worker'[w].at # "take" /\ worker'[w].at # "markFirst"
        BY <4>3
      <4> QED
        BY <2>3, <3>1, <4>2, <4>3, <4>4, Zenon DEF TakesInOrder
    <3> QED
      BY <2>2, <3>2, <3>3, Zenon
  <2>8. \A i \in Ring : entry'[i].claimed = entry[i].claimed
    BY <2>2, Zenon DEF State
  <2> QED
    BY <2>0, <2>2, <2>3, <2>7, <2>8, <2>a, <1>WinsStay, Zenon
<1>ClaimsStayOnMark.
      ASSUME IInv, NEW w \in Worker, MarkFirst(w) \/ Mark(w)
      PROVE  ClaimsAreExclusive'
  <2> USE <1>ClaimsStayOnMark
  <2>0. Step(w) /\ ~Publish(w)
    BY Zenon DEF Step, MarkFirst, Mark, Publish, At
  <2>1. /\ Types /\ SearchesAreExact /\ ClaimsAreExclusive
        /\ OthersStay(w) /\ delimited' = delimited /\ SameOccupancy
        /\ OneTaker /\ NotTakenAgain /\ ResolvedWhole /\ ResolvedOnce /\ ClaimedIsWon
    BY <2>0, StepFrame, ClaimParts, Zenon DEF IInv
  <2>a. PICK s, f, l, n, c, bs : /\ s = worker[w].sn /\ f = worker[w].first /\ l = worker[w].final /\ n = Taken(w)
                                 /\ c = worker[w].first + Taken(w) - 1 /\ bs = worker[w].buffers
    BY Zenon
  <2>2. /\ Taking(w) /\ n \in Nat /\ n # 0 /\ c \in 0..Last /\ f <= c /\ c <= l
        /\ \/ c # l /\ resolved' = resolved /\ Taking(w)' /\ Now(w, "take", s, worker[w].distance, f, l, bs)
           \/ c = l /\ ~Taking(w)' /\ resolved' = resolved \cup {[by |-> s, first |-> f, buffers |-> bs]}
        /\ \E u, v, x, y, z : State(Index(c), u, v, entry[Index(c)].claimed, x, y)
    BY <2>1, <2>a, MarkStep, Zenon
  <2>3. \A i \in Ring : entry'[i].claimed = entry[i].claimed
    BY <2>2, Zenon DEF State
  <2>4. f \in Nat /\ l \in Nat /\ Complete(f, l)
    <3>1. f \in 0..Last /\ l \in 0..Last /\ Complete(f, l)
      BY <2>1, <2>2, <2>a, TakingFacts, Zenon DEF SearchesAreExact
    <3> QED
      BY <3>1, StreamIsNotEmpty
  <2>5. TakesInOrder(w) /\ \A k \in 1..n : bs[k] = f + k - 1
    BY <2>1, <2>2, <2>a, ClaimParts, Zenon DEF AllTakeInOrder, TakesInOrder
  <2>6. c = f + n - 1
    BY <2>a, Zenon
  <2>7. CASE c # l
    <3>1. resolved' = resolved /\ Taking(w)' /\ Now(w, "take", s, worker[w].distance, f, l, bs)
      BY <2>2, <2>7, Zenon
    <3>2. n \in 1..(l - f)
      BY <2>2, <2>4, <2>6, <2>7
    <3>3. Taken(w)' = n
      BY <2>a, <3>1, Zenon DEF Taken, Now
    <3>4. worker'[w].at = "take" /\ worker'[w].first = f /\ worker'[w].final = l /\ worker'[w].buffers = bs
      BY <3>1, Zenon DEF Now
    <3>5. worker'[w].at # "takeFirst" /\ worker'[w].at # "mark" /\ worker'[w].at # "markFirst"
      BY <3>4
    <3>6. TakesInOrder(w)'
      BY <2>5, <3>2, <3>3, <3>4, <3>5, Zenon DEF TakesInOrder
    <3> QED
      BY <2>0, <2>2, <2>3, <2>a, <3>1, <3>4, <3>6, <1>WinsStay, Zenon
  <2>8. CASE c = l
    <3> DEFINE new == [by |-> s, first |-> f, buffers |-> bs]
    <3>1. ~Taking(w)' /\ resolved' = resolved \cup {new}
      BY <2>2, <2>8, Zenon
    <3>2. new.first = f /\ new.buffers = bs
      BY Zenon
    <3> HIDE DEF new
    <3>3. \A v \in Worker : v # w => (Taking(v)' <=> Taking(v)) /\ worker'[v].first = worker[v].first
      BY <2>1, OthersKeepTheirs, Zenon
    <3>4. AllTakeInOrder'
      <4>1. TakesInOrder(w)'
        BY <3>1, Zenon DEF TakesInOrder
      <4> QED
        BY <2>0, <4>1, <1>OrderStaysForOthers, Zenon DEF AllTakeInOrder
    <3>5. OneTaker'
      BY <2>1, <3>1, <3>3, Zenon DEF OneTaker
    <3>6. NotTakenAgain'
      BY <2>1, <2>2, <2>a, <3>1, <3>2, <3>3, Zenon DEF NotTakenAgain, OneTaker
    <3>7. \A x \in resolved : x.first # f
      BY <2>1, <2>2, <2>a, Zenon DEF NotTakenAgain
    <3>8. ResolvedOnce'
      <4> SUFFICES ASSUME NEW x \in resolved', NEW y \in resolved', x.first = y.first PROVE x = y
        BY Zenon DEF ResolvedOnce
      <4>1. (x \in resolved \/ x = new) /\ (y \in resolved \/ y = new)
        BY <3>1, Zenon
      <4> QED
        BY <2>1, <3>2, <3>7, <4>1, Zenon DEF ResolvedOnce
    <3>9. ResolvedWhole'
      <4> SUFFICES ASSUME NEW x \in resolved'
                   PROVE  /\ Complete(x.first, x.first + Len(x.buffers) - 1)'
                          /\ \A k \in 1..Len(x.buffers) : x.buffers[k] = x.first + k - 1
        BY Zenon DEF ResolvedWhole
      <4>1. CASE x \in resolved
        BY <2>0, <2>1, <4>1, <1>ResolvedStays, Zenon DEF ResolvedWhole
      <4>2. CASE x = new
        <5>1. Len(x.buffers) = n
          BY <2>a, <3>2, <4>2, Zenon DEF Taken
        <5>2. x.first + Len(x.buffers) - 1 = l
          BY <2>6, <2>8, <3>2, <4>2, <5>1, Zenon
        <5>3. Complete(f, l)'
          BY <2>0, <2>4, CompleteStays, Zenon
        <5> QED
          BY <2>5, <3>2, <4>2, <5>1, <5>2, <5>3, Zenon
      <4> QED
        BY <3>1, <4>1, <4>2, Zenon
    <3>10. \A a : Nobody(a)' <=> Nobody(a)
      <4> SUFFICES ASSUME NEW a PROVE Nobody(a)' <=> Nobody(a)
        BY Zenon
      <4>1. (\A x \in resolved' : x.first # a) <=> (\A x \in resolved : x.first # a) /\ f # a
        BY <3>1, <3>2, Zenon
      <4>2. (\A v \in Worker : Taking(v) => worker[v].first # a)
              <=> (\A v \in Worker : Taking(v)' => worker'[v].first # a) /\ f # a
        BY <2>2, <2>a, <3>1, <3>3, Zenon
      <4> QED
        BY <4>1, <4>2, Zenon DEF Nobody
    <3>11. \A a \in delimited : a \in 0..Last /\ Index(a) \in Ring
      BY <2>1, Tuples, TypeFacts, Zenon
    <3>12. \A a \in delimited : /\ Published(a)' <=> Published(a)
                                /\ Held(a)' <=> Held(a)
                                /\ entry'[Index(a)].claimed = entry[Index(a)].claimed
      BY <2>1, <2>3, <3>11, SameRing, Zenon
    <3>13. ClaimedIsWon'
      BY <2>1, <3>10, <3>12, Zenon DEF ClaimedIsWon
    <3> QED
      BY <3>4, <3>5, <3>6, <3>8, <3>9, <3>13, ClaimPartsThen, Zenon
  <2> QED
    BY <2>7, <2>8, Zenon
<1> SUFFICES ASSUME IInv, NEW w \in Worker, Step(w)
             PROVE  ClaimsAreExclusive'
  BY Zenon
<1>1. CASE Quiet(w) /\ ~Publish(w)
  BY <1>1, <1>ClaimsStayWithoutWin, Zenon DEF Quiet
<1> QED
  BY <1>1, KindsOfSteps, <1>ClaimsStayOnPublish, <1>ClaimsStayOnWin, <1>ClaimsStayOnTake, <1>ClaimsStayOnMark, Zenon DEF Wins

-----------------------------------------------------------------------------
\* Marks

LEMMA UsesStayMarked ==
  IInv => \A w \in Worker : Step(w) =>
    UsesAreMarked'
<1>MarkedRightStays.
      ASSUME IInv, NEW w \in Worker, Step(w), NEW sn \in 0..Last, MarkedRight(sn),
             Published(sn)' <=> Published(sn), Held(sn)' <=> Held(sn),
             Held(sn) => /\ entry'[Index(sn)].usedTrailing = entry[Index(sn)].usedTrailing
                         /\ entry'[Index(sn)].usedLeading = entry[Index(sn)].usedLeading,
             LeadingMarked(sn)' <=> LeadingMarked(sn), TrailingMarked(sn)' <=> TrailingMarked(sn)
      PROVE  MarkedRight(sn)'
    BY <1>MarkedRightStays, Zenon DEF MarkedRight
<1>MarkedRightOnPublish.
      ASSUME IInv, NEW w \in Worker, Publish(w), NEW sn \in 0..Last
      PROVE  MarkedRight(sn)'
  <2> USE <1>MarkedRightOnPublish
  <2>0. Step(w)
    BY Zenon DEF Step
  <2>1. /\ Types /\ EveryBufferHasOneTask /\ EntriesFollowTheStream /\ SearchesAreExact /\ ClaimsAreExclusive
        /\ MarkedRight(sn) /\ OthersStay(w)
    BY <2>0, StepFrame, Zenon DEF IInv, UsesAreMarked, MarkedRight
  <2>p. PICK p : p = worker[w].sn
    BY Zenon
  <2>2. /\ worker[w].at = "publish" /\ worker'[w].at = "searchLeading" /\ resolved' = resolved
        /\ State(Index(p), ABAItNo(p), p \in delimited, FALSE, FALSE, FALSE)
    BY <2>1, <2>p, PublishDoes, Zenon DEF Now
  <2>3. ~Taking(w) /\ ~Taking(w)'
    BY <2>2, Zenon DEF Taking
  <2>4. (LeadingMarked(sn)' <=> LeadingMarked(sn)) /\ (TrailingMarked(sn)' <=> TrailingMarked(sn))
    BY <2>1, <2>2, <2>3, UsesStay, Zenon
  <2>5. /\ p \in 0..Last /\ p # 0 /\ ~Published(p) /\ entry[Index(p)].usedLeading /\ entry[Index(p)].usedTrailing
    BY <2>1, <2>2, <2>p, BeforePublishing, Zenon
  <2>6. /\ Published(sn)' <=> Published(sn) \/ sn = p
        /\ Held(sn)' <=> (Held(sn) /\ Index(sn) # Index(p)) \/ sn = p
        /\ Index(sn) # Index(p) => entry'[Index(sn)] = entry[Index(sn)]
    BY <2>1, <2>p, Publishing, Zenon
  <2>7. CASE sn = p
    <3>1. ~TrailingMarked(sn) /\ ~LeadingMarked(sn)
      BY <2>1, <2>5, <2>7, TakenIsComplete, TakenIsPublished, Zenon
    <3>2. Held(sn)' /\ ~entry'[Index(sn)].usedTrailing /\ ~entry'[Index(sn)].usedLeading
      BY <2>2, <2>6, <2>7, Zenon DEF State
    <3> QED
      BY <2>4, <2>5, <2>7, <3>1, <3>2, Zenon DEF MarkedRight
  <2>8. CASE sn # p /\ Index(sn) = Index(p)
    <3>1. ~Held(sn)' /\ (Published(sn)' <=> Published(sn))
      BY <2>6, <2>8, Zenon
    <3> QED
      BY <2>1, <2>4, <2>5, <2>8, <3>1, Zenon DEF MarkedRight
  <2>9. CASE sn # p /\ Index(sn) # Index(p)
    BY <2>0, <2>1, <2>4, <2>6, <2>9, <1>MarkedRightStays, Zenon
  <2> QED
    BY <2>7, <2>8, <2>9, Zenon
<1>MarkedRightOnTake.
      ASSUME IInv, NEW w \in Worker, TakeFirst(w) \/ Take(w), NEW sn \in 0..Last
      PROVE  MarkedRight(sn)'
  <2> USE <1>MarkedRightOnTake
  <2>0. Step(w) /\ ~Publish(w)
    BY Zenon DEF Step, TakeFirst, Take, Publish, At
  <2>1. /\ Types /\ SearchesAreExact /\ ClaimsAreExclusive /\ MarkedRight(sn) /\ delimited' = delimited /\ SameOccupancy
    BY <2>0, StepFrame, Zenon DEF IInv, UsesAreMarked, MarkedRight
  <2>2. (LeadingMarked(sn)' <=> LeadingMarked(sn)) /\ (TrailingMarked(sn)' <=> TrailingMarked(sn))
    BY <2>1, TakeUses, Zenon
  <2>3. PICK c : LET e == entry[Index(c)] IN State(Index(c), e.aba, e.delimiter, e.claimed, e.usedLeading, e.usedTrailing)
    BY <2>1, TakeStep, Zenon
  <2>4. Index(sn) \in Ring
    BY <2>1, TypeFacts, Zenon
  <2>5. /\ entry'[Index(sn)].usedTrailing = entry[Index(sn)].usedTrailing
        /\ entry'[Index(sn)].usedLeading = entry[Index(sn)].usedLeading
    BY <2>3, <2>4, Zenon DEF State
  <2>6. (Published(sn)' <=> Published(sn)) /\ (Held(sn)' <=> Held(sn))
    BY <2>1, SameRing, Zenon
  <2> QED
    BY <2>0, <2>1, <2>2, <2>5, <2>6, <1>MarkedRightStays, Zenon
<1>MarkedRightOnMark.
      ASSUME IInv, NEW w \in Worker, MarkFirst(w) \/ Mark(w), NEW sn \in 0..Last
      PROVE  MarkedRight(sn)'
  <2> USE <1>MarkedRightOnMark
  <2>0. Step(w) /\ ~Publish(w)
    BY Zenon DEF Step, MarkFirst, Mark, Publish, At
  <2>1. /\ Types /\ SearchesAreExact /\ ClaimsAreExclusive /\ UsesAreMarked
        /\ MarkedRight(sn) /\ delimited' = delimited /\ SameOccupancy
    BY <2>0, StepFrame, Zenon DEF IInv, UsesAreMarked, MarkedRight
  <2>a. PICK f, l, n, c : /\ f = worker[w].first /\ l = worker[w].final /\ n = Taken(w)
                          /\ c = worker[w].first + Taken(w) - 1
    BY Zenon
  <2>2. /\ LeadingMarked(sn)' <=> LeadingMarked(sn) \/ (sn = c /\ f # c)
        /\ TrailingMarked(sn)' <=> TrailingMarked(sn) \/ (sn = c /\ c # l)
    BY <2>1, <2>a, MarkUses, Zenon
  <2>3. /\ Taking(w) /\ Marked(w) = n - 1 /\ n \in Nat /\ c \in 0..Last /\ f <= c /\ c <= l
        /\ State(Index(c), entry[Index(c)].aba, entry[Index(c)].delimiter, entry[Index(c)].claimed,
                 IF f = c THEN entry[Index(c)].usedLeading ELSE TRUE,
                 IF c = l THEN entry[Index(c)].usedTrailing ELSE TRUE)
    BY <2>1, <2>a, MarkStep, Zenon
  <2>4. f \in 0..Last /\ l \in 0..Last
    BY <2>1, <2>3, <2>a, TakingFacts, Zenon
  <2>5. Held(c)
    <3>1. c = f + n - 1
      BY <2>a, Zenon
    <3>2. f + (n - 1) <= c
      BY <2>3, <2>4, <3>1, StreamIsNotEmpty
    <3> QED
      BY <2>1, <2>3, <2>a, <3>2, UnmarkedIsHeld, Zenon
  <2>6. Index(sn) \in Ring /\ sn \in Nat /\ c \in Nat
    BY <2>1, <2>3, TypeFacts, Zenon
  <2>7. (Published(sn)' <=> Published(sn)) /\ (Held(sn)' <=> Held(sn))
    BY <2>1, SameRing, Zenon
  <2>8. CASE sn = c
    <3>1. /\ entry'[Index(sn)].usedLeading = IF f = c THEN entry[Index(sn)].usedLeading ELSE TRUE
          /\ entry'[Index(sn)].usedTrailing = IF c = l THEN entry[Index(sn)].usedTrailing ELSE TRUE
      BY <2>3, <2>8, Zenon DEF State
    <3> QED
      BY <2>1, <2>2, <2>5, <2>7, <2>8, <3>1, Zenon DEF MarkedRight
  <2>9. CASE sn # c
    <3>1. Held(sn) => Index(sn) # Index(c)
      BY <2>5, <2>6, <2>9, SamePlace, Zenon DEF Held
    <3>2. Held(sn) => entry'[Index(sn)] = entry[Index(sn)]
      BY <2>3, <2>6, <3>1, Zenon DEF State
    <3> QED
      BY <2>0, <2>1, <2>2, <2>7, <2>9, <3>2, <1>MarkedRightStays, Zenon
  <2> QED
    BY <2>8, <2>9, Zenon
<1> SUFFICES ASSUME IInv, NEW w \in Worker, Step(w)
             PROVE  UsesAreMarked'
  BY Zenon
<1>1. ASSUME NEW sn \in 0..Last, (Quiet(w) /\ ~Publish(w)) \/ Wins(w) PROVE MarkedRight(sn)'
  <2>1. ~Publish(w) /\ resolved' = resolved /\ ~Taking(w)
        /\ (~Taking(w)' \/ (Taken(w)' = 0 /\ Marked(w)' = 0 /\ worker'[w].first \in 0..Last))
    BY <1>1, WinDoes, Zenon DEF Quiet
  <2>2. /\ Types /\ MarkedRight(sn) /\ delimited' = delimited /\ SameOccupancy /\ OthersStay(w)
    BY <2>1, StepFrame, Zenon DEF IInv, UsesAreMarked, MarkedRight
  <2>3. (LeadingMarked(sn)' <=> LeadingMarked(sn)) /\ (TrailingMarked(sn)' <=> TrailingMarked(sn))
    BY <2>1, <2>2, UsesStay, Zenon
  <2>4. Index(sn) \in Ring
    BY <2>2, TypeFacts, Zenon
  <2>5. /\ entry'[Index(sn)].usedTrailing = entry[Index(sn)].usedTrailing
        /\ entry'[Index(sn)].usedLeading = entry[Index(sn)].usedLeading
    <3>1. CASE Quiet(w)
      BY <2>4, <3>1, Zenon DEF Quiet
    <3>2. CASE Wins(w)
      <4>1. PICK c : LET e == entry[Index(c)] IN State(Index(c), e.aba, e.delimiter, TRUE, e.usedLeading, e.usedTrailing)
        BY <3>2, WinDoes, Zenon
      <4> QED
        BY <2>4, <4>1, Zenon DEF State
    <3> QED
      BY <1>1, <3>1, <3>2, Zenon
  <2>6. (Published(sn)' <=> Published(sn)) /\ (Held(sn)' <=> Held(sn))
    BY <2>2, SameRing, Zenon
  <2> QED
    BY <2>2, <2>3, <2>5, <2>6, <1>MarkedRightStays, Zenon
<1>2. \A sn \in 0..Last : MarkedRight(sn)'
  BY <1>1, KindsOfSteps, <1>MarkedRightOnPublish, <1>MarkedRightOnTake, <1>MarkedRightOnMark, Zenon
<1> QED
  BY <1>2, Zenon DEF UsesAreMarked, MarkedRight

-----------------------------------------------------------------------------
\* References

LEMMA ReferencesStay ==
  IInv => \A w \in Worker : Step(w) =>
    ReferencesAreKept'
<1>PublisherStays.
      ASSUME IInv, NEW w \in Worker, Step(w), ~SetBuffers(w), ~Publish(w)
      PROVE  /\ worker[w].at # "publish" /\ worker'[w].at # "publish"
             /\ \A v \in Worker : /\ worker'[v].at = "publish" <=> worker[v].at = "publish"
                                  /\ worker[v].at = "publish" => worker'[v].sn = worker[v].sn
             /\ \A i : Unset(i)' <=> Unset(i)
  <2> USE <1>PublisherStays
  <2>1. worker[w].at # "publish" /\ worker'[w].at # "publish"
    <3>1. ASSUME NEW sn \in Buffer, BeginBuffer(w, sn) PROVE worker[w].at = "idle" /\ worker'[w].at = "set"
      BY <3>1, BeginDoes, Zenon DEF IInv, Now, At
    <3>2. CASE \E sn \in Buffer : BeginBuffer(w, sn)
      <4>1. worker[w].at = "idle" /\ worker'[w].at = "set"
        BY <3>1, <3>2, Zenon
      <4> QED
        BY <4>1
    <3>3. CASE ~\E sn \in Buffer : BeginBuffer(w, sn)
      BY <3>3, TaskKept, Zenon
    <3> QED
      BY <3>2, <3>3, Zenon
  <2>2. \A v \in Worker : v # w => worker'[v] = worker[v]
    BY StepFrame, Zenon DEF OthersStay
  <2>3. \A v \in Worker : /\ worker'[v].at = "publish" <=> worker[v].at = "publish"
                          /\ worker[v].at = "publish" => worker'[v].sn = worker[v].sn
    BY <2>1, <2>2, Zenon
  <2>4. \A i : Unset(i)' <=> Unset(i)
    BY <2>3, Zenon DEF Unset
  <2> QED
    BY <2>1, <2>3, <2>4, Zenon
<1>ReferencesStayOnSet.
      ASSUME IInv, NEW w \in Worker, SetBuffers(w)
      PROVE  ReferencesAreKept'
  <2> USE <1>ReferencesStayOnSet
  <2>0. Step(w)
    BY Zenon DEF Step
  <2>1. /\ Types /\ EveryBufferHasOneTask /\ EntriesFollowTheStream /\ OthersStay(w)
        /\ \A sn \in 0..Last : KeepsReferences(sn)
        /\ \A v \in Worker : SetIsSet(v)
        /\ \A i \in Ring : UsedIsEmpty(i)
    BY <2>0, StepFrame, ReferenceParts, Zenon DEF IInv
  <2>p. PICK p : p = worker[w].sn
    BY Zenon
  <2>2. /\ worker[w].at = "set" /\ worker'[w].at = "publish" /\ worker'[w].sn = p /\ resolved' = resolved
        /\ delimited' = delimited
        /\ State(Index(p), entry[Index(p)].aba, entry[Index(p)].delimiter, entry[Index(p)].claimed,
                 entry[Index(p)].usedLeading, entry[Index(p)].usedTrailing)
        /\ entry'[Index(p)].leading = p /\ entry'[Index(p)].trailing = p
    BY <2>1, <2>p, SetDoes, Zenon DEF Now, References
  <2>3. ~Taking(w) /\ ~Taking(w)'
    BY <2>2, Zenon DEF Taking
  <2>4. /\ p \in Nat /\ Index(p) \in Ring /\ entry[Index(p)].usedLeading /\ entry[Index(p)].usedTrailing
        /\ entry[Index(p)].aba = ABAItNo(p) - 1
    BY <2>1, <2>2, <2>p, BeforePublishing, Zenon
  <2>5. SameOccupancy
    BY <2>2, Zenon DEF SameOccupancy, State
  <2>6. \A sn \in 0..Last : KeepsReferences(sn)'
    <3> SUFFICES ASSUME NEW sn \in 0..Last PROVE KeepsReferences(sn)'
      BY Zenon
    <3>1. Index(sn) \in Ring
      BY <2>1, TypeFacts, Zenon
    <3>2. (LeadingTaken(sn)' <=> LeadingTaken(sn)) /\ (TrailingTaken(sn)' <=> TrailingTaken(sn))
      BY <2>1, <2>2, <2>3, UsesStay, Zenon
    <3>3. Held(sn)' <=> Held(sn)
      BY <2>1, <2>2, <2>5, SameRing, Zenon
    <3>4. CASE Index(sn) = Index(p)
      <4>1. entry'[Index(sn)].usedLeading /\ entry'[Index(sn)].usedTrailing
        BY <2>2, <2>4, <3>4, Zenon DEF State
      <4> QED
        BY <4>1, Zenon DEF KeepsReferences
    <3>5. CASE Index(sn) # Index(p)
      <4>1. entry'[Index(sn)] = entry[Index(sn)]
        BY <2>2, <3>1, <3>5, Zenon DEF State
      <4> QED
        BY <2>1, <3>2, <3>3, <4>1, Zenon DEF KeepsReferences
    <3> QED
      BY <3>4, <3>5, Zenon
  <2>7. \A v \in Worker : SetIsSet(v)'
    <3> SUFFICES ASSUME NEW v \in Worker, worker'[v].at = "publish"
                 PROVE  entry'[Index(worker'[v].sn)].leading = worker'[v].sn /\ entry'[Index(worker'[v].sn)].trailing = worker'[v].sn
      BY Zenon DEF SetIsSet
    <3>1. CASE v = w
      BY <2>2, <3>1, Zenon
    <3>2. CASE v # w
      <4>1. worker'[v] = worker[v] /\ worker[v].at = "publish"
        BY <2>1, <3>2, Zenon DEF OthersStay
      <4>q. PICK q : q = worker[v].sn
        BY Zenon
      <4>2. q \in Nat /\ Index(q) \in Ring /\ entry[Index(q)].aba = ABAItNo(q) - 1
        BY <2>1, <4>1, <4>q, BeforePublishing, Zenon
      <4>3. q # p
        <5>1. worker[v].at # "idle"
          BY <4>1
        <5> QED
          BY <2>1, <2>p, <3>2, <4>q, <5>1, Zenon DEF EveryBufferHasOneTask, At
      <4>4. Index(q) # Index(p)
        <5>1. ASSUME Index(q) = Index(p) PROVE FALSE
          <6>1. ABAItNo(q) - 1 = ABAItNo(p) - 1
            BY <2>4, <4>2, <5>1, Zenon
          <6>2. ABAItNo(q) \in Nat /\ ABAItNo(p) \in Nat
            BY <2>4, <4>2, Places, Zenon
          <6>3. ABAItNo(q) = ABAItNo(p)
            BY <6>1, <6>2
          <6> QED
            BY <2>4, <4>2, <4>3, <5>1, <6>3, SamePlace, Zenon
        <5> QED
          BY <5>1, Zenon
      <4>5. entry'[Index(q)] = entry[Index(q)]
        BY <2>2, <4>2, <4>4, Zenon DEF State
      <4>6. entry[Index(q)].leading = q /\ entry[Index(q)].trailing = q
        BY <2>1, <4>1, <4>q, Zenon DEF SetIsSet
      <4>7. worker'[v].sn = q
        BY <4>1, <4>q, Zenon
      <4> QED
        BY <4>5, <4>6, <4>7, Zenon
    <3> QED
      BY <3>1, <3>2, Zenon
  <2>8. \A i \in Ring : UsedIsEmpty(i)'
    <3> SUFFICES ASSUME NEW i \in Ring, Unset(i)' PROVE UsedIsEmpty(i)'
      BY Zenon DEF UsedIsEmpty
    <3>1. i # Index(p)
      BY <2>2, Zenon DEF Unset
    <3>2. entry'[i] = entry[i]
      BY <2>2, <3>1, Zenon DEF State
    <3>3. worker[w].at # "publish"
      BY <2>2
    <3>4. Unset(i)
      BY <2>1, <3>3, Zenon DEF Unset, OthersStay
    <3> QED
      BY <2>1, <3>2, <3>4, Zenon DEF UsedIsEmpty
  <2> QED
    BY <2>6, <2>7, <2>8, ReferencePartsThen, Zenon
<1>ReferencesStayOnPublish.
      ASSUME IInv, NEW w \in Worker, Publish(w)
      PROVE  ReferencesAreKept'
  <2> USE <1>ReferencesStayOnPublish
  <2>0. Step(w)
    BY Zenon DEF Step
  <2>1. /\ Types /\ EveryBufferHasOneTask /\ EntriesFollowTheStream /\ SearchesAreExact /\ ClaimsAreExclusive /\ OthersStay(w)
        /\ \A sn \in 0..Last : KeepsReferences(sn)
        /\ \A v \in Worker : SetIsSet(v)
        /\ \A i \in Ring : UsedIsEmpty(i)
    BY <2>0, StepFrame, ReferenceParts, Zenon DEF IInv
  <2>p. PICK p : p = worker[w].sn
    BY Zenon
  <2>2. /\ worker[w].at = "publish" /\ worker'[w].at = "searchLeading" /\ resolved' = resolved
        /\ State(Index(p), ABAItNo(p), p \in delimited, FALSE, FALSE, FALSE)
        /\ entry'[Index(p)].leading = entry[Index(p)].leading /\ entry'[Index(p)].trailing = entry[Index(p)].trailing
    BY <2>1, <2>p, PublishDoes, Zenon DEF Now, References
  <2>3. ~Taking(w) /\ ~Taking(w)' /\ worker'[w].at # "publish"
    BY <2>2, Zenon DEF Taking
  <2>4. p \in 0..Last /\ Index(p) \in Ring /\ ~Published(p)
    BY <2>1, <2>2, <2>p, BeforePublishing, Zenon
  <2>5. entry[Index(p)].leading = p /\ entry[Index(p)].trailing = p
    BY <2>1, <2>2, <2>p, Zenon DEF SetIsSet
  <2>6. \A sn \in 0..Last : KeepsReferences(sn)'
    <3> SUFFICES ASSUME NEW sn \in 0..Last, Held(sn)' PROVE KeepsReferences(sn)'
      BY Zenon DEF KeepsReferences
    <3>1. (Held(sn) /\ Index(sn) # Index(p) /\ entry'[Index(sn)] = entry[Index(sn)]) \/ sn = p
      BY <2>1, <2>p, Publishing, Zenon
    <3>2. (LeadingTaken(sn)' <=> LeadingTaken(sn)) /\ (TrailingTaken(sn)' <=> TrailingTaken(sn))
      BY <2>1, <2>2, <2>3, UsesStay, Zenon
    <3>3. CASE sn = p
      <4>1. ~LeadingTaken(sn) /\ ~TrailingTaken(sn)
        BY <2>1, <2>4, <3>3, TakenIsPublished, Zenon
      <4> QED
        BY <2>2, <2>5, <3>2, <3>3, <4>1, Zenon DEF KeepsReferences
    <3>4. CASE Held(sn) /\ entry'[Index(sn)] = entry[Index(sn)]
      BY <2>1, <3>2, <3>4, Zenon DEF KeepsReferences
    <3> QED
      BY <3>1, <3>3, <3>4, Zenon
  <2>7. \A v \in Worker : SetIsSet(v)'
    <3> SUFFICES ASSUME NEW v \in Worker, worker'[v].at = "publish"
                 PROVE  entry'[Index(worker'[v].sn)].leading = worker'[v].sn /\ entry'[Index(worker'[v].sn)].trailing = worker'[v].sn
      BY Zenon DEF SetIsSet
    <3>1. v # w
      BY <2>3, Zenon
    <3>2. worker'[v] = worker[v] /\ worker[v].at = "publish"
      BY <2>1, <3>1, Zenon DEF OthersStay
    <3>q. PICK q : q = worker[v].sn
      BY Zenon
    <3>3. Index(q) \in Ring
      BY <2>1, <3>2, <3>q, BeforePublishing, Zenon
    <3>4. entry[Index(q)].leading = q /\ entry[Index(q)].trailing = q
      BY <2>1, <3>2, <3>q, Zenon DEF SetIsSet
    <3>5. entry'[Index(q)].leading = entry[Index(q)].leading /\ entry'[Index(q)].trailing = entry[Index(q)].trailing
      BY <2>2, <3>3, Zenon DEF State
    <3>6. worker'[v].sn = q
      BY <3>2, <3>q, Zenon
    <3> QED
      BY <3>4, <3>5, <3>6, Zenon
  <2>8. \A i \in Ring : UsedIsEmpty(i)'
    <3> SUFFICES ASSUME NEW i \in Ring, Unset(i)' PROVE UsedIsEmpty(i)'
      BY Zenon DEF UsedIsEmpty
    <3>1. CASE i = Index(p)
      BY <2>2, <3>1, Zenon DEF State, UsedIsEmpty
    <3>2. CASE i # Index(p)
      <4>1. entry'[i] = entry[i]
        BY <2>2, <3>2, Zenon DEF State
      <4>2. Unset(i)
        BY <2>1, <2>p, <3>2, Zenon DEF Unset, OthersStay
      <4> QED
        BY <2>1, <4>1, <4>2, Zenon DEF UsedIsEmpty
    <3> QED
      BY <3>1, <3>2, Zenon
  <2> QED
    BY <2>6, <2>7, <2>8, ReferencePartsThen, Zenon
\* A step that changes no references and marks only what is empty.
<1>ReferencesStayWhenMarking.
      ASSUME IInv, NEW w \in Worker, Step(w), ~SetBuffers(w), ~Publish(w),
             \A i \in Ring : entry'[i].leading = entry[i].leading /\ entry'[i].trailing = entry[i].trailing,
             \A i \in Ring : /\ entry[i].usedLeading => entry'[i].usedLeading
                             /\ entry[i].usedTrailing => entry'[i].usedTrailing
                             /\ entry'[i].usedLeading => entry[i].usedLeading \/ entry[i].leading = Null
                             /\ entry'[i].usedTrailing => entry[i].usedTrailing \/ entry[i].trailing = Null,
             \A sn \in 0..Last : (LeadingTaken(sn)' <=> LeadingTaken(sn)) /\ (TrailingTaken(sn)' <=> TrailingTaken(sn))
      PROVE  ReferencesAreKept'
  <2> USE <1>ReferencesStayWhenMarking
  <2>1. /\ Types /\ EveryBufferHasOneTask /\ EntriesFollowTheStream /\ SameOccupancy /\ delimited' = delimited
        /\ \A sn \in 0..Last : KeepsReferences(sn)
        /\ \A v \in Worker : SetIsSet(v)
        /\ \A i \in Ring : UsedIsEmpty(i)
    BY StepFrame, ReferenceParts, Zenon DEF IInv
  <2>2. \A sn \in 0..Last : Index(sn) \in Ring /\ (Held(sn)' <=> Held(sn))
    BY <2>1, TypeFacts, SameRing, Zenon
  <2>3. \A sn \in 0..Last : KeepsReferences(sn)'
    <3> SUFFICES ASSUME NEW sn \in 0..Last PROVE KeepsReferences(sn)'
      BY Zenon
    <3> QED
      BY <2>1, <2>2, Zenon DEF KeepsReferences
  <2>4. \A v \in Worker : SetIsSet(v)'
    <3> SUFFICES ASSUME NEW v \in Worker, worker'[v].at = "publish"
                 PROVE  entry'[Index(worker'[v].sn)].leading = worker'[v].sn /\ entry'[Index(worker'[v].sn)].trailing = worker'[v].sn
      BY Zenon DEF SetIsSet
    <3>q. PICK q : q = worker[v].sn
      BY Zenon
    <3>1. worker[v].at = "publish" /\ worker'[v].sn = q
      BY <3>q, <1>PublisherStays, Zenon
    <3>2. Index(q) \in Ring
      BY <2>1, <3>1, <3>q, BeforePublishing, Zenon
    <3>3. entry[Index(q)].leading = q /\ entry[Index(q)].trailing = q
      BY <2>1, <3>1, <3>q, Zenon DEF SetIsSet
    <3> QED
      BY <3>1, <3>2, <3>3, Zenon
  <2>5. \A i \in Ring : UsedIsEmpty(i)'
    BY <2>1, <1>PublisherStays, Zenon DEF UsedIsEmpty
  <2> QED
    BY <2>3, <2>4, <2>5, ReferencePartsThen, Zenon
<1>ReferencesStayOnMark.
      ASSUME IInv, NEW w \in Worker, MarkFirst(w) \/ Mark(w)
      PROVE  ReferencesAreKept'
  <2> USE <1>ReferencesStayOnMark
  <2>0. Step(w) /\ ~Publish(w) /\ ~SetBuffers(w)
    BY Zenon DEF Step, MarkFirst, Mark, Publish, SetBuffers, At
  <2>1. /\ Types /\ SearchesAreExact /\ ClaimsAreExclusive /\ UsesAreMarked /\ \A sn \in 0..Last : KeepsReferences(sn)
    BY ReferenceParts, Zenon DEF IInv
  <2>a. PICK f, l, n, c : /\ f = worker[w].first /\ l = worker[w].final /\ n = Taken(w)
                          /\ c = worker[w].first + Taken(w) - 1
    BY Zenon
  <2>2. \A sn \in 0..Last : (LeadingTaken(sn)' <=> LeadingTaken(sn)) /\ (TrailingTaken(sn)' <=> TrailingTaken(sn))
    BY <2>1, MarkUses, Zenon
  <2>3. /\ Taking(w) /\ Marked(w) = n - 1 /\ n \in Nat /\ c \in 0..Last /\ f <= c /\ c <= l
        /\ State(Index(c), entry[Index(c)].aba, entry[Index(c)].delimiter, entry[Index(c)].claimed,
                 IF f = c THEN entry[Index(c)].usedLeading ELSE TRUE,
                 IF c = l THEN entry[Index(c)].usedTrailing ELSE TRUE)
        /\ References(Index(c), entry[Index(c)].leading, entry[Index(c)].trailing)
    BY <2>1, <2>a, MarkStep, Zenon
  <2>4. f \in 0..Last /\ l \in 0..Last
    BY <2>1, <2>3, <2>a, TakingFacts, Zenon
  <2>5. c = f + n - 1
    BY <2>a, Zenon
  <2>6. f + (n - 1) <= c /\ c < f + n
    BY <2>3, <2>4, <2>5, StreamIsNotEmpty
  <2>7. /\ Held(c)
        /\ c < l => ~entry[Index(c)].usedTrailing
        /\ f < c => ~entry[Index(c)].usedLeading
    BY <2>1, <2>3, <2>6, <2>a, UnmarkedIsHeld, Zenon
  <2>8. (f # c => f < c) /\ (c # l => c < l)
    BY <2>3, <2>4, StreamIsNotEmpty
  <2>9. f # c => entry[Index(c)].leading = Null
    <3> SUFFICES ASSUME f # c PROVE entry[Index(c)].leading = Null
      BY Zenon
    <3>1. LeadingTaken(c)
      BY <2>3, <2>6, <2>8, <2>a, Zenon DEF LeadingTaken, LeadingPart
    <3> QED
      BY <2>1, <2>3, <2>7, <2>8, <3>1, Zenon DEF KeepsReferences
  <2>10. c # l => entry[Index(c)].trailing = Null
    <3> SUFFICES ASSUME c # l PROVE entry[Index(c)].trailing = Null
      BY Zenon
    <3>1. TrailingTaken(c)
      BY <2>3, <2>6, <2>8, <2>a, Zenon DEF TrailingTaken, TrailingPart
    <3> QED
      BY <2>1, <2>3, <2>7, <2>8, <3>1, Zenon DEF KeepsReferences
  <2>11. \A i \in Ring : entry'[i].leading = entry[i].leading /\ entry'[i].trailing = entry[i].trailing
    BY <2>3, Zenon DEF State, References
  <2>12. \A i \in Ring : /\ entry[i].usedLeading => entry'[i].usedLeading
                         /\ entry[i].usedTrailing => entry'[i].usedTrailing
    BY <2>0, MarksStay, Zenon
  <2>13. \A i \in Ring : /\ entry'[i].usedLeading => entry[i].usedLeading \/ entry[i].leading = Null
                         /\ entry'[i].usedTrailing => entry[i].usedTrailing \/ entry[i].trailing = Null
    BY <2>3, <2>9, <2>10, Zenon DEF State
  <2> QED
    BY <2>0, <2>2, <2>11, <2>12, <2>13, <1>ReferencesStayWhenMarking, Zenon
<1>ReferencesStayOnTake.
      ASSUME IInv, NEW w \in Worker, TakeFirst(w) \/ Take(w)
      PROVE  ReferencesAreKept'
  <2> USE <1>ReferencesStayOnTake
  <2>0. Step(w) /\ ~Publish(w) /\ ~SetBuffers(w)
    BY Zenon DEF Step, TakeFirst, Take, Publish, SetBuffers, At
  <2>1. /\ Types /\ EveryBufferHasOneTask /\ EntriesFollowTheStream /\ SearchesAreExact /\ ClaimsAreExclusive /\ UsesAreMarked
        /\ SameOccupancy /\ delimited' = delimited
        /\ \A sn \in 0..Last : KeepsReferences(sn)
        /\ \A v \in Worker : SetIsSet(v)
        /\ \A i \in Ring : UsedIsEmpty(i)
    BY <2>0, StepFrame, ReferenceParts, Zenon DEF IInv
  <2>a. PICK f, l, n, c : f = worker[w].first /\ l = worker[w].final /\ n = Taken(w) /\ c = worker[w].first + Taken(w)
    BY Zenon
  <2>2. /\ Taking(w) /\ Marked(w) = n /\ n \in Nat /\ c \in 0..Last /\ f <= c /\ c <= l
        /\ State(Index(c), entry[Index(c)].aba, entry[Index(c)].delimiter, entry[Index(c)].claimed,
                 entry[Index(c)].usedLeading, entry[Index(c)].usedTrailing)
        /\ entry'[Index(c)].leading = IF f = c THEN entry[Index(c)].leading ELSE Null
        /\ entry'[Index(c)].trailing = IF c = l THEN entry[Index(c)].trailing ELSE Null
    BY <2>1, <2>a, TakeStep, Zenon DEF References
  <2>3. f \in 0..Last /\ l \in 0..Last /\ f < l
    BY <2>1, <2>2, <2>a, TakingFacts, Zenon DEF IsTuple
  <2>4. f + n <= c /\ (f # c => f < c) /\ (c # l => c < l)
    <3>1. c = f + n
      BY <2>a, Zenon
    <3> QED
      BY <2>2, <2>3, <3>1, StreamIsNotEmpty
  <2>5. /\ Held(c)
        /\ c # l => ~entry[Index(c)].usedTrailing
        /\ f # c => ~entry[Index(c)].usedLeading
    BY <2>1, <2>2, <2>4, <2>a, UnmarkedIsHeld, Zenon
  <2>6. ~(entry[Index(c)].usedTrailing /\ entry[Index(c)].usedLeading)
    <3>1. c # l \/ f # c
      BY <2>3, StreamIsNotEmpty
    <3> QED
      BY <2>5, <3>1, Zenon
  <2>7. \A sn \in 0..Last : Index(sn) \in Ring /\ sn \in Nat /\ (Held(sn)' <=> Held(sn))
    BY <2>1, TypeFacts, SameRing, Zenon
  <2>8. \A sn \in 0..Last : KeepsReferences(sn)'
    <3> SUFFICES ASSUME NEW sn \in 0..Last, Held(sn)' PROVE KeepsReferences(sn)'
      BY Zenon DEF KeepsReferences
    <3>1. /\ LeadingTaken(sn)' <=> LeadingTaken(sn) \/ (sn = c /\ f # c)
          /\ TrailingTaken(sn)' <=> TrailingTaken(sn) \/ (sn = c /\ c # l)
      BY <2>1, <2>a, TakeUses, Zenon
    <3>2. Held(sn) /\ KeepsReferences(sn)
      BY <2>1, <2>7, Zenon
    <3>3. CASE sn = c
      <4>1. /\ entry'[Index(sn)].usedLeading = entry[Index(sn)].usedLeading
            /\ entry'[Index(sn)].usedTrailing = entry[Index(sn)].usedTrailing
        BY <2>2, <3>3, Zenon DEF State
      <4>2. ~entry'[Index(sn)].usedTrailing => entry'[Index(sn)].trailing = IF TrailingTaken(sn)' THEN Null ELSE sn
        BY <2>2, <3>1, <3>2, <3>3, <4>1, Zenon DEF KeepsReferences
      <4>3. ~entry'[Index(sn)].usedLeading => entry'[Index(sn)].leading = IF LeadingTaken(sn)' THEN Null ELSE sn
        BY <2>2, <3>1, <3>2, <3>3, <4>1, Zenon DEF KeepsReferences
      <4> QED
        BY <4>2, <4>3, Zenon DEF KeepsReferences
    <3>4. CASE sn # c
      <4>1. Index(sn) # Index(c)
        BY <2>2, <2>5, <2>7, <3>2, <3>4, SamePlace, Zenon DEF Held
      <4>2. entry'[Index(sn)] = entry[Index(sn)]
        BY <2>2, <2>7, <4>1, Zenon DEF State
      <4> QED
        BY <3>1, <3>2, <3>4, <4>2, Zenon DEF KeepsReferences
    <3> QED
      BY <3>3, <3>4, Zenon
  <2>9. \A v \in Worker : SetIsSet(v)'
    <3> SUFFICES ASSUME NEW v \in Worker, worker'[v].at = "publish"
                 PROVE  entry'[Index(worker'[v].sn)].leading = worker'[v].sn /\ entry'[Index(worker'[v].sn)].trailing = worker'[v].sn
      BY Zenon DEF SetIsSet
    <3>q. PICK q : q = worker[v].sn
      BY Zenon
    <3>1. worker[v].at = "publish" /\ worker'[v].sn = q
      BY <2>0, <3>q, <1>PublisherStays, Zenon
    <3>2. Index(q) \in Ring /\ entry[Index(q)].usedLeading /\ entry[Index(q)].usedTrailing
      BY <2>1, <3>1, <3>q, BeforePublishing, Zenon
    <3>3. entry[Index(q)].leading = q /\ entry[Index(q)].trailing = q
      BY <2>1, <3>1, <3>q, Zenon DEF SetIsSet
    <3>4. Index(q) # Index(c)
      BY <2>6, <3>2, Zenon
    <3>5. entry'[Index(q)] = entry[Index(q)]
      BY <2>2, <3>2, <3>4, Zenon DEF State
    <3> QED
      BY <3>1, <3>3, <3>5, Zenon
  <2>10. \A i \in Ring : UsedIsEmpty(i)'
    <3> SUFFICES ASSUME NEW i \in Ring, Unset(i)' PROVE UsedIsEmpty(i)'
      BY Zenon DEF UsedIsEmpty
    <3>1. Unset(i) /\ UsedIsEmpty(i)
      BY <2>0, <2>1, <1>PublisherStays, Zenon
    <3>2. CASE i = Index(c)
      BY <2>2, <3>1, <3>2, Zenon DEF State, UsedIsEmpty
    <3>3. CASE i # Index(c)
      <4>1. entry'[i] = entry[i]
        BY <2>2, <3>3, Zenon DEF State
      <4> QED
        BY <3>1, <4>1, Zenon DEF UsedIsEmpty
    <3> QED
      BY <3>2, <3>3, Zenon
  <2> QED
    BY <2>8, <2>9, <2>10, ReferencePartsThen, Zenon
<1> SUFFICES ASSUME IInv, NEW w \in Worker, Step(w)
             PROVE  ReferencesAreKept'
  BY Zenon
<1>1. ASSUME (Quiet(w) /\ ~Publish(w) /\ entry' = entry) \/ Wins(w), ~SetBuffers(w) PROVE ReferencesAreKept'
  <2>1. ~Publish(w) /\ resolved' = resolved /\ ~Taking(w)
        /\ (~Taking(w)' \/ (Taken(w)' = 0 /\ Marked(w)' = 0 /\ worker'[w].first \in 0..Last))
    BY <1>1, WinDoes, Zenon DEF Quiet
  <2>2. Types /\ OthersStay(w)
    BY StepFrame, Zenon DEF IInv
  <2>3. \A sn \in 0..Last : (LeadingTaken(sn)' <=> LeadingTaken(sn)) /\ (TrailingTaken(sn)' <=> TrailingTaken(sn))
    BY <2>1, <2>2, UsesStay, Zenon
  <2>4. \A i \in Ring : /\ entry'[i].leading = entry[i].leading /\ entry'[i].trailing = entry[i].trailing
                        /\ entry'[i].usedLeading = entry[i].usedLeading
                        /\ entry'[i].usedTrailing = entry[i].usedTrailing
    <3>1. CASE entry' = entry
      BY <3>1, Zenon
    <3>2. CASE Wins(w)
      <4>1. PICK c : LET e == entry[Index(c)]
                     IN  /\ State(Index(c), e.aba, e.delimiter, TRUE, e.usedLeading, e.usedTrailing)
                         /\ References(Index(c), e.leading, e.trailing)
        BY <3>2, WinDoes, Zenon
      <4> QED
        BY <4>1, Zenon DEF State, References
    <3> QED
      BY <1>1, <3>1, <3>2, Zenon
  <2> QED
    BY <1>1, <2>1, <2>3, <2>4, <1>ReferencesStayWhenMarking, Zenon
<1>2. Wins(w) => ~SetBuffers(w)
  BY Zenon DEF Wins, TryClaim, SetBuffers, At
<1> QED
  BY <1>1, <1>2, KindsOfSteps, <1>ReferencesStayOnSet, <1>ReferencesStayOnPublish, <1>ReferencesStayOnTake, <1>ReferencesStayOnMark, Zenon

-----------------------------------------------------------------------------
\* Who finds a tuple

LEMMA FoundStay ==
  IInv => \A w \in Worker : Step(w) /\ Types' =>
    TuplesAreFound'
<1>FinderStaysLeading.
      ASSUME IInv, NEW w \in Worker, NEW a, NEW b, IsTuple(a, b), \A c \in a..b : Held(c), Finder(w, a, b), SearchLeading(w)
      PROVE  Finder(w, a, b)'
  <2> USE <1>FinderStaysLeading
  <2>1. Types
    BY Zenon DEF IInv
  <2>2. a \in 0..Last /\ b \in 0..Last /\ a < b /\ a \in delimited /\ b \in delimited /\ 0..Last \subseteq Nat
    <3>1. a \in 0..Last /\ b \in 0..Last /\ a < b /\ a \in delimited /\ b \in delimited
      BY <2>1, Tuples, Zenon DEF IsTuple
    <3> QED
      BY <3>1, StreamIsNotEmpty
  <2>a. PICK s, d, f, c, bs, l : /\ s = worker[w].sn /\ d = worker[w].distance /\ f = worker[w].first
                                 /\ c = worker[w].sn - worker[w].distance /\ bs = worker[w].buffers /\ l = worker[w].final
    BY Zenon
  <2>3. /\ worker[w].at = "searchLeading" /\ c \in 0..Last /\ c < s /\ s \in Buffer /\ s \in 0..Last /\ d \in 1..s /\ f = 0
        /\ \/ ~Held(c) /\ Resumes(w)
           \/ Held(c) /\ c \notin delimited /\ Now(w, "searchLeading", s, d + 1, f, l, bs)
           \/ Held(c) /\ c \in delimited /\ s \in delimited /\ Now(w, "claim", s, d, c, s, bs)
           \/ Held(c) /\ c \in delimited /\ s \notin delimited /\ Now(w, "searchTrailing", s, 1, c, s, bs)
    BY <2>a, LeadingSearch, Zenon
  <2>4. c = s - d
    BY <2>a, Zenon
  <2>5. s # 0
    BY <2>1, <2>3, TypeFacts, Zenon
  <2>6. s = a \/ (a < s /\ s <= b /\ a <= c)
    <3>1. worker[w].at # "searchTrailing" /\ worker[w].at # "claim" /\ ~Taking(w)
      BY <2>3, Zenon DEF Taking
    <3> QED
      BY <2>a, <3>1, Zenon DEF Finder
  <2>7. CASE s = a
    <3>1. CASE Resumes(w)
      <4>1. Now(w, "searchTrailing", a, 1, a, l, <<>>)
        BY <2>2, <2>3, <2>5, <2>7, <2>a, <3>1, Zenon DEF Resumes
      <4>2. a + 1 <= b
        BY <2>2
      <4> QED
        BY <4>1, <4>2, Zenon DEF Now, Finder
    <3>2. CASE Now(w, "searchLeading", s, d + 1, f, l, bs)
      BY <2>7, <3>2, Zenon DEF Now, Finder
    <3>3. CASE Now(w, "claim", s, d, c, s, bs)
      <4>1. c # a
        BY <2>2, <2>3, <2>7, StreamIsNotEmpty
      <4> QED
        BY <2>7, <3>3, <4>1, Zenon DEF Now, Finder
    <3> QED
      BY <2>2, <2>3, <2>7, <3>1, <3>2, <3>3, Zenon
  <2>8. CASE a < s /\ s <= b /\ a <= c
    <3>1. c \in a..b /\ c < b
      BY <2>2, <2>3, <2>8, StreamIsNotEmpty
    <3>2. Held(c)
      BY <3>1, Zenon
    <3>3. c \in delimited => c = a
      <4>1. c # a => a < c
        BY <2>2, <2>3, <2>8, StreamIsNotEmpty
      <4> QED
        BY <3>1, <4>1, Zenon DEF IsTuple
    <3>4. CASE c \notin delimited /\ Now(w, "searchLeading", s, d + 1, f, l, bs)
      <4>1. a # c
        BY <2>2, <3>4, Zenon
      <4>2. a <= s - (d + 1)
        BY <2>2, <2>3, <2>4, <2>8, <4>1, StreamIsNotEmpty
      <4> QED
        BY <2>8, <3>4, <4>2, Zenon DEF Now, Finder
    <3>5. CASE c \in delimited /\ Now(w, "claim", s, d, c, s, bs)
      BY <3>3, <3>5, Zenon DEF Now, Finder
    <3>6. CASE c \in delimited /\ s \notin delimited /\ Now(w, "searchTrailing", s, 1, c, s, bs)
      <4>1. s # b
        BY <2>2, <3>6, Zenon
      <4>2. s + 1 <= b
        BY <2>2, <2>3, <2>8, <4>1, StreamIsNotEmpty
      <4> QED
        BY <3>3, <3>6, <4>2, Zenon DEF Now, Finder
    <3> QED
      BY <2>3, <3>2, <3>4, <3>5, <3>6, Zenon
  <2> QED
    BY <2>6, <2>7, <2>8, Zenon
<1>FinderStaysTrailing.
      ASSUME IInv, NEW w \in Worker, NEW a, NEW b, IsTuple(a, b), \A c \in a..b : Held(c), Finder(w, a, b), SearchTrailing(w)
      PROVE  Finder(w, a, b)'
  <2> USE <1>FinderStaysTrailing
  <2>1. Types
    BY Zenon DEF IInv
  <2>2. a \in 0..Last /\ b \in 0..Last /\ a < b /\ a \in delimited /\ b \in delimited
    BY <2>1, Tuples, Zenon DEF IsTuple
  <2>a. PICK s, d, f, c, bs, l : /\ s = worker[w].sn /\ d = worker[w].distance /\ f = worker[w].first
                                 /\ c = worker[w].sn + worker[w].distance /\ bs = worker[w].buffers /\ l = worker[w].final
    BY Zenon
  <2>3. /\ worker[w].at = "searchTrailing" /\ s \in 0..Last /\ d \in Nat /\ c \in Nat /\ s < c /\ f <= s
        /\ \/ (c \in 0..Last => ~Held(c)) /\ Now(w, "idle", 0, 0, 0, 0, <<>>)
           \/ c \notin delimited /\ Now(w, "searchTrailing", s, d + 1, f, l, bs)
           \/ c \in delimited /\ Now(w, "claim", s, d, f, c, bs)
    BY <2>a, TrailingSearching, Zenon
  <2>4. c = s + d
    BY <2>a, Zenon
  <2>5. f = a /\ c <= b
    <3>1. worker[w].at # "searchLeading" /\ worker[w].at # "claim" /\ ~Taking(w)
      BY <2>3, Zenon DEF Taking
    <3> QED
      BY <2>a, <3>1, Zenon DEF Finder
  <2>6. c \in a..b /\ c \in 0..Last
    BY <2>2, <2>3, <2>5, StreamIsNotEmpty
  <2>7. CASE c \notin delimited /\ Now(w, "searchTrailing", s, d + 1, f, l, bs)
    <3>1. c # b
      BY <2>2, <2>7, Zenon
    <3>2. s + (d + 1) <= b
      BY <2>2, <2>3, <2>4, <2>5, <3>1, StreamIsNotEmpty
    <3> QED
      BY <2>5, <2>7, <3>2, Zenon DEF Now, Finder
  <2>8. CASE Now(w, "claim", s, d, f, c, bs)
    BY <2>5, <2>8, Zenon DEF Now, Finder
  <2> QED
    BY <2>3, <2>6, <2>7, <2>8, Zenon
\* A worker at the first buffer of a tuple that is done with the tuple before goes on to this one.
<1>FinderResumes.
      ASSUME Types, NEW w \in Worker, NEW a, NEW b, IsTuple(a, b), worker[w].sn = a, worker[w].first # a, Resumes(w)
      PROVE  Finder(w, a, b)'
  <2> USE <1>FinderResumes
  <2>1. a \in 0..Last /\ b \in 0..Last /\ a < b /\ a \in delimited
    BY Tuples, Zenon DEF IsTuple
  <2>2. worker'[w].at = "searchTrailing" /\ worker'[w].sn = a /\ worker'[w].distance = 1 /\ worker'[w].first = a
    BY <2>1, Zenon DEF Resumes, Now
  <2>3. a + 1 <= b
    BY <2>1, StreamIsNotEmpty
  <2> QED
    BY <2>2, <2>3, Zenon DEF Finder
<1>FinderStaysTaking.
      ASSUME IInv, NEW w \in Worker, NEW a, NEW b, IsTuple(a, b), Finder(w, a, b),
             TakeFirst(w) \/ Take(w) \/ MarkFirst(w) \/ Mark(w)
      PROVE  Finder(w, a, b)'
  <2> USE <1>FinderStaysTaking
  <2>1. Types /\ SearchesAreExact /\ ClaimsAreExclusive
    BY Zenon DEF IInv
  <2>2. Taking(w)
    BY Zenon DEF TakeFirst, Take, MarkFirst, Mark, At, Taking
  <2>f. PICK f : f = worker[w].first
    BY Zenon
  <2>3. worker[w].sn = a /\ f # a
    <3>1. worker[w].at # "searchLeading" /\ worker[w].at # "claim" /\ worker[w].at # "searchTrailing"
      BY <2>2, Zenon DEF Taking
    <3> QED
      BY <2>f, <3>1, Zenon DEF Finder
  <2>4. CASE TakeFirst(w) \/ Take(w)
    <3>1. worker'[w].sn = a /\ worker'[w].first = f /\ Taking(w)'
      <4>1. worker'[w].sn = a /\ worker'[w].at \in {"markFirst", "mark"} /\ Progress(w, Taken(w) + 1, Taken(w))
        BY <2>1, <2>3, <2>4, TakeStep, Zenon
      <4>2. Taking(w)'
        BY <4>1, Zenon DEF Taking
      <4> QED
        BY <2>f, <4>1, <4>2, Zenon DEF Progress
    <3> QED
      BY <2>3, <3>1, Zenon DEF Finder
  <2>5. CASE MarkFirst(w) \/ Mark(w)
    <3>1. Resumes(w) \/ (Taking(w)' /\ worker'[w].sn = a /\ worker'[w].first = f)
      BY <2>1, <2>3, <2>5, <2>f, MarkStep, Zenon DEF Now
    <3>2. CASE Resumes(w)
      BY <2>1, <2>3, <2>f, <3>2, <1>FinderResumes, Zenon
    <3> QED
      BY <2>3, <3>1, <3>2, Zenon DEF Finder
  <2> QED
    BY <2>4, <2>5, Zenon
<1>FinderStaysClaiming.
      ASSUME IInv, NEW w \in Worker, NEW a, NEW b, IsTuple(a, b), Finder(w, a, b), TryClaim(w),
             Held(a), ~entry[Index(a)].claimed, ~entry'[Index(a)].claimed
      PROVE  Finder(w, a, b)'
  <2> USE <1>FinderStaysClaiming
  <2>1. Types
    BY Zenon DEF IInv
  <2>f. PICK f : f = worker[w].first
    BY Zenon
  <2>2. worker[w].at = "claim"
    BY Zenon DEF TryClaim, At
  <2>3. f = a \/ (worker[w].sn = a /\ f # a)
    <3>1. worker[w].at # "searchLeading" /\ worker[w].at # "searchTrailing"
      BY <2>2
    <3> QED
      BY <2>f, <3>1, Zenon DEF Finder
  <2>4. CASE Claimable(worker[w].first)
    <3>1. /\ Taking(w)' /\ worker'[w].sn = worker[w].sn /\ worker'[w].first = f
          /\ entry'[Index(f)].claimed
      BY <2>4, <2>f, WinDoes, Zenon DEF Wins, Now, State
    <3>2. worker[w].sn = a /\ f # a
      BY <2>3, <3>1, Zenon
    <3> QED
      BY <3>1, <3>2, Zenon DEF Finder
  <2>5. CASE ~Claimable(worker[w].first)
    <3>1. f # a
      BY <2>5, <2>f, Zenon DEF Claimable, Held
    <3>2. Resumes(w)
      BY <2>1, <2>5, TryClaimDoes, Zenon
    <3> QED
      BY <2>1, <2>3, <2>f, <3>1, <3>2, <1>FinderResumes, Zenon
  <2> QED
    BY <2>4, <2>5, Zenon
<1>ClaimedStays.
      ASSUME IInv, NEW w \in Worker, Step(w), ~Publish(w), NEW i \in Ring, ~entry'[i].claimed
      PROVE  ~entry[i].claimed
  <2> USE <1>ClaimedStays
  <2>1. Types /\ SearchesAreExact /\ ClaimsAreExclusive
    BY Zenon DEF IInv
  <2>2. CASE Quiet(w)
    BY <2>2, Zenon DEF Quiet
  <2>3. CASE Wins(w)
    BY <2>3, WinDoes, Zenon DEF State
  <2>4. CASE TakeFirst(w) \/ Take(w)
    BY <2>1, <2>4, TakeStep, Zenon DEF State
  <2>5. CASE MarkFirst(w) \/ Mark(w)
    BY <2>1, <2>5, MarkStep, Zenon DEF State
  <2> QED
    BY <2>2, <2>3, <2>4, <2>5, KindsOfSteps, Zenon
<1> SUFFICES ASSUME IInv, NEW w \in Worker, Step(w), Types'
             PROVE  TuplesAreFound'
  BY Zenon
<1>1. /\ Types /\ EveryBufferHasOneTask /\ EntriesFollowTheStream /\ SearchesAreExact /\ ClaimsAreExclusive /\ UsesAreMarked
      /\ ClaimedIsWon /\ OthersStay(w) /\ delimited' = delimited /\ (Publish(w) \/ SameOccupancy)
      /\ \A a, b \in 0..Last : IsTuple(a, b) /\ Sought(a, b) => \E v \in Worker : Finder(v, a, b)
  BY StepFrame, ClaimParts, FoundParts, Zenon DEF IInv
<1>2. ASSUME NEW a \in 0..Last, NEW b \in 0..Last, IsTuple(a, b), Sought(a, b)' PROVE \E v \in Worker : Finder(v, a, b)'
  <2>1. a \in delimited /\ a < b /\ a \in Nat /\ b \in Nat /\ a \in a..b /\ a..b \subseteq 0..Last /\ Index(a) \in Ring
    <3>1. a \in delimited /\ a < b /\ Index(a) \in Ring /\ a \in Nat /\ b \in Nat
      BY <1>1, <1>2, TypeFacts, Zenon DEF IsTuple
    <3> QED
      BY <3>1, StreamIsNotEmpty
  <2>2. CASE Publish(w) /\ worker[w].sn \in a..b
    <3>p. PICK p : p = worker[w].sn
      BY Zenon
    <3>1. worker'[w].at = "searchLeading" /\ worker'[w].sn = p /\ worker'[w].distance = 1
      BY <1>1, <2>2, <3>p, PublishDoes, Zenon DEF Now
    <3>2. p = a \/ (a < p /\ p <= b /\ a <= p - 1)
      BY <2>1, <2>2, <3>p
    <3> QED
      BY <3>1, <3>2, Zenon DEF Finder
  <2>3. CASE ~(Publish(w) /\ worker[w].sn \in a..b)
    <3>1. Sought(a, b)
      <4>1. CASE Publish(w)
        <5>p. PICK p : p = worker[w].sn
          BY Zenon
        <5>1. /\ \A sn \in 0..Last : Published(sn)' <=> Published(sn) \/ sn = p
              /\ \A sn \in 0..Last : Held(sn)' <=> (Held(sn) /\ Index(sn) # Index(p)) \/ sn = p
              /\ \A sn \in 0..Last : Index(sn) # Index(p) => entry'[Index(sn)] = entry[Index(sn)]
          BY <1>1, <4>1, <5>p, Publishing, Zenon
        <5>2. p \notin a..b
          BY <2>3, <4>1, <5>p, Zenon
        <5> QED
          BY <1>2, <2>1, <5>1, <5>2, Zenon DEF Sought
      <4>2. CASE ~Publish(w)
        <5>1. \A sn \in 0..Last : (Published(sn)' <=> Published(sn)) /\ (Held(sn)' <=> Held(sn))
          BY <1>1, <4>2, SameRing, Zenon
        <5>2. ~entry[Index(a)].claimed
          BY <1>2, <2>1, <4>2, <1>ClaimedStays, Zenon DEF Sought
        <5> QED
          BY <1>2, <2>1, <5>1, <5>2, Zenon DEF Sought
      <4> QED
        BY <4>1, <4>2, Zenon
    <3>2. PICK v \in Worker : Finder(v, a, b)
      BY <1>1, <1>2, <3>1, Zenon
    <3>3. CASE v # w
      <4>1. worker'[v] = worker[v]
        BY <1>1, <3>3, Zenon DEF OthersStay
      <4> QED
        BY <3>2, <4>1, Zenon DEF Finder, Taking
    <3>4. CASE v = w
      <4>1. Nobody(a)
        BY <1>1, <2>1, <3>1, Zenon DEF ClaimedIsWon, Sought
      <4>2. \A c \in a..b : a <= c /\ c <= b
        BY <2>1
      <4>3. \A c \in a..b : Held(c)
        BY <1>1, <1>2, <2>1, <3>1, <4>1, <4>2, UnclaimedIsHeld, Zenon DEF Sought
      <4>4. worker[w].at \in {"searchLeading", "searchTrailing", "claim"} \/ Taking(w)
        BY <3>2, <3>4, Zenon DEF Finder
      <4>5. /\ ~Publish(w) /\ ~SetBuffers(w) /\ \A sn : ~BeginBuffer(w, sn)
        BY <4>4, Zenon DEF Publish, SetBuffers, BeginBuffer, At, Taking
      <4>6. Finder(w, a, b)'
        <5>1. CASE SearchLeading(w)
          BY <1>2, <3>2, <3>4, <4>3, <5>1, <1>FinderStaysLeading, Zenon
        <5>2. CASE SearchTrailing(w)
          BY <1>2, <3>2, <3>4, <4>3, <5>2, <1>FinderStaysTrailing, Zenon
        <5>3. CASE TryClaim(w)
          BY <1>2, <3>1, <3>2, <3>4, <5>3, <1>FinderStaysClaiming, Zenon DEF Sought
        <5>4. CASE TakeFirst(w) \/ Take(w) \/ MarkFirst(w) \/ Mark(w)
          BY <1>2, <3>2, <3>4, <5>4, <1>FinderStaysTaking, Zenon
        <5> QED
          BY <4>5, <5>1, <5>2, <5>3, <5>4, Zenon DEF Step
      <4> QED
        BY <4>6, Zenon
    <3> QED
      BY <3>3, <3>4, Zenon
  <2> QED
    BY <2>2, <2>3, Zenon
<1>3. \A a, b : IsTuple(a, b)' <=> IsTuple(a, b)
  BY <1>1, Zenon DEF IsTuple
<1>4. (Types => (TuplesAreFound <=> \A a, b \in 0..Last : IsTuple(a, b) /\ Sought(a, b) => \E v \in Worker : Finder(v, a, b)))'
  BY FoundParts, PTL
<1> QED
  BY <1>2, <1>3, <1>4, Zenon

-----------------------------------------------------------------------------
\* The theorems

LEMMA StepKeepsIInv ==
  ASSUME IInv, NEW w \in Worker, Step(w)
  PROVE  IInv'
  BY TypesStay, TasksStay, EntriesStay, SearchesStay, ClaimsStay, UsesStayMarked, ReferencesStay, FoundStay, Zenon DEF IInv

\* In every order of the buffers and of the workers' steps, what the ring says of a buffer is
\* what was published and what was used of it, searches have seen what they rely on, and a tuple
\* all of whose buffers are published is claimed, or is about to be found by one of the workers.
THEOREM Invariance == Spec => []IInv
<1>1. Init => IInv
  BY InitIInv, Zenon
<1>2. IInv /\ [Next]_vars => IInv'
  BY StepKeepsIInv, StutterKeepsIInv, Zenon DEF Next
<1> QED
  BY <1>1, <1>2, PTL DEF Spec

INSTANCE WellFoundedInduction
INSTANCE NaturalsInduction

LEMMA NaturalsHaveMinima == Minimum
<1> SUFFICES ASSUME NEW S \in SUBSET Nat, S # {} PROVE \E x \in S : \A y \in S : x <= y
  BY Zenon DEF Minimum
<1>1. PICK x \in S : \A y \in S : ~(<<y, x>> \in OpToRel(<, Nat))
  BY NatLessThanWellFounded, WFMin, Zenon
<1>2. ASSUME NEW y \in S PROVE ~(y < x)
  <2>1. <<y, x>> \in Nat \X Nat /\ <<y, x>>[1] = y /\ <<y, x>>[2] = x
    BY Zenon
  <2>2. y < x => <<y, x>> \in OpToRel(<, Nat)
    BY <2>1, Zenon DEF OpToRel
  <2> QED
    BY <1>1, <2>2, Zenon
<1>3. \A y \in S : x <= y
  BY <1>2
<1> QED
  BY <1>3, Zenon

\* A tuple that is handed to a worker is a tuple of the stream and comes with all of its buffers,
\* in order, and no other worker gets it: tryClaimSpanningTuple has one winner, and no entry the
\* winner still needs is overwritten by the buffer one round later.
THEOREM TuplesAreResolvedOnceAndWhole == Spec => []EachTupleOnceAndWhole
<1>1. IInv => EachTupleOnceAndWhole
  BY Consequences, NaturalsHaveMinima, Zenon
<1> QED
  BY <1>1, Invariance, PTL

\* Searches that overlap leave no tuple behind: of the workers that publish the buffers of a tuple,
\* the one whose buffer completes it finds all of it.
THEOREM TuplesAreNotMissed == Spec => []NoTupleIsMissed
<1>1. IInv => NoTupleIsMissed
  BY Consequences, NaturalsHaveMinima, Zenon
<1> QED
  BY <1>1, Invariance, PTL

\* The assertions of the ring hold for any number of workers and any stream: the types; a claimed
\* buffer's references are there when they are taken (the INVARIANTs of claimNoDelimiterBuffer and
\* claimLeadingBuffer); and validate() accepts the ring that a finished stream leaves.
THEOREM TheRingIsSound == Spec => []RingIsSound
<1>1. IInv => RingIsSound
  BY Consequences, NaturalsHaveMinima, Zenon
<1> QED
  BY <1>1, Invariance, PTL
=============================================================================
