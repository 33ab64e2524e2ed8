--------------------------- MODULE ReadAlongProofs --------------------------
(***************************************************************************)
(* Reading along is right for every document, every way of cutting it into *)
(* parts and words, every clip's timings: who waits for the text is        *)
(* answered, what is highlighted is what is heard, and a jump reaches the  *)
(* word that was clicked, or one with its words around it.                 *)
(***************************************************************************)
EXTENDS ReadAlong, TextProofs

-----------------------------------------------------------------------------
(* Putting the timings in order *)

WordTiming == [word : Nat, start : Nat, end : Nat]

LEMMA EntryFields ==
    ASSUME NEW raw \in Seq(WordTiming), NEW k \in DOMAIN raw
    PROVE  /\ k \in Nat /\ k >= 1 /\ k <= Len(raw)
           /\ raw[k].word \in Nat /\ raw[k].start \in Nat /\ raw[k].end \in Nat
<1>1. raw[k] \in WordTiming
  OBVIOUS
<1> QED BY <1>1 DEF WordTiming

(* How many go before the k-th. *)
Rank(raw, k) == Cardinality({j \in DOMAIN raw : Sooner(raw, j, k)})

(* Sooner is a strict total order. *)
LEMMA SoonerOrders ==
    ASSUME NEW raw \in Seq(WordTiming), NEW i \in DOMAIN raw,
           NEW j \in DOMAIN raw, NEW k \in DOMAIN raw
    PROVE  /\ ~Sooner(raw, i, i)
           /\ Sooner(raw, i, j) /\ Sooner(raw, j, k) => Sooner(raw, i, k)
           /\ i # j => Sooner(raw, i, j) \/ Sooner(raw, j, i)
<1>1. /\ i \in Nat /\ raw[i].word \in Nat /\ raw[i].start \in Nat
      /\ j \in Nat /\ raw[j].word \in Nat /\ raw[j].start \in Nat
      /\ k \in Nat /\ raw[k].word \in Nat /\ raw[k].start \in Nat
  BY EntryFields
<1> QED BY <1>1 DEF Sooner

LEMMA RankBounds ==
    ASSUME NEW raw \in Seq(WordTiming), NEW k \in DOMAIN raw
    PROVE  Rank(raw, k) \in 0 .. Len(raw) - 1
<1> DEFINE Below == {j \in DOMAIN raw : Sooner(raw, j, k)}
<1> DEFINE Others == (1 .. Len(raw)) \ {k}
<1>1. IsFiniteSet(1 .. Len(raw)) /\ Cardinality(1 .. Len(raw)) = Len(raw)
  BY FS_Interval
<1>2. IsFiniteSet(Others) /\ Cardinality(Others) = Len(raw) - 1
  <2>1. k \in 1 .. Len(raw)
    OBVIOUS
  <2> DEFINE All == 1 .. Len(raw)
  <2> HIDE DEF All
  <2>2. /\ IsFiniteSet(All \ {k})
        /\ Cardinality(All \ {k}) = IF k \in All THEN Cardinality(All) - 1 ELSE Cardinality(All)
    <3>1. IsFiniteSet(All)
      BY <1>1 DEF All
    <3> QED BY <3>1, FS_RemoveElement
  <2> QED BY <1>1, <2>1, <2>2 DEF All
<1>3. Below \in SUBSET Others
  BY SoonerOrders
<1> HIDE DEF Below, Others
<1>4. IsFiniteSet(Below) /\ Cardinality(Below) <= Cardinality(Others)
  BY <1>2, <1>3, FS_Subset
<1>5. Cardinality(Below) \in Nat
  BY <1>4, FS_CardinalityType
<1>6. Rank(raw, k) = Cardinality(Below)
  BY DEF Rank, Below
<1> QED BY <1>2, <1>4, <1>5, <1>6

LEMMA RankRises ==
    ASSUME NEW raw \in Seq(WordTiming), NEW j \in DOMAIN raw, NEW k \in DOMAIN raw,
           Sooner(raw, j, k)
    PROVE  Rank(raw, j) < Rank(raw, k)
<1> DEFINE Below(i) == {l \in DOMAIN raw : Sooner(raw, l, i)}
<1>1. IsFiniteSet(1 .. Len(raw))
  BY FS_Interval
<1>2. Below(k) \in SUBSET (1 .. Len(raw))
  OBVIOUS
<1>3. Below(j) \in SUBSET Below(k)
  BY SoonerOrders
<1>4. j \in Below(k) /\ j \notin Below(j)
  BY SoonerOrders
<1>5. Rank(raw, j) = Cardinality(Below(j)) /\ Rank(raw, k) = Cardinality(Below(k))
  BY DEF Rank
<1> HIDE DEF Below
<1>6. IsFiniteSet(Below(k))
  BY <1>1, <1>2, FS_Subset
<1>7. Cardinality(Below(j)) <= Cardinality(Below(k)) /\ Cardinality(Below(j)) # Cardinality(Below(k))
  BY <1>3, <1>4, <1>6, FS_Subset
<1>8. Rank(raw, j) \in Nat /\ Rank(raw, k) \in Nat
  BY RankBounds
<1> QED BY <1>5, <1>7, <1>8

(* The ranks are all different, hence all taken. *)
LEMMA RanksDiffer ==
    ASSUME NEW raw \in Seq(WordTiming), NEW j \in DOMAIN raw, NEW k \in DOMAIN raw,
           Rank(raw, j) = Rank(raw, k)
    PROVE  j = k
<1>1. Rank(raw, j) \in Nat /\ Rank(raw, k) \in Nat
  BY RankBounds
<1>2. ~Sooner(raw, j, k) /\ ~Sooner(raw, k, j)
  BY <1>1, RankRises
<1> QED BY <1>2, SoonerOrders

LEMMA RanksTaken ==
    ASSUME NEW raw \in Seq(WordTiming), NEW n \in DOMAIN raw
    PROVE  \E k \in DOMAIN raw : Rank(raw, k) = n - 1
<1> DEFINE Ranks == 0 .. Len(raw) - 1
<1> DEFINE f == [k \in DOMAIN raw |-> Rank(raw, k)]
<1>1. f \in [DOMAIN raw -> Ranks]
  BY RankBounds
<1>2. \A j, k \in DOMAIN raw : f[j] = f[k] => j = k
  BY RanksDiffer
<1>3. f \in Injection(DOMAIN raw, Ranks)
  BY <1>1, <1>2 DEF Injection, IsInjective
<1>4. IsFiniteSet(Ranks) /\ Cardinality(Ranks) = Len(raw)
  <2>1. Len(raw) \in Nat /\ Len(raw) - 1 \in Int
    OBVIOUS
  <2>2. /\ IsFiniteSet(0 .. Len(raw) - 1)
        /\ Cardinality(0 .. Len(raw) - 1) = IF 0 > Len(raw) - 1 THEN 0 ELSE (Len(raw) - 1) - 0 + 1
    <3> DEFINE b == Len(raw) - 1
    <3>1. b \in Int
      BY <2>1
    <3> HIDE DEF b
    <3>2. /\ IsFiniteSet(0 .. b)
          /\ Cardinality(0 .. b) = IF 0 > b THEN 0 ELSE b - 0 + 1
      BY <3>1, FS_Interval
    <3> QED BY <3>2 DEF b
  <2> QED BY <2>1, <2>2
<1>5. Cardinality(DOMAIN raw) = Len(raw)
  BY FS_Interval
<1> HIDE DEF f, Ranks
<1>6. f \in Surjection(DOMAIN raw, Ranks)
  BY <1>3, <1>4, <1>5, FS_Injection
<1>7. n - 1 \in Ranks
  BY DEF Ranks
<1>8. PICK k \in DOMAIN raw : f[k] = n - 1
  BY <1>6, <1>7 DEF Surjection
<1> QED BY <1>8 DEF f

LEMMA NthRanks ==
    ASSUME NEW raw \in Seq(WordTiming), NEW n \in DOMAIN raw
    PROVE  Nth(raw, n) \in DOMAIN raw /\ Rank(raw, Nth(raw, n)) = n - 1
  BY RanksTaken DEF Nth, Rank

LEMMA NthRises ==
    ASSUME NEW raw \in Seq(WordTiming), NEW m \in DOMAIN raw, NEW n \in DOMAIN raw, m < n
    PROVE  Sooner(raw, Nth(raw, m), Nth(raw, n))
<1> DEFINE j == Nth(raw, m)
<1> DEFINE k == Nth(raw, n)
<1>1. j \in DOMAIN raw /\ k \in DOMAIN raw /\ Rank(raw, j) = m - 1 /\ Rank(raw, k) = n - 1
  BY NthRanks
<1> HIDE DEF j, k
<1>2. Rank(raw, j) < Rank(raw, k)
  BY <1>1
<1>3. j # k /\ ~Sooner(raw, k, j)
  BY <1>1, <1>2, RankRises
<1>4. Sooner(raw, j, k)
  BY <1>1, <1>3, SoonerOrders
<1> QED BY <1>4 DEF j, k

LEMMA NthTaken ==
    ASSUME NEW raw \in Seq(WordTiming), NEW k \in DOMAIN raw
    PROVE  \E n \in DOMAIN raw : Nth(raw, n) = k
<1> DEFINE n == Rank(raw, k) + 1
<1>1. n \in DOMAIN raw
  BY RankBounds
<1>2. Nth(raw, n) \in DOMAIN raw /\ Rank(raw, Nth(raw, n)) = n - 1
  BY <1>1, NthRanks
<1>3. Rank(raw, k) \in Nat
  BY RankBounds
<1>4. Nth(raw, n) = k
  BY <1>2, <1>3, RanksDiffer
<1> QED BY <1>1, <1>4


(* An entry may be made to last, and is otherwise as it was. *)
LEMMA LastingTimes ==
    ASSUME NEW e \in WordTiming
    PROVE  /\ Lasting(e) \in WordTiming
           /\ Lasting(e).word = e.word /\ Lasting(e).start = e.start
           /\ Lasting(e).end = Larger(e.start + 1, e.end)
  BY DEF Lasting, WordTiming, Larger

LEMMA NthPermutes ==
    ASSUME NEW raw \in Seq(WordTiming)
    PROVE  [n \in DOMAIN raw |-> Nth(raw, n)] \in Bijection(DOMAIN raw, DOMAIN raw)
<1> DEFINE order == [n \in DOMAIN raw |-> Nth(raw, n)]
<1>1. order \in [DOMAIN raw -> DOMAIN raw]
  BY NthRanks
<1>2. ASSUME NEW m \in DOMAIN raw, NEW n \in DOMAIN raw, m # n
      PROVE  order[m] # order[n]
  <2>1. Nth(raw, m) \in DOMAIN raw /\ Nth(raw, n) \in DOMAIN raw
    BY NthRanks
  <2>2. m < n \/ n < m
    BY <1>2, EntryFields
  <2>3. Sooner(raw, Nth(raw, m), Nth(raw, n)) \/ Sooner(raw, Nth(raw, n), Nth(raw, m))
    BY <2>2, NthRises
  <2>4. Nth(raw, m) # Nth(raw, n)
    BY <2>1, <2>3, SoonerOrders
  <2> QED BY <2>4
<1>3. \A k \in DOMAIN raw : \E n \in DOMAIN raw : order[n] = k
  BY NthTaken
<1> HIDE DEF order
<1>4. order \in Injection(DOMAIN raw, DOMAIN raw)
  BY <1>1, <1>2 DEF Injection, IsInjective
<1>5. order \in Surjection(DOMAIN raw, DOMAIN raw)
  BY <1>1, <1>3 DEF Surjection
<1> QED BY <1>4, <1>5 DEF Bijection, order

(* What the sort keeps and makes: every entry once, none of no length, in    *)
(* the order of their words, and of their starts where the words agree       *)
(* (normalizeTimeline).                                                      *)
THEOREM NormalizedTimeline ==
    ASSUME NEW raw \in Seq(WordTiming)
    PROVE  LET entries == NormalizeTimeline(raw) IN
           /\ entries \in Seq(WordTiming) /\ Len(entries) = Len(raw)
           /\ \A n \in DOMAIN entries : entries[n].start < entries[n].end
           /\ \E order \in Bijection(DOMAIN raw, DOMAIN raw) :
                 \A n \in DOMAIN entries : entries[n] = Lasting(raw[order[n]])
           /\ \A m, n \in DOMAIN entries : m < n =>
                 /\ entries[m].word <= entries[n].word
                 /\ entries[m].word = entries[n].word => entries[m].start <= entries[n].start
<1> DEFINE entries == NormalizeTimeline(raw)
<1>1. DOMAIN entries = 1 .. Len(raw) /\ DOMAIN raw = 1 .. Len(raw)
  BY DEF NormalizeTimeline
<1>2. ASSUME NEW n \in DOMAIN raw
      PROVE  /\ entries[n] = Lasting(raw[Nth(raw, n)])
             /\ entries[n] \in WordTiming
             /\ entries[n].word = raw[Nth(raw, n)].word
             /\ entries[n].start = raw[Nth(raw, n)].start
             /\ entries[n].end = Larger(raw[Nth(raw, n)].start + 1, raw[Nth(raw, n)].end)
  <2>1. Nth(raw, n) \in DOMAIN raw
    BY NthRanks
  <2>2. raw[Nth(raw, n)] \in WordTiming
    BY <2>1
  <2>3. entries[n] = Lasting(raw[Nth(raw, n)])
    BY DEF NormalizeTimeline
  <2> QED BY <2>2, <2>3, LastingTimes
<1>3. entries \in [1 .. Len(raw) -> WordTiming]
  BY <1>1, <1>2 DEF NormalizeTimeline
<1>4. entries \in Seq(WordTiming) /\ Len(entries) = Len(raw)
  BY <1>3
<1>5. ASSUME NEW n \in DOMAIN raw
      PROVE  entries[n].start < entries[n].end
  <2>1. raw[Nth(raw, n)].start \in Nat /\ raw[Nth(raw, n)].end \in Nat
    BY NthRanks, EntryFields
  <2> QED BY <1>2, <2>1 DEF Larger
<1>6. \E order \in Bijection(DOMAIN raw, DOMAIN raw) :
         \A n \in DOMAIN raw : entries[n] = Lasting(raw[order[n]])
  <2> DEFINE order == [n \in DOMAIN raw |-> Nth(raw, n)]
  <2>1. order \in Bijection(DOMAIN raw, DOMAIN raw)
    BY NthPermutes
  <2>2. \A n \in DOMAIN raw : order[n] = Nth(raw, n)
    OBVIOUS
  <2> HIDE DEF order, entries
  <2>3. \A n \in DOMAIN raw : entries[n] = Lasting(raw[order[n]])
    BY <1>2, <2>2
  <2> QED BY <2>1, <2>3
<1>7. ASSUME NEW m \in DOMAIN raw, NEW n \in DOMAIN raw, m < n
      PROVE  /\ entries[m].word <= entries[n].word
             /\ entries[m].word = entries[n].word => entries[m].start <= entries[n].start
  <2> DEFINE j == Nth(raw, m)
  <2> DEFINE k == Nth(raw, n)
  <2>1. j \in DOMAIN raw /\ k \in DOMAIN raw
    BY NthRanks
  <2>2. Sooner(raw, j, k)
    BY <1>7, NthRises
  <2>3. /\ entries[m].word = raw[j].word /\ entries[m].start = raw[j].start
        /\ entries[n].word = raw[k].word /\ entries[n].start = raw[k].start
    BY <1>2
  <2>4. /\ raw[j].word \in Nat /\ raw[k].word \in Nat
        /\ raw[j].start \in Nat /\ raw[k].start \in Nat
    BY <2>1, EntryFields
  <2> HIDE DEF j, k, entries
  <2> QED BY <2>2, <2>3, <2>4 DEF Sooner
<1> HIDE DEF entries
<1>8. \E order \in Bijection(DOMAIN raw, DOMAIN raw) :
         \A n \in DOMAIN entries : entries[n] = Lasting(raw[order[n]])
  BY <1>1, <1>6
<1>9. \A n \in DOMAIN entries : entries[n].start < entries[n].end
  BY <1>1, <1>5
<1>10. \A m, n \in DOMAIN entries : m < n =>
          /\ entries[m].word <= entries[n].word
          /\ entries[m].word = entries[n].word => entries[m].start <= entries[n].start
  BY <1>1, <1>7
<1> QED BY <1>4, <1>8, <1>9, <1>10 DEF entries

-----------------------------------------------------------------------------
(* The binary search *)

(* Starts never fall from one entry to the next. *)
StartsRise(entries) == \A m, n \in DOMAIN entries : m < n => entries[m].start <= entries[n].start

(* So the first c entries have started, and no other. *)
SplitsAt(entries, ms, c) ==
    \A n \in DOMAIN entries : entries[n].start <= ms <=> n <= c

LEMMA SomeSplit ==
    ASSUME NEW entries \in Seq(WordTiming), StartsRise(entries), NEW ms \in Nat
    PROVE  \E c \in 0 .. Len(entries) : SplitsAt(entries, ms, c)
<1> DEFINE Late == {c \in 0 .. Len(entries) :
                       \A n \in DOMAIN entries : c < n => ms < entries[n].start}
<1>1. Len(entries) \in Late /\ Late \subseteq Nat
  OBVIOUS
<1>2. PICK c \in Late : \A d \in Late : c <= d
  BY <1>1, LeastNat
<1>3. \A n \in DOMAIN entries : n \in Nat /\ entries[n].start \in Nat
  BY EntryFields
<1>4. ASSUME NEW n \in DOMAIN entries, n <= c
      PROVE  entries[n].start <= ms
  <2>1. c \in DOMAIN entries /\ c - 1 \in 0 .. Len(entries)
    BY <1>4
  <2>2. c - 1 \notin Late
    BY <1>2, <2>1
  <2>3. PICK m \in DOMAIN entries : c - 1 < m /\ ~(ms < entries[m].start)
    BY <2>1, <2>2
  <2>4. ~(c < m)
    BY <2>3
  <2>5. m = c
    BY <2>3, <2>4
  <2>6. entries[n].start <= entries[c].start
    BY <1>3, <1>4, <2>1 DEF StartsRise
  <2>7. entries[n].start \in Nat /\ entries[c].start \in Nat
    BY <1>3, <2>1
  <2> QED BY <2>3, <2>5, <2>6, <2>7
<1>5. ASSUME NEW n \in DOMAIN entries, ~(n <= c)
      PROVE  ~(entries[n].start <= ms)
  <2>1. ms < entries[n].start
    BY <1>5
  <2> QED BY <1>3, <2>1
<1> QED BY <1>4, <1>5 DEF SplitsAt

Least(m, n) == IF m < n THEN m ELSE n

(* The search of an interval of the timeline ends at the split c, or at the  *)
(* end of the interval that is nearer to it.                                 *)
EndsAt(c, low, high) == IF low >= high THEN low ELSE Larger(low, Least(c, high))

LEMMA HalvingKeepsSplit ==
    ASSUME NEW n \in Nat, NEW c \in 0 .. n, NEW low \in 0 .. n, NEW high \in 0 .. n,
           NEW middle \in low .. high - 1
    PROVE  /\ middle + 1 \in 1 .. n
           /\ middle + 1 <= c => EndsAt(c, low, high) = EndsAt(c, middle + 1, high)
           /\ ~(middle + 1 <= c) => EndsAt(c, low, high) = EndsAt(c, low, middle)
  BY DEF EndsAt, Larger, Least

LEMMA SearchFinds ==
    ASSUME NEW entries \in Seq(WordTiming), NEW ms \in Nat,
           NEW c \in 0 .. Len(entries), SplitsAt(entries, ms, c)
    PROVE  StartedBy(entries, ms) = c
<1> DEFINE N == 0 .. Len(entries)
<1> DEFINE Halve(f, low, high) ==
       LET middle == (low + high) \div 2
       IN  IF low >= high THEN low
           ELSE IF entries[middle + 1].start <= ms THEN f[<<middle + 1, high>>]
           ELSE f[<<low, middle>>]
<1> DEFINE At(low, high) == EndsAt(c, low, high)
<1> DEFINE g == [span \in N \X N |-> At(span[1], span[2])]
<1>1. ASSUME NEW low \in N, NEW high \in N, low < high
      PROVE  LET middle == (low + high) \div 2 IN
             /\ middle \in low .. high - 1 /\ middle + 1 \in N /\ middle \in N
             /\ entries[middle + 1].start <= ms => At(low, high) = At(middle + 1, high)
             /\ ~(entries[middle + 1].start <= ms) => At(low, high) = At(low, middle)
  <2> DEFINE middle == (low + high) \div 2
  <2>1. /\ middle \in low .. high - 1 /\ middle + 1 \in 1 .. Len(entries)
        /\ middle + 1 <= c => At(low, high) = At(middle + 1, high)
        /\ ~(middle + 1 <= c) => At(low, high) = At(low, middle)
    <3>1. middle \in low .. high - 1
      BY <1>1
    <3> HIDE DEF middle
    <3>2. Len(entries) \in Nat
      OBVIOUS
    <3> QED BY <3>1, <3>2, HalvingKeepsSplit
  <2> HIDE DEF middle, At
  <2>2. middle + 1 \in DOMAIN entries
    BY <2>1
  <2>3. entries[middle + 1].start <= ms <=> middle + 1 <= c
    BY <2>2 DEF SplitsAt
  <2>4. middle + 1 \in N /\ middle \in N
    BY <2>1
  <2> QED BY <2>1, <2>3, <2>4 DEF middle
<1>2. ASSUME NEW low \in N, NEW high \in N
      PROVE  g[<<low, high>>] = Halve(g, low, high)
  <2> HIDE DEF At
  <2>1. \A l, h \in N : g[<<l, h>>] = At(l, h)
    OBVIOUS
  <2> HIDE DEF g
  <2>2. CASE low >= high
    BY <2>1, <2>2 DEF At, EndsAt
  <2>3. CASE low < high
    <3> DEFINE middle == (low + high) \div 2
    <3>1. /\ middle + 1 \in N /\ middle \in N
          /\ entries[middle + 1].start <= ms => At(low, high) = At(middle + 1, high)
          /\ ~(entries[middle + 1].start <= ms) => At(low, high) = At(low, middle)
      BY <1>1, <2>3
    <3>2. ~(low >= high)
      BY <2>3
    <3> HIDE DEF middle
    <3>3. /\ g[<<low, high>>] = At(low, high) /\ g[<<middle + 1, high>>] = At(middle + 1, high)
          /\ g[<<low, middle>>] = At(low, middle)
      BY <2>1, <3>1
    <3>4. g[<<low, high>>] = IF entries[middle + 1].start <= ms THEN g[<<middle + 1, high>>]
                             ELSE g[<<low, middle>>]
      BY <3>1, <3>3
    <3> QED BY <3>2, <3>4 DEF middle
  <2> QED BY <2>2, <2>3
<1>3. g = [span \in N \X N |-> Halve(g, span[1], span[2])]
  <2> HIDE DEF Halve, At
  <2>1. g = [span \in N \X N |-> g[span]]
    OBVIOUS
  <2> HIDE DEF g
  <2>2. ASSUME NEW span \in N \X N
        PROVE  g[span] = Halve(g, span[1], span[2])
    <3>1. span = <<span[1], span[2]>> /\ span[1] \in N /\ span[2] \in N
      OBVIOUS
    <3> HIDE DEF N
    <3> QED BY <1>2, <3>1
  <2> QED BY <2>1, <2>2
<1>4. ASSUME NEW f, f = [span \in N \X N |-> Halve(f, span[1], span[2])]
      PROVE  f[<<0, Len(entries)>>] = c
  <2> HIDE DEF At
  <2>1. ASSUME NEW low \in N, NEW high \in N
        PROVE  f[<<low, high>>] = Halve(f, low, high)
    <3> HIDE DEF Halve
    <3> QED BY <1>4
  <2> DEFINE Wrong == {size \in Nat : \E low, high \in N :
                          size = high - low /\ f[<<low, high>>] # At(low, high)}
  <2>2. Wrong = {}
    <3> SUFFICES ASSUME Wrong # {} PROVE FALSE
      OBVIOUS
    <3>1. PICK size \in Wrong : \A m \in Wrong : size <= m
      <4>1. Wrong \subseteq Nat
        OBVIOUS
      <4> HIDE DEF Wrong
      <4> QED BY <4>1, LeastNat
    <3>2. PICK low \in N, high \in N : size = high - low /\ f[<<low, high>>] # At(low, high)
      OBVIOUS
    <3>3. CASE low >= high
      BY <2>1, <3>2, <3>3 DEF At, EndsAt
    <3>4. CASE low < high
      <4> DEFINE middle == (low + high) \div 2
      <4>1. /\ middle \in low .. high - 1 /\ middle + 1 \in N /\ middle \in N
            /\ entries[middle + 1].start <= ms => At(low, high) = At(middle + 1, high)
            /\ ~(entries[middle + 1].start <= ms) => At(low, high) = At(low, middle)
        BY <1>1, <3>4
      <4>2. f[<<low, high>>] = IF entries[middle + 1].start <= ms THEN f[<<middle + 1, high>>]
                               ELSE f[<<low, middle>>]
        <5>1. f[<<low, high>>] = Halve(f, low, high) /\ ~(low >= high)
          <6> HIDE DEF Halve
          <6> QED BY <2>1, <3>4
        <5> HIDE DEF N, Wrong, g
        <5> QED BY <5>1
      <4> HIDE DEF middle
      <4>3. /\ high - (middle + 1) \in Nat /\ high - (middle + 1) < size
            /\ middle - low \in Nat /\ middle - low < size
        BY <3>2, <4>1, SMTT(30)
      <4>4. /\ f[<<middle + 1, high>>] = At(middle + 1, high)
            /\ f[<<low, middle>>] = At(low, middle)
        <5>1. high - (middle + 1) \notin Wrong /\ middle - low \notin Wrong
          <6>1. size \in Nat
            BY <3>2, <3>4
          <6> HIDE DEF Wrong
          <6> QED BY <3>1, <4>3, <6>1
        <5> QED BY <4>1, <4>3, <5>1
      <4> QED BY <3>2, <4>1, <4>2, <4>4
    <3> QED BY <3>3, <3>4
  <2>3. 0 \in N /\ Len(entries) \in N /\ Len(entries) - 0 \in Nat
    OBVIOUS
  <2>4. f[<<0, Len(entries)>>] = At(0, Len(entries))
    BY <2>2, <2>3
  <2> QED BY <2>4 DEF At, EndsAt, Larger, Least
<1>5. StartedBy(entries, ms) =
        (CHOOSE f : f = [span \in N \X N |-> Halve(f, span[1], span[2])])[<<0, Len(entries)>>]
  BY DEF StartedBy
<1> HIDE DEF Halve, N, g
<1> QED BY <1>3, <1>4, <1>5

(* The search finds how many entries have started, whatever the ends         *)
(* (activeWordForPart).                                                      *)
THEOREM SearchIsRight ==
    ASSUME NEW entries \in Seq(WordTiming), StartsRise(entries), NEW ms \in Nat
    PROVE  /\ StartedBy(entries, ms) \in 0 .. Len(entries)
           /\ SplitsAt(entries, ms, StartedBy(entries, ms))
  BY SomeSplit, SearchFinds

-----------------------------------------------------------------------------
(* The timings of a clip *)

(* What the aligner answers: words in an order of its own, each once, later  *)
(* words not starting sooner.                                                *)
LEMMA AnswersTyped ==
    ASSUME NEW words, NEW raw \in Answers(words)
    PROVE  raw \in Seq(WordTiming) /\ raw # <<>> /\ InOrder(raw)
<1>1. PICK n \in 1 .. words : raw \in [1 .. n -> Heard(words)]
  BY DEF Answers
<1>2. n \in Nat /\ n >= 1
  OBVIOUS
<1>3. Heard(words) \subseteq WordTiming
  <2>1. \A t \in Timings : t[1] \in Nat /\ t[2] \in Nat
    BY ReadAlongAssumption
  <2>2. \A k \in 1 .. words : k \in Nat
    OBVIOUS
  <2> QED BY <2>1, <2>2 DEF Heard, Timing, WordTiming
<1>4. raw \in [1 .. n -> WordTiming]
  BY <1>1, <1>3
<1>5. raw \in Seq(WordTiming) /\ Len(raw) = n
  BY <1>2, <1>4
<1>6. InOrder(raw)
  BY DEF Answers
<1> QED BY <1>2, <1>5, <1>6

(* An entry of the timeline is that of a word of a clip that leaves out the  *)
(* words before it.                                                          *)
Times(entry, e, skipped) ==
    entry.word = skipped + e.word /\ entry.start = e.start /\ entry.end = Ends(e)

(* A timeline of the clip: its words in order, later ones not starting       *)
(* sooner, each entry that of a word heard and each word heard an entry.     *)
Tells(entries, heard, skipped) ==
    /\ entries \in Seq(WordTiming) /\ entries # <<>> /\ StartsRise(entries)
    /\ \A m, n \in DOMAIN entries : m < n => entries[m].word < entries[n].word
    /\ \A n \in DOMAIN entries : \E e \in heard : Times(entries[n], e, skipped)
    /\ \A e \in heard : \E n \in DOMAIN entries : Times(entries[n], e, skipped)
    /\ \A d, e \in heard : d.word = e.word => d = e
    /\ heard \subseteq WordTiming

LEMMA MovedTiming ==
    ASSUME NEW e \in WordTiming, NEW skipped \in Nat
    PROVE  LET moved == [e EXCEPT !.word = @ + skipped] IN
           /\ moved \in WordTiming /\ moved.word = e.word + skipped
           /\ moved.start = e.start /\ moved.end = e.end
  BY DEF WordTiming

LEMMA ShiftedTimes ==
    ASSUME NEW raw \in Seq(WordTiming), NEW skipped \in Nat, NEW k \in DOMAIN raw
    PROVE  LET shifted == Shifted(raw, skipped) IN
           /\ shifted \in Seq(WordTiming) /\ DOMAIN shifted = DOMAIN raw /\ Len(shifted) = Len(raw)
           /\ Times(Lasting(shifted[k]), raw[k], skipped)
           /\ shifted[k].word = raw[k].word + skipped /\ shifted[k].start = raw[k].start
<1> DEFINE shifted == Shifted(raw, skipped)
<1>1. ASSUME NEW n \in DOMAIN raw
      PROVE  /\ shifted[n] \in WordTiming
             /\ shifted[n].word = raw[n].word + skipped
             /\ shifted[n].start = raw[n].start /\ shifted[n].end = raw[n].end
  <2>1. raw[n] \in WordTiming
    OBVIOUS
  <2>2. shifted[n] = [raw[n] EXCEPT !.word = @ + skipped]
    BY DEF Shifted
  <2> HIDE DEF shifted
  <2> QED BY <2>1, <2>2, MovedTiming
<1>2. shifted \in [1 .. Len(raw) -> WordTiming]
  <2>1. shifted = [n \in DOMAIN raw |-> shifted[n]] /\ DOMAIN raw = 1 .. Len(raw)
    BY DEF Shifted
  <2> HIDE DEF shifted
  <2> QED BY <1>1, <2>1
<1> HIDE DEF shifted
<1>3. shifted \in Seq(WordTiming) /\ DOMAIN shifted = DOMAIN raw /\ Len(shifted) = Len(raw)
  BY <1>2
<1>4. /\ Lasting(shifted[k]).word = shifted[k].word /\ Lasting(shifted[k]).start = shifted[k].start
      /\ Lasting(shifted[k]).end = Larger(shifted[k].start + 1, shifted[k].end)
  BY <1>1, LastingTimes
<1>5. raw[k].word \in Nat /\ raw[k].start \in Nat /\ raw[k].end \in Nat
  BY EntryFields
<1>6. Times(Lasting(shifted[k]), raw[k], skipped)
  <2>1. Lasting(shifted[k]).end = Ends(raw[k])
    BY <1>1, <1>4, <1>5 DEF Ends, Larger
  <2>2. Lasting(shifted[k]).word = skipped + raw[k].word
    BY <1>1, <1>4, <1>5
  <2> QED BY <1>1, <1>4, <2>1, <2>2 DEF Times
<1> QED BY <1>1, <1>3, <1>6 DEF shifted

LEMMA TimelineTells ==
    ASSUME NEW raw \in Seq(WordTiming), raw # <<>>, InOrder(raw), NEW skipped \in Nat
    PROVE  Tells(NormalizeTimeline(Shifted(raw, skipped)), Range(raw), skipped)
<1> DEFINE shifted == Shifted(raw, skipped)
<1> DEFINE entries == NormalizeTimeline(shifted)
<1>1. PICK first \in DOMAIN raw : TRUE
  <2>1. Len(raw) \in Nat /\ Len(raw) # 0 /\ DOMAIN raw = 1 .. Len(raw)
    OBVIOUS
  <2>2. 1 \in DOMAIN raw
    BY <2>1
  <2> QED BY <2>2
<1>2. shifted \in Seq(WordTiming) /\ DOMAIN shifted = DOMAIN raw /\ Len(shifted) = Len(raw)
  BY <1>1, ShiftedTimes
<1>3. \A k \in DOMAIN raw : /\ Times(Lasting(shifted[k]), raw[k], skipped)
                            /\ shifted[k].word = raw[k].word + skipped
                            /\ shifted[k].start = raw[k].start
  BY ShiftedTimes
<1> HIDE DEF shifted
<1>4. /\ entries \in Seq(WordTiming) /\ Len(entries) = Len(raw)
      /\ \E order \in Bijection(DOMAIN shifted, DOMAIN shifted) :
            \A n \in DOMAIN entries : entries[n] = Lasting(shifted[order[n]])
      /\ \A m, n \in DOMAIN entries : m < n => entries[m].word <= entries[n].word
  BY <1>2, NormalizedTimeline
<1>5. PICK order \in Bijection(DOMAIN raw, DOMAIN raw) :
         \A n \in DOMAIN entries : entries[n] = Lasting(shifted[order[n]])
  BY <1>2, <1>4
<1> HIDE DEF entries
<1>6. DOMAIN entries = DOMAIN raw
  BY <1>4
<1>7. /\ order \in [DOMAIN raw -> DOMAIN raw]
      /\ \A m, n \in DOMAIN raw : order[m] = order[n] => m = n
      /\ \A k \in DOMAIN raw : \E n \in DOMAIN raw : order[n] = k
  BY DEF Bijection, Injection, IsInjective, Surjection
<1>8. \A n \in DOMAIN raw : /\ order[n] \in DOMAIN raw
                            /\ Times(entries[n], raw[order[n]], skipped)
  BY <1>3, <1>5, <1>6, <1>7
<1>9. \A n \in DOMAIN raw : /\ entries[n].word = skipped + raw[order[n]].word
                            /\ entries[n].start = raw[order[n]].start
                            /\ raw[order[n]].word \in Nat /\ raw[order[n]].start \in Nat
  BY <1>8, EntryFields DEF Times
<1>10. ASSUME NEW m \in DOMAIN raw, NEW n \in DOMAIN raw, m < n
       PROVE  entries[m].word < entries[n].word /\ entries[m].start <= entries[n].start
  <2>1. order[m] # order[n] /\ order[m] \in DOMAIN raw /\ order[n] \in DOMAIN raw
    <3>1. m # n
      BY <1>10, EntryFields
    <3> QED BY <1>7, <3>1
  <2>2. raw[order[m]].word # raw[order[n]].word
    BY <2>1 DEF InOrder
  <2>3. raw[order[m]].word < raw[order[n]].word
    <3>1. entries[m].word <= entries[n].word
      BY <1>4, <1>6, <1>10
    <3>2. /\ entries[m].word = skipped + raw[order[m]].word /\ raw[order[m]].word \in Nat
          /\ entries[n].word = skipped + raw[order[n]].word /\ raw[order[n]].word \in Nat
      BY <1>9
    <3> QED BY <2>2, <3>1, <3>2, SMTT(30)
  <2>4. raw[order[m]].start <= raw[order[n]].start
    BY <2>1, <2>3 DEF InOrder
  <2> QED BY <1>9, <2>3, <2>4, SMTT(30)
<1>11. \A e : e \in Range(raw) <=> \E k \in DOMAIN raw : e = raw[k]
  BY DEF Range
<1>12. \A n \in DOMAIN entries : \E e \in Range(raw) : Times(entries[n], e, skipped)
  BY <1>6, <1>8, <1>11
<1>13. \A e \in Range(raw) : \E n \in DOMAIN entries : Times(entries[n], e, skipped)
  BY <1>6, <1>7, <1>8, <1>11
<1>14. \A d, e \in Range(raw) : d.word = e.word => d = e
  BY <1>11 DEF InOrder
<1>15. Range(raw) \subseteq WordTiming
  BY <1>11
<1>16. StartsRise(entries)
  BY <1>6, <1>10 DEF StartsRise
<1>17. entries # <<>>
  BY <1>1, <1>6
<1> QED
  BY <1>4, <1>6, <1>10, <1>12, <1>13, <1>14, <1>15, <1>16, <1>17 DEF Tells, entries, shifted


LEMMA HeardFields ==
    ASSUME NEW e \in WordTiming
    PROVE  e.word \in Nat /\ e.start \in Nat /\ e.end \in Nat /\ Ends(e) \in Nat
  BY DEF WordTiming, Ends

(* Entries go as their words do, and have started when their words have. *)
LEMMA EntriesFollowWords ==
    ASSUME NEW entries, NEW heard, NEW skipped \in Nat, Tells(entries, heard, skipped),
           NEW m \in DOMAIN entries, NEW d \in heard, Times(entries[m], d, skipped),
           NEW n \in DOMAIN entries, NEW e \in heard, Times(entries[n], e, skipped),
           m <= n
    PROVE  d.word <= e.word
<1>1. /\ m \in Nat /\ n \in Nat /\ d.word \in Nat /\ e.word \in Nat
      /\ entries[m].word = skipped + d.word /\ entries[n].word = skipped + e.word
  BY EntryFields, HeardFields DEF Tells, Times
<1>2. CASE m = n
  BY <1>1, <1>2
<1>3. CASE m < n
  <2>1. entries[m].word < entries[n].word
    BY <1>3 DEF Tells
  <2> QED BY <1>1, <2>1
<1> QED BY <1>1, <1>2, <1>3

LEMMA StartedEntries ==
    ASSUME NEW entries, NEW heard, NEW skipped \in Nat, Tells(entries, heard, skipped),
           NEW ms \in Nat, NEW c, c = StartedBy(entries, ms)
    PROVE  /\ c \in Nat /\ c <= Len(entries) /\ Len(entries) \in Nat /\ Len(entries) # 0
           /\ DOMAIN entries = 1 .. Len(entries)
           /\ \A n \in DOMAIN entries, e \in heard :
                 Times(entries[n], e, skipped) => (e.start <= ms <=> n <= c)
<1>1. entries \in Seq(WordTiming) /\ entries # <<>> /\ StartsRise(entries)
  BY DEF Tells
<1>2. c \in 0 .. Len(entries) /\ SplitsAt(entries, ms, c)
  BY <1>1, SearchIsRight
<1>3. \A n \in DOMAIN entries, e \in heard :
         Times(entries[n], e, skipped) => (e.start <= ms <=> n <= c)
  BY <1>2 DEF SplitsAt, Times
<1> QED BY <1>1, <1>2, <1>3

(* Before the first word. *)
LEMMA NoneStarted ==
    ASSUME cut \in Nat, clock \in Nat, Tells(timeline, spoken, cut),
           active = ActiveWord(timeline, clock), StartedBy(timeline, clock) = 0
    PROVE  HighlightIsHeard
<1>1. /\ Len(timeline) \in Nat /\ Len(timeline) # 0 /\ DOMAIN timeline = 1 .. Len(timeline)
      /\ \A n \in DOMAIN timeline, e \in spoken :
            Times(timeline[n], e, cut) => (e.start <= clock <=> n <= 0)
  BY StartedEntries
<1>2. 1 \in DOMAIN timeline /\ \A n \in DOMAIN timeline : n \in Nat /\ ~(n <= 0) /\ 1 <= n
  BY <1>1
<1>3. \A e \in spoken : \E n \in DOMAIN timeline : Times(timeline[n], e, cut)
  BY DEF Tells
<1>4. \A e \in spoken : e.word \in Nat /\ e.start \in Nat
  BY HeardFields DEF Tells
<1>5. \A e \in spoken : ~(e.start <= clock) /\ e.start > clock
  BY <1>1, <1>2, <1>3, <1>4
<1>6. Started = {}
  BY <1>5 DEF Started
<1>7. PICK e \in spoken : Times(timeline[1], e, cut)
  BY <1>2 DEF Tells
<1>8. \A d \in spoken : e.word <= d.word
  BY <1>2, <1>3, <1>7, EntriesFollowWords
<1>9. timeline # <<>> /\ timeline[1].word = cut + e.word /\ timeline[1].start = e.start
  BY <1>7 DEF Tells, Times
<1>10. active = IF clock + Tail750 >= timeline[1].start THEN timeline[1].word ELSE NoWord
  BY <1>9 DEF ActiveWord
<1>11. \/ active = NoWord
       \/ active = cut + e.word /\ e.start <= clock + Tail750
  BY <1>4, <1>9, <1>10 DEF Tail750
<1>12. e \in Coming /\ \A d \in Coming : e.word <= d.word
  BY <1>5, <1>8 DEF Coming
<1> QED BY <1>6, <1>11, <1>12 DEF HighlightIsHeard

(* Once a word has started. *)
LEMMA SomeStarted ==
    ASSUME cut \in Nat, clock \in Nat, Tells(timeline, spoken, cut),
           active = ActiveWord(timeline, clock), StartedBy(timeline, clock) # 0
    PROVE  HighlightIsHeard
<1> DEFINE c == StartedBy(timeline, clock)
<1>1. /\ c \in Nat /\ c <= Len(timeline)
      /\ Len(timeline) \in Nat /\ Len(timeline) # 0 /\ DOMAIN timeline = 1 .. Len(timeline)
      /\ \A n \in DOMAIN timeline, e \in spoken :
            Times(timeline[n], e, cut) => (e.start <= clock <=> n <= c)
  BY StartedEntries
<1>2. c # 0
  OBVIOUS
<1>3. /\ timeline # <<>>
      /\ active = IF clock <= timeline[c].end + Tail750 THEN timeline[c].word
                  ELSE IF c < Len(timeline) /\ clock + Lead250 >= timeline[c + 1].start
                       THEN timeline[c + 1].word
                  ELSE NoWord
  BY <1>2 DEF ActiveWord, Tells
<1> HIDE DEF c
<1>4. c \in DOMAIN timeline /\ \A n \in DOMAIN timeline : n \in Nat
  BY <1>1, <1>2
<1>5. \A e \in spoken : \E n \in DOMAIN timeline : Times(timeline[n], e, cut)
  BY DEF Tells
<1>6. \A e \in spoken : e.word \in Nat /\ e.start \in Nat /\ Ends(e) \in Nat
  BY HeardFields DEF Tells
<1>7. PICK e \in spoken : Times(timeline[c], e, cut)
  BY <1>4 DEF Tells
<1>8. e \in Started
  BY <1>1, <1>4, <1>7 DEF Started
<1>9. ASSUME NEW d \in Started
      PROVE  d.word <= e.word
  <2>1. d \in spoken /\ d.start <= clock
    BY DEF Started
  <2>2. PICK n \in DOMAIN timeline : Times(timeline[n], d, cut)
    BY <1>5, <2>1
  <2>3. n <= c
    BY <1>1, <2>1, <2>2
  <2> QED BY <1>4, <1>7, <2>1, <2>2, <2>3, EntriesFollowWords
<1>10. Latest = e
  <2>1. Latest \in Started /\ \A d \in Started : d.word <= Latest.word
    BY <1>8, <1>9 DEF Latest
  <2>2. Latest \in spoken
    BY <2>1 DEF Started
  <2>3. Latest.word = e.word
    BY <1>6, <1>8, <1>9, <2>1, <2>2
  <2> QED BY <2>2, <2>3 DEF Tells
<1>11. timeline[c].word = cut + e.word /\ timeline[c].end = Ends(e)
  BY <1>7 DEF Times
<1>12. CASE clock <= Ends(e) + Tail750
  BY <1>3, <1>8, <1>10, <1>11, <1>12 DEF HighlightIsHeard
<1>13. CASE ~(clock <= Ends(e) + Tail750)
  <2>1. CASE c < Len(timeline) /\ clock + Lead250 >= timeline[c + 1].start
    <3>1. c + 1 \in DOMAIN timeline /\ ~(c + 1 <= c)
      BY <1>1, <2>1
    <3>2. PICK next \in spoken : Times(timeline[c + 1], next, cut)
      BY <3>1 DEF Tells
    <3>3. timeline[c + 1].word = cut + next.word /\ timeline[c + 1].start = next.start
      BY <3>2 DEF Times
    <3>4. next \in Coming
      <4>1. ~(next.start <= clock)
        BY <1>1, <3>1, <3>2
      <4> QED BY <1>6, <4>1 DEF Coming
    <3>5. ASSUME NEW d \in Coming
          PROVE  next.word <= d.word
      <4>1. d \in spoken /\ ~(d.start <= clock)
        BY <1>6 DEF Coming
      <4>2. PICK n \in DOMAIN timeline : Times(timeline[n], d, cut)
        BY <1>5, <4>1
      <4>3. ~(n <= c)
        BY <1>1, <4>1, <4>2
      <4>4. c + 1 <= n
        BY <1>1, <1>4, <4>3
      <4> QED BY <3>1, <3>2, <4>1, <4>2, <4>4, EntriesFollowWords
    <3>6. active = cut + next.word
      BY <1>3, <1>11, <1>13, <2>1, <3>3
    <3>7. next.start <= clock + Tail750
      BY <1>6, <2>1, <3>3 DEF Tail750, Lead250
    <3> QED BY <1>10, <1>13, <3>4, <3>5, <3>6, <3>7 DEF HighlightIsHeard
  <2>2. CASE ~(c < Len(timeline) /\ clock + Lead250 >= timeline[c + 1].start)
    <3>1. active = NoWord
      BY <1>3, <1>11, <1>13, <2>2
    <3> QED BY <1>10, <1>13, <3>1 DEF HighlightIsHeard
  <2> QED BY <2>1, <2>2
<1> QED BY <1>12, <1>13

-----------------------------------------------------------------------------
(* The word clicked *)

LEMMA AroundIsFinite ==
    ASSUME NEW norms, NEW w, NEW tokens, NEW t
    PROVE  /\ IsFiniteSet(Available(norms, w)) /\ Cardinality(Available(norms, w)) \in Nat
           /\ Matching(norms, w, tokens, t) \subseteq Available(norms, w)
           /\ IsFiniteSet(Matching(norms, w, tokens, t))
           /\ Cardinality(Matching(norms, w, tokens, t)) \in Nat
<1>1. IsFiniteSet(Window)
  <2>1. -5 \in Int /\ 7 \in Int
    OBVIOUS
  <2>2. IsFiniteSet(-5 .. 7)
    BY <2>1, FS_Interval, Zenon
  <2> QED BY <2>2 DEF Window
<1>2. Available(norms, w) \in SUBSET Window
  BY DEF Available
<1>3. Matching(norms, w, tokens, t) \in SUBSET Available(norms, w)
  BY DEF Matching
<1>4. IsFiniteSet(Available(norms, w))
  BY <1>1, <1>2, FS_Subset
<1>5. IsFiniteSet(Matching(norms, w, tokens, t))
  BY <1>3, <1>4, FS_Subset
<1> QED BY <1>3, <1>4, <1>5, FS_CardinalityType

(* A word of the text matches itself best of all: with every word around it. *)
LEMMA SelfScore ==
    ASSUME NEW norms, NEW t \in Nat, t \in DOMAIN norms, norms[t] # None
    PROVE  /\ Score(norms, t, norms, t) = Cardinality(Available(norms, t)) + 1
           /\ Enough(norms, t, norms, t, Threshold(norms, t))
<1>1. Cardinality(Available(norms, t)) \in Nat
  BY AroundIsFinite
<1>2. t + 0 = t /\ 0 \in Window
  BY DEF Window
<1>3. 0 \in Available(norms, t)
  BY <1>2 DEF Available
<1>4. Matching(norms, t, norms, t) = Available(norms, t)
  BY DEF Matching, Available
<1>5. Score(norms, t, norms, t) = Cardinality(Available(norms, t)) + 1
  BY <1>3, <1>4 DEF Score
<1>6. Threshold(norms, t) \in Nat
  BY DEF Threshold
<1> DEFINE all == Cardinality(Available(norms, t)) + 1
<1> DEFINE wanted == {Threshold(norms, t), all}
<1>7. all \in Nat /\ wanted \subseteq Nat /\ all \in wanted
  BY <1>1, <1>6
<1> HIDE DEF wanted
<1>8. Min(wanted) <= all
  BY <1>7, MinOfNats
<1> QED BY <1>5, <1>8 DEF Enough, wanted

(* Whatever else is found has every word around it that the clicked one has. *)
LEMMA FoundHasAround ==
    ASSUME NEW norms, DOMAIN norms \subseteq Nat, NEW t \in DOMAIN norms,
           NEW found, found = WordIndexForSurfaceToken(norms, norms, t), found # None
    PROVE  HasAround(norms, found, t)
<1> DEFINE alike == {w \in DOMAIN norms : /\ norms[t] # None /\ norms[w] = norms[t]
                                          /\ Enough(norms, w, norms, t, Threshold(norms, w))}
<1> DEFINE best == {w \in alike : \A v \in alike :
                       Score(norms, v, norms, t) <= Score(norms, w, norms, t)}
<1>1. found = IF best = {} THEN None ELSE Min(best)
  BY DEF WordIndexForSurfaceToken
<1>2. best \subseteq Nat
  OBVIOUS
<1>3. found \in best
  <2> HIDE DEF best
  <2> QED BY <1>1, <1>2, MinOfNats
<1>4. found \in DOMAIN norms /\ norms[t] # None
  BY <1>3
<1>5. /\ t \in Nat /\ Score(norms, t, norms, t) = Cardinality(Available(norms, t)) + 1
      /\ Enough(norms, t, norms, t, Threshold(norms, t))
  BY <1>4, SelfScore
<1>6. t \in alike
  BY <1>4, <1>5
<1>7. Cardinality(Available(norms, t)) + 1 <= Score(norms, found, norms, t)
  BY <1>3, <1>5, <1>6
<1> DEFINE around == Available(norms, t)
<1> DEFINE matching == Matching(norms, found, norms, t)
<1>8. /\ IsFiniteSet(around) /\ Cardinality(around) \in Nat /\ Cardinality(matching) \in Nat
  BY AroundIsFinite
<1>9. Score(norms, found, norms, t) <= Cardinality(matching) + 1
  BY <1>8 DEF Score
<1>10. matching \in SUBSET around
  BY DEF Matching, Available
<1>11. Score(norms, found, norms, t) \in Nat
  BY <1>8 DEF Score
<1> HIDE DEF around, matching
<1>12. Cardinality(around) <= Cardinality(matching)
  BY <1>7, <1>8, <1>9, <1>11 DEF around
<1>13. matching = around
  <2>1. /\ Cardinality(matching) <= Cardinality(around)
        /\ Cardinality(around) = Cardinality(matching) => around = matching
    BY <1>8, <1>10, FS_Subset
  <2> QED BY <1>8, <1>12, <2>1
<1>14. \A o \in matching : found + o \in DOMAIN norms /\ norms[found + o] = norms[t + o]
  BY DEF matching, Matching, Available
<1> QED BY <1>13, <1>14 DEF HasAround, around

-----------------------------------------------------------------------------
(* The parts of a text *)

LEMMA PartsSpeak ==
    ASSUME NEW text \in Seq(Printed)
    PROVE  /\ PartsOf(text) \in Seq(Seq(WordKind))
           /\ Terms(RunWords(PartsOf(text))) = Terms(WordsOf(NormalizeForSpeech(text)))
<1> DEFINE normal == NormalizeForSpeech(text)
<1> DEFINE chunks == Split(normal)
<1> DEFINE words == PartsOf(text)
<1> DEFINE terms == Mapped(chunks, PartSays)
<1>1. normal \in Seq(Printed)
  BY NormalizedTyped
<1> HIDE DEF normal
<1>2. chunks \in Seq(Seq(Printed)) /\ SaidIn(chunks) = Said(normal)
  BY <1>1, SplitSaysAll
<1>3. words = [k \in DOMAIN chunks |-> WordsOf(chunks[k])]
  BY DEF PartsOf, normal
<1> HIDE DEF chunks, words
<1>4. DOMAIN chunks = 1 .. Len(chunks) /\ Len(chunks) \in Nat
      /\ \A k \in 1 .. Len(chunks) : chunks[k] \in Seq(Printed)
  BY <1>2
<1>5. ASSUME NEW k \in 1 .. Len(chunks)
      PROVE  /\ Terms(WordsOf(chunks[k])) = Said(chunks[k])
             /\ WordsOf(chunks[k]) \in Seq(WordKind)
  BY <1>4, TermsOfWords
<1>6. words \in Seq(Seq(WordKind)) /\ Len(words) = Len(chunks)
  <2> DEFINE V == Seq(WordKind)
  <2>1. \A k \in 1 .. Len(chunks) : WordsOf(chunks[k]) \in V
    BY <1>5
  <2> HIDE DEF V
  <2>2. words \in Seq(V) /\ Len(words) = Len(chunks)
    BY <1>3, <1>4, <2>1
  <2> QED BY <2>2 DEF V
<1>7. terms \in Seq(Seq(WordKind)) /\ Len(terms) = Len(words)
  BY <1>2, <1>6, SaidInTyped
<1>8. \A k \in 1 .. Len(words) : terms[k] = Terms(words[k])
  <2> SUFFICES ASSUME NEW k \in 1 .. Len(chunks) PROVE terms[k] = Terms(words[k])
    BY <1>6
  <2>1. terms[k] = PartSays[chunks[k]]
    BY DEF Mapped
  <2>2. PartSays[chunks[k]] = Said(chunks[k])
    <3> HIDE DEF Printed
    <3> QED BY <1>4 DEF PartSays
  <2>3. words[k] = WordsOf(chunks[k])
    BY <1>3, <1>4
  <2> QED BY <1>5, <2>1, <2>2, <2>3
<1> HIDE DEF terms
<1>9. Terms(Concatenated(words)) = Concatenated(terms)
  BY <1>6, <1>7, <1>8, TermsConcatenated
<1>10. Terms(WordsOf(normal)) = Said(normal)
  BY <1>1, TermsOfWords
<1>11. Terms(RunWords(words)) = Terms(WordsOf(normal))
  BY <1>2, <1>9, <1>10, Zenon DEF RunWords, SaidIn, terms
<1> QED BY <1>6, <1>11 DEF normal, words

LEMMA PartsCounted ==
    ASSUME NEW text \in Seq(Printed)
    PROVE  \A i \in DOMAIN PartsOf(text) : DOMAIN PartsOf(text)[i] \subseteq Nat \ {0}
<1> DEFINE words == PartsOf(text)
<1>1. words \in Seq(Seq(WordKind))
  BY PartsSpeak
<1> HIDE DEF words, WordKind
<1>2. \A i \in DOMAIN words : words[i] \in Seq(WordKind)
  BY <1>1
<1>3. \A i \in DOMAIN words : DOMAIN words[i] \subseteq Nat \ {0}
  BY <1>2
<1> QED BY <1>3 DEF words

-----------------------------------------------------------------------------
(* The invariant *)

(* The words of a part are counted from 1. *)
WordKeys == \A i \in DOMAIN parts : DOMAIN parts[i] \subseteq Nat \ {0}

(* A clip that has timings has those of its words, and the word that is      *)
(* active is the one the search finds among them.                            *)
ClipTold ==
    \/ spoken = {} /\ timeline = <<>> /\ active = NoWord
    \/ Tells(timeline, spoken, cut) /\ active = ActiveWord(timeline, clock)

(* An extraction is under way for as long as its promise is pending. *)
PromiseKept ==
    /\ cache.promise \in {"none", "pending", "resolved"}
    /\ cache.promise = "pending" => busy
    /\ AskersServed

(* An extraction has the pages of the document in their order, so far, a run *)
(* has the parts of its text, and what is kept is that text and its words.   *)
PagesSoFar == Len(read) <= Len(doc) /\ read = SubSeq(doc, 1, Len(read))
RunIsDocument ==
    /\ doc \in Seq(PdfPage) /\ read \in Seq(PdfPage)
    /\ busy => PagesSoFar
    /\ parts # None => parts = PartsOf(PdfSpeechText(doc))
    /\ cache.promise = "resolved" =>
          cache.text = PdfSpeechText(doc) /\ surface = SurfaceWords(doc)

Inv == /\ cut \in Nat /\ clock \in Nat
       /\ (parts # None => WordKeys)
       /\ ClipTold /\ PromiseKept /\ RunIsDocument /\ JumpReaches /\ ClickRight

(* What the invariant says about the clip, and what it says about the text. *)
ClipRight == /\ cut \in Nat /\ clock \in Nat
             /\ (parts # None => WordKeys)
             /\ ClipTold /\ JumpReaches /\ ClickRight

LEMMA Halves == Inv <=> ClipRight /\ PromiseKept /\ RunIsDocument
  BY DEF Inv, ClipRight

LEMMA InitInv == Init => Inv
<1> SUFFICES ASSUME Init PROVE Inv
  OBVIOUS
<1>1. cut = 0 /\ clock = 0 /\ parts = None /\ clicked = None
  BY DEF Init
<1>2. ClipTold
  BY DEF Init, ClipTold
<1>3. PromiseKept
  BY DEF Init, PromiseKept, NoEntry, Entry, AskersServed
<1>4. JumpReaches /\ ClickRight
  BY <1>1 DEF JumpReaches, ClickRight
<1>5. RunIsDocument
  <2>1. doc \in Seq(PdfPage) /\ read = <<>> /\ busy = FALSE /\ cache.promise = "none"
    BY ReadAlongAssumption DEF Init, NoEntry, Entry
  <2>2. read \in Seq(PdfPage)
    BY <2>1
  <2> QED BY <1>1, <2>1, <2>2 DEF RunIsDocument
<1> QED BY <1>1, <1>2, <1>3, <1>4, <1>5 DEF Inv

(* What happens to the text leaves the clip alone. *)
LEMMA ClipKept ==
    ASSUME ClipRight, UNCHANGED <<doc, parts, index, clipVars, clicked>>
    PROVE  ClipRight'
<1>1. /\ doc' = doc /\ parts' = parts /\ index' = index /\ clicked' = clicked
      /\ cut' = cut /\ spoken' = spoken /\ timeline' = timeline /\ clock' = clock /\ active' = active
  BY DEF clipVars
<1>2. cut' \in Nat /\ clock' \in Nat /\ (parts' # None => WordKeys')
  BY <1>1 DEF ClipRight, WordKeys
<1>3. ClipTold'
  BY <1>1 DEF ClipRight, ClipTold
<1>4. JumpReaches'
  BY <1>1 DEF ClipRight, JumpReaches
<1>5. ClickRight'
  BY <1>1 DEF ClipRight, ClickRight, ReadsClicked
<1> QED BY <1>2, <1>3, <1>4, <1>5 DEF ClipRight

(* A click that was answered is past. *)
LEMMA ClickPast ==
    ASSUME clicked' = None
    PROVE  JumpReaches' /\ ClickRight'
  BY DEF JumpReaches, ClickRight, ReadsClicked

LEMMA PromiseSteps ==
    ASSUME PromiseKept,
           \/ \E c \in Callers : Ask(c)
           \/ GetPage \/ Refuse \/ Extracted
           \/ \E c \in Callers : AskAgain(c)
           \/ UNCHANGED textVars
    PROVE  PromiseKept'
<1>1. ASSUME NEW c \in Callers, Ask(c)
      PROVE  PromiseKept'
  <2>1. CASE cache.promise = "none"
    BY <1>1, <2>1 DEF Ask, PromiseKept, Entry, AskersServed
  <2>2. CASE cache.promise # "none"
    <3>1. cache' = cache /\ busy' = busy
      BY <1>1, <2>2 DEF Ask
    <3>2. cache.promise = "pending"
      BY <1>1, <2>2 DEF Ask, PromiseKept
    <3> QED BY <3>1, <3>2 DEF PromiseKept, AskersServed
  <2> QED BY <2>1, <2>2
<1>2. CASE GetPage
  BY <1>2 DEF GetPage, PromiseKept, AskersServed
<1>3. CASE Refuse
  BY <1>3 DEF Refuse, Forget, NoEntry, Entry, PromiseKept, AskersServed
<1>4. CASE Extracted
  BY <1>4 DEF Extracted, Entry, PromiseKept, AskersServed
<1>5. ASSUME NEW c \in Callers, AskAgain(c)
      PROVE  PromiseKept'
  BY <1>5 DEF AskAgain, PromiseKept, AskersServed
<1>6. CASE UNCHANGED textVars
  BY <1>6 DEF textVars, PromiseKept, AskersServed
<1> QED BY <1>1, <1>2, <1>3, <1>4, <1>5, <1>6

(* All the pages are the document. *)
LEMMA AllReadIsDoc ==
    ASSUME RunIsDocument, AllRead
    PROVE  read = doc
<1>1. doc \in Seq(PdfPage) /\ Len(read) = Len(doc) /\ read = SubSeq(doc, 1, Len(read))
  BY DEF RunIsDocument, PagesSoFar, AllRead
<1> HIDE DEF PdfPage
<1>2. SubSeq(doc, 1, Len(doc)) = doc
  BY <1>1, SubSeqFull
<1> QED BY <1>1, <1>2

(* One more page. *)
LEMMA OnePageMore ==
    ASSUME RunIsDocument, GetPage
    PROVE  RunIsDocument'
<1> DEFINE n == Len(read)
<1>1. /\ doc \in Seq(PdfPage) /\ read \in Seq(PdfPage) /\ PagesSoFar /\ Len(read) # Len(doc)
      /\ parts # None => parts = PartsOf(PdfSpeechText(doc))
      /\ cache.promise = "resolved" =>
            cache.text = PdfSpeechText(doc) /\ surface = SurfaceWords(doc)
      /\ read' = Append(read, doc[n + 1])
      /\ doc' = doc /\ busy' = busy /\ parts' = parts /\ cache' = cache /\ surface' = surface
  BY DEF RunIsDocument, GetPage, AllRead
<1> HIDE DEF PdfPage
<1>2. n \in Nat /\ Len(doc) \in Nat /\ n < Len(doc)
  BY <1>1 DEF PagesSoFar
<1>3. doc[n + 1] \in PdfPage
  BY <1>1, <1>2
<1>4. read' \in Seq(PdfPage) /\ Len(read') = n + 1 /\ read' = read \o <<doc[n + 1]>>
  BY <1>1, <1>3, AppendProperties, AppendIsConcat
<1>5. SubSeq(doc, 1, n + 1) = SubSeq(doc, 1, n) \o <<doc[n + 1]>>
  <2> DEFINE m == n + 1
  <2>1. 1 \in 1 .. Len(doc) /\ m \in 1 .. Len(doc) /\ m - 1 = n
    BY <1>2
  <2> HIDE DEF m, n
  <2>2. SubSeq(doc, 1, m) = SubSeq(doc, 1, m - 1) \o <<doc[m]>>
    BY <1>1, <2>1, SubSeqRecursiveSecond
  <2> QED BY <2>1, <2>2 DEF m
<1>6. PagesSoFar'
  <2>1. read' = SubSeq(doc, 1, n + 1)
    BY <1>1, <1>4, <1>5, Zenon DEF PagesSoFar
  <2>2. n + 1 <= Len(doc)
    BY <1>2
  <2> QED BY <1>1, <1>4, <2>1, <2>2 DEF PagesSoFar
<1> QED BY <1>1, <1>4, <1>6 DEF RunIsDocument

LEMMA DocumentSteps ==
    ASSUME RunIsDocument,
           \/ \E c \in Callers : Ask(c)
           \/ GetPage \/ Refuse \/ Extracted
           \/ \E c \in Callers : AskAgain(c)
           \/ UNCHANGED <<doc, textVars, parts>>
    PROVE  RunIsDocument'
<1>0. <<>> \in Seq(PdfPage) /\ \A pages \in Seq(PdfPage) :
        Len(<<>>) <= Len(pages) /\ <<>> = SubSeq(pages, 1, Len(<<>>))
  <2> HIDE DEF PdfPage
  <2>1. \A pages \in Seq(PdfPage) : SubSeq(pages, 1, 0) = <<>>
    BY SubSeqEmpty
  <2> QED BY <2>1
<1>1. ASSUME NEW c \in Callers, Ask(c)
      PROVE  RunIsDocument'
  <2>1. doc' = doc /\ parts' = parts /\ surface' = surface
    BY <1>1 DEF Ask
  <2>2. CASE cache.promise = "none"
    <3>1. read' = <<>> /\ cache'.promise = "pending"
      BY <1>1, <2>2 DEF Ask, Entry
    <3> QED BY <1>0, <2>1, <3>1 DEF RunIsDocument, PagesSoFar
  <2>3. CASE cache.promise # "none"
    <3>1. read' = read /\ busy' = busy /\ cache' = cache
      BY <1>1, <2>3 DEF Ask
    <3> QED BY <2>1, <3>1 DEF RunIsDocument, PagesSoFar
  <2> QED BY <2>2, <2>3
<1>2. CASE GetPage
  BY <1>2, OnePageMore
<1>3. CASE Refuse
  <2>1. doc' = doc /\ parts' = parts /\ read' = <<>> /\ busy' = FALSE /\ cache'.promise = "none"
    BY <1>3 DEF Refuse, Forget, NoEntry, Entry
  <2> QED BY <1>0, <2>1 DEF RunIsDocument
<1>4. CASE Extracted
  <2>1. read = doc
    BY <1>4, AllReadIsDoc DEF Extracted
  <2>2. /\ doc' = doc /\ read' = <<>> /\ busy' = FALSE
        /\ cache'.text = PdfSpeechText(read) /\ surface' = SurfaceWords(read)
        /\ parts' = None \/ parts' = PartsOf(PdfSpeechText(read))
    BY <1>4 DEF Extracted, Entry, StartRun
  <2> QED BY <1>0, <2>1, <2>2 DEF RunIsDocument
<1>5. ASSUME NEW c \in Callers, AskAgain(c)
      PROVE  RunIsDocument'
  <2>1. cache.promise = "resolved" /\ UNCHANGED <<doc, cache, busy, read, surface>>
    BY <1>5 DEF AskAgain
  <2>2. parts' = None \/ parts' = PartsOf(cache.text)
    BY <1>5 DEF AskAgain, StartRun
  <2> QED BY <2>1, <2>2 DEF RunIsDocument, PagesSoFar
<1>6. CASE UNCHANGED <<doc, textVars, parts>>
  BY <1>6 DEF textVars, RunIsDocument, PagesSoFar
<1> QED BY <1>1, <1>2, <1>3, <1>4, <1>5, <1>6

LEMMA NoClipTold ==
    ASSUME NEW w \in Nat, NoClip(w)
    PROVE  cut' \in Nat /\ clock' \in Nat /\ ClipTold'
  BY DEF NoClip, ClipTold

LEMMA StartRunRight ==
    ASSUME ClipRight, NEW pages \in Seq(PdfPage), StartRun(PdfSpeechText(pages))
    PROVE  ClipRight'
<1>1. /\ NoClip(0) /\ clicked' = None
      /\ parts' = None \/ parts' = PartsOf(PdfSpeechText(pages))
  BY DEF StartRun
<1>2. parts' # None => WordKeys'
  <2>1. PdfSpeechText(pages) \in Seq(Printed)
    BY PdfTextTyped
  <2> QED BY <1>1, <2>1, PartsCounted DEF WordKeys
<1>3. cut' \in Nat /\ clock' \in Nat /\ ClipTold'
  BY <1>1, NoClipTold
<1> QED BY <1>1, <1>2, <1>3, ClickPast DEF ClipRight

LEMMA AlignedRight ==
    ASSUME ClipRight, Aligned
    PROVE  ClipRight'
<1>1. PICK raw \in Answers(Len(Part) - cut) :
         /\ spoken' = Range(raw)
         /\ timeline' = NormalizeTimeline(Shifted(raw, cut))
  BY DEF Aligned
<1>2. /\ active' = ActiveWord(timeline', clock) /\ clicked' = None
      /\ parts' = parts /\ cut' = cut /\ clock' = clock
  BY DEF Aligned
<1>3. cut \in Nat /\ clock \in Nat /\ (parts # None => WordKeys)
  BY DEF ClipRight
<1>4. Tells(NormalizeTimeline(Shifted(raw, cut)), Range(raw), cut)
  BY <1>3, AnswersTyped, TimelineTells
<1>5. Tells(timeline', spoken', cut') /\ active' = ActiveWord(timeline', clock')
  BY <1>1, <1>2, <1>4
<1>6. ClipTold'
  BY <1>5 DEF ClipTold
<1>7. cut' \in Nat /\ clock' \in Nat /\ (parts' # None => WordKeys')
  BY <1>2, <1>3 DEF WordKeys
<1> QED BY <1>2, <1>6, <1>7, ClickPast DEF ClipRight

LEMMA ProgressRight ==
    ASSUME ClipRight, Progress
    PROVE  ClipRight'
<1>1. PICK ms \in Clock : clock' = ms
  BY DEF Progress
<1>2. /\ timeline # <<>> /\ active' = ActiveWord(timeline, clock') /\ clicked' = None
      /\ parts' = parts /\ cut' = cut /\ spoken' = spoken /\ timeline' = timeline
  BY DEF Progress
<1>3. Tells(timeline, spoken, cut)
  BY <1>2 DEF ClipRight, ClipTold
<1>4. Tells(timeline', spoken', cut') /\ active' = ActiveWord(timeline', clock')
  BY <1>2, <1>3
<1>5. ClipTold'
  BY <1>4 DEF ClipTold
<1>6. cut' \in Nat /\ clock' \in Nat /\ (parts' # None => WordKeys')
  BY <1>1, <1>2, ReadAlongAssumption DEF ClipRight, WordKeys
<1> QED BY <1>2, <1>5, <1>6, ClickPast DEF ClipRight

LEMMA NextPartRight ==
    ASSUME ClipRight, NextPart
    PROVE  ClipRight'
<1>1. NoClip(0) /\ clicked' = None /\ parts' = parts
  BY DEF NextPart
<1>2. cut' \in Nat /\ clock' \in Nat /\ ClipTold'
  BY <1>1, NoClipTold
<1>3. parts' # None => WordKeys'
  BY <1>1 DEF ClipRight, WordKeys
<1> QED BY <1>1, <1>2, <1>3, ClickPast DEF ClipRight

(* A jump by a word's timing lands close before the word is heard. *)
LEMMA LandingNear ==
    ASSUME NEW entries, NEW heard, NEW skipped \in Nat, Tells(entries, heard, skipped),
           NEW w, TimesOf(entries, w) # {}
    PROVE  LET ms == Landing(TimesOf(entries, w)) IN
           /\ ms \in Nat
           /\ \E e \in heard : skipped + e.word = w /\ ms <= e.start /\ e.start <= ms + Back80
<1>1. PICK n \in DOMAIN entries : entries[n].word = w
  BY DEF TimesOf
<1>2. PICK e \in heard : Times(entries[n], e, skipped)
  BY DEF Tells
<1>3. skipped + e.word = w /\ entries[n].start = e.start /\ e.start \in Nat
  BY <1>1, <1>2, HeardFields DEF Times, Tells
<1>4. ASSUME NEW m \in DOMAIN entries, entries[m].word = w
      PROVE  m = n
  <2>1. /\ m \in Nat /\ n \in Nat /\ entries[m].word \in Nat /\ entries[n].word \in Nat
    BY EntryFields DEF Tells
  <2>2. ~(m < n) /\ ~(n < m)
    BY <1>1, <1>4, <2>1 DEF Tells
  <2> QED BY <2>1, <2>2
<1>5. TimesOf(entries, w) = {e.start}
  BY <1>1, <1>3, <1>4 DEF TimesOf
<1>6. Landing(TimesOf(entries, w)) = Larger(0, e.start - Back80)
  BY <1>3, <1>5, MinOfOne DEF Landing
<1> QED BY <1>3, <1>6 DEF Larger, Back80

(* seekToWord jumps in the clip, or to the start of one. *)
LEMMA SeekToWordReaches ==
    ASSUME ClipRight, parts # None, NEW i, NEW w, SeekToWord(i, w)
    PROVE  /\ cut' \in Nat /\ clock' \in Nat /\ ClipTold'
           /\ \/ cut' = w - 1 /\ clock' = 0
              \/ \E e \in spoken' : /\ cut' + e.word = w
                                    /\ clock' <= e.start /\ e.start <= clock' + Back80
<1>1. i \in DOMAIN parts /\ w \in DOMAIN parts[i] /\ index' = i
  BY DEF SeekToWord
<1>2. w \in Nat \ {0} /\ w - 1 \in Nat
  BY <1>1 DEF ClipRight, WordKeys
<1>3. cut \in Nat
  BY DEF ClipRight
<1> DEFINE times == TimesOf(timeline, w)
<1>4. CASE i = index /\ (times # {} \/ w - 1 = cut)
  <2>1. /\ clock' = IF times = {} THEN 0 ELSE Landing(times)
        /\ active' = ActiveWord(timeline, clock')
        /\ cut' = cut /\ spoken' = spoken /\ timeline' = timeline
    BY <1>4 DEF SeekToWord
  <2>2. CASE spoken = {} /\ timeline = <<>> /\ active = NoWord
    <3>1. times = {}
      BY <2>2 DEF TimesOf
    <3>2. active' = NoWord
      BY <2>1, <2>2 DEF ActiveWord
    <3> QED BY <1>3, <1>4, <2>1, <2>2, <3>1, <3>2 DEF ClipTold
  <2>3. CASE Tells(timeline, spoken, cut)
    <3>1. Tells(timeline', spoken', cut') /\ active' = ActiveWord(timeline', clock')
      BY <2>1, <2>3
    <3>2. ClipTold'
      BY <3>1 DEF ClipTold
    <3>3. CASE times = {}
      BY <1>3, <1>4, <2>1, <3>2, <3>3
    <3>4. CASE times # {}
      <4>1. /\ clock' \in Nat
            /\ \E e \in spoken : cut + e.word = w /\ clock' <= e.start /\ e.start <= clock' + Back80
        BY <1>3, <2>1, <2>3, <3>4, LandingNear
      <4> QED BY <1>3, <2>1, <3>2, <4>1
    <3> QED BY <3>3, <3>4
  <2> QED BY <2>2, <2>3 DEF ClipRight, ClipTold
<1>5. CASE ~(i = index /\ (times # {} \/ w - 1 = cut))
  <2>1. NoClip(w - 1)
    BY <1>5 DEF SeekToWord
  <2>2. cut' = w - 1 /\ clock' = 0
    BY <2>1 DEF NoClip
  <2> QED BY <1>2, <2>1, <2>2, NoClipTold
<1> QED BY <1>4, <1>5

LEMMA ClickReads ==
    ASSUME parts # None, NEW shown, NEW t \in 1 .. Len(SurfaceTokens(doc, shown)),
           Click(SurfaceTokens(doc, shown), shown, t)
    PROVE  ClickRight'
<1> DEFINE tokens == SurfaceTokens(doc, shown)
<1> DEFINE norms == Norms(RunWords(parts))
<1> DEFINE found == WordIndexForSurfaceToken(norms, Norms(tokens), t)
<1>1. /\ found # None /\ parts' = parts /\ doc' = doc
      /\ clicked' = [shown |-> shown, token |-> t, word |-> found]
  BY DEF Click
<1>2. clicked'.shown = shown /\ clicked'.token = t /\ clicked'.word = found
  BY <1>1
<1>3. DOMAIN norms \subseteq Nat /\ DOMAIN Norms(tokens) = 1 .. Len(tokens)
  BY DEF Norms
<1>4. ASSUME Norms(SurfaceTokens(doc, DOMAIN doc)) = norms, shown = DOMAIN doc
      PROVE  HasAround(norms, found, t)
  <2>1. Norms(tokens) = norms /\ t \in DOMAIN norms
    BY <1>3, <1>4
  <2> HIDE DEF norms, tokens
  <2> QED BY <1>1, <1>3, <2>1, FoundHasAround
<1> HIDE DEF tokens, found
<1>5. ReadsClicked(norms)'
  BY <1>1, <1>2, <1>4 DEF ReadsClicked
<1> QED BY <1>1, <1>5 DEF ClickRight

LEMMA ClickWordRight ==
    ASSUME ClipRight, ClickWord
    PROVE  ClipRight'
<1>1. PICK shown : \E t \in 1 .. Len(SurfaceTokens(doc, shown)) :
                      Click(SurfaceTokens(doc, shown), shown, t)
  BY DEF ClickWord
<1>2. PICK t \in 1 .. Len(SurfaceTokens(doc, shown)) : Click(SurfaceTokens(doc, shown), shown, t)
  BY <1>1
<1>3. parts # None
  BY DEF ClickWord
<1> DEFINE found == WordIndexForSurfaceToken(Norms(RunWords(parts)),
                                             Norms(SurfaceTokens(doc, shown)), t)
<1> DEFINE i == PartAt(parts, found)
<1> DEFINE w == found - Before(parts, i)
<1>4. /\ SeekToWord(i, w) /\ parts' = parts
      /\ clicked' = [shown |-> shown, token |-> t, word |-> found]
  BY <1>2 DEF Click
<1> HIDE DEF found, i
<1>5. index' = i
  BY <1>4 DEF SeekToWord
<1>6. w = clicked'.word - Before(parts', index')
  BY <1>4, <1>5
<1> HIDE DEF w
<1>7. /\ cut' \in Nat /\ clock' \in Nat /\ ClipTold'
      /\ \/ cut' = w - 1 /\ clock' = 0
         \/ \E e \in spoken' : /\ cut' + e.word = w
                               /\ clock' <= e.start /\ e.start <= clock' + Back80
  BY <1>3, <1>4, SeekToWordReaches
<1>8. JumpReaches'
  BY <1>6, <1>7 DEF JumpReaches
<1>9. ClickRight'
  BY <1>2, <1>3, ClickReads
<1>10. parts' # None => WordKeys'
  BY <1>4 DEF ClipRight, WordKeys
<1> QED BY <1>7, <1>8, <1>9, <1>10 DEF ClipRight

LEMMA NextInv == Inv /\ [Next]_vars => Inv'
<1> SUFFICES ASSUME Inv, [Next]_vars PROVE Inv'
  OBVIOUS
<1>1. ClipRight /\ PromiseKept /\ RunIsDocument
  BY Halves
<1>2. SUFFICES ClipRight' /\ PromiseKept' /\ RunIsDocument'
  BY DEF Inv, ClipRight
<1>3. ASSUME NEW c \in Callers, Ask(c)
      PROVE  ClipRight' /\ PromiseKept' /\ RunIsDocument'
  <2>1. UNCHANGED <<doc, parts, index, clipVars, clicked>>
    BY <1>3 DEF Ask
  <2> QED BY <1>1, <1>3, <2>1, ClipKept, PromiseSteps, DocumentSteps
<1>4. CASE GetPage
  <2>1. UNCHANGED <<doc, parts, index, clipVars, clicked>>
    BY <1>4 DEF GetPage
  <2> QED BY <1>1, <1>4, <2>1, ClipKept, PromiseSteps, DocumentSteps
<1>5. CASE PageFails \/ NoText
  <2>1. Refuse
    BY <1>5 DEF PageFails, NoText
  <2>2. UNCHANGED <<doc, parts, index, clipVars, clicked>>
    BY <2>1 DEF Refuse
  <2> QED BY <1>1, <2>1, <2>2, ClipKept, PromiseSteps, DocumentSteps
<1>6. CASE Extracted
  <2>1. ClipRight'
    BY <1>1, <1>6, StartRunRight DEF Extracted, RunIsDocument
  <2> QED BY <1>1, <1>6, <2>1, PromiseSteps, DocumentSteps
<1>7. CASE Aligned
  <2>1. UNCHANGED <<doc, textVars, parts>> /\ UNCHANGED textVars
    BY <1>7 DEF Aligned
  <2> QED BY <1>1, <1>7, <2>1, AlignedRight, PromiseSteps, DocumentSteps
<1>8. CASE Progress
  <2>1. UNCHANGED <<doc, textVars, parts>> /\ UNCHANGED textVars
    BY <1>8 DEF Progress
  <2> QED BY <1>1, <1>8, <2>1, ProgressRight, PromiseSteps, DocumentSteps
<1>9. CASE NextPart
  <2>1. UNCHANGED <<doc, textVars, parts>> /\ UNCHANGED textVars
    BY <1>9 DEF NextPart
  <2> QED BY <1>1, <1>9, <2>1, NextPartRight, PromiseSteps, DocumentSteps
<1>10. CASE ClickWord
  <2>1. UNCHANGED <<doc, textVars, parts>> /\ UNCHANGED textVars
    BY <1>10 DEF ClickWord, Click
  <2> QED BY <1>1, <1>10, <2>1, ClickWordRight, PromiseSteps, DocumentSteps
<1>11. ASSUME NEW c \in Callers, AskAgain(c)
       PROVE  ClipRight' /\ PromiseKept' /\ RunIsDocument'
  <2>1. StartRun(PdfSpeechText(doc)) /\ doc \in Seq(PdfPage)
    BY <1>1, <1>11 DEF AskAgain, RunIsDocument
  <2> QED BY <1>1, <1>11, <2>1, StartRunRight, PromiseSteps, DocumentSteps
<1>12. CASE UNCHANGED vars
  <2>1. UNCHANGED <<doc, parts, index, clipVars, clicked>> /\ UNCHANGED textVars /\ UNCHANGED <<doc, textVars, parts>>
    BY <1>12 DEF vars
  <2> QED BY <1>1, <2>1, ClipKept, PromiseSteps, DocumentSteps
<1> QED BY <1>3, <1>4, <1>5, <1>6, <1>7, <1>8, <1>9, <1>10, <1>11, <1>12 DEF Next

LEMMA InvHolds == Spec => []Inv
  BY InitInv, NextInv, PTL DEF Spec

-----------------------------------------------------------------------------
(* What follows *)

(* Whoever waits for the text waits for an extraction that goes on, however  *)
(* many asked and however often it failed (fetchPdfDocumentText).            *)
THEOREM WaitersAreServed == Spec => []AskersServed
<1>1. Inv => AskersServed
  BY DEF Inv, PromiseKept
<1> QED BY <1>1, InvHolds, PTL

(* The parts speak the document: every word of it once, in order, however    *)
(* its text is cut, whoever asked and however many attempts failed before    *)
(* (fetchPdfDocumentText, splitTextForSpeech, readAlongTokens).              *)
THEOREM DocumentIsSpoken == Spec => []TextSpoken
<1>1. ASSUME Inv PROVE TextSpoken
  <2> SUFFICES ASSUME parts # None
               PROVE  Places(RunWords(parts)) = Places(WordsOf(NormalizeForSpeech(PdfSpeechText(doc))))
    BY DEF TextSpoken
  <2> DEFINE text == PdfSpeechText(doc)
  <2>1. doc \in Seq(PdfPage) /\ parts = PartsOf(text)
    BY <1>1 DEF Inv, RunIsDocument
  <2>2. text \in Seq(Printed)
    BY <2>1, PdfTextTyped
  <2> HIDE DEF text
  <2>3. Terms(RunWords(parts)) = Terms(WordsOf(NormalizeForSpeech(text)))
    BY <2>1, <2>2, PartsSpeak
  <2> QED BY <2>3, Zenon DEF Places, text
<1> QED BY <1>1, InvHolds, PTL

(* What is highlighted is what is heard, whatever words a clip leaves out,   *)
(* in whatever order its timings came and however they overlap               *)
(* (normalizeTimeline, activeWordForPart).                                   *)
THEOREM HeardIsHighlighted == Spec => []HighlightIsHeard
<1>1. ASSUME Inv PROVE HighlightIsHeard
  <2>1. CASE spoken = {}
    BY <2>1 DEF HighlightIsHeard
  <2>2. CASE Tells(timeline, spoken, cut) /\ active = ActiveWord(timeline, clock)
    BY <1>1, <2>2, NoneStarted, SomeStarted DEF Inv
  <2> QED BY <1>1, <2>1, <2>2 DEF Inv, ClipTold
<1> QED BY <1>1, InvHolds, PTL

(* A jump lands on its word or close before it (seekToWord, timeForWord).    *)
THEOREM JumpsReach == Spec => []JumpReaches
<1>1. Inv => JumpReaches
  BY DEF Inv
<1> QED BY <1>1, InvHolds, PTL

(* With the whole text rendered, a click reads from a word that has around   *)
(* it every word the clicked one has, for every text and however it was cut  *)
(* (wordIndexForSurfaceToken).                                               *)
THEOREM ClicksAreRight == Spec => []ClickRight
<1>1. Inv => ClickRight
  BY DEF Inv
<1> QED BY <1>1, InvHolds, PTL

-----------------------------------------------------------------------------
(* The page of a word *)

(* A place that has all the words around is as good as any.                  *)
LEMMA ScoreBounds ==
    ASSUME NEW norms, NEW w, NEW tokens, NEW t
    PROVE  LET full == Cardinality(Available(norms, w)) + (IF 0 \in Available(norms, w) THEN 1 ELSE 0)
           IN  /\ full \in Nat /\ Score(norms, w, tokens, t) \in Nat
               /\ Score(norms, w, tokens, t) <= full
               /\ Score(norms, w, tokens, t) = full <=> Matching(norms, w, tokens, t) = Available(norms, w)
<1> DEFINE around == Available(norms, w)
<1> DEFINE matching == Matching(norms, w, tokens, t)
<1>1. /\ IsFiniteSet(around) /\ Cardinality(around) \in Nat /\ Cardinality(matching) \in Nat
      /\ matching \subseteq around
  BY AroundIsFinite
<1>2. Score(norms, w, tokens, t) = Cardinality(matching) + (IF 0 \in matching THEN 1 ELSE 0)
  BY DEF Score
<1> HIDE DEF around, matching
<1>3. /\ Cardinality(matching) <= Cardinality(around)
      /\ Cardinality(around) = Cardinality(matching) => around = matching
  BY <1>1, FS_Subset
<1> QED BY <1>1, <1>2, <1>3 DEF around, matching

LEMMA FullIsBest ==
    ASSUME NEW norms, NEW w, NEW tokens, NEW own \in DOMAIN tokens, DOMAIN tokens \subseteq Nat,
           tokens[own] = norms[w], Matching(norms, w, tokens, own) = Available(norms, w),
           NEW expected \in Nat, NEW found, found # None,
           found = MatchIndexedSurfaceWord(norms, w, tokens, expected)
    PROVE  /\ found \in DOMAIN tokens
           /\ Matching(norms, w, tokens, found) = Available(norms, w)
           /\ expected = own => found = own
<1> DEFINE alike == {t \in DOMAIN tokens : tokens[t] = norms[w] /\ Enough(norms, w, tokens, t, 4)}
<1> DEFINE best == {t \in alike : \A u \in alike :
                       \/ Score(norms, w, tokens, u) < Score(norms, w, tokens, t)
                       \/ /\ Score(norms, w, tokens, u) = Score(norms, w, tokens, t)
                          /\ Distance(t, expected) <= Distance(u, expected)}
<1> DEFINE full == Cardinality(Available(norms, w)) + (IF 0 \in Available(norms, w) THEN 1 ELSE 0)
<1>1. found = IF best = {} THEN None ELSE Min(best)
  BY DEF MatchIndexedSurfaceWord
<1>2. best \subseteq Nat
  OBVIOUS
<1>3. found \in best
  <2> HIDE DEF best
  <2> QED BY <1>1, <1>2, MinOfNats
<1>4. /\ full \in Nat
      /\ \A t : /\ Score(norms, w, tokens, t) \in Nat /\ Score(norms, w, tokens, t) <= full
                /\ Score(norms, w, tokens, t) = full
                     <=> Matching(norms, w, tokens, t) = Available(norms, w)
  BY ScoreBounds
<1> HIDE DEF full
<1>5. found \in DOMAIN tokens /\ Enough(norms, w, tokens, found, 4)
  BY <1>3
<1>6. own \in alike
  <2> DEFINE wanted == Min({4, Cardinality(Available(norms, w)) + 1})
  <2>1. wanted \in Nat
    <3> DEFINE S == {4, Cardinality(Available(norms, w)) + 1}
    <3>1. S \subseteq Nat /\ S # {}
      BY AroundIsFinite
    <3> HIDE DEF S
    <3>2. Min(S) \in S
      BY <3>1, MinOfNats
    <3> QED BY <3>1, <3>2 DEF S
  <2>2. \A t : Enough(norms, w, tokens, t, 4) <=> Score(norms, w, tokens, t) >= wanted
    BY DEF Enough
  <2> HIDE DEF wanted
  <2>3. Score(norms, w, tokens, own) = full
    BY <1>4
  <2>4. Score(norms, w, tokens, own) >= wanted
    BY <1>4, <1>5, <2>1, <2>2, <2>3
  <2> QED BY <2>2, <2>4
<1>7. \/ Score(norms, w, tokens, own) < Score(norms, w, tokens, found)
      \/ /\ Score(norms, w, tokens, own) = Score(norms, w, tokens, found)
         /\ Distance(found, expected) <= Distance(own, expected)
  BY <1>3, <1>6
<1> HIDE DEF best, alike
<1>8. /\ Score(norms, w, tokens, found) = full
      /\ Distance(found, expected) <= Distance(own, expected)
  BY <1>4, <1>7
<1>9. Matching(norms, w, tokens, found) = Available(norms, w)
  BY <1>4, <1>8
<1>10. ASSUME expected = own PROVE found = own
  <2>1. own \in Nat /\ found \in Nat
    BY <1>5
  <2> QED BY <1>8, <1>10, <2>1 DEF Distance
<1> QED BY <1>5, <1>9, <1>10

LEMMA NormsAt ==
    ASSUME NEW words \in Seq(WordKind)
    PROVE  /\ DOMAIN Norms(words) = DOMAIN words /\ DOMAIN words \subseteq Nat
           /\ \A k \in DOMAIN words : Norms(words)[k] = words[k].norm
<1> HIDE DEF WordKind
<1>1. DOMAIN words = 1 .. Len(words)
  OBVIOUS
<1> QED BY <1>1 DEF Norms

LEMMA PlacedMatches ==
    ASSUME NEW words \in Seq(WordKind), NEW all \in Seq(WordKind), NEW d \in Int,
           PlacedAt(words, all, d), NEW w \in DOMAIN words
    PROVE  Matching(Norms(words), w, Norms(all), d + w) = Available(Norms(words), w)
<1>1. /\ DOMAIN Norms(words) = DOMAIN words /\ DOMAIN words \subseteq Nat
      /\ \A k \in DOMAIN words : Norms(words)[k] = words[k].norm
      /\ DOMAIN Norms(all) = DOMAIN all /\ DOMAIN all \subseteq Nat
      /\ \A k \in DOMAIN all : Norms(all)[k] = all[k].norm
  BY NormsAt
<1>2. ASSUME NEW o \in Available(Norms(words), w)
      PROVE  (d + w) + o \in DOMAIN Norms(all) /\ Norms(all)[(d + w) + o] = Norms(words)[w + o]
  <2>1. o \in Window /\ w + o \in DOMAIN words /\ words[w + o].norm # None
    BY <1>1 DEF Available
  <2>2. d + (w + o) \in DOMAIN all /\ all[d + (w + o)] = words[w + o]
    BY <2>1 DEF PlacedAt
  <2>3. d + (w + o) = (d + w) + o
    <3>1. o \in Int /\ w \in Int
      BY <1>1, <2>1 DEF Window
    <3> QED BY <3>1
  <2> QED BY <1>1, <2>1, <2>2, <2>3
<1> QED BY <1>2 DEF Matching

(* The words of a run, part by part. *)
LEMMA WordOfRun ==
    ASSUME NEW ps \in Seq(Seq(WordKind)), NEW i \in DOMAIN ps, NEW k \in DOMAIN ps[i]
    PROVE  /\ Before(ps, i) \in Nat /\ Before(ps, i) + k \in DOMAIN RunWords(ps)
           /\ RunWords(ps)[Before(ps, i) + k] = ps[i][k]
<1> DEFINE V == Seq(WordKind)
<1>1. ps \in Seq(V) /\ i \in 1 .. Len(ps)
  OBVIOUS
<1> HIDE DEF V
<1>2. i - 1 \in 0 .. Len(ps) /\ i \in 0 .. Len(ps) /\ Len(ps) \in Nat /\ ps[i] \in V
  BY <1>1
<1> DEFINE so == SubSeq(ps, 1, i - 1)
<1> DEFINE upto == SubSeq(ps, 1, i)
<1> DEFINE later == After(ps, i)
<1>3. so \in Seq(V) /\ upto \in Seq(V) /\ later \in Seq(V) /\ upto \o later = ps
  BY <1>1, <1>2, CutInTwo
<1>4. upto = so \o <<ps[i]>>
  <2>1. 1 \in 1 .. Len(ps)
    BY <1>1, <1>2
  <2> QED BY <1>1, <2>1, SubSeqRecursiveSecond
<1>5. upto = Append(so, ps[i])
  BY <1>2, <1>3, <1>4, AppendIsConcat
<1> HIDE DEF so, upto, later
<1> DEFINE ws == Concatenated(so)
<1> DEFINE part == ps[i]
<1> DEFINE rest == Concatenated(later)
<1>6. ws \in Seq(WordKind) /\ rest \in Seq(WordKind) /\ part \in Seq(WordKind)
  BY <1>2, <1>3, ConcatenatedTyped DEF V
<1>7. Concatenated(upto) = ws \o part
  <2>1. so \in Seq(Seq(WordKind)) /\ part \in Seq(WordKind)
    BY <1>3, <1>6 DEF V
  <2> HIDE DEF part
  <2>2. Concatenated(Append(so, part)) = Concatenated(so) \o part
    BY <2>1, ConcatenatedAppend
  <2> QED BY <1>5, <2>2, Zenon DEF part
<1>8. RunWords(ps) = (ws \o part) \o rest
  <2>1. upto \in Seq(Seq(WordKind)) /\ later \in Seq(Seq(WordKind))
    BY <1>3 DEF V
  <2>2. Concatenated(upto \o later) = Concatenated(upto) \o Concatenated(later)
    BY <2>1, ConcatenatedBoth
  <2> QED BY <1>3, <1>7, <2>2, Zenon DEF RunWords
<1>9. Before(ps, i) = Len(ws)
  BY DEF Before, RunWords, so
<1> HIDE DEF ws, part, rest, WordKind
<1> DEFINE both == ws \o part
<1>10. /\ both \in Seq(WordKind) /\ Len(both) = Len(ws) + Len(part) /\ Len(ws) \in Nat /\ Len(part) \in Nat
       /\ \A n \in 1 .. Len(part) : both[Len(ws) + n] = part[n]
  BY <1>6, ConcatAt
<1> HIDE DEF both
<1>11. /\ both \o rest \in Seq(WordKind) /\ Len(both \o rest) = Len(both) + Len(rest) /\ Len(rest) \in Nat
       /\ \A n \in 1 .. Len(both) : (both \o rest)[n] = both[n]
  <2>1. both \in Seq(WordKind) /\ rest \in Seq(WordKind)
    BY <1>6, <1>10
  <2> QED BY <2>1, ConcatAt, Zenon
<1>12. k \in 1 .. Len(part)
  <2>1. k \in DOMAIN part /\ DOMAIN part = 1 .. Len(part)
    BY <1>6 DEF part
  <2> QED BY <2>1
<1>13. Len(ws) + k \in 1 .. Len(both) /\ Len(ws) + k \in 1 .. Len(both \o rest)
  BY <1>10, <1>11, <1>12
<1>14. DOMAIN (both \o rest) = 1 .. Len(both \o rest)
  BY <1>11
<1>15. (both \o rest)[Len(ws) + k] = part[k]
  BY <1>10, <1>11, <1>12, <1>13
<1> QED BY <1>8, <1>9, <1>10, <1>13, <1>14, <1>15, Zenon DEF both, part

(* The words of the pages, found page by page, are those of the text.        *)
LEMMA SurfaceIsText ==
    ASSUME NEW pages \in Seq(PdfPage)
    PROVE  SurfaceWords(pages) = WordsOf(PdfSpeechText(pages))
<1> DEFINE V == Seq(Printed)
<1> DEFINE L == Len(pages)
<1> DEFINE texts == [p \in DOMAIN pages |-> SpeechPage(pages, p)]
<1>1. L \in Nat /\ DOMAIN pages = 1 .. L
  OBVIOUS
<1>2. \A p \in 1 .. L : /\ SpeechPage(pages, p) \in V
                        /\ NormalizeForSpeech(SpeechPage(pages, p)) = SpeechPage(pages, p)
  BY <1>1, PageUnbroken
<1> HIDE DEF V, L
<1>3. texts \in Seq(V) /\ Len(texts) = L /\ \A p \in 1 .. L : texts[p] = SpeechPage(pages, p)
  BY <1>1, <1>2
<1>4. PdfSpeechText(pages) = Joined(texts)
  BY DEF PdfSpeechText
<1> HIDE DEF texts
<1>5. WordsOf(Joined(texts)) = WordsIn(texts)
  BY <1>3, JoinedWords DEF V
<1>6. \A p \in 1 .. L : PartWords[texts[p]] = WordsOf(texts[p])
  <2> HIDE DEF Printed
  <2> QED BY <1>2, <1>3 DEF PartWords, V
<1>7. Mapped(texts, PartWords)
        = [p \in DOMAIN pages |-> WordsOf(NormalizeForSpeech(SpeechPage(pages, p)))]
  <2>1. \A p \in 1 .. L : PartWords[texts[p]] = WordsOf(NormalizeForSpeech(SpeechPage(pages, p)))
    BY <1>2, <1>3, <1>6
  <2> QED BY <1>1, <1>3, <2>1 DEF Mapped
<1> QED BY <1>4, <1>5, <1>7, Zenon DEF SurfaceWords, WordsIn

-----------------------------------------------------------------------------
(* While a run goes on, it is at one of its parts, its clip speaks words of  *)
(* that part, and the words of the surface are the document's.               *)
Standing ==
    parts # None =>
        /\ surface = SurfaceWords(doc)
        /\ index \in DOMAIN parts
        /\ \A e \in spoken : cut + e.word \in DOMAIN Part

LEMMA PartsTyped ==
    ASSUME RunIsDocument, parts # None
    PROVE  /\ doc \in Seq(PdfPage) /\ PdfSpeechText(doc) \in Seq(Printed)
           /\ parts = PartsOf(PdfSpeechText(doc)) /\ parts \in Seq(Seq(WordKind))
<1>1. doc \in Seq(PdfPage) /\ parts = PartsOf(PdfSpeechText(doc))
  BY DEF RunIsDocument
<1>2. PdfSpeechText(doc) \in Seq(Printed)
  BY <1>1, PdfTextTyped
<1> QED BY <1>1, <1>2, PartsSpeak

(* Words of a clip are words of its part. *)
LEMMA AnswersInPart ==
    ASSUME NEW part \in Seq(WordKind), NEW skipped \in Nat,
           NEW raw \in Answers(Len(part) - skipped), NEW e \in Range(raw)
    PROVE  skipped + e.word \in DOMAIN part
<1> DEFINE words == Len(part) - skipped
<1> HIDE DEF WordKind
<1>1. Len(part) \in Nat /\ DOMAIN part = 1 .. Len(part) /\ words \in Int
  OBVIOUS
<1>2. PICK n \in 1 .. words : raw \in [1 .. n -> Heard(words)]
  BY DEF Answers
<1>3. PICK k \in 1 .. n : e = raw[k]
  BY <1>2 DEF Range
<1>4. e \in Heard(words)
  BY <1>2, <1>3
<1>5. PICK j \in 1 .. words, t \in Timings : e = Timing(j, t)
  BY <1>4 DEF Heard
<1>6. e.word = j
  BY <1>5 DEF Timing
<1> QED BY <1>1, <1>5, <1>6

LEMMA StandingSteps ==
    ASSUME Inv, Standing, [Next]_vars
    PROVE  Standing'
<1> SUFFICES ASSUME parts' # None
             PROVE  /\ surface' = SurfaceWords(doc')
                    /\ index' \in DOMAIN parts'
                    /\ \A e \in spoken' : cut' + e.word \in DOMAIN parts'[index']
  BY DEF Standing, Part
<1>0. RunIsDocument /\ cut \in Nat
  BY DEF Inv
<1>1. ASSUME UNCHANGED <<doc, surface, parts, index, cut, spoken>>
      PROVE  /\ surface' = SurfaceWords(doc')
             /\ index' \in DOMAIN parts'
             /\ \A e \in spoken' : cut' + e.word \in DOMAIN parts'[index']
  BY <1>1 DEF Standing, Part
<1>2. ASSUME spoken' = {}
      PROVE  \A e \in spoken' : cut' + e.word \in DOMAIN parts'[index']
  BY <1>2
<1>3. ASSUME NEW c \in Callers, Ask(c)
      PROVE  UNCHANGED <<doc, surface, parts, index, cut, spoken>>
  BY <1>3 DEF Ask, clipVars
<1>4. ASSUME GetPage \/ PageFails \/ NoText \/ Progress
      PROVE  UNCHANGED <<doc, surface, parts, index, cut, spoken>>
  BY <1>4 DEF GetPage, PageFails, NoText, Refuse, Progress, clipVars, textVars
<1>5. ASSUME Extracted \/ \E c \in Callers : AskAgain(c)
      PROVE  surface' = SurfaceWords(doc') /\ index' \in DOMAIN parts' /\ spoken' = {}
  <2>1. /\ doc' = doc /\ surface' = SurfaceWords(doc)
        /\ StartRun(PdfSpeechText(doc))
    <3>1. CASE Extracted
      <4>1. read = doc
        BY <1>0, <3>1, AllReadIsDoc DEF Extracted
      <4> QED BY <3>1, <4>1 DEF Extracted
    <3>2. CASE \E c \in Callers : AskAgain(c)
      BY <1>0, <3>2 DEF AskAgain, RunIsDocument
    <3> QED BY <1>5, <3>1, <3>2
  <2>2. index' = 1 /\ spoken' = {}
    BY <2>1 DEF StartRun, NoClip
  <2>3. parts' = PartsOf(PdfSpeechText(doc)) /\ parts' # <<>>
    BY <2>1 DEF StartRun
  <2>4. PdfSpeechText(doc) \in Seq(Printed)
    BY <1>0, PdfTextTyped DEF RunIsDocument
  <2>5. parts' \in Seq(Seq(WordKind))
    BY <2>3, <2>4, PartsSpeak
  <2>6. 1 \in DOMAIN parts'
    <3> DEFINE V == Seq(WordKind)
    <3>1. parts' \in Seq(V)
      BY <2>5
    <3> HIDE DEF V
    <3> QED BY <2>3, <3>1
  <2> QED BY <2>1, <2>2, <2>6
<1>6. CASE Aligned
  <2>1. PICK raw \in Answers(Len(Part) - cut) : spoken' = Range(raw)
    BY <1>6 DEF Aligned
  <2>2. UNCHANGED <<doc, surface, parts, index, cut>> /\ parts # None
    BY <1>6 DEF Aligned, textVars
  <2>3. parts \in Seq(Seq(WordKind)) /\ index \in DOMAIN parts
    BY <1>0, <2>2, PartsTyped DEF Standing
  <2>4. Part \in Seq(WordKind)
    <3> DEFINE V == Seq(WordKind)
    <3>1. parts \in Seq(V)
      BY <2>3
    <3> HIDE DEF V
    <3>2. parts[index] \in V
      BY <2>3, <3>1
    <3> QED BY <3>2 DEF V, Part
  <2>5. \A e \in Range(raw) : cut + e.word \in DOMAIN Part
    BY <1>0, <2>1, <2>4, AnswersInPart
  <2> QED BY <2>1, <2>2, <2>5 DEF Standing, Part
<1>7. CASE NextPart
  <2>1. /\ parts # None /\ index < Len(parts) /\ index' = index + 1 /\ spoken' = {}
        /\ UNCHANGED <<doc, surface, parts>>
    BY <1>7 DEF NextPart, NoClip, textVars
  <2>2. parts \in Seq(Seq(WordKind)) /\ index \in DOMAIN parts
    BY <1>0, <2>1, PartsTyped DEF Standing
  <2>3. index + 1 \in DOMAIN parts
    <3> DEFINE V == Seq(WordKind)
    <3>1. parts \in Seq(V)
      BY <2>2
    <3> HIDE DEF V
    <3> QED BY <2>1, <2>2, <3>1
  <2> QED BY <1>2, <2>1, <2>3 DEF Standing
<1>8. CASE ClickWord
  <2>1. PICK i, w : SeekToWord(i, w) /\ UNCHANGED <<doc, surface, parts>> /\ parts # None
    BY <1>8 DEF ClickWord, Click, textVars
  <2>2. i \in DOMAIN parts /\ index' = i
    BY <2>1 DEF SeekToWord
  <2>3. CASE i = index /\ (TimesOf(timeline, w) # {} \/ w - 1 = cut)
    <3>1. UNCHANGED <<cut, spoken>>
      BY <2>1, <2>3 DEF SeekToWord
    <3> QED BY <1>1, <2>1, <2>2, <2>3, <3>1
  <2>4. CASE ~(i = index /\ (TimesOf(timeline, w) # {} \/ w - 1 = cut))
    <3>1. spoken' = {}
      BY <2>1, <2>4 DEF SeekToWord, NoClip
    <3> QED BY <1>2, <2>1, <2>2, <3>1 DEF Standing
  <2> QED BY <2>3, <2>4
<1>9. CASE UNCHANGED vars
  <2>1. UNCHANGED <<doc, surface, parts, index, cut, spoken>>
    BY <1>9 DEF vars, textVars, clipVars
  <2> QED BY <1>1, <2>1
<1> QED BY <1>1, <1>3, <1>4, <1>5, <1>6, <1>7, <1>8, <1>9 DEF Next

LEMMA StandingHolds == Spec => [](Inv /\ Standing)
<1>1. Init => Standing
  BY DEF Init, Standing
<1> QED BY <1>1, InvHolds, StandingSteps, PTL DEF Spec

(* The word that is highlighted is one of the words of the clip. *)
LEMMA ActiveIsSpoken ==
    ASSUME Inv, active # NoWord
    PROVE  \E e \in spoken : active = cut + e.word
<1>1. /\ cut \in Nat /\ clock \in Nat
      /\ Tells(timeline, spoken, cut) /\ active = ActiveWord(timeline, clock)
  BY DEF Inv, ClipTold
<1> DEFINE c == StartedBy(timeline, clock)
<1>2. /\ c \in Nat /\ c <= Len(timeline) /\ Len(timeline) \in Nat /\ Len(timeline) # 0
      /\ DOMAIN timeline = 1 .. Len(timeline)
  BY <1>1, StartedEntries
<1>3. \/ c = 0 /\ active = timeline[1].word
      \/ c # 0 /\ active = timeline[c].word
      \/ c # 0 /\ c < Len(timeline) /\ active = timeline[c + 1].word
  BY <1>1, <1>2 DEF ActiveWord, Tells
<1> HIDE DEF c
<1>4. PICK n \in DOMAIN timeline : active = timeline[n].word
  BY <1>2, <1>3
<1> QED BY <1>1, <1>4 DEF Tells, Times

LEMMA ActiveInPart ==
    ASSUME Inv, Standing, active # NoWord, parts # None
    PROVE  active \in DOMAIN Part
  BY ActiveIsSpoken DEF Standing

(* Without a run nothing is spoken. *)
Silent == parts = None => spoken = {}

LEMMA SilentSteps ==
    ASSUME Silent, [Next]_vars
    PROVE  Silent'
<1>1. ASSUME NEW c \in Callers, Ask(c)
      PROVE  Silent'
  BY <1>1 DEF Ask, clipVars, Silent
<1>2. CASE GetPage \/ PageFails \/ NoText
  BY <1>2 DEF GetPage, PageFails, NoText, Refuse, clipVars, Silent
<1>3. CASE Extracted \/ (\E c \in Callers : AskAgain(c)) \/ NextPart
  BY <1>3 DEF Extracted, AskAgain, StartRun, NextPart, NoClip, Silent
<1>4. CASE Aligned \/ Progress
  BY <1>4 DEF Aligned, Progress, Silent
<1>5. CASE ClickWord
  BY <1>5 DEF ClickWord, Click, Silent
<1>6. CASE UNCHANGED vars
  BY <1>6 DEF vars, clipVars, Silent
<1> QED BY <1>1, <1>2, <1>3, <1>4, <1>5, <1>6 DEF Next

LEMMA StandingAndSilent == Spec => [](Inv /\ Standing /\ Silent)
<1>1. Init => Silent
  BY DEF Init, Silent
<1> QED BY <1>1, StandingHolds, SilentSteps, PTL DEF Spec

(* No term of the document is broken at the end of a page: cleaning its      *)
(* pages joined changes nothing more.                                        *)
Unbroken == NormalizeForSpeech(PdfSpeechText(doc)) = PdfSpeechText(doc)

(* No part begins with what closes the term before it.                       *)
WellCut == \A i \in DOMAIN parts : Leads(parts[i])

(* The words of the surface that have all the words of a word of the part,   *)
(* it and those around it, are all on one page.                              *)
Alike(w) ==
    {t \in DOMAIN surface :
        Matching(Norms(Part), w, Norms(surface), t) = Available(Norms(Part), w)}
OnOnePage(w) ==
    /\ w \in DOMAIN Part /\ Part[w].norm # None
    /\ \A t, u \in Alike(w) : surface[t].page = surface[u].page

(* The words of the parts, one part after another, are the surface's.        *)
InPlace ==
    \A i \in DOMAIN parts : \A k \in DOMAIN parts[i] :
        /\ Before(parts, i) + k \in DOMAIN surface
        /\ surface[Before(parts, i) + k] = parts[i][k]

LEMMA PartsOfUnbroken ==
    ASSUME Inv, Standing, parts # None, Unbroken
    PROVE  LET text == PdfSpeechText(doc)
           IN  /\ text \in Seq(Printed) /\ surface = WordsOf(text) /\ surface \in Seq(WordKind)
               /\ DOMAIN parts = DOMAIN Split(text) /\ parts \in Seq(Seq(WordKind))
               /\ parts = [i \in DOMAIN Split(text) |-> WordsOf(Split(text)[i])]
<1>1. /\ doc \in Seq(PdfPage) /\ PdfSpeechText(doc) \in Seq(Printed)
      /\ parts = PartsOf(PdfSpeechText(doc)) /\ parts \in Seq(Seq(WordKind))
  BY PartsTyped DEF Inv
<1>2. surface = WordsOf(PdfSpeechText(doc))
  BY <1>1, SurfaceIsText DEF Standing
<1>3. surface \in Seq(WordKind)
  BY <1>1, <1>2, WordsOfTyped
<1>4. parts = [i \in DOMAIN Split(PdfSpeechText(doc)) |-> WordsOf(Split(PdfSpeechText(doc))[i])]
  BY <1>1 DEF PartsOf, Unbroken
<1> QED BY <1>1, <1>2, <1>3, <1>4

LEMMA WellCutInPlace ==
    ASSUME Inv, Standing, parts # None, Unbroken, WellCut
    PROVE  InPlace
<1> DEFINE text == PdfSpeechText(doc)
<1> DEFINE chunks == Split(text)
<1>1. /\ text \in Seq(Printed) /\ surface = WordsOf(text)
      /\ parts \in Seq(Seq(WordKind)) /\ DOMAIN parts = DOMAIN chunks
      /\ parts = [i \in DOMAIN chunks |-> WordsOf(chunks[i])]
  BY PartsOfUnbroken
<1>2. chunks \in Seq(Seq(Printed))
  BY <1>1, SplitSaysAll
<1>3. \A i \in DOMAIN chunks : Leads(WordsOf(chunks[i]))
  BY <1>1 DEF WellCut
<1>4. WordsIn(chunks) = WordsOf(text)
  <2> HIDE DEF text
  <2> QED BY <1>1, <1>3, PartsHaveWords
<1> HIDE DEF chunks
<1>5. Mapped(chunks, PartWords) = parts
  <2> DEFINE V == Seq(Printed)
  <2>1. chunks \in Seq(V) /\ PartWords = [t \in V |-> WordsOf(t)]
    BY <1>2 DEF PartWords
  <2> HIDE DEF V
  <2>2. DOMAIN chunks = 1 .. Len(chunks) /\ \A i \in DOMAIN chunks : PartWords[chunks[i]] = WordsOf(chunks[i])
    BY <2>1
  <2> QED BY <1>1, <2>2 DEF Mapped
<1>6. RunWords(parts) = surface
  BY <1>1, <1>4, <1>5, Zenon DEF RunWords, WordsIn
<1> QED BY <1>1, <1>6, WordOfRun DEF InPlace

(* The page found for a word that has a place on the surface is that of a    *)
(* place as good as its own, and its own when it is expected there.          *)
LEMMA FoundIsAlike ==
    ASSUME NEW words \in Seq(WordKind), NEW all \in Seq(WordKind), NEW d \in Int,
           PlacedAt(words, all, d), NEW w \in DOMAIN words,
           d + w \in DOMAIN all, all[d + w] = words[w],
           NEW expected \in Nat, NEW found, found # None,
           found = MatchIndexedSurfaceWord(Norms(words), w, Norms(all), expected)
    PROVE  /\ found \in DOMAIN all
           /\ Matching(Norms(words), w, Norms(all), found) = Available(Norms(words), w)
           /\ Matching(Norms(words), w, Norms(all), d + w) = Available(Norms(words), w)
           /\ expected = d + w => found = d + w
<1>1. /\ DOMAIN Norms(words) = DOMAIN words
      /\ \A k \in DOMAIN words : Norms(words)[k] = words[k].norm
      /\ DOMAIN Norms(all) = DOMAIN all /\ DOMAIN all \subseteq Nat
      /\ \A k \in DOMAIN all : Norms(all)[k] = all[k].norm
  BY NormsAt
<1>2. Matching(Norms(words), w, Norms(all), d + w) = Available(Norms(words), w)
  BY PlacedMatches
<1> DEFINE own == d + w
<1> DEFINE norms == Norms(words)
<1> DEFINE tokens == Norms(all)
<1>3. /\ own \in DOMAIN tokens /\ DOMAIN tokens \subseteq Nat /\ tokens[own] = norms[w]
      /\ Matching(norms, w, tokens, own) = Available(norms, w)
      /\ found = MatchIndexedSurfaceWord(norms, w, tokens, expected)
  BY <1>1, <1>2
<1> HIDE DEF own, norms, tokens
<1>4. /\ found \in DOMAIN tokens
      /\ Matching(norms, w, tokens, found) = Available(norms, w)
      /\ expected = own => found = own
  BY <1>3, FullIsBest
<1> QED BY <1>1, <1>2, <1>4 DEF own, norms, tokens

(* The document and its parts are such that a word's page can be told.       *)
PageSure == Unbroken /\ (WellCut \/ OnOnePage(active))

LEMMA SurePageIsRight ==
    ASSUME Inv, Standing, Silent, PageSure
    PROVE  PageRight
<1> SUFFICES ASSUME active # NoWord, PageForWord(active) # None
             PROVE  PageForWord(active) = Part[active].page
  BY DEF PageRight
<1>1. parts # None
  BY ActiveIsSpoken DEF Silent
<1>2. active \in DOMAIN Part /\ index \in DOMAIN parts
  BY <1>1, ActiveInPart DEF Standing
<1> DEFINE text == PdfSpeechText(doc)
<1>3. /\ text \in Seq(Printed) /\ surface = WordsOf(text) /\ surface \in Seq(WordKind)
      /\ DOMAIN parts = DOMAIN Split(text) /\ parts \in Seq(Seq(WordKind))
      /\ parts = [i \in DOMAIN Split(text) |-> WordsOf(Split(text)[i])]
  BY <1>1, PartsOfUnbroken DEF PageSure
<1>4. Part \in Seq(WordKind)
  <2> DEFINE V == Seq(WordKind)
  <2>1. parts \in Seq(V)
    BY <1>3
  <2> HIDE DEF V
  <2>2. parts[index] \in V
    BY <1>2, <2>1
  <2> QED BY <2>2 DEF V, Part
<1> DEFINE own == Before(parts, index) + active
<1>5. own \in Nat /\ Before(parts, index) \in Int
  <2>1. Before(parts, index) \in Nat
    BY <1>2, <1>3, WordOfRun DEF Part
  <2>2. active \in Nat
    <3> HIDE DEF WordKind
    <3> QED BY <1>2, <1>4
  <2> QED BY <2>1, <2>2
<1> DEFINE found == MatchIndexedSurfaceWord(Norms(Part), active, Norms(surface), own)
<1>6. found # None /\ PageForWord(active) = surface[found].page
  BY DEF PageForWord
<1>7. CASE WellCut
  <2>1. InPlace
    BY <1>1, <1>7, WellCutInPlace DEF PageSure
  <2> DEFINE d == Before(parts, index)
  <2>2. PlacedAt(Part, surface, d)
    BY <1>2, <2>1 DEF InPlace, PlacedAt, Part
  <2>3. d + active \in DOMAIN surface /\ surface[d + active] = Part[active]
    BY <1>2, <2>1 DEF InPlace, Part
  <2>4. found = own
    BY <1>2, <1>3, <1>4, <1>5, <1>6, <2>2, <2>3, FoundIsAlike
  <2> QED BY <1>6, <2>3, <2>4
<1>8. CASE OnOnePage(active)
  <2>1. Part[active].norm # None
    BY <1>8 DEF OnOnePage
  <2>2. Placed(Part, surface)
    <3>1. Part = WordsOf(Split(text)[index])
      BY <1>2, <1>3 DEF Part
    <3> HIDE DEF text
    <3> QED BY <1>2, <1>3, <3>1, PartsArePlaced
  <2>3. PICK d \in Int : PlacedAt(Part, surface, d)
    BY <2>2 DEF Placed
  <2>4. d + active \in DOMAIN surface /\ surface[d + active] = Part[active]
    BY <1>2, <2>1, <2>3 DEF PlacedAt
  <2>5. /\ found \in DOMAIN surface
        /\ Matching(Norms(Part), active, Norms(surface), found) = Available(Norms(Part), active)
        /\ Matching(Norms(Part), active, Norms(surface), d + active) = Available(Norms(Part), active)
    BY <1>2, <1>3, <1>4, <1>5, <1>6, <2>3, <2>4, FoundIsAlike
  <2> HIDE DEF found
  <2>6. found \in Alike(active) /\ d + active \in Alike(active)
    BY <2>4, <2>5 DEF Alike
  <2>7. surface[found].page = surface[d + active].page
    BY <1>8, <2>6 DEF OnOnePage
  <2> QED BY <1>6, <2>4, <2>7
<1> QED BY <1>7, <1>8 DEF PageSure

(* When no term is broken at a page's end and no part begins with what       *)
(* closes the term before it, the words of the parts are, one after another, *)
(* those of the surface: every word is where it is expected to be            *)
(* (splitTextForSpeech, buildPdfSurfaceIndex, pdfPageForWord).               *)
THEOREM PartsInPlace == Spec => [](parts # None /\ Unbroken /\ WellCut => InPlace)
<1>1. Inv /\ Standing => (parts # None /\ Unbroken /\ WellCut => InPlace)
  BY WellCutInPlace
<1> QED BY <1>1, StandingHolds, PTL

(* The page found for the word that is heard is the page it is printed on,   *)
(* for every document and clip, when no term is broken at a page's end and   *)
(* either no part begins with what closes a term, or the places that have    *)
(* the same words around it are all on one page (matchIndexedSurfaceWord,    *)
(* pdfPageForWord).                                                          *)
THEOREM PagesAreRight == Spec => [](PageSure => PageRight)
<1>1. Inv /\ Standing /\ Silent => (PageSure => PageRight)
  BY SurePageIsRight
<1> QED BY <1>1, StandingAndSilent, PTL
=============================================================================
