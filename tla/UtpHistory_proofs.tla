-------------------------- MODULE UtpHistory_proofs --------------------------
(***************************************************************************)
(* Proofs about UtpHistory, for every history and every packet number.     *)
(* insertIntoList adds one number to the set its list stands for and keeps *)
(* the intervals apart, whichever of its branches is taken; insert keeps a *)
(* history well formed and forgets the lowest interval only; and a frame   *)
(* decodes to the intervals that were encoded.                             *)
(***************************************************************************)
EXTENDS UtpHistory, TLAPS, WellFoundedInduction

\* An interval and its ends.
LEMMA IntervalFacts ==
  ASSUME NEW a \in Nat, NEW b \in Nat
  PROVE  Interval(a, b) \in Intervals /\ Interval(a, b).low = a /\ Interval(a, b).high = b
BY DEF Interval, Intervals

\* The intervals of a list.
LEMMA ListFacts ==
  ASSUME NEW l \in Seq(Intervals)
  PROVE  /\ Len(l) \in Nat /\ DOMAIN l = 1..Len(l)
         /\ \A i \in 1..Len(l) : l[i] \in Intervals /\ l[i].low \in Nat /\ l[i].high \in Nat
<1>1. Len(l) \in Nat /\ DOMAIN l = 1..Len(l) /\ \A i \in 1..Len(l) : l[i] \in Intervals
  OBVIOUS
<1>2. QED
  BY <1>1 DEF Intervals

\* What a list stands for.
LEMMA NumbersFacts ==
  ASSUME NEW l \in Seq(Intervals)
  PROVE  /\ Numbers(l) \subseteq Nat
         /\ \A n \in Nat : n \in Numbers(l) <=> \E i \in 1..Len(l) : l[i].low <= n /\ n <= l[i].high
<1>1. /\ DOMAIN l = 1..Len(l)
      /\ \A i \in 1..Len(l) : l[i].low \in Nat /\ l[i].high \in Nat
  BY ListFacts
<1>2. QED
  BY <1>1 DEF Numbers

\* A nonempty set of naturals has a least element, and Min returns it: the
\* walk down the list stops there.
LEMMA MinFacts ==
  ASSUME NEW S \in SUBSET Nat, S # {}
  PROVE  Min(S) \in S /\ \A y \in S : Min(S) <= y
<1> DEFINE R == {ss \in Nat \X Nat : ss[1] < ss[2]}
<1>1. IsWellFoundedOn(R, Nat)
  BY NatLessThanWellFounded DEF OpToRel
<1> HIDE DEF R
<1>2. PICK x \in S : \A y \in S : ~ (<<y, x>> \in R)
  BY <1>1, WFMin, Zenon
<1>3. \A y \in S : x <= y
  <2>1. SUFFICES ASSUME NEW y \in S, y < x PROVE FALSE
    OBVIOUS
  <2>2. <<y, x>> \in Nat \X Nat /\ <<y, x>>[1] = y /\ <<y, x>>[2] = x
    OBVIOUS
  <2>3. <<y, x>> \in R
    BY <2>1, <2>2, Zenon DEF R
  <2>4. QED
    BY <1>2, <2>3
<1>4. QED
  BY <1>3 DEF Min

\* Two lists one after the other.
LEMMA ConcatLists ==
  ASSUME NEW a \in Seq(Intervals), NEW b \in Seq(Intervals), NEW m, m = a \o b
  PROVE  /\ m \in Seq(Intervals) /\ Len(m) = Len(a) + Len(b)
         /\ Len(a) \in Nat /\ Len(b) \in Nat
         /\ \A j \in 1..Len(a) : m[j] = a[j]
         /\ \A j \in (Len(a) + 1)..(Len(a) + Len(b)) : m[j] = b[j - Len(a)]
OBVIOUS

\* A slice of a list.
LEMMA SliceList ==
  ASSUME NEW l \in Seq(Intervals), NEW a \in 1..(Len(l) + 1), NEW b \in 0..Len(l), a <= b + 1,
         NEW m, m = SubSeq(l, a, b)
  PROVE  /\ m \in Seq(Intervals) /\ Len(m) = b - a + 1
         /\ \A j \in 1..(b - a + 1) : m[j] = l[a + j - 1]
OBVIOUS

\* A new interval between two others.
LEMMA InsertAtFacts ==
  ASSUME NEW l \in Seq(Intervals), NEW i \in 1..(Len(l) + 1), NEW e \in Intervals
  PROVE  LET m == InsertAt(l, i, e)
         IN  /\ m \in Seq(Intervals) /\ Len(m) = Len(l) + 1 /\ m[i] = e
             /\ \A j \in 1..(i - 1) : m[j] = l[j]
             /\ \A j \in (i + 1)..(Len(l) + 1) : m[j] = l[j - 1]
<1> SUFFICES ASSUME NEW m, m = InsertAt(l, i, e)
             PROVE  /\ m \in Seq(Intervals) /\ Len(m) = Len(l) + 1 /\ m[i] = e
                    /\ \A j \in 1..(i - 1) : m[j] = l[j]
                    /\ \A j \in (i + 1)..(Len(l) + 1) : m[j] = l[j - 1]
  OBVIOUS
<1> DEFINE a == SubSeq(l, 1, i - 1)
           b == SubSeq(l, i, Len(l))
<1>1. /\ a \in Seq(Intervals) /\ Len(a) = i - 1 /\ \A j \in 1..(i - 1) : a[j] = l[j]
      /\ b \in Seq(Intervals) /\ Len(b) = Len(l) - i + 1 /\ \A j \in 1..(Len(l) - i + 1) : b[j] = l[i + j - 1]
  OBVIOUS
<1>2. m = a \o <<e>> \o b
  BY DEF InsertAt
<1> HIDE DEF a, b
<1> DEFINE u == <<e>>
<1>3. u \in Seq(Intervals) /\ Len(u) = 1 /\ u[1] = e /\ Len(l) \in Nat
  OBVIOUS
<1> HIDE DEF u
<1> DEFINE c == a \o u
<1> HIDE DEF c
<1>4. /\ c \in Seq(Intervals) /\ Len(c) = i
      /\ (\A j \in 1..(i - 1) : c[j] = a[j]) /\ c[i] = u[1]
  <2>1. /\ c \in Seq(Intervals) /\ Len(c) = Len(a) + Len(u) /\ \A j \in 1..Len(a) : c[j] = a[j]
        /\ \A j \in (Len(a) + 1)..(Len(a) + Len(u)) : c[j] = u[j - Len(a)]
    <3>1. a \in Seq(Intervals) /\ u \in Seq(Intervals) /\ c = a \o u
      BY <1>1, <1>3 DEF c
    <3>2. QED
      BY <3>1, ConcatLists
  <2>2. i \in (Len(a) + 1)..(Len(a) + Len(u)) /\ i - Len(a) = 1 /\ Len(a) = i - 1 /\ Len(a) + Len(u) = i
    BY <1>1, <1>3
  <2>3. QED
    BY <2>1, <2>2
<1>5. m = c \o b
  BY <1>2 DEF u, c
<1>6. /\ m \in Seq(Intervals) /\ Len(m) = i + Len(b)
      /\ \A j \in 1..i : m[j] = c[j]
      /\ \A j \in (i + 1)..(i + Len(b)) : m[j] = b[j - i]
  <2>1. c \in Seq(Intervals) /\ b \in Seq(Intervals)
    BY <1>1, <1>4
  <2>2. /\ m \in Seq(Intervals) /\ Len(m) = Len(c) + Len(b) /\ \A j \in 1..Len(c) : m[j] = c[j]
        /\ \A j \in (Len(c) + 1)..(Len(c) + Len(b)) : m[j] = b[j - Len(c)]
    BY <1>5, <2>1, ConcatLists
  <2>3. QED
    BY <1>4, <2>2
<1>7. ASSUME NEW j \in (i + 1)..(Len(l) + 1) PROVE m[j] = l[j - 1]
  <2>1. j - i \in 1..(Len(l) - i + 1) /\ i + (j - i) - 1 = j - 1 /\ j \in (i + 1)..(i + Len(b))
    BY <1>1, <1>3
  <2>2. b[j - i] = l[i + (j - i) - 1]
    BY <1>1, <2>1
  <2>3. QED
    BY <1>6, <2>1, <2>2
<1>8. c[i] = e
  BY <1>3, <1>4
<1>9. QED
  BY <1>1, <1>3, <1>4, <1>6, <1>7, <1>8

\* Two neighbours replaced by one interval.
LEMMA MergedFacts ==
  ASSUME NEW l \in Seq(Intervals), NEW i \in 1..(Len(l) - 1), NEW e \in Intervals
  PROVE  LET m == RemoveAt(ReplaceAt(l, i, e), i + 1)
         IN  /\ m \in Seq(Intervals) /\ Len(m) = Len(l) - 1 /\ m[i] = e
             /\ \A j \in 1..(i - 1) : m[j] = l[j]
             /\ \A j \in (i + 1)..(Len(l) - 1) : m[j] = l[j + 1]
<1> SUFFICES ASSUME NEW m, m = RemoveAt(ReplaceAt(l, i, e), i + 1)
             PROVE  /\ m \in Seq(Intervals) /\ Len(m) = Len(l) - 1 /\ m[i] = e
                    /\ \A j \in 1..(i - 1) : m[j] = l[j]
                    /\ \A j \in (i + 1)..(Len(l) - 1) : m[j] = l[j + 1]
  OBVIOUS
<1>1. PICK k \in Seq(Intervals) : /\ k = ReplaceAt(l, i, e) /\ Len(k) = Len(l) /\ k[i] = e
                                 /\ \A j \in 1..Len(l) : j # i => k[j] = l[j]
  BY DEF ReplaceAt
<1> DEFINE a == SubSeq(k, 1, i)
           b == SubSeq(k, i + 2, Len(k))
<1>2. Len(l) \in Nat /\ 1 \in 1..(Len(k) + 1) /\ i \in 0..Len(k) /\ i + 2 \in 1..(Len(k) + 1)
  BY <1>1
<1>3. /\ a \in Seq(Intervals) /\ Len(a) = i - 1 + 1 /\ \A j \in 1..(i - 1 + 1) : a[j] = k[1 + j - 1]
  BY <1>2, SliceList
<1>4. /\ b \in Seq(Intervals) /\ Len(b) = Len(k) - (i + 2) + 1
      /\ \A j \in 1..(Len(k) - (i + 2) + 1) : b[j] = k[i + 2 + j - 1]
  BY <1>2, SliceList
<1>5. m = a \o b
  <2>1. (i + 1) - 1 = i /\ (i + 1) + 1 = i + 2
    OBVIOUS
  <2>2. QED
    BY <1>1, <2>1 DEF RemoveAt
<1> HIDE DEF a, b
<1>6. /\ m \in Seq(Intervals) /\ Len(m) = i + Len(b) /\ \A j \in 1..i : m[j] = a[j]
      /\ \A j \in (i + 1)..(i + Len(b)) : m[j] = b[j - i]
  <2>1. /\ m \in Seq(Intervals) /\ Len(m) = Len(a) + Len(b) /\ \A j \in 1..Len(a) : m[j] = a[j]
        /\ \A j \in (Len(a) + 1)..(Len(a) + Len(b)) : m[j] = b[j - Len(a)]
    <3>1. a \in Seq(Intervals) /\ b \in Seq(Intervals)
      BY <1>3, <1>4
    <3>2. ASSUME NEW n, n = a \o b
          PROVE  /\ n \in Seq(Intervals) /\ Len(n) = Len(a) + Len(b) /\ \A j \in 1..Len(a) : n[j] = a[j]
                 /\ \A j \in (Len(a) + 1)..(Len(a) + Len(b)) : n[j] = b[j - Len(a)]
      BY <3>1, <3>2, ConcatLists
    <3>3. QED
      BY <1>5, <3>2
  <2>2. Len(a) = i
    BY <1>3
  <2>3. QED
    BY <2>1, <2>2
<1>7. ASSUME NEW j \in (i + 1)..(Len(l) - 1) PROVE m[j] = l[j + 1]
  <2>1. /\ j - i \in 1..(Len(k) - (i + 2) + 1) /\ i + 2 + (j - i) - 1 = j + 1 /\ j \in (i + 1)..(i + Len(b))
        /\ j + 1 \in 1..Len(l) /\ j + 1 # i
    <3>1. Len(k) = Len(l) /\ Len(b) = Len(l) - i - 1 /\ Len(l) \in Nat
      BY <1>1, <1>2, <1>4
    <3>2. QED
      BY <3>1
  <2>2. b[j - i] = k[i + 2 + (j - i) - 1]
    BY <1>4, <2>1
  <2>3. QED
    BY <1>1, <1>6, <2>1, <2>2
<1>8. ASSUME NEW j \in 1..i PROVE m[j] = k[j]
  <2>1. 1 + j - 1 = j /\ j \in 1..(i - 1 + 1)
    OBVIOUS
  <2>2. QED
    BY <1>3, <1>6, <2>1
<1>9. QED
  BY <1>1, <1>2, <1>4, <1>6, <1>7, <1>8

\* l with pn added: the intervals stay apart and stand for one number more.
Adds(l, pn, m) ==
  /\ m \in Seq(Intervals) /\ m # <<>> /\ Len(m) <= Len(l) + 1
  /\ Descending(m) /\ Numbers(m) = Numbers(l) \cup {pn}

\* How to show that: what each interval of m comes from, and that none is lost.
LEMMA AddsBy ==
  ASSUME NEW l \in Seq(Intervals), NEW pn \in Nat, NEW m \in Seq(Intervals), Descending(m),
         Len(m) > 0, Len(m) <= Len(l) + 1,
         \A n \in Nat : (\E i \in 1..Len(m) : m[i].low <= n /\ n <= m[i].high)
                         <=> n = pn \/ \E i \in 1..Len(l) : l[i].low <= n /\ n <= l[i].high
  PROVE  Adds(l, pn, m)
<1>1. /\ Numbers(l) \subseteq Nat /\ Numbers(m) \subseteq Nat
      /\ \A n \in Nat : n \in Numbers(l) <=> \E i \in 1..Len(l) : l[i].low <= n /\ n <= l[i].high
      /\ \A n \in Nat : n \in Numbers(m) <=> \E i \in 1..Len(m) : m[i].low <= n /\ n <= m[i].high
  BY NumbersFacts
<1>2. Numbers(m) = Numbers(l) \cup {pn}
  BY <1>1
<1>3. m # <<>>
  OBVIOUS
<1>4. QED
  BY <1>2, <1>3 DEF Adds

\* A number that touches no interval.
LEMMA PlaceNew ==
  ASSUME NEW l \in Seq(Intervals), Descending(l), NEW pn \in Nat, NEW i \in 1..(Len(l) + 1),
         \A j \in 1..(i - 1) : pn + 1 < l[j].low, \A j \in i..Len(l) : l[j].high + 1 < pn,
         NEW m, m = InsertAt(l, i, Interval(pn, pn))
  PROVE  Adds(l, pn, m)
<1> DEFINE e == Interval(pn, pn)
           n == Len(l)
<1>1. e \in Intervals /\ e.low = pn /\ e.high = pn
  BY IntervalFacts
<1> HIDE DEF e
<1>2. m = InsertAt(l, i, e)
  BY DEF e
<1>3. /\ m \in Seq(Intervals) /\ Len(m) = n + 1 /\ m[i] = e
      /\ \A j \in 1..(i - 1) : m[j] = l[j]
      /\ \A j \in (i + 1)..(n + 1) : m[j] = l[j - 1]
  <2> DEFINE q == InsertAt(l, i, e)
  <2>1. /\ q \in Seq(Intervals) /\ Len(q) = n + 1 /\ q[i] = e
        /\ \A j \in 1..(i - 1) : q[j] = l[j]
        /\ \A j \in (i + 1)..(n + 1) : q[j] = l[j - 1]
    BY <1>1, InsertAtFacts
  <2>2. m = q
    BY <1>2
  <2> HIDE DEF q
  <2>3. QED
    BY <2>1, <2>2
<1>4. n \in Nat /\ \A j \in 1..n : l[j].low \in Nat /\ l[j].high \in Nat /\ l[j].low <= l[j].high
  BY ListFacts DEF Descending
<1>5. \A j, k \in 1..n : j < k => l[k].high + 1 < l[j].low
  BY DEF Descending
<1> HIDE DEF n
<1>6. \A j \in 1..(n + 1) : \/ j \in 1..(i - 1) /\ j \in 1..n
                            \/ j = i
                            \/ j \in (i + 1)..(n + 1) /\ j - 1 \in i..n /\ j - 1 \in 1..n
  BY <1>4 DEF n
<1>7. ASSUME NEW j \in 1..(n + 1) PROVE m[j].low <= m[j].high
  <2>1. CASE j \in 1..(i - 1) /\ j \in 1..n
    BY <1>3, <1>4, <2>1
  <2>2. CASE j = i
    BY <1>1, <1>3, <2>2
  <2>3. CASE j \in (i + 1)..(n + 1) /\ j - 1 \in i..n /\ j - 1 \in 1..n
    BY <1>3, <1>4, <2>3
  <2>4. QED
    BY <1>6, <2>1, <2>2, <2>3
<1>8. \A j \in 1..(i - 1) : pn + 1 < l[j].low
  OBVIOUS
<1>9. \A j \in i..n : l[j].high + 1 < pn
  BY DEF n
<1>10. ASSUME NEW j \in 1..(n + 1), NEW k \in 1..(n + 1), j < k PROVE m[k].high + 1 < m[j].low
  <2>1. CASE j \in 1..(i - 1) /\ j \in 1..n
    <3>1. m[j] = l[j]
      BY <1>3, <2>1
    <3>2. CASE k \in 1..(i - 1) /\ k \in 1..n
      BY <1>3, <1>5, <1>10, <2>1, <3>1, <3>2
    <3>3. CASE k = i
      BY <1>1, <1>3, <1>8, <2>1, <3>1, <3>3
    <3>4. CASE k \in (i + 1)..(n + 1) /\ k - 1 \in i..n /\ k - 1 \in 1..n
      <4>1. m[k] = l[k - 1] /\ j < k - 1
        BY <1>3, <2>1, <3>4
      <4>2. QED
        BY <1>5, <2>1, <3>1, <3>4, <4>1
    <3>5. QED
      BY <1>6, <3>2, <3>3, <3>4
  <2>2. CASE j = i
    <3>1. k \in (i + 1)..(n + 1) /\ k - 1 \in i..n /\ m[k] = l[k - 1]
      BY <1>3, <1>4, <1>10, <2>2
    <3>2. QED
      BY <1>1, <1>3, <1>9, <2>2, <3>1
  <2>3. CASE j \in (i + 1)..(n + 1) /\ j - 1 \in i..n /\ j - 1 \in 1..n
    <3>1. k \in (i + 1)..(n + 1) /\ k - 1 \in 1..n /\ j - 1 < k - 1
      BY <1>4, <1>10, <2>3
    <3>2. m[k] = l[k - 1] /\ m[j] = l[j - 1]
      BY <1>3, <2>3, <3>1
    <3>3. QED
      BY <1>5, <2>3, <3>1, <3>2
  <2>4. QED
    BY <1>6, <2>1, <2>2, <2>3
<1>11. Descending(m)
  BY <1>3, <1>7, <1>10 DEF Descending
<1>12. ASSUME NEW x \in Nat
       PROVE  (\E j \in 1..(n + 1) : m[j].low <= x /\ x <= m[j].high)
                <=> x = pn \/ \E j \in 1..n : l[j].low <= x /\ x <= l[j].high
  <2>1. ASSUME NEW j \in 1..(n + 1), m[j].low <= x, x <= m[j].high
        PROVE  x = pn \/ \E k \in 1..n : l[k].low <= x /\ x <= l[k].high
    BY <1>1, <1>3, <1>6, <2>1
  <2>2. m[i].low <= pn /\ pn <= m[i].high /\ i \in 1..(n + 1)
    BY <1>1, <1>3 DEF n
  <2>3. ASSUME NEW k \in 1..n PROVE \E j \in 1..(n + 1) : m[j] = l[k]
    <3>1. CASE k < i
      BY <1>3, <1>4, <3>1
    <3>2. CASE k >= i
      <4>1. k + 1 \in (i + 1)..(n + 1) /\ (k + 1) - 1 = k /\ k + 1 \in 1..(n + 1)
        BY <1>4, <3>2
      <4>2. m[k + 1] = l[k]
        BY <1>3, <4>1
      <4>3. QED
        BY <4>1, <4>2
    <3>3. QED
      BY <1>4, <3>1, <3>2
  <2>4. QED
    BY <2>1, <2>2, <2>3
<1>13. Len(m) = n + 1 /\ Len(m) > 0 /\ Len(m) <= Len(l) + 1 /\ n = Len(l)
  BY <1>3, <1>4 DEF n
<1>14. QED
  BY <1>3, <1>11, <1>12, <1>13, AddsBy

\* A number next to an interval that moves no other.
LEMMA Widen ==
  ASSUME NEW l \in Seq(Intervals), Descending(l), NEW pn \in Nat, NEW i \in 1..Len(l),
         NEW low \in Nat, NEW high \in Nat, low <= high,
         \A j \in 1..(i - 1) : high + 1 < l[j].low, \A j \in (i + 1)..Len(l) : l[j].high + 1 < low,
         \A n \in Nat : low <= n /\ n <= high <=> n = pn \/ (l[i].low <= n /\ n <= l[i].high),
         NEW m, m = ReplaceAt(l, i, Interval(low, high))
  PROVE  Adds(l, pn, m)
<1> DEFINE e == Interval(low, high)
<1>1. e \in Intervals /\ e.low = low /\ e.high = high
  BY IntervalFacts
<1> HIDE DEF e
<1>2. m = ReplaceAt(l, i, e)
  BY DEF e
<1>3. /\ m \in Seq(Intervals) /\ Len(m) = Len(l) /\ m[i] = e /\ Len(l) \in Nat
      /\ \A j \in 1..Len(l) : j # i => m[j] = l[j]
  BY <1>1, <1>2 DEF ReplaceAt
<1>4. /\ \A j \in 1..Len(l) : l[j].low \in Nat /\ l[j].high \in Nat /\ l[j].low <= l[j].high
      /\ \A j, k \in 1..Len(l) : j < k => l[k].high + 1 < l[j].low
  BY ListFacts DEF Descending
<1>5. \A j \in 1..Len(l) : (j < i => high + 1 < l[j].low) /\ (j > i => l[j].high + 1 < low)
  BY <1>3
<1>6. Descending(m)
  <2>1. \A j \in 1..Len(l) : m[j].low <= m[j].high
    BY <1>1, <1>3, <1>4
  <2>2. ASSUME NEW j \in 1..Len(l), NEW k \in 1..Len(l), j < k PROVE m[k].high + 1 < m[j].low
    <3>1. CASE j = i
      BY <1>1, <1>3, <1>5, <2>2, <3>1
    <3>2. CASE k = i
      BY <1>1, <1>3, <1>5, <2>2, <3>2
    <3>3. CASE j # i /\ k # i
      BY <1>3, <1>4, <2>2, <3>3
    <3>4. QED
      BY <3>1, <3>2, <3>3
  <2>3. QED
    BY <1>3, <2>1, <2>2 DEF Descending
<1>7. ASSUME NEW n \in Nat
      PROVE  (\E j \in 1..Len(m) : m[j].low <= n /\ n <= m[j].high)
               <=> n = pn \/ \E j \in 1..Len(l) : l[j].low <= n /\ n <= l[j].high
  <2>1. m[i].low <= n /\ n <= m[i].high <=> n = pn \/ (l[i].low <= n /\ n <= l[i].high)
    BY <1>1, <1>3
  <2>2. QED
    BY <1>3, <2>1
<1>8. Len(m) > 0 /\ Len(m) <= Len(l) + 1
  BY <1>3
<1>9. QED
  BY <1>3, <1>6, <1>7, <1>8, AddsBy

\* A number that closes the gap between two intervals.
LEMMA Join ==
  ASSUME NEW l \in Seq(Intervals), Descending(l), NEW pn \in Nat, NEW i \in 1..(Len(l) - 1),
         pn + 1 = l[i].low, l[i + 1].high + 1 = pn,
         NEW m, m = RemoveAt(ReplaceAt(l, i, Interval(l[i + 1].low, l[i].high)), i + 1)
  PROVE  Adds(l, pn, m)
<1> DEFINE n == Len(l)
<1>1. n \in Nat /\ i \in 1..n /\ i + 1 \in 1..n
  BY ListFacts
<1>2. /\ \A j \in 1..n : l[j].low \in Nat /\ l[j].high \in Nat /\ l[j].low <= l[j].high
      /\ \A j, k \in 1..n : j < k => l[k].high + 1 < l[j].low
  BY ListFacts DEF Descending
<1>3. PICK e \in Intervals : /\ e = Interval(l[i + 1].low, l[i].high)
                             /\ e.low = l[i + 1].low /\ e.high = l[i].high
  BY <1>1, <1>2, IntervalFacts
<1>4. /\ m \in Seq(Intervals) /\ Len(m) = n - 1 /\ m[i] = e
      /\ \A j \in 1..(i - 1) : m[j] = l[j]
      /\ \A j \in (i + 1)..(n - 1) : m[j] = l[j + 1]
  <2> DEFINE q == RemoveAt(ReplaceAt(l, i, e), i + 1)
  <2>1. /\ q \in Seq(Intervals) /\ Len(q) = n - 1 /\ q[i] = e
        /\ \A j \in 1..(i - 1) : q[j] = l[j]
        /\ \A j \in (i + 1)..(n - 1) : q[j] = l[j + 1]
    BY <1>1, MergedFacts
  <2>2. m = q
    BY <1>3
  <2> HIDE DEF q
  <2>3. QED
    BY <2>1, <2>2
<1> HIDE DEF n
<1>5. \A j \in 1..(n - 1) : \/ j \in 1..(i - 1) /\ j \in 1..n
                            \/ j = i
                            \/ j \in (i + 1)..(n - 1) /\ j + 1 \in 1..n /\ j + 1 > i + 1
  BY <1>1
<1>6. e.low <= e.high
  BY <1>1, <1>2, <1>3
<1>7. \A j \in 1..(n - 1) : m[j].low <= m[j].high
  BY <1>2, <1>4, <1>5, <1>6
<1>8. ASSUME NEW j \in 1..(n - 1), NEW k \in 1..(n - 1), j < k PROVE m[k].high + 1 < m[j].low
  <2>1. CASE j \in 1..(i - 1) /\ j \in 1..n
    <3>1. CASE k \in 1..(i - 1) /\ k \in 1..n
      BY <1>2, <1>4, <1>8, <2>1, <3>1
    <3>2. CASE k = i
      BY <1>1, <1>2, <1>3, <1>4, <1>8, <2>1, <3>2
    <3>3. CASE k \in (i + 1)..(n - 1) /\ k + 1 \in 1..n /\ k + 1 > i + 1
      <4>1. m[k] = l[k + 1] /\ m[j] = l[j] /\ j < k + 1
        BY <1>4, <1>8, <2>1, <3>3
      <4>2. QED
        BY <1>2, <2>1, <3>3, <4>1
    <3>4. QED
      BY <1>5, <3>1, <3>2, <3>3
  <2>2. CASE j = i
    <3>1. k \in (i + 1)..(n - 1) /\ k + 1 \in 1..n /\ k + 1 > i + 1 /\ m[k] = l[k + 1]
      BY <1>4, <1>5, <1>8, <2>2
    <3>2. QED
      BY <1>1, <1>2, <1>3, <1>4, <2>2, <3>1
  <2>3. CASE j \in (i + 1)..(n - 1) /\ j + 1 \in 1..n /\ j + 1 > i + 1
    <3>1. k \in (i + 1)..(n - 1) /\ k + 1 \in 1..n /\ j + 1 < k + 1
      BY <1>1, <1>8, <2>3
    <3>2. m[k] = l[k + 1] /\ m[j] = l[j + 1]
      BY <1>4, <2>3, <3>1
    <3>3. QED
      BY <1>2, <2>3, <3>1, <3>2
  <2>4. QED
    BY <1>5, <2>1, <2>2, <2>3
<1>9. Descending(m)
  BY <1>4, <1>7, <1>8 DEF Descending
<1>10. ASSUME NEW x \in Nat
       PROVE  (\E j \in 1..Len(m) : m[j].low <= x /\ x <= m[j].high)
                <=> x = pn \/ \E j \in 1..n : l[j].low <= x /\ x <= l[j].high
  <2>1. e.low <= x /\ x <= e.high <=>
          \/ x = pn
          \/ l[i].low <= x /\ x <= l[i].high
          \/ l[i + 1].low <= x /\ x <= l[i + 1].high
    BY <1>1, <1>2, <1>3
  <2>2. i \in 1..(n - 1) /\ m[i] = e
    BY <1>4 DEF n
  <2>3. ASSUME NEW j \in 1..(n - 1), j # i PROVE \E k \in 1..n : m[j] = l[k]
    BY <1>4, <1>5, <2>3
  <2>4. ASSUME NEW k \in 1..n, k # i, k # i + 1 PROVE \E j \in 1..(n - 1) : m[j] = l[k]
    <3>1. CASE k < i
      <4>1. k \in 1..(i - 1) /\ k \in 1..(n - 1)
        BY <1>1, <3>1
      <4>2. QED
        BY <1>4, <4>1
    <3>2. CASE k > i + 1
      <4>1. k - 1 \in (i + 1)..(n - 1) /\ (k - 1) + 1 = k /\ k - 1 \in 1..(n - 1)
        BY <1>1, <3>2
      <4>2. QED
        BY <1>4, <4>1
    <3>3. QED
      BY <1>1, <2>4, <3>1, <3>2
  <2>5. Len(m) = n - 1
    BY <1>4
  <2>6. QED
    BY <1>1, <2>1, <2>2, <2>3, <2>4, <2>5
<1>11. Len(m) > 0 /\ Len(m) <= Len(l) + 1
  BY <1>1, <1>4 DEF n
<1>12. QED
  BY <1>4, <1>9, <1>10, <1>11, AddsBy DEF n

\* insertIntoList, whichever branch it takes, adds pn and nothing else.  Of the
\* merges only the one with the interval below can come about.
LEMMA InsertFacts ==
  ASSUME NEW l \in Seq(Intervals), Descending(l), NEW pn \in Nat
  PROVE  Adds(l, pn, insertIntoList(l, pn))
<1> DEFINE n == Len(l)
           hits == {i \in 1..n : pn + 1 >= l[i].low}
           at == IF hits = {} THEN n + 1 ELSE Min(hits)
           m == insertIntoList(l, pn)
<1>1. /\ n \in Nat
      /\ \A j \in 1..n : l[j].low \in Nat /\ l[j].high \in Nat /\ l[j].low <= l[j].high
      /\ \A j, k \in 1..n : j < k => l[k].high + 1 < l[j].low
  BY ListFacts DEF Descending
<1>2. PICK i \in 1..(n + 1) : /\ i = at
                              /\ \A j \in 1..(i - 1) : pn + 1 < l[j].low
                              /\ hits = {} => i = n + 1
                              /\ hits # {} => i \in 1..n /\ pn + 1 >= l[i].low
  <2>1. CASE hits = {}
    <3>1. at = n + 1 /\ \A j \in 1..n : pn + 1 < l[j].low
      BY <1>1, <2>1
    <3>2. QED
      BY <1>1, <2>1, <3>1
  <2>2. CASE hits # {}
    <3>1. hits \in SUBSET Nat
      BY <1>1
    <3>2. Min(hits) \in hits /\ \A y \in hits : Min(hits) <= y
      BY <2>2, <3>1, MinFacts
    <3>3. PICK i : i = Min(hits)
      OBVIOUS
    <3>4. i \in 1..n /\ pn + 1 >= l[i].low /\ at = i
      BY <2>2, <3>2, <3>3
    <3>5. \A j \in 1..(i - 1) : pn + 1 < l[j].low
      <4> TAKE j \in 1..(i - 1)
      <4>1. j \in 1..n /\ j < i
        BY <1>1, <3>4
      <4>2. j \notin hits
        BY <3>2, <3>3, <3>4, <4>1
      <4>3. QED
        BY <1>1, <4>1, <4>2
    <3>6. i \in 1..(n + 1)
      BY <1>1, <3>4
    <3> HIDE DEF hits, at
    <3>7. QED
      BY <2>2, <3>4, <3>5, <3>6
  <2>3. QED
    BY <2>1, <2>2
<1>3. m = IF hits = {} \/ l[i].high + 1 < pn
          THEN InsertAt(l, i, Interval(pn, pn))
          ELSE IF pn \in l[i].low .. l[i].high
          THEN l
          ELSE IF pn + 1 = l[i].low
          THEN IF i > 1 /\ l[i - 1].high + 1 = pn
               THEN RemoveAt(ReplaceAt(l, i - 1, Interval(l[i - 1].low, l[i].high)), i - 1 + 1)
               ELSE IF i < n /\ l[i + 1].high + 1 = pn
               THEN RemoveAt(ReplaceAt(l, i, Interval(l[i + 1].low, l[i].high)), i + 1)
               ELSE ReplaceAt(l, i, Interval(pn, l[i].high))
          ELSE IF i < n /\ l[i + 1].low = pn + 1
               THEN RemoveAt(ReplaceAt(l, i, Interval(l[i].low, l[i + 1].high)), i + 1)
               ELSE ReplaceAt(l, i, Interval(l[i].low, pn))
  BY <1>2, Zenon DEF insertIntoList
<1> HIDE DEF hits, at, m
<1>4. CASE hits = {} \/ l[i].high + 1 < pn
  <2>1. m = InsertAt(l, i, Interval(pn, pn))
    BY <1>3, <1>4
  <2>2. \A j \in i..n : l[j].high + 1 < pn
    <3> TAKE j \in i..n
    <3>1. hits # {} /\ j \in 1..n /\ i \in 1..n
      BY <1>1, <1>2
    <3>2. l[i].high + 1 < pn
      BY <1>4, <3>1
    <3>3. j = i \/ (i < j /\ l[j].high + 1 < l[i].low)
      BY <1>1, <3>1
    <3>4. QED
      BY <1>1, <3>1, <3>2, <3>3
  <2>3. QED
    BY <1>2, <2>1, <2>2, PlaceNew DEF m
<1>5. CASE ~(hits = {} \/ l[i].high + 1 < pn)
  <2>1. i \in 1..n /\ pn + 1 >= l[i].low /\ l[i].high + 1 >= pn
    BY <1>1, <1>2, <1>5
  <2>2. CASE pn \in l[i].low .. l[i].high
    <3>1. m = l
      BY <1>3, <1>5, <2>2
    <3>2. \A x \in Nat : (\E j \in 1..n : l[j].low <= x /\ x <= l[j].high)
                          <=> x = pn \/ \E j \in 1..n : l[j].low <= x /\ x <= l[j].high
      BY <1>1, <2>1, <2>2
    <3>3. Adds(l, pn, l)
      <4>1. Len(l) > 0 /\ Len(l) <= Len(l) + 1
        BY <1>1, <2>1
      <4>2. QED
        BY <3>2, <4>1, AddsBy
    <3>4. QED
      BY <3>1, <3>3 DEF m
  <2>3. CASE pn \notin l[i].low .. l[i].high /\ pn + 1 = l[i].low
    <3>1. ~(i > 1 /\ l[i - 1].high + 1 = pn)
      <4>1. SUFFICES ASSUME i > 1, l[i - 1].high + 1 = pn PROVE FALSE
        OBVIOUS
      <4>2. i - 1 \in 1..(i - 1) /\ i - 1 \in 1..n
        BY <1>1, <2>1, <4>1
      <4>3. pn + 1 < l[i - 1].low
        BY <1>2, <4>2
      <4>4. l[i - 1].low \in Nat /\ l[i - 1].high \in Nat /\ l[i - 1].low <= l[i - 1].high
        BY <1>1, <4>2
      <4>5. QED
        BY <4>1, <4>3, <4>4
    <3>2. CASE i < n /\ l[i + 1].high + 1 = pn
      <4>1. m = RemoveAt(ReplaceAt(l, i, Interval(l[i + 1].low, l[i].high)), i + 1)
        BY <1>3, <1>5, <2>3, <3>1, <3>2
      <4>2. i \in 1..(n - 1)
        BY <1>1, <2>1, <3>2
      <4>3. QED
        BY <2>3, <3>2, <4>1, <4>2, Join DEF m
    <3>3. CASE ~(i < n /\ l[i + 1].high + 1 = pn)
      <4>1. m = ReplaceAt(l, i, Interval(pn, l[i].high))
        BY <1>3, <1>5, <2>3, <3>1, <3>3
      <4>2. l[i].high \in Nat /\ pn <= l[i].high
        BY <1>1, <2>1, <2>3
      <4>3. \A j \in 1..(i - 1) : l[i].high + 1 < l[j].low
        <5> TAKE j \in 1..(i - 1)
        <5>1. j \in 1..n /\ j < i
          BY <1>1, <2>1
        <5>2. QED
          BY <1>1, <2>1, <5>1
      <4>4. \A j \in (i + 1)..n : l[j].high + 1 < pn
        <5> TAKE j \in (i + 1)..n
        <5>1. i + 1 \in 1..n /\ j \in 1..n /\ i < i + 1 /\ i < n
          BY <1>1, <2>1
        <5>2. l[i + 1].high + 1 < l[i].low /\ l[i + 1].high + 1 # pn
          BY <1>1, <2>1, <3>3, <5>1
        <5>3. l[i + 1].high + 1 < pn
          BY <1>1, <2>3, <5>1, <5>2
        <5>4. j = i + 1 \/ (i + 1 < j /\ l[j].high + 1 < l[i + 1].low)
          BY <1>1, <5>1
        <5>5. QED
          BY <1>1, <5>1, <5>3, <5>4
      <4>5. \A x \in Nat : pn <= x /\ x <= l[i].high <=> x = pn \/ (l[i].low <= x /\ x <= l[i].high)
        BY <1>1, <2>1, <2>3
      <4>6. QED
        BY <2>1, <4>1, <4>2, <4>3, <4>4, <4>5, Widen DEF m
    <3>4. QED
      BY <3>2, <3>3
  <2>4. CASE pn \notin l[i].low .. l[i].high /\ pn + 1 # l[i].low
    <3>1. pn = l[i].high + 1
      BY <1>1, <2>1, <2>4
    <3>2. ~(i < n /\ l[i + 1].low = pn + 1)
      <4>1. SUFFICES ASSUME i < n, l[i + 1].low = pn + 1 PROVE FALSE
        OBVIOUS
      <4>2. i + 1 \in 1..n /\ i < i + 1
        BY <1>1, <2>1, <4>1
      <4>3. l[i + 1].high + 1 < l[i].low
        BY <1>1, <2>1, <4>2
      <4>4. /\ l[i].low \in Nat /\ l[i].high \in Nat /\ l[i].low <= l[i].high
            /\ l[i + 1].low \in Nat /\ l[i + 1].high \in Nat /\ l[i + 1].low <= l[i + 1].high
        BY <1>1, <2>1, <4>2
      <4>5. l[i + 1].low = (l[i].high + 1) + 1
        BY <3>1, <4>1
      <4>6. \A a, b, c, d \in Nat : a <= b /\ c <= d /\ d + 1 < a => c # (b + 1) + 1
        OBVIOUS
      <4>7. QED
        BY <4>3, <4>4, <4>5, <4>6, Zenon
    <3>3. m = ReplaceAt(l, i, Interval(l[i].low, pn))
      BY <1>3, <1>5, <2>4, <3>2
    <3>4. l[i].low \in Nat /\ l[i].low <= pn
      BY <1>1, <2>1, <3>1
    <3>5. \A j \in (i + 1)..n : l[j].high + 1 < l[i].low
      BY <1>1, <2>1
    <3>6. \A x \in Nat : l[i].low <= x /\ x <= pn <=> x = pn \/ (l[i].low <= x /\ x <= l[i].high)
      BY <1>1, <2>1, <3>1
    <3>7. QED
      BY <1>2, <2>1, <3>3, <3>4, <3>5, <3>6, Widen DEF m
  <2>5. QED
    BY <2>2, <2>3, <2>4
<1>6. QED
  BY <1>4, <1>5

\* The greatest number a list stands for is the end of its first interval, and
\* every interval's ends belong to it.
LEMMA TopFacts ==
  ASSUME NEW l \in Seq(Intervals), Descending(l)
  PROVE  /\ \A i \in 1..Len(l) : l[i].low \in Numbers(l) /\ l[i].high \in Numbers(l)
         /\ Len(l) > 0 => \A x \in Numbers(l) : x <= l[1].high
<1>1. /\ Len(l) \in Nat
      /\ \A j \in 1..Len(l) : l[j].low \in Nat /\ l[j].high \in Nat /\ l[j].low <= l[j].high
      /\ \A j, k \in 1..Len(l) : j < k => l[k].high + 1 < l[j].low
  BY ListFacts DEF Descending
<1>2. /\ Numbers(l) \subseteq Nat
      /\ \A n \in Nat : n \in Numbers(l) <=> \E i \in 1..Len(l) : l[i].low <= n /\ n <= l[i].high
  BY NumbersFacts
<1>3. ASSUME NEW i \in 1..Len(l) PROVE l[i].low \in Numbers(l) /\ l[i].high \in Numbers(l)
  BY <1>1, <1>2
<1>4. ASSUME Len(l) > 0, NEW x \in Numbers(l) PROVE x <= l[1].high
  <2>1. PICK i \in 1..Len(l) : x \in Nat /\ l[i].low <= x /\ x <= l[i].high
    BY <1>2
  <2>2. 1 \in 1..Len(l)
    BY <1>1, <1>4
  <2>3. CASE i = 1
    BY <2>1, <2>3
  <2>4. CASE 1 < i
    <3>1. l[i].high + 1 < l[1].low /\ l[1].low <= l[1].high
      BY <1>1, <2>2, <2>4
    <3>2. QED
      BY <1>1, <2>1, <2>2, <3>1
  <2>5. QED
    BY <1>1, <2>3, <2>4
<1>5. QED
  BY <1>3, <1>4

\* Without its last interval a list stands for the numbers above that one.
LEMMA DropFacts ==
  ASSUME NEW m \in Seq(Intervals), Descending(m), Len(m) > 1, NEW f, f = Front(m),
         NEW c, c = m[Len(m)].high + 1
  PROVE  /\ f \in Seq(Intervals) /\ Len(f) = Len(m) - 1 /\ Descending(f) /\ c \in Nat
         /\ \A i \in 1..Len(f) : f[i] = m[i] /\ c <= f[i].low
         /\ Numbers(f) = {x \in Numbers(m) : x >= c}
<1> DEFINE n == Len(m)
<1>1. /\ n \in Nat /\ n \in 1..n
      /\ \A j \in 1..n : m[j].low \in Nat /\ m[j].high \in Nat /\ m[j].low <= m[j].high
      /\ \A j, k \in 1..n : j < k => m[k].high + 1 < m[j].low
  BY ListFacts DEF Descending
<1>2. f \in Seq(Intervals) /\ Len(f) = n - 1 /\ \A i \in 1..(n - 1) : f[i] = m[i]
  <2>1. f = SubSeq(m, 1, n - 1)
    BY DEF Front
  <2>2. QED
    BY <1>1, <2>1
<1> HIDE DEF n
<1>3. \A i \in 1..(n - 1) : i \in 1..n /\ i < n
  BY <1>1
<1>4. Descending(f)
  <2>1. \A i \in 1..(n - 1) : f[i].low <= f[i].high
    BY <1>1, <1>2, <1>3
  <2>2. ASSUME NEW j \in 1..(n - 1), NEW k \in 1..(n - 1), j < k PROVE f[k].high + 1 < f[j].low
    BY <1>1, <1>2, <1>3, <2>2
  <2>3. QED
    BY <1>2, <2>1, <2>2 DEF Descending
<1>5. c = m[n].high + 1 /\ c \in Nat
  BY <1>1 DEF n
<1>6. ASSUME NEW i \in 1..(n - 1) PROVE c <= f[i].low
  <2>1. i \in 1..n /\ n \in 1..n /\ i < n /\ f[i] = m[i]
    BY <1>1, <1>2, <1>3
  <2>2. m[n].high + 1 < m[i].low
    BY <1>1, <2>1
  <2>3. m[n].high \in Nat /\ m[i].low \in Nat
    BY <1>1, <2>1
  <2>4. QED
    BY <1>5, <2>1, <2>2, <2>3
<1>7. Numbers(f) = {x \in Numbers(m) : x >= c}
  <2>1. /\ Numbers(m) \subseteq Nat /\ Numbers(f) \subseteq Nat
        /\ \A x \in Nat : x \in Numbers(m) <=> \E i \in 1..n : m[i].low <= x /\ x <= m[i].high
    BY NumbersFacts, <1>2 DEF n
  <2>2. \A x \in Nat : x \in Numbers(f) <=> \E i \in 1..(n - 1) : f[i].low <= x /\ x <= f[i].high
    BY NumbersFacts, <1>2
  <2>3. ASSUME NEW x \in Numbers(f) PROVE x \in Numbers(m) /\ x >= c
    <3>1. PICK i \in 1..(n - 1) : x \in Nat /\ f[i].low <= x /\ x <= f[i].high
      BY <2>1, <2>2
    <3>2. x \in Numbers(m)
      BY <1>2, <1>3, <2>1, <3>1
    <3>3. f[i].low \in Nat /\ c <= f[i].low
      BY <1>1, <1>2, <1>3, <1>6
    <3>4. QED
      BY <1>5, <3>1, <3>2, <3>3
  <2>4. ASSUME NEW x \in Numbers(m), x >= c PROVE x \in Numbers(f)
    <3>1. PICK i \in 1..n : x \in Nat /\ m[i].low <= x /\ x <= m[i].high
      BY <2>1
    <3>2. i # n
      BY <1>1, <1>5, <2>4, <3>1
    <3>3. i \in 1..(n - 1)
      BY <1>1, <3>2
    <3>4. QED
      BY <1>2, <2>2, <3>1, <3>3
  <2>5. QED
    BY <2>3, <2>4
<1>8. QED
  BY <1>2, <1>4, <1>5, <1>6, <1>7 DEF n

\* What insert does to a history: nothing below the cutoff; otherwise the
\* number is added, and when that makes one interval too many the lowest one
\* goes and the cutoff moves above it.
Inserted(h, pn, g, m) ==
  /\ Adds(h.list, pn, m)
  /\ g.largest = (IF pn > h.largest THEN pn ELSE h.largest)
  /\ Len(m) <= MAX_RANGES => g.list = m /\ g.cutoff = h.cutoff
  /\ Len(m) > MAX_RANGES => g.list = Front(m) /\ g.cutoff = m[Len(m)].high + 1

LEMMA InsertedFacts ==
  ASSUME NEW h, WellFormed(h), NEW pn \in Nat, pn >= h.cutoff, NEW g, g = insert(h, pn)
  PROVE  /\ g = [list |-> g.list, cutoff |-> g.cutoff, largest |-> g.largest]
         /\ Inserted(h, pn, g, insertIntoList(h.list, pn))
<1> DEFINE m == insertIntoList(h.list, pn)
           a == IF pn > h.largest THEN pn ELSE h.largest
           k == [h EXCEPT !.list = m, !.largest = a]
<1>1. /\ h \in [list : Seq(Intervals), cutoff : Nat, largest : Nat]
      /\ h.list \in Seq(Intervals) /\ Descending(h.list) /\ h.cutoff \in Nat
  BY DEF WellFormed
<1>2. Adds(h.list, pn, m)
  BY <1>1, InsertFacts
<1>3. Len(m) \in Nat /\ m # <<>>
  BY <1>2 DEF Adds
<1>4. g = IF Len(k.list) > MAX_RANGES THEN dropOldestRange(k) ELSE k
  <2>1. ~(pn < h.cutoff)
    BY <1>1
  <2>2. QED
    BY <2>1, Zenon DEF insert
<1> HIDE DEF m, a
<1>5. k = [list |-> m, cutoff |-> h.cutoff, largest |-> a]
  <2> DEFINE r == [list |-> m, cutoff |-> h.cutoff, largest |-> a]
  <2>1. DOMAIN k = {"list", "cutoff", "largest"} /\ DOMAIN r = {"list", "cutoff", "largest"}
    BY <1>1
  <2>2. k.list = r.list /\ k.cutoff = r.cutoff /\ k.largest = r.largest
    BY <1>1
  <2>3. k = [x \in {"list", "cutoff", "largest"} |-> k[x]]
    BY <1>1
  <2>4. r = [x \in {"list", "cutoff", "largest"} |-> r[x]]
    OBVIOUS
  <2>5. \A x \in {"list", "cutoff", "largest"} : k[x] = r[x]
    BY <2>2
  <2> HIDE DEF r, k
  <2>6. k = r
    BY <2>3, <2>4, <2>5
  <2>7. QED
    BY <2>6 DEF r
<1> HIDE DEF k
<1>6. CASE Len(m) > MAX_RANGES
  <2>1. k.list = m /\ k.list # <<>>
    BY <1>3, <1>5
  <2>2. g = [k EXCEPT !.list = Front(k.list), !.cutoff = Last(k.list).high + 1]
    BY <1>4, <1>6, <2>1 DEF dropOldestRange
  <2>3. g = [list |-> Front(m), cutoff |-> m[Len(m)].high + 1, largest |-> a]
    BY <1>5, <2>1, <2>2 DEF Last
  <2>4. QED
    BY <1>2, <1>3, <1>6, <2>3, HistoryAssumption DEF Inserted, m, a
<1>7. CASE ~(Len(m) > MAX_RANGES)
  <2>1. g = [list |-> m, cutoff |-> h.cutoff, largest |-> a]
    BY <1>4, <1>5, <1>7
  <2>2. QED
    BY <1>2, <1>3, <1>7, <2>1, HistoryAssumption DEF Inserted, m, a
<1>8. QED
  BY <1>6, <1>7

\* insert keeps a history well formed and makes nothing up.
THEOREM InsertWellFormed ==
  ASSUME NEW h, WellFormed(h), NEW pn \in Nat \ {0}
  PROVE  /\ WellFormed(insert(h, pn)) /\ insert(h, pn).list # <<>>
         /\ Numbers(insert(h, pn).list) \subseteq Numbers(h.list) \cup {pn}
<1> SUFFICES ASSUME NEW g, g = insert(h, pn)
             PROVE  /\ WellFormed(g) /\ g.list # <<>>
                    /\ Numbers(g.list) \subseteq Numbers(h.list) \cup {pn}
  OBVIOUS
<1>1. /\ h.list \in Seq(Intervals) /\ Descending(h.list) /\ h.cutoff \in Nat /\ h.largest \in Nat
      /\ \A i \in 1..Len(h.list) : h.cutoff <= h.list[i].low
      /\ h.list = <<>> => h.cutoff = 0 /\ h.largest = 0
      /\ h.list # <<>> => h.list[1].high = h.largest
  BY DEF WellFormed
<1>2. CASE pn < h.cutoff
  <2>1. g = h
    BY <1>2, Zenon DEF insert
  <2>2. h.list # <<>>
    BY <1>1, <1>2
  <2>3. QED
    BY <2>1, <2>2
<1>3. CASE pn >= h.cutoff
  <2> DEFINE m == insertIntoList(h.list, pn)
             n == Len(m)
  <2>1. g = [list |-> g.list, cutoff |-> g.cutoff, largest |-> g.largest] /\ Inserted(h, pn, g, m)
    BY <1>3, InsertedFacts
  <2> HIDE DEF m
  <2>2. /\ m \in Seq(Intervals) /\ m # <<>> /\ Descending(m) /\ Numbers(m) = Numbers(h.list) \cup {pn}
        /\ n \in Nat /\ n > 0
    BY <2>1 DEF Inserted, Adds
  <2>3. /\ \A i \in 1..n : m[i].low \in Numbers(m) /\ m[i].high \in Numbers(m)
        /\ \A x \in Numbers(m) : x <= m[1].high
    BY <2>2, TopFacts
  <2>4. /\ Len(h.list) \in Nat
        /\ \A i \in 1..Len(h.list) : h.list[i].low \in Numbers(h.list) /\ h.list[i].high \in Numbers(h.list)
        /\ Len(h.list) > 0 => \A x \in Numbers(h.list) : x <= h.list[1].high
        /\ Numbers(h.list) \subseteq Nat
    BY <1>1, TopFacts, ListFacts, NumbersFacts
  <2>5. \A x \in Numbers(m) : x \in Nat /\ x >= h.cutoff
    <3>1. ASSUME NEW x \in Numbers(h.list) PROVE x >= h.cutoff
      <4>1. PICK i \in 1..Len(h.list) : h.list[i].low <= x
        BY <1>1, <2>4, NumbersFacts
      <4>2. h.list[i].low \in Nat /\ x \in Nat
        BY <2>4
      <4>3. QED
        BY <1>1, <4>1, <4>2
    <3>2. QED
      BY <1>3, <2>2, <2>4, <3>1
  <2>6. g.largest = m[1].high
    <3>1. g.largest = (IF pn > h.largest THEN pn ELSE h.largest)
      BY <2>1 DEF Inserted
    <3>2. 1 \in 1..n /\ m[1].high \in Numbers(m) /\ pn <= m[1].high
      BY <2>2, <2>3
    <3>3. m[1].high \in Nat
      BY <2>5, <3>2
    <3>4. CASE h.list = <<>>
      <4>1. Numbers(h.list) = {}
        <5>1. Len(h.list) = 0
          BY <3>4
        <5>2. QED
          BY <1>1, <2>4, <5>1, NumbersFacts
      <4>2. m[1].high = pn
        BY <2>2, <3>2, <4>1
      <4>3. QED
        BY <1>1, <3>1, <3>4, <4>2
    <3>5. CASE h.list # <<>>
      <4>1. Len(h.list) > 0 /\ 1 \in 1..Len(h.list)
        BY <1>1, <3>5
      <4>2. h.largest \in Numbers(h.list) /\ \A x \in Numbers(h.list) : x <= h.largest
        BY <1>1, <2>4, <3>5, <4>1
      <4>3. h.largest <= m[1].high /\ (m[1].high = pn \/ m[1].high <= h.largest)
        BY <2>2, <2>3, <3>2, <4>2
      <4>4. QED
        BY <1>1, <3>1, <3>2, <3>3, <4>3
    <3>6. QED
      BY <3>4, <3>5
  <2>7. m[1].high \in Nat
    BY <2>2, <2>3, <2>5
  <2>8. CASE n <= MAX_RANGES
    <3>1. g.list = m /\ g.cutoff = h.cutoff
      BY <2>1, <2>8 DEF Inserted
    <3>2. \A i \in 1..n : h.cutoff <= m[i].low
      BY <1>1, <2>3, <2>5
    <3>3. g \in [list : Seq(Intervals), cutoff : Nat, largest : Nat]
      BY <1>1, <2>1, <2>2, <2>6, <2>7, <3>1
    <3>4. WellFormed(g)
      BY <2>2, <2>6, <2>8, <3>1, <3>2, <3>3 DEF WellFormed
    <3>5. QED
      BY <2>2, <3>1, <3>4
  <2>9. CASE n > MAX_RANGES
    <3>1. n > 1 /\ n <= MAX_RANGES + 1 /\ g.list = Front(m) /\ g.cutoff = m[n].high + 1
      <4>1. n <= Len(h.list) + 1 /\ Len(h.list) <= MAX_RANGES
        BY <2>1 DEF Inserted, Adds, WellFormed
      <4>2. QED
        BY <2>1, <2>2, <2>4, <2>9, <4>1, HistoryAssumption DEF Inserted
    <3>2. PICK f : f = g.list
      OBVIOUS
    <3>3. /\ f \in Seq(Intervals) /\ Len(f) = n - 1 /\ Descending(f) /\ g.cutoff \in Nat
          /\ \A i \in 1..Len(f) : f[i] = m[i] /\ g.cutoff <= f[i].low
          /\ Numbers(f) = {x \in Numbers(m) : x >= g.cutoff}
      BY <2>2, <3>1, <3>2, DropFacts
    <3>4. f # <<>> /\ f[1] = m[1] /\ Len(f) <= MAX_RANGES
      BY <2>2, <3>1, <3>3, HistoryAssumption
    <3>5. g \in [list : Seq(Intervals), cutoff : Nat, largest : Nat]
      BY <2>1, <2>6, <2>7, <3>2, <3>3
    <3>6. WellFormed(g)
      BY <2>6, <3>2, <3>3, <3>4, <3>5 DEF WellFormed
    <3>7. Numbers(f) \subseteq Numbers(m)
      BY <3>3
    <3>8. QED
      BY <2>2, <3>2, <3>4, <3>6, <3>7
  <2>10. QED
    BY <2>2, <2>8, <2>9, HistoryAssumption
<1>4. QED
  BY <1>1, <1>2, <1>3

\* The fields of an ACK frame.
LEMMA EncodeFacts ==
  ASSUME NEW h, WellFormed(h), h.list # <<>>, NEW n, n = rangeSize(h), NEW f, f = encode(h)
  PROVE  /\ n \in Nat /\ n + 1 <= Len(h.list) /\ Len(f.ranges) = n /\ DOMAIN f.ranges = 1..n
         /\ f.largest = h.list[1].high /\ f.first = h.list[1].high - h.list[1].low + 1
         /\ \A i \in 1..n : /\ f.ranges[i].gap = h.list[i].low - h.list[i + 1].high - 1
                            /\ f.ranges[i].length = h.list[i + 1].high - h.list[i + 1].low + 1
<1> DEFINE l == h.list
           R(i) == [gap |-> l[i].low - l[i + 1].high - 1, length |-> l[i + 1].high - l[i + 1].low + 1]
<1>1. l \in Seq(Intervals) /\ Len(l) \in Nat /\ Len(l) > 0 /\ l[1].high = h.largest
  BY DEF WellFormed
<1>2. n \in Nat /\ n + 1 <= Len(l)
  BY <1>1, HistoryAssumption DEF rangeSize
<1>3. f = [largest |-> h.largest, first |-> l[1].high - l[1].low + 1, ranges |-> [i \in 1..n |-> R(i)]]
  BY DEF encode
<1>4. f.largest = h.largest /\ f.first = l[1].high - l[1].low + 1 /\ f.ranges = [i \in 1..n |-> R(i)]
  BY <1>3
<1>5. DOMAIN f.ranges = 1..n /\ \A i \in 1..n : f.ranges[i] = R(i)
  BY <1>4
<1>6. Len(f.ranges) = n
  <2> DEFINE r == [i \in 1..n |-> R(i)]
  <2> HIDE DEF R
  <2>1. r \in Seq({R(i) : i \in 1..n})
    BY <1>2
  <2>2. Len(r) = n
    BY <1>2
  <2>3. QED
    BY <1>4, <2>2
<1>7. QED
  BY <1>1, <1>2, <1>4, <1>5, <1>6

\* The intervals a frame decodes to are the first ones of the history it was
\* made of: each lower end is found from the one above it.
LEMMA DecodeFacts ==
  ASSUME NEW h, WellFormed(h), h.list # <<>>, NEW f, f = encode(h)
  PROVE  decode(f) = [i \in 1..(rangeSize(h) + 1) |-> Interval(h.list[i].low, h.list[i].high)]
<1> DEFINE n == rangeSize(h)
           l == h.list
<1>1. /\ n \in Nat /\ n + 1 <= Len(l) /\ Len(f.ranges) = n /\ DOMAIN f.ranges = 1..n
      /\ f.largest = l[1].high /\ f.first = l[1].high - l[1].low + 1
      /\ \A i \in 1..n : /\ f.ranges[i].gap = l[i].low - l[i + 1].high - 1
                         /\ f.ranges[i].length = l[i + 1].high - l[i + 1].low + 1
  BY EncodeFacts
<1>2. l \in Seq(Intervals) /\ Len(l) \in Nat /\ \A i \in 1..Len(l) : l[i].low \in Nat /\ l[i].high \in Nat
  BY ListFacts DEF WellFormed
<1> DEFINE Step(g) == [i \in 0..Len(f.ranges) |->
                         IF i = 0 THEN f.largest - f.first + 1
                         ELSE g[i - 1] - f.ranges[i].gap - f.ranges[i].length]
           low == CHOOSE g : g = Step(g)
<1>3. decode(f) = [i \in 1..(Len(f.ranges) + 1) |->
                     IF i = 1 THEN Interval(low[0], f.largest)
                     ELSE Interval(low[i - 1], low[i - 1] + f.ranges[i - 1].length - 1)]
  BY DEF decode
<1> HIDE DEF n, l
<1>4. low = Step(low)
  <2> DEFINE w == [i \in 0..n |-> l[i + 1].low]
  <2>1. ASSUME NEW i \in 0..n
        PROVE  w[i] = IF i = 0 THEN f.largest - f.first + 1
                      ELSE w[i - 1] - f.ranges[i].gap - f.ranges[i].length
    <3>1. i + 1 \in 1..Len(l) /\ w[i] = l[i + 1].low
      BY <1>1, <1>2
    <3>2. CASE i = 0
      BY <1>1, <1>2, <3>1, <3>2
    <3>3. CASE i # 0
      <4>1. i - 1 \in 0..n /\ i \in 1..n /\ i \in 1..Len(l) /\ (i - 1) + 1 = i
        BY <1>1, <1>2, <3>3
      <4>2. w[i - 1] = l[i].low
        BY <4>1
      <4>3. f.ranges[i].gap = l[i].low - l[i + 1].high - 1
        BY <1>1, <4>1
      <4>4. f.ranges[i].length = l[i + 1].high - l[i + 1].low + 1
        BY <1>1, <4>1
      <4>5. l[i].low \in Nat /\ l[i + 1].low \in Nat /\ l[i + 1].high \in Nat
        BY <1>2, <3>1, <4>1
      <4>6. l[i].low - (l[i].low - l[i + 1].high - 1) - (l[i + 1].high - l[i + 1].low + 1) = l[i + 1].low
        BY <4>5
      <4>7. QED
        BY <3>1, <3>3, <4>2, <4>3, <4>4, <4>6
    <3>4. QED
      BY <3>2, <3>3
  <2>2. w = [i \in 0..n |-> w[i]]
    OBVIOUS
  <2> HIDE DEF w
  <2>3. w = Step(w)
    BY <1>1, <2>1, <2>2
  <2> HIDE DEF Step
  <2>4. QED
    BY <2>3
<1> HIDE DEF low
<1>5. /\ low[0] = f.largest - f.first + 1
      /\ \A i \in 1..n : low[i] = low[i - 1] - f.ranges[i].gap - f.ranges[i].length
  BY <1>1, <1>4
<1> HIDE DEF Step
<1>6. \A i \in 0..n : low[i] = l[i + 1].low
  <2> DEFINE S == {i \in 0..n : low[i] # l[i + 1].low}
  <2>1. SUFFICES ASSUME S # {} PROVE FALSE
    OBVIOUS
  <2>2. S \in SUBSET Nat
    BY <1>1
  <2>3. PICK x \in S : \A y \in S : x <= y
    BY <2>1, <2>2, MinFacts
  <2>4. x \in 0..n /\ low[x] # l[x + 1].low
    OBVIOUS
  <2>5. CASE x = 0
    <3>1. 1 \in 1..Len(l)
      BY <1>1, <1>2
    <3>2. low[0] = l[1].low
      BY <1>1, <1>2, <1>5, <3>1
    <3>3. QED
      BY <2>4, <2>5, <3>2
  <2>6. CASE x # 0
    <3>1. x - 1 \in 0..n /\ x \in 1..n /\ x - 1 < x /\ x - 1 \in Nat
      BY <1>1, <2>4, <2>6
    <3>2. x - 1 \notin S
      BY <2>3, <3>1
    <3>3. low[x - 1] = l[x].low
      BY <3>1, <3>2
    <3>4. x \in 1..Len(l) /\ x + 1 \in 1..Len(l)
      BY <1>1, <1>2, <3>1
    <3>5. low[x] = l[x].low - f.ranges[x].gap - f.ranges[x].length
      BY <1>5, <3>1, <3>3
    <3>6. f.ranges[x].gap = l[x].low - l[x + 1].high - 1
      BY <1>1, <3>1
    <3>7. f.ranges[x].length = l[x + 1].high - l[x + 1].low + 1
      BY <1>1, <3>1
    <3>8. l[x].low \in Nat /\ l[x + 1].low \in Nat /\ l[x + 1].high \in Nat
      BY <1>2, <3>4
    <3>9. l[x].low - (l[x].low - l[x + 1].high - 1) - (l[x + 1].high - l[x + 1].low + 1) = l[x + 1].low
      BY <3>8
    <3>10. QED
      BY <2>4, <3>5, <3>6, <3>7, <3>9
  <2>7. QED
    BY <2>5, <2>6
<1>7. ASSUME NEW i \in 1..(n + 1)
      PROVE  (IF i = 1 THEN Interval(low[0], f.largest)
              ELSE Interval(low[i - 1], low[i - 1] + f.ranges[i - 1].length - 1))
             = Interval(l[i].low, l[i].high)
  <2>1. CASE i = 1
    <3>1. low[0] = l[1].low
      BY <1>1, <1>6
    <3>2. QED
      BY <1>1, <2>1, <3>1
  <2>2. CASE i # 1
    <3>1. i - 1 \in 1..n /\ i - 1 \in 0..n /\ (i - 1) + 1 = i /\ i \in 1..Len(l)
      BY <1>1, <1>2, <2>2
    <3>2. low[i - 1] = l[i].low
      BY <1>6, <3>1
    <3>3. f.ranges[i - 1].length = l[i].high - l[i].low + 1
      BY <1>1, <3>1
    <3>4. l[i].low + (l[i].high - l[i].low + 1) - 1 = l[i].high
      BY <1>2, <3>1
    <3>5. QED
      BY <2>2, <3>2, <3>3, <3>4
  <2>3. QED
    BY <2>1, <2>2
<1>8. decode(f) = [i \in 1..(n + 1) |-> Interval(l[i].low, l[i].high)]
  BY <1>1, <1>3, <1>7
<1>9. QED
  BY <1>8 DEF n, l

\* A frame decodes, and acknowledges no number the history does not hold
\* (FrameAck::encode, FrameAck::decode).
THEOREM FrameTruthful ==
  ASSUME NEW h, WellFormed(h), h.list # <<>>
  PROVE  Decodes(encode(h)) /\ Acknowledged(encode(h)) \subseteq Numbers(h.list)
<1> DEFINE f == encode(h)
           n == rangeSize(h)
           l == h.list
           d == decode(f)
<1>1. /\ n \in Nat /\ n + 1 <= Len(l) /\ DOMAIN f.ranges = 1..n
      /\ f.first = l[1].high - l[1].low + 1
      /\ \A i \in 1..n : /\ f.ranges[i].gap = l[i].low - l[i + 1].high - 1
                         /\ f.ranges[i].length = l[i + 1].high - l[i + 1].low + 1
  BY EncodeFacts
<1>2. /\ l \in Seq(Intervals) /\ Len(l) \in Nat
      /\ \A i \in 1..Len(l) : l[i].low \in Nat /\ l[i].high \in Nat /\ l[i].low <= l[i].high
  BY ListFacts DEF WellFormed, Descending
<1>3. d = [i \in 1..(n + 1) |-> Interval(l[i].low, l[i].high)]
  BY DecodeFacts
<1> HIDE DEF f, n, l, d
<1>4. DOMAIN d = 1..(n + 1) /\ \A i \in 1..(n + 1) : i \in 1..Len(l)
  BY <1>1, <1>2, <1>3
<1>5. \A i \in 1..(n + 1) : d[i].low = l[i].low /\ d[i].high = l[i].high
  <2> TAKE i \in 1..(n + 1)
  <2>1. d[i] = Interval(l[i].low, l[i].high)
    BY <1>3
  <2>2. QED
    BY <1>2, <1>4, <2>1, IntervalFacts
<1>6. Decodes(f)
  <2>1. f.first > 0
    BY <1>1, <1>2
  <2>2. \A i \in 1..(n + 1) : d[i].low >= 0
    BY <1>2, <1>4, <1>5
  <2>3. ASSUME NEW i \in 1..n PROVE f.ranges[i].length > 0 /\ d[i].low > f.ranges[i].gap
    <3>1. i \in 1..(n + 1) /\ i + 1 \in 1..(n + 1) /\ i \in 1..Len(l) /\ i + 1 \in 1..Len(l)
      BY <1>1, <1>4
    <3>2. /\ f.ranges[i].gap = l[i].low - l[i + 1].high - 1
          /\ f.ranges[i].length = l[i + 1].high - l[i + 1].low + 1
          /\ d[i].low = l[i].low
      BY <1>1, <1>5, <3>1
    <3>3. l[i].low \in Nat /\ l[i + 1].low \in Nat /\ l[i + 1].high \in Nat /\ l[i + 1].low <= l[i + 1].high
      BY <1>2, <3>1
    <3>4. l[i].low > l[i].low - l[i + 1].high - 1 /\ l[i + 1].high - l[i + 1].low + 1 > 0
      BY <3>3
    <3>5. QED
      BY <3>2, <3>4
  <2>4. QED
    BY <1>1, <1>4, <2>1, <2>2, <2>3 DEF Decodes, d
<1>7. Acknowledged(f) \subseteq Numbers(l)
  <2> SUFFICES ASSUME NEW x \in Acknowledged(f) PROVE x \in Numbers(l)
    OBVIOUS
  <2>1. PICK i \in 1..(n + 1) : x \in d[i].low .. d[i].high
    BY <1>4 DEF Acknowledged, Numbers, d
  <2>2. i \in DOMAIN l /\ x \in l[i].low .. l[i].high
    BY <1>2, <1>4, <1>5, <2>1
  <2>3. QED
    BY <2>2 DEF Numbers
<1>8. QED
  BY <1>6, <1>7 DEF f, l
=============================================================================
