-------------------------- MODULE UtpStream_proofs --------------------------
(***************************************************************************)
(* Proofs about UtpStream: the two halves of a stream agree on every byte, *)
(* and together they implement UtpByteStream.                              *)
(***************************************************************************)
EXTENDS UtpStream, TLAPS, FiniteSetTheorems, WellFoundedInduction

----------------------------------------------------------------------------
\* Numbers and finite sets

\* A set of naturals has a least element.
LEMMA Least ==
  ASSUME NEW S \in SUBSET Nat, S # {}
  PROVE  \E x \in S : \A y \in S : x <= y
<1> DEFINE R == {ss \in Nat \X Nat : ss[1] < ss[2]}
<1>1. IsWellFoundedOn(R, Nat)
  BY NatLessThanWellFounded DEF OpToRel
<1> HIDE DEF R
<1>2. PICK x \in S : \A y \in S : ~ (<<y, x>> \in R)
  BY <1>1, WFMin, Zenon
<1>3. ASSUME NEW y \in S, y < x PROVE FALSE
  <2>1. <<y, x>> \in Nat \X Nat /\ <<y, x>>[1] = y /\ <<y, x>>[2] = x
    OBVIOUS
  <2>2. <<y, x>> \in R
    BY <1>3, <2>1, Zenon DEF R
  <2>3. QED
    BY <1>2, <2>2
<1>4. QED
  BY <1>3

\* A set of naturals below b has a greatest element.
LEMMA Greatest ==
  ASSUME NEW b \in Nat, NEW S \in SUBSET 0..b, S # {}
  PROVE  \E x \in S : \A y \in S : y <= x
<1> DEFINE T == {j \in 0..b : b - j \in S}
<1>1. PICK y \in S : TRUE
  OBVIOUS
<1>2. b - y \in T
  <2>1. b - y \in 0..b /\ b - (b - y) = y
    OBVIOUS
  <2>2. QED
    BY <2>1
<1>3. PICK j \in T : \A i \in T : j <= i
  <2>1. T \in SUBSET Nat /\ T # {}
    BY <1>2
  <2> HIDE DEF T
  <2>2. QED
    BY <2>1, Least
<1>4. ASSUME NEW z \in S PROVE z <= b - j
  <2>1. b - z \in 0..b /\ b - (b - z) = z
    OBVIOUS
  <2>2. b - z \in T
    BY <2>1
  <2>3. j <= b - z /\ j \in 0..b
    BY <1>3, <2>2
  <2>4. QED
    BY <2>3
<1>5. QED
  BY <1>3, <1>4

\* The size of an interval of numbers.
LEMMA IntervalCard ==
  ASSUME NEW a \in Nat, NEW b \in Nat, a <= b
  PROVE  IsFiniteSet(a..(b - 1)) /\ Cardinality(a..(b - 1)) = b - a
<1>1. a \in Int /\ b - 1 \in Int
  OBVIOUS
<1>2. IsFiniteSet(a..(b - 1)) /\ Cardinality(a..(b - 1)) = IF a > b - 1 THEN 0 ELSE (b - 1) - a + 1
  BY <1>1, FS_Interval
<1>3. QED
  BY <1>2

\* A set of numbers in an interval is no larger than the interval.
LEMMA BoundedCard ==
  ASSUME NEW a \in Nat, NEW b \in Nat, a <= b, NEW S \in SUBSET (a..(b - 1))
  PROVE  IsFiniteSet(S) /\ Cardinality(S) \in Nat /\ Cardinality(S) <= b - a
<1>1. IsFiniteSet(a..(b - 1)) /\ Cardinality(a..(b - 1)) = b - a
  BY IntervalCard
<1>2. QED
  BY <1>1, FS_Subset, FS_CardinalityType

\* The size of two sets that are apart.
LEMMA DisjointCard ==
  ASSUME NEW S, NEW T, IsFiniteSet(S), IsFiniteSet(T), S \cap T = {}
  PROVE  IsFiniteSet(S \cup T) /\ Cardinality(S \cup T) = Cardinality(S) + Cardinality(T)
<1>1. /\ IsFiniteSet(S \cup T)
      /\ Cardinality(S \cup T) = Cardinality(S) + Cardinality(T) - Cardinality(S \cap T)
  BY FS_Union
<1>2. Cardinality(S \cap T) = 0 /\ Cardinality(S) \in Nat /\ Cardinality(T) \in Nat
  BY FS_EmptySet, FS_CardinalityType
<1>3. QED
  BY <1>1, <1>2

\* The bytes of q after its place d up to place e.
Part(q, d, e) == SubSeq(q, d + 1, e)

\* The length and the elements of a part of a sequence.
LEMMA SubSeqFacts ==
  ASSUME NEW S, NEW q \in Seq(S), NEW d \in Nat, NEW e \in Nat, d <= e, e <= Len(q)
  PROVE  /\ SubSeq(q, d + 1, e) \in Seq(S) /\ Len(SubSeq(q, d + 1, e)) = e - d
         /\ \A i \in 1..(e - d) : SubSeq(q, d + 1, e)[i] = q[d + i]
<1>1. Len(SubSeq(q, d + 1, e)) = e - d
  OBVIOUS
<1>2. ASSUME NEW i \in 1..(e - d)
      PROVE  SubSeq(q, d + 1, e)[i] = q[d + i] /\ q[d + i] \in S
  <2>1. d + i \in 1..Len(q) /\ (d + 1) + i - 1 = d + i
    OBVIOUS
  <2>2. QED
    BY <2>1
<1>3. SubSeq(q, d + 1, e) \in Seq(S)
  BY <1>1, <1>2
<1>4. QED
  BY <1>1, <1>2, <1>3

\* A part of a buffer.
LEMMA Cut ==
  ASSUME NEW q \in Seq(1..MAX_BYTES), NEW d \in Nat, NEW e \in Nat, d <= e, e <= Len(q)
  PROVE  /\ Part(q, d, e) \in Seq(1..MAX_BYTES) /\ Len(Part(q, d, e)) = e - d
         /\ \A i \in 1..(e - d) : Part(q, d, e)[i] = q[d + i]
BY SubSeqFacts, Zenon DEF Part

----------------------------------------------------------------------------
\* Frames and fragments

\* The fields of a frame and where it ends.
LEMMA FrameFacts ==
  ASSUME NEW p \in Frames
  PROVE  /\ p.off \in Nat /\ p.off <= MAX_BYTES /\ Len(p.data) \in Nat /\ EndOf(p) \in Nat
         /\ p.data \in Seq(1..MAX_BYTES) /\ p.fin \in BOOLEAN
         /\ EndOf(p) = p.off + Len(p.data) /\ p.off <= EndOf(p)
<1>1. /\ p.off \in 0..MAX_BYTES /\ p.data \in Seq(1..MAX_BYTES) /\ p.fin \in BOOLEAN
  BY DEF Frames
<1>2. Len(p.data) \in Nat
  BY <1>1
<1>3. QED
  BY <1>1, <1>2, StreamAssumption DEF EndOf

\* The bytes that fragments hold are those they cover.
LEMMA HeldFacts ==
  ASSUME NEW frags \in SUBSET Frames
  PROVE  /\ Held(frags) \in SUBSET Nat
         /\ \A i \in Int : i \in Held(frags) <=> Covered(frags, i)
<1>1. \A p \in frags : p.off \in Nat /\ EndOf(p) \in Nat
  BY FrameFacts
<1>2. ASSUME NEW i PROVE i \in Held(frags) <=> \E p \in frags : i \in p.off..(EndOf(p) - 1)
  BY DEF Held
<1>3. ASSUME NEW i \in Held(frags) PROVE i \in Nat
  BY <1>1, <1>2
<1>4. ASSUME NEW i \in Int PROVE i \in Held(frags) <=> Covered(frags, i)
  BY <1>1, <1>2 DEF Covered
<1>5. QED
  BY <1>3, <1>4

\* contiguousReadableBytes: the loop stops at the first gap or at n.
LEMMA Contiguous ==
  ASSUME NEW s, s.off \in Nat, NEW n \in Nat
  PROVE  /\ contiguousReadableBytes(s, n) \in 0..n
         /\ \A i \in s.off..(s.off + contiguousReadableBytes(s, n) - 1) : Covered(s.frags, i)
         /\ contiguousReadableBytes(s, n) < n => ~Covered(s.frags, s.off + contiguousReadableBytes(s, n))
<1> DEFINE P(k) == /\ \A i \in s.off..(s.off + k - 1) : Covered(s.frags, i)
                   /\ k < n => ~Covered(s.frags, s.off + k)
           gaps == {k \in 0..n : k < n => ~Covered(s.frags, s.off + k)}
<1>1. n \in gaps
  <2>1. n \in 0..n /\ ~(n < n)
    OBVIOUS
  <2>2. QED
    BY <2>1, Zenon
<1>2. PICK k \in gaps : \A y \in gaps : k <= y
  <2>1. gaps \subseteq 0..n /\ gaps # {}
    BY <1>1, Zenon
  <2> HIDE DEF gaps
  <2>2. gaps \in SUBSET Nat
    BY <2>1
  <2>3. QED
    BY <2>1, <2>2, Least
<1>3. ASSUME NEW i \in s.off..(s.off + k - 1) PROVE Covered(s.frags, i)
  <2>1. i - s.off \in 0..n /\ i - s.off < k /\ s.off + (i - s.off) = i
    OBVIOUS
  <2>2. QED
    BY <1>2, <2>1
<1>4. k \in 0..n /\ P(k)
  BY <1>2, <1>3
<1> HIDE DEF P
<1>5. (CHOOSE m \in 0..n : P(m)) \in 0..n /\ P(CHOOSE m \in 0..n : P(m))
  BY <1>4, Zenon
<1>6. QED
  BY <1>5 DEF contiguousReadableBytes, P

----------------------------------------------------------------------------
\* The send half

\* The fields of the send half have their types.
LEMMA SenderFacts ==
  ASSUME NEW s \in Senders
  PROVE  /\ s.buffer \in Seq(1..MAX_BYTES) /\ Len(s.buffer) \in Nat /\ s.queued \in Nat
         /\ s.inFlight \in Nat /\ s.next \in Nat /\ s.ackedOff \in Nat /\ s.limit \in Nat
         /\ s.ranges \in SUBSET Nat /\ s.finQueued \in BOOLEAN /\ s.finSent \in BOOLEAN
         /\ s.told \in BOOLEAN /\ s.asked \in BOOLEAN
         /\ s.queued <= CAP /\ s.inFlight <= CAP /\ s.next <= MAX_BYTES /\ s.ackedOff <= MAX_BYTES
<1>1. /\ s.buffer \in Seq(1..MAX_BYTES) /\ s.queued \in 0..CAP
      /\ s.inFlight \in 0..CAP /\ s.next \in 0..MAX_BYTES /\ s.ackedOff \in 0..MAX_BYTES
      /\ s.limit \in Nat /\ s.ranges \in SUBSET Nat /\ s.finQueued \in BOOLEAN /\ s.finSent \in BOOLEAN
      /\ s.told \in BOOLEAN /\ s.asked \in BOOLEAN
  BY DEF Senders
<1>2. QED
  BY <1>1, StreamAssumption

\* So do those of what the applications saw.
LEMMA HistoryFacts ==
  ASSUME NEW h \in Histories
  PROVE  /\ h.sent \in Seq(1..MAX_BYTES) /\ h.got \in Seq(1..MAX_BYTES)
         /\ Len(h.sent) \in Nat /\ Len(h.got) \in Nat
         /\ h.fin \in BOOLEAN /\ h.reset \in BOOLEAN /\ h.eof \in BOOLEAN /\ h.cut \in BOOLEAN
<1>1. /\ h.sent \in Seq(1..MAX_BYTES) /\ h.got \in Seq(1..MAX_BYTES)
      /\ h.fin \in BOOLEAN /\ h.reset \in BOOLEAN /\ h.eof \in BOOLEAN /\ h.cut \in BOOLEAN
  BY DEF Histories
<1>2. QED
  BY <1>1

\* The first number from a on that is not acknowledged.
LEMMA FirstGapFacts ==
  ASSUME NEW a \in Nat, NEW b \in Nat, a <= b, NEW all \in SUBSET (a..(b - 1)), NEW upTo,
         upTo = FirstGap(a, all)
  PROVE  upTo \in a..b /\ a..(upTo - 1) \subseteq all /\ upTo \notin all
<1> DEFINE gaps == {n \in a..b : n \notin all}
           P(n) == a..(n - 1) \subseteq all /\ n \notin all
<1>1. b \in gaps /\ gaps \in SUBSET Nat
  OBVIOUS
<1>2. PICK m \in gaps : \A y \in gaps : m <= y
  <2> HIDE DEF gaps
  <2>1. gaps # {}
    BY <1>1
  <2>2. QED
    BY <1>1, <2>1, Least
<1>3. m \in a..b /\ m \notin all
  OBVIOUS
<1>4. ASSUME NEW i \in a..(m - 1) PROVE i \in all
  <2>1. i \in a..b /\ i < m
    BY <1>3
  <2>2. QED
    BY <1>2, <2>1
<1>5. Cardinality(all) \in Nat /\ m - a <= Cardinality(all)
  <2>1. IsFiniteSet(all) /\ Cardinality(all) \in Nat
    BY BoundedCard
  <2>2. m \in Nat /\ a <= m
    BY <1>3
  <2>3. Cardinality(a..(m - 1)) = m - a
    BY <2>2, IntervalCard
  <2>4. a..(m - 1) \subseteq all
    BY <1>4
  <2>5. Cardinality(a..(m - 1)) <= Cardinality(all)
    BY <2>1, <2>4, FS_Subset
  <2>6. QED
    BY <2>1, <2>3, <2>5
<1>6. m \in a..(a + Cardinality(all)) /\ P(m)
  BY <1>3, <1>4, <1>5
<1> HIDE DEF P
<1>7. upTo = CHOOSE n \in a..(a + Cardinality(all)) : P(n)
  BY Zenon DEF P, FirstGap
<1>8. upTo \in a..(a + Cardinality(all)) /\ P(upTo)
  BY <1>6, <1>7, Zenon
<1>9. upTo \in Nat /\ a <= upTo
  BY <1>5, <1>8
<1>10. ~(b < upTo)
  <2>1. SUFFICES ASSUME b < upTo PROVE FALSE
    OBVIOUS
  <2>2. b \in a..(upTo - 1)
    BY <1>9, <2>1
  <2>3. b \in all
    BY <1>8, <2>2 DEF P
  <2>4. QED
    BY <2>3
<1>11. QED
  BY <1>8, <1>9, <1>10 DEF P

\* What onPacketAcked makes of the sender: it gives up what is acknowledged
\* without a gap and keeps the rest of the buffer in its place.
AckedSender(s, t, h, f) ==
  /\ t \in Senders /\ SenderOK(t, h) /\ t.next = s.next /\ t.limit = s.limit
  /\ s.ackedOff <= t.ackedOff
  /\ \A i \in s.ackedOff..(t.ackedOff - 1) : i \in s.ranges \/ i \in f.off..(EndOf(f) - 1)
  /\ \A i \in t.ranges : i \in s.ranges \/ i \in f.off..(EndOf(f) - 1)

\* onPacketAcked gives up the prefix acknowledged and keeps the counts.
LEMMA AckedFacts ==
  ASSUME NEW s \in Senders, NEW h \in Histories, SenderOK(s, h), NEW f \in Frames,
         EndOf(f) <= s.next, NEW t, t = onPacketAcked(s, f.off, Len(f.data))
  PROVE  AckedSender(s, t, h, f)
<1> DEFINE all  == s.ranges \cup {i \in f.off..(f.off + Len(f.data) - 1) : i >= s.ackedOff}
           upTo == FirstGap(s.ackedOff, all)
           delta == Smaller(upTo - s.ackedOff, Len(s.buffer))
           R == {i \in all : i >= s.ackedOff + delta}
           B == Part(s.buffer, delta, Len(s.buffer))
           n == IF s.inFlight >= delta THEN s.inFlight - delta ELSE 0
<1>1. t = [s EXCEPT !.ranges = R, !.buffer = B, !.ackedOff = s.ackedOff + delta, !.inFlight = n]
  BY DEF onPacketAcked, Part
<1>2. /\ s.buffer \in Seq(1..MAX_BYTES) /\ Len(s.buffer) \in Nat /\ s.queued \in Nat
      /\ s.inFlight \in Nat /\ s.next \in Nat /\ s.ackedOff \in Nat /\ s.ranges \in SUBSET Nat
      /\ s.inFlight <= CAP /\ s.next <= MAX_BYTES
  BY SenderFacts
<1>3. /\ s.ackedOff <= s.next /\ s.ranges \subseteq s.ackedOff..(s.next - 1)
      /\ h.reset => s.inFlight = 0 /\ s.ackedOff = s.next /\ s.buffer = <<>>
      /\ ~h.reset => s.inFlight = s.next - s.ackedOff /\ Len(s.buffer) = s.queued + s.inFlight
  BY Zenon DEF SenderOK
<1>4. f.off \in Nat /\ Len(f.data) \in Nat /\ EndOf(f) = f.off + Len(f.data)
  BY FrameFacts
<1>5. all \in SUBSET (s.ackedOff..(s.next - 1))
  BY <1>2, <1>3, <1>4
<1>6. \A i \in all : i \in s.ranges \/ i \in f.off..(EndOf(f) - 1)
  BY <1>4
<1>7. upTo \in s.ackedOff..s.next /\ s.ackedOff..(upTo - 1) \subseteq all /\ upTo \notin all
  <2> HIDE DEF all
  <2>1. s.ackedOff \in Nat /\ s.next \in Nat /\ s.ackedOff <= s.next
    BY <1>2, <1>3
  <2>2. QED
    BY <1>5, <2>1, FirstGapFacts
<1> HIDE DEF all, upTo
<1>8. upTo - s.ackedOff <= Len(s.buffer)
  <2>1. CASE h.reset
    BY <1>2, <1>3, <1>7, <2>1
  <2>2. CASE ~h.reset
    BY <1>2, <1>3, <1>7, <2>2
  <2>3. QED
    BY <2>1, <2>2
<1>9. delta = upTo - s.ackedOff /\ delta \in Nat /\ delta <= Len(s.buffer) /\ s.ackedOff + delta = upTo
  BY <1>2, <1>7, <1>8 DEF Smaller
<1> HIDE DEF delta
<1>10. delta <= s.inFlight
  <2>1. CASE h.reset
    BY <1>2, <1>3, <1>7, <1>9, <2>1
  <2>2. CASE ~h.reset
    BY <1>2, <1>3, <1>7, <1>9, <2>2
  <2>3. QED
    BY <2>1, <2>2
<1>11. n = s.inFlight - delta /\ n \in 0..CAP
  BY <1>2, <1>9, <1>10, StreamAssumption
<1>12. /\ B \in Seq(1..MAX_BYTES) /\ Len(B) = Len(s.buffer) - delta
       /\ \A i \in 1..(Len(s.buffer) - delta) : B[i] = s.buffer[delta + i]
  <2>1. Len(s.buffer) <= Len(s.buffer)
    BY <1>2
  <2>2. QED
    BY <1>2, <1>9, <2>1, Cut
<1>13. R \in SUBSET Nat /\ R \subseteq upTo..(s.next - 1)
  <2>1. \A i \in all : i \in s.ackedOff..(s.next - 1)
    BY <1>5
  <2>2. \A i \in R : i \in all /\ i >= upTo
    BY <1>9
  <2>3. QED
    BY <1>2, <1>7, <2>1, <2>2
<1>14. upTo \in 0..MAX_BYTES
  BY <1>2, <1>7, StreamAssumption
<1>15. R \subseteq all
  OBVIOUS
<1> HIDE DEF R, B, n
<1>16. t = [s EXCEPT !.ranges = R, !.buffer = B, !.ackedOff = upTo, !.inFlight = n]
  BY <1>1, <1>9
<1>17. /\ t \in Senders
       /\ t.ranges = R /\ t.buffer = B /\ t.ackedOff = upTo /\ t.inFlight = n
       /\ t.queued = s.queued /\ t.next = s.next /\ t.limit = s.limit
       /\ t.finQueued = s.finQueued /\ t.finSent = s.finSent
  <2>1. R \in SUBSET Nat /\ B \in Seq(1..MAX_BYTES) /\ upTo \in 0..MAX_BYTES /\ n \in 0..CAP
    BY <1>11, <1>12, <1>13, <1>14
  <2>2. QED
    BY <1>16, <2>1 DEF Senders
<1>18. SenderOK(t, h)
  <2>1. t.ackedOff <= t.next /\ t.next <= Len(h.sent) /\ Len(t.buffer) <= CAP
    <3>1. s.next <= Len(h.sent) /\ Len(s.buffer) <= CAP
      BY Zenon DEF SenderOK
    <3>2. Len(t.buffer) <= Len(s.buffer) /\ Len(t.buffer) \in Nat
      BY <1>2, <1>9, <1>12, <1>17
    <3>3. QED
      BY <1>2, <1>7, <1>17, <3>1, <3>2, StreamAssumption
  <2>2. h.reset => t.inFlight = 0 /\ t.ackedOff = t.next /\ t.buffer = <<>>
    <3>1. ASSUME h.reset PROVE upTo = s.next /\ delta = 0 /\ s.inFlight = 0 /\ s.buffer = <<>>
      BY <1>2, <1>3, <1>7, <1>9, <3>1
    <3>2. ASSUME h.reset PROVE B = <<>>
      BY <1>12, <3>1, <3>2
    <3>3. QED
      BY <1>11, <1>17, <3>1, <3>2
  <2>3. ASSUME ~h.reset
        PROVE  /\ t.inFlight = t.next - t.ackedOff
               /\ Len(t.buffer) = t.queued + t.inFlight
               /\ Len(h.sent) = t.ackedOff + Len(t.buffer)
               /\ \A i \in 1..Len(t.buffer) : t.buffer[i] = t.ackedOff + i
    <3>1. /\ Len(h.sent) = s.ackedOff + Len(s.buffer)
          /\ \A i \in 1..Len(s.buffer) : s.buffer[i] = s.ackedOff + i
      BY <2>3, Zenon DEF SenderOK
    <3>2. Len(B) = s.queued + n /\ n = s.next - upTo
      <4>1. s.inFlight = s.next - s.ackedOff /\ Len(s.buffer) = s.queued + s.inFlight
        BY <1>3, <2>3
      <4>2. Len(B) = Len(s.buffer) - delta
        BY <1>12
      <4>3. n = s.inFlight - delta
        BY <1>11
      <4>4. delta = upTo - s.ackedOff /\ upTo \in Nat
        BY <1>2, <1>7, <1>9
      <4>5. /\ s.next \in Int /\ s.ackedOff \in Int /\ s.queued \in Int /\ s.inFlight \in Int
            /\ delta \in Int /\ n \in Int /\ Len(s.buffer) \in Int
        BY <1>2, <1>9, <1>11
      <4>c. n = (s.next - s.ackedOff) - (upTo - s.ackedOff)
        BY <4>1, <4>3, <4>4
      <4>6. n = s.next - upTo
        BY <4>4, <4>5, <4>c
      <4>7. Len(B) = s.queued + n
        <5>1. \A x, y, z, d \in Int : x = y + z => x - d = y + (z - d)
          OBVIOUS
        <5>2. QED
          BY <4>1, <4>2, <4>3, <4>5, <5>1
      <4>8. QED
        BY <4>6, <4>7
    <3>3. Len(h.sent) = upTo + Len(B)
      BY <1>2, <1>7, <1>9, <1>12, <3>1
    <3>4. ASSUME NEW i \in 1..Len(B) PROVE B[i] = upTo + i
      <4>1. i \in 1..(Len(s.buffer) - delta) /\ delta + i \in 1..Len(s.buffer)
        BY <1>2, <1>9, <1>12
      <4>2. B[i] = s.ackedOff + (delta + i)
        BY <1>12, <3>1, <4>1
      <4>3. QED
        BY <1>2, <1>9, <4>2
    <3>5. QED
      BY <1>17, <3>2, <3>3, <3>4
  <2>4. /\ h.sent = Bytes(Len(h.sent)) /\ Len(h.sent) <= MAX_BYTES /\ (h.fin => t.finQueued)
        /\ (h.reset => t.finQueued /\ t.finSent /\ t.queued = 0)
        /\ (~h.reset => t.finQueued = h.fin)
    BY <1>17 DEF SenderOK
  <2>5. t.ranges \subseteq t.ackedOff..(t.next - 1)
    BY <1>13, <1>17
  <2>6. QED
    BY <2>1, <2>2, <2>3, <2>4, <2>5, Zenon DEF SenderOK
<1>19. s.ackedOff <= t.ackedOff /\ \A i \in s.ackedOff..(t.ackedOff - 1) : i \in all
  BY <1>2, <1>7, <1>17
<1>20. QED
  BY <1>6, <1>15, <1>17, <1>18, <1>19 DEF AckedSender

----------------------------------------------------------------------------
\* What the parts of the invariant keep when the sender moves on

StreamFacts0(s) ==
  /\ s.off \in Nat /\ s.off <= MAX_BYTES /\ s.frags \in SUBSET Frames /\ s.buffered \in Nat
  /\ s.buffered <= RECV_LIMIT /\ s.peerFin \in BOOLEAN /\ s.reset \in BOOLEAN
  /\ s.finQueued \in BOOLEAN /\ s.finSent \in BOOLEAN

\* The fields of the receive half have their types.
LEMMA StreamFacts ==
  ASSUME NEW s \in Streams PROVE StreamFacts0(s)
<1>1. /\ s.off \in 0..MAX_BYTES /\ s.frags \in SUBSET Frames /\ s.buffered \in 0..RECV_LIMIT
      /\ s.peerFin \in BOOLEAN /\ s.reset \in BOOLEAN
      /\ s.finQueued \in BOOLEAN /\ s.finSent \in BOOLEAN
  BY DEF Streams
<1>2. QED
  BY <1>1, StreamAssumption DEF StreamFacts0

\* A frame sent stays right when more is written or sent.
LEMMA FrameMoves ==
  ASSUME NEW p \in Frames, NEW n \in Nat, NEW m \in Nat, n <= m, NEW h, NEW g,
         FrameOK(p, n, h),
         h.fin => g.fin /\ Len(g.sent) = Len(h.sent)
  PROVE  FrameOK(p, m, g)
<1>1. EndOf(p) \in Nat
  BY FrameFacts
<1>2. EndOf(p) <= n /\ Carries(p) /\ Len(p.data) <= MTU /\ (p.fin => h.fin /\ EndOf(p) = Len(h.sent))
  BY DEF FrameOK
<1>3. EndOf(p) <= m
  BY <1>1, <1>2
<1>4. QED
  BY <1>2, <1>3 DEF FrameOK

\* So does the receive half.
LEMMA StreamMoves ==
  ASSUME NEW s \in Streams, NEW n \in Nat, NEW m \in Nat, n <= m, NEW h, NEW g,
         StreamOK(s, n, h),
         h.fin => g.fin /\ Len(g.sent) = Len(h.sent),
         h.reset => g.reset, h.cut => g.cut
  PROVE  StreamOK(s, m, g)
<1>1. s.off \in Nat /\ s.off <= n /\ s.frags \in SUBSET Frames
  BY StreamFacts DEF StreamFacts0, StreamOK
<1>2. s.off <= m
  BY <1>1
<1>3. FragsOK(s.frags, s.off, m, g)
  <2>1. ASSUME NEW p \in s.frags PROVE Carries(p) /\ s.off < EndOf(p) /\ EndOf(p) <= m
    <3>1. p \in Frames
      BY <1>1
    <3>2. EndOf(p) \in Nat
      BY <3>1, FrameFacts
    <3>3. Carries(p) /\ s.off < EndOf(p) /\ EndOf(p) <= n
      BY DEF StreamOK, FragsOK
    <3>4. QED
      BY <3>2, <3>3
  <2>2. \A p, q \in s.frags : p # q => EndOf(p) <= q.off \/ EndOf(q) <= p.off
    BY DEF StreamOK, FragsOK
  <2>3. \A p \in s.frags : p.fin => g.fin /\ \A i \in EndOf(p)..(Len(g.sent) - 1) : Covered(s.frags, i)
    BY DEF StreamOK, FragsOK
  <2>4. \A p \in s.frags : p.off < EndOf(p) \/ p.fin
    BY DEF StreamOK, FragsOK
  <2>5. QED
    BY <2>1, <2>2, <2>3, <2>4 DEF FragsOK
<1>4. s.peerFin /\ ~s.reset /\ ~g.cut => g.fin /\ \A i \in s.off..(Len(g.sent) - 1) : Covered(s.frags, i)
  BY DEF StreamOK
<1>5. s.buffered = Cardinality({i \in Held(s.frags) : i >= s.off}) /\ (s.reset => g.reset)
  BY DEF StreamOK
<1>6. QED
  BY <1>2, <1>3, <1>4, <1>5, Zenon DEF StreamOK

\* The variables one by one.
LEMMA TypedFacts ==
  ASSUME Inv
  PROVE  /\ snd \in Senders /\ rcv \in Receivers /\ rcv.stream \in Streams /\ credit \in Credits
         /\ app \in Histories /\ net \in SUBSET Frames /\ acked \in SUBSET Frames
         /\ ctl \in SUBSET Controls /\ faults \in 0..FAULTS /\ aborted \in BOOLEAN
<1>1. Typed
  BY DEF Inv
<1>2. rcv \in Receivers
  BY <1>1 DEF Typed
<1>3. rcv.stream \in Streams
  BY <1>2 DEF Receivers
<1>4. QED
  BY <1>1, <1>3 DEF Typed

\* The sender s keeps to what it was given.
Within(s, c) == s.next <= Larger(LIMIT, c.advertised) /\ s.limit <= Larger(LIMIT, c.advertised)

\* The larger of two numbers.
LEMMA LargerFacts ==
  ASSUME NEW a \in Nat, NEW b \in Nat
  PROVE  Larger(a, b) \in Nat /\ a <= Larger(a, b) /\ b <= Larger(a, b)
BY DEF Larger

\* A step that touches the sender, what it wrote and its frames only.
LEMMA SenderMoves ==
  ASSUME Inv, UNCHANGED <<rcv, credit, acked>>,
         snd' \in Senders, app' \in Histories, net' \in SUBSET Frames, ctl' \in SUBSET Controls,
         faults' \in 0..FAULTS, aborted' \in BOOLEAN,
         snd.next <= snd'.next, SenderOK(snd', app'),
         app.fin => app'.fin /\ Len(app'.sent) = Len(app.sent), app.reset => app'.reset, app'.cut = app.cut,
         Len(app.sent) <= Len(app'.sent), app'.got = app.got, app'.eof = app.eof,
         \A f \in net' : f \in net \/ FrameOK(f, snd'.next, app'),
         Within(snd', credit),
         \A m \in ctl' : m \in ctl \/ (m.type = "Reset" /\ app'.reset) \/ m.type = "Blocked",
         ~app'.reset => snd'.ackedOff = snd.ackedOff /\ snd'.ranges = snd.ranges
  PROVE  Inv'
<1>1. /\ snd \in Senders /\ rcv \in Receivers /\ rcv.stream \in Streams /\ credit \in Credits
      /\ app \in Histories /\ net \in SUBSET Frames /\ acked \in SUBSET Frames
  BY TypedFacts
<1>2. snd.next \in Nat /\ snd'.next \in Nat
  BY <1>1, SenderFacts
<1>3. ASSUME NEW f \in net' \cup acked' PROVE FrameOK(f, snd'.next, app')
  <2>1. CASE f \in net \cup acked
    <3>1. FrameOK(f, snd.next, app) /\ f \in Frames
      BY <1>1, <2>1 DEF Inv
    <3>2. QED
      BY <1>2, <3>1, FrameMoves
  <2>2. CASE f \in net' /\ f \notin net
    BY <2>2
  <2>3. QED
    BY <2>1, <2>2
<1>4. StreamOK(rcv'.stream, snd'.next, app')
  <2>1. StreamOK(rcv.stream, snd.next, app)
    BY DEF Inv
  <2>2. QED
    BY <1>1, <1>2, <2>1, StreamMoves
<1>5. ReceiverOK(rcv', credit', app')
  <2>1. ReceiverOK(rcv, credit, app)
    BY DEF Inv
  <2>2. Len(app.sent) \in Nat /\ Len(app'.sent) \in Nat /\ Len(app.got) \in Nat
    BY <1>1, HistoryFacts
  <2>3. app'.got = Bytes(Len(app'.got)) /\ Len(app'.got) <= Len(app'.sent)
    BY <2>1, <2>2 DEF ReceiverOK
  <2>4. QED
    BY <2>1, <2>3 DEF ReceiverOK
<1>6. CreditOK(snd', credit', ctl')
  <2>1. CreditOK(snd, credit, ctl)
    BY DEF Inv
  <2>2. QED
    BY <2>1 DEF CreditOK, Within
<1>7. AcksOK(snd', rcv', acked', app')
  <2>1. AcksOK(snd, rcv, acked, app)
    BY DEF Inv
  <2>2. \A i : Taken(rcv', app', i) <=> Taken(rcv, app, i)
    BY DEF Taken
  <2>3. QED
    BY <2>1, <2>2 DEF AcksOK
<1>8. \A m \in ctl' : (m.type = "Reset" => app'.reset) /\ (m.type = "ResetBack" => app'.cut)
  BY DEF Inv
<1>9. Typed'
  BY <1>1 DEF Typed
<1>10. QED
  BY <1>3, <1>4, <1>5, <1>6, <1>7, <1>8, <1>9 DEF Inv

----------------------------------------------------------------------------
\* The steps of the sender

\* Bytes(n) is the stream of the first n numbers.
LEMMA BytesFacts ==
  ASSUME NEW n \in Nat, n <= MAX_BYTES
  PROVE  /\ Bytes(n) \in Seq(1..MAX_BYTES) /\ Len(Bytes(n)) = n
         /\ \A i \in 1..n : Bytes(n)[i] = i
<1>1. \A i \in 1..n : Bytes(n)[i] = i /\ i \in 1..MAX_BYTES
  BY StreamAssumption DEF Bytes
<1>2. Bytes(n) \in Seq(1..MAX_BYTES) /\ Len(Bytes(n)) = n
  BY <1>1 DEF Bytes
<1>3. QED
  BY <1>1, <1>2

\* appWriteCredit leaves room in the buffer and among the bytes queued.
LEMMA CreditArithmetic ==
  ASSUME NEW q \in Nat, NEW fl \in Nat, NEW b \in Nat, NEW n \in Nat, b = q + fl, b <= CAP,
         n <= Smaller(IF q + fl >= CAP THEN 0 ELSE CAP - (q + fl), CAP - b)
  PROVE  n <= CAP - b /\ q + n <= CAP
<1>1. CAP \in Nat
  BY StreamAssumption
<1>2. QED
  BY <1>1 DEF Smaller

\* Two sequences put together.
LEMMA Joined ==
  ASSUME NEW S, NEW q \in Seq(S), NEW r \in Seq(S)
  PROVE  q \o r \in Seq(S) /\ Len(q \o r) = Len(q) + Len(r)
OBVIOUS

\* commitWrite appends the next bytes of the stream to the buffer.
LEMMA WriteStep ==
  ASSUME Inv, NEW n \in 0..CAP, NEW fin \in BOOLEAN, write(n, fin)
  PROVE  Inv'
<1> DEFINE old == Len(app.sent)
           all == Bytes(old + n)
           tail == Part(all, old, Len(all))
           B == snd.buffer \o tail
<1>1. /\ snd \in Senders /\ app \in Histories /\ net \in SUBSET Frames /\ ctl \in SUBSET Controls
      /\ faults \in 0..FAULTS /\ aborted \in BOOLEAN
  BY TypedFacts
<1>2. /\ ~snd.finQueued /\ n <= appWriteCredit /\ old + n <= MAX_BYTES
      /\ snd' = [snd EXCEPT !.buffer = B, !.queued = snd.queued + n, !.finQueued = fin]
      /\ app' = [app EXCEPT !.sent = all, !.fin = fin]
      /\ UNCHANGED <<rcv, credit, net, ctl, acked, faults, aborted>>
  BY DEF write, Part
<1>3. SenderOK(snd, app)
  BY DEF Inv
<1>4. app.fin \in BOOLEAN /\ app.reset \in BOOLEAN /\ old \in Nat
  BY <1>1, HistoryFacts
<1>5. ~app.reset /\ ~app.fin
  BY <1>2, <1>3, <1>4 DEF SenderOK
<1>6. /\ snd.buffer \in Seq(1..MAX_BYTES) /\ Len(snd.buffer) \in Nat /\ snd.queued \in Nat
      /\ snd.inFlight \in Nat /\ snd.next \in Nat /\ snd.ackedOff \in Nat /\ snd.limit \in Nat
  BY <1>1, SenderFacts
<1>7. /\ snd.inFlight = snd.next - snd.ackedOff /\ Len(snd.buffer) = snd.queued + snd.inFlight
      /\ old = snd.ackedOff + Len(snd.buffer) /\ Len(snd.buffer) <= CAP
      /\ \A i \in 1..Len(snd.buffer) : snd.buffer[i] = snd.ackedOff + i
  BY <1>3, <1>5, Zenon DEF SenderOK
<1>8. n \in Nat /\ n <= CAP - Len(snd.buffer) /\ snd.queued + n <= CAP
  <2>1. n <= Smaller(IF snd.queued + snd.inFlight >= CAP THEN 0 ELSE CAP - (snd.queued + snd.inFlight),
                     CAP - Len(snd.buffer))
    BY <1>2, Zenon DEF appWriteCredit
  <2>2. n \in Nat
    OBVIOUS
  <2>3. QED
    BY <1>6, <1>7, <2>1, <2>2, CreditArithmetic, Zenon
<1>9. /\ all \in Seq(1..MAX_BYTES) /\ Len(all) = old + n
      /\ \A i \in 1..(old + n) : all[i] = i
  BY <1>2, <1>4, <1>8, BytesFacts
<1> HIDE DEF all
<1>10. /\ tail \in Seq(1..MAX_BYTES) /\ Len(tail) = n
       /\ \A i \in 1..n : tail[i] = old + i
  <2>1. old <= Len(all) /\ Len(all) <= Len(all) /\ Len(all) \in Nat /\ Len(all) - old = n
    BY <1>4, <1>8, <1>9
  <2>2. /\ tail \in Seq(1..MAX_BYTES) /\ Len(tail) = Len(all) - old
        /\ \A i \in 1..(Len(all) - old) : tail[i] = all[old + i]
    <3> HIDE DEF old
    <3>1. /\ all \in Seq(1..MAX_BYTES) /\ old \in Nat /\ Len(all) \in Nat
          /\ old <= Len(all) /\ Len(all) <= Len(all)
      BY <1>4, <1>9, <2>1
    <3>2. QED
      BY <3>1, Cut
  <2>3. \A i \in 1..n : old + i \in 1..(old + n)
    BY <1>4, <1>8
  <2>4. QED
    BY <1>9, <2>1, <2>2, <2>3
<1> HIDE DEF tail
<1>11. B \in Seq(1..MAX_BYTES) /\ Len(B) = Len(snd.buffer) + n
  <2>1. B \in Seq(1..MAX_BYTES) /\ Len(B) = Len(snd.buffer) + Len(tail)
    BY <1>6, <1>10, Joined, Zenon
  <2>2. QED
    BY <1>10, <2>1
<1>12. ASSUME NEW i \in 1..(Len(snd.buffer) + n) PROVE B[i] = snd.ackedOff + i
  <2>1. CASE i <= Len(snd.buffer)
    BY <1>6, <1>7, <1>8, <1>10, <2>1
  <2>2. CASE ~(i <= Len(snd.buffer))
    <3>1. i - Len(snd.buffer) \in 1..n
      BY <1>6, <1>8, <2>2
    <3>2. B[i] = tail[i - Len(snd.buffer)]
      BY <1>6, <1>10, <1>8, <2>2
    <3>3. B[i] = old + (i - Len(snd.buffer))
      BY <1>10, <3>1, <3>2
    <3>4. QED
      BY <1>6, <1>7, <3>3
  <2>3. QED
    BY <2>1, <2>2
<1> HIDE DEF B, old
<1>13. /\ snd' \in Senders /\ snd'.buffer = B /\ snd'.queued = snd.queued + n /\ snd'.finQueued = fin
       /\ snd'.inFlight = snd.inFlight /\ snd'.next = snd.next /\ snd'.ackedOff = snd.ackedOff
       /\ snd'.ranges = snd.ranges /\ snd'.limit = snd.limit
  <2>1. snd.queued + n \in 0..CAP
    BY <1>6, <1>8, StreamAssumption
  <2>2. QED
    BY <1>1, <1>2, <1>11, <2>1 DEF Senders
<1>14. /\ app' \in Histories /\ app'.sent = all /\ app'.fin = fin /\ app'.reset = app.reset
       /\ app'.got = app.got /\ app'.eof = app.eof /\ app'.cut = app.cut
  BY <1>1, <1>2, <1>9 DEF Histories
<1>15. SenderOK(snd', app')
  <2>1. snd'.ackedOff <= snd'.next /\ snd'.next <= Len(app'.sent) /\ Len(snd'.buffer) <= CAP
    <3>1. snd.ackedOff <= snd.next /\ snd.next <= old
      BY <1>3 DEF SenderOK, old
    <3>2. snd.next <= old + n
      BY <1>4, <1>6, <1>8, <3>1
    <3>3. Len(snd.buffer) + n <= CAP
      BY <1>6, <1>8, StreamAssumption
    <3>4. QED
      BY <1>9, <1>11, <1>13, <1>14, <3>1, <3>2, <3>3
  <2>2. app'.sent = Bytes(Len(app'.sent)) /\ Len(app'.sent) <= MAX_BYTES
    BY <1>2, <1>9, <1>14 DEF all
  <2>3. snd'.ranges \subseteq snd'.ackedOff..(snd'.next - 1)
    BY <1>3, <1>13 DEF SenderOK
  <2>4. ~app'.reset /\ snd'.finQueued = app'.fin
    BY <1>5, <1>13, <1>14
  <2>5. snd'.inFlight = snd'.next - snd'.ackedOff
    BY <1>7, <1>13
  <2>6. Len(snd'.buffer) = snd'.queued + snd'.inFlight
    <3>1. Len(B) = (snd.queued + snd.inFlight) + n
      BY <1>7, <1>11
    <3>2. (snd.queued + snd.inFlight) + n = (snd.queued + n) + snd.inFlight
      BY <1>6, <1>8
    <3>3. QED
      BY <1>13, <3>1, <3>2
  <2>7. Len(app'.sent) = snd'.ackedOff + Len(snd'.buffer)
    <3>1. Len(all) = (snd.ackedOff + Len(snd.buffer)) + n
      BY <1>7, <1>9, Zenon
    <3>2. (snd.ackedOff + Len(snd.buffer)) + n = snd.ackedOff + (Len(snd.buffer) + n)
      <4>1. \A x, y, z \in Nat : (x + y) + z = x + (y + z)
        OBVIOUS
      <4>2. snd.ackedOff \in Nat /\ Len(snd.buffer) \in Nat /\ n \in Nat
        BY <1>6, <1>8
      <4>3. QED
        BY <4>1, <4>2, Zenon
    <3>3. QED
      BY <1>11, <1>13, <1>14, <3>1, <3>2
  <2>8. \A i \in 1..Len(snd'.buffer) : snd'.buffer[i] = snd'.ackedOff + i
    BY <1>11, <1>12, <1>13
  <2>9. QED
    BY <2>1, <2>2, <2>3, <2>4, <2>5, <2>6, <2>7, <2>8 DEF SenderOK
<1>16. /\ snd.next <= snd'.next /\ Within(snd', credit)
       /\ Len(app.sent) <= Len(app'.sent)
  <2>1. Within(snd, credit)
    BY DEF Inv, CreditOK, Within
  <2>2. Len(app.sent) <= Len(app'.sent)
    BY <1>4, <1>8, <1>9, <1>14 DEF old
  <2>3. QED
    BY <1>6, <1>13, <2>1, <2>2 DEF Within
<1>17. QED
  BY <1>1, <1>2, <1>5, <1>13, <1>14, <1>15, <1>16, SenderMoves

\* A frame cut from the buffer at the next offset.
LEMMA NewFrame ==
  ASSUME NEW off \in Nat, NEW data \in Seq(1..MAX_BYTES), NEW fin \in BOOLEAN, off <= MAX_BYTES
  PROVE  /\ Frame(off, data, fin) \in Frames /\ Frame(off, data, fin).off = off
         /\ Frame(off, data, fin).data = data /\ Frame(off, data, fin).fin = fin
         /\ EndOf(Frame(off, data, fin)) = off + Len(data)
<1>1. off \in 0..MAX_BYTES
  BY StreamAssumption
<1>2. QED
  BY <1>1 DEF Frames, Frame, EndOf

\* What a try beyond the credit adds to the frames under way.
LEMMA AskedFacts ==
  ASSUME Inv, NEW n, NEW odd \in BOOLEAN, Asked(n, odd)
  PROVE  /\ ctl' \in SUBSET Controls /\ faults' \in 0..FAULTS
         /\ \A m \in ctl' : m \in ctl \/ m.type = "Blocked"
<1>1. ctl \in SUBSET Controls /\ faults \in 0..FAULTS
  BY TypedFacts
<1>2. faults' \in 0..FAULTS
  BY <1>1, StreamAssumption DEF Asked, Fault
<1>3. ctl' = ctl \/ ctl' = ctl \cup {Blocked}
  BY DEF Asked
<1>4. Blocked \in Controls /\ Blocked.type = "Blocked"
  BY DEF Blocked, Controls
<1>5. QED
  BY <1>1, <1>2, <1>3, <1>4

\* A try is of some byte that is queued.
LEMMA TryFacts ==
  ASSUME Inv, NEW n \in Tries, NEW len \in 1..n
  PROVE  len \in Nat /\ len > 0 /\ len <= snd.queued /\ len <= MTU /\ snd.queued > 0
<1>1. snd.queued \in Nat /\ MTU \in Nat
  BY TypedFacts, SenderFacts, StreamAssumption
<1>2. PICK m \in Nat : m = Smaller(snd.queued, MTU) /\ m <= snd.queued /\ m <= MTU
  BY <1>1 DEF Smaller
<1>3. n \in 1..m
  BY <1>2 DEF Tries
<1>4. QED
  BY <1>1, <1>2, <1>3

\* flushPendingSends: each frame carries the bytes of its offset.
LEMMA FlushStep ==
  ASSUME Inv, flushPendingSends
  PROVE  Inv'
<1>1. /\ snd \in Senders /\ app \in Histories /\ net \in SUBSET Frames /\ ctl \in SUBSET Controls
      /\ faults \in 0..FAULTS /\ aborted \in BOOLEAN
  BY TypedFacts
<1>2. SenderOK(snd, app) /\ Within(snd, credit)
  BY DEF Inv, CreditOK, Within
<1>3. UNCHANGED <<rcv, credit, acked, aborted, app>>
  BY DEF flushPendingSends
<1>4. /\ app.fin \in BOOLEAN /\ app.reset \in BOOLEAN /\ Len(app.sent) \in Nat
  BY <1>1, HistoryFacts
<1>5. /\ snd.buffer \in Seq(1..MAX_BYTES) /\ Len(snd.buffer) \in Nat /\ snd.queued \in Nat
      /\ snd.inFlight \in Nat /\ snd.next \in Nat /\ snd.ackedOff \in Nat /\ snd.limit \in Nat
      /\ snd.next <= MAX_BYTES /\ snd.finQueued \in BOOLEAN /\ snd.finSent \in BOOLEAN
      /\ snd.queued <= CAP
  BY <1>1, SenderFacts
<1>6. /\ snd.ackedOff <= snd.next /\ snd.next <= Len(app.sent) /\ Len(snd.buffer) <= CAP
      /\ Len(app.sent) <= MAX_BYTES /\ app.sent = Bytes(Len(app.sent))
      /\ snd.ranges \subseteq snd.ackedOff..(snd.next - 1)
      /\ app.reset => snd.finSent /\ snd.queued = 0
  BY <1>2, Zenon DEF SenderOK
<1>7. ~app.reset
  <2>1. (snd.queued = 0 /\ ~snd.finSent) \/ snd.queued > 0
    <3>1. CASE SendFin
      BY <3>1 DEF SendFin
    <3>2. ASSUME NEW n \in Tries PROVE snd.queued > 0
      <4>1. 1 \in 1..n
        BY <1>5, StreamAssumption DEF Tries, Smaller
      <4>2. QED
        BY <4>1, TryFacts
    <3>3. QED
      BY <3>1, <3>2 DEF flushPendingSends
  <2>2. ~(0 > 0)
    OBVIOUS
  <2>3. QED
    BY <1>6, <2>1, <2>2
<1>8. /\ snd.inFlight = snd.next - snd.ackedOff /\ Len(snd.buffer) = snd.queued + snd.inFlight
      /\ Len(app.sent) = snd.ackedOff + Len(snd.buffer) /\ snd.finQueued = app.fin
      /\ \A i \in 1..Len(snd.buffer) : snd.buffer[i] = snd.ackedOff + i
  BY <1>2, <1>7, Zenon DEF SenderOK
<1>counts. /\ Len(snd.buffer) \in Nat /\ snd.queued \in Nat /\ snd.inFlight \in Nat
           /\ snd.next \in Nat /\ snd.ackedOff \in Nat
           /\ snd.inFlight = snd.next - snd.ackedOff /\ Len(snd.buffer) = snd.queued + snd.inFlight
  BY <1>5, <1>8
<1>9. Len(app.sent) = snd.next + snd.queued
  <2>1. \A a, b, q, f, x \in Int : f = x - a /\ b = q + f => a + b = x + q
    OBVIOUS
  <2>2. QED
    BY <1>5, <1>8, <2>1
<1>10. ASSUME snd.queued = 0, snd.finQueued, net' = net \cup {Frame(snd.next, <<>>, TRUE)},
              snd' = [snd EXCEPT !.finSent = TRUE], UNCHANGED <<ctl, faults>>
       PROVE  Inv'
  <2>1. /\ snd' \in Senders /\ snd'.buffer = snd.buffer /\ snd'.queued = snd.queued
        /\ snd'.inFlight = snd.inFlight /\ snd'.next = snd.next /\ snd'.ackedOff = snd.ackedOff
        /\ snd'.ranges = snd.ranges /\ snd'.limit = snd.limit /\ snd'.finQueued = snd.finQueued
        /\ snd'.finSent
    BY <1>1, <1>10 DEF Senders
  <2>2. SenderOK(snd', app')
    BY <1>2, <1>3, <2>1 DEF SenderOK
  <2>3. PICK p : p = Frame(snd.next, <<>>, TRUE)
    OBVIOUS
  <2>4. /\ p \in Frames /\ p.off = snd.next /\ p.data = <<>> /\ p.fin = TRUE
        /\ EndOf(p) = snd.next + Len(<<>>)
    <3>1. <<>> \in Seq(1..MAX_BYTES)
      OBVIOUS
    <3>2. snd.next \in Nat /\ snd.next <= MAX_BYTES /\ TRUE \in BOOLEAN
      BY <1>5
    <3>3. QED
      BY <2>3, <3>1, <3>2, NewFrame, Zenon
  <2>5. Len(p.data) = 0 /\ EndOf(p) = snd.next
    BY <1>5, <2>4
  <2>6. FrameOK(p, snd'.next, app')
    <3>1. Carries(p) /\ Len(p.data) <= MTU
      BY <2>5, StreamAssumption DEF Carries
    <3>2. EndOf(p) <= snd'.next /\ app'.fin /\ EndOf(p) = Len(app'.sent)
      BY <1>3, <1>5, <1>8, <1>9, <1>10, <2>1, <2>5
    <3>3. QED
      BY <3>1, <3>2 DEF FrameOK
  <2>7. net' \in SUBSET Frames /\ \A f \in net' : f \in net \/ FrameOK(f, snd'.next, app')
    BY <1>1, <1>10, <2>3, <2>4, <2>6
  <2>8. snd.next <= snd'.next /\ Within(snd', credit)
    BY <1>2, <1>5, <2>1 DEF Within
  <2>9. Len(app.sent) <= Len(app'.sent)
    BY <1>3, <1>4
  <2>10. QED
    BY <1>1, <1>3, <1>10, <2>1, <2>2, <2>7, <2>8, <2>9, SenderMoves
<1>11. ASSUME NEW n \in Tries, NEW odd \in BOOLEAN, NEW len \in 1..n, Asked(n, odd),
              NEW start, start = Smaller(snd.next - snd.ackedOff, Len(snd.buffer)),
              NEW data, data = SubSeq(snd.buffer, start + 1, start + len),
              NEW fin, fin = (snd.finQueued /\ ~snd.finSent /\ len = snd.queued),
              NEW asked, asked \in BOOLEAN,
              MaySend(snd.next, len), net' = net \cup {Frame(snd.next, data, fin)},
              snd' = [snd EXCEPT !.next = @ + len, !.queued = @ - len, !.inFlight = @ + len,
                                 !.finSent = @ \/ fin, !.asked = asked]
       PROVE  Inv'
  <2>1. len \in Nat /\ len <= snd.queued /\ len <= MTU
    BY <1>11, TryFacts
  <2>2. start = snd.inFlight
    BY <1>5, <1>8, <1>11 DEF Smaller
  <2>3. /\ data \in Seq(1..MAX_BYTES) /\ Len(data) = len
        /\ \A i \in 1..len : data[i] = snd.next + i
    <3>1. /\ start \in Nat /\ start + len \in Nat /\ start <= start + len
          /\ start + len <= Len(snd.buffer) /\ (start + len) - start = len
      <4>2. PICK b, q \in Nat : b = Len(snd.buffer) /\ q = snd.queued
        BY <1>counts
      <4>3. b = q + snd.inFlight /\ len <= q /\ snd.inFlight \in Nat /\ len \in Nat
        BY <1>counts, <2>1, <4>2, Zenon
      <4>4. /\ snd.inFlight + len \in Nat /\ snd.inFlight <= snd.inFlight + len
            /\ snd.inFlight + len <= b /\ (snd.inFlight + len) - snd.inFlight = len
        BY <4>3
      <4>5. QED
        BY <2>2, <4>2, <4>3, <4>4, Zenon
    <3>2. PICK q \in Seq(1..MAX_BYTES) : q = snd.buffer
      BY <1>5
    <3>3. PICK e \in Nat : e = start + len
      BY <3>1
    <3>4. start <= e /\ e <= Len(q) /\ e - start = len
      BY <3>1, <3>2, <3>3
    <3>5. /\ Part(q, start, e) \in Seq(1..MAX_BYTES) /\ Len(Part(q, start, e)) = e - start
          /\ \A i \in 1..(e - start) : Part(q, start, e)[i] = q[start + i]
      BY <3>1, <3>4, Cut
    <3>6. data = Part(q, start, e)
      BY <1>11, <3>2, <3>3 DEF Part
    <3>7. ASSUME NEW i \in 1..len PROVE data[i] = snd.next + i
      <4>1. start + i \in 1..Len(snd.buffer)
        BY <1>5, <2>1, <3>1
      <4>2. data[i] = snd.buffer[start + i]
        BY <3>2, <3>4, <3>5, <3>6
      <4>3. snd.buffer[start + i] = snd.ackedOff + (start + i)
        BY <1>8, <4>1
      <4>4. QED
        <5>1. \A a, x, f, j \in Int : f = x - a => a + (f + j) = x + j
          OBVIOUS
        <5>2. data[i] = snd.ackedOff + (snd.inFlight + i)
          BY <2>2, <4>2, <4>3
        <5>3. QED
          BY <1>counts, <5>1, <5>2
    <3>8. QED
      BY <3>4, <3>5, <3>6, <3>7
  <2>4. fin \in BOOLEAN
    BY <1>11
  <2>5. /\ snd.next + len <= snd.limit /\ snd.next + len <= Len(app.sent) /\ snd.next + len <= MAX_BYTES
        /\ snd.inFlight + len <= CAP
    <3>1. snd.next + len <= Len(app.sent)
      BY <1>5, <1>9, <2>1
    <3>2. snd.inFlight + len <= CAP
      BY <1>5, <1>6, <1>8, <2>1, StreamAssumption
    <3>3. snd.next + len <= snd.limit
      BY <1>11 DEF MaySend
    <3>4. PICK x, y \in Nat : x = snd.next + len /\ y = Len(app.sent)
      <4>1. snd.next + len \in Nat
        BY <1>5, <2>1
      <4>2. QED
        BY <1>4, <4>1, Zenon
    <3>5. x <= y /\ y <= MAX_BYTES /\ MAX_BYTES \in Nat
      BY <1>6, <3>1, <3>4, StreamAssumption
    <3>6. x <= MAX_BYTES
      BY <3>5
    <3>7. QED
      BY <3>1, <3>2, <3>3, <3>4, <3>6
  <2>6. /\ snd' \in Senders /\ snd'.buffer = snd.buffer /\ snd'.queued = snd.queued - len
        /\ snd'.inFlight = snd.inFlight + len /\ snd'.next = snd.next + len
        /\ snd'.ackedOff = snd.ackedOff /\ snd'.ranges = snd.ranges /\ snd'.limit = snd.limit
        /\ snd'.finQueued = snd.finQueued
    <3>1. /\ snd.next + len \in 0..MAX_BYTES /\ snd.queued - len \in 0..CAP
          /\ snd.inFlight + len \in 0..CAP
      <4>1. CAP \in Nat /\ MAX_BYTES \in Nat /\ snd.queued <= CAP
        BY <1>5, StreamAssumption
      <4>2. snd.queued - len \in 0..CAP
        BY <1>counts, <2>1, <4>1
      <4>3. \A x, m \in Nat : x <= m => x \in 0..m
        OBVIOUS
      <4>4. snd.next + len \in Nat /\ snd.inFlight + len \in Nat
        BY <1>counts, <2>1
      <4>5. QED
        BY <2>5, <4>1, <4>2, <4>3, <4>4
    <3>2. PICK b \in BOOLEAN : b = (snd.finSent \/ fin)
      OBVIOUS
    <3>3. snd' = [snd EXCEPT !.next = snd.next + len, !.queued = snd.queued - len,
                             !.inFlight = snd.inFlight + len, !.finSent = b, !.asked = asked]
      BY <1>11, <3>2, Zenon
    <3>4. QED
      BY <1>1, <1>11, <3>1, <3>3 DEF Senders
  <2>7. PICK p : p = Frame(snd.next, data, fin)
    OBVIOUS
  <2>8. /\ p \in Frames /\ p.off = snd.next /\ p.data = data /\ p.fin = fin
        /\ EndOf(p) = snd.next + Len(data)
    <3>1. snd.next \in Nat /\ snd.next <= MAX_BYTES /\ data \in Seq(1..MAX_BYTES)
      BY <1>5, <2>3
    <3>2. QED
      <4>1. /\ Frame(snd.next, data, fin) \in Frames /\ Frame(snd.next, data, fin).off = snd.next
            /\ Frame(snd.next, data, fin).data = data /\ Frame(snd.next, data, fin).fin = fin
            /\ EndOf(Frame(snd.next, data, fin)) = snd.next + Len(data)
        BY <2>4, <3>1, NewFrame
      <4>2. QED
        BY <2>7, <4>1
  <2>9. FrameOK(p, snd'.next, app')
    <3>1. Carries(p) /\ Len(p.data) <= MTU
      BY <2>1, <2>3, <2>8 DEF Carries
    <3>2. EndOf(p) = snd'.next /\ EndOf(p) <= snd'.next
      BY <1>5, <2>1, <2>3, <2>6, <2>8
    <3>3. p.fin => app'.fin /\ EndOf(p) = Len(app'.sent)
      BY <1>3, <1>8, <1>9, <1>11, <2>3, <2>8
    <3>4. QED
      BY <3>1, <3>2, <3>3 DEF FrameOK
  <2>10. SenderOK(snd', app')
    <3>1. snd'.ackedOff <= snd'.next /\ snd'.next <= Len(app'.sent)
      BY <1>3, <1>5, <1>6, <2>1, <2>5, <2>6
    <3>2. snd'.ranges \subseteq snd'.ackedOff..(snd'.next - 1)
      BY <1>5, <1>6, <2>1, <2>6
    <3>3. snd'.inFlight = snd'.next - snd'.ackedOff
      BY <1>5, <1>8, <2>1, <2>6
    <3>4. Len(snd'.buffer) = snd'.queued + snd'.inFlight
      BY <1>5, <1>8, <2>1, <2>6
    <3>5. /\ Len(snd'.buffer) <= CAP /\ Len(app'.sent) <= MAX_BYTES
          /\ app'.sent = Bytes(Len(app'.sent)) /\ snd'.finQueued = app'.fin /\ ~app'.reset
          /\ Len(app'.sent) = snd'.ackedOff + Len(snd'.buffer)
          /\ \A i \in 1..Len(snd'.buffer) : snd'.buffer[i] = snd'.ackedOff + i
      BY <1>3, <1>6, <1>7, <1>8, <2>6
    <3>6. QED
      BY <3>1, <3>2, <3>3, <3>4, <3>5 DEF SenderOK
  <2>11. net' \in SUBSET Frames /\ \A f \in net' : f \in net \/ FrameOK(f, snd'.next, app')
    BY <1>1, <1>11, <2>7, <2>8, <2>9
  <2>12. snd.next <= snd'.next /\ Within(snd', credit)
    <3>1. PICK l \in Nat : l = Larger(LIMIT, credit.advertised)
      <4>1. credit.advertised \in Nat
        BY TypedFacts DEF Credits
      <4>2. QED
        BY <4>1, LargerFacts, StreamAssumption
    <3>2. snd.limit <= l
      BY <1>2, <3>1 DEF Within
    <3>3. snd.next + len <= l
      BY <1>5, <2>1, <2>5, <3>2
    <3>4. Within(snd', credit)
      BY <2>6, <3>1, <3>2, <3>3, Zenon DEF Within
    <3>5. snd.next <= snd'.next
      BY <1>5, <2>1, <2>6
    <3>6. QED
      BY <3>4, <3>5
  <2>13. Len(app.sent) <= Len(app'.sent)
    BY <1>3, <1>4
  <2>14. /\ ctl' \in SUBSET Controls /\ faults' \in 0..FAULTS
         /\ \A m \in ctl' : m \in ctl \/ m.type = "Blocked"
    BY <1>11, AskedFacts
  <2>15. QED
    BY <1>1, <1>3, <2>6, <2>10, <2>11, <2>12, <2>13, <2>14, SenderMoves
<1>12. ASSUME NEW n \in Tries, NEW odd \in BOOLEAN, Asked(n, odd),
              snd' = [snd EXCEPT !.asked = TRUE], UNCHANGED net
       PROVE  Inv'
  <2>1. /\ snd' \in Senders /\ snd'.buffer = snd.buffer /\ snd'.queued = snd.queued
        /\ snd'.inFlight = snd.inFlight /\ snd'.next = snd.next /\ snd'.ackedOff = snd.ackedOff
        /\ snd'.ranges = snd.ranges /\ snd'.limit = snd.limit /\ snd'.finQueued = snd.finQueued
        /\ snd'.finSent = snd.finSent
    BY <1>1, <1>12 DEF Senders
  <2>2. SenderOK(snd', app')
    BY <1>2, <1>3, <2>1 DEF SenderOK
  <2>3. snd.next <= snd'.next /\ Within(snd', credit) /\ Len(app.sent) <= Len(app'.sent)
    BY <1>2, <1>3, <1>4, <1>5, <2>1 DEF Within
  <2>4. /\ ctl' \in SUBSET Controls /\ faults' \in 0..FAULTS
        /\ \A m \in ctl' : m \in ctl \/ m.type = "Blocked"
    BY <1>12, AskedFacts
  <2>5. QED
    BY <1>1, <1>3, <1>12, <2>1, <2>2, <2>3, <2>4, SenderMoves
<1>13. CASE SendFin
  BY <1>10, <1>13 DEF SendFin
<1>14. ASSUME NEW n \in Tries, NEW odd \in BOOLEAN, NEW len \in 1..n, SendBytes(n, len, odd)
       PROVE  Inv'
  <2>1. PICK start : start = Smaller(snd.next - snd.ackedOff, Len(snd.buffer))
    OBVIOUS
  <2>2. PICK data : data = SubSeq(snd.buffer, start + 1, start + len)
    OBVIOUS
  <2>3. PICK fin : fin = (snd.finQueued /\ ~snd.finSent /\ len = snd.queued)
    OBVIOUS
  <2>4. PICK asked \in BOOLEAN : asked = (snd.asked \/ Asks(n, odd))
    OBVIOUS
  <2>5. /\ MaySend(snd.next, len) /\ Asked(n, odd) /\ net' = net \cup {Frame(snd.next, data, fin)}
        /\ snd' = [snd EXCEPT !.next = @ + len, !.queued = @ - len, !.inFlight = @ + len,
                              !.finSent = @ \/ fin, !.asked = asked]
    BY <1>14, <2>1, <2>2, <2>3, <2>4, Zenon DEF SendBytes
  <2>6. QED
    BY <1>11, <2>1, <2>2, <2>3, <2>4, <2>5
<1>15. ASSUME NEW n \in Tries, NEW odd \in BOOLEAN, SendNothing(n, odd)
       PROVE  Inv'
  BY <1>12, <1>15 DEF SendNothing
<1>16. QED
  BY <1>13, <1>14, <1>15 DEF flushPendingSends

\* retransmitSplitStreamPacket: both parts of a frame are frames.
LEMMA SplitStep ==
  ASSUME Inv, NEW f \in net, NEW n \in 1..(Len(f.data) - 1), NEW late \in BOOLEAN,
         retransmitSplitStreamPacket(f, n, late)
  PROVE  Inv'
<1> DEFINE head == Part(f.data, 0, n)
           tail == Part(f.data, n, Len(f.data))
           a == Frame(f.off, head, FALSE)
           b == Frame(f.off + n, tail, f.fin)
<1>1. /\ snd \in Senders /\ app \in Histories /\ net \in SUBSET Frames /\ ctl \in SUBSET Controls
      /\ faults \in 0..FAULTS /\ aborted \in BOOLEAN
  BY TypedFacts
<1>2. /\ SenderOK(snd, app) /\ Within(snd, credit)
      /\ FrameOK(f, snd.next, app)
  BY DEF Inv, CreditOK, Within
<1>3. /\ UNCHANGED <<snd, rcv, credit, ctl, acked, aborted, app>>
      /\ net' = (IF late THEN net ELSE net \ {f}) \cup {a, b}
      /\ faults > 0 /\ faults' = faults - 1
  BY DEF retransmitSplitStreamPacket, Fault, Part
<1>4. /\ f.off \in Nat /\ Len(f.data) \in Nat /\ f.data \in Seq(1..MAX_BYTES) /\ f.fin \in BOOLEAN
      /\ EndOf(f) = f.off + Len(f.data) /\ f.off <= MAX_BYTES
  BY <1>1, FrameFacts
<1>5. snd.next \in Nat /\ snd.next <= MAX_BYTES /\ Len(app.sent) \in Nat
  BY <1>1, SenderFacts, HistoryFacts
<1>6. /\ \A i \in 1..Len(f.data) : f.data[i] = f.off + i
      /\ EndOf(f) <= snd.next /\ Len(f.data) <= MTU
      /\ f.fin => app.fin /\ EndOf(f) = Len(app.sent)
  BY <1>2 DEF FrameOK, Carries
<1>7. n \in Nat /\ n <= Len(f.data) /\ 0 <= n /\ 0 \in Nat /\ Len(f.data) <= Len(f.data)
  BY <1>4
<1>8. /\ head \in Seq(1..MAX_BYTES) /\ Len(head) = n /\ \A i \in 1..n : head[i] = f.data[i]
  <2>1. n - 0 = n /\ \A i \in 1..n : 0 + i = i
    BY <1>7
  <2>2. head \in Seq(1..MAX_BYTES) /\ Len(head) = n - 0 /\ \A i \in 1..(n - 0) : head[i] = f.data[0 + i]
    BY <1>4, <1>7, Cut
  <2>3. QED
    BY <2>1, <2>2
<1>9. /\ tail \in Seq(1..MAX_BYTES) /\ Len(tail) = Len(f.data) - n
      /\ \A i \in 1..(Len(f.data) - n) : tail[i] = f.data[n + i]
  <2>1. /\ f.data \in Seq(1..MAX_BYTES) /\ Len(f.data) \in Nat /\ n \in Nat /\ n <= Len(f.data)
        /\ Len(f.data) <= Len(f.data)
    BY <1>4, <1>7
  <2>2. QED
    BY <2>1, Cut
<1> HIDE DEF head, tail
<1>10. /\ a \in Frames /\ a.off = f.off /\ a.data = head /\ a.fin = FALSE
       /\ EndOf(a) = f.off + Len(head)
  <2>1. f.off \in Nat /\ head \in Seq(1..MAX_BYTES) /\ f.off <= MAX_BYTES /\ FALSE \in BOOLEAN
    BY <1>4, <1>8
  <2>2. QED
    BY <2>1, NewFrame, Zenon
<1>11. f.off + n \in Nat /\ f.off + n <= MAX_BYTES
  <2>1. PICK o, d, e \in Nat : o = f.off /\ d = Len(f.data) /\ e = snd.next
    BY <1>4, <1>5, Zenon
  <2>2. o + d <= e /\ e <= MAX_BYTES /\ n <= d /\ MAX_BYTES \in Nat
    BY <1>4, <1>5, <1>6, <1>7, <2>1, StreamAssumption
  <2>3. o + n \in Nat /\ o + n <= MAX_BYTES
    BY <1>7, <2>2
  <2>4. QED
    BY <2>1, <2>3
<1>12. /\ b \in Frames /\ b.off = f.off + n /\ b.data = tail /\ b.fin = f.fin
       /\ EndOf(b) = (f.off + n) + Len(tail)
  <2>1. tail \in Seq(1..MAX_BYTES)
    BY <1>9
  <2>2. PICK o \in Nat : o = f.off + n /\ o <= MAX_BYTES
    BY <1>11
  <2>3. PICK end \in BOOLEAN : end = f.fin
    BY <1>4
  <2>4. /\ Frame(o, tail, end) \in Frames /\ Frame(o, tail, end).off = o
        /\ Frame(o, tail, end).data = tail /\ Frame(o, tail, end).fin = end
        /\ EndOf(Frame(o, tail, end)) = o + Len(tail)
    BY <2>1, <2>2, NewFrame, Zenon
  <2>5. b = Frame(o, tail, end)
    BY <2>2, <2>3
  <2>6. QED
    BY <2>2, <2>3, <2>4, <2>5
<1> HIDE DEF a, b
<1>13. FrameOK(a, snd'.next, app')
  <2>1. Carries(a)
    <3>1. ASSUME NEW i \in 1..Len(a.data) PROVE a.data[i] = a.off + i
      <4>1. i \in 1..n /\ i \in 1..Len(f.data)
        BY <1>4, <1>7, <1>8, <1>10
      <4>2. QED
        BY <1>6, <1>8, <1>10, <4>1
    <3>2. QED
      BY <3>1 DEF Carries
  <2>2. EndOf(a) <= snd.next
    BY <1>4, <1>5, <1>6, <1>7, <1>8, <1>10
  <2>3. Len(a.data) <= MTU
    BY <1>4, <1>6, <1>7, <1>8, <1>10, StreamAssumption
  <2>4. QED
    BY <1>3, <1>10, <2>1, <2>2, <2>3 DEF FrameOK
<1>14. FrameOK(b, snd'.next, app')
  <2>1. Carries(b)
    <3>1. ASSUME NEW i \in 1..Len(b.data) PROVE b.data[i] = b.off + i
      <4>1. i \in 1..(Len(f.data) - n) /\ n + i \in 1..Len(f.data)
        BY <1>4, <1>7, <1>9, <1>12
      <4>2. b.data[i] = f.off + (n + i)
        BY <1>6, <1>9, <1>12, <4>1
      <4>3. QED
        BY <1>4, <1>7, <1>12, <4>1, <4>2
    <3>2. QED
      BY <3>1 DEF Carries
  <2>2. EndOf(b) = EndOf(f)
    <3>1. EndOf(b) = (f.off + n) + (Len(f.data) - n)
      BY <1>9, <1>12
    <3>2. PICK o, d \in Nat : o = f.off /\ d = Len(f.data)
      BY <1>4, Zenon
    <3>3. (o + n) + (d - n) = o + d
      BY <1>7
    <3>4. QED
      BY <1>4, <3>1, <3>2, <3>3
  <2>3. Len(b.data) <= MTU
    BY <1>4, <1>6, <1>7, <1>9, <1>12, StreamAssumption
  <2>4. QED
    BY <1>3, <1>6, <1>12, <2>1, <2>2, <2>3 DEF FrameOK
<1>15. net' \in SUBSET Frames /\ \A p \in net' : p \in net \/ FrameOK(p, snd'.next, app')
  BY <1>1, <1>3, <1>10, <1>12, <1>13, <1>14
<1>16. faults' \in 0..FAULTS /\ snd.next <= snd'.next /\ Len(app.sent) <= Len(app'.sent)
  BY <1>1, <1>3, <1>5, StreamAssumption
<1>17. SenderOK(snd', app') /\ Within(snd', credit)
  BY <1>2, <1>3 DEF Within
<1>18. snd' = snd /\ app' = app /\ ctl' = ctl /\ aborted' = aborted /\ UNCHANGED <<rcv, credit, acked>>
  BY <1>3
<1>19. QED
  BY <1>1, <1>15, <1>16, <1>17, <1>18, SenderMoves

\* Emptied leaves a send half that claims nothing.
LEMMA EmptiedStep ==
  ASSUME Inv, UNCHANGED <<rcv, credit, net, acked, aborted>>,
         snd' = Emptied(snd), app' = [app EXCEPT !.reset = TRUE],
         ctl' \in SUBSET Controls, faults' \in 0..FAULTS,
         \A m \in ctl' : m \in ctl \/ m.type = "Reset"
  PROVE  Inv'
<1>1. /\ snd \in Senders /\ app \in Histories /\ net \in SUBSET Frames /\ aborted \in BOOLEAN
  BY TypedFacts
<1>2. SenderOK(snd, app) /\ Within(snd, credit)
  BY DEF Inv, CreditOK, Within
<1>3. snd' = [snd EXCEPT !.finQueued = TRUE, !.finSent = TRUE, !.queued = 0, !.inFlight = 0,
                         !.ackedOff = snd.next, !.ranges = {}, !.buffer = <<>>]
  BY DEF Emptied
<1>4. snd.next \in 0..MAX_BYTES /\ snd.next \in Nat
  BY <1>1, SenderFacts DEF Senders
<1>5. /\ snd' \in Senders /\ snd'.finQueued /\ snd'.finSent /\ snd'.queued = 0 /\ snd'.inFlight = 0
      /\ snd'.ackedOff = snd.next /\ snd'.ranges = {} /\ snd'.buffer = <<>>
      /\ snd'.next = snd.next /\ snd'.limit = snd.limit
  <2>1. 0 \in 0..CAP /\ {} \in SUBSET Nat /\ <<>> \in Seq(1..MAX_BYTES)
    BY StreamAssumption
  <2>2. snd' \in Senders
    BY <1>1, <1>3, <1>4, <2>1 DEF Senders
  <2>3. QED
    BY <1>1, <1>3, <2>2 DEF Senders
<1>6. /\ app' \in Histories /\ app'.sent = app.sent /\ app'.fin = app.fin /\ app'.reset
      /\ app'.got = app.got /\ app'.eof = app.eof /\ app'.cut = app.cut
  BY <1>1 DEF Histories
<1>7. SenderOK(snd', app')
  <2>1. snd.next <= Len(app.sent) /\ app.sent = Bytes(Len(app.sent)) /\ Len(app.sent) <= MAX_BYTES
    BY <1>2 DEF SenderOK
  <2>2. snd.next <= snd.next /\ 0 <= CAP /\ Len(<<>>) = 0
    BY <1>4, StreamAssumption
  <2>3. QED
    BY <1>5, <1>6, <2>1, <2>2 DEF SenderOK
<1>8. snd.next <= snd'.next /\ Len(app.sent) <= Len(app'.sent)
  BY <1>1, <1>4, <1>5, <1>6, HistoryFacts
<1>9. Within(snd', credit)
  BY <1>2, <1>5 DEF Within
<1>10. QED
  BY <1>1, <1>5, <1>6, <1>7, <1>8, <1>9, SenderMoves

\* reset, called by the writer.
LEMMA ResetStep ==
  ASSUME Inv, reset
  PROVE  Inv'
<1>1. ctl \in SUBSET Controls /\ faults \in 0..FAULTS
  BY TypedFacts
<1>2. /\ UNCHANGED <<rcv, credit, net, acked, aborted>> /\ ctl' = ctl \cup {Reset}
      /\ faults > 0 /\ faults' = faults - 1 /\ app' = [app EXCEPT !.reset = TRUE]
      /\ snd' = Emptied(snd)
  BY DEF reset, Fault
<1>3. Reset \in Controls /\ Reset.type = "Reset"
  BY DEF Reset, Controls
<1>4. faults' \in 0..FAULTS
  BY <1>1, <1>2, StreamAssumption
<1>5. ctl' \in SUBSET Controls /\ \A m \in ctl' : m \in ctl \/ m.type = "Reset"
  BY <1>1, <1>2, <1>3
<1>6. QED
  BY <1>2, <1>4, <1>5, EmptiedStep

\* onReset at the writer.
LEMMA ResetBackFrameStep ==
  ASSUME Inv, NEW c \in ctl, OnResetBack(c)
  PROVE  Inv'
<1>1. ctl \in SUBSET Controls /\ faults \in 0..FAULTS
  BY TypedFacts
<1>2. /\ UNCHANGED <<rcv, credit, net, acked, faults, aborted>> /\ ctl' = ctl \ {c}
      /\ app' = [app EXCEPT !.reset = TRUE] /\ snd' = Emptied(snd)
  BY DEF OnResetBack
<1>3. QED
  BY <1>1, <1>2, EmptiedStep

\* handleMaxStreamDataFrame takes only credit that was given.
LEMMA MaxStreamDataStep ==
  ASSUME Inv, NEW c \in ctl, handleMaxStreamDataFrame(c)
  PROVE  Inv'
<1>1. /\ snd \in Senders /\ app \in Histories /\ net \in SUBSET Frames /\ ctl \in SUBSET Controls
      /\ faults \in 0..FAULTS /\ aborted \in BOOLEAN /\ credit \in Credits
  BY TypedFacts
<1>2. /\ c.type = "MaxStreamData" /\ ctl' = ctl \ {c}
      /\ snd' = [snd EXCEPT !.told = TRUE, !.limit = IF snd.told THEN Larger(@, c.value) ELSE c.value]
      /\ UNCHANGED <<rcv, credit, net, acked, faults, aborted, app>>
  BY DEF handleMaxStreamDataFrame
<1>3. /\ SenderOK(snd, app) /\ Within(snd, credit) /\ c.value <= credit.advertised
  BY <1>2 DEF Inv, CreditOK, Within
<1>4. c.value \in Nat /\ snd.limit \in Nat /\ snd.next \in Nat /\ Len(app.sent) \in Nat
  BY <1>1, <1>2, SenderFacts, HistoryFacts DEF Controls
<1>5. credit.advertised \in Nat /\ LIMIT \in Nat
  BY <1>1, StreamAssumption DEF Credits
<1>6. PICK l \in Nat : /\ l = IF snd.told THEN Larger(snd.limit, c.value) ELSE c.value
                       /\ l <= Larger(LIMIT, credit.advertised)
  <2>1. snd.limit <= Larger(LIMIT, credit.advertised)
    BY <1>3 DEF Within
  <2>2. QED
    BY <1>3, <1>4, <1>5, <2>1 DEF Larger
<1>7. /\ snd' \in Senders /\ snd'.limit = l /\ snd'.next = snd.next /\ snd'.buffer = snd.buffer
      /\ snd'.queued = snd.queued /\ snd'.inFlight = snd.inFlight /\ snd'.ackedOff = snd.ackedOff
      /\ snd'.ranges = snd.ranges /\ snd'.finQueued = snd.finQueued /\ snd'.finSent = snd.finSent
  <2>1. snd' = [snd EXCEPT !.told = TRUE, !.limit = l]
    BY <1>2, <1>6
  <2>2. QED
    BY <1>1, <2>1 DEF Senders
<1>8. SenderOK(snd', app')
  BY <1>2, <1>3, <1>7 DEF SenderOK
<1>9. snd.next <= snd'.next /\ Within(snd', credit)
  BY <1>3, <1>4, <1>6, <1>7 DEF Within
<1>10. /\ app' = app /\ net' = net /\ aborted' = aborted /\ faults' = faults /\ ctl' \subseteq ctl
       /\ UNCHANGED <<rcv, credit, acked>> /\ Len(app.sent) <= Len(app'.sent)
  BY <1>2, <1>4
<1>11. QED
  BY <1>1, <1>7, <1>8, <1>9, <1>10, SenderMoves

\* An acknowledgement comes.
LEMMA AckStep ==
  ASSUME Inv, NEW f \in acked, AckArrives(f)
  PROVE  Inv'
<1>1. /\ snd \in Senders /\ rcv \in Receivers /\ credit \in Credits /\ app \in Histories
      /\ net \in SUBSET Frames /\ acked \in SUBSET Frames /\ ctl \in SUBSET Controls
      /\ faults \in 0..FAULTS /\ aborted \in BOOLEAN
  BY TypedFacts
<1>2. /\ acked' = acked \ {f} /\ snd' = onPacketAcked(snd, f.off, Len(f.data))
      /\ UNCHANGED <<rcv, credit, net, ctl, faults, aborted, app>>
  BY DEF AckArrives
<1>3. /\ SenderOK(snd, app) /\ CreditOK(snd, credit, ctl) /\ EndOf(f) <= snd.next
      /\ AcksOK(snd, rcv, acked, app)
  BY DEF Inv, FrameOK
<1>4. AckedSender(snd, snd', app, f)
  BY <1>1, <1>2, <1>3, AckedFacts
<1>5. /\ snd' \in Senders /\ SenderOK(snd', app) /\ snd'.next = snd.next /\ snd'.limit = snd.limit
      /\ \A i \in snd.ackedOff..(snd'.ackedOff - 1) : i \in snd.ranges \/ i \in f.off..(EndOf(f) - 1)
      /\ \A i \in snd'.ranges : i \in snd.ranges \/ i \in f.off..(EndOf(f) - 1)
  BY <1>4 DEF AckedSender
<1>6. ASSUME ~app.reset, ~app.cut
      PROVE  /\ \A i \in 0..(snd'.ackedOff - 1) : Taken(rcv, app, i)
             /\ \A i \in snd'.ranges : Taken(rcv, app, i)
             /\ \A g \in acked' : \A i \in g.off..(EndOf(g) - 1) : Taken(rcv, app, i)
  <2>1. /\ \A i \in 0..(snd.ackedOff - 1) : Taken(rcv, app, i)
        /\ \A i \in snd.ranges : Taken(rcv, app, i)
        /\ \A g \in acked : \A i \in g.off..(EndOf(g) - 1) : Taken(rcv, app, i)
    BY <1>3, <1>6 DEF AcksOK
  <2>2. \A i \in snd'.ranges : Taken(rcv, app, i)
    BY <1>5, <2>1
  <2>3. ASSUME NEW i \in 0..(snd'.ackedOff - 1) PROVE Taken(rcv, app, i)
    <3>1. snd.ackedOff \in Nat /\ snd'.ackedOff \in Nat
      BY <1>1, <1>5, SenderFacts
    <3>2. i \in 0..(snd.ackedOff - 1) \/ i \in snd.ackedOff..(snd'.ackedOff - 1)
      BY <3>1
    <3>3. QED
      BY <1>5, <2>1, <3>2
  <2>4. QED
    BY <1>2, <2>1, <2>2, <2>3
<1>7. AcksOK(snd', rcv', acked', app')
  BY <1>2, <1>6 DEF AcksOK
<1>8. CreditOK(snd', credit', ctl')
  BY <1>2, <1>3, <1>5 DEF CreditOK
<1>9. Typed'
  BY <1>1, <1>2, <1>5 DEF Typed
<1>10. \A g \in net' \cup acked' : FrameOK(g, snd'.next, app')
  BY <1>2, <1>5 DEF Inv
<1>11. /\ StreamOK(rcv'.stream, snd'.next, app') /\ ReceiverOK(rcv', credit', app')
       /\ \A m \in ctl' : (m.type = "Reset" => app'.reset) /\ (m.type = "ResetBack" => app'.cut)
  BY <1>2, <1>5 DEF Inv
<1>12. QED
  BY <1>2, <1>5, <1>7, <1>8, <1>9, <1>10, <1>11 DEF Inv

----------------------------------------------------------------------------
\* insertRecvFragments: the runs of bytes that are missing

Missing(frags, g) == {i \in g.off..(EndOf(g) - 1) : ~Covered(frags, i)}
EndsOf(miss) == {i \in miss : i + 1 \notin miss}
Fitting(s, miss) ==
  {i \in EndsOf(miss) : s.buffered + Cardinality({j \in miss : j <= i}) <= RECV_LIMIT}
RunStart(miss, i) == CHOOSE j \in miss : j <= i /\ j..i \subseteq miss /\ j - 1 \notin miss
RunPiece(miss, g, i) ==
  Frame(RunStart(miss, i), SubSeq(g.data, RunStart(miss, i) - g.off + 1, i - g.off + 1), FALSE)

Unfolded(new, g, miss, fit) ==
  /\ new.frags = {RunPiece(miss, g, i) : i \in fit}
  /\ new.last = {RunPiece(miss, g, i) : i \in {j \in fit : \A k \in fit : k <= j}}
  /\ new.ok = (fit = EndsOf(miss))

\* The pieces inserted, run by run.
LEMMA InsertUnfolded ==
  ASSUME NEW s, NEW g
  PROVE  Unfolded(insertRecvFragments(s, g), g, Missing(s.frags, g), Fitting(s, Missing(s.frags, g)))
BY DEF insertRecvFragments, Unfolded, Missing, EndsOf, Fitting, RunStart, RunPiece

\* Where the run of missing bytes that ends at i begins.
LEMMA RunStartFacts ==
  ASSUME NEW miss \in SUBSET Nat, NEW i \in miss
  PROVE  /\ RunStart(miss, i) \in miss /\ RunStart(miss, i) <= i
         /\ RunStart(miss, i)..i \subseteq miss /\ RunStart(miss, i) - 1 \notin miss
<1> DEFINE from == {j \in 0..i : j..i \subseteq miss}
           P(j) == j <= i /\ j..i \subseteq miss /\ j - 1 \notin miss
<1>1. i \in from /\ from \in SUBSET Nat
  <2>1. i \in 0..i /\ i..i = {i}
    OBVIOUS
  <2>2. QED
    BY <2>1
<1>2. PICK j \in from : \A y \in from : j <= y
  <2> HIDE DEF from
  <2>1. from # {}
    BY <1>1
  <2>2. QED
    BY <1>1, <2>1, Least
<1>3. j \in 0..i /\ j..i \subseteq miss
  OBVIOUS
<1>4. j \in miss
  <2>1. j \in j..i
    BY <1>3
  <2>2. QED
    BY <1>3, <2>1
<1>5. j - 1 \notin miss
  <2>1. SUFFICES ASSUME j - 1 \in miss PROVE FALSE
    OBVIOUS
  <2>2. j - 1 \in 0..i
    BY <1>3, <2>1
  <2>3. ASSUME NEW x \in (j - 1)..i PROVE x \in miss
    <3>1. x = j - 1 \/ x \in j..i
      BY <1>3, <2>2
    <3>2. QED
      BY <1>3, <2>1, <3>1
  <2>4. j - 1 \in from
    BY <2>2, <2>3
  <2>5. j <= j - 1
    BY <1>2, <2>4
  <2>6. QED
    BY <1>3, <2>5
<1>6. j \in miss /\ P(j)
  BY <1>3, <1>4, <1>5
<1> HIDE DEF P
<1>7. RunStart(miss, i) = CHOOSE m \in miss : P(m)
  BY Zenon DEF P, RunStart
<1>8. RunStart(miss, i) \in miss /\ P(RunStart(miss, i))
  BY <1>6, <1>7, Zenon
<1>9. QED
  BY <1>8 DEF P

\* Every missing byte belongs to a run, and the run to its end.
LEMMA RunEnd ==
  ASSUME NEW b \in Nat, NEW miss \in SUBSET (0..b), NEW j \in miss
  PROVE  \E i \in EndsOf(miss) : j <= i /\ RunStart(miss, i) <= j
<1> DEFINE to == {i \in miss : j <= i /\ j..i \subseteq miss}
<1>1. j \in to /\ to \subseteq 0..b
  <2>1. j <= j /\ j..j = {j}
    OBVIOUS
  <2>2. j..j \subseteq miss
    BY <2>1
  <2>3. j \in to
    BY <2>1, <2>2, Zenon
  <2>4. to \subseteq miss /\ miss \subseteq 0..b
    BY Zenon
  <2>5. QED
    BY <2>3, <2>4, Zenon
<1>2. PICK i \in to : \A y \in to : y <= i
  <2> HIDE DEF to
  <2>1. to # {} /\ to \in SUBSET (0..b)
    BY <1>1
  <2>2. QED
    BY <2>1, Greatest
<1>3. i \in miss /\ j <= i /\ j..i \subseteq miss /\ i \in Nat /\ j \in Nat
  OBVIOUS
<1>4. i + 1 \notin miss
  <2>1. SUFFICES ASSUME i + 1 \in miss PROVE FALSE
    OBVIOUS
  <2>2. ASSUME NEW x \in j..(i + 1) PROVE x \in miss
    <3>1. x = i + 1 \/ x \in j..i
      BY <1>3
    <3>2. QED
      BY <1>3, <2>1, <3>1
  <2>3. i + 1 \in to
    BY <1>3, <2>1, <2>2
  <2>4. i + 1 <= i
    BY <1>2, <2>3
  <2>5. QED
    BY <1>3, <2>4
<1>5. RunStart(miss, i) <= j
  <2>1. miss \in SUBSET Nat
    OBVIOUS
  <2>2. /\ RunStart(miss, i) \in miss /\ RunStart(miss, i) <= i
        /\ RunStart(miss, i) - 1 \notin miss
    BY <1>3, <2>1, RunStartFacts
  <2>3. PICK a \in Nat : a = RunStart(miss, i)
    BY <2>1, <2>2
  <2>4. SUFFICES ASSUME ~(a <= j) PROVE FALSE
    BY <2>3
  <2>5. a - 1 \in j..i
    BY <1>3, <2>2, <2>3, <2>4
  <2>6. QED
    BY <1>3, <2>2, <2>3, <2>5
<1>6. QED
  BY <1>3, <1>4, <1>5 DEF EndsOf

\* Runs with different ends are apart.
LEMMA RunsApart ==
  ASSUME NEW miss \in SUBSET Nat, NEW i \in EndsOf(miss), NEW k \in EndsOf(miss), i < k
  PROVE  i < RunStart(miss, k)
<1>1. i \in miss /\ i + 1 \notin miss /\ k \in miss
  BY DEF EndsOf
<1>2. RunStart(miss, k) \in miss /\ RunStart(miss, k)..k \subseteq miss
  BY <1>1, RunStartFacts
<1>3. PICK a \in Nat : a = RunStart(miss, k)
  BY <1>2
<1>4. SUFFICES ASSUME ~(i < a) PROVE FALSE
  BY <1>3
<1>5. i \in Nat /\ k \in Nat
  BY <1>1
<1>6. i + 1 \in a..k
  BY <1>4, <1>5
<1>7. QED
  BY <1>1, <1>2, <1>3, <1>6

\* The piece of a frame that fills a run carries its bytes.
LEMMA PieceFacts ==
  ASSUME NEW g \in Frames, Carries(g), NEW miss \in SUBSET (g.off..(EndOf(g) - 1)), NEW i \in miss,
         g.off + Len(g.data) <= MAX_BYTES
  PROVE  /\ RunPiece(miss, g, i) \in Frames /\ RunPiece(miss, g, i).off = RunStart(miss, i)
         /\ EndOf(RunPiece(miss, g, i)) = i + 1 /\ RunPiece(miss, g, i).fin = FALSE
         /\ Carries(RunPiece(miss, g, i))
<1>1. /\ g.off \in Nat /\ Len(g.data) \in Nat /\ g.data \in Seq(1..MAX_BYTES)
      /\ EndOf(g) = g.off + Len(g.data)
  BY FrameFacts
<1>2. miss \in SUBSET Nat
  BY <1>1
<1>3. RunStart(miss, i) \in miss /\ RunStart(miss, i) <= i
  BY <1>2, RunStartFacts
<1>4. PICK a \in Nat : a = RunStart(miss, i)
  BY <1>2, <1>3
<1>5. /\ i \in Nat /\ g.off <= a /\ a <= i /\ i < g.off + Len(g.data)
  BY <1>1, <1>2, <1>3, <1>4
<1>o. PICK o, n \in Nat : o = g.off /\ n = Len(g.data)
  BY <1>1
<1>6. PICK d, e \in Nat : d = a - o /\ e = i - o + 1 /\ d <= e /\ e <= n
  BY <1>5, <1>o
<1>7. PICK q \in Seq(1..MAX_BYTES) : q = g.data
  BY <1>1
<1>8. PICK data : data = Part(q, d, e)
  OBVIOUS
<1>9. /\ data \in Seq(1..MAX_BYTES) /\ Len(data) = e - d
      /\ \A x \in 1..(e - d) : data[x] = q[d + x]
  <2>1. d <= e /\ e <= Len(q)
    BY <1>6, <1>7, <1>o
  <2>2. /\ Part(q, d, e) \in Seq(1..MAX_BYTES) /\ Len(Part(q, d, e)) = e - d
        /\ \A x \in 1..(e - d) : Part(q, d, e)[x] = q[d + x]
    BY <2>1, Cut
  <2>3. QED
    BY <1>8, <2>2
<1>10. RunPiece(miss, g, i) = Frame(a, data, FALSE)
  <2>1. RunStart(miss, i) - g.off + 1 = d + 1 /\ i - g.off + 1 = e
    BY <1>4, <1>6, <1>o
  <2>2. QED
    BY <1>4, <1>7, <1>8, <2>1 DEF RunPiece, Part
<1>11. PICK p : p = Frame(a, data, FALSE)
  OBVIOUS
<1>12. p \in Frames /\ p.off = a /\ p.data = data /\ p.fin = FALSE /\ EndOf(p) = a + Len(data)
  <2>1. a <= MAX_BYTES /\ data \in Seq(1..MAX_BYTES) /\ FALSE \in BOOLEAN
    BY <1>1, <1>5, <1>9, StreamAssumption
  <2>2. /\ Frame(a, data, FALSE) \in Frames /\ Frame(a, data, FALSE).off = a
        /\ Frame(a, data, FALSE).data = data /\ Frame(a, data, FALSE).fin = FALSE
        /\ EndOf(Frame(a, data, FALSE)) = a + Len(data)
    BY <2>1, NewFrame, Zenon
  <2>3. QED
    BY <1>11, <2>2
<1>13. EndOf(p) = i + 1
  <2>1. EndOf(p) = a + (e - d)
    BY <1>9, <1>12
  <2>2. QED
    BY <1>5, <1>6, <2>1
<1>14. Carries(p)
  <2>1. ASSUME NEW x \in 1..Len(p.data) PROVE p.data[x] = p.off + x
    <3>1. x \in 1..(e - d) /\ d + x \in 1..Len(g.data)
      <4>1. x \in 1..(e - d)
        BY <1>9, <1>12
      <4>2. d + x \in 1..n
        BY <1>6, <4>1
      <4>3. QED
        BY <1>o, <4>1, <4>2
    <3>2. p.data[x] = g.data[d + x]
      BY <1>7, <1>9, <1>12, <3>1
    <3>3. g.data[d + x] = g.off + (d + x)
      BY <3>1 DEF Carries
    <3>4. o + (d + x) = a + x
      BY <1>6, <3>1
    <3>5. QED
      BY <1>12, <1>o, <3>2, <3>3, <3>4
  <2>2. QED
    BY <2>1 DEF Carries
<1>15. QED
  BY <1>4, <1>10, <1>11, <1>12, <1>13, <1>14

\* What insertRecvFragments yields for a stream s and a frame g.
InsertedOK(s, g, new) ==
  /\ \A p \in new.frags :
       /\ p \in Frames /\ Carries(p) /\ p.fin = FALSE
       /\ g.off <= p.off /\ p.off < EndOf(p) /\ EndOf(p) <= EndOf(g)
       /\ \A i \in p.off..(EndOf(p) - 1) : ~Covered(s.frags, i)
  /\ \A p, q \in new.frags : p # q => EndOf(p) <= q.off \/ EndOf(q) <= p.off
  /\ new.last \subseteq new.frags
  /\ new.ok => \A i \in g.off..(EndOf(g) - 1) : Covered(s.frags, i) \/ Covered(new.frags, i)
  /\ new.ok => \A p \in new.last : \A i \in EndOf(p)..(EndOf(g) - 1) : Covered(s.frags, i)
  /\ s.buffered + Cardinality(Held(new.frags)) <= RECV_LIMIT

\* The pieces inserted are apart from each other and from what is held,
\* and cover the frame when all fit.
LEMMA Inserted ==
  ASSUME NEW s \in Streams, NEW g \in Frames, Carries(g), EndOf(g) <= MAX_BYTES
  PROVE  InsertedOK(s, g, insertRecvFragments(s, g))
<1> DEFINE new == insertRecvFragments(s, g)
<1>1. PICK miss : miss = Missing(s.frags, g)
  OBVIOUS
<1>2. PICK fit : fit = Fitting(s, miss)
  OBVIOUS
<1>3. /\ new.frags = {RunPiece(miss, g, i) : i \in fit}
      /\ new.last = {RunPiece(miss, g, i) : i \in {j \in fit : \A k \in fit : k <= j}}
      /\ new.ok = (fit = EndsOf(miss))
  <2>1. Unfolded(new, g, miss, fit)
    BY <1>1, <1>2, InsertUnfolded, Zenon
  <2> HIDE DEF new
  <2>2. QED
    BY <2>1 DEF Unfolded
<1> HIDE DEF new
<1>4. PICK a, b \in Nat : a = g.off /\ b = EndOf(g) /\ a <= b /\ b = g.off + Len(g.data)
  BY FrameFacts
<1>5. miss \in SUBSET (a..(b - 1)) /\ miss \in SUBSET Nat /\ miss \in SUBSET (0..b)
  BY <1>1, <1>4 DEF Missing
<1>6. \A i \in a..(b - 1) : i \in miss <=> ~Covered(s.frags, i)
  BY <1>1, <1>4 DEF Missing
<1>7. fit \subseteq EndsOf(miss) /\ EndsOf(miss) \subseteq miss
  BY <1>2 DEF Fitting, EndsOf
<1>8. ASSUME NEW i \in fit
      PROVE  /\ RunPiece(miss, g, i) \in Frames /\ RunPiece(miss, g, i).off = RunStart(miss, i)
             /\ EndOf(RunPiece(miss, g, i)) = i + 1 /\ RunPiece(miss, g, i).fin = FALSE
             /\ Carries(RunPiece(miss, g, i))
             /\ RunStart(miss, i) \in miss /\ RunStart(miss, i) <= i
             /\ RunStart(miss, i)..i \subseteq miss
  <2>1. i \in miss /\ miss \in SUBSET (g.off..(EndOf(g) - 1)) /\ g.off + Len(g.data) <= MAX_BYTES
    BY <1>4, <1>5, <1>7
  <2>2. /\ RunPiece(miss, g, i) \in Frames /\ RunPiece(miss, g, i).off = RunStart(miss, i)
        /\ EndOf(RunPiece(miss, g, i)) = i + 1 /\ RunPiece(miss, g, i).fin = FALSE
        /\ Carries(RunPiece(miss, g, i))
    BY <2>1, PieceFacts, Zenon
  <2>3. /\ RunStart(miss, i) \in miss /\ RunStart(miss, i) <= i
        /\ RunStart(miss, i)..i \subseteq miss
    BY <1>5, <2>1, RunStartFacts, Zenon
  <2>4. QED
    BY <2>2, <2>3, Zenon
<1>9. ASSUME NEW p \in new.frags
      PROVE  /\ p \in Frames /\ Carries(p) /\ p.fin = FALSE
             /\ g.off <= p.off /\ p.off < EndOf(p) /\ EndOf(p) <= EndOf(g)
             /\ \A i \in p.off..(EndOf(p) - 1) : i \in miss
  <2>1. PICK i \in fit : p = RunPiece(miss, g, i)
    BY <1>3
  <2>2. i \in a..(b - 1) /\ RunStart(miss, i) \in a..(b - 1) /\ RunStart(miss, i) <= i
    BY <1>5, <1>7, <1>8
  <2>3. p \in Frames /\ Carries(p) /\ p.fin = FALSE /\ p.off = RunStart(miss, i) /\ EndOf(p) = i + 1
    BY <1>8, <2>1
  <2>4. p.off..(EndOf(p) - 1) = RunStart(miss, i)..i
    BY <2>2, <2>3
  <2>5. \A x \in p.off..(EndOf(p) - 1) : x \in miss
    BY <1>8, <2>4, Zenon
  <2>6. g.off <= p.off /\ p.off < EndOf(p) /\ EndOf(p) <= EndOf(g)
    BY <1>4, <2>2, <2>3
  <2>7. QED
    BY <2>3, <2>5, <2>6
<1>10. ASSUME NEW p \in new.frags, NEW q \in new.frags, p # q
       PROVE  EndOf(p) <= q.off \/ EndOf(q) <= p.off
  <2>1. PICK i \in fit : p = RunPiece(miss, g, i)
    BY <1>3
  <2>2. PICK k \in fit : q = RunPiece(miss, g, k)
    BY <1>3
  <2>3. /\ i \in Nat /\ k \in Nat /\ i \in EndsOf(miss) /\ k \in EndsOf(miss)
        /\ RunStart(miss, i) \in Nat /\ RunStart(miss, k) \in Nat
    BY <1>5, <1>7, <1>8
  <2>4. i < k \/ k < i
    BY <1>10, <2>1, <2>2, <2>3
  <2>5. i < k => i < RunStart(miss, k)
    BY <1>5, <2>3, RunsApart
  <2>6. k < i => k < RunStart(miss, i)
    BY <1>5, <2>3, RunsApart
  <2>7. /\ EndOf(p) = i + 1 /\ EndOf(q) = k + 1
        /\ p.off = RunStart(miss, i) /\ q.off = RunStart(miss, k)
    BY <1>8, <2>1, <2>2
  <2>8. QED
    BY <2>3, <2>4, <2>5, <2>6, <2>7
<1>11. new.last \subseteq new.frags
  BY <1>3
<1>12. ASSUME new.ok, NEW i \in g.off..(EndOf(g) - 1), ~Covered(s.frags, i)
       PROVE  Covered(new.frags, i)
  <2>1. i \in miss /\ fit = EndsOf(miss)
    BY <1>3, <1>4, <1>6, <1>12
  <2>2. PICK k \in EndsOf(miss) : i <= k /\ RunStart(miss, k) <= i
    BY <1>5, <2>1, RunEnd
  <2>3. /\ RunPiece(miss, g, k) \in new.frags /\ RunPiece(miss, g, k).off = RunStart(miss, k)
        /\ EndOf(RunPiece(miss, g, k)) = k + 1 /\ k \in Nat /\ i \in Nat
    BY <1>3, <1>4, <1>5, <1>7, <1>8, <2>1
  <2>4. i < k + 1
    BY <2>2, <2>3
  <2>5. QED
    BY <2>2, <2>3, <2>4 DEF Covered
<1>13. ASSUME new.ok, NEW p \in new.last, NEW i \in EndOf(p)..(EndOf(g) - 1)
       PROVE  Covered(s.frags, i)
  <2>1. fit = EndsOf(miss)
    BY <1>3, <1>13
  <2>2. PICK j \in fit : p = RunPiece(miss, g, j) /\ \A k \in fit : k <= j
    BY <1>3
  <2>3. EndOf(p) = j + 1 /\ j \in a..(b - 1)
    BY <1>5, <1>7, <1>8, <2>2
  <2>4. i \in a..(b - 1) /\ j < i
    BY <1>4, <2>3
  <2>5. SUFFICES ASSUME i \in miss PROVE FALSE
    BY <1>6, <2>4
  <2>6. PICK k \in EndsOf(miss) : i <= k
    BY <1>5, <2>5, RunEnd
  <2>7. k <= j /\ k \in a..(b - 1)
    BY <1>5, <1>7, <2>1, <2>2, <2>6
  <2>8. QED
    BY <2>3, <2>4, <2>6, <2>7
<1>14. s.buffered + Cardinality(Held(new.frags)) <= RECV_LIMIT
  <2>1. s.buffered \in Nat /\ s.buffered <= RECV_LIMIT /\ RECV_LIMIT \in Nat
    BY StreamFacts, StreamAssumption DEF StreamFacts0
  <2>2. new.frags \in SUBSET Frames
    BY <1>9
  <2>3. ASSUME NEW x \in Held(new.frags)
        PROVE  x \in miss /\ \E i \in fit : x <= i
    <3>1. PICK p \in new.frags : x \in p.off..(EndOf(p) - 1)
      BY DEF Held
    <3>2. PICK i \in fit : p = RunPiece(miss, g, i)
      BY <1>3
    <3>3. EndOf(p) = i + 1 /\ i \in Nat /\ p.off \in Nat
      BY <1>5, <1>7, <1>8, <3>2
    <3>4. x \in miss
      BY <1>9, <3>1, Zenon
    <3>5. x <= i
      BY <3>1, <3>3
    <3>6. QED
      BY <3>4, <3>5, Zenon
  <2>4. CASE fit = {}
    <3>1. Held(new.frags) = {}
      BY <2>3, <2>4
    <3>2. Cardinality(Held(new.frags)) = 0
      BY <3>1, FS_EmptySet
    <3>3. QED
      BY <2>1, <3>2
  <2>5. CASE fit # {}
    <3>1. fit \in SUBSET (0..b)
      BY <1>5, <1>7
    <3>2. PICK m \in fit : \A y \in fit : y <= m
      BY <2>5, <3>1, Greatest
    <3>3. PICK low : low = {j \in miss : j <= m}
      OBVIOUS
    <3>4. s.buffered + Cardinality(low) <= RECV_LIMIT
      BY <1>2, <3>2, <3>3 DEF Fitting
    <3>5. \A x \in Held(new.frags) : x \in low
      <4>1. SUFFICES ASSUME NEW x \in Held(new.frags) PROVE x \in low
        OBVIOUS
      <4>2. PICK i \in fit : x <= i
        BY <2>3
      <4>3. x \in miss /\ i <= m
        BY <2>3, <3>2, Zenon
      <4>x. x \in Nat /\ i \in Nat /\ m \in Nat
        BY <1>5, <3>1, <3>2, <4>2, <4>3
      <4>4. x <= m
        BY <4>2, <4>3, <4>x
      <4>5. QED
        BY <3>3, <4>3, <4>4
    <3>6. low \in SUBSET (a..(b - 1)) /\ Held(new.frags) \subseteq low
      BY <1>5, <3>3, <3>5
    <3>7. IsFiniteSet(low) /\ Cardinality(low) \in Nat
      BY <1>4, <3>6, BoundedCard
    <3>8. Cardinality(Held(new.frags)) <= Cardinality(low) /\ Cardinality(Held(new.frags)) \in Nat
      BY <3>6, <3>7, FS_Subset, FS_CardinalityType
    <3>9. QED
      BY <2>1, <3>4, <3>7, <3>8
  <2>6. QED
    BY <2>4, <2>5
<1>15. \A p \in new.frags : \A i \in p.off..(EndOf(p) - 1) : ~Covered(s.frags, i)
  BY <1>5, <1>6, <1>9
<1>16. InsertedOK(s, g, new)
  BY <1>9, <1>10, <1>11, <1>12, <1>13, <1>14, <1>15 DEF InsertedOK
<1>17. QED
  BY <1>16 DEF new

----------------------------------------------------------------------------
\* onFrame

\* The receive half of a stream that may still hold fragments read to their end.
LooseFrags(frags, next, h) ==
  /\ \A p \in frags : Carries(p) /\ EndOf(p) <= next
  /\ \A p \in frags : p.off < EndOf(p) \/ p.fin
  /\ \A p, q \in frags : p # q => EndOf(p) <= q.off \/ EndOf(q) <= p.off
  /\ \A p \in frags : p.fin => h.fin /\ \A i \in EndOf(p)..(Len(h.sent) - 1) : Covered(frags, i)
Loose(s, next, h) ==
  /\ s \in Streams /\ s.off <= next
  /\ LooseFrags(s.frags, next, h)
  /\ s.buffered = Cardinality({i \in Held(s.frags) : i >= s.off})
  /\ s.peerFin /\ ~s.reset /\ ~h.cut => h.fin /\ \A i \in s.off..(Len(h.sent) - 1) : Covered(s.frags, i)
  /\ s.reset => h.reset

\* Fragments apart that end above the offset satisfy FragsOK.
LEMMA LooseIsOK ==
  ASSUME NEW s, NEW next, NEW h, Loose(s, next, h), \A p \in s.frags : s.off < EndOf(p)
  PROVE  StreamOK(s, next, h)
<1>1. /\ s \in Streams /\ s.off <= next /\ LooseFrags(s.frags, next, h)
      /\ s.buffered = Cardinality({i \in Held(s.frags) : i >= s.off})
      /\ s.peerFin /\ ~s.reset /\ ~h.cut => h.fin /\ \A i \in s.off..(Len(h.sent) - 1) : Covered(s.frags, i)
      /\ s.reset => h.reset
  BY Zenon DEF Loose
<1>2. FragsOK(s.frags, s.off, next, h)
  BY <1>1 DEF FragsOK, LooseFrags
<1>3. QED
  BY <1>1, <1>2, Zenon DEF StreamOK

\* And the reverse.
LEMMA OKIsLoose ==
  ASSUME NEW s \in Streams, NEW next, NEW h, StreamOK(s, next, h)
  PROVE  Loose(s, next, h)
<1>1. /\ s.off <= next /\ FragsOK(s.frags, s.off, next, h)
      /\ s.buffered = Cardinality({i \in Held(s.frags) : i >= s.off})
      /\ s.peerFin /\ ~s.reset /\ ~h.cut => h.fin /\ \A i \in s.off..(Len(h.sent) - 1) : Covered(s.frags, i)
      /\ s.reset => h.reset
  BY Zenon DEF StreamOK
<1>2. LooseFrags(s.frags, next, h)
  BY <1>1 DEF FragsOK, LooseFrags
<1>3. QED
  BY <1>1, <1>2, Zenon DEF Loose

\* What is covered from off on does not change when s becomes t.
Keeps(s, t) ==
  /\ t.off = s.off /\ t.reset = s.reset
  /\ \A i \in Int : i >= s.off /\ Covered(s.frags, i) => Covered(t.frags, i)

\* maybeAdvancePeerFin drops what was read and keeps what is covered after it.
LEMMA Advance ==
  ASSUME NEW s, NEW next \in Nat, NEW h \in Histories, Loose(s, next, h)
  PROVE  /\ maybeAdvancePeerFin(s) \in Streams /\ StreamOK(maybeAdvancePeerFin(s), next, h)
         /\ Keeps(s, maybeAdvancePeerFin(s))
<1> DEFINE over == {p \in s.frags : EndOf(p) <= s.off}
           t == maybeAdvancePeerFin(s)
<1>1. /\ s \in Streams /\ s.off <= next /\ LooseFrags(s.frags, next, h)
      /\ s.buffered = Cardinality({i \in Held(s.frags) : i >= s.off})
      /\ s.peerFin /\ ~s.reset /\ ~h.cut => h.fin /\ \A i \in s.off..(Len(h.sent) - 1) : Covered(s.frags, i)
      /\ s.reset => h.reset
  BY Zenon DEF Loose
<1>2. /\ t \in Streams /\ t.off = s.off /\ t.frags = s.frags \ over /\ t.reset = s.reset
      /\ t.buffered = s.buffered /\ t.peerFin = (s.peerFin \/ \E p \in over : p.fin)
  BY <1>1 DEF maybeAdvancePeerFin, Streams
<1>3. s.off \in Nat /\ s.frags \in SUBSET Frames /\ t.frags \in SUBSET Frames
  BY <1>1, <1>2, StreamFacts DEF StreamFacts0
<1>4. Len(h.sent) \in Nat
  BY HistoryFacts
<1>5. \A p \in s.frags : EndOf(p) \in Nat /\ p.off \in Nat
  BY <1>3, FrameFacts
<1> HIDE DEF t
<1>6. ASSUME NEW i \in Int, i >= s.off PROVE Covered(t.frags, i) <=> Covered(s.frags, i)
  <2>1. ASSUME NEW p \in s.frags, p.off <= i, i < EndOf(p) PROVE p \in t.frags
    <3>1. ~(EndOf(p) <= s.off)
      BY <1>3, <1>5, <1>6, <2>1
    <3>2. QED
      BY <1>2, <3>1
  <2>2. QED
    BY <1>2, <2>1 DEF Covered
<1>7. \A p \in t.frags : p \in s.frags /\ ~(EndOf(p) <= s.off)
  BY <1>2
<1> HIDE DEF over
<1>8. FragsOK(t.frags, t.off, next, h)
  <2>1. \A p \in t.frags : Carries(p) /\ EndOf(p) <= next /\ (p.off < EndOf(p) \/ p.fin)
    BY <1>1, <1>7, Zenon DEF LooseFrags
  <2>2. \A p \in t.frags : t.off < EndOf(p)
    BY <1>2, <1>3, <1>5, <1>7
  <2>3. \A p, q \in t.frags : p # q => EndOf(p) <= q.off \/ EndOf(q) <= p.off
    BY <1>1, <1>7, Zenon DEF LooseFrags
  <2>4. ASSUME NEW p \in t.frags, p.fin
        PROVE  h.fin /\ \A i \in EndOf(p)..(Len(h.sent) - 1) : Covered(t.frags, i)
    <3>1. h.fin /\ \A i \in EndOf(p)..(Len(h.sent) - 1) : Covered(s.frags, i)
      BY <1>1, <1>7, <2>4, Zenon DEF LooseFrags
    <3>2. ASSUME NEW i \in EndOf(p)..(Len(h.sent) - 1) PROVE Covered(t.frags, i)
      <4>1. i \in Int /\ i >= s.off
        BY <1>3, <1>4, <1>5, <1>7
      <4>2. QED
        BY <1>6, <3>1, <4>1
    <3>3. QED
      BY <3>1, <3>2
  <2>5. QED
    BY <2>1, <2>2, <2>3, <2>4, Zenon DEF FragsOK
<1>9. t.buffered = Cardinality({i \in Held(t.frags) : i >= t.off})
  <2>1. \A i \in Held(s.frags) \cup Held(t.frags) : i \in Int
    BY <1>3, HeldFacts
  <2>2. \A i \in Int : i >= s.off => (i \in Held(t.frags) <=> i \in Held(s.frags))
    BY <1>3, <1>6, HeldFacts
  <2>3. {i \in Held(t.frags) : i >= t.off} = {i \in Held(s.frags) : i >= s.off}
    BY <1>2, <2>1, <2>2
  <2>4. QED
    BY <1>1, <1>2, <2>3
<1>10. t.peerFin /\ ~t.reset /\ ~h.cut => h.fin /\ \A i \in t.off..(Len(h.sent) - 1) : Covered(t.frags, i)
  <2>1. SUFFICES ASSUME t.peerFin, ~t.reset, ~h.cut
                 PROVE  h.fin /\ \A i \in t.off..(Len(h.sent) - 1) : Covered(s.frags, i)
    <3>1. \A i \in t.off..(Len(h.sent) - 1) : i \in Int /\ i >= s.off
      BY <1>2, <1>3, <1>4
    <3>2. QED
      BY <1>6, <3>1
  <2>2. CASE s.peerFin
    BY <1>1, <1>2, <2>1, <2>2
  <2>3. CASE \E p \in over : p.fin
    <3>1. PICK p \in over : p.fin
      BY <2>3
    <3>2. p \in s.frags /\ EndOf(p) <= s.off
      BY <3>1 DEF over
    <3>3. h.fin /\ \A i \in EndOf(p)..(Len(h.sent) - 1) : Covered(s.frags, i)
      BY <1>1, <3>1, <3>2, Zenon DEF LooseFrags
    <3>4. \A i \in t.off..(Len(h.sent) - 1) : i \in EndOf(p)..(Len(h.sent) - 1)
      BY <1>2, <1>3, <1>4, <1>5, <3>2
    <3>5. QED
      BY <3>3, <3>4
  <2>4. QED
    BY <1>2, <2>1, <2>2, <2>3
<1>11. StreamOK(t, next, h)
  <2>1. t.off <= next /\ (t.reset => h.reset)
    BY <1>1, <1>2
  <2>2. QED
    BY <1>8, <1>9, <1>10, <2>1, Zenon DEF StreamOK
<1>12. Keeps(s, t)
  BY <1>2, <1>6 DEF Keeps
<1>13. QED
  BY <1>2, <1>11, <1>12 DEF t

\* The part of a frame that onFrame has not read yet.
Trim(s, f) == IF f.off < s.off THEN s.off - f.off ELSE 0
Trimmed(s, f) ==
  Frame(f.off + Trim(s, f), SubSeq(f.data, Trim(s, f) + 1, Len(f.data)), f.fin)

\* A frame without the bytes in front of the offset carries the bytes of its own.
LEMMA TrimFacts ==
  ASSUME NEW s \in Streams, NEW f \in Frames, Carries(f),
         ~(Trim(s, f) > 0 /\ Trim(s, f) >= Len(f.data))
  PROVE  /\ Trimmed(s, f) \in Frames /\ Carries(Trimmed(s, f))
         /\ EndOf(Trimmed(s, f)) = EndOf(f) /\ Trimmed(s, f).fin = f.fin
         /\ s.off <= Trimmed(s, f).off
         /\ \A i \in f.off..(EndOf(f) - 1) : i < s.off \/ i \in Trimmed(s, f).off..(EndOf(f) - 1)
<1>1. /\ f.off \in Nat /\ Len(f.data) \in Nat /\ f.data \in Seq(1..MAX_BYTES)
      /\ EndOf(f) = f.off + Len(f.data) /\ f.fin \in BOOLEAN /\ f.off <= MAX_BYTES
  BY FrameFacts
<1>2. s.off \in Nat /\ s.off <= MAX_BYTES /\ MAX_BYTES \in Nat
  BY StreamFacts, StreamAssumption DEF StreamFacts0
<1>3. PICK o, n, r \in Nat : o = f.off /\ n = Len(f.data) /\ r = s.off
  BY <1>1, <1>2
<1>4. PICK d \in Nat : d = Trim(s, f) /\ d <= n /\ o + d <= MAX_BYTES /\ r <= o + d /\ (d > 0 => o + d = r)
  <2>1. Trim(s, f) = IF o < r THEN r - o ELSE 0
    BY <1>3 DEF Trim
  <2>2. PICK d \in Nat : d = IF o < r THEN r - o ELSE 0
    BY <1>3
  <2>3. ~(d > 0 /\ d >= n)
    BY <1>3, <2>1, <2>2
  <2>4. o <= MAX_BYTES /\ r <= MAX_BYTES
    BY <1>1, <1>2, <1>3
  <2>5. d <= n /\ o + d <= MAX_BYTES /\ r <= o + d /\ (d > 0 => o + d = r)
    BY <1>2, <2>2, <2>3, <2>4
  <2>6. QED
    BY <2>1, <2>2, <2>5
<1>5. PICK q \in Seq(1..MAX_BYTES) : q = f.data /\ Len(q) = n
  BY <1>1, <1>3
<1>6. /\ Part(q, d, n) \in Seq(1..MAX_BYTES) /\ Len(Part(q, d, n)) = n - d
      /\ \A i \in 1..(n - d) : Part(q, d, n)[i] = q[d + i]
  <2>1. d <= n /\ n <= Len(q)
    BY <1>4, <1>5
  <2>2. QED
    BY <2>1, Cut
<1>7. PICK data \in Seq(1..MAX_BYTES) : data = Part(q, d, n)
  BY <1>6
<1>8. PICK a \in Nat : a = o + d /\ a <= MAX_BYTES
  BY <1>4
<1>9. Trimmed(s, f) = Frame(a, data, f.fin)
  BY <1>3, <1>4, <1>5, <1>7, <1>8, Zenon DEF Trimmed, Part
<1>10. PICK fin \in BOOLEAN : fin = f.fin
  BY <1>1
<1>11. /\ Frame(a, data, fin) \in Frames /\ Frame(a, data, fin).off = a
       /\ Frame(a, data, fin).data = data /\ Frame(a, data, fin).fin = fin
       /\ EndOf(Frame(a, data, fin)) = a + Len(data)
  BY <1>8, NewFrame, Zenon
<1>12. PICK g : g = Trimmed(s, f)
  OBVIOUS
<1>13. g \in Frames /\ g.off = a /\ g.data = data /\ g.fin = f.fin /\ EndOf(g) = a + Len(data)
  BY <1>9, <1>10, <1>11, <1>12
<1>14. EndOf(g) = EndOf(f)
  <2>1. EndOf(g) = a + (n - d) /\ EndOf(f) = o + n
    BY <1>1, <1>3, <1>6, <1>7, <1>13
  <2>2. a + (n - d) = o + n
    BY <1>8
  <2>3. QED
    BY <2>1, <2>2
<1>15. Carries(g)
  <2>1. ASSUME NEW x \in 1..Len(g.data) PROVE g.data[x] = g.off + x
    <3>1. x \in 1..(n - d)
      BY <1>6, <1>7, <1>13
    <3>2. d + x \in 1..n /\ o + (d + x) = a + x
      <4>1. d <= n /\ a = o + d
        BY <1>4, <1>8
      <4>2. QED
        BY <3>1, <4>1
    <3>3. g.data[x] = f.data[d + x]
      BY <1>5, <1>6, <1>7, <1>13, <3>1
    <3>4. f.data[d + x] = f.off + (d + x)
      BY <1>3, <3>2 DEF Carries
    <3>5. QED
      BY <1>3, <1>13, <3>2, <3>3, <3>4
  <2>2. QED
    BY <2>1 DEF Carries
<1>16. s.off <= g.off
  BY <1>3, <1>4, <1>8, <1>13
<1>17. ASSUME NEW i \in f.off..(EndOf(f) - 1) PROVE i < s.off \/ i \in g.off..(EndOf(f) - 1)
  <2>1. i \in o..(o + n - 1)
    BY <1>1, <1>3
  <2>2. i < r \/ i \in a..(o + n - 1)
    BY <1>4, <1>8, <2>1
  <2>3. QED
    BY <1>1, <1>3, <1>13, <2>2
<1>18. QED
  BY <1>12, <1>13, <1>14, <1>15, <1>16, <1>17

\* Two fragments are apart when no byte of the one is covered by the others.
LEMMA PiecesApart ==
  ASSUME NEW frags \in SUBSET Frames, NEW p \in frags, NEW q \in Frames, NEW len \in Nat,
         q.off < EndOf(q), EndOf(q) <= len,
         \A i \in q.off..(EndOf(q) - 1) : ~Covered(frags, i),
         p.off < EndOf(p) \/ \A i \in EndOf(p)..(len - 1) : Covered(frags, i)
  PROVE  EndOf(p) <= q.off \/ EndOf(q) <= p.off
<1>1. p \in Frames
  OBVIOUS
<1>2. PICK a, b \in Nat : a = p.off /\ b = EndOf(p) /\ a <= b
  BY <1>1, FrameFacts
<1>3. PICK c, d \in Nat : c = q.off /\ d = EndOf(q)
  BY FrameFacts
<1>4. SUFFICES ASSUME ~(b <= c), ~(d <= a) PROVE FALSE
  BY <1>2, <1>3
<1>5. PICK x \in Nat : x \in c..(d - 1) /\ a <= x /\ (x < b \/ (a = b /\ x = b))
  <2>1. CASE a <= c
    <3>1. c \in c..(d - 1) /\ a <= c /\ c < b
      BY <1>3, <1>4, <2>1
    <3>2. QED
      BY <3>1
  <2>2. CASE ~(a <= c)
    <3>1. a \in c..(d - 1) /\ a <= a /\ (a < b \/ (a = b /\ a = b))
      BY <1>2, <1>4, <2>2
    <3>2. QED
      BY <3>1
  <2>3. QED
    BY <2>1, <2>2
<1>6. ~Covered(frags, x)
  BY <1>3, <1>5
<1>7. ~(x < b)
  BY <1>2, <1>5, <1>6 DEF Covered
<1>8. x \in EndOf(p)..(len - 1) /\ ~(p.off < EndOf(p))
  BY <1>2, <1>3, <1>5, <1>7
<1>9. QED
  BY <1>6, <1>8

\* What two sets of fragments cover.
LEMMA CoveredUnion ==
  ASSUME NEW A, NEW B, NEW i
  PROVE  Covered(A \cup B, i) <=> Covered(A, i) \/ Covered(B, i)
BY DEF Covered

\* Placed counts exactly the bytes added.
LEMMA PlacedFacts ==
  ASSUME NEW s \in Streams, NEW next \in Nat, NEW h \in Histories, StreamOK(s, next, h),
         next <= Len(h.sent), NEW g \in Frames, EndOf(g) <= next, s.off <= g.off,
         NEW new, InsertedOK(s, g, new)
  PROVE  /\ Loose(Placed(s, new.frags), next, h) /\ Keeps(s, Placed(s, new.frags))
         /\ Placed(s, new.frags).frags = s.frags \cup new.frags
         /\ \A p \in s.frags \cup new.frags : s.off < EndOf(p)
<1> DEFINE t == Placed(s, new.frags)
<1>1. /\ s.off <= next /\ FragsOK(s.frags, s.off, next, h)
      /\ s.buffered = Cardinality({i \in Held(s.frags) : i >= s.off})
      /\ s.peerFin /\ ~s.reset /\ ~h.cut => h.fin /\ \A i \in s.off..(Len(h.sent) - 1) : Covered(s.frags, i)
      /\ s.reset => h.reset
  BY Zenon DEF StreamOK
<1>2. /\ \A p \in new.frags :
           /\ p \in Frames /\ Carries(p) /\ p.fin = FALSE
           /\ g.off <= p.off /\ p.off < EndOf(p) /\ EndOf(p) <= EndOf(g)
           /\ \A i \in p.off..(EndOf(p) - 1) : ~Covered(s.frags, i)
      /\ \A p, q \in new.frags : p # q => EndOf(p) <= q.off \/ EndOf(q) <= p.off
      /\ s.buffered + Cardinality(Held(new.frags)) <= RECV_LIMIT
  BY Zenon DEF InsertedOK
<1>3. /\ s.off \in Nat /\ s.frags \in SUBSET Frames /\ s.buffered \in Nat /\ Len(h.sent) \in Nat
      /\ RECV_LIMIT \in Nat
  BY StreamFacts, HistoryFacts, StreamAssumption DEF StreamFacts0
<1>4. new.frags \in SUBSET Frames
  BY <1>2
<1>5. \A p \in s.frags \cup new.frags : p.off \in Nat /\ EndOf(p) \in Nat
  BY <1>3, <1>4, FrameFacts
<1>6. g.off \in Nat /\ EndOf(g) \in Nat
  BY FrameFacts
<1>7. Held(new.frags) \in SUBSET (g.off..(EndOf(g) - 1))
  <2>1. ASSUME NEW i \in Held(new.frags) PROVE i \in g.off..(EndOf(g) - 1)
    <3>1. PICK p \in new.frags : i \in p.off..(EndOf(p) - 1)
      BY DEF Held
    <3>2. g.off <= p.off /\ EndOf(p) <= EndOf(g) /\ p.off \in Nat /\ EndOf(p) \in Nat
      BY <1>2, <1>5
    <3>3. QED
      BY <1>6, <3>1, <3>2
  <2>2. QED
    BY <2>1
<1>8. IsFiniteSet(Held(new.frags)) /\ Cardinality(Held(new.frags)) \in Nat
  <2>1. g.off <= EndOf(g)
    BY FrameFacts
  <2>2. QED
    BY <1>6, <1>7, <2>1, BoundedCard
<1>9. PICK b \in 0..RECV_LIMIT : b = s.buffered + Cardinality(Held(new.frags))
  BY <1>2, <1>3, <1>8
<1>10. /\ t \in Streams /\ t.off = s.off /\ t.frags = s.frags \cup new.frags /\ t.reset = s.reset
       /\ t.buffered = b /\ t.peerFin = s.peerFin
  <2>1. t = [s EXCEPT !.frags = s.frags \cup new.frags, !.buffered = b]
    BY <1>9 DEF Placed
  <2>2. PICK F \in SUBSET Frames : F = s.frags \cup new.frags
    BY <1>3, <1>4
  <2>3. QED
    BY <2>1, <2>2 DEF Streams
<1> HIDE DEF t
<1>11. \A i : Covered(t.frags, i) <=> Covered(s.frags, i) \/ Covered(new.frags, i)
  BY <1>10, CoveredUnion
<1>12. \A p \in t.frags : s.off < EndOf(p)
  <2>1. \A p \in s.frags : s.off < EndOf(p)
    BY <1>1, Zenon DEF FragsOK
  <2>2. ASSUME NEW p \in new.frags PROVE s.off < EndOf(p)
    <3>1. g.off <= p.off /\ p.off < EndOf(p) /\ p.off \in Nat /\ EndOf(p) \in Nat
      BY <1>2, <1>5
    <3>2. QED
      BY <1>3, <1>6, <3>1
  <2>3. QED
    BY <1>10, <2>1, <2>2
<1>13. LooseFrags(t.frags, next, h)
  <2>1. ASSUME NEW p \in t.frags
        PROVE  Carries(p) /\ EndOf(p) <= next /\ (p.off < EndOf(p) \/ p.fin)
    <3>1. CASE p \in s.frags
      BY <1>1, <3>1, Zenon DEF FragsOK
    <3>2. CASE p \in new.frags
      <4>1. Carries(p) /\ p.off < EndOf(p) /\ EndOf(p) <= EndOf(g) /\ EndOf(p) \in Nat
        BY <1>2, <1>5, <3>2
      <4>2. QED
        BY <1>6, <4>1
    <3>3. QED
      BY <1>10, <3>1, <3>2
  <2>2. ASSUME NEW p \in s.frags, NEW q \in new.frags
        PROVE  EndOf(p) <= q.off \/ EndOf(q) <= p.off
    <3>1. /\ q \in Frames /\ q.off < EndOf(q) /\ EndOf(q) <= EndOf(g)
          /\ \A i \in q.off..(EndOf(q) - 1) : ~Covered(s.frags, i)
      BY <1>2
    <3>2. EndOf(q) <= Len(h.sent)
      BY <1>3, <1>5, <1>6, <3>1
    <3>3. p.off < EndOf(p) \/ \A i \in EndOf(p)..(Len(h.sent) - 1) : Covered(s.frags, i)
      BY <1>1, Zenon DEF FragsOK
    <3>4. QED
      BY <1>3, <3>1, <3>2, <3>3, PiecesApart
  <2>3. \A p, q \in s.frags : p # q => EndOf(p) <= q.off \/ EndOf(q) <= p.off
    BY <1>1, Zenon DEF FragsOK
  <2>4. \A p, q \in t.frags : p # q => EndOf(p) <= q.off \/ EndOf(q) <= p.off
    <3>1. SUFFICES ASSUME NEW p \in t.frags, NEW q \in t.frags, p # q
                   PROVE  EndOf(p) <= q.off \/ EndOf(q) <= p.off
      OBVIOUS
    <3>2. (p \in s.frags \/ p \in new.frags) /\ (q \in s.frags \/ q \in new.frags)
      BY <1>10
    <3>3. QED
      BY <1>2, <2>2, <2>3, <3>1, <3>2, Zenon
  <2>5. ASSUME NEW p \in t.frags, p.fin
        PROVE  h.fin /\ \A i \in EndOf(p)..(Len(h.sent) - 1) : Covered(t.frags, i)
    <3>1. p \in s.frags
      BY <1>2, <1>10, <2>5
    <3>2. h.fin /\ \A i \in EndOf(p)..(Len(h.sent) - 1) : Covered(s.frags, i)
      BY <1>1, <2>5, <3>1, Zenon DEF FragsOK
    <3>3. QED
      BY <1>11, <3>2
  <2>6. QED
    BY <2>1, <2>4, <2>5, Zenon DEF LooseFrags
<1>14. t.buffered = Cardinality({i \in Held(t.frags) : i >= t.off})
  <2>1. PICK S : S = {i \in Held(s.frags) : i >= s.off}
    OBVIOUS
  <2>2. S \in SUBSET (s.off..(next - 1))
    <3>1. ASSUME NEW i \in S PROVE i \in s.off..(next - 1)
      <4>1. i >= s.off /\ i \in Held(s.frags)
        BY <2>1
      <4>2. PICK p \in s.frags : i \in p.off..(EndOf(p) - 1)
        BY <4>1 DEF Held
      <4>3. EndOf(p) <= next
        BY <1>1, Zenon DEF FragsOK
      <4>4. QED
        BY <1>3, <1>5, <4>1, <4>2, <4>3
    <3>2. QED
      BY <3>1
  <2>3. IsFiniteSet(S)
    BY <1>1, <1>3, <2>2, BoundedCard
  <2>4. S \cap Held(new.frags) = {}
    <3>1. ASSUME NEW i \in S, i \in Held(new.frags) PROVE FALSE
      <4>1. i \in Int /\ i \in Held(s.frags)
        BY <2>1, <2>2
      <4>2. Covered(s.frags, i)
        BY <1>3, <4>1, HeldFacts
      <4>3. PICK p \in new.frags : i \in p.off..(EndOf(p) - 1)
        BY <3>1 DEF Held
      <4>4. QED
        BY <1>2, <4>2, <4>3
    <3>2. QED
      BY <3>1
  <2>5. {i \in Held(t.frags) : i >= t.off} = S \cup Held(new.frags)
    <3>1. Held(t.frags) = Held(s.frags) \cup Held(new.frags)
      BY <1>10 DEF Held
    <3>2. \A i \in Held(new.frags) : i >= s.off
      BY <1>3, <1>6, <1>7
    <3>3. QED
      BY <1>10, <2>1, <3>1, <3>2
  <2>6. Cardinality(S \cup Held(new.frags)) = Cardinality(S) + Cardinality(Held(new.frags))
    BY <1>8, <2>3, <2>4, DisjointCard
  <2>7. QED
    BY <1>1, <1>9, <1>10, <2>1, <2>5, <2>6
<1>15. Loose(t, next, h)
  <2>1. t.off <= next /\ (t.reset => h.reset)
    BY <1>1, <1>10
  <2>2. t.peerFin /\ ~t.reset /\ ~h.cut => h.fin /\ \A i \in t.off..(Len(h.sent) - 1) : Covered(t.frags, i)
    BY <1>1, <1>10, <1>11
  <2>3. QED
    BY <1>10, <1>13, <1>14, <2>1, <2>2, Zenon DEF Loose
<1>16. Keeps(s, t)
  BY <1>10, <1>11 DEF Keeps
<1>17. QED
  BY <1>10, <1>12, <1>15, <1>16 DEF t

\* Fragments of which some, ps, get the mark of the FIN.
Refin(frags, ps) == (frags \ ps) \cup {[p EXCEPT !.fin = TRUE] : p \in ps}
Marks(frags, ps, p, q) ==
  \/ p \in frags \ ps /\ q = p
  \/ p \in ps /\ q = [p EXCEPT !.fin = TRUE]

\* A piece with its FIN noted is the same piece otherwise.
LEMMA MarkedFrame ==
  ASSUME NEW p \in Frames
  PROVE  /\ [p EXCEPT !.fin = TRUE] \in Frames /\ [p EXCEPT !.fin = TRUE].off = p.off
         /\ [p EXCEPT !.fin = TRUE].data = p.data /\ [p EXCEPT !.fin = TRUE].fin = TRUE
BY DEF Frames

\* Noting the FIN at one piece changes no byte held.
LEMMA RefinFacts ==
  ASSUME NEW frags \in SUBSET Frames, NEW ps \in SUBSET frags
  PROVE  /\ Refin(frags, ps) \in SUBSET Frames
         /\ \A q \in Refin(frags, ps) : \E p \in frags : Marks(frags, ps, p, q)
         /\ \A p \in frags : \E q \in Refin(frags, ps) : Marks(frags, ps, p, q)
         /\ \A p \in frags : \A q : Marks(frags, ps, p, q) =>
              /\ q.off = p.off /\ q.data = p.data /\ EndOf(q) = EndOf(p)
              /\ p \in ps \/ (q.fin <=> p.fin)
         /\ \A i : Covered(Refin(frags, ps), i) <=> Covered(frags, i)
         /\ Held(Refin(frags, ps)) = Held(frags)
<1>1. \A q \in Refin(frags, ps) : \E p \in frags : Marks(frags, ps, p, q)
  BY Zenon DEF Refin, Marks
<1>2. \A p \in frags : \E q \in Refin(frags, ps) : Marks(frags, ps, p, q)
  BY Zenon DEF Refin, Marks
<1>3. ASSUME NEW p \in frags, NEW q, Marks(frags, ps, p, q)
      PROVE  /\ q \in Frames /\ q.off = p.off /\ q.data = p.data /\ EndOf(q) = EndOf(p)
             /\ p \in ps \/ (q.fin <=> p.fin)
  <2>1. p \in Frames
    OBVIOUS
  <2>2. CASE q = p /\ p \in frags \ ps
    BY <2>1, <2>2
  <2>3. CASE p \in ps /\ q = [p EXCEPT !.fin = TRUE]
    <3>1. q \in Frames /\ q.off = p.off /\ q.data = p.data
      BY <2>1, <2>3, MarkedFrame
    <3>2. QED
      BY <2>3, <3>1 DEF EndOf
  <2>4. QED
    BY <1>3, <2>2, <2>3 DEF Marks
<1>4. Refin(frags, ps) \in SUBSET Frames
  BY <1>1, <1>3
<1>5. ASSUME NEW i PROVE Covered(Refin(frags, ps), i) <=> Covered(frags, i)
  <2>1. ASSUME NEW q \in Refin(frags, ps), q.off <= i /\ i < EndOf(q) PROVE Covered(frags, i)
    BY <1>1, <1>3, <2>1, Zenon DEF Covered
  <2>2. ASSUME NEW p \in frags, p.off <= i /\ i < EndOf(p) PROVE Covered(Refin(frags, ps), i)
    BY <1>2, <1>3, <2>2, Zenon DEF Covered
  <2>3. QED
    BY <2>1, <2>2, Zenon DEF Covered
<1>6. Held(Refin(frags, ps)) = Held(frags)
  <2>1. ASSUME NEW i PROVE i \in Held(Refin(frags, ps)) <=> i \in Held(frags)
    <3>1. \A j \in Int : j \in Held(Refin(frags, ps)) <=> j \in Held(frags)
      BY <1>4, <1>5, HeldFacts
    <3>2. Held(Refin(frags, ps)) \in SUBSET Nat /\ Held(frags) \in SUBSET Nat
      BY <1>4, HeldFacts
    <3>3. QED
      BY <3>1, <3>2
  <2>2. QED
    BY <2>1
<1>7. QED
  BY <1>1, <1>2, <1>3, <1>4, <1>5, <1>6, Zenon

\* Nor do fragments cease to be apart.
LEMMA RefinLoose ==
  ASSUME NEW s, NEW next \in Nat, NEW h \in Histories, Loose(s, next, h), NEW ps \in SUBSET s.frags,
         h.fin, \A p \in ps : \A i \in EndOf(p)..(Len(h.sent) - 1) : Covered(s.frags, i)
  PROVE  /\ Loose([s EXCEPT !.frags = Refin(s.frags, ps)], next, h)
         /\ Keeps(s, [s EXCEPT !.frags = Refin(s.frags, ps)])
<1>1. /\ s \in Streams /\ s.off <= next /\ LooseFrags(s.frags, next, h)
      /\ s.buffered = Cardinality({i \in Held(s.frags) : i >= s.off})
      /\ s.peerFin /\ ~s.reset /\ ~h.cut => h.fin /\ \A i \in s.off..(Len(h.sent) - 1) : Covered(s.frags, i)
      /\ s.reset => h.reset
  BY Zenon DEF Loose
<1>2. s.frags \in SUBSET Frames
  BY <1>1, StreamFacts DEF StreamFacts0
<1>3. PICK F : F = Refin(s.frags, ps)
  OBVIOUS
<1>4. /\ F \in SUBSET Frames
      /\ \A q \in F : \E p \in s.frags : Marks(s.frags, ps, p, q)
      /\ \A p \in s.frags : \A q : Marks(s.frags, ps, p, q) =>
           /\ q.off = p.off /\ q.data = p.data /\ EndOf(q) = EndOf(p)
           /\ p \in ps \/ (q.fin <=> p.fin)
      /\ \A i : Covered(F, i) <=> Covered(s.frags, i)
      /\ Held(F) = Held(s.frags)
  BY <1>2, <1>3, RefinFacts, Zenon
<1>5. PICK t : t = [s EXCEPT !.frags = F]
  OBVIOUS
<1>6. /\ t \in Streams /\ t.off = s.off /\ t.frags = F /\ t.reset = s.reset
      /\ t.buffered = s.buffered /\ t.peerFin = s.peerFin
  BY <1>1, <1>4, <1>5 DEF Streams
<1>7. LooseFrags(F, next, h)
  <2>1. ASSUME NEW q \in F PROVE Carries(q) /\ EndOf(q) <= next
    <3>1. PICK p \in s.frags : Marks(s.frags, ps, p, q)
      BY <1>4
    <3>2. q.off = p.off /\ q.data = p.data /\ EndOf(q) = EndOf(p)
      BY <1>4, <3>1
    <3>3. Carries(p) /\ EndOf(p) <= next
      BY <1>1, Zenon DEF LooseFrags
    <3>4. QED
      BY <3>2, <3>3 DEF Carries
  <2>2. ASSUME NEW q \in F PROVE q.off < EndOf(q) \/ q.fin
    <3>1. PICK p \in s.frags : Marks(s.frags, ps, p, q)
      BY <1>4
    <3>2. CASE p \in ps
      <4>1. p \in Frames /\ q = [p EXCEPT !.fin = TRUE]
        BY <1>2, <3>1, <3>2 DEF Marks
      <4>2. QED
        BY <4>1, MarkedFrame
    <3>3. CASE p \notin ps
      <4>1. q.off = p.off /\ EndOf(q) = EndOf(p) /\ (q.fin <=> p.fin)
        BY <1>4, <3>1, <3>3
      <4>2. p.off < EndOf(p) \/ p.fin
        BY <1>1, Zenon DEF LooseFrags
      <4>3. QED
        BY <4>1, <4>2
    <3>4. QED
      BY <3>2, <3>3
  <2>3. ASSUME NEW q \in F, NEW r \in F, q # r PROVE EndOf(q) <= r.off \/ EndOf(r) <= q.off
    <3>1. PICK p \in s.frags : Marks(s.frags, ps, p, q)
      BY <1>4
    <3>2. PICK o \in s.frags : Marks(s.frags, ps, o, r)
      BY <1>4
    <3>3. p # o
      BY <2>3, <3>1, <3>2 DEF Marks
    <3>4. q.off = p.off /\ EndOf(q) = EndOf(p) /\ r.off = o.off /\ EndOf(r) = EndOf(o)
      BY <1>4, <3>1, <3>2
    <3>5. EndOf(p) <= o.off \/ EndOf(o) <= p.off
      BY <1>1, <3>3, Zenon DEF LooseFrags
    <3>6. QED
      BY <3>4, <3>5
  <2>4. ASSUME NEW q \in F, q.fin
        PROVE  h.fin /\ \A i \in EndOf(q)..(Len(h.sent) - 1) : Covered(F, i)
    <3>1. PICK p \in s.frags : Marks(s.frags, ps, p, q)
      BY <1>4
    <3>2. EndOf(q) = EndOf(p) /\ (p \in ps \/ p.fin)
      BY <1>4, <2>4, <3>1
    <3>3. p.fin => \A i \in EndOf(p)..(Len(h.sent) - 1) : Covered(s.frags, i)
      BY <1>1, Zenon DEF LooseFrags
    <3>4. \A i \in EndOf(p)..(Len(h.sent) - 1) : Covered(s.frags, i)
      BY <3>2, <3>3
    <3>5. QED
      BY <1>4, <3>2, <3>4
  <2>5. QED
    BY <2>1, <2>2, <2>3, <2>4, Zenon DEF LooseFrags
<1>8. Loose(t, next, h)
  <2>1. /\ t.off <= next /\ (t.reset => h.reset) /\ LooseFrags(t.frags, next, h)
        /\ t.buffered = Cardinality({i \in Held(t.frags) : i >= t.off})
    BY <1>1, <1>4, <1>6, <1>7
  <2>2. t.peerFin /\ ~t.reset /\ ~h.cut => h.fin /\ \A i \in t.off..(Len(h.sent) - 1) : Covered(t.frags, i)
    BY <1>1, <1>4, <1>6
  <2>3. QED
    BY <1>6, <2>1, <2>2, Zenon DEF Loose
<1>9. Keeps(s, t)
  BY <1>4, <1>6 DEF Keeps
<1>10. QED
  BY <1>3, <1>5, <1>8, <1>9

\* WithFin: wherever the FIN is noted, nothing is missing after it.
LEMMA WithFinFacts ==
  ASSUME NEW s, NEW next \in Nat, NEW h \in Histories, Loose(s, next, h), next <= Len(h.sent),
         NEW last \in SUBSET s.frags, NEW end \in Nat, end = Len(h.sent), end <= next,
         h.fin, end <= MAX_BYTES,
         \A p \in last : \A i \in EndOf(p)..(end - 1) : Covered(s.frags, i)
  PROVE  Loose(WithFin(s, last, end), next, h) /\ Keeps(s, WithFin(s, last, end))
<1> DEFINE low  == {p \in s.frags : p.off <= end}
           tail == {p \in low : EndOf(p) = end /\ \A q \in low : q.off <= p.off}
<1>1. /\ s \in Streams /\ s.off <= next /\ LooseFrags(s.frags, next, h)
      /\ s.buffered = Cardinality({i \in Held(s.frags) : i >= s.off})
      /\ s.peerFin /\ ~s.reset /\ ~h.cut => h.fin /\ \A i \in s.off..(Len(h.sent) - 1) : Covered(s.frags, i)
      /\ s.reset => h.reset
  BY Zenon DEF Loose
<1>2. s.off \in Nat /\ s.frags \in SUBSET Frames
  BY <1>1, StreamFacts DEF StreamFacts0
<1>3. CASE last # {}
  <2>1. WithFin(s, last, end) = [s EXCEPT !.frags = Refin(s.frags, last)]
    BY <1>3 DEF WithFin, Refin
  <2>2. \A p \in last : \A i \in EndOf(p)..(Len(h.sent) - 1) : Covered(s.frags, i)
    OBVIOUS
  <2>3. /\ Loose([s EXCEPT !.frags = Refin(s.frags, last)], next, h)
        /\ Keeps(s, [s EXCEPT !.frags = Refin(s.frags, last)])
    BY <2>2, RefinLoose, Zenon
  <2>4. QED
    BY <2>1, <2>3, Zenon
<1>4. CASE last = {} /\ tail # {}
  <2>1. WithFin(s, last, end) = [s EXCEPT !.frags = Refin(s.frags, tail)]
    BY <1>4 DEF WithFin, Refin
  <2>2. tail \in SUBSET s.frags /\ \A p \in tail : EndOf(p) = end
    OBVIOUS
  <2>3. \A p \in tail : \A i \in EndOf(p)..(Len(h.sent) - 1) : Covered(s.frags, i)
    BY <2>2
  <2> HIDE DEF tail
  <2>4. /\ Loose([s EXCEPT !.frags = Refin(s.frags, tail)], next, h)
        /\ Keeps(s, [s EXCEPT !.frags = Refin(s.frags, tail)])
    BY <2>2, <2>3, RefinLoose, Zenon
  <2>5. QED
    BY <2>1, <2>4, Zenon
<1>5. CASE last = {} /\ tail = {} /\ end = s.off
  <2>1. PICK t : t = [s EXCEPT !.peerFin = TRUE]
    OBVIOUS
  <2>2. WithFin(s, last, end) = t
    BY <1>5, <2>1 DEF WithFin
  <2>3. /\ t \in Streams /\ t.off = s.off /\ t.frags = s.frags /\ t.reset = s.reset
        /\ t.buffered = s.buffered
    BY <1>1, <2>1 DEF Streams
  <2>4. h.fin /\ \A i \in t.off..(Len(h.sent) - 1) : Covered(t.frags, i)
    BY <1>2, <1>5, <2>3
  <2>5. Loose(t, next, h)
    BY <1>1, <2>3, <2>4, Zenon DEF Loose
  <2>6. Keeps(s, t)
    BY <2>3 DEF Keeps
  <2>7. QED
    BY <2>2, <2>5, <2>6
<1>6. CASE last = {} /\ tail = {} /\ end # s.off
  <2>1. PICK e : e = Frame(end, <<>>, TRUE)
    OBVIOUS
  <2>2. e \in Frames /\ e.off = end /\ e.data = <<>> /\ e.fin = TRUE /\ EndOf(e) = end
    <3>a. <<>> \in Seq(1..MAX_BYTES) /\ Len(<<>>) = 0
      OBVIOUS
    <3>1. PICK data \in Seq(1..MAX_BYTES) : data = <<>> /\ Len(data) = 0
      BY <3>a, Zenon
    <3>2. PICK fin \in BOOLEAN : fin = TRUE
      OBVIOUS
    <3>3. /\ Frame(end, data, fin) \in Frames /\ Frame(end, data, fin).off = end
          /\ Frame(end, data, fin).data = data /\ Frame(end, data, fin).fin = fin
          /\ EndOf(Frame(end, data, fin)) = end + Len(data)
      BY NewFrame
    <3>4. e = Frame(end, data, fin) /\ end + 0 = end
      BY <2>1, <3>1, <3>2
    <3>5. QED
      BY <3>1, <3>2, <3>3, <3>4, Zenon
  <2>3. PICK F : F = s.frags \cup {e}
    OBVIOUS
  <2>4. F \in SUBSET Frames
    BY <1>2, <2>2, <2>3
  <2>5. PICK t : t = [s EXCEPT !.frags = F]
    OBVIOUS
  <2>6. WithFin(s, last, end) = t
    BY <1>6, <2>1, <2>3, <2>5 DEF WithFin
  <2>7. /\ t \in Streams /\ t.off = s.off /\ t.frags = F /\ t.reset = s.reset
        /\ t.buffered = s.buffered /\ t.peerFin = s.peerFin
    BY <1>1, <2>4, <2>5 DEF Streams
  <2>8. \A i : Covered(s.frags, i) => Covered(F, i)
    BY <2>3 DEF Covered
  <2>9. Held(F) = Held(s.frags)
    <3>1. e.off..(EndOf(e) - 1) = {}
      BY <2>2
    <3>2. QED
      BY <2>3, <3>1 DEF Held
  <2>10. LooseFrags(F, next, h)
    <3>1. Carries(e) /\ EndOf(e) <= next
      BY <2>2 DEF Carries
    <3>2. \A p \in F : Carries(p) /\ EndOf(p) <= next
      BY <1>1, <2>3, <3>1, Zenon DEF LooseFrags
    <3>3. \A p \in F : p.off < EndOf(p) \/ p.fin
      BY <1>1, <2>2, <2>3, Zenon DEF LooseFrags
    <3>4. ASSUME NEW p \in s.frags PROVE EndOf(p) <= e.off
      <4>1. EndOf(p) <= next /\ EndOf(p) \in Nat
        BY <1>1, <1>2, FrameFacts DEF LooseFrags
      <4>2. QED
        BY <2>2, <4>1
    <3>5. \A p, q \in F : p # q => EndOf(p) <= q.off \/ EndOf(q) <= p.off
      BY <1>1, <2>3, <3>4, Zenon DEF LooseFrags
    <3>6. ASSUME NEW p \in F, p.fin
          PROVE  h.fin /\ \A i \in EndOf(p)..(Len(h.sent) - 1) : Covered(F, i)
      <4>1. CASE p = e
        BY <2>2, <4>1
      <4>2. CASE p \in s.frags
        <5>1. h.fin /\ \A i \in EndOf(p)..(Len(h.sent) - 1) : Covered(s.frags, i)
          BY <1>1, <3>6, <4>2, Zenon DEF LooseFrags
        <5>2. QED
          BY <2>8, <5>1
      <4>3. QED
        BY <2>3, <4>1, <4>2
    <3>7. QED
      BY <3>2, <3>3, <3>5, <3>6, Zenon DEF LooseFrags
  <2>11. Loose(t, next, h)
    <3>1. /\ t.off <= next /\ (t.reset => h.reset) /\ LooseFrags(t.frags, next, h)
          /\ t.buffered = Cardinality({i \in Held(t.frags) : i >= t.off})
      BY <1>1, <2>7, <2>9, <2>10
    <3>2. t.peerFin /\ ~t.reset /\ ~h.cut => h.fin /\ \A i \in t.off..(Len(h.sent) - 1) : Covered(t.frags, i)
      BY <1>1, <2>7, <2>8
    <3>3. QED
      BY <2>7, <3>1, <3>2, Zenon DEF Loose
  <2>12. Keeps(s, t)
    BY <2>7, <2>8 DEF Keeps
  <2>13. QED
    BY <2>6, <2>11, <2>12
<1>7. QED
  BY <1>3, <1>4, <1>5, <1>6

FrameInserted(s, f) == insertRecvFragments(s, Trimmed(s, f))
FramePlaced(s, f) == Placed(s, FrameInserted(s, f).frags)
FrameEnded(s, f) ==
  IF f.fin THEN WithFin(FramePlaced(s, f), FrameInserted(s, f).last, EndOf(Trimmed(s, f)))
           ELSE FramePlaced(s, f)

\* The steps of onFrame.
LEMMA OnFrameUnfolded ==
  ASSUME NEW s, NEW f
  PROVE  onFrame(s, f) =
           IF s.reset THEN [stream |-> s, status |-> "StreamClosed"]
           ELSE IF Trim(s, f) > 0 /\ Trim(s, f) >= Len(f.data)
           THEN [stream |-> [s EXCEPT !.peerFin = @ \/ (f.fin /\ EndOf(f) = s.off)], status |-> "OK"]
           ELSE IF ~FrameInserted(s, f).ok
           THEN [stream |-> FramePlaced(s, f), status |-> "WouldBlock"]
           ELSE [stream |-> maybeAdvancePeerFin(FrameEnded(s, f)), status |-> "OK"]
BY Zenon DEF onFrame, Trim, Trimmed, FrameInserted, FramePlaced, FrameEnded

\* What onFrame makes of a stream s and a frame f that was sent for it.
OnFrameOK(s, f, res, next, h) ==
  IF s.reset THEN res.status = "StreamClosed"
  ELSE /\ res.stream \in Streams /\ StreamOK(res.stream, next, h) /\ Keeps(s, res.stream)
       /\ res.status \in {"OK", "WouldBlock"}
       /\ res.status = "OK" => \A i \in f.off..(EndOf(f) - 1) : i < s.off \/ Covered(res.stream.frags, i)

\* onFrame on a frame all of which was read already.
LEMMA OnFrameRead ==
  ASSUME NEW s \in Streams, NEW next \in Nat, NEW h \in Histories, StreamOK(s, next, h),
         NEW f \in Frames, FrameOK(f, next, h),
         ~s.reset, Trim(s, f) > 0 /\ Trim(s, f) >= Len(f.data)
  PROVE  OnFrameOK(s, f, onFrame(s, f), next, h)
<1>1. /\ s.off <= next /\ FragsOK(s.frags, s.off, next, h)
      /\ s.buffered = Cardinality({i \in Held(s.frags) : i >= s.off})
      /\ s.peerFin /\ ~s.reset /\ ~h.cut => h.fin /\ \A i \in s.off..(Len(h.sent) - 1) : Covered(s.frags, i)
      /\ s.reset => h.reset
  BY Zenon DEF StreamOK
<1>2. s.off \in Nat /\ s.peerFin \in BOOLEAN /\ s.frags \in SUBSET Frames
  BY StreamFacts DEF StreamFacts0
<1>3. /\ f.off \in Nat /\ Len(f.data) \in Nat /\ EndOf(f) = f.off + Len(f.data) /\ f.fin \in BOOLEAN
  BY FrameFacts
<1>4. EndOf(f) <= s.off
  BY <1>2, <1>3 DEF Trim
<1>5. f.fin => h.fin /\ EndOf(f) = Len(h.sent)
  BY DEF FrameOK
<1>6. PICK b \in BOOLEAN : b = (s.peerFin \/ (f.fin /\ EndOf(f) = s.off))
  OBVIOUS
<1>7. PICK t : t = [s EXCEPT !.peerFin = b]
  OBVIOUS
<1>8. onFrame(s, f) = [stream |-> t, status |-> "OK"]
  <2>1. onFrame(s, f) = [stream |-> [s EXCEPT !.peerFin = @ \/ (f.fin /\ EndOf(f) = s.off)], status |-> "OK"]
    BY OnFrameUnfolded, Zenon
  <2>2. QED
    BY <1>6, <1>7, <2>1
<1>9. /\ t \in Streams /\ t.off = s.off /\ t.frags = s.frags /\ t.reset = s.reset
      /\ t.buffered = s.buffered /\ t.peerFin = b
  BY <1>7 DEF Streams
<1>10. t.peerFin /\ ~t.reset /\ ~h.cut => h.fin /\ \A i \in t.off..(Len(h.sent) - 1) : Covered(t.frags, i)
  <2>1. CASE s.peerFin
    BY <1>1, <1>9, <2>1
  <2>2. CASE f.fin /\ EndOf(f) = s.off
    BY <1>2, <1>5, <1>9, <2>2
  <2>3. QED
    BY <1>6, <1>9, <2>1, <2>2
<1>11. StreamOK(t, next, h)
  BY <1>1, <1>9, <1>10, Zenon DEF StreamOK
<1>12. Keeps(s, t)
  BY <1>9 DEF Keeps
<1>13. \A i \in f.off..(EndOf(f) - 1) : i < s.off
  BY <1>2, <1>3, <1>4
<1>14. QED
  BY <1>8, <1>9, <1>11, <1>12, <1>13 DEF OnFrameOK

\* A byte covered stays covered through both steps.
LEMMA KeepsBoth ==
  ASSUME NEW s, NEW t, NEW u, Keeps(s, t), Keeps(t, u)
  PROVE  Keeps(s, u)
BY DEF Keeps

\* onFrame takes a frame in any order, doubled or cut, and stays right.
LEMMA OnFrameFacts ==
  ASSUME NEW s \in Streams, NEW next \in Nat, NEW h \in Histories, StreamOK(s, next, h),
         next <= Len(h.sent), Len(h.sent) <= MAX_BYTES, NEW f \in Frames, FrameOK(f, next, h)
  PROVE  OnFrameOK(s, f, onFrame(s, f), next, h)
<1>1. CASE s.reset
  BY <1>1, OnFrameUnfolded DEF OnFrameOK
<1>2. CASE ~s.reset /\ (Trim(s, f) > 0 /\ Trim(s, f) >= Len(f.data))
  BY <1>2, OnFrameRead
<1>3. CASE ~s.reset /\ ~(Trim(s, f) > 0 /\ Trim(s, f) >= Len(f.data))
  <2>1. PICK g : g = Trimmed(s, f)
    OBVIOUS
  <2>2. Carries(f) /\ EndOf(f) <= next /\ (f.fin => h.fin /\ EndOf(f) = Len(h.sent))
    BY DEF FrameOK
  <2>3. /\ g \in Frames /\ Carries(g) /\ EndOf(g) = EndOf(f) /\ s.off <= g.off
        /\ \A i \in f.off..(EndOf(f) - 1) : i < s.off \/ i \in g.off..(EndOf(f) - 1)
    BY <1>3, <2>1, <2>2, TrimFacts, Zenon
  <2>4. EndOf(g) \in Nat /\ EndOf(g) <= next /\ EndOf(g) <= MAX_BYTES
    <3>1. EndOf(g) \in Nat /\ Len(h.sent) \in Nat /\ MAX_BYTES \in Nat
      BY <2>3, FrameFacts, HistoryFacts, StreamAssumption
    <3>2. QED
      BY <2>2, <2>3, <3>1
  <2>5. PICK new : new = FrameInserted(s, f)
    OBVIOUS
  <2>6. InsertedOK(s, g, new)
    <3>1. InsertedOK(s, g, insertRecvFragments(s, g))
      BY <2>3, <2>4, Inserted
    <3>2. QED
      BY <2>1, <2>5, <3>1, Zenon DEF FrameInserted
  <2>7. PICK t : t = FramePlaced(s, f)
    OBVIOUS
  <2>8. t = Placed(s, new.frags)
    BY <2>5, <2>7, Zenon DEF FramePlaced
  <2>9. /\ Loose(t, next, h) /\ Keeps(s, t) /\ t.frags = s.frags \cup new.frags
        /\ \A p \in s.frags \cup new.frags : s.off < EndOf(p)
    BY <2>3, <2>4, <2>6, <2>8, PlacedFacts, Zenon
  <2>10. CASE ~new.ok
    <3>1. onFrame(s, f) = [stream |-> t, status |-> "WouldBlock"]
      BY <1>3, <2>5, <2>7, <2>10, OnFrameUnfolded, Zenon
    <3>2. t.off = s.off
      BY <2>9 DEF Keeps
    <3>3. StreamOK(t, next, h)
      BY <2>9, <3>2, LooseIsOK
    <3>4. t \in Streams
      BY <2>9 DEF Loose
    <3>5. QED
      BY <1>3, <2>9, <3>1, <3>3, <3>4 DEF OnFrameOK
  <2>11. CASE new.ok
    <3>1. PICK u : u = FrameEnded(s, f)
      OBVIOUS
    <3>2. onFrame(s, f) = [stream |-> maybeAdvancePeerFin(u), status |-> "OK"]
      BY <1>3, <2>5, <2>11, <3>1, OnFrameUnfolded, Zenon
    <3>3. Loose(u, next, h) /\ Keeps(t, u)
      <4>1. CASE f.fin
        <5>1. u = WithFin(t, new.last, EndOf(g))
          BY <2>1, <2>5, <2>7, <3>1, <4>1, Zenon DEF FrameEnded
        <5>2. new.last \in SUBSET t.frags
          BY <2>6, <2>9 DEF InsertedOK
        <5>3. /\ EndOf(g) = Len(h.sent) /\ h.fin
              /\ \A p \in new.last : \A i \in EndOf(p)..(EndOf(g) - 1) : Covered(t.frags, i)
          <6>1. \A p \in new.last : \A i \in EndOf(p)..(EndOf(g) - 1) : Covered(s.frags, i)
            BY <2>6, <2>11, Zenon DEF InsertedOK
          <6>2. \A i : Covered(s.frags, i) => Covered(t.frags, i)
            BY <2>9, CoveredUnion
          <6>3. QED
            BY <2>2, <2>3, <4>1, <6>1, <6>2, Zenon
        <5>4. QED
          BY <2>4, <2>9, <5>1, <5>2, <5>3, WithFinFacts, Zenon
      <4>2. CASE ~f.fin
        <5>1. u = t
          BY <2>7, <3>1, <4>2, Zenon DEF FrameEnded
        <5>2. QED
          BY <2>9, <5>1 DEF Keeps
      <4>3. QED
        BY <4>1, <4>2
    <3>4. PICK v : v = maybeAdvancePeerFin(u)
      OBVIOUS
    <3>5. v \in Streams /\ StreamOK(v, next, h) /\ Keeps(u, v)
      BY <3>3, <3>4, Advance, Zenon
    <3>6. Keeps(s, v) /\ Keeps(t, v)
      BY <2>9, <3>3, <3>5, KeepsBoth, Zenon
    <3>7. ASSUME NEW i \in f.off..(EndOf(f) - 1), ~(i < s.off) PROVE Covered(v.frags, i)
      <4>1. i \in g.off..(EndOf(g) - 1)
        BY <2>3, <3>7
      <4>2. Covered(s.frags, i) \/ Covered(new.frags, i)
        BY <2>6, <2>11, <4>1, Zenon DEF InsertedOK
      <4>3. Covered(t.frags, i)
        BY <2>9, <4>2, CoveredUnion
      <4>4. i \in Int /\ i >= s.off /\ t.off = s.off
        <5>1. s.off \in Nat /\ f.off \in Nat /\ EndOf(f) \in Nat
          BY StreamFacts, FrameFacts DEF StreamFacts0
        <5>2. t.off = s.off
          BY <2>9 DEF Keeps
        <5>3. QED
          BY <3>7, <5>1, <5>2
      <4>5. QED
        BY <3>6, <4>3, <4>4 DEF Keeps
    <3>8. PICK res : res = onFrame(s, f)
      OBVIOUS
    <3>9. res.stream = v /\ res.status = "OK"
      BY <3>2, <3>4, <3>8
    <3>10. OnFrameOK(s, f, res, next, h)
      BY <1>3, <3>5, <3>6, <3>7, <3>9 DEF OnFrameOK
    <3>11. QED
      BY <3>8, <3>10
  <2>12. QED
    BY <2>10, <2>11
<1>4. QED
  BY <1>1, <1>2, <1>3

----------------------------------------------------------------------------
\* What the parts of the invariant keep when the receiver moves on

\* The receiver r with credit c, for the sender s, the acknowledgements as
\* under way and the history h.
ReceiveSide(r, c, s, as, h) ==
  /\ r \in Receivers /\ StreamOK(r.stream, s.next, h) /\ ReceiverOK(r, c, h)
  /\ AcksOK(s, r, as, h)

\* What was sent and acknowledged.
SendSide(s, as, h) ==
  /\ s \in Senders /\ h \in Histories /\ SenderOK(s, h) /\ as \in SUBSET Frames
  /\ \A f \in as : FrameOK(f, s.next, h)

\* A step that leaves the sender alone.
LEMMA ReceiverMoves ==
  ASSUME Inv, UNCHANGED snd,
         app' \in Histories, app'.sent = app.sent, app'.fin = app.fin, app'.reset = app.reset,
         app.cut => app'.cut,
         net' \in SUBSET net, acked' \in SUBSET (acked \cup net), ctl' \in SUBSET Controls,
         credit' \in Credits, faults' \in 0..FAULTS, aborted' \in BOOLEAN,
         \A m \in ctl' : \/ m \in ctl
                         \/ m.type = "MaxStreamData" /\ m.value <= credit'.advertised
                         \/ m.type = "ResetBack" /\ app'.cut,
         credit.advertised <= credit'.advertised, credit'.advertised <= WINDOW + credit'.consumed,
         ReceiveSide(rcv', credit', snd, acked', app')
  PROVE  Inv'
<1>1. /\ snd \in Senders /\ rcv \in Receivers /\ credit \in Credits /\ app \in Histories
      /\ net \in SUBSET Frames /\ acked \in SUBSET Frames /\ ctl \in SUBSET Controls
  BY TypedFacts
<1>2. snd.next \in Nat /\ snd.limit \in Nat /\ credit.advertised \in Nat /\ credit'.advertised \in Nat
  BY <1>1, SenderFacts DEF Credits
<1>3. /\ rcv' \in Receivers /\ StreamOK(rcv'.stream, snd.next, app') /\ ReceiverOK(rcv', credit', app')
      /\ AcksOK(snd, rcv', acked', app')
  BY Zenon DEF ReceiveSide
<1>4. ASSUME NEW f \in net' \cup acked' PROVE FrameOK(f, snd.next, app')
  <2>1. f \in net \cup acked
    OBVIOUS
  <2>2. FrameOK(f, snd.next, app)
    BY <2>1 DEF Inv
  <2>3. QED
    BY <2>2 DEF FrameOK
<1>5. SenderOK(snd, app')
  <2>1. SenderOK(snd, app)
    BY DEF Inv
  <2>2. QED
    BY <2>1 DEF SenderOK
<1>6. CreditOK(snd, credit', ctl')
  <2>1. /\ Within(snd, credit)
        /\ \A m \in ctl : m.type = "MaxStreamData" => m.value <= credit.advertised
    BY DEF Inv, CreditOK, Within
  <2>2. Within(snd, credit')
    BY <1>2, <2>1, StreamAssumption DEF Within, Larger
  <2>3. ASSUME NEW m \in ctl', m.type = "MaxStreamData" PROVE m.value <= credit'.advertised
    <3>1. CASE m \in ctl
      <4>1. m.value \in Nat
        BY <1>1, <2>3, <3>1 DEF Controls
      <4>2. QED
        BY <1>2, <2>1, <2>3, <3>1, <4>1
    <3>2. CASE m \notin ctl
      BY <2>3, <3>2
    <3>3. QED
      BY <3>1, <3>2
  <2>4. QED
    BY <2>2, <2>3 DEF CreditOK, Within
<1>7. ASSUME NEW m \in ctl'
      PROVE  (m.type = "Reset" => app'.reset) /\ (m.type = "ResetBack" => app'.cut)
  BY DEF Inv
<1>8. Typed'
  BY <1>1, <1>3 DEF Typed
<1>9. QED
  BY <1>3, <1>4, <1>5, <1>6, <1>7, <1>8 DEF Inv

\* No fragments hold nothing.
LEMMA EmptyFrags ==
  ASSUME NEW off, NEW next, NEW h
  PROVE  FragsOK({}, off, next, h) /\ 0 = Cardinality({i \in Held({}) : i >= off})
         /\ \A i : ~Covered({}, i)
<1>1. Held({}) = {}
  BY DEF Held
<1>2. {i \in Held({}) : i >= off} = {}
  BY <1>1
<1>3. Cardinality({}) = 0
  BY FS_EmptySet
<1>4. QED
  BY <1>2, <1>3 DEF FragsOK, Covered

\* A stream just opened is right.
LEMMA FreshFacts ==
  ASSUME NEW next \in Nat, NEW h
  PROVE  /\ FreshStream \in Streams /\ StreamOK(FreshStream, next, h)
         /\ FreshStream.off = 0 /\ FreshStream.frags = {} /\ FreshStream.reset = FALSE
<1>1. 0 \in 0..MAX_BYTES /\ 0 \in 0..RECV_LIMIT
  BY StreamAssumption
<1>2. FreshStream \in Streams
  BY <1>1 DEF FreshStream, Streams
<1>3. /\ FreshStream.off = 0 /\ FreshStream.frags = {} /\ FreshStream.reset = FALSE
      /\ FreshStream.buffered = 0 /\ FreshStream.peerFin = FALSE
  BY DEF FreshStream
<1>4. FragsOK({}, 0, next, h) /\ 0 = Cardinality({i \in Held({}) : i >= 0})
  BY EmptyFrags
<1>5. QED
  BY <1>2, <1>3, <1>4 DEF StreamOK

\* The fields of the receiver have their types.
LEMMA ReceiverFacts ==
  ASSUME NEW r \in Receivers
  PROVE  r.stream \in Streams /\ r.exists \in BOOLEAN /\ r.initiator \in BOOLEAN /\ r.opened \in Nat
BY DEF Receivers

\* Once everything was read, everything acknowledged was taken.
LEMMA AllTaken ==
  ASSUME NEW s, NEW as, NEW h, SendSide(s, as, h), NEW r,
         ~h.reset /\ ~h.cut => Len(h.got) = Len(h.sent)
  PROVE  AcksOK(s, r, as, h)
<1>1. /\ s \in Senders /\ h \in Histories /\ SenderOK(s, h) /\ as \in SUBSET Frames
      /\ \A f \in as : FrameOK(f, s.next, h)
  BY Zenon DEF SendSide
<1>2. SUFFICES ASSUME ~h.reset, ~h.cut
               PROVE  /\ \A i \in 0..(s.ackedOff - 1) : i < Len(h.got)
                      /\ \A i \in s.ranges : i < Len(h.got)
                      /\ \A f \in as : \A i \in f.off..(EndOf(f) - 1) : i < Len(h.got)
  BY DEF AcksOK, Taken
<1>3. PICK len \in Nat : len = Len(h.got) /\ len = Len(h.sent)
  BY <1>1, <1>2, HistoryFacts
<1>4. s.next \in Nat /\ s.ackedOff \in Nat /\ s.ackedOff <= s.next /\ s.next <= len
  BY <1>1, <1>3, SenderFacts DEF SenderOK
<1>5. \A i \in 0..(s.ackedOff - 1) : i < len
  BY <1>4
<1>6. \A i \in s.ranges : i < len
  <2>1. \A i \in s.ranges : i \in s.ackedOff..(s.next - 1)
    BY <1>1 DEF SenderOK
  <2>2. QED
    BY <1>4, <2>1
<1>7. ASSUME NEW f \in as, NEW i \in f.off..(EndOf(f) - 1) PROVE i < len
  <2>1. EndOf(f) <= s.next /\ EndOf(f) \in Nat /\ f.off \in Nat
    BY <1>1, FrameFacts DEF FrameOK
  <2>2. QED
    BY <1>4, <2>1
<1>8. QED
  BY <1>3, <1>5, <1>6, <1>7

\* A stream that moved on in its place.
LEMMA StreamReplaced ==
  ASSUME NEW r, NEW c, NEW s, NEW as, NEW h, ReceiveSide(r, c, s, as, h), SendSide(s, as, h),
         r.exists, NEW t \in Streams, StreamOK(t, s.next, h), Keeps(r.stream, t)
  PROVE  ReceiveSide([r EXCEPT !.stream = t], c, s, as, h)
<1>1. /\ r \in Receivers /\ StreamOK(r.stream, s.next, h) /\ ReceiverOK(r, c, h)
      /\ AcksOK(s, r, as, h)
  BY Zenon DEF ReceiveSide
<1>2. PICK q : q = [r EXCEPT !.stream = t]
  OBVIOUS
<1>3. q \in Receivers /\ q.stream = t /\ q.exists = r.exists /\ q.opened = r.opened
  BY <1>1, <1>2 DEF Receivers
<1>4. t.off = r.stream.off /\ \A i \in Int : i >= r.stream.off /\ Covered(r.stream.frags, i) => Covered(t.frags, i)
  BY DEF Keeps
<1>5. ReceiverOK(q, c, h)
  BY <1>1, <1>3, <1>4 DEF ReceiverOK
<1>6. r.stream.off \in Nat
  BY <1>1, ReceiverFacts, StreamFacts DEF StreamFacts0
<1>7. ASSUME NEW i \in Int, Taken(r, h, i) PROVE Taken(q, h, i)
  <2>1. CASE i < Len(h.got)
    BY <2>1 DEF Taken
  <2>2. CASE ~(i < Len(h.got))
    <3>1. r.opened = 1 /\ Covered(r.stream.frags, i)
      BY <1>7, <2>2 DEF Taken
    <3>2. Len(h.got) = r.stream.off
      BY <1>1, <3>1 DEF ReceiverOK
    <3>3. i >= r.stream.off
      BY <1>6, <2>2, <3>2
    <3>4. QED
      BY <1>3, <1>4, <3>1, <3>3 DEF Taken
  <2>3. QED
    BY <2>1, <2>2
<1>8. AcksOK(s, q, as, h)
  <2>1. s \in Senders /\ as \in SUBSET Frames
    BY DEF SendSide
  <2>2. s.ackedOff \in Nat /\ s.ranges \in SUBSET Nat
    BY <2>1, SenderFacts
  <2>3. \A f \in as : f.off \in Nat /\ EndOf(f) \in Nat
    BY <2>1, FrameFacts
  <2>4. SUFFICES ASSUME ~h.reset, ~h.cut
                 PROVE  /\ \A i \in 0..(s.ackedOff - 1) : Taken(q, h, i)
                        /\ \A i \in s.ranges : Taken(q, h, i)
                        /\ \A f \in as : \A i \in f.off..(EndOf(f) - 1) : Taken(q, h, i)
    BY DEF AcksOK
  <2>5. /\ \A i \in 0..(s.ackedOff - 1) : Taken(r, h, i)
        /\ \A i \in s.ranges : Taken(r, h, i)
        /\ \A f \in as : \A i \in f.off..(EndOf(f) - 1) : Taken(r, h, i)
    BY <1>1, <2>4 DEF AcksOK
  <2>6. \A i \in 0..(s.ackedOff - 1) : Taken(q, h, i)
    BY <1>7, <2>2, <2>5
  <2>7. \A i \in s.ranges : Taken(q, h, i)
    BY <1>7, <2>2, <2>5
  <2>8. ASSUME NEW f \in as, NEW i \in f.off..(EndOf(f) - 1) PROVE Taken(q, h, i)
    <3>1. i \in Int
      BY <2>3
    <3>2. QED
      BY <1>7, <2>5, <3>1
  <2>9. QED
    BY <2>6, <2>7, <2>8
<1>9. ReceiveSide(q, c, s, as, h)
  BY <1>3, <1>5, <1>8 DEF ReceiveSide
<1>10. QED
  BY <1>2, <1>9

\* collectClosedStreams drops a stream only when nothing of it is unread.
LEMMA CollectedFacts ==
  ASSUME NEW r, NEW c, NEW s, NEW as, NEW h, ReceiveSide(r, c, s, as, h), SendSide(s, as, h)
  PROVE  ReceiveSide(Collected(r), c, s, as, h)
<1>1. /\ r \in Receivers /\ StreamOK(r.stream, s.next, h) /\ ReceiverOK(r, c, h)
      /\ AcksOK(s, r, as, h)
  BY Zenon DEF ReceiveSide
<1>2. CASE ~(r.exists /\ Closed(r.stream) /\ contiguousReadableBytes(r.stream, 1) = 0)
  <2>1. Collected(r) = r
    BY <1>2, Zenon DEF Collected
  <2>2. QED
    BY <2>1
<1>3. CASE r.exists /\ Closed(r.stream) /\ contiguousReadableBytes(r.stream, 1) = 0
  <2>1. PICK q : q = [r EXCEPT !.exists = FALSE, !.stream = FreshStream]
    OBVIOUS
  <2>2. Collected(r) = q
    BY <1>3, <2>1, Zenon DEF Collected
  <2>3. s \in Senders /\ h \in Histories
    BY DEF SendSide
  <2>4. s.next \in Nat /\ Len(h.sent) \in Nat /\ Len(h.got) \in Nat
    BY <2>3, SenderFacts, HistoryFacts
  <2>5. FreshStream \in Streams /\ StreamOK(FreshStream, s.next, h)
    BY <2>4, FreshFacts
  <2>6. q \in Receivers /\ q.stream = FreshStream /\ q.exists = FALSE /\ q.opened = r.opened
    BY <1>1, <2>1, <2>5 DEF Receivers
  <2>7. r.stream \in Streams /\ r.stream.off \in Nat /\ r.opened \in Nat
    BY <1>1, ReceiverFacts, StreamFacts DEF StreamFacts0
  <2>8. ~Covered(r.stream.frags, r.stream.off)
    <3>1. contiguousReadableBytes(r.stream, 1) < 1 =>
            ~Covered(r.stream.frags, r.stream.off + contiguousReadableBytes(r.stream, 1))
      BY <2>7, Contiguous
    <3>2. r.stream.off + 0 = r.stream.off
      BY <2>7
    <3>3. QED
      BY <1>3, <3>1, <3>2
  <2>9. ASSUME ~h.reset, ~h.cut PROVE h.fin /\ Len(h.got) = Len(h.sent)
    <3>1. CASE r.opened = 1
      <4>1. r.stream.peerFin /\ ~r.stream.reset
        BY <1>1, <1>3, <2>9 DEF Closed, StreamOK
      <4>2. h.fin /\ \A i \in r.stream.off..(Len(h.sent) - 1) : Covered(r.stream.frags, i)
        BY <1>1, <2>9, <4>1, Zenon DEF StreamOK
      <4>3. Len(h.got) = r.stream.off /\ Len(h.got) <= Len(h.sent)
        BY <1>1, <1>3, <3>1 DEF ReceiverOK
      <4>4. r.stream.off \notin r.stream.off..(Len(h.sent) - 1)
        BY <2>8, <4>2
      <4>5. QED
        BY <2>4, <2>7, <4>2, <4>3, <4>4
    <3>2. CASE r.opened # 1
      BY <1>1, <1>3, <2>9, <3>2 DEF ReceiverOK
    <3>3. QED
      BY <3>1, <3>2
  <2>10. ReceiverOK(q, c, h)
    <3>1. r.opened # 0
      BY <1>1, <1>3 DEF ReceiverOK
    <3>2. /\ h.got = Bytes(Len(h.got)) /\ Len(h.got) <= Len(h.sent)
          /\ h.eof => (h.fin /\ Len(h.got) = Len(h.sent)) \/ h.reset \/ h.cut
      BY <1>1 DEF ReceiverOK
    <3>3. QED
      BY <2>6, <2>9, <3>1, <3>2 DEF ReceiverOK
  <2>11. AcksOK(s, q, as, h)
    BY <2>9, AllTaken
  <2>12. ReceiveSide(q, c, s, as, h)
    BY <2>5, <2>6, <2>10, <2>11 DEF ReceiveSide
  <2>13. QED
    BY <2>2, <2>12
<1>4. QED
  BY <1>2, <1>3

\* A stream opened by its first frame.
LEMMA OpenedFacts ==
  ASSUME NEW r, NEW c, NEW s, NEW as, NEW h, ReceiveSide(r, c, s, as, h), SendSide(s, as, h),
         ~r.exists
  PROVE  ReceiveSide([r EXCEPT !.exists = TRUE, !.opened = @ + 1], c, s, as, h)
<1>1. /\ r \in Receivers /\ StreamOK(r.stream, s.next, h) /\ ReceiverOK(r, c, h)
      /\ AcksOK(s, r, as, h)
  BY Zenon DEF ReceiveSide
<1>2. PICK n \in Nat : n = r.opened
  BY <1>1, ReceiverFacts
<1>m. PICK m \in Nat : m = n + 1
  OBVIOUS
<1>3. PICK q : q = [r EXCEPT !.exists = TRUE, !.opened = m]
  OBVIOUS
<1>4. q \in Receivers /\ q.stream = r.stream /\ q.exists = TRUE /\ q.opened = n + 1
  <2>1. q \in Receivers /\ q.stream = r.stream /\ q.exists = TRUE /\ q.opened = m
    BY <1>1, <1>3 DEF Receivers
  <2>2. QED
    BY <1>m, <2>1
<1>5. s \in Senders /\ h \in Histories
  BY DEF SendSide
<1>6. r.stream = FreshStream
  BY <1>1 DEF ReceiverOK
<1>7. r.stream.off = 0 /\ r.stream.frags = {}
  <2>1. s.next \in Nat
    BY <1>5, SenderFacts
  <2>2. FreshStream.off = 0 /\ FreshStream.frags = {}
    BY <2>1, FreshFacts
  <2>3. QED
    BY <1>6, <2>2
<1>8. ReceiverOK(q, c, h)
  <2>1. q.opened # 0 /\ (q.opened = 1 => r.opened = 0) /\ (r.opened = 0 => q.opened = 1)
    BY <1>2, <1>4
  <2>2. r.opened = 0 => h.got = <<>> /\ c.consumed = 0
    BY <1>1 DEF ReceiverOK
  <2>3. Len(<<>>) = 0
    OBVIOUS
  <2>4. q.opened = 1 => Len(h.got) = q.stream.off /\ c.consumed = q.stream.off
    BY <1>4, <1>7, <2>1, <2>2, <2>3
  <2>5. /\ h.got = Bytes(Len(h.got)) /\ Len(h.got) <= Len(h.sent)
        /\ h.eof => (h.fin /\ Len(h.got) = Len(h.sent)) \/ h.reset \/ h.cut
        /\ r.opened # 0 /\ ~h.reset /\ ~h.cut => h.fin /\ Len(h.got) = Len(h.sent)
    BY <1>1 DEF ReceiverOK
  <2>6. QED
    BY <1>4, <2>1, <2>4, <2>5 DEF ReceiverOK
<1>9. AcksOK(s, q, as, h)
  <2>1. \A i : ~Covered(r.stream.frags, i)
    BY <1>7 DEF Covered
  <2>2. \A i : Taken(r, h, i) => Taken(q, h, i)
    BY <2>1 DEF Taken
  <2>3. QED
    BY <1>1, <2>2 DEF AcksOK
<1>10. ReceiveSide(q, c, s, as, h)
  BY <1>1, <1>4, <1>8, <1>9 DEF ReceiveSide
<1>11. [r EXCEPT !.exists = TRUE, !.opened = @ + 1] = q
  BY <1>1, <1>2, <1>3, <1>m DEF Receivers
<1>12. QED
  BY <1>10, <1>11

\* A frame taken may be acknowledged.
LEMMA MoreAcked ==
  ASSUME NEW r, NEW c, NEW s, NEW as, NEW h, ReceiveSide(r, c, s, as, h), SendSide(s, as, h),
         r.exists, NEW f \in Frames, FrameOK(f, s.next, h),
         \A i \in f.off..(EndOf(f) - 1) : i < r.stream.off \/ Covered(r.stream.frags, i)
  PROVE  ReceiveSide(r, c, s, as \cup {f}, h) /\ SendSide(s, as \cup {f}, h)
<1>1. /\ r \in Receivers /\ StreamOK(r.stream, s.next, h) /\ ReceiverOK(r, c, h)
      /\ AcksOK(s, r, as, h)
  BY Zenon DEF ReceiveSide
<1>2. SendSide(s, as \cup {f}, h)
  BY DEF SendSide
<1>3. AcksOK(s, r, as \cup {f}, h)
  <2>1. CASE r.opened = 1
    <3>1. Len(h.got) = r.stream.off
      BY <1>1, <2>1 DEF ReceiverOK
    <3>2. \A i \in f.off..(EndOf(f) - 1) : Taken(r, h, i)
      BY <2>1, <3>1 DEF Taken
    <3>3. QED
      BY <1>1, <3>2 DEF AcksOK
  <2>2. CASE r.opened # 1
    <3>1. ~h.reset /\ ~h.cut => Len(h.got) = Len(h.sent)
      BY <1>1, <2>2 DEF ReceiverOK
    <3>2. QED
      BY <1>2, <3>1, AllTaken
  <2>3. QED
    BY <2>1, <2>2
<1>4. QED
  BY <1>1, <1>2, <1>3 DEF ReceiveSide

\* What Inv says of each half.
LEMMA BothSides ==
  ASSUME Inv
  PROVE  ReceiveSide(rcv, credit, snd, acked, app) /\ SendSide(snd, acked, app)
<1>1. /\ snd \in Senders /\ rcv \in Receivers /\ app \in Histories /\ acked \in SUBSET Frames
  BY TypedFacts
<1>2. /\ SenderOK(snd, app) /\ StreamOK(rcv.stream, snd.next, app) /\ ReceiverOK(rcv, credit, app)
      /\ AcksOK(snd, rcv, acked, app) /\ \A f \in acked : FrameOK(f, snd.next, app)
  BY DEF Inv
<1>3. QED
  BY <1>1, <1>2 DEF ReceiveSide, SendSide

----------------------------------------------------------------------------
\* The steps of the receiver

\* The number of faults stays in its bounds.
LEMMA FaultFacts ==
  ASSUME NEW b \in BOOLEAN, Fault(b), faults \in 0..FAULTS
  PROVE  faults' \in 0..FAULTS
BY StreamAssumption DEF Fault

\* A step of the receiver that concerns neither credit nor control frames.
LEMMA ReceiverOnly ==
  ASSUME Inv, UNCHANGED <<snd, credit>>, ctl' \in SUBSET ctl, net' \in SUBSET net,
         acked' \in SUBSET (acked \cup net), faults' \in 0..FAULTS, aborted' \in BOOLEAN,
         app' \in Histories, app'.sent = app.sent, app'.fin = app.fin, app'.reset = app.reset,
         app'.cut = app.cut,
         ReceiveSide(rcv', credit, snd, acked', app')
  PROVE  Inv'
<1>1. credit \in Credits /\ ctl \in SUBSET Controls
  BY TypedFacts
<1>2. credit.advertised <= WINDOW + credit.consumed
  BY DEF Inv, CreditOK, Within
<1>3. credit.advertised <= credit.advertised
  BY <1>1 DEF Credits
<1>4. ctl' \in SUBSET Controls /\ credit' \in Credits
  BY <1>1
<1>5. \A m \in ctl' : m \in ctl \/ (m.type = "MaxStreamData" /\ m.value <= credit'.advertised)
  OBVIOUS
<1>6. ReceiveSide(rcv', credit', snd, acked', app')
  OBVIOUS
<1>7. credit.advertised <= credit'.advertised /\ credit'.advertised <= WINDOW + credit'.consumed
  BY <1>2, <1>3
<1>8. QED
  BY <1>4, <1>5, <1>6, <1>7, ReceiverMoves

\* ingestStreamFrame: a frame comes for a stream open, new or collected.
LEMMA DeliverStep ==
  ASSUME Inv, NEW f \in net, NEW again \in BOOLEAN, ingestStreamFrame(f, again)
  PROVE  Inv'
<1> DEFINE opening == ~rcv.exists
           r == IF opening THEN [rcv EXCEPT !.exists = TRUE, !.opened = @ + 1] ELSE rcv
           res == onFrame(r.stream, f)
           refused == res.status = "WouldBlock"
<1>1. /\ snd \in Senders /\ rcv \in Receivers /\ credit \in Credits /\ app \in Histories
      /\ net \in SUBSET Frames /\ acked \in SUBSET Frames /\ ctl \in SUBSET Controls
      /\ faults \in 0..FAULTS /\ aborted \in BOOLEAN
  BY TypedFacts
<1>2. /\ Fault(again) /\ UNCHANGED <<snd, credit, ctl, app>>
      /\ \/ aborted' = TRUE /\ UNCHANGED <<rcv, net, acked>>
         \/ /\ res.status # "StreamClosed"
            /\ rcv' = Collected([r EXCEPT !.stream = res.stream])
            /\ net' = IF again \/ refused THEN net ELSE net \ {f}
            /\ acked' = IF refused THEN acked ELSE acked \cup {f}
            /\ UNCHANGED aborted
  BY DEF ingestStreamFrame
<1>3. ReceiveSide(rcv, credit, snd, acked, app) /\ SendSide(snd, acked, app)
  BY BothSides
<1>4. faults' \in 0..FAULTS
  BY <1>1, <1>2, FaultFacts
<1>5. f \in Frames /\ FrameOK(f, snd.next, app)
  BY <1>1 DEF Inv
<1>6. ReceiveSide(r, credit, snd, acked, app) /\ r.exists
  <2>1. CASE opening
    <3>1. ReceiveSide([rcv EXCEPT !.exists = TRUE, !.opened = @ + 1], credit, snd, acked, app)
      BY <1>3, <2>1, OpenedFacts
    <3>2. [rcv EXCEPT !.exists = TRUE, !.opened = @ + 1].exists
      BY <1>1 DEF Receivers
    <3>3. QED
      BY <2>1, <3>1, <3>2
  <2>2. CASE ~opening
    BY <1>3, <2>2
  <2>3. QED
    BY <2>1, <2>2
<1> HIDE DEF r, res
<1>7. CASE aborted' = TRUE /\ UNCHANGED <<rcv, net, acked>>
  <2>1. ReceiveSide(rcv', credit, snd, acked', app')
    BY <1>2, <1>3, <1>7
  <2>2. /\ ctl' \in SUBSET ctl /\ net' \in SUBSET net /\ acked' \in SUBSET (acked \cup net)
        /\ aborted' \in BOOLEAN /\ app' \in Histories
        /\ app'.sent = app.sent /\ app'.fin = app.fin /\ app'.reset = app.reset /\ app'.cut = app.cut
    BY <1>1, <1>2, <1>7
  <2>3. UNCHANGED <<snd, credit>>
    BY <1>2
  <2>4. QED
    BY <1>4, <2>1, <2>2, <2>3, ReceiverOnly
<1>8. CASE /\ res.status # "StreamClosed"
           /\ rcv' = Collected([r EXCEPT !.stream = res.stream])
           /\ net' = IF again \/ refused THEN net ELSE net \ {f}
           /\ acked' = IF refused THEN acked ELSE acked \cup {f}
           /\ UNCHANGED aborted
  <2>1. /\ r \in Receivers /\ StreamOK(r.stream, snd.next, app)
    BY <1>6 DEF ReceiveSide
  <2>2. r.stream \in Streams
    BY <2>1, ReceiverFacts
  <2>3. snd.next \in Nat /\ snd.next <= Len(app.sent) /\ Len(app.sent) <= MAX_BYTES
    BY <1>1, SenderFacts DEF Inv, SenderOK
  <2>4. OnFrameOK(r.stream, f, onFrame(r.stream, f), snd.next, app)
    BY <1>1, <1>5, <2>1, <2>2, <2>3, OnFrameFacts
  <2>5. OnFrameOK(r.stream, f, res, snd.next, app)
    BY <2>4 DEF res
  <2>6. /\ res.stream \in Streams /\ StreamOK(res.stream, snd.next, app) /\ Keeps(r.stream, res.stream)
        /\ res.status \in {"OK", "WouldBlock"}
        /\ res.status = "OK" => \A i \in f.off..(EndOf(f) - 1) :
                                  i < r.stream.off \/ Covered(res.stream.frags, i)
    BY <1>8, <2>5, Zenon DEF OnFrameOK
  <2>7. PICK q : q = [r EXCEPT !.stream = res.stream]
    OBVIOUS
  <2>8. q.exists /\ q.stream = res.stream
    BY <1>6, <2>1, <2>7 DEF Receivers
  <2>9. ReceiveSide(q, credit, snd, acked, app)
    BY <1>3, <1>6, <2>6, <2>7, StreamReplaced, Zenon
  <2>10. ReceiveSide(q, credit, snd, acked', app) /\ SendSide(snd, acked', app)
    <3>1. CASE refused
      BY <1>3, <1>8, <2>9, <3>1
    <3>2. CASE ~refused
      <4>1. q.stream.off = r.stream.off
        BY <2>6, <2>8 DEF Keeps
      <4>2. \A i \in f.off..(EndOf(f) - 1) : i < q.stream.off \/ Covered(q.stream.frags, i)
        BY <2>6, <2>8, <3>2, <4>1
      <4>3. acked' = acked \cup {f}
        BY <1>8, <3>2
      <4>4. QED
        BY <1>3, <1>5, <2>8, <2>9, <4>2, <4>3, MoreAcked, Zenon
    <3>3. QED
      BY <3>1, <3>2
  <2>11. ReceiveSide(rcv', credit, snd, acked', app')
    <3>1. ReceiveSide(Collected(q), credit, snd, acked', app)
      BY <2>10, CollectedFacts, Zenon
    <3>2. QED
      BY <1>2, <1>8, <2>7, <3>1
  <2>12. /\ ctl' \in SUBSET ctl /\ net' \in SUBSET net /\ acked' \in SUBSET (acked \cup net)
         /\ aborted' \in BOOLEAN /\ app' \in Histories
         /\ app'.sent = app.sent /\ app'.fin = app.fin /\ app'.reset = app.reset /\ app'.cut = app.cut
    BY <1>1, <1>2, <1>8
  <2>13. UNCHANGED <<snd, credit>>
    BY <1>2
  <2>14. QED
    BY <1>4, <2>11, <2>12, <2>13, ReceiverOnly
<1>9. QED
  BY <1>2, <1>7, <1>8

\* A step that touches the receiver and what its application saw.
LEMMA ReceiverAlone ==
  ASSUME Inv, UNCHANGED <<snd, credit, net, ctl, acked, faults, aborted>>,
         app' \in Histories, app'.sent = app.sent, app'.fin = app.fin, app'.reset = app.reset,
         app'.cut = app.cut,
         ReceiveSide(rcv', credit, snd, acked, app')
  PROVE  Inv'
<1>1. faults \in 0..FAULTS /\ aborted \in BOOLEAN
  BY TypedFacts
<1>2. /\ ctl' \in SUBSET ctl /\ net' \in SUBSET net /\ acked' \in SUBSET (acked \cup net)
      /\ faults' \in 0..FAULTS /\ aborted' \in BOOLEAN /\ UNCHANGED <<snd, credit>>
      /\ ReceiveSide(rcv', credit, snd, acked', app')
  BY <1>1
<1>3. QED
  BY <1>2, ReceiverOnly

\* close: the receiver's own half is to end.
LEMMA CloseStep ==
  ASSUME Inv, close
  PROVE  Inv'
<1>1. /\ rcv.exists /\ rcv' = [rcv EXCEPT !.stream.finQueued = TRUE]
      /\ UNCHANGED <<snd, credit, net, ctl, acked, faults, aborted, app>>
  BY DEF close
<1>2. rcv \in Receivers /\ rcv.stream \in Streams /\ app \in Histories
  BY TypedFacts
<1>3. ReceiveSide(rcv, credit, snd, acked, app) /\ SendSide(snd, acked, app)
  BY BothSides
<1>4. PICK t : t = [rcv.stream EXCEPT !.finQueued = TRUE]
  OBVIOUS
<1>5. /\ t \in Streams /\ t.off = rcv.stream.off /\ t.frags = rcv.stream.frags
      /\ t.reset = rcv.stream.reset /\ t.buffered = rcv.stream.buffered /\ t.peerFin = rcv.stream.peerFin
  BY <1>2, <1>4 DEF Streams
<1>6. StreamOK(rcv.stream, snd.next, app)
  BY <1>3 DEF ReceiveSide
<1>7. StreamOK(t, snd.next, app) /\ Keeps(rcv.stream, t)
  <2>1. StreamOK(t, snd.next, app)
    BY <1>5, <1>6 DEF StreamOK
  <2>2. QED
    BY <1>5, <2>1 DEF Keeps
<1>8. rcv' = [rcv EXCEPT !.stream = t]
  BY <1>1, <1>4
<1>9. ReceiveSide(rcv', credit, snd, acked, app')
  <2>1. ReceiveSide([rcv EXCEPT !.stream = t], credit, snd, acked, app)
    BY <1>1, <1>3, <1>5, <1>7, StreamReplaced
  <2>2. QED
    BY <1>1, <1>8, <2>1
<1>10. QED
  BY <1>1, <1>2, <1>9, ReceiverAlone

\* flushPendingStreamWrites sends the receiver's FIN.
LEMMA FlushFinStep ==
  ASSUME Inv, FlushFin
  PROVE  Inv'
<1>1. /\ rcv.exists /\ rcv' = Collected([rcv EXCEPT !.stream.finSent = TRUE])
      /\ UNCHANGED <<snd, credit, net, ctl, acked, faults, aborted, app>>
  BY DEF FlushFin
<1>2. rcv \in Receivers /\ rcv.stream \in Streams /\ app \in Histories
  BY TypedFacts
<1>3. ReceiveSide(rcv, credit, snd, acked, app) /\ SendSide(snd, acked, app)
  BY BothSides
<1>4. PICK t : t = [rcv.stream EXCEPT !.finSent = TRUE]
  OBVIOUS
<1>5. /\ t \in Streams /\ t.off = rcv.stream.off /\ t.frags = rcv.stream.frags
      /\ t.reset = rcv.stream.reset /\ t.buffered = rcv.stream.buffered /\ t.peerFin = rcv.stream.peerFin
  BY <1>2, <1>4 DEF Streams
<1>6. StreamOK(rcv.stream, snd.next, app)
  BY <1>3 DEF ReceiveSide
<1>7. StreamOK(t, snd.next, app) /\ Keeps(rcv.stream, t)
  <2>1. StreamOK(t, snd.next, app)
    BY <1>5, <1>6 DEF StreamOK
  <2>2. QED
    BY <1>5, <2>1 DEF Keeps
<1>8. rcv' = Collected([rcv EXCEPT !.stream = t])
  BY <1>1, <1>4
<1>9. ReceiveSide([rcv EXCEPT !.stream = t], credit, snd, acked, app)
  BY <1>1, <1>3, <1>5, <1>7, StreamReplaced
<1>10. ReceiveSide(rcv', credit, snd, acked, app')
  BY <1>1, <1>3, <1>8, <1>9, CollectedFacts
<1>11. QED
  BY <1>1, <1>2, <1>10, ReceiverAlone

\* collectClosedStreams runs alone.
LEMMA CollectStep ==
  ASSUME Inv, collectClosedStreams
  PROVE  Inv'
<1>1. /\ rcv' = Collected(rcv)
      /\ UNCHANGED <<snd, credit, net, ctl, acked, faults, aborted, app>>
  BY DEF collectClosedStreams
<1>2. app \in Histories
  BY TypedFacts
<1>3. ReceiveSide(rcv, credit, snd, acked, app) /\ SendSide(snd, acked, app)
  BY BothSides
<1>4. ReceiveSide(rcv', credit, snd, acked, app')
  BY <1>1, <1>3, CollectedFacts
<1>5. QED
  BY <1>1, <1>2, <1>4, ReceiverAlone

\* read tells the end.
LEMMA ReadEndStep ==
  ASSUME Inv, ReadEnd
  PROVE  Inv'
<1> DEFINE t == maybeAdvancePeerFin(rcv.stream)
<1>1. /\ rcv.exists /\ contiguousReadableBytes(rcv.stream, 1) = 0
      /\ t.peerFin /\ rcv' = [rcv EXCEPT !.stream = t]
      /\ app' = IF rcv.opened = 1 THEN [app EXCEPT !.eof = TRUE] ELSE app
      /\ UNCHANGED <<snd, credit, net, ctl, acked, faults, aborted>>
  BY DEF ReadEnd
<1>2. /\ rcv \in Receivers /\ rcv.stream \in Streams /\ app \in Histories /\ snd \in Senders
  BY TypedFacts
<1>3. ReceiveSide(rcv, credit, snd, acked, app) /\ SendSide(snd, acked, app)
  BY BothSides
<1>4. snd.next \in Nat /\ Len(app.sent) \in Nat /\ Len(app.got) \in Nat
  BY <1>2, SenderFacts, HistoryFacts
<1>5. Loose(rcv.stream, snd.next, app)
  <2>1. StreamOK(rcv.stream, snd.next, app)
    BY <1>3 DEF ReceiveSide
  <2>2. QED
    BY <1>2, <2>1, OKIsLoose
<1>6. t \in Streams /\ StreamOK(t, snd.next, app) /\ Keeps(rcv.stream, t)
  BY <1>2, <1>4, <1>5, Advance
<1>7. rcv.stream.off \in Nat /\ t.off = rcv.stream.off
  BY <1>2, <1>6, StreamFacts DEF StreamFacts0, Keeps
<1>8. ~Covered(t.frags, t.off)
  <2>1. contiguousReadableBytes(rcv.stream, 1) < 1 =>
          ~Covered(rcv.stream.frags, rcv.stream.off + contiguousReadableBytes(rcv.stream, 1))
    BY <1>7, Contiguous
  <2>2. ~Covered(rcv.stream.frags, rcv.stream.off)
    <3>1. rcv.stream.off + 0 = rcv.stream.off
      BY <1>7
    <3>2. QED
      BY <1>1, <2>1, <3>1
  <2>3. t.frags \in SUBSET rcv.stream.frags
    BY <1>2 DEF maybeAdvancePeerFin, Streams
  <2>4. QED
    BY <1>7, <2>2, <2>3 DEF Covered
<1>9. ReceiveSide([rcv EXCEPT !.stream = t], credit, snd, acked, app)
  BY <1>1, <1>3, <1>6, StreamReplaced
<1> HIDE DEF t
<1>10. ReceiveSide(rcv', credit, snd, acked, app)
  BY <1>1, <1>9
<1>11. CASE rcv.opened # 1
  <2>1. app' = app
    BY <1>1, <1>11
  <2>2. QED
    BY <1>1, <1>2, <1>10, <2>1, ReceiverAlone
<1>12. CASE rcv.opened = 1
  <2>1. /\ app' \in Histories /\ app'.sent = app.sent /\ app'.fin = app.fin
        /\ app'.reset = app.reset /\ app'.got = app.got /\ app'.cut = app.cut
    BY <1>1, <1>2, <1>12 DEF Histories
  <2>2. Len(app.got) = t.off /\ Len(app.got) <= Len(app.sent)
    BY <1>1, <1>3, <1>7, <1>12 DEF ReceiveSide, ReceiverOK
  <2>3. ASSUME ~app.reset, ~app.cut
        PROVE  app.fin /\ \A i \in t.off..(Len(app.sent) - 1) : Covered(t.frags, i)
    <3>1. ~t.reset
      BY <1>6, <2>3 DEF StreamOK
    <3>2. QED
      BY <1>1, <1>6, <2>3, <3>1, Zenon DEF StreamOK
  <2>4. ASSUME ~app.reset, ~app.cut PROVE app.fin /\ Len(app.got) = Len(app.sent)
    <3>1. t.off \notin t.off..(Len(app.sent) - 1)
      BY <1>8, <2>3, <2>4
    <3>2. QED
      BY <1>4, <1>7, <2>2, <2>3, <2>4, <3>1
  <2>5. /\ rcv' \in Receivers /\ StreamOK(rcv'.stream, snd.next, app)
        /\ ReceiverOK(rcv', credit, app) /\ AcksOK(snd, rcv', acked, app)
    BY <1>10, Zenon DEF ReceiveSide
  <2>6. ReceiverOK(rcv', credit, app')
    BY <2>1, <2>4, <2>5 DEF ReceiverOK
  <2>7. StreamOK(rcv'.stream, snd.next, app')
    BY <2>1, <2>5 DEF StreamOK, FragsOK
  <2>8. AcksOK(snd, rcv', acked, app')
    BY <2>1, <2>5 DEF AcksOK, Taken
  <2>9. ReceiveSide(rcv', credit, snd, acked, app')
    BY <2>5, <2>6, <2>7, <2>8 DEF ReceiveSide
  <2>10. QED
    BY <1>1, <2>1, <2>9, ReceiverAlone
<1>13. QED
  BY <1>11, <1>12

\* handleResetStreamFrame drops what was held.
LEMMA ResetFrameStep ==
  ASSUME Inv, NEW m \in ctl, handleResetStreamFrame(m)
  PROVE  Inv'
<1>1. /\ m.type = "Reset" /\ ctl' = ctl \ {m}
      /\ rcv' = IF ~rcv.exists /\ rcv.initiator THEN rcv
                ELSE [rcv EXCEPT !.exists = TRUE, !.opened = IF rcv.exists THEN @ ELSE @ + 1,
                             !.stream = [@ EXCEPT !.reset = TRUE, !.frags = {}, !.buffered = 0, !.peerFin = TRUE,
                                                  !.finQueued = TRUE, !.finSent = TRUE]]
      /\ UNCHANGED <<snd, credit, net, acked, faults, aborted, app>>
  BY DEF handleResetStreamFrame
<1>2. /\ rcv \in Receivers /\ rcv.stream \in Streams /\ app \in Histories /\ snd \in Senders
      /\ faults \in 0..FAULTS /\ aborted \in BOOLEAN
  BY TypedFacts
<1>3. ReceiveSide(rcv, credit, snd, acked, app)
  BY BothSides
<1>4. app.reset
  BY <1>1 DEF Inv
<1>5. ReceiveSide(rcv', credit, snd, acked, app)
  <2>1. CASE ~rcv.exists /\ rcv.initiator
    BY <1>1, <1>3, <2>1
  <2>2. CASE ~(~rcv.exists /\ rcv.initiator)
    <3>1. PICK t : t = [rcv.stream EXCEPT !.reset = TRUE, !.frags = {}, !.buffered = 0, !.peerFin = TRUE,
                                          !.finQueued = TRUE, !.finSent = TRUE]
      OBVIOUS
    <3>2. 0 \in 0..RECV_LIMIT
      BY StreamAssumption
    <3>3. /\ t \in Streams /\ t.off = rcv.stream.off /\ t.frags = {} /\ t.buffered = 0 /\ t.reset = TRUE
      BY <1>2, <3>1, <3>2 DEF Streams
    <3>4. PICK n \in Nat : n = IF rcv.exists THEN rcv.opened ELSE rcv.opened + 1
      <4>1. rcv.opened \in Nat
        BY <1>2, ReceiverFacts
      <4>2. QED
        BY <4>1
    <3>5. rcv' = [rcv EXCEPT !.exists = TRUE, !.opened = n, !.stream = t]
      BY <1>1, <1>2, <2>2, <3>1, <3>4 DEF Receivers
    <3>6. rcv' \in Receivers /\ rcv'.exists = TRUE /\ rcv'.opened = n /\ rcv'.stream = t
      BY <1>2, <3>3, <3>5 DEF Receivers
    <3>7. /\ StreamOK(rcv.stream, snd.next, app) /\ ReceiverOK(rcv, credit, app)
      BY <1>3 DEF ReceiveSide
    <3>8. StreamOK(t, snd.next, app)
      <4>1. t.off <= snd.next
        BY <3>3, <3>7 DEF StreamOK
      <4>2. FragsOK({}, t.off, snd.next, app) /\ 0 = Cardinality({i \in Held({}) : i >= t.off})
        BY EmptyFrags
      <4>3. QED
        BY <1>4, <3>3, <4>1, <4>2 DEF StreamOK
    <3>9. ReceiverOK(rcv', credit, app)
      <4>1. n # 0 /\ (n = 1 => Len(app.got) = t.off /\ credit.consumed = t.off)
        <5>1. CASE rcv.exists
          BY <3>3, <3>4, <3>7, <5>1 DEF ReceiverOK
        <5>2. CASE ~rcv.exists
          <6>1. rcv.opened \in Nat
            BY <1>2, ReceiverFacts
          <6>2. rcv.stream = FreshStream /\ (rcv.opened = 0 => app.got = <<>> /\ credit.consumed = 0)
            BY <3>7, <5>2 DEF ReceiverOK
          <6>3. t.off = 0
            BY <3>3, <6>2 DEF FreshStream
          <6>4. Len(<<>>) = 0
            OBVIOUS
          <6>5. n # 0 /\ (n = 1 => rcv.opened = 0)
            BY <3>4, <5>2, <6>1
          <6>6. QED
            BY <6>2, <6>3, <6>4, <6>5
        <5>3. QED
          BY <5>1, <5>2
      <4>2. /\ app.got = Bytes(Len(app.got)) /\ Len(app.got) <= Len(app.sent)
            /\ app.eof => (app.fin /\ Len(app.got) = Len(app.sent)) \/ app.reset \/ app.cut
        BY <3>7 DEF ReceiverOK
      <4>3. QED
        BY <1>4, <3>6, <4>1, <4>2 DEF ReceiverOK
    <3>10. AcksOK(snd, rcv', acked, app)
      BY <1>4 DEF AcksOK
    <3>11. QED
      BY <3>6, <3>8, <3>9, <3>10 DEF ReceiveSide
  <2>3. QED
    BY <2>1, <2>2
<1>6. /\ ctl' \in SUBSET ctl /\ net' \in SUBSET net /\ acked' \in SUBSET (acked \cup net)
      /\ faults' \in 0..FAULTS /\ aborted' \in BOOLEAN /\ UNCHANGED <<snd, credit>>
      /\ app' \in Histories /\ app'.sent = app.sent /\ app'.fin = app.fin /\ app'.reset = app.reset /\ app'.cut = app.cut
      /\ ReceiveSide(rcv', credit, snd, acked', app')
  BY <1>1, <1>2, <1>5
<1>7. QED
  BY <1>6, ReceiverOnly

\* Bytes read move the stream on, and m_recvBufferedBytes with it.
MovedOn(s, k) == [s EXCEPT !.off = @ + k, !.buffered = IF @ >= k THEN @ - k ELSE 0]
MovedOK(s, k, u, next, h) ==
  Loose(u, next, h) /\ u.off = s.off + k /\ u.frags = s.frags /\ u.reset = s.reset

\* Reading k bytes that are covered takes exactly k off the count.
LEMMA ReadLoose ==
  ASSUME NEW s \in Streams, NEW next \in Nat, NEW h \in Histories, StreamOK(s, next, h),
         NEW k \in Nat, k > 0, next <= MAX_BYTES,
         \A i \in s.off..(s.off + k - 1) : Covered(s.frags, i)
  PROVE  MovedOK(s, k, MovedOn(s, k), next, h)
<1>u. PICK u : u = MovedOn(s, k)
  OBVIOUS
<1>1. /\ s.off <= next /\ FragsOK(s.frags, s.off, next, h)
      /\ s.buffered = Cardinality({i \in Held(s.frags) : i >= s.off})
      /\ s.peerFin /\ ~s.reset /\ ~h.cut => h.fin /\ \A i \in s.off..(Len(h.sent) - 1) : Covered(s.frags, i)
      /\ s.reset => h.reset
  BY Zenon DEF StreamOK
<1>2. s.off \in Nat /\ s.frags \in SUBSET Frames /\ s.buffered \in Nat /\ s.buffered <= RECV_LIMIT
      /\ RECV_LIMIT \in Nat /\ MAX_BYTES \in Nat /\ Len(h.sent) \in Nat
  BY StreamFacts, StreamAssumption, HistoryFacts DEF StreamFacts0
<1>a. PICK a \in Nat : a = s.off
  BY <1>2
<1>e. PICK e \in Nat : e = a + k
  OBVIOUS
<1>3. a = s.off /\ e = s.off + k /\ e = a + k
  BY <1>a, <1>e
<1>4. e <= next
  <2>1. e - 1 \in s.off..(s.off + k - 1)
    BY <1>2, <1>3
  <2>2. PICK p \in s.frags : p.off <= e - 1 /\ e - 1 < EndOf(p)
    BY <2>1 DEF Covered
  <2>3. EndOf(p) <= next
    BY <1>1, Zenon DEF FragsOK
  <2>4. EndOf(p) \in Nat
    BY <1>2, FrameFacts
  <2>5. QED
    BY <1>3, <2>2, <2>3, <2>4
<1>5. PICK S : S = {i \in Held(s.frags) : i >= s.off}
  OBVIOUS
<1>6. PICK T : T = {i \in Held(s.frags) : i >= e}
  OBVIOUS
<1>7. S \in SUBSET (a..(next - 1))
  <2>1. ASSUME NEW i \in S PROVE i \in a..(next - 1)
    <3>1. i >= s.off /\ i \in Held(s.frags)
      BY <1>5
    <3>2. PICK p \in s.frags : i \in p.off..(EndOf(p) - 1)
      BY <3>1 DEF Held
    <3>3. EndOf(p) <= next
      BY <1>1, Zenon DEF FragsOK
    <3>4. EndOf(p) \in Nat /\ p.off \in Nat
      BY <1>2, FrameFacts
    <3>5. QED
      BY <1>3, <3>1, <3>2, <3>3, <3>4
  <2>2. QED
    BY <2>1
<1>8. S = (a..(e - 1)) \cup T
  <2>1. ASSUME NEW i \in a..(e - 1) PROVE i \in S
    <3>1. i \in Int /\ i \in s.off..(s.off + k - 1) /\ i >= s.off
      BY <1>2, <1>3
    <3>2. i \in Held(s.frags)
      BY <1>2, <3>1, HeldFacts
    <3>3. QED
      BY <1>5, <3>1, <3>2
  <2>2. \A i \in Held(s.frags) : i \in Nat
    BY <1>2, HeldFacts
  <2>3. \A i \in T : i \in S
    BY <1>3, <1>5, <1>6, <2>2
  <2>4. \A i \in S : i \in a..(e - 1) \/ i \in T
    BY <1>3, <1>5, <1>6, <2>2
  <2>5. QED
    BY <2>1, <2>3, <2>4
<1>9. IsFiniteSet(T) /\ Cardinality(T) \in Nat /\ IsFiniteSet(a..(e - 1)) /\ Cardinality(a..(e - 1)) = k
  <2>1. a <= next /\ T \in SUBSET (a..(next - 1))
    BY <1>1, <1>3, <1>7, <1>8
  <2>2. IsFiniteSet(T) /\ Cardinality(T) \in Nat
    BY <2>1, BoundedCard
  <2>3. a <= e /\ e - a = k
    BY <1>3
  <2>4. IsFiniteSet(a..(e - 1)) /\ Cardinality(a..(e - 1)) = e - a
    BY <2>3, IntervalCard
  <2>5. QED
    BY <2>2, <2>3, <2>4
<1>10. Cardinality(S) = k + Cardinality(T)
  <2>1. (a..(e - 1)) \cap T = {}
    <3>1. ASSUME NEW i \in a..(e - 1), i \in T PROVE FALSE
      BY <1>6, <3>1
    <3>2. QED
      BY <3>1
  <2>2. QED
    BY <1>8, <1>9, <2>1, DisjointCard
<1>11. PICK b \in 0..RECV_LIMIT : b = Cardinality(T) /\ b = IF s.buffered >= k THEN s.buffered - k ELSE 0
  <2>1. PICK x, b \in Nat : x = s.buffered /\ b = Cardinality(T)
    BY <1>2, <1>9
  <2>2. x = k + b /\ x <= RECV_LIMIT
    BY <1>1, <1>2, <1>5, <1>10, <2>1
  <2>3. b \in 0..RECV_LIMIT /\ b = IF x >= k THEN x - k ELSE 0
    BY <1>2, <2>2
  <2>4. QED
    BY <2>1, <2>3
<1>12. /\ u \in Streams /\ u.off = e /\ u.frags = s.frags /\ u.reset = s.reset
       /\ u.buffered = b /\ u.peerFin = s.peerFin
  <2>1. u = [s EXCEPT !.off = e, !.buffered = b]
    <3>1. [s EXCEPT !.off = e].buffered = s.buffered
      BY DEF Streams
    <3>2. QED
      BY <1>3, <1>11, <1>u, <3>1 DEF MovedOn
  <2>2. e \in 0..MAX_BYTES
    BY <1>2, <1>4
  <2>3. QED
    BY <2>1, <2>2 DEF Streams
<1>13. LooseFrags(u.frags, next, h)
  BY <1>1, <1>12 DEF FragsOK, LooseFrags
<1>14. u.buffered = Cardinality({i \in Held(u.frags) : i >= u.off})
  BY <1>6, <1>11, <1>12
<1>15. u.peerFin /\ ~u.reset /\ ~h.cut => h.fin /\ \A i \in u.off..(Len(h.sent) - 1) : Covered(u.frags, i)
  <2>1. \A i \in e..(Len(h.sent) - 1) : i \in s.off..(Len(h.sent) - 1)
    BY <1>2, <1>3
  <2>2. QED
    BY <1>1, <1>12, <2>1
<1>16. Loose(u, next, h)
  <2>1. u.off <= next /\ (u.reset => h.reset)
    BY <1>1, <1>4, <1>12
  <2>2. QED
    BY <1>12, <1>13, <1>14, <1>15, <2>1, Zenon DEF Loose
<1>17. QED
  BY <1>3, <1>12, <1>16, <1>u DEF MovedOK

\* The byte at place i of fragments that carry the bytes of their offsets.
ByteOf(frags, i) ==
  LET p == CHOOSE p \in frags : p.off <= i /\ i < EndOf(p) IN p.data[i - p.off + 1]

\* The byte at a covered offset.
LEMMA ByteOfFacts ==
  ASSUME NEW frags \in SUBSET Frames, \A p \in frags : Carries(p), NEW i \in Nat, Covered(frags, i)
  PROVE  ByteOf(frags, i) = i + 1
<1> DEFINE P(p) == p.off <= i /\ i < EndOf(p)
           c == CHOOSE p \in frags : P(p)
<1>1. \E p \in frags : P(p)
  BY DEF Covered
<1>2. c \in frags /\ P(c)
  BY <1>1, Zenon
<1> HIDE DEF P, c
<1>3. PICK q \in frags : q = c
  BY <1>2
<1>4. q.off <= i /\ i < EndOf(q)
  BY <1>2, <1>3 DEF P
<1>5. q.off \in Nat /\ Len(q.data) \in Nat /\ EndOf(q) = q.off + Len(q.data)
  BY FrameFacts
<1>6. i - q.off + 1 \in 1..Len(q.data) /\ q.off + (i - q.off + 1) = i + 1
  BY <1>4, <1>5
<1>7. q.data[i - q.off + 1] = q.off + (i - q.off + 1)
  BY <1>6 DEF Carries
<1>8. ByteOf(frags, i) = q.data[i - q.off + 1]
  BY <1>3, Zenon DEF ByteOf, c, P
<1>9. QED
  BY <1>6, <1>7, <1>8

\* The next k bytes after the first n are the first n + k.
LEMMA BytesJoined ==
  ASSUME NEW n \in Nat, NEW k \in Nat, NEW q, q = [i \in 1..k |-> n + i]
  PROVE  Bytes(n) \o q = Bytes(n + k)
<1>1. Bytes(n) \in Seq(Nat) /\ Len(Bytes(n)) = n /\ \A i \in 1..n : Bytes(n)[i] = i
  BY DEF Bytes
<1>2. q \in Seq(Nat) /\ Len(q) = k /\ \A i \in 1..k : q[i] = n + i
  OBVIOUS
<1>3. Bytes(n + k) \in Seq(Nat) /\ Len(Bytes(n + k)) = n + k /\ \A i \in 1..(n + k) : Bytes(n + k)[i] = i
  BY DEF Bytes
<1>4. PICK j : j = Bytes(n) \o q
  OBVIOUS
<1>q. PICK c, d \in Seq(Nat) : c = Bytes(n) /\ d = q
  BY <1>1, <1>2
<1>j. j = c \o d /\ Len(c) = n /\ Len(d) = k
  BY <1>1, <1>2, <1>4, <1>q
<1>5. j \in Seq(Nat) /\ Len(j) = n + k
  BY <1>j, Joined
<1>6. ASSUME NEW i \in 1..(n + k) PROVE j[i] = i
  <2>1. CASE i \in 1..n
    <3>1. j[i] = c[i]
      BY <1>j, <2>1
    <3>2. QED
      BY <1>1, <1>q, <2>1, <3>1
  <2>2. CASE i \notin 1..n
    <3>1. i - n \in 1..k /\ n + (i - n) = i /\ ~(i <= n)
      BY <2>2
    <3>2. j[i] = d[i - n]
      <4>1. i \in 1..(Len(c) + Len(d)) /\ ~(i <= Len(c))
        BY <1>j, <3>1
      <4>2. (c \o d)[i] = d[i - Len(c)]
        BY <4>1
      <4>3. QED
        BY <1>j, <4>2
    <3>3. QED
      BY <1>2, <1>q, <3>1, <3>2
  <2>3. QED
    BY <2>1, <2>2
<1>7. j = Bytes(n + k)
  BY <1>3, <1>5, <1>6
<1>8. QED
  BY <1>4, <1>7

\* The credit follows what was read and never passes a window beyond it.
LEMMA CreditStep ==
  ASSUME credit \in Credits, ctl \in SUBSET Controls, credit.advertised <= WINDOW + credit.consumed,
         NEW k \in Nat, NEW timely \in BOOLEAN, NEW blocked \in BOOLEAN,
         onStreamBytesConsumed(k, timely, blocked)
  PROVE  /\ credit' \in Credits /\ credit'.consumed = credit.consumed + k
         /\ credit.advertised <= credit'.advertised /\ credit'.advertised <= WINDOW + credit'.consumed
         /\ ctl' \in SUBSET Controls
         /\ \A m \in ctl' : m \in ctl \/ (m.type = "MaxStreamData" /\ m.value <= credit'.advertised)
<1>1. /\ credit.consumed \in Nat /\ credit.advertised \in Nat /\ credit.refused \in BOOLEAN
      /\ credit.told \in BOOLEAN /\ WINDOW \in Nat
  BY StreamAssumption DEF Credits
<1>2. PICK c, a \in Nat : c = credit.consumed /\ a = credit.advertised
  BY <1>1
<1>3. PICK target \in Nat : target = WINDOW + c + k
  BY <1>1
<1>4. PICK tell \in BOOLEAN :
        tell = (((~credit.told \/ target - a >= THRESHOLD) \/ timely) /\ ~blocked)
  OBVIOUS
<1>5. PICK value \in Nat : value = IF tell THEN target ELSE a
  <2>1. (IF tell THEN target ELSE a) \in Nat
    OBVIOUS
  <2>2. QED
    BY <2>1
<1>6. PICK d \in Nat : d = c + k
  OBVIOUS
<1>7. PICK r \in BOOLEAN : r = (credit.refused \/ blocked)
  OBVIOUS
<1>t. PICK told \in BOOLEAN : told = (credit.told \/ tell)
  OBVIOUS
<1>8. credit' = [credit EXCEPT !.consumed = d, !.advertised = value, !.told = told, !.refused = r]
  <2>1. /\ [credit EXCEPT !.consumed = d].advertised = credit.advertised
        /\ [credit EXCEPT !.consumed = d, !.advertised = value].told = credit.told
        /\ [credit EXCEPT !.consumed = d, !.advertised = value, !.told = told].refused = credit.refused
    BY DEF Credits
  <2>2. target = WINDOW + credit.consumed + k
    BY <1>2, <1>3
  <2>3. QED
    BY <1>2, <1>4, <1>5, <1>6, <1>7, <1>t, <2>1, <2>2 DEF onStreamBytesConsumed
<1>9. /\ credit' \in Credits /\ credit'.consumed = d /\ credit'.advertised = value
  BY <1>8 DEF Credits
<1>10. a <= value /\ value <= WINDOW + d
  BY <1>1, <1>2, <1>3, <1>5, <1>6
<1>11. ctl' = IF tell THEN ctl \cup {MaxStreamData(target)} ELSE ctl
  <2>1. target = WINDOW + credit.consumed + k
    BY <1>2, <1>3
  <2>2. QED
    BY <1>2, <1>4, <2>1 DEF onStreamBytesConsumed
<1>12. ctl' \in SUBSET Controls
  BY <1>11 DEF Controls, MaxStreamData
<1>13. ASSUME NEW m \in ctl', m \notin ctl
       PROVE  m.type = "MaxStreamData" /\ m.value <= credit'.advertised
  <2>1. tell /\ m = MaxStreamData(target)
    BY <1>11, <1>13
  <2>2. value = target /\ target <= target
    BY <1>5, <2>1
  <2>3. QED
    BY <1>9, <2>1, <2>2 DEF MaxStreamData
<1>14. QED
  BY <1>2, <1>6, <1>9, <1>10, <1>12, <1>13

\* commitReadViews hands over the next bytes and gives credit for them.
LEMMA ReadStep ==
  ASSUME Inv, NEW n \in 1..MAX_BYTES, NEW timely \in BOOLEAN, NEW blocked \in BOOLEAN,
         read(n, timely, blocked)
  PROVE  Inv'
<1> DEFINE s == rcv.stream
           k == contiguousReadableBytes(s, n)
           u == [s EXCEPT !.off = @ + k, !.buffered = IF @ >= k THEN @ - k ELSE 0]
           t == maybeAdvancePeerFin(u)
           bytes == [i \in 1..k |-> ByteOf(s.frags, s.off + i - 1)]
<1>1. /\ rcv.exists /\ k > 0 /\ onStreamBytesConsumed(k, timely, blocked)
      /\ rcv' = [rcv EXCEPT !.stream = t]
      /\ app' = IF rcv.opened = 1 THEN [app EXCEPT !.got = @ \o bytes] ELSE app
      /\ UNCHANGED <<snd, net, acked, aborted>>
  BY Zenon DEF read, ByteOf
<1>2. /\ snd \in Senders /\ rcv \in Receivers /\ rcv.stream \in Streams /\ credit \in Credits
      /\ app \in Histories /\ net \in SUBSET Frames /\ acked \in SUBSET Frames
      /\ ctl \in SUBSET Controls /\ faults \in 0..FAULTS /\ aborted \in BOOLEAN
  BY TypedFacts
<1>3. ReceiveSide(rcv, credit, snd, acked, app) /\ SendSide(snd, acked, app)
  BY BothSides
<1>4. /\ rcv \in Receivers /\ StreamOK(s, snd.next, app) /\ ReceiverOK(rcv, credit, app)
      /\ AcksOK(snd, rcv, acked, app)
  BY <1>3, Zenon DEF ReceiveSide
<1>5. s.off \in Nat /\ s.frags \in SUBSET Frames
  BY <1>2, StreamFacts DEF StreamFacts0
<1>6. k \in Nat /\ \A i \in s.off..(s.off + k - 1) : Covered(s.frags, i)
  <2>1. n \in Nat
    OBVIOUS
  <2>2. k \in 0..n /\ \A i \in s.off..(s.off + k - 1) : Covered(s.frags, i)
    BY <1>5, <2>1, Contiguous
  <2>3. QED
    BY <2>1, <2>2
<1>7. /\ snd.next \in Nat /\ snd.next <= MAX_BYTES /\ snd.next <= Len(app.sent)
      /\ Len(app.sent) \in Nat /\ Len(app.got) \in Nat /\ Len(app.sent) <= MAX_BYTES
  <2>1. snd.next \in Nat /\ snd.next <= MAX_BYTES /\ Len(app.sent) \in Nat /\ Len(app.got) \in Nat
    BY <1>2, SenderFacts, HistoryFacts
  <2>2. snd.next <= Len(app.sent) /\ Len(app.sent) <= MAX_BYTES
    BY DEF Inv, SenderOK
  <2>3. QED
    BY <2>1, <2>2
<1> HIDE DEF k
<1>8. Loose(u, snd.next, app) /\ u.off = s.off + k /\ u.frags = s.frags /\ u.reset = s.reset
  <2>1. k > 0 /\ rcv.stream \in Streams
    BY <1>1, <1>2
  <2>2. MovedOK(s, k, MovedOn(s, k), snd.next, app)
    BY <1>2, <1>4, <1>6, <1>7, <2>1, ReadLoose
  <2>3. u = MovedOn(s, k)
    BY DEF MovedOn
  <2>4. QED
    BY <2>2, <2>3 DEF MovedOK
<1> HIDE DEF u
<1>9. t \in Streams /\ StreamOK(t, snd.next, app) /\ Keeps(u, t)
  BY <1>2, <1>7, <1>8, Advance
<1> HIDE DEF t
<1>10. t.off = s.off + k /\ \A i \in Int : i >= s.off + k /\ Covered(s.frags, i) => Covered(t.frags, i)
  BY <1>8, <1>9 DEF Keeps
<1>11. s.off + k <= Len(app.sent)
  <2>1. t.off <= snd.next
    BY <1>9 DEF StreamOK
  <2>2. QED
    BY <1>5, <1>6, <1>7, <1>10, <2>1
<1>12. rcv' \in Receivers /\ rcv'.stream = t /\ rcv'.exists = rcv.exists /\ rcv'.opened = rcv.opened
  BY <1>1, <1>2, <1>9 DEF Receivers
<1>13. faults' \in 0..FAULTS
  <2>1. Fault(blocked)
    BY <1>1 DEF onStreamBytesConsumed
  <2>2. QED
    BY <1>2, <2>1, FaultFacts
<1>14. credit.advertised <= WINDOW + credit.consumed
  BY DEF Inv, CreditOK, Within
<1>15. /\ credit' \in Credits /\ credit'.consumed = credit.consumed + k
       /\ credit.advertised <= credit'.advertised /\ credit'.advertised <= WINDOW + credit'.consumed
       /\ ctl' \in SUBSET Controls
       /\ \A m \in ctl' : m \in ctl \/ (m.type = "MaxStreamData" /\ m.value <= credit'.advertised)
  BY <1>1, <1>2, <1>6, <1>14, CreditStep
<1>16. /\ app' \in Histories /\ app'.sent = app.sent /\ app'.fin = app.fin /\ app'.reset = app.reset
       /\ app'.eof = app.eof /\ app'.cut = app.cut
       /\ rcv.opened = 1 => app'.got = Bytes(s.off + k) /\ Len(app'.got) = s.off + k
       /\ rcv.opened # 1 => app'.got = app.got
  <2>1. CASE rcv.opened = 1
    <3>1. PICK o \in Nat : o = s.off /\ o = Len(app.got)
      BY <1>1, <1>4, <1>5, <2>1 DEF ReceiverOK
    <3>2. \A p \in s.frags : Carries(p)
      BY <1>4 DEF StreamOK, FragsOK
    <3>3. ASSUME NEW i \in 1..k PROVE ByteOf(s.frags, s.off + i - 1) = o + i
      <4>1. PICK x \in Nat : x = o + i - 1
        BY <1>6
      <4>2. x \in s.off..(s.off + k - 1) /\ x + 1 = o + i
        BY <1>6, <3>1, <4>1
      <4>3. Covered(s.frags, x)
        BY <1>6, <4>2
      <4>4. ByteOf(s.frags, x) = x + 1
        BY <1>5, <3>2, <4>3, ByteOfFacts
      <4>5. QED
        BY <3>1, <4>1, <4>2, <4>4
    <3>4. bytes = [i \in 1..k |-> o + i]
      BY <3>3
    <3>5. Bytes(o) \o bytes = Bytes(o + k)
      BY <1>6, <3>4, BytesJoined
    <3>6. app.got = Bytes(o)
      BY <1>4, <3>1 DEF ReceiverOK
    <3>7. PICK g : g = Bytes(o + k)
      OBVIOUS
    <3>8. app' = [app EXCEPT !.got = g]
      BY <1>1, <2>1, <3>5, <3>6, <3>7
    <3>9. g \in Seq(1..MAX_BYTES) /\ Len(g) = o + k
      <4>1. o + k \in Nat /\ o + k <= MAX_BYTES
        <5>1. MAX_BYTES \in Nat
          BY StreamAssumption
        <5>2. QED
          BY <1>6, <1>7, <1>11, <3>1, <5>1
      <4>2. QED
        BY <3>7, <4>1, BytesFacts
    <3>10. /\ app' \in Histories /\ app'.sent = app.sent /\ app'.fin = app.fin /\ app'.reset = app.reset
           /\ app'.eof = app.eof /\ app'.cut = app.cut /\ app'.got = g
      BY <1>2, <3>8, <3>9 DEF Histories
    <3>11. QED
      BY <2>1, <3>1, <3>7, <3>9, <3>10
  <2>2. CASE rcv.opened # 1
    BY <1>1, <1>2, <2>2
  <2>3. QED
    BY <2>1, <2>2
<1> HIDE DEF bytes
<1>17. StreamOK(t, snd.next, app')
  BY <1>9, <1>16 DEF StreamOK, FragsOK
<1>18. ReceiverOK(rcv', credit', app')
  <2>1. CASE rcv.opened = 1
    <3>1. /\ credit.consumed = s.off /\ Len(app.got) = s.off
          /\ app.eof => Len(app.got) = Len(app.sent) \/ app.reset \/ app.cut
      BY <1>1, <1>4, <2>1 DEF ReceiverOK
    <3>2. ~app.eof \/ app.reset \/ app.cut
      <4>1. s.off < s.off + k
        BY <1>1, <1>5, <1>6
      <4>2. PICK a, b, c \in Nat : a = s.off /\ b = s.off + k /\ c = Len(app.sent)
        <5>1. s.off + k \in Nat
          BY <1>5, <1>6
        <5>2. QED
          BY <1>5, <1>7, <5>1
      <4>3. a < b /\ b <= c
        BY <1>11, <4>1, <4>2
      <4>4. a # c
        BY <4>3
      <4>5. QED
        BY <3>1, <4>2, <4>4
    <3>3. /\ app'.got = Bytes(Len(app'.got)) /\ Len(app'.got) <= Len(app'.sent)
          /\ Len(app'.got) = t.off /\ credit'.consumed = t.off
      BY <1>10, <1>11, <1>15, <1>16, <2>1, <3>1
    <3>4. QED
      BY <1>1, <1>12, <1>16, <2>1, <3>2, <3>3 DEF ReceiverOK
  <2>2. CASE rcv.opened # 1
    <3>1. rcv.opened # 0
      BY <1>1, <1>4 DEF ReceiverOK
    <3>2. QED
      BY <1>1, <1>4, <1>12, <1>16, <2>2, <3>1 DEF ReceiverOK
  <2>3. QED
    BY <2>1, <2>2
<1>19. AcksOK(snd, rcv', acked, app')
  <2>1. ASSUME NEW i \in Int, Taken(rcv, app, i) PROVE Taken(rcv', app', i)
    <3>1. CASE rcv.opened = 1
      <4>1. Len(app.got) = s.off /\ Len(app'.got) = s.off + k
        BY <1>1, <1>4, <1>16, <3>1 DEF ReceiverOK
      <4>2. i < s.off + k \/ i >= s.off + k
        BY <1>5, <1>6
      <4>3. CASE i < s.off + k
        BY <4>1, <4>3 DEF Taken
      <4>4. CASE i >= s.off + k
        <5>1. ~(i < Len(app.got))
          BY <1>5, <1>6, <4>1, <4>4
        <5>2. Covered(s.frags, i)
          BY <2>1, <5>1 DEF Taken
        <5>3. QED
          BY <1>10, <1>12, <3>1, <4>4, <5>2 DEF Taken
      <4>5. QED
        BY <4>2, <4>3, <4>4
    <3>2. CASE rcv.opened # 1
      BY <1>16, <2>1, <3>2 DEF Taken
    <3>3. QED
      BY <3>1, <3>2
  <2>2. snd.ackedOff \in Nat /\ snd.ranges \in SUBSET Nat
    BY <1>2, SenderFacts
  <2>3. \A f \in acked : f.off \in Nat /\ EndOf(f) \in Nat
    BY <1>2, FrameFacts
  <2>4. SUFFICES ASSUME ~app.reset, ~app.cut
                 PROVE  /\ \A i \in 0..(snd.ackedOff - 1) : Taken(rcv', app', i)
                        /\ \A i \in snd.ranges : Taken(rcv', app', i)
                        /\ \A f \in acked : \A i \in f.off..(EndOf(f) - 1) : Taken(rcv', app', i)
    BY <1>16 DEF AcksOK
  <2>5. /\ \A i \in 0..(snd.ackedOff - 1) : Taken(rcv, app, i)
        /\ \A i \in snd.ranges : Taken(rcv, app, i)
        /\ \A f \in acked : \A i \in f.off..(EndOf(f) - 1) : Taken(rcv, app, i)
    BY <1>4, <2>4 DEF AcksOK
  <2>6. \A i \in 0..(snd.ackedOff - 1) : Taken(rcv', app', i)
    BY <2>1, <2>2, <2>5
  <2>7. \A i \in snd.ranges : Taken(rcv', app', i)
    BY <2>1, <2>2, <2>5
  <2>8. ASSUME NEW f \in acked, NEW i \in f.off..(EndOf(f) - 1) PROVE Taken(rcv', app', i)
    <3>1. i \in Int
      BY <2>3
    <3>2. QED
      BY <2>1, <2>5, <3>1
  <2>9. QED
    BY <2>6, <2>7, <2>8
<1>20. ReceiveSide(rcv', credit', snd, acked', app')
  <2>1. acked' = acked
    BY <1>1
  <2>2. QED
    BY <1>12, <1>17, <1>18, <1>19, <2>1 DEF ReceiveSide
<1>21. /\ UNCHANGED snd /\ net' \in SUBSET net /\ acked' \in SUBSET (acked \cup net)
       /\ aborted' \in BOOLEAN
  BY <1>1, <1>2
<1>22. QED
  BY <1>13, <1>15, <1>16, <1>20, <1>21, ReceiverMoves

\* A STREAM_DATA_BLOCKED is answered with the credit given already.
LEMMA BlockedStep ==
  ASSUME Inv, NEW c \in ctl, NEW blocked \in BOOLEAN, OnBlocked(c, blocked)
  PROVE  Inv'
<1>1. /\ Fault(blocked) /\ UNCHANGED <<snd, rcv, net, acked, aborted, app>>
      /\ ctl' = (ctl \ {c}) \cup (IF blocked THEN {} ELSE {MaxStreamData(credit.advertised)})
      /\ credit' = [credit EXCEPT !.told = @ \/ ~blocked]
  BY DEF OnBlocked
<1>2. /\ credit \in Credits /\ app \in Histories /\ ctl \in SUBSET Controls
      /\ faults \in 0..FAULTS /\ aborted \in BOOLEAN
  BY TypedFacts
<1>3. PICK told \in BOOLEAN : told = (credit.told \/ ~blocked)
  OBVIOUS
<1>4. credit' = [credit EXCEPT !.told = told]
  BY <1>1, <1>3
<1>5. /\ credit' \in Credits /\ credit'.consumed = credit.consumed
      /\ credit'.advertised = credit.advertised /\ credit.advertised \in Nat
  BY <1>2, <1>4 DEF Credits
<1>6. credit.advertised <= WINDOW + credit.consumed
  BY DEF Inv, CreditOK
<1>7. ctl' \in SUBSET Controls
  BY <1>1, <1>2, <1>5 DEF Controls, MaxStreamData
<1>8. \A m \in ctl' : m \in ctl \/ (m.type = "MaxStreamData" /\ m.value <= credit'.advertised)
  BY <1>1, <1>5 DEF MaxStreamData
<1>9. ReceiveSide(rcv', credit', snd, acked', app')
  <2>1. ReceiveSide(rcv, credit, snd, acked, app)
    BY BothSides
  <2>2. ReceiveSide(rcv, credit', snd, acked, app)
    BY <1>5, <2>1 DEF ReceiveSide, ReceiverOK
  <2>3. QED
    BY <1>1, <2>2
<1>10. faults' \in 0..FAULTS
  BY <1>1, <1>2, FaultFacts
<1>11. /\ UNCHANGED snd /\ net' \in SUBSET net /\ acked' \in SUBSET (acked \cup net)
       /\ aborted' \in BOOLEAN /\ app' \in Histories /\ app'.sent = app.sent /\ app'.fin = app.fin
       /\ app'.reset = app.reset /\ (app.cut => app'.cut)
  BY <1>1, <1>2
<1>12. credit.advertised <= credit'.advertised /\ credit'.advertised <= WINDOW + credit'.consumed
  BY <1>5, <1>6
<1>13. QED
  BY <1>5, <1>7, <1>8, <1>9, <1>10, <1>11, <1>12, ReceiverMoves

\* The reader resets the stream: what it holds is dropped, and the history says so.
LEMMA ReaderResetStep ==
  ASSUME Inv, resetBack
  PROVE  Inv'
<1>1. /\ rcv.exists /\ Fault(TRUE) /\ ctl' = ctl \cup {ResetBack}
      /\ rcv' = [rcv EXCEPT !.stream = [@ EXCEPT !.frags = {}, !.buffered = 0, !.peerFin = TRUE,
                                                 !.finQueued = TRUE, !.finSent = TRUE]]
      /\ app' = [app EXCEPT !.cut = TRUE]
      /\ UNCHANGED <<snd, credit, net, acked, aborted>>
  BY DEF resetBack
<1>2. /\ rcv \in Receivers /\ rcv.stream \in Streams /\ app \in Histories /\ credit \in Credits
      /\ ctl \in SUBSET Controls /\ faults \in 0..FAULTS /\ aborted \in BOOLEAN
  BY TypedFacts
<1>3. /\ app' \in Histories /\ app'.sent = app.sent /\ app'.fin = app.fin /\ app'.reset = app.reset
      /\ app'.got = app.got /\ app'.eof = app.eof /\ app'.cut = TRUE
  BY <1>1, <1>2 DEF Histories
<1>4. PICK t : t = [rcv.stream EXCEPT !.frags = {}, !.buffered = 0, !.peerFin = TRUE,
                                      !.finQueued = TRUE, !.finSent = TRUE]
  OBVIOUS
<1>5. /\ t \in Streams /\ t.off = rcv.stream.off /\ t.frags = {} /\ t.buffered = 0
      /\ t.reset = rcv.stream.reset
  <2>1. 0 \in 0..RECV_LIMIT
    BY StreamAssumption
  <2>2. QED
    BY <1>2, <1>4, <2>1 DEF Streams
<1>6. /\ rcv' \in Receivers /\ rcv'.stream = t /\ rcv'.exists = rcv.exists
      /\ rcv'.opened = rcv.opened
  <2>1. rcv' = [rcv EXCEPT !.stream = t]
    BY <1>1, <1>4
  <2>2. QED
    BY <1>2, <1>5, <2>1 DEF Receivers
<1>7. StreamOK(rcv.stream, snd.next, app) /\ ReceiverOK(rcv, credit, app)
  BY DEF Inv
<1>8. StreamOK(t, snd.next, app')
  <2>1. t.off <= snd.next /\ (t.reset => app'.reset)
    BY <1>3, <1>5, <1>7 DEF StreamOK
  <2>2. FragsOK({}, t.off, snd.next, app') /\ 0 = Cardinality({i \in Held({}) : i >= t.off})
    BY EmptyFrags
  <2>3. QED
    BY <1>3, <1>5, <2>1, <2>2 DEF StreamOK
<1>9. ReceiverOK(rcv', credit, app')
  BY <1>1, <1>3, <1>5, <1>6, <1>7 DEF ReceiverOK
<1>10. AcksOK(snd, rcv', acked, app')
  BY <1>3 DEF AcksOK
<1>11. ReceiveSide(rcv', credit', snd, acked', app')
  <2>1. ReceiveSide(rcv', credit, snd, acked, app')
    BY <1>6, <1>8, <1>9, <1>10 DEF ReceiveSide
  <2>2. QED
    BY <1>1, <2>1
<1>12. /\ ctl' \in SUBSET Controls
       /\ \A m \in ctl' : m \in ctl \/ (m.type = "ResetBack" /\ app'.cut)
  BY <1>1, <1>2, <1>3 DEF Controls, ResetBack
<1>13. /\ credit' \in Credits /\ credit.advertised <= credit'.advertised
       /\ credit'.advertised <= WINDOW + credit'.consumed
  <2>1. credit.advertised \in Nat /\ credit.advertised <= WINDOW + credit.consumed
    BY <1>2 DEF Credits, Inv, CreditOK
  <2>2. QED
    BY <1>1, <1>2, <2>1
<1>14. faults' \in 0..FAULTS
  BY <1>1, <1>2, FaultFacts
<1>15. /\ UNCHANGED snd /\ net' \in SUBSET net /\ acked' \in SUBSET (acked \cup net)
       /\ aborted' \in BOOLEAN
  BY <1>1, <1>2
<1>16. QED
  BY <1>3, <1>11, <1>12, <1>13, <1>14, <1>15, ReceiverMoves

----------------------------------------------------------------------------
\* The invariant

\* Inv holds when the connection is established.
LEMMA InitInv ==
  ASSUME Init
  PROVE  Inv
<1>1. PICK initiator \in BOOLEAN :
        rcv = [stream |-> FreshStream, exists |-> initiator, initiator |-> initiator,
               opened |-> IF initiator THEN 1 ELSE 0]
  BY DEF Init
<1>2. /\ snd = [buffer |-> <<>>, queued |-> 0, inFlight |-> 0, next |-> 0, ackedOff |-> 0,
                ranges |-> {}, finQueued |-> FALSE, finSent |-> FALSE, limit |-> LIMIT,
                told |-> FALSE, asked |-> FALSE]
      /\ credit = [consumed |-> 0, advertised |-> WINDOW, told |-> FALSE, refused |-> FALSE]
      /\ net = {} /\ ctl = {} /\ acked = {} /\ faults = FAULTS /\ aborted = FALSE
      /\ app = [sent |-> <<>>, fin |-> FALSE, reset |-> FALSE, got |-> <<>>, eof |-> FALSE,
                cut |-> FALSE]
  BY DEF Init
<1>3. /\ <<>> \in Seq(1..MAX_BYTES) /\ Len(<<>>) = 0 /\ 0 \in 0..CAP /\ 0 \in 0..MAX_BYTES
      /\ LIMIT \in Nat /\ WINDOW \in Nat /\ FAULTS \in 0..FAULTS /\ CAP \in Nat /\ MAX_BYTES \in Nat
  BY StreamAssumption
<1>4. Bytes(0) = <<>>
  BY DEF Bytes
<1>5. /\ FreshStream \in Streams /\ StreamOK(FreshStream, 0, app) /\ FreshStream.off = 0
  BY FreshFacts
<1>6. snd \in Senders
  BY <1>2, <1>3 DEF Senders
<1>7. rcv \in Receivers
  BY <1>1, <1>5 DEF Receivers
<1>8. credit \in Credits
  BY <1>2, <1>3 DEF Credits
<1>9. app \in Histories
  BY <1>2, <1>3 DEF Histories
<1>10. Typed
  BY <1>2, <1>3, <1>6, <1>7, <1>8, <1>9 DEF Typed
<1>11. /\ snd.buffer = <<>> /\ snd.queued = 0 /\ snd.inFlight = 0 /\ snd.next = 0 /\ snd.ackedOff = 0
       /\ snd.ranges = {} /\ snd.finQueued = FALSE /\ snd.limit = LIMIT
       /\ credit.consumed = 0 /\ credit.advertised = WINDOW
       /\ app.sent = <<>> /\ app.fin = FALSE /\ app.reset = FALSE /\ app.got = <<>> /\ app.eof = FALSE
       /\ rcv.stream = FreshStream /\ rcv.exists = initiator
       /\ rcv.opened = IF initiator THEN 1 ELSE 0
  BY <1>1, <1>2
<1>12. SenderOK(snd, app)
  <2>1. Len(app.sent) = 0 /\ Len(snd.buffer) = 0
    BY <1>3, <1>11
  <2>2. /\ snd.ackedOff <= snd.next /\ snd.next <= Len(app.sent) /\ Len(snd.buffer) <= CAP
        /\ Len(app.sent) <= MAX_BYTES
    BY <1>3, <1>11, <2>1
  <2>3. app.sent = Bytes(Len(app.sent)) /\ snd.ranges \subseteq snd.ackedOff..(snd.next - 1)
    BY <1>4, <1>11, <2>1
  <2>4. /\ snd.finQueued = app.fin /\ snd.inFlight = snd.next - snd.ackedOff
        /\ Len(snd.buffer) = snd.queued + snd.inFlight
        /\ Len(app.sent) = snd.ackedOff + Len(snd.buffer)
        /\ \A i \in 1..Len(snd.buffer) : snd.buffer[i] = snd.ackedOff + i
    <3>1. \A i \in 1..Len(snd.buffer) : FALSE
      BY <2>1
    <3>2. 0 = 0 - 0 /\ 0 = 0 + 0
      OBVIOUS
    <3>3. snd.finQueued = app.fin
      BY <1>11, Zenon
    <3>4. QED
      BY <1>11, <2>1, <3>1, <3>2, <3>3, Zenon
  <2>5. QED
    BY <1>11, <2>2, <2>3, <2>4 DEF SenderOK
<1>13. ReceiverOK(rcv, credit, app)
  BY <1>3, <1>4, <1>5, <1>11 DEF ReceiverOK
<1>14. CreditOK(snd, credit, ctl)
  BY <1>2, <1>3, <1>11 DEF CreditOK, Larger
<1>15. AcksOK(snd, rcv, acked, app)
  BY <1>2, <1>11 DEF AcksOK
<1>16. QED
  <2>1. StreamOK(rcv.stream, snd.next, app)
    BY <1>5, <1>11
  <2>2. /\ \A f \in net \cup acked : FrameOK(f, snd.next, app)
        /\ \A m \in ctl : (m.type = "Reset" => app.reset) /\ (m.type = "ResetBack" => app.cut)
    BY <1>2
  <2>3. QED
    BY <1>10, <1>12, <1>13, <1>14, <1>15, <2>1, <2>2, Zenon DEF Inv

\* Every step keeps Inv.
LEMMA NextInv ==
  ASSUME Inv, Next
  PROVE  Inv'
<1>1. CASE Write
  BY <1>1, WriteStep DEF Write
<1>2. CASE flushPendingSends
  BY <1>2, FlushStep
<1>3. CASE Split
  BY <1>3, SplitStep DEF Split
<1>4. CASE reset
  BY <1>4, ResetStep
<1>5. CASE Deliver
  BY <1>5, DeliverStep DEF Deliver
<1>6. CASE Control
  BY <1>6, MaxStreamDataStep, ResetFrameStep, ResetBackFrameStep, BlockedStep DEF Control
<1>7. CASE Ack
  BY <1>7, AckStep DEF Ack
<1>8. CASE Read
  BY <1>8, ReadStep DEF Read
<1>9. CASE ReadEnd
  BY <1>9, ReadEndStep
<1>10. CASE close
  BY <1>10, CloseStep
<1>11. CASE FlushFin
  BY <1>11, FlushFinStep
<1>12. CASE collectClosedStreams
  BY <1>12, CollectStep
<1>13. CASE resetBack
  BY <1>13, ReaderResetStep
<1>14. QED
  BY <1>1, <1>2, <1>3, <1>4, <1>5, <1>6, <1>7, <1>8, <1>9, <1>10, <1>11, <1>12, <1>13 DEF Next

\* The two halves of a stream, what is under way between them, the credit and
\* what the applications saw agree after every step of either.
THEOREM Invariance == Spec => []Inv
<1>1. Inv /\ [Next]_vars => Inv'
  <2>1. ASSUME Inv, UNCHANGED vars PROVE Inv'
    BY <2>1 DEF vars, Inv, Typed
  <2> QED
    BY <2>1, NextInv
<1> QED
  BY <1>1, InitInv, PTL DEF Spec

\* write, flushPendingSends, onPacketAcked and reset keep the three counts of
\* the send half together: each byte is sent from its place in the buffer.
THEOREM BufferKept == Spec => []BufferAgrees
<1>1. ASSUME Inv PROVE BufferAgrees
  <2>1. /\ snd \in Senders /\ rcv.stream \in Streams /\ app \in Histories /\ net \in SUBSET Frames
        /\ acked \in SUBSET Frames /\ faults \in 0..FAULTS /\ aborted \in BOOLEAN
    BY <1>1, TypedFacts
  <2>2. SenderOK(snd, app)
    BY <1>1 DEF Inv
  <2>3. /\ snd.buffer \in Seq(1..MAX_BYTES) /\ snd.queued \in 0..CAP /\ snd.inFlight \in 0..CAP
        /\ snd.next \in 0..MAX_BYTES /\ snd.ackedOff \in 0..MAX_BYTES
        /\ snd.finQueued \in BOOLEAN /\ snd.finSent \in BOOLEAN
    BY <2>1 DEF Senders
  <2>4. /\ rcv.stream.off \in 0..MAX_BYTES /\ rcv.stream.buffered \in 0..RECV_LIMIT
        /\ rcv.stream.frags \subseteq Frames
    BY <2>1 DEF Streams
  <2>5. /\ snd.ackedOff <= snd.next /\ Len(snd.buffer) <= CAP /\ snd.next <= Len(app.sent)
        /\ snd.ranges \subseteq snd.ackedOff..(snd.next - 1)
        /\ app.sent = Bytes(Len(app.sent)) /\ Len(app.sent) <= MAX_BYTES
    BY <2>2 DEF SenderOK
  <2>6. snd.ackedOff \in 0..snd.next /\ snd.ranges \subseteq snd.ackedOff..snd.next
    BY <2>3, <2>5, StreamAssumption
  <2>7. TypeOK
    BY <2>1, <2>3, <2>4, <2>5, <2>6 DEF TypeOK
  <2>8. ASSUME ~app.reset
        PROVE  /\ snd.inFlight = snd.next - snd.ackedOff
               /\ Len(snd.buffer) = snd.queued + snd.inFlight
               /\ snd.buffer = SubSeq(app.sent, snd.ackedOff + 1, Len(app.sent))
    <3>1. /\ snd.inFlight = snd.next - snd.ackedOff
          /\ Len(snd.buffer) = snd.queued + snd.inFlight
          /\ Len(app.sent) = snd.ackedOff + Len(snd.buffer)
          /\ \A i \in 1..Len(snd.buffer) : snd.buffer[i] = snd.ackedOff + i
      BY <2>2, <2>8 DEF SenderOK
    <3>2. PICK a, b, e \in Nat : a = snd.ackedOff /\ b = Len(snd.buffer) /\ e = Len(app.sent)
      <4>1. snd.ackedOff \in Nat /\ Len(snd.buffer) \in Nat /\ Len(app.sent) \in Nat
        BY <2>1, SenderFacts, HistoryFacts
      <4>2. QED
        BY <4>1, Zenon
    <3>3. e = a + b /\ a <= e /\ e - a = b
      BY <3>1, <3>2
    <3>4. PICK q \in Seq(1..MAX_BYTES) : q = app.sent
      BY <2>1, HistoryFacts
    <3>5. PICK p : p = Part(q, a, e)
      OBVIOUS
    <3>6. p \in Seq(1..MAX_BYTES) /\ Len(p) = b /\ \A i \in 1..b : p[i] = q[a + i]
      <4>0. Len(q) = e
        BY <3>2, <3>4
      <4>1. a <= e /\ e <= Len(q)
        BY <3>3, <4>0
      <4>2. /\ Part(q, a, e) \in Seq(1..MAX_BYTES) /\ Len(Part(q, a, e)) = e - a
            /\ \A i \in 1..(e - a) : Part(q, a, e)[i] = q[a + i]
        BY <4>1, Cut
      <4>3. QED
        BY <3>3, <3>5, <4>2
    <3>b. PICK c \in Seq(1..MAX_BYTES) : c = snd.buffer /\ Len(c) = b
      BY <2>3, <3>2
    <3>7. ASSUME NEW i \in 1..b PROVE p[i] = c[i]
      <4>1. a + i \in 1..e
        BY <3>3
      <4>2. e <= MAX_BYTES /\ q = Bytes(e)
        BY <2>5, <3>2, <3>4
      <4>3. q[a + i] = a + i
        BY <4>1, <4>2, BytesFacts
      <4>4. QED
        BY <3>1, <3>2, <3>6, <3>b, <4>3
    <3>8. p = c
      BY <3>6, <3>7, <3>b
    <3>9. p = SubSeq(app.sent, snd.ackedOff + 1, Len(app.sent))
      BY <3>2, <3>4, <3>5 DEF Part
    <3>10. QED
      BY <3>1, <3>8, <3>9, <3>b
  <2>9. QED
    BY <2>7, <2>8 DEF BufferAgrees
<1> QED
  BY <1>1, Invariance, PTL

\* Whatever frames overlap, onFrame and read leave fragments that do not, and
\* m_recvBufferedBytes is what is left of them.
THEOREM FragmentsKept == Spec => []FragmentsAgree
<1>1. ASSUME Inv PROVE FragmentsAgree
  <2>1. rcv.stream \in Streams /\ StreamOK(rcv.stream, snd.next, app)
    BY <1>1, TypedFacts DEF Inv
  <2>2. /\ FragsOK(rcv.stream.frags, rcv.stream.off, snd.next, app)
        /\ rcv.stream.buffered = Cardinality({i \in Held(rcv.stream.frags) : i >= rcv.stream.off})
    BY <2>1, Zenon DEF StreamOK
  <2>3. \A p \in rcv.stream.frags : EndOf(p) > rcv.stream.off
    <3>1. ASSUME NEW p \in rcv.stream.frags PROVE EndOf(p) > rcv.stream.off
      <4>1. rcv.stream.off < EndOf(p)
        BY <2>2 DEF FragsOK
      <4>2. QED
        BY <4>1
    <3>2. QED
      BY <3>1
  <2>4. QED
    BY <2>2, <2>3, Zenon DEF FragmentsAgree, FragsOK
<1> QED
  BY <1>1, Invariance, PTL

\* onPacketAcked gives up only bytes that the other end holds or has read.
THEOREM NothingAckedLost == Spec => []AckedTaken
<1>1. ASSUME Inv PROVE AckedTaken
  <2>1. AcksOK(snd, rcv, acked, app)
    BY <1>1 DEF Inv
  <2>2. QED
    BY <2>1 DEF AcksOK, Taken, AckedTaken
<1> QED
  BY <1>1, Invariance, PTL

----------------------------------------------------------------------------
\* Flow control

\* When what may be kept fits, every run that is missing is inserted.
LEMMA AllFit ==
  ASSUME NEW s \in Streams, NEW next \in Nat, NEW h, StreamOK(s, next, h), NEW g \in Frames,
         s.off <= g.off, EndOf(g) <= next,
         \/ next - s.off <= RECV_LIMIT
         \/ s.frags = {} /\ EndOf(g) - g.off <= RECV_LIMIT
  PROVE  insertRecvFragments(s, g).ok
<1>1. PICK miss, fit : miss = Missing(s.frags, g) /\ fit = Fitting(s, miss)
  OBVIOUS
<1>2. insertRecvFragments(s, g).ok = (fit = EndsOf(miss))
  <2>1. PICK new : new = insertRecvFragments(s, g)
    OBVIOUS
  <2>2. Unfolded(new, g, miss, fit)
    BY <1>1, <2>1, InsertUnfolded, Zenon
  <2>3. new.ok = (fit = EndsOf(miss))
    BY <2>2, Zenon DEF Unfolded
  <2>4. QED
    BY <2>1, <2>3
<1>3. PICK a, o, e \in Nat : a = s.off /\ o = g.off /\ e = EndOf(g) /\ o <= e
  BY StreamFacts, FrameFacts DEF StreamFacts0
<1>4. a <= o /\ e <= next /\ a <= next /\ RECV_LIMIT \in Nat
  BY <1>3, StreamAssumption
<1>5. PICK S : S = {i \in Held(s.frags) : i >= s.off}
  OBVIOUS
<1>6. s.frags \in SUBSET Frames /\ s.buffered = Cardinality(S)
  BY <1>5, StreamFacts DEF StreamFacts0, StreamOK
<1>7. S \in SUBSET (a..(next - 1))
  <2>1. ASSUME NEW i \in S PROVE i \in a..(next - 1)
    <3>1. i >= s.off /\ i \in Held(s.frags)
      BY <1>5
    <3>2. PICK p \in s.frags : i \in p.off..(EndOf(p) - 1)
      BY <3>1 DEF Held
    <3>3. EndOf(p) <= next
      BY Zenon DEF StreamOK, FragsOK
    <3>4. EndOf(p) \in Nat /\ p.off \in Nat
      BY <1>6, FrameFacts
    <3>5. QED
      BY <1>3, <3>1, <3>2, <3>3, <3>4
  <2>2. QED
    BY <2>1
<1>8. miss \in SUBSET (o..(e - 1)) /\ \A j \in miss : ~Covered(s.frags, j)
  BY <1>1, <1>3 DEF Missing
<1>9. ASSUME NEW i \in EndsOf(miss) PROVE i \in fit
  <2>1. PICK low : low = {j \in miss : j <= i}
    OBVIOUS
  <2>2. low \in SUBSET (o..(e - 1)) /\ \A j \in low : ~Covered(s.frags, j)
    BY <1>8, <2>1
  <2>3. IsFiniteSet(low) /\ Cardinality(low) \in Nat /\ Cardinality(low) <= e - o
    BY <1>3, <2>2, BoundedCard
  <2>4. IsFiniteSet(S) /\ Cardinality(S) \in Nat
    BY <1>4, <1>7, BoundedCard
  <2>5. Cardinality(S) + Cardinality(low) <= RECV_LIMIT
    <3>1. CASE next - s.off <= RECV_LIMIT
      <4>1. S \cap low = {}
        <5>1. ASSUME NEW j \in S, j \in low PROVE FALSE
          <6>1. j \in Int /\ j \in Held(s.frags)
            BY <1>5, <1>7
          <6>2. Covered(s.frags, j)
            BY <1>6, <6>1, HeldFacts
          <6>3. QED
            BY <2>2, <5>1, <6>2
        <5>2. QED
          BY <5>1
      <4>2. S \cup low \in SUBSET (a..(next - 1))
        BY <1>3, <1>4, <1>7, <2>2
      <4>3. Cardinality(S \cup low) <= next - a /\ Cardinality(S \cup low) \in Nat
        <5>1. PICK U : U = S \cup low
          OBVIOUS
        <5>2. U \in SUBSET (a..(next - 1))
          BY <4>2, <5>1
        <5>3. Cardinality(U) <= next - a /\ Cardinality(U) \in Nat
          BY <1>4, <5>2, BoundedCard
        <5>4. QED
          BY <5>1, <5>3
      <4>4. Cardinality(S \cup low) = Cardinality(S) + Cardinality(low)
        BY <2>3, <2>4, <4>1, DisjointCard
      <4>5. QED
        BY <1>3, <1>4, <2>3, <2>4, <3>1, <4>3, <4>4
    <3>2. CASE s.frags = {} /\ EndOf(g) - g.off <= RECV_LIMIT
      <4>1. S = {}
        BY <1>5, <3>2 DEF Held
      <4>2. Cardinality(S) = 0
        BY <4>1, FS_EmptySet
      <4>3. QED
        BY <1>3, <1>4, <2>3, <3>2, <4>2
    <3>3. QED
      BY <3>1, <3>2
  <2>6. QED
    BY <1>1, <1>6, <2>1, <2>5 DEF Fitting
<1>10. fit \subseteq EndsOf(miss)
  BY <1>1 DEF Fitting
<1>11. fit = EndsOf(miss)
  BY <1>9, <1>10, Zenon
<1>12. QED
  BY <1>2, <1>11, Zenon

\* When what the sender starts with, the window of the receiver and the packets
\* are each no larger than kMaxRecvFragmentBytes (2 MB, where both windows are
\* 256 KB by default), insertRecvFragments never finds the limit reached by a
\* sender that keeps to its credit, however the two windows relate.
THEOREM RoomKept ==
  ASSUME LIMIT <= RECV_LIMIT, WINDOW <= RECV_LIMIT, MTU <= RECV_LIMIT
  PROVE  Spec => []NeverRefused
<1>1. ASSUME Inv PROVE NeverRefused
  <2>1. /\ snd \in Senders /\ rcv \in Receivers /\ rcv.stream \in Streams /\ credit \in Credits
        /\ app \in Histories /\ net \in SUBSET Frames
    BY <1>1, TypedFacts
  <2>2. /\ snd.next \in Nat /\ snd.limit \in Nat /\ credit.advertised \in Nat /\ credit.consumed \in Nat
        /\ LIMIT \in Nat /\ WINDOW \in Nat /\ RECV_LIMIT \in Nat /\ MTU \in Nat
    BY <2>1, SenderFacts, StreamAssumption DEF Credits
  <2>3. /\ Within(snd, credit)
        /\ credit.advertised <= WINDOW + credit.consumed
    BY <1>1 DEF Inv, CreditOK, Within
  <2>4. snd.next <= LIMIT \/ snd.next <= WINDOW + credit.consumed
    BY <2>2, <2>3 DEF Within, Larger
  <2>5. ASSUME rcv.opened = 1, NEW f \in net
        PROVE  onFrame(rcv.stream, f).status # "WouldBlock"
    <3>1. PICK s \in Streams : s = rcv.stream
      BY <2>1
    <3>2. f \in Frames /\ FrameOK(f, snd.next, app) /\ StreamOK(s, snd.next, app)
      BY <1>1, <2>1, <3>1 DEF Inv
    <3>3. SUFFICES ASSUME ~(Trim(s, f) > 0 /\ Trim(s, f) >= Len(f.data))
                   PROVE  FrameInserted(s, f).ok
      <4>1. PICK res : res = onFrame(s, f)
        OBVIOUS
      <4>2. ASSUME Trim(s, f) > 0 /\ Trim(s, f) >= Len(f.data) PROVE res.status # "WouldBlock"
        BY <4>1, <4>2, OnFrameUnfolded
      <4>3. ASSUME FrameInserted(s, f).ok PROVE res.status # "WouldBlock"
        BY <4>1, <4>3, OnFrameUnfolded
      <4>4. QED
        BY <3>1, <3>3, <4>1, <4>2, <4>3
    <3>4. PICK g : g = Trimmed(s, f)
      OBVIOUS
    <3>5. Carries(f) /\ EndOf(f) <= snd.next /\ Len(f.data) <= MTU
      BY <3>2 DEF FrameOK
    <3>6. g \in Frames /\ EndOf(g) = EndOf(f) /\ s.off <= g.off
      BY <3>2, <3>3, <3>4, <3>5, TrimFacts, Zenon
    <3>7. \/ snd.next - s.off <= RECV_LIMIT
          \/ s.frags = {} /\ EndOf(g) - g.off <= RECV_LIMIT
      <4>1. CASE rcv.exists
        <5>1. credit.consumed = s.off
          BY <1>1, <2>5, <3>1, <4>1 DEF Inv, ReceiverOK
        <5>2. s.off \in Nat
          BY <2>2, <5>1
        <5>3. QED
          BY <2>2, <2>4, <5>1, <5>2
      <4>2. CASE ~rcv.exists
        <5>1. s = FreshStream
          BY <1>1, <3>1, <4>2 DEF Inv, ReceiverOK
        <5>2. s.off = 0 /\ s.frags = {}
          BY <5>1 DEF FreshStream
        <5>3. /\ f.off \in Nat /\ Len(f.data) \in Nat /\ EndOf(f) = f.off + Len(f.data)
          BY <3>2, FrameFacts
        <5>4. Trim(s, f) = 0
          BY <5>2, <5>3 DEF Trim
        <5>5. g.off = f.off
          BY <3>4, <5>3, <5>4 DEF Trimmed, Frame
        <5>6. EndOf(g) - g.off <= RECV_LIMIT
          BY <2>2, <3>5, <3>6, <5>3, <5>5
        <5>7. QED
          BY <5>2, <5>6
      <4>3. QED
        BY <4>1, <4>2
    <3>8. EndOf(g) <= snd.next
      BY <3>5, <3>6
    <3>9. insertRecvFragments(s, g).ok
      BY <2>2, <3>2, <3>6, <3>7, <3>8, AllFit
    <3>10. QED
      BY <3>4, <3>9 DEF FrameInserted
  <2>6. QED
    BY <2>5 DEF NeverRefused
<1> QED
  BY <1>1, Invariance, PTL

----------------------------------------------------------------------------
\* The byte stream

\* A shorter stream of bytes is a prefix of a longer one.
LEMMA PrefixOfBytes ==
  ASSUME NEW m \in Nat, NEW n \in Nat, m <= n, n <= MAX_BYTES
  PROVE  ByteStream!IsPrefix(Bytes(m), Bytes(n))
<1>1. MAX_BYTES \in Nat /\ m <= MAX_BYTES
  BY StreamAssumption
<1>2. PICK p, q \in Seq(1..MAX_BYTES) : p = Bytes(m) /\ q = Bytes(n) /\ Len(p) = m /\ Len(q) = n
  BY <1>1, BytesFacts
<1>3. (\A i \in 1..m : p[i] = i) /\ (\A i \in 1..n : q[i] = i)
  BY <1>1, <1>2, BytesFacts
<1>4. PICK a, b : a = Part(p, 0, m) /\ b = Part(q, 0, m)
  OBVIOUS
<1>5. a \in Seq(1..MAX_BYTES) /\ Len(a) = m /\ \A i \in 1..m : a[i] = p[i]
  <2>1. /\ Part(p, 0, m) \in Seq(1..MAX_BYTES) /\ Len(Part(p, 0, m)) = m - 0
        /\ \A i \in 1..(m - 0) : Part(p, 0, m)[i] = p[0 + i]
    <3>1. 0 \in Nat /\ 0 <= m /\ m <= Len(p)
      BY <1>2
    <3>2. QED
      BY <3>1, Cut
  <2>2. QED
    BY <1>4, <2>1
<1>6. b \in Seq(1..MAX_BYTES) /\ Len(b) = m /\ \A i \in 1..m : b[i] = q[i]
  <2>1. /\ Part(q, 0, m) \in Seq(1..MAX_BYTES) /\ Len(Part(q, 0, m)) = m - 0
        /\ \A i \in 1..(m - 0) : Part(q, 0, m)[i] = q[0 + i]
    <3>1. 0 \in Nat /\ 0 <= m /\ m <= Len(q)
      BY <1>2
    <3>2. QED
      BY <3>1, Cut
  <2>2. QED
    BY <1>4, <2>1
<1>7. \A i \in 1..m : a[i] = b[i]
  BY <1>3, <1>5, <1>6
<1>8. a = b
  BY <1>5, <1>6, <1>7
<1>9. SubSeq(p, 1, Len(p)) = SubSeq(q, 1, Len(p)) /\ Len(p) <= Len(q)
  <2>1. a = SubSeq(p, 1, m) /\ b = SubSeq(q, 1, m)
    BY <1>4 DEF Part
  <2>2. QED
    BY <1>2, <1>8, <2>1
<1>10. QED
  BY <1>2, <1>9, Zenon DEF ByteStream!IsPrefix

\* A sequence over a set is one over a larger set.
LEMMA Widened ==
  ASSUME NEW S, NEW W, S \subseteq W, NEW q \in Seq(S)
  PROVE  q \in Seq(W)
<1>1. PICK n \in Nat : n = Len(q)
  OBVIOUS
<1>2. q \in [1..n -> S]
  BY <1>1
<1>3. q \in [1..n -> W]
  BY <1>2
<1>4. QED
  BY <1>3

\* What an application reads only grows.
LEMMA ReadGrows ==
  ASSUME Inv, NEW n \in 1..MAX_BYTES, NEW timely \in BOOLEAN, NEW blocked \in BOOLEAN,
         read(n, timely, blocked), Inv'
  PROVE  /\ app'.sent = app.sent /\ app'.fin = app.fin /\ app'.eof = app.eof
         /\ app'.reset = app.reset /\ app'.cut = app.cut
         /\ app'.got = app.got \/ Len(app.got) < Len(app'.got)
<1> DEFINE s == rcv.stream
           k == contiguousReadableBytes(s, n)
           bytes == [i \in 1..k |-> ByteOf(s.frags, s.off + i - 1)]
<1>1. k > 0 /\ app' = IF rcv.opened = 1 THEN [app EXCEPT !.got = @ \o bytes] ELSE app
  BY Zenon DEF read, ByteOf
<1>2. app \in Histories /\ app' \in Histories /\ rcv.stream \in Streams
  BY TypedFacts DEF Inv, Typed
<1>3. k \in Nat
  <2>1. n \in Nat /\ s.off \in Nat
    BY <1>2, StreamFacts DEF StreamFacts0
  <2>2. k \in 0..n
    BY <2>1, Contiguous
  <2>3. QED
    BY <2>1, <2>2
<1> HIDE DEF k
<1>4. CASE rcv.opened # 1
  BY <1>1, <1>4
<1>5. CASE rcv.opened = 1
  <2>1. app' = [app EXCEPT !.got = @ \o bytes]
    BY <1>1, <1>5
  <2>2. /\ app'.sent = app.sent /\ app'.fin = app.fin /\ app'.eof = app.eof
        /\ app'.reset = app.reset /\ app'.cut = app.cut
        /\ app'.got = app.got \o bytes
    BY <1>2, <2>1 DEF Histories
  <2>3. PICK V : bytes \in [1..k -> V] /\ app.got \in Seq(V)
    <3>1. PICK W : W = {bytes[i] : i \in 1..k} \cup (1..MAX_BYTES)
      OBVIOUS
    <3>2. bytes \in [1..k -> W]
      BY <3>1
    <3>3. app.got \in Seq(W)
      <4>1. app.got \in Seq(1..MAX_BYTES)
        BY <1>2, HistoryFacts
      <4>2. 1..MAX_BYTES \subseteq W
        BY <3>1
      <4>3. QED
        BY <4>1, <4>2, Widened
    <3>4. QED
      BY <3>2, <3>3
  <2> HIDE DEF bytes
  <2>4. bytes \in Seq(V) /\ Len(bytes) = k
    BY <1>3, <2>3
  <2>5. Len(app.got \o bytes) = Len(app.got) + k
    BY <2>3, <2>4, Joined
  <2>6. Len(app.got) \in Nat
    BY <1>2, HistoryFacts
  <2>7. Len(app.got) < Len(app'.got)
    BY <1>1, <1>3, <2>2, <2>5, <2>6
  <2>8. QED
    BY <2>2, <2>7
<1>6. QED
  BY <1>4, <1>5

\* Every step is a step of the byte stream or changes nothing it shows.
LEMMA ByteStep ==
  ASSUME Inv, Next, Inv'
  PROVE  [ByteStream!ByteNext]_(ByteStream!byteVars)
<1>1. app \in Histories /\ app' \in Histories
  BY TypedFacts DEF Inv, Typed
<1>2. /\ Len(app.sent) \in Nat /\ Len(app.got) \in Nat /\ Len(app'.sent) \in Nat /\ Len(app'.got) \in Nat
      /\ app.fin \in BOOLEAN /\ app'.fin \in BOOLEAN
  BY <1>1, HistoryFacts
<1>3. /\ app.sent = Bytes(Len(app.sent)) /\ app'.sent = Bytes(Len(app'.sent))
      /\ Len(app.sent) <= MAX_BYTES /\ Len(app'.sent) <= MAX_BYTES /\ (app.fin => snd.finQueued)
  BY DEF Inv, SenderOK
<1>4. /\ app.got = Bytes(Len(app.got)) /\ app'.got = Bytes(Len(app'.got))
      /\ Len(app'.got) <= Len(app'.sent)
      /\ app.eof => Len(app.got) = Len(app.sent) \/ app.reset \/ app.cut
      /\ app'.eof => (app'.fin /\ Len(app'.got) = Len(app'.sent)) \/ app'.reset \/ app'.cut
  BY DEF Inv, ReceiverOK
<1>5. SUFFICES \/ ByteStream!Put \/ ByteStream!Take \/ ByteStream!End \/ ByteStream!Break
               \/ /\ app'.sent = app.sent /\ app'.fin = app.fin
                  /\ app'.got = app.got /\ app'.eof = app.eof
                  /\ app'.reset = app.reset /\ app'.cut = app.cut
  BY DEF ByteStream!ByteNext, ByteStream!byteVars
<1>6. CASE Write
  <2>1. PICK n \in 0..CAP, fin \in BOOLEAN : write(n, fin)
    BY <1>6 DEF Write
  <2>2. PICK all : all = Bytes(Len(app.sent) + n)
    OBVIOUS
  <2>3. ~snd.finQueued /\ app' = [app EXCEPT !.sent = all, !.fin = fin]
    BY <2>1, <2>2 DEF write
  <2>4. /\ app'.sent = all /\ app'.got = app.got /\ app'.eof = app.eof
        /\ app'.reset = app.reset /\ app'.cut = app.cut
    BY <1>1, <2>3 DEF Histories
  <2>5. Len(app.sent) + n \in Nat /\ Len(app.sent) + n <= MAX_BYTES /\ Len(app.sent) <= Len(app.sent) + n
    <3>1. Len(app.sent) + n <= MAX_BYTES
      BY <2>1 DEF write
    <3>2. QED
      BY <1>2, <3>1
  <2>6. ByteStream!IsPrefix(app.sent, app'.sent)
    <3>1. ByteStream!IsPrefix(Bytes(Len(app.sent)), Bytes(Len(app.sent) + n))
      BY <1>2, <2>5, PrefixOfBytes
    <3>2. QED
      BY <1>3, <2>2, <2>4, <3>1
  <2>7. QED
    BY <1>2, <1>3, <2>3, <2>4, <2>6 DEF ByteStream!Put
<1>7. CASE Read
  <2>1. PICK n \in 1..MAX_BYTES, timely \in BOOLEAN, blocked \in BOOLEAN : read(n, timely, blocked)
    BY <1>7 DEF Read
  <2>2. /\ app'.sent = app.sent /\ app'.fin = app.fin /\ app'.eof = app.eof
        /\ app'.reset = app.reset /\ app'.cut = app.cut
        /\ app'.got = app.got \/ Len(app.got) < Len(app'.got)
    BY <2>1, ReadGrows
  <2>3. CASE app'.got = app.got
    BY <2>2, <2>3
  <2>4. CASE Len(app.got) < Len(app'.got)
    <3>1. PICK a, b, c \in Nat : a = Len(app.got) /\ b = Len(app'.got) /\ c = Len(app.sent)
      BY <1>2, Zenon
    <3>2. a < b /\ b <= c /\ c <= MAX_BYTES
      BY <1>3, <1>4, <2>2, <2>4, <3>1
    <3>3. ~app.eof \/ app.reset \/ app.cut
      BY <1>4, <3>1, <3>2
    <3>4. a <= b /\ b <= MAX_BYTES
      BY <3>2, StreamAssumption
    <3>5. ByteStream!IsPrefix(Bytes(a), Bytes(b)) /\ ByteStream!IsPrefix(Bytes(b), Bytes(c))
      BY <3>2, <3>4, PrefixOfBytes
    <3>6. ByteStream!IsPrefix(app.got, app'.got) /\ ByteStream!IsPrefix(app'.got, app.sent)
      BY <1>3, <1>4, <3>1, <3>5
    <3>7. QED
      BY <2>2, <3>3, <3>6 DEF ByteStream!Take
  <2>5. QED
    BY <2>2, <2>3, <2>4
<1>8. CASE ReadEnd
  <2>1. app' = app \/ app' = [app EXCEPT !.eof = TRUE]
    BY <1>8 DEF ReadEnd
  <2>2. CASE app' = app
    BY <2>2
  <2>3. CASE app' = [app EXCEPT !.eof = TRUE]
    <3>1. /\ app'.sent = app.sent /\ app'.fin = app.fin /\ app'.got = app.got /\ app'.eof = TRUE
          /\ app'.reset = app.reset /\ app'.cut = app.cut
      BY <1>1, <2>3 DEF Histories
    <3>2. (app.fin /\ app.got = app.sent) \/ app.reset \/ app.cut
      BY <1>3, <1>4, <3>1
    <3>3. QED
      BY <3>1, <3>2 DEF ByteStream!End
  <2>4. QED
    BY <2>1, <2>2, <2>3
<1>9. ASSUME app' = [app EXCEPT !.reset = TRUE] \/ app' = [app EXCEPT !.cut = TRUE]
      PROVE  ByteStream!Break
  <2>1. /\ app'.sent = app.sent /\ app'.fin = app.fin /\ app'.got = app.got /\ app'.eof = app.eof
        /\ app'.reset = TRUE \/ app'.cut = TRUE
    BY <1>1, <1>9 DEF Histories
  <2>2. (app.reset \/ app.cut)' = TRUE
    BY <2>1
  <2>3. QED
    BY <2>1, <2>2 DEF ByteStream!Break
<1>r. CASE reset \/ resetBack
  BY <1>9, <1>r DEF reset, resetBack
<1>c. CASE Control
  <2>1. PICK m \in ctl :
          \/ handleMaxStreamDataFrame(m) \/ handleResetStreamFrame(m) \/ OnResetBack(m)
          \/ \E blocked \in BOOLEAN : OnBlocked(m, blocked)
    BY <1>c DEF Control
  <2>2. CASE OnResetBack(m)
    BY <1>9, <2>2 DEF OnResetBack
  <2>3. CASE ~OnResetBack(m)
    <3>1. app' = app
      BY <2>1, <2>3 DEF handleMaxStreamDataFrame, handleResetStreamFrame, OnBlocked
    <3>2. QED
      BY <3>1
  <2>4. QED
    BY <2>2, <2>3
<1>10. CASE \/ flushPendingSends \/ Split \/ Deliver \/ Ack
            \/ close \/ FlushFin \/ collectClosedStreams
  <2>1. flushPendingSends \/ Split => app' = app
    BY DEF flushPendingSends, Split, retransmitSplitStreamPacket
  <2>2. Deliver => app' = app
    BY DEF Deliver, ingestStreamFrame
  <2>3. Ack \/ close \/ FlushFin \/ collectClosedStreams => app' = app
    BY DEF Ack, AckArrives, close, FlushFin, collectClosedStreams
  <2>4. QED
    BY <1>10, <2>1, <2>2, <2>3
<1>11. QED
  BY <1>6, <1>7, <1>8, <1>r, <1>c, <1>10 DEF Next

\* One direction of a stream, whatever is late, doubled, cut, reset or
\* collected, is a byte stream: bytes are read in order and once, and the end
\* is told when all were or one end has reset the stream.
THEOREM Refinement == Spec => ImplementsByteStream
<1>1. Init => ByteStream!ByteInit
  BY DEF Init, ByteStream!ByteInit
<1>2. ASSUME Inv, Inv', [Next]_vars PROVE [ByteStream!ByteNext]_(ByteStream!byteVars)
  <2>1. CASE UNCHANGED vars
    BY <2>1 DEF vars, ByteStream!byteVars
  <2>2. QED
    BY <1>2, <2>1, ByteStep
<1>3. QED
  BY <1>1, <1>2, Invariance, PTL DEF Spec, ImplementsByteStream, ByteStream!ByteSpec
=============================================================================
