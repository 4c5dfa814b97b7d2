---------------------------- MODULE UtpAck_proofs ----------------------------
(***************************************************************************)
(* What holds of acknowledgements and of loss recovery for every number of *)
(* packets, payloads, faults and intervals: UtpAck's inductive invariant,  *)
(* the properties that follow from it, and the refinement of UtpAckSet.    *)
(***************************************************************************)
EXTENDS UtpAck, UtpHistory_proofs, FiniteSetTheorems

----------------------------------------------------------------------------
\* Packets in the order of their numbers

Rank(S, p) == Cardinality({q \in S : q.pn < p.pn})

\* The ranks of finitely many packets with different numbers are 0, 1, 2...,
\* each taken once.
LEMMA Ranks ==
  ASSUME NEW S, IsFiniteSet(S), \A p \in S : p.pn \in Int, \A p, q \in S : p.pn = q.pn => p = q
  PROVE  /\ Cardinality(S) \in Nat
         /\ \A p \in S : Rank(S, p) \in 0..(Cardinality(S) - 1)
         /\ \A p, q \in S : Rank(S, p) = Rank(S, q) => p = q
         /\ \A i \in 0..(Cardinality(S) - 1) : \E p \in S : Rank(S, p) = i
<1> DEFINE n == Cardinality(S)
           Below(p) == {q \in S : q.pn < p.pn}
           f == [p \in S |-> Rank(S, p)]
<1>1. n \in Nat
  BY FS_CardinalityType
<1>2. ASSUME NEW T \in SUBSET S
      PROVE  IsFiniteSet(T) /\ Cardinality(T) \in Nat
  BY FS_Subset, FS_CardinalityType
<1>3. ASSUME NEW p \in S
      PROVE  Rank(S, p) \in 0..(n - 1)
  <2>1. Below(p) \in SUBSET S /\ Below(p) # S
    BY DEF Below
  <2>2. Cardinality(Below(p)) \in Nat /\ Cardinality(Below(p)) <= n /\ Cardinality(Below(p)) # n
    BY <1>2, <2>1, FS_Subset
  <2>3. QED
    BY <1>1, <2>2 DEF Rank
<1>4. ASSUME NEW p \in S, NEW q \in S, p.pn < q.pn
      PROVE  Rank(S, p) < Rank(S, q)
  <2>1. Below(p) \in SUBSET Below(q) /\ p \in Below(q) /\ p \notin Below(p)
    <3>1. ASSUME NEW r \in Below(p) PROVE r \in Below(q)
      <4>1. r \in S /\ r.pn \in Int /\ p.pn \in Int /\ q.pn \in Int /\ r.pn < p.pn
        OBVIOUS
      <4>2. r.pn < q.pn
        BY <1>4, <4>1
      <4>3. QED
        BY <4>1, <4>2
    <3>2. p \in Below(q)
      BY <1>4
    <3>3. p.pn \in Int /\ ~(p.pn < p.pn)
      OBVIOUS
    <3>4. QED
      BY <3>1, <3>2, <3>3
  <2>2. IsFiniteSet(Below(q)) /\ Cardinality(Below(q)) \in Nat /\ Cardinality(Below(p)) \in Nat
    BY <1>2
  <2> HIDE DEF Below
  <2>3. Cardinality(Below(p)) <= Cardinality(Below(q)) /\ Cardinality(Below(p)) # Cardinality(Below(q))
    BY <2>1, <2>2, FS_Subset
  <2>4. Cardinality(Below(p)) < Cardinality(Below(q))
    BY <2>2, <2>3
  <2>5. QED
    BY <2>4 DEF Rank, Below
<1>5. ASSUME NEW p \in S, NEW q \in S, Rank(S, p) = Rank(S, q)
      PROVE  p = q
  <2>1. Rank(S, p) \in Nat /\ Rank(S, q) \in Nat
    BY <1>1, <1>3
  <2>2. ~(p.pn < q.pn) /\ ~(q.pn < p.pn)
    BY <1>4, <1>5, <2>1
  <2>3. QED
    BY <2>2
<1>6. f \in Injection(S, 0..(n - 1))
  BY <1>3, <1>5 DEF Injection, IsInjective
<1>7. IsFiniteSet(0..(n - 1)) /\ Cardinality(0..(n - 1)) = n
  <2>1. 0 \in Int /\ n - 1 \in Int
    BY <1>1
  <2>2. IsFiniteSet(0..(n - 1)) /\ Cardinality(0..(n - 1)) = IF 0 > n - 1 THEN 0 ELSE (n - 1) - 0 + 1
    BY <2>1, FS_Interval
  <2>3. (IF 0 > n - 1 THEN 0 ELSE (n - 1) - 0 + 1) = n
    BY <1>1
  <2>4. QED
    BY <2>2, <2>3
<1>8. f \in Surjection(S, 0..(n - 1))
  BY <1>6, <1>7, FS_Injection
<1>9. ASSUME NEW i \in 0..(n - 1)
      PROVE  \E p \in S : Rank(S, p) = i
  BY <1>8 DEF Surjection
<1>10. QED
  BY <1>1, <1>3, <1>5, <1>9

\* The packets tracked are finitely many.
LEMMA TrackedFinite ==
  ASSUME NEW s, NEW acked, Tracking(s, acked), NEW gone \in SUBSET s.unacked
  PROVE  IsFiniteSet(gone)
<1> DEFINE f == [p \in gone |-> p.pn]
<1>1. s.unacked \in SUBSET [pn : 1..MAX_PN, data : Payloads]
  BY DEF Tracking, Senders
<1>2. \A p, q \in gone : p.pn = q.pn => p = q
  BY DEF Tracking
<1>3. \A p \in gone : p.pn \in 1..MAX_PN
  BY <1>1
<1>4. f \in Injection(gone, 1..MAX_PN)
  BY <1>2, <1>3 DEF Injection, IsInjective
<1>5. 1 \in Int /\ MAX_PN \in Int
  BY AckAssumption
<1>6. IsFiniteSet(1..MAX_PN)
  BY <1>5, FS_Interval
<1>7. QED
  BY <1>4, <1>6, FS_Injection

\* The payloads of the packets that go, in the order of their numbers: each of
\* them once.
Queue(gone) ==
  [i \in 1..Cardinality(gone) |->
     (CHOOSE p \in gone : Cardinality({q \in gone : q.pn < p.pn}) = i - 1).data]

LEMMA QueueFacts ==
  ASSUME NEW s, NEW acked, Tracking(s, acked), NEW gone \in SUBSET s.unacked,
         NEW e, e = Queue(gone)
  PROVE  /\ e \in Seq(Payloads) /\ Len(e) = Cardinality(gone) /\ Len(e) \in Nat
         /\ \A i \in 1..Len(e) : \E p \in gone : e[i] = p.data
         /\ \A p \in gone : \E i \in 1..Len(e) : e[i] = p.data
         /\ \A i, j \in 1..Len(e) : e[i] = e[j] => i = j
<1> DEFINE n == Cardinality(gone)
           Nth(i) == CHOOSE p \in gone : Rank(gone, p) = i - 1
<1>1. /\ \A p \in gone : p.pn \in Int /\ p.data \in Payloads
      /\ \A p, q \in gone : p.pn = q.pn \/ p.data = q.data => p = q
  BY DEF Tracking, Senders
<1>2. IsFiniteSet(gone)
  BY TrackedFinite
<1>3. /\ n \in Nat
      /\ \A p \in gone : Rank(gone, p) \in 0..(n - 1)
      /\ \A p, q \in gone : Rank(gone, p) = Rank(gone, q) => p = q
      /\ \A i \in 0..(n - 1) : \E p \in gone : Rank(gone, p) = i
  BY <1>1, <1>2, Ranks
<1>4. e = [i \in 1..n |-> Nth(i).data]
  BY DEF Rank, Queue
<1> HIDE DEF n
<1>5. ASSUME NEW i \in 1..n
      PROVE  Nth(i) \in gone /\ Rank(gone, Nth(i)) = i - 1
  <2>1. i - 1 \in 0..(n - 1)
    BY <1>3
  <2>2. \E p \in gone : Rank(gone, p) = i - 1
    BY <1>3, <2>1
  <2>3. QED
    BY <2>2
<1> HIDE DEF Nth
<1>6. \A i \in 1..n : e[i] = Nth(i).data /\ e[i] \in Payloads
  BY <1>1, <1>4, <1>5
<1>7. e \in Seq(Payloads) /\ Len(e) = n
  <2> DEFINE r == [i \in 1..n |-> Nth(i).data]
  <2>1. \A i \in 1..n : Nth(i).data \in Payloads
    BY <1>6
  <2>2. r \in Seq(Payloads) /\ Len(r) = n
    BY <1>3, <2>1
  <2>3. QED
    BY <1>4, <2>2
<1>8. \A i \in 1..n : \E p \in gone : e[i] = p.data
  BY <1>5, <1>6
<1>9. ASSUME NEW p \in gone PROVE \E i \in 1..n : e[i] = p.data
  <2> DEFINE i == Rank(gone, p) + 1
  <2>1. i \in 1..n /\ i - 1 = Rank(gone, p)
    BY <1>3
  <2>2. Nth(i) = p
    BY <1>3, <1>5, <2>1
  <2>3. QED
    BY <1>6, <2>1, <2>2
<1>10. ASSUME NEW i \in 1..n, NEW j \in 1..n, e[i] = e[j] PROVE i = j
  <2>1. Nth(i) \in gone /\ Nth(j) \in gone
    BY <1>5
  <2>2. Nth(i).data = Nth(j).data
    BY <1>6, <1>10
  <2>3. Nth(i) = Nth(j)
    BY <1>1, <2>1, <2>2
  <2>4. i - 1 = j - 1
    BY <1>5, <2>3
  <2>5. QED
    BY <1>3, <2>4
<1>11. QED
  BY <1>3, <1>7, <1>8, <1>9, <1>10 DEF n

\* What two queues make one after the other.
Joined(a, b, m) ==
  /\ m \in Seq(Payloads) /\ Len(m) = Len(a) + Len(b)
  /\ Len(a) \in Nat /\ Len(b) \in Nat
  /\ \A j \in 1..Len(a) : j \in 1..Len(m) /\ m[j] = a[j]
  /\ \A j \in 1..Len(b) : Len(a) + j \in 1..Len(m) /\ m[Len(a) + j] = b[j]
  /\ \A j \in 1..Len(m) : j \in 1..Len(a) \/ \E k \in 1..Len(b) : j = Len(a) + k

LEMMA ConcatPayloads ==
  ASSUME NEW a \in Seq(Payloads), NEW b \in Seq(Payloads)
  PROVE  Joined(a, b, a \o b)
<1> SUFFICES ASSUME NEW m, m = a \o b PROVE Joined(a, b, m)
  OBVIOUS
<1>1. /\ m \in Seq(Payloads) /\ Len(m) = Len(a) + Len(b) /\ Len(a) \in Nat /\ Len(b) \in Nat
  OBVIOUS
<1>2. \A j \in 1..Len(a) : j \in 1..Len(m) /\ m[j] = a[j]
  BY <1>1
<1>3. \A j \in 1..Len(b) : Len(a) + j \in 1..Len(m) /\ m[Len(a) + j] = b[j]
  BY <1>1
<1>4. ASSUME NEW j \in 1..Len(m), j \notin 1..Len(a) PROVE \E k \in 1..Len(b) : j = Len(a) + k
  <2>1. j - Len(a) \in 1..Len(b) /\ j = Len(a) + (j - Len(a))
    BY <1>1, <1>4
  <2>2. QED
    BY <2>1
<1>5. QED
  BY <1>1, <1>2, <1>3, <1>4 DEF Joined

----------------------------------------------------------------------------
\* The sender

\* The types of what a sender tracks.
LEMMA TrackingTypes ==
  ASSUME NEW s, NEW acked, Tracking(s, acked)
  PROVE  /\ s \in Senders /\ s.next \in 1..(MAX_PN + 1) /\ s.sent \in 0..MAX_DATA
         /\ s.address \in 1..ADDRESSES /\ s.largest \in 0..MAX_PN /\ s.tlp \in 0..MAX_TLP
         /\ s.unacked \in SUBSET [pn : 1..MAX_PN, data : Payloads]
         /\ \A p \in s.unacked : p.pn \in 1..MAX_PN /\ p.data \in 1..s.sent
         /\ s.lost \in Seq(Payloads) /\ Len(s.lost) \in Nat /\ DOMAIN s.lost = 1..Len(s.lost)
         /\ \A i \in 1..Len(s.lost) : s.lost[i] \in 1..s.sent
<1>1. /\ s \in Senders /\ s.next \in 1..(MAX_PN + 1) /\ s.sent \in 0..MAX_DATA
      /\ s.address \in 1..ADDRESSES /\ s.largest \in 0..MAX_PN /\ s.tlp \in 0..MAX_TLP
      /\ s.unacked \in SUBSET [pn : 1..MAX_PN, data : Payloads] /\ s.lost \in Seq(Payloads)
  BY DEF Tracking, Senders
<1>2. MAX_PN \in Nat /\ MAX_DATA \in Nat
  BY AckAssumption
<1>3. ASSUME NEW p \in s.unacked PROVE p.pn \in 1..MAX_PN /\ p.data \in 1..s.sent
  <2>1. p.pn \in 1..MAX_PN /\ p.data \in Payloads /\ p.data <= s.sent
    BY <1>1 DEF Tracking
  <2>2. QED
    BY <1>1, <1>2, <2>1 DEF Payloads
<1>4. Len(s.lost) \in Nat /\ DOMAIN s.lost = 1..Len(s.lost)
  BY <1>1
<1>5. ASSUME NEW i \in 1..Len(s.lost) PROVE s.lost[i] \in 1..s.sent
  <2>1. s.lost[i] \in Payloads
    BY <1>1
  <2>2. s.lost[i] <= s.sent
    BY DEF Tracking
  <2>3. QED
    BY <1>1, <1>2, <2>1, <2>2 DEF Payloads
<1>6. QED
  BY <1>1, <1>3, <1>4, <1>5

\* Tracking depends on four fields only.
LEMMA SameTracking ==
  ASSUME NEW s, NEW acked, Tracking(s, acked), NEW t \in Senders,
         t.next = s.next, t.sent = s.sent, t.unacked = s.unacked, t.lost = s.lost
  PROVE  Tracking(t, acked)
BY DEF Tracking

\* Packets taken for lost are tracked on, in the queue.
LEMMA MovedFacts ==
  ASSUME NEW s, NEW acked, Tracking(s, acked), NEW gone \in SUBSET s.unacked,
         NEW t, t = MoveToLost(s, gone)
  PROVE  /\ Tracking(t, acked) /\ t.unacked = s.unacked \ gone
         /\ t.next = s.next /\ t.sent = s.sent /\ t.address = s.address
<1> DEFINE e == Queue(gone)
           m == s.lost \o e
<1>1. /\ e \in Seq(Payloads) /\ Len(e) \in Nat
      /\ \A i \in 1..Len(e) : \E p \in gone : e[i] = p.data
      /\ \A p \in gone : \E i \in 1..Len(e) : e[i] = p.data
      /\ \A i, j \in 1..Len(e) : e[i] = e[j] => i = j
  BY QueueFacts
<1>2. t = [s EXCEPT !.unacked = s.unacked \ gone, !.lost = m]
  BY DEF MoveToLost, Senders, Tracking, Queue
<1> HIDE DEF e
<1>3. /\ s \in Senders /\ s.lost \in Seq(Payloads) /\ s.unacked \in SUBSET [pn : 1..MAX_PN, data : Payloads]
      /\ \A p \in s.unacked : p.pn < s.next /\ p.data <= s.sent
      /\ \A p, q \in s.unacked : p.pn = q.pn \/ p.data = q.data => p = q
      /\ \A i \in 1..Len(s.lost) : s.lost[i] <= s.sent
      /\ \A i, j \in 1..Len(s.lost) : s.lost[i] = s.lost[j] => i = j
      /\ \A p \in s.unacked, i \in 1..Len(s.lost) : p.data # s.lost[i]
      /\ acked \subseteq 1..s.sent
      /\ \A d \in 1..s.sent :
           d \in acked <=> (\A p \in s.unacked : p.data # d) /\ \A i \in 1..Len(s.lost) : s.lost[i] # d
  BY DEF Tracking, Senders
<1>4. /\ m \in Seq(Payloads) /\ Len(m) = Len(s.lost) + Len(e) /\ Len(s.lost) \in Nat
      /\ \A j \in 1..Len(s.lost) : j \in 1..Len(m) /\ m[j] = s.lost[j]
      /\ \A j \in 1..Len(e) : Len(s.lost) + j \in 1..Len(m) /\ m[Len(s.lost) + j] = e[j]
      /\ \A j \in 1..Len(m) : j \in 1..Len(s.lost) \/ \E k \in 1..Len(e) : j = Len(s.lost) + k
  <2>1. s.lost \in Seq(Payloads) /\ e \in Seq(Payloads)
    BY <1>1, <1>3
  <2>2. Joined(s.lost, e, m)
    BY <2>1, ConcatPayloads
  <2> HIDE DEF m
  <2>3. QED
    BY <2>2 DEF Joined
<1> HIDE DEF m
<1>5. /\ t \in Senders /\ t.unacked = s.unacked \ gone /\ t.lost = m
      /\ t.next = s.next /\ t.sent = s.sent /\ t.address = s.address
  <2> DEFINE u == s.unacked \ gone
  <2>1. u \in SUBSET [pn : 1..MAX_PN, data : Payloads]
    BY <1>3
  <2>2. t = [s EXCEPT !.unacked = u, !.lost = m]
    BY <1>2
  <2> HIDE DEF u
  <2>3. t \in Senders /\ t.unacked = u /\ t.lost = m /\ t.next = s.next /\ t.sent = s.sent /\ t.address = s.address
    BY <1>3, <1>4, <2>1, <2>2 DEF Senders
  <2>4. QED
    BY <2>3 DEF u
<1> DEFINE Old(j) == j \in 1..Len(s.lost) /\ m[j] = s.lost[j]
           New(j) == \E k \in 1..Len(e) : j = Len(s.lost) + k /\ m[j] = e[k] /\ \E p \in gone : e[k] = p.data
<1>6. ASSUME NEW j \in 1..Len(m) PROVE Old(j) \/ New(j)
  <2>1. CASE j \in 1..Len(s.lost)
    BY <1>4, <2>1
  <2>2. CASE \E k \in 1..Len(e) : j = Len(s.lost) + k
    <3>1. PICK k \in 1..Len(e) : j = Len(s.lost) + k
      BY <2>2
    <3>2. m[j] = e[k] /\ \E p \in gone : e[k] = p.data
      BY <1>1, <1>4, <3>1
    <3>3. QED
      BY <3>1, <3>2
  <2>3. QED
    BY <1>4, <2>1, <2>2
<1>7. \A j \in 1..Len(m) : m[j] <= s.sent
  BY <1>3, <1>6
<1>8. ASSUME NEW j \in 1..Len(m), NEW k \in 1..Len(m), m[j] = m[k] PROVE j = k
  <2>1. CASE Old(j) /\ Old(k)
    BY <1>3, <1>8, <2>1
  <2>2. ASSUME NEW x \in 1..Len(m), NEW y \in 1..Len(m), Old(x), New(y) PROVE m[x] # m[y]
    BY <1>3, <2>2
  <2>3. CASE New(j) /\ New(k)
    BY <1>1, <1>8, <2>3
  <2>4. QED
    BY <1>6, <1>8, <2>1, <2>2, <2>3
<1>9. \A p \in s.unacked \ gone, j \in 1..Len(m) : p.data # m[j]
  BY <1>3, <1>6
<1>10. ASSUME NEW d \in 1..s.sent
       PROVE  d \in acked <=> (\A p \in s.unacked \ gone : p.data # d) /\ \A i \in 1..Len(m) : m[i] # d
  <2>1. ASSUME d \in acked PROVE (\A p \in s.unacked \ gone : p.data # d) /\ \A i \in 1..Len(m) : m[i] # d
    <3>1. (\A p \in s.unacked : p.data # d) /\ \A i \in 1..Len(s.lost) : s.lost[i] # d
      BY <1>3, <2>1
    <3>2. QED
      BY <1>6, <3>1
  <2>2. ASSUME \A p \in s.unacked \ gone : p.data # d, \A i \in 1..Len(m) : m[i] # d PROVE d \in acked
    <3>1. ASSUME NEW p \in gone PROVE p.data # d
      <4>1. PICK i \in 1..Len(e) : e[i] = p.data
        BY <1>1
      <4>2. QED
        BY <1>4, <2>2, <4>1
    <3>2. \A i \in 1..Len(s.lost) : s.lost[i] # d
      BY <1>4, <2>2
    <3>3. QED
      BY <1>3, <2>2, <3>1, <3>2
  <2>3. QED
    BY <2>1, <2>2
<1>11. Tracking(t, acked)
  BY <1>3, <1>5, <1>7, <1>8, <1>9, <1>10 DEF Tracking
<1>12. QED
  BY <1>5, <1>11

\* Looking for losses moves packets to the queue and sets the loss timer.
LEMMA DetectFacts ==
  ASSUME NEW s, NEW acked, Tracking(s, acked), NEW thresh, NEW cut, NEW t, t = detectLosses(s, thresh, cut)
  PROVE  /\ Tracking(t, acked) /\ t.unacked \subseteq s.unacked
         /\ t.next = s.next /\ t.sent = s.sent /\ t.address = s.address
<1> DEFINE gone == LostPackets(s, thresh, cut)
           r == MoveToLost(s, gone)
           b == EarlyRetransmit(s, thresh)
<1>1. gone \in SUBSET s.unacked
  BY DEF LostPackets
<1>2. /\ Tracking(r, acked) /\ r.unacked = s.unacked \ gone
      /\ r.next = s.next /\ r.sent = s.sent /\ r.address = s.address
  BY <1>1, MovedFacts
<1>3. t = [r EXCEPT !.lossTo = b] /\ b \in BOOLEAN
  BY DEF detectLosses, EarlyRetransmit
<1> HIDE DEF gone, r, b
<1>4. r \in Senders
  BY <1>2 DEF Tracking
<1>5. /\ t \in Senders /\ t.unacked = r.unacked /\ t.lost = r.lost
      /\ t.next = r.next /\ t.sent = r.sent /\ t.address = r.address
  BY <1>3, <1>4 DEF Senders
<1>6. QED
  BY <1>2, <1>5, SameTracking

\* Packets acknowledged are forgotten, their payloads done.
LEMMA ForgottenFacts ==
  ASSUME NEW s, NEW acked, Tracking(s, acked), NEW gone \in SUBSET s.unacked,
         NEW t \in Senders, t.unacked = s.unacked \ gone, t.lost = s.lost,
         t.next = s.next, t.sent = s.sent
  PROVE  Tracking(t, acked \cup {p.data : p \in gone})
<1> DEFINE now == acked \cup {p.data : p \in gone}
<1>1. /\ s \in Senders /\ s.unacked \in SUBSET [pn : 1..MAX_PN, data : Payloads]
      /\ s.sent \in 0..MAX_DATA
      /\ \A p \in s.unacked : p.pn < s.next /\ p.data <= s.sent
      /\ \A p, q \in s.unacked : p.pn = q.pn \/ p.data = q.data => p = q
      /\ \A i \in 1..Len(s.lost) : s.lost[i] <= s.sent
      /\ \A i, j \in 1..Len(s.lost) : s.lost[i] = s.lost[j] => i = j
      /\ \A p \in s.unacked, i \in 1..Len(s.lost) : p.data # s.lost[i]
      /\ acked \subseteq 1..s.sent
      /\ \A d \in 1..s.sent :
           d \in acked <=> (\A p \in s.unacked : p.data # d) /\ \A i \in 1..Len(s.lost) : s.lost[i] # d
  BY DEF Tracking, Senders
<1>2. \A p \in s.unacked : p.data \in 1..s.sent
  BY <1>1, AckAssumption DEF Payloads
<1>3. now \subseteq 1..s.sent
  <2>1. \A p \in gone : p.data \in 1..s.sent
    BY <1>2
  <2>2. acked \subseteq 1..s.sent
    BY <1>1
  <2>3. QED
    BY <2>1, <2>2
<1>4. ASSUME NEW d \in 1..s.sent
      PROVE  d \in now <=> (\A p \in t.unacked : p.data # d) /\ \A i \in 1..Len(s.lost) : s.lost[i] # d
  <2>1. CASE \E p \in gone : p.data = d
    BY <1>1, <2>1
  <2>2. CASE \A p \in gone : p.data # d
    BY <1>1, <2>2
  <2>3. QED
    BY <2>1, <2>2
<1> HIDE DEF now
<1>5. Tracking(t, now)
  BY <1>1, <1>3, <1>4 DEF Tracking
<1>6. QED
  BY <1>5 DEF now

\* What is left to show of a step of the sender.
LEMMA SenderStep ==
  ASSUME Inv, Tracking(snd', done'), snd'.next >= snd.next, snd'.sent >= snd.sent,
         net' \subseteq Packets, \A p \in net' : p.pn < snd'.next /\ p.data <= snd'.sent,
         \A frame \in acks' : frame \in acks, faults' \in 0..FAULTS,
         UNCHANGED <<rcv, arrived, processed>>
  PROVE  Inv'
<1>1. snd.next \in Int /\ snd'.next \in Int
  BY DEF Inv, Tracking, Senders
<1>2. \A n \in arrived : n \in Int /\ n < snd'.next
  BY <1>1 DEF Inv
<1>3. Recording(rcv, arrived)' /\ arrived' \subseteq 1..MAX_PN /\ processed' \subseteq Payloads
  BY DEF Inv, Recording
<1>4. (\A frame \in acks : Truthful(frame, arrived))'
  BY DEF Inv, Truthful
<1>5. QED
  BY <1>2, <1>3, <1>4 DEF Inv

\* A new payload takes the next number and is tracked under it.
LEMMA SendDataInv ==
  ASSUME Inv, SendData
  PROVE  Inv'
<1> DEFINE new == [pn |-> snd.next, data |-> snd.sent + 1]
           p == Packet(snd.next, snd.sent + 1)
<1>1. /\ snd \in Senders /\ snd.unacked \in SUBSET [pn : 1..MAX_PN, data : Payloads]
      /\ snd.next \in 1..(MAX_PN + 1) /\ snd.sent \in 0..MAX_DATA /\ snd.address \in 1..ADDRESSES
      /\ \A q \in snd.unacked : q.pn \in 1..MAX_PN /\ q.data \in 1..snd.sent
      /\ Len(snd.lost) \in Nat /\ \A i \in 1..Len(snd.lost) : snd.lost[i] \in 1..snd.sent
  BY TrackingTypes DEF Inv
<1>0. /\ \A q \in snd.unacked : q.pn < snd.next
      /\ \A q, r \in snd.unacked : q.pn = r.pn \/ q.data = r.data => q = r
      /\ \A i, j \in 1..Len(snd.lost) : snd.lost[i] = snd.lost[j] => i = j
      /\ \A q \in snd.unacked, i \in 1..Len(snd.lost) : q.data # snd.lost[i]
      /\ done \subseteq 1..snd.sent
      /\ \A d \in 1..snd.sent :
           d \in done <=> (\A q \in snd.unacked : q.data # d) /\ \A i \in 1..Len(snd.lost) : snd.lost[i] # d
  BY DEF Inv, Tracking
<1>2. MAX_PN \in Nat /\ MAX_DATA \in Nat /\ ADDRESSES \in Nat
  BY AckAssumption
<1>3. /\ snd.sent < MAX_DATA /\ snd.next <= MAX_PN
      /\ snd' = [snd EXCEPT !.next = snd.next + 1, !.sent = snd.sent + 1, !.unacked = snd.unacked \cup {new}]
      /\ net' = net \cup {p}
      /\ UNCHANGED <<rcv, acks, faults, arrived, processed, done>>
  BY <1>1 DEF SendData, Packet, Senders
<1>4. /\ p.pn = snd.next /\ p.data = snd.sent + 1 /\ p \in Packets
      /\ new.pn = snd.next /\ new.data = snd.sent + 1 /\ new \in [pn : 1..MAX_PN, data : Payloads]
  BY <1>1, <1>2, <1>3 DEF Packet, Packets, Payloads
<1> HIDE DEF new, p
<1>5. /\ snd' \in Senders /\ snd'.next = snd.next + 1 /\ snd'.sent = snd.sent + 1
      /\ snd'.unacked = snd.unacked \cup {new} /\ snd'.lost = snd.lost
  <2> DEFINE u == snd.unacked \cup {new}
  <2>1. u \in SUBSET [pn : 1..MAX_PN, data : Payloads]
    BY <1>1, <1>4
  <2>2. snd' = [snd EXCEPT !.next = snd.next + 1, !.sent = snd.sent + 1, !.unacked = u]
    BY <1>3
  <2>3. snd.next + 1 \in 1..(MAX_PN + 1) /\ snd.sent + 1 \in 0..MAX_DATA
    BY <1>1, <1>2, <1>3
  <2> HIDE DEF u
  <2>4. /\ snd' \in Senders /\ snd'.next = snd.next + 1 /\ snd'.sent = snd.sent + 1
        /\ snd'.unacked = u /\ snd'.lost = snd.lost
    BY <1>1, <2>1, <2>2, <2>3 DEF Senders
  <2>5. QED
    BY <2>4 DEF u
<1>6. \A q \in snd.unacked : q.pn # new.pn /\ q.data # new.data
  BY <1>0, <1>1, <1>4
<1>7. \A q \in snd'.unacked : q.pn < snd'.next /\ q.data <= snd'.sent
  <2> TAKE q \in snd'.unacked
  <2>1. CASE q = new
    BY <1>1, <1>4, <1>5, <2>1
  <2>2. CASE q \in snd.unacked
    BY <1>0, <1>1, <1>5, <2>2
  <2>3. QED
    BY <1>5, <2>1, <2>2
<1>8. \A q, r \in snd'.unacked : q.pn = r.pn \/ q.data = r.data => q = r
  BY <1>0, <1>5, <1>6
<1>9. /\ \A i \in 1..Len(snd.lost) : snd.lost[i] <= snd'.sent
      /\ \A q \in snd'.unacked, i \in 1..Len(snd.lost) : q.data # snd.lost[i]
  <2>1. \A i \in 1..Len(snd.lost) : snd.lost[i] <= snd'.sent /\ snd.lost[i] # new.data
    BY <1>1, <1>4, <1>5
  <2>2. QED
    BY <1>0, <1>5, <2>1
<1>10. done \subseteq 1..snd'.sent
  BY <1>0, <1>1, <1>5
<1>11. ASSUME NEW d \in 1..snd'.sent
       PROVE  d \in done <=> (\A q \in snd'.unacked : q.data # d) /\ \A i \in 1..Len(snd.lost) : snd.lost[i] # d
  <2>1. CASE d = snd.sent + 1
    <3>1. d \notin 1..snd.sent
      BY <1>1, <2>1
    <3>2. QED
      BY <1>0, <1>1, <1>4, <1>5, <2>1, <3>1
  <2>2. CASE d \in 1..snd.sent
    <3>1. new.data # d
      BY <1>1, <1>4, <2>2
    <3>2. QED
      BY <1>0, <1>5, <2>2, <3>1
  <2>3. d = snd.sent + 1 \/ d \in 1..snd.sent
    BY <1>1, <1>5
  <2>4. QED
    BY <2>1, <2>2, <2>3
<1>12. Tracking(snd', done')
  BY <1>0, <1>3, <1>5, <1>7, <1>8, <1>9, <1>10, <1>11 DEF Tracking
<1>13. net' \subseteq Packets /\ \A q \in net' : q.pn < snd'.next /\ q.data <= snd'.sent
  <2>1. net \subseteq Packets /\ \A q \in net : q.pn < snd.next /\ q.data <= snd.sent
    BY DEF Inv
  <2>2. \A q \in net : q.pn \in Int /\ q.data \in Int
    BY <2>1 DEF Packets
  <2>3. QED
    BY <1>1, <1>3, <1>4, <1>5, <2>1, <2>2
<1>14. snd'.next >= snd.next /\ snd'.sent >= snd.sent /\ faults' \in 0..FAULTS
  BY <1>1, <1>3, <1>5 DEF Inv
<1>15. QED
  BY <1>3, <1>12, <1>13, <1>14, SenderStep

\* A fault may happen, so there is one less to come.
LEMMA FaultStep ==
  ASSUME Inv, faults > 0
  PROVE  faults - 1 \in 0..FAULTS
BY AckAssumption DEF Inv

LEMMA SendAckOnlyInv ==
  ASSUME Inv, SendAckOnly
  PROVE  Inv'
<1> DEFINE p == Packet(snd.next, 0)
<1>1. /\ snd \in Senders /\ Tracking(snd, done)
      /\ snd.next \in 1..(MAX_PN + 1) /\ snd.sent \in 0..MAX_DATA /\ snd.address \in 1..ADDRESSES
  BY DEF Inv, Tracking, Senders
<1>2. MAX_PN \in Nat /\ MAX_DATA \in Nat
  BY AckAssumption
<1>3. /\ snd.next <= MAX_PN /\ snd' = [snd EXCEPT !.next = snd.next + 1] /\ net' = net \cup {p}
      /\ faults' = faults - 1 /\ faults > 0 /\ UNCHANGED <<rcv, acks, arrived, processed, done>>
  BY <1>1 DEF SendAckOnly, Senders
<1>4. p.pn = snd.next /\ p.data = 0 /\ p \in Packets
  BY <1>1, <1>2, <1>3 DEF Packet, Packets
<1> HIDE DEF p
<1>5. /\ snd' \in Senders /\ snd'.next = snd.next + 1 /\ snd'.sent = snd.sent
      /\ snd'.unacked = snd.unacked /\ snd'.lost = snd.lost
  <2>1. snd.next + 1 \in 1..(MAX_PN + 1)
    BY <1>1, <1>2, <1>3
  <2>2. QED
    BY <1>1, <1>3, <2>1 DEF Senders
<1>6. \A q \in snd.unacked : q.pn \in Int /\ q.pn < snd.next + 1
  BY <1>1 DEF Tracking, Senders
<1>7. Tracking(snd', done')
  BY <1>1, <1>3, <1>5, <1>6 DEF Tracking
<1>8. net' \subseteq Packets /\ \A q \in net' : q.pn < snd'.next /\ q.data <= snd'.sent
  <2>1. net \subseteq Packets /\ \A q \in net : q.pn < snd.next /\ q.data <= snd.sent
    BY DEF Inv
  <2>2. \A q \in net : q.pn \in Int /\ q.data \in Int
    BY <2>1 DEF Packets
  <2>3. QED
    BY <1>1, <1>3, <1>4, <1>5, <2>1, <2>2
<1>9. snd'.next >= snd.next /\ snd'.sent >= snd.sent /\ faults' \in 0..FAULTS
  BY <1>1, <1>3, <1>5, FaultStep
<1>10. QED
  BY <1>3, <1>7, <1>8, <1>9, SenderStep

\* Packets the sender forgets or moves keep the numbers they had.
SameNumbers == snd'.next = snd.next /\ snd'.sent = snd.sent /\ snd'.address = snd.address
               /\ snd'.unacked \subseteq snd.unacked

LEMMA OnAckFacts ==
  ASSUME Inv, NEW frame \in acks, NEW thresh, NEW cut, onAckReceived(frame, thresh, cut)
  PROVE  /\ Tracking(snd', done') /\ SameNumbers /\ faults' \in 0..FAULTS
         /\ done' = done \cup {p.data : p \in OnAckRemoves(frame)}
<1> DEFINE acked == OnAckRemoves(frame)
           news == acked # {} \/ frame.largest > snd.largest
           a == IF frame.largest > snd.largest THEN frame.largest ELSE snd.largest
           b == IF acked # {} THEN 0 ELSE snd.tlp
           s == [snd EXCEPT !.unacked = snd.unacked \ acked, !.largest = a, !.tlp = b]
           fault == news /\ CutFault(s, thresh, cut)
<1>1. /\ snd \in Senders /\ snd.largest \in 0..MAX_PN /\ snd.tlp \in 0..MAX_TLP
      /\ snd.unacked \in SUBSET [pn : 1..MAX_PN, data : Payloads] /\ Tracking(snd, done)
  BY TrackingTypes DEF Inv
<1>2. MAX_TLP \in Nat /\ frame.largest \in 0..MAX_PN
  BY AckAssumption DEF Inv, Truthful
<1>3. acked \in SUBSET snd.unacked
  BY DEF OnAckRemoves
<1>4. /\ fault => faults > 0
      /\ faults' = IF fault THEN faults - 1 ELSE faults
      /\ done' = done \cup {p.data : p \in acked}
      /\ snd' = IF s.unacked = {} THEN [s EXCEPT !.lossTo = FALSE]
                ELSE IF news THEN detectLosses(s, thresh, cut)
                ELSE s
  BY <1>1 DEF onAckReceived, Senders
<1>5. faults' \in 0..FAULTS
  BY <1>4, FaultStep DEF Inv
<1>6. a \in 0..MAX_PN /\ b \in 0..MAX_TLP
  BY <1>1, <1>2
<1> HIDE DEF acked, news, a, b, fault
<1>7. /\ s \in Senders /\ s.unacked = snd.unacked \ acked /\ s.lost = snd.lost
      /\ s.next = snd.next /\ s.sent = snd.sent /\ s.address = snd.address
  <2> DEFINE u == snd.unacked \ acked
  <2>1. u \in SUBSET [pn : 1..MAX_PN, data : Payloads]
    BY <1>1
  <2> HIDE DEF u
  <2>2. ASSUME NEW t, t = [snd EXCEPT !.unacked = u, !.largest = a, !.tlp = b]
        PROVE  /\ t \in Senders /\ t.unacked = u /\ t.lost = snd.lost
               /\ t.next = snd.next /\ t.sent = snd.sent /\ t.address = snd.address
    BY <1>1, <1>6, <2>1, <2>2 DEF Senders
  <2>3. s = [snd EXCEPT !.unacked = u, !.largest = a, !.tlp = b]
    BY DEF u
  <2>4. QED
    BY <2>2, <2>3 DEF u
<1> HIDE DEF s
<1>8. Tracking(s, done')
  BY <1>1, <1>3, <1>4, <1>7, ForgottenFacts
<1>9. CASE s.unacked = {}
  <2>1. snd' = [s EXCEPT !.lossTo = FALSE]
    BY <1>4, <1>9
  <2>2. /\ snd' \in Senders /\ snd'.unacked = s.unacked /\ snd'.lost = s.lost
        /\ snd'.next = s.next /\ snd'.sent = s.sent /\ snd'.address = s.address
    BY <1>7, <2>1 DEF Senders
  <2>3. Tracking(snd', done')
    BY <1>8, <2>2, SameTracking
  <2>4. QED
    BY <1>4, <1>5, <1>7, <2>2, <2>3 DEF SameNumbers, acked
<1>10. CASE s.unacked # {} /\ news
  <2>1. snd' = detectLosses(s, thresh, cut)
    BY <1>4, <1>10
  <2>2. /\ Tracking(snd', done') /\ snd'.unacked \subseteq s.unacked
        /\ snd'.next = s.next /\ snd'.sent = s.sent /\ snd'.address = s.address
    BY <1>8, <2>1, DetectFacts
  <2>3. QED
    BY <1>4, <1>5, <1>7, <2>2 DEF SameNumbers, acked
<1>11. CASE s.unacked # {} /\ ~news
  <2>1. snd' = s
    BY <1>4, <1>11
  <2>2. QED
    BY <1>4, <1>5, <1>7, <1>8, <2>1 DEF SameNumbers, acked
<1>12. QED
  BY <1>9, <1>10, <1>11

\* A step of the sender that sends nothing.
LEMMA QuietStep ==
  ASSUME Inv, Tracking(snd', done'), SameNumbers, faults' \in 0..FAULTS,
         net' \subseteq net, \A frame \in acks' : frame \in acks, UNCHANGED <<rcv, arrived, processed>>
  PROVE  Inv'
<1>1. snd.next \in Int /\ snd.sent \in Int
  BY TrackingTypes DEF Inv
<1>2. snd'.next >= snd.next /\ snd'.sent >= snd.sent
  BY <1>1 DEF SameNumbers
<1>3. net' \subseteq Packets /\ \A p \in net' : p.pn < snd'.next /\ p.data <= snd'.sent
  BY DEF Inv, SameNumbers
<1>4. QED
  BY <1>2, <1>3, SenderStep

LEMMA ReceiveAckFacts ==
  ASSUME Inv, NEW frame \in acks, AckArrives(frame)
  PROVE  /\ Tracking(snd', done') /\ SameNumbers /\ faults' \in 0..FAULTS
         /\ done' \subseteq done \cup {p.data : p \in OnAckRemoves(frame)}
<1>1. CASE Decodes(frame)
  BY <1>1, OnAckFacts DEF AckArrives
<1>2. CASE ~Decodes(frame)
  BY <1>2 DEF Inv, Truthful
<1>3. QED
  BY <1>1, <1>2

LEMMA ReceiveAckInv ==
  ASSUME Inv, ReceiveAck
  PROVE  Inv'
<1>1. PICK frame \in acks : AckArrives(frame)
  BY DEF ReceiveAck
<1>2. Tracking(snd', done') /\ SameNumbers /\ faults' \in 0..FAULTS
  BY <1>1, ReceiveAckFacts
<1>3. net' \subseteq net /\ (\A f \in acks' : f \in acks) /\ UNCHANGED <<rcv, arrived, processed>>
  BY <1>1 DEF AckArrives
<1>4. QED
  BY <1>2, <1>3, QuietStep

LEMMA RetransTimerFacts ==
  ASSUME Inv, RetransTimer
  PROVE  Tracking(snd', done') /\ SameNumbers /\ faults' \in 0..FAULTS
<1> DEFINE last == CHOOSE p \in snd.unacked : \A q \in snd.unacked : q.pn <= p.pn
           k == [snd EXCEPT !.tlp = snd.tlp + 1]
           S(thresh) == IF snd.lossTo THEN detectLosses(snd, thresh, 0)
                        ELSE IF snd.tlp < MAX_TLP THEN MoveToLost(k, {last})
                        ELSE MoveToLost(snd, snd.unacked)
<1>1. snd \in Senders /\ snd.tlp \in 0..MAX_TLP /\ Tracking(snd, done) /\ snd.unacked # {} /\ done' = done
  BY TrackingTypes DEF Inv, RetransTimer
<1>2. PICK thresh \in REORDER_THRESH :
        LET early == InFlight /\ S(thresh).unacked # snd.unacked
        IN  /\ early => faults > 0
            /\ faults' = IF early THEN faults - 1 ELSE faults
            /\ snd' = S(thresh)
  BY <1>1 DEF RetransTimer, Senders
<1>3. faults' \in 0..FAULTS
  BY <1>2, FaultStep DEF Inv
<1>4. CASE snd.lossTo
  <2>1. snd' = detectLosses(snd, thresh, 0)
    BY <1>2, <1>4
  <2>2. QED
    BY <1>1, <1>3, <2>1, DetectFacts DEF SameNumbers
<1>5. CASE ~snd.lossTo /\ snd.tlp < MAX_TLP
  <2>1. snd' = MoveToLost(k, {last})
    BY <1>2, <1>5
  <2>2. last \in snd.unacked
    <3> DEFINE N == {MAX_PN - p.pn : p \in snd.unacked}
    <3>1. \A p \in snd.unacked : p.pn \in 1..MAX_PN
      BY TrackingTypes DEF Inv
    <3>2. MAX_PN \in Nat
      BY AckAssumption
    <3>3. N \in SUBSET Nat /\ N # {}
      BY <1>1, <3>1, <3>2
    <3>4. PICK x \in N : \A y \in N : x <= y
      BY <3>3, MinFacts
    <3>5. PICK p \in snd.unacked : x = MAX_PN - p.pn
      OBVIOUS
    <3>6. ASSUME NEW q \in snd.unacked PROVE q.pn <= p.pn
      <4>1. MAX_PN - q.pn \in N /\ MAX_PN - p.pn \in N
        OBVIOUS
      <4>2. MAX_PN - p.pn <= MAX_PN - q.pn
        BY <3>4, <3>5, <4>1
      <4>3. QED
        BY <3>1, <3>2, <4>2
    <3>7. QED
      BY <3>6
  <2>3. /\ k \in Senders /\ k.next = snd.next /\ k.sent = snd.sent /\ k.address = snd.address
        /\ k.unacked = snd.unacked /\ k.lost = snd.lost
    <3>1. snd.tlp + 1 \in 0..MAX_TLP
      BY <1>1, <1>5, AckAssumption
    <3>2. QED
      BY <1>1, <3>1 DEF Senders
  <2> HIDE DEF k, last
  <2>4. Tracking(k, done) /\ {last} \in SUBSET k.unacked
    BY <1>1, <2>2, <2>3, SameTracking
  <2>5. /\ Tracking(snd', done) /\ snd'.unacked = k.unacked \ {last}
        /\ snd'.next = k.next /\ snd'.sent = k.sent /\ snd'.address = k.address
    BY <2>1, <2>4, MovedFacts
  <2>6. QED
    BY <1>1, <1>3, <2>3, <2>5 DEF SameNumbers
<1>6. CASE ~snd.lossTo /\ ~(snd.tlp < MAX_TLP)
  <2>1. snd' = MoveToLost(snd, snd.unacked)
    BY <1>2, <1>6
  <2>2. snd.unacked \in SUBSET snd.unacked
    OBVIOUS
  <2>3. QED
    BY <1>1, <1>3, <2>1, <2>2, MovedFacts DEF SameNumbers
<1>7. QED
  BY <1>4, <1>5, <1>6

LEMMA RetransTimerInv ==
  ASSUME Inv, RetransTimer
  PROVE  Inv'
<1>1. net' \subseteq net /\ (\A f \in acks' : f \in acks) /\ UNCHANGED <<rcv, arrived, processed>>
  BY DEF RetransTimer
<1>2. QED
  BY <1>1, RetransTimerFacts, QuietStep

\* The first k of the lost packets go out under the next numbers; the others
\* stay queued.
Again(k) == {Packet(snd.next + i - 1, snd.lost[i]) : i \in 1..k}
Named(k) == {[pn |-> p.pn, data |-> p.data] : p \in Again(k)}

LEMMA AgainFacts ==
  ASSUME Inv, NEW k \in 1..Len(snd.lost), snd.next + Len(snd.lost) <= MAX_PN + 1
  PROVE  /\ Again(k) \subseteq Packets /\ Named(k) \subseteq [pn : 1..MAX_PN, data : Payloads]
         /\ \A p \in Again(k) : \E i \in 1..k : p.pn = snd.next + i - 1 /\ p.data = snd.lost[i] /\ p.from = snd.address
         /\ \A q \in Named(k) : \E i \in 1..k : q.pn = snd.next + i - 1 /\ q.data = snd.lost[i]
         /\ \A i \in 1..k : \E q \in Named(k) : q.pn = snd.next + i - 1 /\ q.data = snd.lost[i]
<1>1. /\ snd.next \in 1..(MAX_PN + 1) /\ snd.address \in 1..ADDRESSES /\ Len(snd.lost) \in Nat
      /\ snd.lost \in Seq(Payloads) /\ MAX_PN \in Nat /\ MAX_DATA \in Nat
  BY TrackingTypes, AckAssumption DEF Inv
<1>2. ASSUME NEW i \in 1..k
      PROVE  /\ i \in 1..Len(snd.lost) /\ snd.next + i - 1 \in 1..MAX_PN /\ snd.lost[i] \in Payloads
             /\ snd.lost[i] \in 0..MAX_DATA
  <2>1. i \in 1..Len(snd.lost)
    BY <1>1
  <2>2. snd.next + i - 1 \in 1..MAX_PN
    BY <1>1
  <2>3. snd.lost[i] \in Payloads
    BY <1>1, <2>1
  <2>4. snd.lost[i] \in 0..MAX_DATA
    BY <2>3, AckAssumption DEF Payloads
  <2>5. QED
    BY <2>1, <2>2, <2>3, <2>4
<1>3. ASSUME NEW i \in 1..k
      PROVE  LET p == Packet(snd.next + i - 1, snd.lost[i])
             IN  p \in Packets /\ p.pn = snd.next + i - 1 /\ p.data = snd.lost[i] /\ p.from = snd.address
  BY <1>1, <1>2 DEF Packet, Packets
<1>4. \A p \in Again(k) : /\ p \in Packets
                          /\ \E i \in 1..k : p.pn = snd.next + i - 1 /\ p.data = snd.lost[i] /\ p.from = snd.address
  BY <1>3 DEF Again
<1>5. ASSUME NEW q \in Named(k)
      PROVE  /\ q \in [pn : 1..MAX_PN, data : Payloads]
             /\ \E i \in 1..k : q.pn = snd.next + i - 1 /\ q.data = snd.lost[i]
  <2>1. PICK p \in Again(k) : q = [pn |-> p.pn, data |-> p.data]
    BY DEF Named
  <2>2. PICK i \in 1..k : p.pn = snd.next + i - 1 /\ p.data = snd.lost[i]
    BY <1>4
  <2>3. QED
    BY <1>2, <2>1, <2>2
<1>6. ASSUME NEW i \in 1..k
      PROVE  \E q \in Named(k) : q.pn = snd.next + i - 1 /\ q.data = snd.lost[i]
  <2> DEFINE p == Packet(snd.next + i - 1, snd.lost[i])
             q == [pn |-> p.pn, data |-> p.data]
  <2>1. p \in Again(k) /\ p.pn = snd.next + i - 1 /\ p.data = snd.lost[i]
    BY <1>3 DEF Again
  <2>2. q \in Named(k)
    BY <2>1 DEF Named
  <2>3. q.pn = snd.next + i - 1 /\ q.data = snd.lost[i]
    BY <2>1
  <2>4. QED
    BY <2>2, <2>3
<1>7. QED
  BY <1>4, <1>5, <1>6

\* The queue without its first k payloads.
LEMMA QueueTail ==
  ASSUME NEW l \in Seq(Payloads), NEW k \in 1..Len(l), NEW m, m = SubSeq(l, k + 1, Len(l))
  PROVE  /\ m \in Seq(Payloads) /\ Len(m) = Len(l) - k /\ Len(m) \in Nat
         /\ \A j \in 1..Len(m) : k + j \in 1..Len(l) /\ m[j] = l[k + j]
         /\ \A i \in 1..Len(l) : i \in 1..k \/ \E j \in 1..Len(m) : i = k + j
<1>1. Len(l) \in Nat /\ m \in Seq(Payloads) /\ Len(m) = Len(l) - k
  OBVIOUS
<1>2. ASSUME NEW j \in 1..Len(m) PROVE k + j \in 1..Len(l) /\ m[j] = l[k + j]
  BY <1>1
<1>3. ASSUME NEW i \in 1..Len(l), i \notin 1..k PROVE \E j \in 1..Len(m) : i = k + j
  <2>1. i - k \in 1..Len(m) /\ i = k + (i - k)
    BY <1>1, <1>3
  <2>2. QED
    BY <2>1
<1>4. QED
  BY <1>1, <1>2, <1>3

\* What a batch of retransmissions leaves.
LEMMA RetransmitFacts ==
  ASSUME Inv, Retransmit
  PROVE  \E k \in 1..Len(snd.lost) :
           /\ Tracking(snd', done) /\ snd'.next = snd.next + Len(snd.lost) /\ snd'.sent = snd.sent
           /\ snd'.address = snd.address /\ snd'.unacked = snd.unacked \cup Named(k)
           /\ net' = net \cup Again(k) /\ faults' \in 0..FAULTS
           /\ snd.next + Len(snd.lost) <= MAX_PN + 1
<1>1. /\ snd \in Senders /\ snd.next \in 1..(MAX_PN + 1) /\ snd.sent \in 0..MAX_DATA
      /\ snd.unacked \in SUBSET [pn : 1..MAX_PN, data : Payloads]
      /\ \A q \in snd.unacked : q.pn \in 1..MAX_PN /\ q.data \in 1..snd.sent
      /\ snd.lost \in Seq(Payloads) /\ Len(snd.lost) \in Nat
      /\ \A i \in 1..Len(snd.lost) : snd.lost[i] \in 1..snd.sent
  BY TrackingTypes DEF Inv
<1>2. /\ \A q \in snd.unacked : q.pn < snd.next
      /\ \A q, r \in snd.unacked : q.pn = r.pn \/ q.data = r.data => q = r
      /\ \A i, j \in 1..Len(snd.lost) : snd.lost[i] = snd.lost[j] => i = j
      /\ \A q \in snd.unacked, i \in 1..Len(snd.lost) : q.data # snd.lost[i]
      /\ done \subseteq 1..snd.sent
      /\ \A d \in 1..snd.sent :
           d \in done <=> (\A q \in snd.unacked : q.data # d) /\ \A i \in 1..Len(snd.lost) : snd.lost[i] # d
  BY DEF Inv, Tracking
<1>3. snd.next + Len(snd.lost) <= MAX_PN + 1
  BY Zenon DEF Retransmit
<1>4. PICK k \in 1..Len(snd.lost) :
        /\ k < Len(snd.lost) => faults > 0
        /\ faults' = IF k < Len(snd.lost) THEN faults - 1 ELSE faults
        /\ snd' = [snd EXCEPT !.next = snd.next + Len(snd.lost),
                              !.lost = SubSeq(snd.lost, k + 1, Len(snd.lost)),
                              !.unacked = snd.unacked \cup Named(k)]
        /\ net' = net \cup Again(k)
  BY <1>1 DEF Retransmit, Again, Named, Senders
<1>5. faults' \in 0..FAULTS
  BY <1>4, FaultStep DEF Inv
<1> DEFINE m == SubSeq(snd.lost, k + 1, Len(snd.lost))
           n == snd.next + Len(snd.lost)
           u == snd.unacked \cup Named(k)
<1>6. /\ m \in Seq(Payloads) /\ Len(m) = Len(snd.lost) - k /\ Len(m) \in Nat
      /\ \A j \in 1..Len(m) : k + j \in 1..Len(snd.lost) /\ m[j] = snd.lost[k + j]
      /\ \A i \in 1..Len(snd.lost) : i \in 1..k \/ \E j \in 1..Len(m) : i = k + j
  BY <1>1, QueueTail
<1>7. /\ Named(k) \subseteq [pn : 1..MAX_PN, data : Payloads]
      /\ \A q \in Named(k) : \E i \in 1..k : q.pn = snd.next + i - 1 /\ q.data = snd.lost[i]
      /\ \A i \in 1..k : \E q \in Named(k) : q.pn = snd.next + i - 1 /\ q.data = snd.lost[i]
  BY <1>3, AgainFacts
<1>8. snd' = [snd EXCEPT !.next = n, !.lost = m, !.unacked = u]
  BY <1>4
<1>9. n \in 1..(MAX_PN + 1) /\ n > snd.next /\ u \in SUBSET [pn : 1..MAX_PN, data : Payloads]
  <2>1. u \in SUBSET [pn : 1..MAX_PN, data : Payloads]
    BY <1>1, <1>7
  <2>2. Len(snd.lost) \in Nat \ {0} /\ snd.next \in Nat \ {0} /\ MAX_PN \in Nat
    BY <1>1, AckAssumption
  <2>3. QED
    BY <1>3, <2>1, <2>2
<1> HIDE DEF m
<1>10. /\ snd' \in Senders /\ snd'.next = n /\ snd'.lost = m /\ snd'.unacked = u
       /\ snd'.sent = snd.sent /\ snd'.address = snd.address
  <2> HIDE DEF n, u
  <2>1. QED
    BY <1>1, <1>6, <1>8, <1>9 DEF Senders
<1>11. ASSUME NEW i \in 1..k PROVE i \in 1..Len(snd.lost) /\ snd.next + i - 1 >= snd.next /\ snd.next + i - 1 < n
  BY <1>1
<1>12. \A q \in u : q.pn < n /\ q.data <= snd.sent
  <2> TAKE q \in u
  <2>1. CASE q \in snd.unacked
    BY <1>1, <1>2, <1>9, <2>1
  <2>2. CASE q \in Named(k)
    <3>1. PICK i \in 1..k : q.pn = snd.next + i - 1 /\ q.data = snd.lost[i]
      BY <1>7, <2>2
    <3>2. QED
      BY <1>1, <1>11, <3>1
  <2>3. QED
    BY <2>1, <2>2
<1>13. ASSUME NEW q \in snd.unacked, NEW r \in Named(k) PROVE q.pn # r.pn /\ q.data # r.data
  <2>1. PICK i \in 1..k : r.pn = snd.next + i - 1 /\ r.data = snd.lost[i]
    BY <1>7
  <2>2. q.pn < snd.next /\ q.pn \in Int /\ r.pn >= snd.next
    BY <1>1, <1>2, <1>11, <2>1
  <2>3. QED
    BY <1>1, <1>2, <1>11, <2>1, <2>2
<1>14. ASSUME NEW q \in Named(k), NEW r \in Named(k), q.pn = r.pn \/ q.data = r.data PROVE q = r
  <2>1. PICK i \in 1..k : q.pn = snd.next + i - 1 /\ q.data = snd.lost[i]
    BY <1>7
  <2>2. PICK j \in 1..k : r.pn = snd.next + j - 1 /\ r.data = snd.lost[j]
    BY <1>7
  <2>3. i = j
    <3>1. CASE q.data = r.data
      BY <1>2, <1>11, <2>1, <2>2, <3>1
    <3>2. CASE q.pn = r.pn
      <4>1. snd.next \in Int /\ k \in Int /\ i \in Int /\ j \in Int
        BY <1>1
      <4>2. QED
        BY <2>1, <2>2, <3>2, <4>1
    <3>3. QED
      BY <1>14, <3>1, <3>2
  <2>4. q \in [pn : 1..MAX_PN, data : Payloads] /\ r \in [pn : 1..MAX_PN, data : Payloads]
    BY <1>7
  <2>5. q.pn = r.pn /\ q.data = r.data
    BY <2>1, <2>2, <2>3
  <2>6. QED
    BY <2>4, <2>5
<1>15. \A q, r \in u : q.pn = r.pn \/ q.data = r.data => q = r
  BY <1>2, <1>13, <1>14
<1>16. ASSUME NEW j \in 1..Len(m) PROVE m[j] <= snd.sent
  <2>1. k + j \in 1..Len(snd.lost) /\ m[j] = snd.lost[k + j]
    BY <1>6
  <2>2. snd.lost[k + j] \in 1..snd.sent
    BY <1>1, <2>1
  <2>3. QED
    BY <1>1, <2>1, <2>2
<1>17. ASSUME NEW i \in 1..Len(m), NEW j \in 1..Len(m), m[i] = m[j] PROVE i = j
  <2> DEFINE a == k + i
             b == k + j
  <2>1. a \in 1..Len(snd.lost) /\ m[i] = snd.lost[a] /\ b \in 1..Len(snd.lost) /\ m[j] = snd.lost[b]
    BY <1>6
  <2> HIDE DEF a, b
  <2>2. a = b
    BY <1>2, <1>17, <2>1
  <2>3. k + i = k + j
    BY <2>2 DEF a, b
  <2>4. QED
    BY <1>1, <2>3
<1>18. ASSUME NEW q \in u, NEW j \in 1..Len(m) PROVE q.data # m[j]
  <2>1. k + j \in 1..Len(snd.lost) /\ m[j] = snd.lost[k + j]
    BY <1>6
  <2>2. CASE q \in snd.unacked
    BY <1>2, <2>1, <2>2
  <2>3. CASE q \in Named(k)
    <3>1. PICK i \in 1..k : q.data = snd.lost[i]
      BY <1>7, <2>3
    <3>2. i \in 1..Len(snd.lost) /\ i # k + j
      BY <1>11, <1>6
    <3>3. QED
      BY <1>2, <2>1, <3>1, <3>2
  <2>4. QED
    BY <2>2, <2>3
<1>19. ASSUME NEW d \in 1..snd.sent
       PROVE  ((\A q \in snd.unacked : q.data # d) /\ \A i \in 1..Len(snd.lost) : snd.lost[i] # d)
              <=> ((\A q \in u : q.data # d) /\ \A i \in 1..Len(m) : m[i] # d)
  <2>1. ASSUME \A q \in snd.unacked : q.data # d, \A i \in 1..Len(snd.lost) : snd.lost[i] # d
        PROVE  (\A q \in u : q.data # d) /\ \A i \in 1..Len(m) : m[i] # d
    <3>1. ASSUME NEW q \in Named(k) PROVE q.data # d
      <4>1. PICK i \in 1..k : q.data = snd.lost[i]
        BY <1>7
      <4>2. QED
        BY <1>11, <2>1, <4>1
    <3>2. ASSUME NEW j \in 1..Len(m) PROVE m[j] # d
      <4>1. k + j \in 1..Len(snd.lost) /\ m[j] = snd.lost[k + j]
        BY <1>6
      <4>2. QED
        BY <2>1, <4>1
    <3>3. QED
      BY <2>1, <3>1, <3>2
  <2>2. ASSUME \A q \in u : q.data # d, \A i \in 1..Len(m) : m[i] # d, NEW i \in 1..Len(snd.lost)
        PROVE  snd.lost[i] # d
    <3>1. CASE i \in 1..k
      BY <1>7, <2>2, <3>1
    <3>2. CASE \E j \in 1..Len(m) : i = k + j
      BY <1>6, <2>2, <3>2
    <3>3. QED
      BY <1>6, <3>1, <3>2
  <2>3. QED
    BY <2>1, <2>2
<1>20. \A d \in 1..snd.sent : d \in done <=> (\A q \in u : q.data # d) /\ \A i \in 1..Len(m) : m[i] # d
  BY <1>2, <1>19
<1> HIDE DEF n, u
<1>21. Tracking(snd', done)
  BY <1>2, <1>10, <1>12, <1>15, <1>16, <1>17, <1>18, <1>20 DEF Tracking
<1>22. QED
  BY <1>3, <1>4, <1>5, <1>10, <1>21 DEF n, u

LEMMA RetransmitInv ==
  ASSUME Inv, Retransmit
  PROVE  Inv'
<1>1. PICK k \in 1..Len(snd.lost) :
        /\ Tracking(snd', done) /\ snd'.next = snd.next + Len(snd.lost) /\ snd'.sent = snd.sent
        /\ net' = net \cup Again(k) /\ faults' \in 0..FAULTS
        /\ snd.next + Len(snd.lost) <= MAX_PN + 1
  BY RetransmitFacts
<1>2. UNCHANGED <<rcv, acks, arrived, processed, done>>
  BY DEF Retransmit
<1>3. /\ snd.next \in Int /\ snd.sent \in Int /\ Len(snd.lost) \in Nat
      /\ \A i \in 1..Len(snd.lost) : snd.lost[i] \in 1..snd.sent
  BY TrackingTypes DEF Inv
<1>4. /\ Again(k) \subseteq Packets
      /\ \A p \in Again(k) : \E i \in 1..k : p.pn = snd.next + i - 1 /\ p.data = snd.lost[i]
  BY <1>1, AgainFacts
<1>5. net' \subseteq Packets
  BY <1>1, <1>4 DEF Inv
<1>6. ASSUME NEW p \in net' PROVE p.pn < snd'.next /\ p.data <= snd'.sent
  <2>1. CASE p \in net
    <3>1. p.pn < snd.next /\ p.data <= snd.sent /\ p.pn \in Int
      BY <2>1 DEF Inv, Packets
    <3>2. QED
      BY <1>1, <1>3, <3>1
  <2>2. CASE p \in Again(k)
    <3>1. PICK i \in 1..k : p.pn = snd.next + i - 1 /\ p.data = snd.lost[i]
      BY <1>4, <2>2
    <3>2. i \in 1..Len(snd.lost)
      BY <1>3
    <3>3. QED
      BY <1>1, <1>3, <3>1, <3>2
  <2>3. QED
    BY <1>1, <2>1, <2>2
<1>7. snd'.next >= snd.next /\ snd'.sent >= snd.sent
  BY <1>1, <1>3
<1>8. QED
  BY <1>1, <1>2, <1>5, <1>6, <1>7, SenderStep

----------------------------------------------------------------------------
\* The receiver

\* The frame made of a history is true of what the history stands for.
LEMMA EncodeTruthful ==
  ASSUME NEW h, WellFormed(h), h.list # <<>>, NEW taken, Numbers(h.list) \subseteq taken, taken \subseteq 1..MAX_PN
  PROVE  Truthful(encode(h), taken)
<1>1. Decodes(encode(h)) /\ Acknowledged(encode(h)) \subseteq Numbers(h.list)
  BY FrameTruthful
<1>2. encode(h).largest = h.list[1].high
  BY EncodeFacts
<1>3. h.list \in Seq(Intervals) /\ Descending(h.list)
  BY DEF WellFormed
<1>4. 1 \in 1..Len(h.list)
  BY <1>3
<1>5. h.list[1].high \in Numbers(h.list)
  BY <1>3, <1>4, TopFacts
<1>6. encode(h).largest \in 0..MAX_PN
  <2>1. h.list[1].high \in 1..MAX_PN
    BY <1>5
  <2>2. QED
    BY <1>2, <2>1
<1>7. QED
  BY <1>1, <1>6 DEF Truthful

\* Recording a number: the cutoff lies at most one above the numbers known.
LEMMA InsertCutoff ==
  ASSUME NEW h, WellFormed(h), h.cutoff <= MAX_PN + 1, Numbers(h.list) \subseteq 1..MAX_PN,
         NEW pn \in 1..MAX_PN, NEW g, g = insert(h, pn)
  PROVE  g.cutoff <= MAX_PN + 1
<1>1. h.cutoff \in Nat /\ h.list \in Seq(Intervals) /\ MAX_PN \in Nat /\ MAX_RANGES \in Nat /\ pn \in Nat
  BY AckAssumption, HistoryAssumption DEF WellFormed
<1>2. CASE pn < h.cutoff
  BY <1>2 DEF insert
<1>3. CASE pn >= h.cutoff
  <2> DEFINE m == insertIntoList(h.list, pn)
  <2>1. Inserted(h, pn, g, m)
    BY <1>1, <1>3, InsertedFacts
  <2> HIDE DEF m
  <2>2. /\ m \in Seq(Intervals) /\ m # <<>> /\ Descending(m) /\ Numbers(m) \subseteq 1..MAX_PN
        /\ Len(m) <= MAX_RANGES => g.cutoff = h.cutoff
        /\ Len(m) > MAX_RANGES => g.cutoff = m[Len(m)].high + 1
    BY <2>1 DEF Inserted, Adds
  <2>3. Len(m) \in Nat /\ Len(m) \in 1..Len(m)
    BY <2>2
  <2>4. m[Len(m)].high \in Numbers(m)
    BY <2>2, <2>3, TopFacts
  <2>5. m[Len(m)].high \in 1..MAX_PN
    BY <2>2, <2>4
  <2>6. QED
    BY <1>1, <2>2, <2>3, <2>5
<1>4. QED
  BY <1>1, <1>2, <1>3

\* Whatever is decided about an acknowledgement: nothing is due, or the timer
\* runs, or a frame of the history goes out and nothing is due any more.
Decided(r, res) ==
  \/ r.pending = 0 /\ res.rcv = r /\ res.acks = {}
  \/ r.pending > 0 /\ res.rcv = [r EXCEPT !.timer = TRUE] /\ res.acks = {}
  \/ r.pending > 0 /\ res.rcv = [r EXCEPT !.pending = 0, !.timer = FALSE] /\ res.acks = {encode(r.hist)}

LEMMA DecisionFacts ==
  ASSUME NEW r \in Receivers, NEW gap, NEW blocked \in BOOLEAN
  PROVE  Decided(r, ackDecision(r, gap, blocked))
<1>1. r.pending \in Nat
  BY DEF Receivers
<1>2. QED
  BY <1>1 DEF ackDecision, sendAckPacket, Decided

\* What such a decision leaves.
LEMMA DecidedFacts ==
  ASSUME NEW taken, taken \subseteq 1..MAX_PN, NEW r \in Receivers, WellFormed(r.hist),
         r.hist.cutoff <= MAX_PN + 1, Numbers(r.hist.list) \subseteq taken, r.pending > 0 => r.hist.list # <<>>,
         NEW res, Decided(r, res)
  PROVE  Recording(res.rcv, taken) /\ \A frame \in res.acks : Truthful(frame, taken)
<1>1. r.pending \in Nat
  BY DEF Receivers
<1>2. CASE r.pending = 0 /\ res.rcv = r /\ res.acks = {}
  BY <1>2 DEF Recording
<1>3. CASE r.pending > 0 /\ res.rcv = [r EXCEPT !.timer = TRUE] /\ res.acks = {}
  <2>1. res.rcv \in Receivers /\ res.rcv.hist = r.hist /\ res.rcv.timer = TRUE
    BY <1>3 DEF Receivers
  <2>2. QED
    BY <1>3, <2>1 DEF Recording
<1>4. CASE r.pending > 0 /\ res.rcv = [r EXCEPT !.pending = 0, !.timer = FALSE] /\ res.acks = {encode(r.hist)}
  <2>1. res.rcv \in Receivers /\ res.rcv.hist = r.hist /\ res.rcv.pending = 0
    <3>1. ASSUME NEW t, t = [r EXCEPT !.pending = 0, !.timer = FALSE]
          PROVE  t \in Receivers /\ t.hist = r.hist /\ t.pending = 0
      BY <3>1 DEF Receivers
    <3>2. QED
      BY <1>4, <3>1
  <2>2. Recording(res.rcv, taken)
    BY <2>1 DEF Recording
  <2>3. Truthful(encode(r.hist), taken)
    BY <1>4, EncodeTruthful
  <2>4. QED
    BY <1>4, <2>2, <2>3
<1>5. QED
  BY <1>2, <1>3, <1>4 DEF Decided

\* What is left to show of a step of the receiver.
LEMMA ReceiverStep ==
  ASSUME Inv, Recording(rcv', arrived'), \A frame \in acks' : Truthful(frame, arrived'),
         net' \subseteq net, arrived' \subseteq 1..MAX_PN, \A n \in arrived' : n < snd.next,
         processed' \subseteq Payloads, faults' \in 0..FAULTS, UNCHANGED <<snd, done>>
  PROVE  Inv'
<1>1. Tracking(snd, done)'
  BY DEF Inv, Tracking
<1>2. (net \subseteq Packets /\ \A p \in net : p.pn < snd.next /\ p.data <= snd.sent)'
  BY DEF Inv
<1>3. QED
  BY <1>1, <1>2 DEF Inv

\* The receiver as the history takes a packet in.
Taken(p) == [rcv EXCEPT !.candidate = Candidate(p), !.hist = insert(rcv.hist, p.pn),
                        !.pending = IF p.data = 0 THEN rcv.pending ELSE rcv.pending + 1]

LEMMA TakenFacts ==
  ASSUME Inv, NEW p \in net, NEW t, t = Taken(p)
  PROVE  /\ t \in Receivers /\ WellFormed(t.hist) /\ t.hist.cutoff <= MAX_PN + 1
         /\ Numbers(t.hist.list) \subseteq arrived \cup {p.pn} /\ t.hist.list # <<>>
         /\ t.active = rcv.active /\ t.hist = insert(rcv.hist, p.pn)
<1> DEFINE h == rcv.hist
           g == insert(h, p.pn)
           c == Candidate(p)
           n == IF p.data = 0 THEN rcv.pending ELSE rcv.pending + 1
<1>1. rcv \in Receivers /\ WellFormed(h) /\ h.cutoff <= MAX_PN + 1 /\ Numbers(h.list) \subseteq arrived
  BY DEF Inv, Recording
<1>2. p.pn \in 1..MAX_PN /\ p.from \in 1..ADDRESSES /\ arrived \subseteq 1..MAX_PN
  BY DEF Inv, Packets
<1>3. rcv.pending \in Nat /\ rcv.candidate \in 0..ADDRESSES
  BY <1>1 DEF Receivers
<1>4. p.pn \in Nat \ {0} /\ Numbers(h.list) \subseteq 1..MAX_PN
  <2>1. Numbers(h.list) \subseteq 1..MAX_PN
    BY <1>1, <1>2
  <2>2. p.pn \in Nat \ {0}
    BY <1>2
  <2>3. QED
    BY <2>1, <2>2
<1>5. WellFormed(g) /\ g.list # <<>> /\ Numbers(g.list) \subseteq Numbers(h.list) \cup {p.pn}
  BY <1>1, <1>4, InsertWellFormed
<1>6. g.cutoff <= MAX_PN + 1
  BY <1>1, <1>2, <1>4, InsertCutoff
<1>7. n \in Nat /\ c \in 0..ADDRESSES
  BY <1>2, <1>3, AckAssumption DEF Candidate
<1>8. g \in [list : Seq(Intervals), cutoff : Nat, largest : Nat]
  BY <1>5 DEF WellFormed
<1>9. t = [rcv EXCEPT !.candidate = c, !.hist = g, !.pending = n]
  BY DEF Taken
<1> HIDE DEF h, g, c, n
<1>10. t \in Receivers /\ t.hist = g /\ t.active = rcv.active
  BY <1>1, <1>7, <1>8, <1>9 DEF Receivers
<1>11. QED
  BY <1>1, <1>5, <1>6, <1>10 DEF g, h

\* The two ways a packet is received: refused for want of room, or taken.
LEMMA ReceiveFacts ==
  ASSUME Inv, NEW p \in net, NEW refused \in BOOLEAN, NEW doubled \in BOOLEAN, NEW blocked \in BOOLEAN,
         onUdpPacket(p, refused, doubled, blocked)
  PROVE  /\ net' \subseteq net /\ faults' \in 0..FAULTS /\ UNCHANGED <<snd, done>>
         /\ processed' = (IF p.from # rcv.active \/ refused \/ p.data = 0 THEN processed
                          ELSE processed \cup {p.data})
         /\ \/ /\ refused /\ rcv' = [rcv EXCEPT !.candidate = Candidate(p)]
               /\ UNCHANGED <<acks, arrived>>
            \/ /\ ~refused /\ arrived' = arrived \cup {p.pn}
               /\ \E gap : LET res == ackDecision(Taken(p), gap, blocked)
                           IN  rcv' = res.rcv /\ acks' = acks \cup res.acks
<1> DEFINE h == rcv.hist
           gap == h.largest # 0 /\ p.pn > h.largest + 1 /\ p.pn - h.largest - 1 >= REORDERING
           r == [rcv EXCEPT !.candidate = Candidate(p)]
           taken == [r EXCEPT !.hist = insert(h, p.pn), !.pending = IF p.data = 0 THEN @ ELSE @ + 1]
           fault == refused \/ doubled \/ blocked
<1>1. rcv \in Receivers /\ p.from \in 1..ADDRESSES
  BY DEF Inv, Recording, Packets
<1>2. taken = Taken(p)
  <2> DEFINE c == Candidate(p)
             g == insert(rcv.hist, p.pn)
  <2>1. r.pending = rcv.pending /\ r = [rcv EXCEPT !.candidate = c]
    BY <1>1 DEF Receivers
  <2>2. taken = [r EXCEPT !.hist = g, !.pending = IF p.data = 0 THEN rcv.pending ELSE rcv.pending + 1]
    BY <1>1 DEF Receivers
  <2> HIDE DEF c, g
  <2>3. QED
    BY <1>1, <2>1, <2>2 DEF Taken, Receivers, c, g
<1>3. /\ net' = (IF doubled THEN net ELSE net \ {p}) /\ UNCHANGED <<snd, done>>
      /\ fault => faults > 0
      /\ faults' = (IF fault THEN faults - 1 ELSE faults)
      /\ processed' = (IF p.from # rcv.active \/ refused \/ p.data = 0 THEN processed
                       ELSE processed \cup {p.data})
      /\ IF refused THEN rcv' = r /\ UNCHANGED <<acks, arrived>>
         ELSE /\ rcv' = ackDecision(taken, gap, blocked).rcv
              /\ acks' = acks \cup ackDecision(taken, gap, blocked).acks
              /\ arrived' = arrived \cup {p.pn}
  BY DEF onUdpPacket, suppressAck
<1>4. faults' \in 0..FAULTS
  BY <1>3, FaultStep DEF Inv
<1> HIDE DEF taken, gap, fault
<1>5. QED
  BY <1>2, <1>3, <1>4

LEMMA ReceiveInv ==
  ASSUME Inv, Receive
  PROVE  Inv'
<1>1. PICK p \in net, refused \in BOOLEAN, doubled \in BOOLEAN, blocked \in BOOLEAN :
        onUdpPacket(p, refused, doubled, blocked)
  BY DEF Receive
<1>2. /\ net' \subseteq net /\ faults' \in 0..FAULTS /\ UNCHANGED <<snd, done>>
      /\ processed' = (IF p.from # rcv.active \/ refused \/ p.data = 0 THEN processed
                       ELSE processed \cup {p.data})
      /\ \/ /\ refused /\ rcv' = [rcv EXCEPT !.candidate = Candidate(p)]
            /\ UNCHANGED <<acks, arrived>>
         \/ /\ ~refused /\ arrived' = arrived \cup {p.pn}
            /\ \E gap : LET res == ackDecision(Taken(p), gap, blocked)
                        IN  rcv' = res.rcv /\ acks' = acks \cup res.acks
  BY <1>1, ReceiveFacts
<1>3. /\ p.pn \in 1..MAX_PN /\ p.data \in 0..MAX_DATA /\ p.from \in 1..ADDRESSES /\ p.pn < snd.next
      /\ rcv \in Receivers /\ arrived \subseteq 1..MAX_PN /\ \A n \in arrived : n < snd.next
  BY DEF Inv, Packets, Recording
<1>4. processed' \subseteq Payloads
  BY <1>2, <1>3, AckAssumption DEF Inv, Payloads
<1>5. CASE refused /\ rcv' = [rcv EXCEPT !.candidate = Candidate(p)] /\ UNCHANGED <<acks, arrived>>
  <2>1. Candidate(p) \in 0..ADDRESSES
    BY <1>3, AckAssumption DEF Candidate, Receivers
  <2>2. /\ rcv' \in Receivers /\ rcv'.hist = rcv.hist /\ rcv'.pending = rcv.pending
        /\ rcv'.timer = rcv.timer
    BY <1>3, <1>5, <2>1 DEF Receivers
  <2>3. Recording(rcv', arrived')
    BY <1>5, <2>2 DEF Inv, Recording
  <2>4. \A frame \in acks' : Truthful(frame, arrived')
    BY <1>5 DEF Inv
  <2>5. QED
    BY <1>2, <1>3, <1>4, <1>5, <2>3, <2>4, ReceiverStep
<1>6. CASE /\ ~refused /\ arrived' = arrived \cup {p.pn}
           /\ \E gap : LET res == ackDecision(Taken(p), gap, blocked)
                       IN  rcv' = res.rcv /\ acks' = acks \cup res.acks
  <2> DEFINE t == Taken(p)
  <2>1. PICK gap : LET res == ackDecision(t, gap, blocked)
                   IN  rcv' = res.rcv /\ acks' = acks \cup res.acks
    BY <1>6
  <2> DEFINE res == ackDecision(t, gap, blocked)
  <2>2. rcv' = res.rcv /\ acks' = acks \cup res.acks
    BY <2>1
  <2>3. /\ t \in Receivers /\ WellFormed(t.hist) /\ t.hist.cutoff <= MAX_PN + 1
        /\ Numbers(t.hist.list) \subseteq arrived' /\ t.hist.list # <<>>
    BY <1>6, TakenFacts
  <2> HIDE DEF t
  <2>4. Decided(t, res)
    BY <2>3, DecisionFacts
  <2> HIDE DEF res
  <2>5. arrived' \subseteq 1..MAX_PN /\ \A n \in arrived' : n < snd.next
    BY <1>3, <1>6
  <2>6. Recording(res.rcv, arrived') /\ \A frame \in res.acks : Truthful(frame, arrived')
    BY <2>3, <2>4, <2>5, DecidedFacts
  <2>7. \A frame \in acks : Truthful(frame, arrived')
    BY <1>6 DEF Inv, Truthful
  <2>8. QED
    BY <1>2, <1>4, <2>2, <2>5, <2>6, <2>7, ReceiverStep
<1>7. QED
  BY <1>2, <1>5, <1>6

LEMMA SendAckInv ==
  ASSUME Inv, SendAckNow
  PROVE  Inv'
<1>1. PICK blocked \in BOOLEAN : SendAck(blocked)
  BY DEF SendAckNow
<1> DEFINE res == sendAckPacket(rcv, blocked)
<1>2. /\ rcv.pending > 0 /\ blocked => faults > 0
      /\ faults' = (IF blocked THEN faults - 1 ELSE faults)
      /\ rcv' = res.rcv /\ acks' = acks \cup res.acks /\ UNCHANGED <<snd, net, arrived, processed, done>>
  BY <1>1 DEF SendAck
<1>3. /\ rcv \in Receivers /\ WellFormed(rcv.hist) /\ rcv.hist.cutoff <= MAX_PN + 1
      /\ Numbers(rcv.hist.list) \subseteq arrived /\ rcv.hist.list # <<>> /\ rcv.pending > 0
  BY <1>1 DEF Inv, Recording, SendAck
<1>4. Decided(rcv, res)
  BY <1>3 DEF sendAckPacket, Decided
<1> HIDE DEF res
<1>5. arrived \subseteq 1..MAX_PN /\ (\A n \in arrived : n < snd.next) /\ processed \subseteq Payloads
  BY DEF Inv
<1>6. Recording(res.rcv, arrived) /\ \A frame \in res.acks : Truthful(frame, arrived)
  BY <1>3, <1>4, <1>5, DecidedFacts
<1>7. faults' \in 0..FAULTS
  BY <1>1, FaultStep DEF Inv, SendAck
<1>8. \A frame \in acks : Truthful(frame, arrived)
  BY DEF Inv
<1>9. QED
  BY <1>2, <1>5, <1>6, <1>7, <1>8, ReceiverStep

\* The path of the receiver alone changes.
LEMMA PathInv ==
  ASSUME Inv, PathValidated \/ PathFailed
  PROVE  Inv'
<1>1. rcv \in Receivers /\ rcv.candidate \in 0..ADDRESSES /\ rcv.candidate # 0 /\ ADDRESSES \in Nat
  BY AckAssumption DEF Inv, Recording, Receivers, PathValidated, PathFailed, NoAddress
<1>2. \/ rcv' = [rcv EXCEPT !.active = rcv.candidate, !.candidate = 0]
      \/ rcv' = [rcv EXCEPT !.candidate = 0]
  BY DEF PathValidated, PathFailed, NoAddress
<1>3. rcv.candidate \in 1..ADDRESSES /\ 0 \in 0..ADDRESSES
  BY <1>1
<1>4. rcv' \in Receivers /\ rcv'.hist = rcv.hist /\ rcv'.pending = rcv.pending /\ rcv'.timer = rcv.timer
  BY <1>1, <1>2, <1>3 DEF Receivers
<1>5. UNCHANGED <<snd, net, acks, faults, arrived, processed, done>>
  BY DEF PathValidated, PathFailed
<1>6. Recording(rcv', arrived')
  BY <1>4, <1>5 DEF Inv, Recording
<1>7. (\A frame \in acks' : Truthful(frame, arrived')) /\ (\A n \in arrived' : n < snd.next)
      /\ net' \subseteq net /\ arrived' \subseteq 1..MAX_PN /\ processed' \subseteq Payloads /\ faults' \in 0..FAULTS
  BY <1>5 DEF Inv
<1>8. QED
  BY <1>5, <1>6, <1>7, ReceiverStep

----------------------------------------------------------------------------
\* The network

LEMMA NetworkInv ==
  ASSUME Inv, Rebind \/ LosePacket \/ LoseAck
  PROVE  Inv'
<1>1. /\ Tracking(snd, done) /\ snd \in Senders /\ snd.address \in 1..ADDRESSES /\ ADDRESSES \in Nat
      /\ faults \in 0..FAULTS
  BY TrackingTypes, AckAssumption DEF Inv
<1>2. CASE Rebind
  <2>1. snd.address + 1 \in 1..ADDRESSES
    BY <1>1, <1>2 DEF Rebind
  <2>2. snd' = [snd EXCEPT !.address = snd.address + 1] /\ UNCHANGED <<rcv, net, acks, faults, arrived, processed, done>>
    BY <1>1, <1>2 DEF Rebind, Senders
  <2>3. /\ snd' \in Senders /\ snd'.next = snd.next /\ snd'.sent = snd.sent
        /\ snd'.unacked = snd.unacked /\ snd'.lost = snd.lost
    BY <1>1, <2>1, <2>2 DEF Senders
  <2>4. Tracking(snd', done)
    BY <1>1, <2>3, SameTracking
  <2>5. snd.next \in Int /\ snd.sent \in Int
    BY TrackingTypes DEF Inv
  <2>6. snd'.next >= snd.next /\ snd'.sent >= snd.sent
    BY <2>3, <2>5
  <2>7. net' \subseteq Packets /\ \A p \in net' : p.pn < snd'.next /\ p.data <= snd'.sent
    BY <2>2, <2>3 DEF Inv
  <2>8. QED
    BY <1>1, <2>2, <2>4, <2>6, <2>7, SenderStep
<1>3. CASE LosePacket \/ LoseAck
  <2>1. /\ net' \subseteq net /\ (\A frame \in acks' : frame \in acks) /\ faults > 0 /\ faults' = faults - 1
        /\ UNCHANGED <<snd, rcv, arrived, processed, done>>
    BY <1>3 DEF LosePacket, LoseAck
  <2>2. Recording(rcv', arrived') /\ \A frame \in acks' : Truthful(frame, arrived')
    BY <2>1 DEF Inv
  <2>3. /\ arrived' \subseteq 1..MAX_PN /\ (\A n \in arrived' : n < snd.next) /\ processed' \subseteq Payloads
        /\ faults' \in 0..FAULTS
    BY <2>1, FaultStep DEF Inv
  <2>4. QED
    BY <2>1, <2>2, <2>3, ReceiverStep
<1>4. QED
  BY <1>2, <1>3

----------------------------------------------------------------------------
\* The theorems

LEMMA InvInit == Init => Inv
<1> SUFFICES ASSUME Init PROVE Inv
  OBVIOUS
<1> USE DEF Init
<1>1. /\ MAX_PN \in Nat /\ MAX_DATA \in Nat /\ MAX_TLP \in Nat /\ ADDRESSES \in Nat \ {0} /\ FAULTS \in Nat
      /\ MAX_RANGES \in Nat \ {0}
  BY AckAssumption, HistoryAssumption
<1>2. snd \in Senders
  BY <1>1 DEF Senders
<1>3. Tracking(snd, done)
  BY <1>2 DEF Tracking
<1>4. WellFormed(rcv.hist) /\ Numbers(rcv.hist.list) = {} /\ rcv.hist.cutoff = 0
  BY <1>1 DEF WellFormed, EmptyHistory, Numbers, Descending
<1>5. rcv \in Receivers
  BY <1>1 DEF Receivers, NoAddress, EmptyHistory
<1>6. Recording(rcv, arrived)
  BY <1>1, <1>4, <1>5 DEF Recording
<1>7. QED
  BY <1>1, <1>3, <1>6 DEF Inv

\* The invariant survives every step, with and without migration.
LEMMA InvStep == Inv /\ [MigrateNext]_vars => Inv'
<1> SUFFICES ASSUME Inv, [MigrateNext]_vars PROVE Inv'
  OBVIOUS
<1>1. CASE SendData
  BY <1>1, SendDataInv
<1>2. CASE SendAckOnly
  BY <1>2, SendAckOnlyInv
<1>3. CASE ReceiveAck
  BY <1>3, ReceiveAckInv
<1>4. CASE RetransTimer
  BY <1>4, RetransTimerInv
<1>5. CASE Retransmit
  BY <1>5, RetransmitInv
<1>6. CASE Receive
  BY <1>6, ReceiveInv
<1>7. CASE SendAckNow
  BY <1>7, SendAckInv
<1>8. CASE LosePacket \/ LoseAck \/ Rebind
  BY <1>8, NetworkInv
<1>9. CASE PathValidated \/ PathFailed
  BY <1>9, PathInv
<1>10. CASE UNCHANGED vars
  BY <1>10 DEF vars, Inv, Tracking, Recording, Truthful
<1>11. QED
  BY <1>1, <1>2, <1>3, <1>4, <1>5, <1>6, <1>7, <1>8, <1>9, <1>10 DEF MigrateNext, Next

\* What both ends know of each other's packets holds in every state, whether
\* or not the sender's address changes.
THEOREM MigrateInvariance == MigrateSpec => []Inv
BY InvInit, InvStep, PTL DEF MigrateSpec

THEOREM Invariance == Spec => []Inv
<1>1. [Next]_vars => [MigrateNext]_vars
  BY DEF MigrateNext
<1>2. QED
  BY <1>1, InvInit, InvStep, PTL DEF Spec

\* The intervals of the history are made of numbers that packets had.
LEMMA ListNumbers ==
  ASSUME NEW l \in Seq(Intervals), Descending(l), NEW n \in Nat, Numbers(l) \subseteq 1..n
  PROVE  l \in Seq([low : 1..n, high : 1..n])
<1>1. Len(l) \in Nat /\ \A i \in 1..Len(l) : l[i] \in Intervals
  BY ListFacts
<1>2. \A i \in 1..Len(l) : l[i].low \in 1..n /\ l[i].high \in 1..n
  BY TopFacts
<1>3. \A i \in 1..Len(l) : l[i] \in [low : 1..n, high : 1..n]
  BY <1>1, <1>2 DEF Intervals
<1>4. l = [i \in 1..Len(l) |-> l[i]]
  OBVIOUS
<1> DEFINE T == [low : 1..n, high : 1..n]
<1> HIDE DEF T
<1>5. [i \in 1..Len(l) |-> l[i]] \in Seq(T)
  BY <1>1, <1>3 DEF T
<1>6. QED
  BY <1>4, <1>5 DEF T

LEMMA ShapeFromInv == Inv => HistoryShape
<1> SUFFICES ASSUME Inv PROVE HistoryShape
  OBVIOUS
<1> DEFINE h == rcv.hist
           l == h.list
<1>1. /\ rcv \in Receivers /\ WellFormed(h) /\ h.cutoff <= MAX_PN + 1 /\ Numbers(l) \subseteq 1..MAX_PN
  BY DEF Inv, Recording
<1>2. /\ h \in [list : Seq(Intervals), cutoff : Nat, largest : Nat] /\ l \in Seq(Intervals) /\ Descending(l)
      /\ Len(l) <= MAX_RANGES /\ h.cutoff \in Nat /\ h.largest \in Nat
      /\ \A i \in 1..Len(l) : h.cutoff <= l[i].low
      /\ IF l = <<>> THEN h.cutoff = 0 /\ h.largest = 0 ELSE l[1].high = h.largest
  BY <1>1 DEF WellFormed
<1>3. MAX_PN \in Nat
  BY AckAssumption
<1> HIDE DEF h, l
<1>4. l \in Seq([low : 1..MAX_PN, high : 1..MAX_PN])
  BY <1>1, <1>2, <1>3, ListNumbers
<1>5. h.cutoff \in 0..(MAX_PN + 1)
  BY <1>1, <1>2, <1>3
<1>6. h.largest \in 0..MAX_PN
  <2>1. CASE l = <<>>
    BY <1>2, <1>3, <2>1
  <2>2. CASE l # <<>>
    <3>1. 1 \in 1..Len(l)
      BY <1>2, <2>2
    <3>2. l[1].high \in 1..MAX_PN
      BY <1>1, <1>2, <3>1, TopFacts
    <3>3. QED
      BY <1>2, <2>2, <3>2
  <2>3. QED
    BY <2>1, <2>2
<1>7. TypeOK
  <2>1. snd \in Senders /\ done \subseteq Payloads
    <3>1. snd \in Senders /\ snd.sent \in 0..MAX_DATA /\ done \subseteq 1..snd.sent
      BY TrackingTypes DEF Inv, Tracking
    <3>2. 1..snd.sent \subseteq Payloads
      BY <3>1, AckAssumption DEF Payloads
    <3>3. QED
      BY <3>1, <3>2
  <2>2. rcv.pending \in Nat /\ rcv.timer \in BOOLEAN /\ rcv.active \in 1..ADDRESSES /\ rcv.candidate \in 0..ADDRESSES
    BY <1>1 DEF Receivers
  <2>3. net \subseteq Packets /\ faults \in 0..FAULTS /\ arrived \subseteq 1..MAX_PN /\ processed \subseteq Payloads
    BY DEF Inv
  <2>4. QED
    BY <1>4, <1>5, <1>6, <2>1, <2>2, <2>3 DEF TypeOK, h, l
<1>8. DOMAIN l = 1..Len(l) /\ Len(l) \in Nat
  BY <1>2
<1>9. /\ \A i \in 1..Len(l) : h.cutoff <= l[i].low /\ l[i].low <= l[i].high
      /\ \A i \in 1..(Len(l) - 1) : l[i + 1].high + 1 < l[i].low
  <2>1. \A i \in 1..(Len(l) - 1) : i \in 1..Len(l) /\ i + 1 \in 1..Len(l) /\ i < i + 1
    BY <1>8
  <2>2. QED
    BY <1>2, <2>1 DEF Descending
<1>10. QED
  BY <1>2, <1>7, <1>8, <1>9 DEF HistoryShape, h, l

\* ReceiveHistory: its intervals stay ordered, apart, few enough and at or
\* above the cutoff, and the first one ends at m_largest.
THEOREM HistoryOrdered == MigrateSpec => []HistoryShape
BY MigrateInvariance, ShapeFromInv, PTL

\* FrameAck: every frame under way decodes and names only packets that were
\* taken, also when the path moves.
THEOREM NoFalseAck == MigrateSpec => []AcksTruthful
<1>1. Inv => AcksTruthful
  BY DEF Inv, Truthful, AcksTruthful
<1>2. QED
  BY <1>1, MigrateInvariance, PTL

\* onUdpPacket, onAckTimeout: whenever an acknowledgement is due its timer
\* runs.
THEOREM AckNotForgotten == MigrateSpec => []AckDue
<1>1. Inv => AckDue
  BY DEF Inv, Recording, AckDue
<1>2. QED
  BY <1>1, MigrateInvariance, PTL

\* SendControl: a payload sent is tracked in exactly one place until it is
\* acknowledged.
THEOREM NothingForgotten == MigrateSpec => []TrackedOnce
<1>1. ASSUME Inv PROVE TrackedOnce
  <2> SUFFICES ASSUME NEW d \in 1..snd.sent
               PROVE  Cardinality({p \in snd.unacked : p.data = d})
                      + Cardinality({i \in DOMAIN snd.lost : snd.lost[i] = d}) = IF d \in done THEN 0 ELSE 1
    BY DEF TrackedOnce
  <2> DEFINE U == {p \in snd.unacked : p.data = d}
             L == {i \in DOMAIN snd.lost : snd.lost[i] = d}
  <2>1. DOMAIN snd.lost = 1..Len(snd.lost)
    BY <1>1, TrackingTypes DEF Inv
  <2>2. /\ \A p, q \in snd.unacked : p.pn = q.pn \/ p.data = q.data => p = q
        /\ \A i, j \in 1..Len(snd.lost) : snd.lost[i] = snd.lost[j] => i = j
        /\ \A p \in snd.unacked, i \in 1..Len(snd.lost) : p.data # snd.lost[i]
        /\ d \in done <=> (\A p \in snd.unacked : p.data # d) /\ \A i \in 1..Len(snd.lost) : snd.lost[i] # d
    BY <1>1 DEF Inv, Tracking
  <2>3. \/ d \in done /\ U = {} /\ L = {}
        \/ d \notin done /\ L = {} /\ \E p : U = {p}
        \/ d \notin done /\ U = {} /\ \E i : L = {i}
    <3>1. CASE d \in done
      BY <2>1, <2>2, <3>1
    <3>2. CASE d \notin done /\ \E p \in snd.unacked : p.data = d
      <4>1. PICK p \in snd.unacked : p.data = d
        BY <3>2
      <4>2. U = {p}
        BY <2>2, <4>1
      <4>3. L = {}
        BY <2>1, <2>2, <4>1
      <4>4. QED
        BY <3>2, <4>2, <4>3
    <3>3. CASE d \notin done /\ \E i \in 1..Len(snd.lost) : snd.lost[i] = d
      <4>1. PICK i \in 1..Len(snd.lost) : snd.lost[i] = d
        BY <3>3
      <4>2. L = {i}
        BY <2>1, <2>2, <4>1
      <4>3. U = {}
        BY <2>2, <4>1
      <4>4. QED
        BY <3>3, <4>2, <4>3
    <3>4. QED
      BY <2>2, <3>1, <3>2, <3>3
  <2> HIDE DEF U, L
  <2>4. Cardinality({}) = 0 /\ \A x : Cardinality({x}) = 1
    BY FS_EmptySet, FS_Singleton
  <2>5. Cardinality(U) + Cardinality(L) = IF d \in done THEN 0 ELSE 1
    <3>1. CASE d \in done /\ U = {} /\ L = {}
      BY <2>4, <3>1
    <3>2. CASE d \notin done /\ L = {} /\ \E p : U = {p}
      <4>1. Cardinality(U) = 1 /\ Cardinality(L) = 0
        BY <2>4, <3>2
      <4>2. QED
        BY <3>2, <4>1
    <3>3. CASE d \notin done /\ U = {} /\ \E i : L = {i}
      <4>1. Cardinality(U) = 0 /\ Cardinality(L) = 1
        BY <2>4, <3>3
      <4>2. QED
        BY <3>3, <4>1
    <3>4. QED
      BY <2>3, <3>1, <3>2, <3>3
  <2>6. QED
    BY <2>5 DEF U, L
<1>2. QED
  BY <1>1, MigrateInvariance, PTL

----------------------------------------------------------------------------
\* One address: what is acknowledged was handed over

\* What is left to show of a step in which nothing new is tracked.
LEMMA HandedKept ==
  ASSUME Handed, snd'.address = snd.address, snd'.unacked \subseteq snd.unacked, rcv'.active = rcv.active,
         net' \subseteq net, processed \subseteq processed', done' \subseteq processed',
         \A q \in snd.unacked : q.pn \in arrived' => q.data \in processed'
  PROVE  Handed'
BY DEF Handed

LEMMA HandedSend ==
  ASSUME Inv, Handed, SendData \/ SendAckOnly
  PROVE  Handed'
<1> DEFINE d == IF SendData THEN snd.sent + 1 ELSE 0
           new == [pn |-> snd.next, data |-> snd.sent + 1]
           p == Packet(snd.next, d)
<1>1. /\ snd \in Senders /\ snd.next \in Int /\ snd.address = 1 /\ rcv.active = 1
      /\ \A q \in snd.unacked : q.pn \in Int /\ q.pn < snd.next
  <2>1. snd \in Senders /\ snd.next \in Int /\ \A q \in snd.unacked : q.pn \in Int
    BY TrackingTypes DEF Inv
  <2>2. \A q \in snd.unacked : q.pn < snd.next
    BY DEF Inv, Tracking
  <2>3. QED
    BY <2>1, <2>2 DEF Handed
<1>2. /\ \A q \in net : q.pn \in Int /\ q.pn < snd.next
      /\ \A n \in arrived : n \in Int /\ n < snd.next
  BY DEF Inv, Packets
<1>3. /\ snd'.address = snd.address /\ net' = net \cup {p} /\ UNCHANGED <<rcv, arrived, processed, done>>
      /\ snd'.unacked = IF SendData THEN snd.unacked \cup {new} ELSE snd.unacked
  <2>1. CASE SendData
    <3>1. /\ snd' = [snd EXCEPT !.next = snd.next + 1, !.sent = snd.sent + 1, !.unacked = snd.unacked \cup {new}]
          /\ net' = net \cup {Packet(snd.next, snd.sent + 1)} /\ UNCHANGED <<rcv, arrived, processed, done>>
      BY <1>1, <2>1 DEF SendData, Packet, Senders
    <3>2. snd'.address = snd.address /\ snd'.unacked = snd.unacked \cup {new}
      BY <1>1, <3>1 DEF Senders
    <3>3. QED
      BY <2>1, <3>1, <3>2
  <2>2. CASE ~SendData
    <3>1. SendAckOnly
      BY <2>2
    <3>2. /\ snd' = [snd EXCEPT !.next = snd.next + 1]
          /\ net' = net \cup {Packet(snd.next, 0)} /\ UNCHANGED <<rcv, arrived, processed, done>>
      BY <1>1, <3>1 DEF SendAckOnly, Senders
    <3>3. snd'.address = snd.address /\ snd'.unacked = snd.unacked
      BY <1>1, <3>2 DEF Senders
    <3>4. QED
      BY <2>2, <3>2, <3>3
  <2>3. QED
    BY <2>1, <2>2
<1>4. p.pn = snd.next /\ p.data = d /\ p.from = 1 /\ new.pn = snd.next /\ (SendData => new.data = d)
  BY <1>1 DEF Packet
<1> HIDE DEF p, new, d
<1>5. \A r \in net' : r.from = 1
  BY <1>3, <1>4 DEF Handed
<1>6. ASSUME NEW r \in net', NEW q \in snd'.unacked, r.pn = q.pn PROVE r.data = q.data
  <2>1. CASE r \in net /\ q \in snd.unacked
    BY <1>6, <2>1 DEF Handed
  <2>2. CASE r = p /\ q = new /\ SendData
    BY <1>4, <2>2
  <2>3. CASE r \in net /\ q = new
    BY <1>1, <1>2, <1>4, <1>6, <2>3
  <2>4. CASE r = p /\ q \in snd.unacked
    BY <1>1, <1>4, <1>6, <2>4
  <2>5. QED
    BY <1>3, <2>1, <2>2, <2>3, <2>4
<1>7. ASSUME NEW q \in snd'.unacked, q.pn \in arrived PROVE q.data \in processed
  <2>1. q # new
    BY <1>1, <1>2, <1>4, <1>7
  <2>2. q \in snd.unacked
    BY <1>3, <2>1
  <2>3. QED
    BY <1>7, <2>2 DEF Handed
<1>8. QED
  BY <1>1, <1>3, <1>5, <1>6, <1>7 DEF Handed

LEMMA HandedAck ==
  ASSUME Inv, Handed, ReceiveAck
  PROVE  Handed'
<1>1. PICK frame \in acks : AckArrives(frame)
  BY DEF ReceiveAck
<1>2. SameNumbers /\ done' \subseteq done \cup {p.data : p \in OnAckRemoves(frame)}
  BY <1>1, ReceiveAckFacts
<1>3. UNCHANGED <<rcv, net, arrived, processed>>
  BY <1>1 DEF AckArrives
<1>4. Acknowledged(frame) \subseteq arrived
  BY DEF Inv, Truthful
<1>5. \A p \in OnAckRemoves(frame) : p.data \in processed
  BY <1>4 DEF OnAckRemoves, Handed
<1>6. done' \subseteq processed
  BY <1>2, <1>5 DEF Handed
<1>7. QED
  BY <1>2, <1>3, <1>6, HandedKept DEF SameNumbers, Handed

LEMMA HandedRetransmit ==
  ASSUME Inv, Handed, Retransmit
  PROVE  Handed'
<1>1. PICK k \in 1..Len(snd.lost) :
        /\ snd'.address = snd.address /\ snd'.unacked = snd.unacked \cup Named(k)
        /\ net' = net \cup Again(k) /\ snd.next + Len(snd.lost) <= MAX_PN + 1
  BY RetransmitFacts
<1>2. UNCHANGED <<rcv, acks, arrived, processed, done>>
  BY DEF Retransmit
<1>3. /\ snd.next \in Int /\ snd.address = 1 /\ rcv.active = 1
      /\ \A q \in snd.unacked : q.pn \in Int /\ q.pn < snd.next
  <2>1. snd \in Senders /\ snd.next \in Int /\ \A q \in snd.unacked : q.pn \in Int
    BY TrackingTypes DEF Inv
  <2>2. \A q \in snd.unacked : q.pn < snd.next
    BY DEF Inv, Tracking
  <2>3. QED
    BY <2>1, <2>2 DEF Handed
<1>4. /\ \A q \in net : q.pn \in Int /\ q.pn < snd.next
      /\ \A n \in arrived : n \in Int /\ n < snd.next
  BY DEF Inv, Packets
<1>5. /\ \A p \in Again(k) : \E i \in 1..k : p.pn = snd.next + i - 1 /\ p.data = snd.lost[i] /\ p.from = snd.address
      /\ \A q \in Named(k) : \E i \in 1..k : q.pn = snd.next + i - 1 /\ q.data = snd.lost[i]
  BY <1>1, AgainFacts
<1>6. /\ \A p \in Again(k) : p.from = 1 /\ p.pn \in Int /\ p.pn >= snd.next
      /\ \A q \in Named(k) : q.pn \in Int /\ q.pn >= snd.next
  <2>1. k \in Int /\ \A i \in 1..k : snd.next + i - 1 \in Int /\ snd.next + i - 1 >= snd.next
    BY <1>3
  <2>2. ASSUME NEW p \in Again(k) PROVE p.from = 1 /\ p.pn \in Int /\ p.pn >= snd.next
    <3>1. PICK i \in 1..k : p.pn = snd.next + i - 1 /\ p.from = snd.address
      BY <1>5
    <3>2. QED
      BY <1>3, <2>1, <3>1
  <2>3. ASSUME NEW q \in Named(k) PROVE q.pn \in Int /\ q.pn >= snd.next
    <3>1. PICK i \in 1..k : q.pn = snd.next + i - 1
      BY <1>5
    <3>2. QED
      BY <2>1, <3>1
  <2>4. QED
    BY <2>2, <2>3
<1>7. \A p \in net' : p.from = 1
  BY <1>1, <1>6 DEF Handed
<1>8. ASSUME NEW p \in net', NEW q \in snd'.unacked, p.pn = q.pn PROVE p.data = q.data
  <2>1. CASE p \in net /\ q \in snd.unacked
    BY <1>8, <2>1 DEF Handed
  <2>2. CASE p \in Again(k) /\ q \in Named(k)
    <3>1. PICK i \in 1..k : p.pn = snd.next + i - 1 /\ p.data = snd.lost[i]
      BY <1>5, <2>2
    <3>2. PICK j \in 1..k : q.pn = snd.next + j - 1 /\ q.data = snd.lost[j]
      BY <1>5, <2>2
    <3>3. i = j
      <4>1. p.pn = snd.next + i - 1 /\ q.pn = snd.next + j - 1 /\ p.pn = q.pn
        BY <1>8, <3>1, <3>2
      <4>2. k \in Int /\ i \in Int /\ j \in Int
        OBVIOUS
      <4>3. QED
        BY <1>3, <4>1, <4>2
    <3>4. QED
      BY <3>1, <3>2, <3>3
  <2>3. CASE p \in net /\ q \in Named(k)
    BY <1>3, <1>4, <1>6, <1>8, <2>3
  <2>4. CASE p \in Again(k) /\ q \in snd.unacked
    BY <1>3, <1>6, <1>8, <2>4
  <2>5. QED
    BY <1>1, <2>1, <2>2, <2>3, <2>4
<1>9. ASSUME NEW q \in snd'.unacked, q.pn \in arrived PROVE q.data \in processed
  <2>1. q \notin Named(k)
    BY <1>3, <1>4, <1>6, <1>9
  <2>2. q \in snd.unacked
    BY <1>1, <2>1
  <2>3. QED
    BY <1>9, <2>2 DEF Handed
<1>10. QED
  BY <1>1, <1>2, <1>3, <1>7, <1>8, <1>9 DEF Handed

LEMMA HandedReceive ==
  ASSUME Inv, Handed, Receive
  PROVE  Handed'
<1>1. PICK p \in net, refused \in BOOLEAN, doubled \in BOOLEAN, blocked \in BOOLEAN :
        onUdpPacket(p, refused, doubled, blocked)
  BY DEF Receive
<1>2. /\ net' \subseteq net /\ UNCHANGED <<snd, done>>
      /\ processed' = (IF p.from # rcv.active \/ refused \/ p.data = 0 THEN processed
                       ELSE processed \cup {p.data})
      /\ \/ /\ refused /\ rcv' = [rcv EXCEPT !.candidate = Candidate(p)]
            /\ UNCHANGED <<acks, arrived>>
         \/ /\ ~refused /\ arrived' = arrived \cup {p.pn}
            /\ \E gap : LET res == ackDecision(Taken(p), gap, blocked)
                        IN  rcv' = res.rcv /\ acks' = acks \cup res.acks
  BY <1>1, ReceiveFacts
<1>3. rcv \in Receivers /\ p.from = rcv.active
  BY DEF Inv, Recording, Handed
<1>4. \A q \in snd.unacked : q.data # 0
  BY TrackingTypes DEF Inv
<1>5. processed \subseteq processed' /\ done' \subseteq processed'
  BY <1>2 DEF Handed
<1>6. CASE refused /\ rcv' = [rcv EXCEPT !.candidate = Candidate(p)] /\ UNCHANGED <<acks, arrived>>
  <2>1. rcv'.active = rcv.active
    BY <1>3, <1>6 DEF Receivers
  <2>2. \A q \in snd.unacked : q.pn \in arrived' => q.data \in processed'
    BY <1>5, <1>6 DEF Handed
  <2>3. QED
    BY <1>2, <1>5, <2>1, <2>2, HandedKept
<1>7. CASE /\ ~refused /\ arrived' = arrived \cup {p.pn}
           /\ \E gap : LET res == ackDecision(Taken(p), gap, blocked)
                       IN  rcv' = res.rcv /\ acks' = acks \cup res.acks
  <2> DEFINE t == Taken(p)
  <2>1. PICK gap : rcv' = ackDecision(t, gap, blocked).rcv
    BY <1>7
  <2>2. t \in Receivers /\ t.active = rcv.active
    BY TakenFacts
  <2> HIDE DEF t
  <2>3. \/ rcv' = t \/ rcv' = [t EXCEPT !.timer = TRUE] \/ rcv' = [t EXCEPT !.pending = 0, !.timer = FALSE]
    <3>1. Decided(t, ackDecision(t, gap, blocked))
      BY <2>2, DecisionFacts
    <3>2. QED
      BY <2>1, <3>1, Zenon DEF Decided
  <2>4. rcv'.active = rcv.active
    BY <2>2, <2>3 DEF Receivers
  <2>5. ASSUME NEW q \in snd.unacked, q.pn \in arrived' PROVE q.data \in processed'
    <3>1. CASE q.pn \in arrived
      BY <1>5, <3>1 DEF Handed
    <3>2. CASE q.pn = p.pn
      <4>1. p.data = q.data
        BY <3>2 DEF Handed
      <4>2. QED
        BY <1>2, <1>3, <1>4, <1>7, <4>1
    <3>3. QED
      BY <1>7, <2>5, <3>1, <3>2
  <2>6. QED
    BY <1>2, <1>5, <2>4, <2>5, HandedKept
<1>8. QED
  BY <1>2, <1>6, <1>7

LEMMA HandedStep == Inv /\ Handed /\ [Next]_vars => Handed'
<1> SUFFICES ASSUME Inv, Handed, [Next]_vars PROVE Handed'
  OBVIOUS
<1>1. CASE SendData \/ SendAckOnly
  BY <1>1, HandedSend
<1>2. CASE ReceiveAck
  BY <1>2, HandedAck
<1>3. CASE RetransTimer
  <2>1. SameNumbers /\ UNCHANGED <<rcv, net, arrived, processed, done>>
    BY <1>3, RetransTimerFacts DEF RetransTimer
  <2>2. QED
    BY <2>1, HandedKept DEF SameNumbers, Handed
<1>4. CASE Retransmit
  BY <1>4, HandedRetransmit
<1>5. CASE Receive
  BY <1>5, HandedReceive
<1>6. CASE SendAckNow
  <2>1. rcv \in Receivers
    BY DEF Inv, Recording
  <2>2. /\ UNCHANGED <<snd, net, arrived, processed, done>>
        /\ rcv' = [rcv EXCEPT !.timer = TRUE] \/ rcv' = [rcv EXCEPT !.pending = 0, !.timer = FALSE]
    BY <1>6 DEF SendAckNow, SendAck, sendAckPacket
  <2>3. rcv'.active = rcv.active
    BY <2>1, <2>2 DEF Receivers
  <2>4. QED
    BY <2>2, <2>3, HandedKept DEF Handed
<1>7. CASE LosePacket \/ LoseAck
  <2>1. net' \subseteq net /\ UNCHANGED <<snd, rcv, arrived, processed, done>>
    BY <1>7 DEF LosePacket, LoseAck
  <2>2. QED
    BY <2>1, HandedKept DEF Handed
<1>8. CASE UNCHANGED vars
  BY <1>8 DEF vars, Handed
<1>9. QED
  BY <1>1, <1>2, <1>3, <1>4, <1>5, <1>6, <1>7, <1>8 DEF Next

\* onUdpPacket, onAckReceived: as long as the sender keeps its address, it
\* forgets a payload only when the receiver's streams were given it.
THEOREM AckedWasHanded == Spec => []AckedProcessed
<1>1. Init => Handed
  <2> SUFFICES ASSUME Init PROVE Handed
    OBVIOUS
  <2>1. /\ snd.address = 1 /\ snd.unacked = {} /\ rcv.active = 1
        /\ net = {} /\ done = {}
    BY DEF Init
  <2>2. QED
    BY <2>1 DEF Handed
<1>2. Handed => AckedProcessed
  BY Zenon DEF Handed, AckedProcessed
<1>3. QED
  BY <1>1, <1>2, Invariance, HandedStep, PTL DEF Spec

----------------------------------------------------------------------------
\* The history implements the set of numbers it stands for

\* The runs of the numbers of a list are its intervals.
LEMMA RunFacts ==
  ASSUME NEW m \in Seq(Intervals), Descending(m), m # <<>>, NEW R, R = AckSet!RunEnds(Numbers(m))
  PROVE  R = {m[i].high : i \in 1..Len(m)} /\ Cardinality(R) = Len(m) /\ AckSet!Min(R) = m[Len(m)].high
<1> DEFINE n == Len(m)
           f == [i \in 1..n |-> m[i].high]
<1>1. /\ n \in Nat /\ n > 0
      /\ \A j \in 1..n : m[j].low \in Nat /\ m[j].high \in Nat /\ m[j].low <= m[j].high
      /\ \A j, k \in 1..n : j < k => m[k].high + 1 < m[j].low
  <2>1. n \in Nat /\ \A j \in 1..n : m[j].low \in Nat /\ m[j].high \in Nat
    BY ListFacts
  <2>2. n > 0
    BY <2>1
  <2>3. QED
    BY <2>1, <2>2 DEF Descending
<1>2. /\ Numbers(m) \subseteq Nat
      /\ \A x \in Nat : x \in Numbers(m) <=> \E i \in 1..n : m[i].low <= x /\ x <= m[i].high
  BY NumbersFacts
<1>3. ASSUME NEW i \in 1..n PROVE m[i].high \in Numbers(m) /\ m[i].high + 1 \notin Numbers(m)
  <2>1. m[i].high \in Numbers(m)
    BY <1>1, <1>2
  <2>2. ASSUME NEW j \in 1..n, m[j].low <= m[i].high + 1, m[i].high + 1 <= m[j].high PROVE FALSE
    <3>1. /\ m[i].low \in Nat /\ m[i].high \in Nat /\ m[i].low <= m[i].high
          /\ m[j].low \in Nat /\ m[j].high \in Nat /\ m[j].low <= m[j].high
      BY <1>1
    <3>2. CASE j < i
      <4>1. m[i].high + 1 < m[j].low
        BY <1>1, <3>2
      <4>2. QED
        BY <2>2, <3>1, <4>1
    <3>3. CASE i < j
      <4>1. m[j].high + 1 < m[i].low
        BY <1>1, <3>3
      <4>2. QED
        BY <2>2, <3>1, <4>1
    <3>4. CASE i = j
      BY <2>2, <3>1, <3>4
    <3>5. QED
      BY <1>1, <3>2, <3>3, <3>4
  <2>3. m[i].high + 1 \in Nat
    BY <1>1
  <2>4. QED
    BY <1>2, <2>1, <2>2, <2>3
<1>4. ASSUME NEW x \in Numbers(m), x + 1 \notin Numbers(m) PROVE \E i \in 1..n : x = m[i].high
  <2>1. x \in Nat /\ x + 1 \in Nat
    BY <1>2
  <2>2. PICK i \in 1..n : m[i].low <= x /\ x <= m[i].high
    BY <1>2, <2>1
  <2>3. ~(m[i].low <= x + 1 /\ x + 1 <= m[i].high)
    BY <1>2, <1>4, <2>1
  <2>4. m[i].low \in Nat /\ m[i].high \in Nat
    BY <1>1
  <2>5. x = m[i].high
    BY <2>1, <2>2, <2>3, <2>4
  <2>6. QED
    BY <2>5
<1>5. R = {m[i].high : i \in 1..n}
  BY <1>3, <1>4 DEF AckSet!RunEnds
<1>6. Cardinality(R) = n
  <2>1. \A i, j \in 1..n : m[i].high = m[j].high => i = j
    <3> TAKE i, j \in 1..n
    <3>1. /\ m[i].low \in Nat /\ m[i].high \in Nat /\ m[i].low <= m[i].high
          /\ m[j].low \in Nat /\ m[j].high \in Nat /\ m[j].low <= m[j].high
      BY <1>1
    <3>2. CASE j < i
      <4>1. m[i].high + 1 < m[j].low
        BY <1>1, <3>2
      <4>2. QED
        BY <3>1, <4>1
    <3>3. CASE i < j
      <4>1. m[j].high + 1 < m[i].low
        BY <1>1, <3>3
      <4>2. QED
        BY <3>1, <4>1
    <3>4. QED
      BY <1>1, <3>2, <3>3
  <2>2. f \in Injection(1..n, R)
    BY <1>5, <2>1 DEF Injection, IsInjective
  <2>3. f \in Surjection(1..n, R)
    BY <1>5 DEF Surjection
  <2>4. ExistsBijection(1..n, R)
    BY <2>2, <2>3 DEF ExistsBijection, Bijection
  <2>5. QED
    BY <1>1, <2>4, FS_CountingElements
<1>7. AckSet!Min(R) = m[n].high
  <2>1. n \in 1..n /\ m[n].high \in Nat /\ m[n].high \in R
    BY <1>1, <1>5
  <2>2. ASSUME NEW x \in R PROVE x \in Nat /\ m[n].high <= x
    <3>1. PICK i \in 1..n : x = m[i].high
      BY <1>5
    <3>2. m[i].low \in Nat /\ m[i].high \in Nat /\ m[i].low <= m[i].high
      BY <1>1
    <3>3. CASE i = n
      BY <2>1, <3>1, <3>3
    <3>4. CASE i < n
      <4>1. m[n].high + 1 < m[i].low
        BY <1>1, <2>1, <3>4
      <4>2. QED
        BY <2>1, <3>1, <3>2, <4>1
    <3>5. QED
      BY <1>1, <3>3, <3>4
  <2>3. \A x \in R : (\A y \in R : x <= y) => x = m[n].high
    BY <2>1, <2>2
  <2> HIDE DEF n
  <2>4. QED
    BY <2>1, <2>2, <2>3, Zenon DEF AckSet!Min
<1>8. QED
  BY <1>5, <1>6, <1>7, Zenon

\* Recording a number is learning it: what is dropped is the lowest run, and
\* only when there are too many.
LEMMA LearnFacts ==
  ASSUME NEW h, WellFormed(h), NEW pn \in Nat, pn >= h.cutoff, NEW g, g = insert(h, pn),
         NEW all, all = Numbers(h.list) \cup {pn}
  PROVE  /\ g.largest = (IF pn > h.largest THEN pn ELSE h.largest)
         /\ g.cutoff = (IF Cardinality(AckSet!RunEnds(all)) > MAX_RANGES THEN AckSet!Min(AckSet!RunEnds(all)) + 1
                        ELSE h.cutoff)
         /\ Numbers(g.list) = {n \in all : n >= g.cutoff}
<1> DEFINE m == insertIntoList(h.list, pn)
<1>1. Inserted(h, pn, g, m)
  BY InsertedFacts
<1> HIDE DEF m
<1>2. /\ m \in Seq(Intervals) /\ m # <<>> /\ Descending(m) /\ Numbers(m) = all
      /\ g.largest = (IF pn > h.largest THEN pn ELSE h.largest)
      /\ Len(m) <= MAX_RANGES => g.list = m /\ g.cutoff = h.cutoff
      /\ Len(m) > MAX_RANGES => g.list = Front(m) /\ g.cutoff = m[Len(m)].high + 1
  BY <1>1 DEF Inserted, Adds
<1>3. Cardinality(AckSet!RunEnds(all)) = Len(m) /\ AckSet!Min(AckSet!RunEnds(all)) = m[Len(m)].high
  BY <1>2, RunFacts
<1>4. Len(m) \in Nat /\ MAX_RANGES \in Nat \ {0}
  BY <1>2, HistoryAssumption
<1>5. CASE Len(m) > MAX_RANGES
  <2>1. Len(m) > 1
    BY <1>4, <1>5
  <2>2. Numbers(g.list) = {x \in Numbers(m) : x >= g.cutoff}
    BY <1>2, <1>5, <2>1, DropFacts
  <2>3. QED
    BY <1>2, <1>3, <1>5, <2>2
<1>6. CASE Len(m) <= MAX_RANGES
  <2>1. \A n \in Numbers(h.list) : n >= h.cutoff
    <3>1. /\ h.list \in Seq(Intervals) /\ h.cutoff \in Nat
          /\ \A i \in 1..Len(h.list) : h.cutoff <= h.list[i].low
      BY DEF WellFormed
    <3>2. \A i \in 1..Len(h.list) : h.list[i].low \in Nat
      BY <3>1, ListFacts
    <3>3. ASSUME NEW n \in Numbers(h.list) PROVE n >= h.cutoff
      <4>1. n \in Nat
        BY <3>1, NumbersFacts
      <4>2. PICK i \in 1..Len(h.list) : h.list[i].low <= n
        BY <3>1, <4>1, NumbersFacts
      <4>3. QED
        BY <3>1, <3>2, <4>1, <4>2
    <3>4. QED
      BY <3>3
  <2>2. Numbers(g.list) = {x \in all : x >= g.cutoff}
    BY <1>2, <1>6, <2>1
  <2>3. ~(Len(m) > MAX_RANGES)
    BY <1>4, <1>6
  <2>4. QED
    BY <1>2, <1>3, <1>6, <2>2, <2>3
<1>7. QED
  BY <1>4, <1>5, <1>6

\* Every step learns a number or leaves the set alone.
LEMMA AckSetStep ==
  ASSUME Inv, [MigrateNext]_vars
  PROVE  [AckSet!SetNext]_<<Numbers(rcv.hist.list), rcv.hist.cutoff, rcv.hist.largest>>
<1>1. CASE rcv'.hist = rcv.hist
  BY <1>1
<1>2. ASSUME NEW p \in net, rcv'.hist = insert(rcv.hist, p.pn)
      PROVE  [AckSet!SetNext]_<<Numbers(rcv.hist.list), rcv.hist.cutoff, rcv.hist.largest>>
  <2> DEFINE h == rcv.hist
             g == rcv'.hist
             pn == p.pn
             all == Numbers(h.list) \cup {pn}
  <2>1. WellFormed(h) /\ pn \in 1..MAX_PN /\ pn \in Nat /\ h.cutoff \in Nat
    <3>1. WellFormed(h) /\ pn \in 1..MAX_PN
      BY DEF Inv, Recording, Packets
    <3>2. QED
      BY <3>1 DEF WellFormed
  <2>2. CASE pn < h.cutoff
    <3>1. g = h
      BY <1>2, <2>2 DEF insert
    <3>2. QED
      BY <1>1, <3>1
  <2>3. CASE pn >= h.cutoff
    <3>1. /\ g.largest = (IF pn > h.largest THEN pn ELSE h.largest)
          /\ g.cutoff = (IF Cardinality(AckSet!RunEnds(all)) > MAX_RANGES THEN AckSet!Min(AckSet!RunEnds(all)) + 1
                         ELSE h.cutoff)
          /\ Numbers(g.list) = {n \in all : n >= g.cutoff}
      BY <1>2, <2>1, <2>3, LearnFacts
    <3>2. \A S : AckSet!Cardinality(S) = Cardinality(S)
      BY DEF AckSet!Cardinality, Cardinality
    <3>3. AckSet!Learn(pn)
      BY <2>3, <3>1, <3>2 DEF AckSet!Learn
    <3>4. QED
      BY <2>1, <3>3 DEF AckSet!SetNext
  <2>4. QED
    BY <2>1, <2>2, <2>3
<1>3. rcv \in Receivers
  BY DEF Inv, Recording
<1>4. CASE Receive
  <2>1. PICK p \in net, refused \in BOOLEAN, doubled \in BOOLEAN, blocked \in BOOLEAN :
          onUdpPacket(p, refused, doubled, blocked)
    BY <1>4 DEF Receive
  <2>2. \/ rcv' = [rcv EXCEPT !.candidate = Candidate(p)]
        \/ \E gap : rcv' = ackDecision(Taken(p), gap, blocked).rcv
    BY <2>1, ReceiveFacts
  <2>3. CASE rcv' = [rcv EXCEPT !.candidate = Candidate(p)]
    <3>1. rcv'.hist = rcv.hist
      BY <1>3, <2>3 DEF Receivers
    <3>2. QED
      BY <1>1, <3>1
  <2>4. CASE \E gap : rcv' = ackDecision(Taken(p), gap, blocked).rcv
    <3> DEFINE t == Taken(p)
    <3>1. PICK gap : rcv' = ackDecision(t, gap, blocked).rcv
      BY <2>4
    <3>2. t \in Receivers /\ t.hist = insert(rcv.hist, p.pn)
      BY TakenFacts
    <3> HIDE DEF t
    <3>3. \/ rcv' = t \/ rcv' = [t EXCEPT !.timer = TRUE] \/ rcv' = [t EXCEPT !.pending = 0, !.timer = FALSE]
      <4>1. Decided(t, ackDecision(t, gap, blocked))
        BY <3>2, DecisionFacts
      <4>2. QED
        BY <3>1, <4>1, Zenon DEF Decided
    <3>4. rcv'.hist = t.hist
      BY <3>2, <3>3 DEF Receivers
    <3>5. QED
      BY <1>2, <3>2, <3>4
  <2>5. QED
    BY <2>2, <2>3, <2>4
<1>5. CASE SendAckNow \/ PathValidated \/ PathFailed
  <2>1. \/ rcv' = [rcv EXCEPT !.timer = TRUE] \/ rcv' = [rcv EXCEPT !.pending = 0, !.timer = FALSE]
        \/ rcv' = [rcv EXCEPT !.active = rcv.candidate, !.candidate = NoAddress]
        \/ rcv' = [rcv EXCEPT !.candidate = NoAddress]
    BY <1>5 DEF SendAckNow, SendAck, sendAckPacket, PathValidated, PathFailed
  <2>2. rcv'.hist = rcv.hist
    BY <1>3, <2>1 DEF Receivers
  <2>3. QED
    BY <1>1, <2>2
<1>6. CASE UNCHANGED rcv
  BY <1>1, <1>6
<1>7. QED
  <2>1. SendData \/ SendAckOnly \/ RetransTimer \/ Retransmit \/ LosePacket \/ LoseAck \/ Rebind => UNCHANGED rcv
    BY DEF SendData, SendAckOnly, RetransTimer, Retransmit, LosePacket, LoseAck, Rebind
  <2>2. ReceiveAck => UNCHANGED rcv
    BY DEF ReceiveAck, AckArrives
  <2>3. UNCHANGED vars => UNCHANGED rcv
    BY DEF vars
  <2>4. QED
    BY <1>4, <1>5, <1>6, <2>1, <2>2, <2>3 DEF MigrateNext, Next

\* ReceiveHistory stands for a set of numbers of which the lowest run is
\* forgotten, and only when the runs are too many.
THEOREM Refinement == Spec => ImplementsAckSet
<1>1. Init => AckSet!SetInit
  <2> SUFFICES ASSUME Init PROVE AckSet!SetInit
    OBVIOUS
  <2>1. rcv.hist.list = <<>> /\ rcv.hist.cutoff = 0 /\ rcv.hist.largest = 0
    BY DEF Init, EmptyHistory
  <2>2. Numbers(<<>>) = {}
    BY DEF Numbers
  <2>3. QED
    BY <2>1, <2>2 DEF AckSet!SetInit
<1>2. Inv /\ [Next]_vars => [AckSet!SetNext]_<<Numbers(rcv.hist.list), rcv.hist.cutoff, rcv.hist.largest>>
  BY AckSetStep DEF MigrateNext
<1>3. QED
  BY <1>1, <1>2, Invariance, PTL DEF Spec, ImplementsAckSet, AckSet!SetSpec, AckSet!setVars
=============================================================================
