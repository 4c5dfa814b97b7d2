--------------------------- MODULE KcpData_proofs ---------------------------
(***************************************************************************)
(* Proofs about KcpData, for every value of its constants.  Inv            *)
(* (KcpDataInv) is inductive: one lemma per action shows that the action   *)
(* preserves it (NextInv).  The safety properties the runs check, the      *)
(* action property and the refinement of KcpChannel follow.                *)
(***************************************************************************)
EXTENDS KcpDataInv, TLAPS, SequenceTheorems, FiniteSetTheorems, WellFoundedInduction

\* A nonempty set of naturals has a least element, and Min returns it
\* (NextGap, NextUna, FirstPacket).
LEMMA MinProperties ==
  ASSUME NEW S \in SUBSET Nat, S # {}
  PROVE  /\ Min(S) \in S
         /\ \A y \in S : Min(S) <= y
<1> DEFINE R == {ss \in Nat \X Nat : ss[1] < ss[2]}
<1>1. IsWellFoundedOn(R, Nat)
  BY NatLessThanWellFounded DEF OpToRel
<1> HIDE DEF R
<1>2. PICK x \in S : \A y \in S : ~ (<<y, x>> \in R)
  BY <1>1, WFMin, Zenon
<1>3. \A y \in S : x <= y
  <2>1. SUFFICES ASSUME NEW y \in S, y < x PROVE FALSE
    OBVIOUS
  <2>2. <<y, x>> \in Nat \X Nat /\ <<y, x>>[1] = y /\ <<y, x>>[2] = x
    OBVIOUS
  <2>3. <<y, x>> \in R
    BY <2>1, <2>2, Zenon DEF R
  <2>4. QED
    BY <2>3, <1>2
<1>4. QED
  BY <1>3 DEF Min

\* The fields of a fragment are naturals.
LEMMA FragFields == \A f \in Frag : f.psn \in Nat /\ f.frg \in Nat /\ f.wnd \in Nat
BY DEF Frag

\* In a log of whole messages every fragment lies within its message: its
\* head is frg places before it, inside the log.
LEMMA WholeFacts ==
  ASSUME NEW s \in Seq(Frag), NEW k \in Nat, Whole(s, k)
  PROVE \A i \in 1..Len(s) : /\ s[i].frg \in Nat /\ s[i].wnd \in Nat /\ s[i].psn \in Nat
                        /\ s[i].frg < i /\ i - s[i].frg \in 1..Len(s)
<1> TAKE i \in 1..Len(s)
<1>1. s[i] \in Frag
  OBVIOUS
<1>2. s[i].frg < i
  BY DEF Whole, HasHead
<1>3. QED BY <1>1, <1>2, FragFields

\* What concatenating two sequences of fragments gives, position by position.
LEMMA ConcatFrags ==
  \A s, t \in Seq(Frag) :
    /\ s \o t \in Seq(Frag) /\ Len(s) \in Nat /\ Len(s \o t) = Len(s) + Len(t)
    /\ \A i \in 1..Len(s) : (s \o t)[i] = s[i]
    /\ \A i \in 1..Len(t) : (s \o t)[Len(s) + i] = t[i]
OBVIOUS

\* Concatenation of fragment sequences is associative: appending to rcv_queue
\* appends to delivered.
LEMMA AssociateFrags ==
  ASSUME NEW a \in Seq(Frag), NEW b \in Seq(Frag), NEW c \in Seq(Frag)
  PROVE  a \o (b \o c) = (a \o b) \o c
BY ConcatAssociative

\* A sequence that agrees with m fragments of s from d on is that slice of s.
LEMMA SliceFrags ==
  ASSUME NEW s \in Seq(Frag), NEW F \in Seq(Frag), NEW d \in Nat, NEW m \in Nat,
         d + m <= Len(s), Len(F) = m, \A i \in 1..m : F[i] = s[d + i]
  PROVE  F = SubSeq(s, d + 1, d + m)
<1>1. PICK G \in Seq(Frag) : G = SubSeq(s, d + 1, d + m) /\ Len(G) = m /\ \A i \in 1..m : G[i] = s[d + i]
  OBVIOUS
<1>2. \A i \in 1..m : F[i] = G[i]
  BY <1>1
<1>3. F = G
  BY <1>1, <1>2, SeqEqual
<1>4. QED
  BY <1>1, <1>3

\* What is left of a queue once its first k fragments are taken (the move of
\* the flush to snd_buf).
LEMMA SuffixFrags ==
  \A s \in Seq(Frag) : \A k \in 0..Len(s) :
    /\ SubSeq(s, k + 1, Len(s)) \in Seq(Frag) /\ Len(SubSeq(s, k + 1, Len(s))) = Len(s) - k
    /\ \A i \in 1..Len(s) - k : SubSeq(s, k + 1, Len(s))[i] = s[k + i]
OBVIOUS

\* kcp_send keeps the log whole: appending the n fragments of a message with
\* a new psn k gives a log of whole messages.
LEMMA WholeExtended ==
  ASSUME NEW s \in Seq(Frag), NEW F \in Seq(Frag), NEW k \in Nat, NEW n \in Nat, n >= 1,
         Whole(s, k), Len(F) = n, F[1].wnd = n,
         \A i \in 1..n : F[i].psn = k /\ F[i].frg = i - 1
  PROVE Whole(s \o F, k+1)
<1> DEFINE t == s \o F
           L == Len(s)
<1>1. /\ Len(t) = L + n /\ L \in Nat /\ L = Len(s)
      /\ \A i \in 1..L : t[i] = s[i]
      /\ \A i \in 1..n : t[L + i] = F[i]
  <2>1. /\ Len(s \o F) = Len(s) + Len(F) /\ Len(s) \in Nat
        /\ \A i \in 1..Len(s) : (s \o F)[i] = s[i]
        /\ \A i \in 1..Len(F) : (s \o F)[Len(s) + i] = F[i]
    BY ConcatFrags
  <2>2. QED
    BY <2>1
<1> HIDE DEF t, L
<1>0. L \in Nat
  BY <1>1
<1> USE <1>0
<1>2. \A i \in 1..L : s[i].frg \in Nat /\ s[i].wnd \in Nat /\ s[i].psn \in Nat
                        /\ s[i].frg < i /\ i - s[i].frg \in 1..L
  BY WholeFacts, <1>1
<1>12. \A i \in 1..L : t[i] = s[i]
  BY <1>1
<1>5. \A j \in 1..n : t[L + j].psn = k /\ t[L + j].frg = j - 1
  BY <1>1
<1>6. t[L + 1].wnd = n /\ t[L + 1].frg = 0 /\ t[L + 1].psn = k
  BY <1>1, 1 \in 1..n
<1>3. ASSUME NEW i \in 1..L+n PROVE  HasHead(t, k + 1, i)
  <2>1. CASE i \in 1..L
    <3>0. HasHead(s, k, i)
      BY <2>1, <1>1 DEF Whole
    <3>1. PICK h \in 1..L : h = i - s[i].frg
      BY <2>1, <1>2
    <3>2. t[i] = s[i] /\ t[h] = s[h]
      BY <2>1, <3>1, <1>12
    <3>3. s[i].frg \in Nat /\ s[i].psn \in Nat
      BY <2>1, <1>2
    <3>4. QED
      BY <3>0, <3>1, <3>2, <3>3 DEF HasHead
  <2>2. ASSUME NEW j \in 1..n, i = L + j PROVE HasHead(t, k + 1, i)
    <3>1. t[i].frg = j - 1 /\ t[i].psn = k
      BY <2>2, <1>5, Zenon
    <3>2. i - t[i].frg = L + 1
      BY <2>2, <3>1
    <3>3. QED
      BY <3>1, <3>2, <2>2, <1>6 DEF HasHead
  <2>3. i \in 1..L \/ \E j \in 1..n : i = L + j
    <3>1. i \notin 1..L => i - L \in 1..n /\ i = L + (i - L)
      BY <1>1
    <3>2. QED
      BY <3>1
  <2>4. QED
    BY <2>1, <2>2, <2>3
<1>4. ASSUME NEW i \in 1..L+n, t[i].frg = 0
      PROVE  Followed(t, i)
  <2>1. CASE i \in 1..L
    <3>1. t[i] = s[i] /\ s[i].wnd \in Nat
      BY <2>1, <1>12, <1>2
    <3>2. Followed(s, i)
      BY <3>1, <1>4, <2>1, <1>1 DEF Whole
    <3>3. i + s[i].wnd - 1 <= L
      BY <3>2, <1>1 DEF Followed
    <3>4. \A j \in 0 .. s[i].wnd - 1 : i + j \in 1..L
      BY <3>1, <3>3, <2>1
    <3>5. \A j \in 0 .. s[i].wnd - 1 : t[i + j] = s[i + j]
      BY <3>4, <1>12
    <3>6. \A j \in 0 .. s[i].wnd - 1 : s[i + j].psn = s[i].psn /\ s[i + j].frg = j
      BY <3>2 DEF Followed
    <3>7. \A j \in 0 .. t[i].wnd - 1 : t[i + j].psn = t[i].psn /\ t[i + j].frg = j
      BY <3>1, <3>5, <3>6
    <3>8. i + t[i].wnd - 1 <= Len(t)
      BY <3>1, <3>3, <1>1
    <3>9. QED
      BY <3>7, <3>8 DEF Followed
  <2>2. CASE i \notin 1..L
    <3>1. i - L \in 1..n /\ i = L + (i - L)
      BY <2>2, <1>1
    <3>2. PICK j \in 1..n : i = L + j
      BY <3>1
    <3>3. i = L + 1
      <4>1. t[i].frg = j - 1
        BY <3>2, <1>5, Zenon
      <4>2. QED
        BY <4>1, <3>2, <1>4
    <3>4. ASSUME NEW m \in 0 .. n - 1
          PROVE  t[L + 1 + m].psn = k /\ t[L + 1 + m].frg = m
      <4>1. PICK x \in 1..n : L + 1 + m = L + x /\ x - 1 = m
        <5>1. m + 1 \in 1..n /\ L + 1 + m = L + (m + 1) /\ m + 1 - 1 = m
          OBVIOUS
        <5>2. QED
          BY <5>1
      <4>2. t[L + x].psn = k /\ t[L + x].frg = x - 1
        BY <1>5
      <4>3. QED
        BY <4>1, <4>2
    <3>5. QED
      BY <3>3, <3>4, <1>6, <1>1 DEF Followed
  <2>3. QED
    BY <2>1, <2>2
<1>8. ASSUME NEW i \in 1..L+n, NEW j \in 1..L+n, t[i].psn = t[j].psn
      PROVE  i - t[i].frg = j - t[j].frg
  <2>1. \A x \in 1..L+n : x \in 1..L => t[x] = s[x] /\ t[x].psn < k /\ t[x].psn \in Nat
    BY <1>12, <1>1, <1>2 DEF Whole, HasHead
  <2>2. \A x \in 1..L+n : x \notin 1..L => t[x].psn = k /\ t[x].frg = x - L - 1
    <3>1. TAKE x \in 1..L+n
    <3>2. x \notin 1..L => x - L \in 1..n /\ L + (x - L) = x
      BY <1>1
    <3>3. QED
      BY <3>2, <1>5
  <2>3. CASE i \in 1..L /\ j \in 1..L
    <3>1. s[i].psn = s[j].psn => i - s[i].frg = j - s[j].frg
      BY <2>3, <1>1 DEF Whole
    <3>2. QED
      BY <2>3, <3>1, <2>1, <1>8
  <2>4. CASE i \notin 1..L /\ j \notin 1..L
    <3>1. t[i].frg = i - L - 1 /\ t[j].frg = j - L - 1
      BY <2>4, <2>2
    <3>2. QED
      BY <3>1, <1>1
  <2>5. ~ (i \in 1..L /\ j \notin 1..L)
    <3>1. i \in 1..L /\ j \notin 1..L => t[i].psn < k /\ t[i].psn \in Nat /\ t[j].psn = k
      BY <2>1, <2>2
    <3>2. QED
      BY <3>1, <1>8
  <2>6. ~ (j \in 1..L /\ i \notin 1..L)
    <3>1. j \in 1..L /\ i \notin 1..L => t[j].psn < k /\ t[j].psn \in Nat /\ t[i].psn = k
      BY <2>1, <2>2
    <3>2. QED
      BY <3>1, <1>8
  <2>7. QED
    BY <2>3, <2>4, <2>5, <2>6
<1>9. k + 1 <= L + n
  BY <1>1 DEF Whole
<1>10. Whole(t, k + 1)
   BY <1>1, <1>3, <1>4, <1>8, <1>9 DEF Whole
<1>11. QED
   BY <1>10 DEF t

\* The fragments kcp_send cuts a message into: numbered from 0, with the
\* count in the head.
LEMMA FragmentsFacts ==
  ASSUME NEW psn \in Nat, NEW n \in Nat
  PROVE  /\ Channel!Fragments(psn, n) \in Seq(Frag)
         /\ Len(Channel!Fragments(psn, n)) = n
         /\ \A i \in 1..n : /\ Channel!Fragments(psn, n)[i].psn = psn
                            /\ Channel!Fragments(psn, n)[i].frg = i - 1
         /\ n >= 1 => Channel!Fragments(psn, n)[1].wnd = n
BY DEF Channel!Fragments, Frag

\* delivered is a sequence of fragments.
LEMMA DeliveredType ==
  ASSUME TypeOK
  PROVE  delivered \in Seq(Frag) /\ Handed \in Nat
BY DEF TypeOK, RcvTypeOK, delivered, Handed

\* What the assumption on the constants says of the windows and bounds used
\* below.
LEMMA Constants ==
  /\ SND_WND \in Nat /\ SND_WND > 0 /\ RCV_WND \in Nat /\ RCV_WND > 0
  /\ CWNDS \subseteq Nat /\ MAX_FRAGS \in Nat /\ FASTRESEND \in Nat
BY DataAssumption DEF DataAssumption

\* The invariant holds of a fresh connection.
LEMMA InitInv == Init => Inv
<1> SUFFICES ASSUME Init PROVE Inv
  OBVIOUS
<1> USE DEF Init
<1>1. TypeOK
  <2>1. \A T : <<>> \in [DOMAIN <<>> -> T] /\ DOMAIN <<>> = {} /\ <<>> \in Seq(T)
    OBVIOUS
  <2>2. /\ snd_buf \in [DOMAIN snd_buf -> Segment] /\ DOMAIN snd_buf = {}
        /\ rcv_buf \in [DOMAIN rcv_buf -> Frag] /\ DOMAIN rcv_buf = {}
        /\ rcv_packet \in [DOMAIN rcv_packet -> Assembly] /\ DOMAIN rcv_packet = {}
        /\ snd_queue \in Seq(Frag) /\ rcv_queue \in Seq(Frag) /\ ack_item \in Seq(Nat)
        /\ sent \in Seq(Frag) /\ read \in Seq(Frag) /\ net \subseteq Packet
    BY <2>1, Zenon
  <2>3. /\ psn_nxt \in Nat /\ snd_nxt \in Nat /\ snd_una \in Nat /\ rmt_wnd \in Nat
        /\ rcv_nxt \in Nat /\ nrcv_buf \in Int /\ losses \in Nat /\ dups \in Nat
        /\ state \in {"CONNECTED", "DISCONNECTED"} /\ probe_wait \in {0, 1}
    BY Constants
  <2>4. ask_tell \in BOOLEAN
    BY Zenon
  <2>5. QED
    BY <2>2, <2>3, <2>4, Zenon DEF TypeOK, SndTypeOK, RcvTypeOK, NetTypeOK
<1>2. /\ DOMAIN snd_buf = {} /\ DOMAIN rcv_buf = {} /\ DOMAIN rcv_packet = {} /\ net = {}
      /\ snd_nxt = 0 /\ snd_una = 0 /\ rcv_nxt = 0 /\ psn_nxt = 0
      /\ Len(snd_queue) = 0 /\ Len(ack_item) = 0 /\ Len(sent) = 0
  OBVIOUS
<1>3. Handed = 0 /\ Len(delivered) = 0
  BY DEF delivered, Handed
<1> USE <1>1, <1>2, <1>3, Constants
<1> HIDE DEF Init
<1>4. InOrder /\ LogWhole /\ QueueIsTail /\ WindowKept
  BY DEF InOrder, LogWhole, Whole, QueueIsTail, WindowKept
<1>5. Carried /\ ReceiverOrder /\ AcksTrue /\ AckedArrived
  BY DEF Carried, ReceiverOrder, Contiguous, AcksTrue, AckedArrived
<1>6. Assemblies
  BY DEF Assemblies, Fitting
<1>7. QED
  BY <1>4, <1>5, <1>6 DEF Inv

\* The types and ranges the invariant gives, in the form the steps below use.
LEMMA Facts ==
  ASSUME Inv
  PROVE  /\ psn_nxt \in Nat /\ snd_nxt \in Nat /\ snd_una \in Nat /\ rcv_nxt \in Nat
         /\ sent \in Seq(Frag) /\ snd_queue \in Seq(Frag) /\ read \in Seq(Frag)
         /\ rcv_queue \in Seq(Frag) /\ delivered \in Seq(Frag) /\ ack_item \in Seq(Nat)
         /\ Handed \in Nat /\ Handed = Len(delivered) /\ Len(sent) \in Nat
         /\ DOMAIN snd_buf \subseteq Nat /\ DOMAIN rcv_buf \subseteq Nat
         /\ snd_nxt <= Len(sent)
         /\ DOMAIN snd_buf \subseteq 0 .. snd_nxt - 1
         /\ DOMAIN rcv_buf \subseteq 0 .. snd_nxt - 1
<1>1. /\ psn_nxt \in Nat /\ snd_nxt \in Nat /\ snd_una \in Nat /\ rcv_nxt \in Nat
      /\ sent \in Seq(Frag) /\ snd_queue \in Seq(Frag) /\ read \in Seq(Frag)
      /\ rcv_queue \in Seq(Frag) /\ ack_item \in Seq(Nat)
      /\ DOMAIN snd_buf \subseteq Nat /\ DOMAIN rcv_buf \subseteq Nat
  BY Zenon DEF Inv, TypeOK, SndTypeOK, RcvTypeOK
<1>2. delivered \in Seq(Frag) /\ Handed \in Nat /\ Handed = Len(delivered)
  BY DeliveredType DEF Inv, Handed
<1>3. Len(sent) \in Nat /\ Len(snd_queue) \in Nat
  BY <1>1
<1>4. snd_nxt <= Len(sent)
  BY <1>1, <1>3 DEF Inv, QueueIsTail
<1>5. DOMAIN snd_buf \subseteq 0 .. snd_nxt - 1
  BY <1>1 DEF Inv, WindowKept
<1>6. DOMAIN rcv_buf \subseteq 0 .. snd_nxt - 1
  BY <1>1 DEF Inv, Carried
<1>7. QED
  BY <1>1, <1>2, <1>3, <1>4, <1>5, <1>6

\* The counters are naturals: the part of Facts that the arithmetic needs.
LEMMA Counters ==
  ASSUME Inv
  PROVE  /\ psn_nxt \in Nat /\ snd_nxt \in Nat /\ snd_una \in Nat /\ rcv_nxt \in Nat
         /\ Handed \in Nat /\ Len(sent) \in Nat /\ Len(snd_queue) \in Nat /\ rmt_wnd \in Nat
BY Facts DEF Inv, TypeOK, SndTypeOK

\* WholeFacts for the log of the fragments sent so far.
LEMMA LogFacts ==
  ASSUME Inv, NEW i \in 1..Len(sent)
  PROVE  /\ sent[i].frg \in Nat /\ sent[i].wnd \in Nat /\ sent[i].psn \in Nat
         /\ sent[i].frg < i /\ i - sent[i].frg \in 1..Len(sent)
BY WholeFacts, Facts DEF Inv, LogWhole

\* start_sn of every assembly is the serial number of a fragment that was
\* sent.
LEMMA AssemblyStart ==
  ASSUME Inv
  PROVE  \A psn \in DOMAIN rcv_packet : rcv_packet[psn].start_sn + 1 \in 1..Len(sent)
<1> TAKE psn \in DOMAIN rcv_packet
<1>1. PICK sn \in DOMAIN rcv_buf : psn = rcv_buf[sn].psn
  BY DEF Inv, Assemblies, Fitting
<1>2. sn + 1 \in 1..Len(sent) /\ sn \in Nat
  BY Facts
<1>3. rcv_buf[sn] = sent[sn + 1]
  BY DEF Inv, Carried
<1>4. rcv_packet[psn].start_sn = sn - sent[sn + 1].frg
  BY <1>1, <1>3 DEF Inv, Assemblies, Fitting
<1>5. /\ sent[sn + 1].frg \in Nat
      /\ sn + 1 - sent[sn + 1].frg \in 1..Len(sent)
  BY <1>2, LogFacts
<1>6. QED
  BY <1>2, <1>4, <1>5

\* kcp_send preserves the invariant: the log and snd_queue grow by the same
\* whole message.
LEMMA SendStep ==
  ASSUME Inv, NEW n \in 1..MAX_FRAGS, kcp_send(n)
  PROVE  Inv'
<1> DEFINE F == Channel!Fragments(psn_nxt, n)
           L == Len(sent)
<1>1. n \in Nat /\ n >= 1
  BY Constants
<1>2. /\ F \in Seq(Frag) /\ Len(F) = n /\ F[1].wnd = n
      /\ \A i \in 1..n : F[i].psn = psn_nxt /\ F[i].frg = i - 1
  BY <1>1, Facts, FragmentsFacts
<1>3. psn_nxt' = psn_nxt + 1 /\ sent' = sent \o F /\ snd_queue' = snd_queue \o F
  BY DEF kcp_send
<1>4. UNCHANGED <<state, snd_buf, snd_nxt, snd_una, rmt_wnd, probe_wait, rcv_nxt, rcv_buf,
                  rcv_packet, nrcv_buf, rcv_queue, ack_item, ask_tell, net, losses, dups, read>>
  BY DEF kcp_send, rcvVars, netVars
<1>5. UNCHANGED <<delivered, Handed>>
  BY <1>4 DEF delivered, Handed
<1> HIDE DEF F
<1>6. /\ sent' \in Seq(Frag) /\ Len(sent') = L + n
      /\ \A i \in 1..L : sent'[i] = sent[i]
      /\ \A i \in 1..n : sent'[L + i] = F[i]
  <2>1. sent \in Seq(Frag)
    BY Facts
  <2>2. /\ sent \o F \in Seq(Frag) /\ Len(sent \o F) = Len(sent) + Len(F)
        /\ \A i \in 1..Len(sent) : (sent \o F)[i] = sent[i]
        /\ \A i \in 1..Len(F) : (sent \o F)[Len(sent) + i] = F[i]
    BY <2>1, <1>2, ConcatFrags, Zenon
  <2>3. QED
    BY <2>2, <1>2, <1>3, Zenon
<1>7. /\ snd_queue' \in Seq(Frag) /\ Len(snd_queue') = Len(snd_queue) + n
      /\ \A i \in 1..Len(snd_queue) : snd_queue'[i] = snd_queue[i]
      /\ \A i \in 1..n : snd_queue'[Len(snd_queue) + i] = F[i]
  <2>1. snd_queue \in Seq(Frag)
    BY Facts
  <2>2. /\ snd_queue \o F \in Seq(Frag) /\ Len(snd_queue \o F) = Len(snd_queue) + Len(F)
        /\ \A i \in 1..Len(snd_queue) : (snd_queue \o F)[i] = snd_queue[i]
        /\ \A i \in 1..Len(F) : (snd_queue \o F)[Len(snd_queue) + i] = F[i]
    BY <2>1, <1>2, ConcatFrags, Zenon
  <2>3. QED
    BY <2>2, <1>2, <1>3, Zenon
<1>8. L \in Nat /\ snd_nxt \in Nat /\ snd_nxt <= L /\ Handed \in Nat /\ psn_nxt' \in Nat
  BY <1>3, Facts
<1> HIDE DEF L
<1>9. TypeOK'
  BY <1>4, <1>6, <1>7, <1>8, Zenon DEF Inv, TypeOK, SndTypeOK, RcvTypeOK, NetTypeOK
<1>10. InOrder'
  <2>1. Handed <= L /\ \A i \in 1..Handed : delivered[i] = sent[i]
    BY DEF Inv, InOrder, Handed, L
  <2>2. Handed <= Len(sent') /\ \A i \in 1..Handed : delivered[i] = sent'[i]
    BY <2>1, <1>1, <1>6, <1>8
  <2>3. QED
    BY <2>2, <1>5 DEF InOrder, Handed
<1>11. LogWhole'
  BY <1>1, <1>2, <1>3, Facts, WholeExtended DEF Inv, LogWhole
<1>12. QueueIsTail'
  <2>1. L = snd_nxt + Len(snd_queue) /\ Len(snd_queue) \in Nat
    BY Facts DEF Inv, QueueIsTail, L
  <2>2. ASSUME NEW i \in 1..Len(snd_queue) + n PROVE snd_queue'[i] = sent'[snd_nxt + i]
    <3>1. CASE i \in 1..Len(snd_queue)
      <4>1. snd_nxt + i \in 1..L /\ snd_queue[i] = sent[snd_nxt + i]
        BY <3>1, <2>1, <1>8 DEF Inv, QueueIsTail
      <4>2. QED
        BY <4>1, <3>1, <1>6, <1>7
    <3>2. CASE i \notin 1..Len(snd_queue)
      <4>1. PICK j \in 1..n : i = Len(snd_queue) + j /\ snd_nxt + i = L + j
        <5>1. i - Len(snd_queue) \in 1..n
          BY <3>2, <2>1, <1>1
        <5>2. QED
          BY <5>1, <2>1, <1>8
      <4>2. QED
        BY <4>1, <1>6, <1>7
    <3>3. QED
      BY <3>1, <3>2
  <2>3. QED
    BY <2>1, <2>2, <1>1, <1>4, <1>6, <1>7, <1>8 DEF QueueIsTail
<1>13. WindowKept'
  BY <1>4 DEF Inv, WindowKept
<1>14. AckedArrived' /\ AcksTrue'
  BY <1>4, <1>5 DEF Inv, AckedArrived, AcksTrue, Arrived, Handed
<1>15. \A sn \in 0 .. snd_nxt - 1 : sent'[sn + 1] = sent[sn + 1]
  <2>1. \A sn \in 0 .. snd_nxt - 1 : sn + 1 \in 1..L
    BY <1>8
  <2>2. QED
    BY <2>1, <1>6
<1>16. Carried'
  <2>1. \A sn \in DOMAIN snd_buf : snd_buf[sn].seg = sent'[sn + 1]
    BY <1>15, Facts DEF Inv, Carried
  <2>2. \A sn \in DOMAIN rcv_buf : sn < snd_nxt /\ rcv_buf[sn] = sent'[sn + 1]
    BY <1>15, Facts DEF Inv, Carried
  <2>3. ASSUME NEW p \in net, p.cmd = "PUSH" PROVE p.sn < snd_nxt /\ p.seg = sent'[p.sn + 1]
    <3>1. p.sn \in Nat
      BY <2>3 DEF Inv, TypeOK, NetTypeOK, Packet
    <3>2. p.sn < snd_nxt /\ p.seg = sent[p.sn + 1]
      BY <2>3 DEF Inv, Carried
    <3>3. QED
      BY <3>1, <3>2, <1>15, <1>8
  <2>4. QED
    BY <2>1, <2>2, <2>3, <1>4 DEF Carried
<1>17. ReceiverOrder'
  <2>1. Handed <= rcv_nxt /\ rcv_nxt <= snd_nxt /\ (Handed < L => sent[Handed + 1].frg = 0)
    BY DEF Inv, ReceiverOrder, Contiguous, L
  <2>2. Handed < Len(sent') => sent'[Handed + 1].frg = 0
    <3>1. CASE Handed < L
      BY <3>1, <2>1, <1>6, <1>8
    <3>2. CASE Handed = L
      <4>1. 1 \in 1..n /\ F[1].frg = 0
        BY <1>1, <1>2
      <4>2. QED
        BY <4>1, <3>2, <1>6
    <3>3. QED
      BY <3>1, <3>2, <2>1, <1>8, Facts
  <2>3. QED
    BY <2>2, <1>4, <1>5 DEF Inv, ReceiverOrder, Contiguous
<1>18. Assemblies'
  <2>1. \A psn \in DOMAIN rcv_packet : rcv_packet[psn].start_sn + 1 \in 1..L
    BY AssemblyStart DEF L
  <2>2. \A psn \in DOMAIN rcv_packet : rcv_packet[psn].has_head =>
          rcv_packet[psn].expected_frags = sent'[rcv_packet[psn].start_sn + 1].wnd
    BY <2>1, <1>6 DEF Inv, Assemblies, Fitting
  <2>3. QED
    BY <2>2, <1>4 DEF Inv, Assemblies, Fitting
<1>19. QED
  BY <1>9, <1>10, <1>11, <1>12, <1>13, <1>14, <1>16, <1>17, <1>18 DEF Inv

\* A step that touches neither the data nor the acknowledgements, and at most
\* removes packets, preserves the invariant.
LEMMA FrameStep ==
  ASSUME Inv, TypeOK', net' \subseteq net,
         UNCHANGED <<psn_nxt, snd_queue, snd_buf, snd_nxt, snd_una, rcv_nxt, rcv_buf, rcv_packet,
                     ack_item, sent, delivered>>
  PROVE  Inv'
<1>1. UNCHANGED Handed
  BY DEF Handed
<1>2. \A p \in net' : p \in net
  OBVIOUS
<1>3. InOrder' /\ LogWhole' /\ QueueIsTail' /\ WindowKept'
  BY DEF Inv, InOrder, LogWhole, QueueIsTail, WindowKept
<1>4. Carried'
  BY <1>2 DEF Inv, Carried
<1>5. ReceiverOrder'
  BY <1>1 DEF Inv, ReceiverOrder, Contiguous
<1>6. Assemblies'
  BY DEF Inv, Assemblies, Fitting
<1>7. AcksTrue'
  BY <1>1, <1>2 DEF Inv, AcksTrue, Arrived
<1>8. AckedArrived'
  BY DEF Inv, AckedArrived
<1>9. QED
  BY <1>3, <1>4, <1>5, <1>6, <1>7, <1>8 DEF Inv

\* The fields of a packet in flight, by command.
LEMMA TypesWithin ==
  ASSUME Inv, NEW p \in net
  PROVE  /\ p.cmd = "PUSH" => p.sn \in Nat /\ p.seg \in Frag
         /\ p.cmd = "ACK" => p.sn \in Nat /\ p.una \in Nat /\ p.wnd \in Nat
         /\ p.cmd = "WINS" => p.wnd \in Nat
BY DEF Inv, TypeOK, NetTypeOK, Packet

\* A WINS preserves the invariant: it only sets rmt_wnd.
LEMMA WinsStep ==
  ASSUME Inv, NEW p \in net, WinsReceived(p), net' \subseteq net, losses' \in Nat, dups' \in Nat
  PROVE  Inv'
<1>1. /\ UNCHANGED <<state, psn_nxt, snd_queue, snd_buf, snd_nxt, snd_una, probe_wait>>
      /\ UNCHANGED <<rcv_nxt, rcv_buf, rcv_packet, nrcv_buf, rcv_queue, ack_item, ask_tell>>
      /\ UNCHANGED <<sent, read>>
  BY DEF WinsReceived, rcvVars, histVars
<1>2. rmt_wnd' \in Nat
  BY TypesWithin DEF WinsReceived
<1>3. TypeOK'
  BY <1>1, <1>2, Zenon DEF Inv, TypeOK, SndTypeOK, RcvTypeOK, NetTypeOK
<1>4. UNCHANGED delivered
  BY <1>1 DEF delivered
<1>5. QED
  BY <1>1, <1>3, <1>4, FrameStep

\* A refused PUSH and a WASK preserve the invariant: they only set ask_tell.
LEMMA TellStep ==
  ASSUME Inv, NEW p \in net, PushRefused(p) \/ WaskReceived(p),
         net' \subseteq net, losses' \in Nat, dups' \in Nat
  PROVE  Inv'
<1>1. /\ UNCHANGED <<state, psn_nxt, snd_queue, snd_buf, snd_nxt, snd_una, rmt_wnd, probe_wait>>
      /\ UNCHANGED <<rcv_nxt, rcv_buf, rcv_packet, nrcv_buf, rcv_queue, ack_item>>
      /\ UNCHANGED <<sent, read>>
  BY DEF PushRefused, WaskReceived, sndVars, histVars
<1>2. ask_tell' \in BOOLEAN
  BY Zenon DEF PushRefused, WaskReceived
<1>3. TypeOK'
  BY <1>1, <1>2, Zenon DEF Inv, TypeOK, SndTypeOK, RcvTypeOK, NetTypeOK
<1>4. UNCHANGED delivered
  BY <1>1 DEF delivered
<1>5. QED
  BY <1>1, <1>3, <1>4, FrameStep

\* Losing a packet preserves the invariant.
LEMMA LoseStep ==
  ASSUME Inv, NEW p \in net, Lose(p)
  PROVE  Inv'
<1>1. /\ UNCHANGED <<state, psn_nxt, snd_queue, snd_buf, snd_nxt, snd_una, rmt_wnd, probe_wait>>
      /\ UNCHANGED <<rcv_nxt, rcv_buf, rcv_packet, nrcv_buf, rcv_queue, ack_item, ask_tell>>
      /\ UNCHANGED <<sent, read, dups>>
      /\ net' \subseteq net
  BY DEF Lose, sndVars, rcvVars, histVars
<1>2. losses' \in Nat
  BY DEF Lose, Inv, TypeOK, NetTypeOK
<1>3. TypeOK'
  BY <1>1, <1>2, Zenon DEF Inv, TypeOK, SndTypeOK, RcvTypeOK, NetTypeOK
<1>4. UNCHANGED delivered
  BY <1>1 DEF delivered
<1>5. QED
  BY <1>1, <1>3, <1>4, FrameStep

\* kcp_recv preserves the invariant: it moves fragments from rcv_queue to
\* read, and delivered stays.
LEMMA RecvStep ==
  ASSUME Inv, kcp_recv
  PROVE  Inv'
<1>1. /\ UNCHANGED <<state, psn_nxt, snd_queue, snd_buf, snd_nxt, snd_una, rmt_wnd, probe_wait>>
      /\ UNCHANGED <<rcv_nxt, rcv_buf, rcv_packet, nrcv_buf, ack_item>>
      /\ UNCHANGED <<sent, net, losses, dups>>
      /\ read' = read \o rcv_queue /\ rcv_queue' = <<>>
  BY DEF kcp_recv, sndVars, netVars
<1>2. ask_tell' \in BOOLEAN
  BY Zenon DEF kcp_recv
<1>3. read \o rcv_queue \in Seq(Frag) /\ <<>> \in Seq(Frag)
  BY Facts, ConcatFrags
<1>4. TypeOK'
  BY <1>1, <1>2, <1>3, Zenon DEF Inv, TypeOK, SndTypeOK, RcvTypeOK, NetTypeOK
<1>5. UNCHANGED delivered
  <2>1. (read \o rcv_queue) \o <<>> = read \o rcv_queue
    BY <1>3, ConcatEmptySeq, Zenon
  <2>2. QED
    BY <2>1, <1>1 DEF delivered
<1>6. QED
  BY <1>1, <1>4, <1>5, FrameStep

\* The receiver's flush preserves the invariant: each ACK it sends is of an
\* arrived segment, with una = rcv_nxt.
LEMMA RcvFlushStep ==
  ASSUME Inv, RcvFlush
  PROVE  Inv'
<1>1. /\ UNCHANGED <<state, psn_nxt, snd_queue, snd_buf, snd_nxt, snd_una, rmt_wnd, probe_wait>>
      /\ UNCHANGED <<rcv_nxt, rcv_buf, rcv_packet, nrcv_buf, rcv_queue>>
      /\ UNCHANGED <<sent, read, losses, dups>>
      /\ ack_item' = <<>> /\ ask_tell' = FALSE
  BY DEF RcvFlush, sndVars, histVars
<1>2. UNCHANGED <<delivered, Handed>>
  BY <1>1 DEF delivered, Handed
<1>3. kcp_wnd_unused \in Nat
  BY Constants DEF kcp_wnd_unused, Inv, TypeOK, RcvTypeOK
<1>4. ASSUME NEW p \in net'
      PROVE  \/ p \in net
             \/ \E i \in 1..Len(ack_item) : p = Ack(ack_item[i], rcv_nxt, kcp_wnd_unused)
             \/ p = Wins(kcp_wnd_unused)
  <2>1. DOMAIN ack_item = 1..Len(ack_item)
    BY Facts
  <2>2. QED
    BY <2>1 DEF RcvFlush
<1>5. net' \subseteq Packet
  <2>1. \A i \in 1..Len(ack_item) : Ack(ack_item[i], rcv_nxt, kcp_wnd_unused) \in Packet
    <3>1. \A i \in 1..Len(ack_item) : ack_item[i] \in Nat
      BY Facts
    <3>2. QED
      BY <3>1, <1>3, Facts DEF Ack, Packet
  <2>2. Wins(kcp_wnd_unused) \in Packet
    BY <1>3 DEF Wins, Packet
  <2>3. QED
    BY <1>4, <2>1, <2>2 DEF Inv, TypeOK, NetTypeOK
<1>6. TypeOK'
  <2>1. <<>> \in Seq(Nat) /\ FALSE \in BOOLEAN
    OBVIOUS
  <2>2. QED
    BY <1>1, <1>5, <2>1, Zenon DEF Inv, TypeOK, SndTypeOK, RcvTypeOK, NetTypeOK
<1>7. InOrder' /\ LogWhole' /\ QueueIsTail' /\ WindowKept'
  BY <1>1, <1>2 DEF Inv, InOrder, LogWhole, QueueIsTail, WindowKept
<1>8. Carried'
  <2>1. \A p \in net' : p.cmd = "PUSH" => p \in net
    BY <1>4 DEF Ack, Wins
  <2>2. QED
    BY <1>1, <2>1 DEF Inv, Carried
<1>9. ReceiverOrder' /\ Assemblies'
  BY <1>1, <1>2 DEF Inv, ReceiverOrder, Contiguous, Assemblies, Fitting
<1>10. AcksTrue'
  <2>1. ASSUME NEW p \in net', p.cmd = "ACK" PROVE Arrived(p.sn) /\ p.una <= rcv_nxt
    <3>1. CASE p \in net
      BY <3>1, <2>1 DEF Inv, AcksTrue
    <3>2. ASSUME NEW i \in 1..Len(ack_item), p = Ack(ack_item[i], rcv_nxt, kcp_wnd_unused)
          PROVE  Arrived(p.sn) /\ p.una <= rcv_nxt
      <4>1. p.sn = ack_item[i] /\ p.una = rcv_nxt
        BY <3>2 DEF Ack
      <4>2. QED
        BY <4>1, Facts DEF Inv, AcksTrue
    <3>3. p # Wins(kcp_wnd_unused)
      BY <2>1 DEF Wins
    <3>4. QED
      BY <3>1, <3>2, <3>3, <1>4
  <2>2. Len(ack_item') = 0
    BY <1>1
  <2>3. QED
    BY <1>1, <1>2, <2>1, <2>2 DEF AcksTrue, Arrived
<1>11. AckedArrived'
  BY <1>1, <1>2 DEF Inv, AckedArrived
<1>12. QED
  BY <1>6, <1>7, <1>8, <1>9, <1>10, <1>11 DEF Inv

\* on_kcp_ack_pcaket preserves the invariant: what it removes from snd_buf
\* has arrived.
LEMMA AckStep ==
  ASSUME Inv, NEW p \in net, on_kcp_ack_pcaket(p),
         net' \subseteq net, losses' \in Nat, dups' \in Nat
  PROVE  Inv'
<1> DEFINE left == {sn \in DOMAIN snd_buf : sn # p.sn /\ sn >= p.una}
<1>1. /\ UNCHANGED <<state, psn_nxt, snd_queue, snd_nxt, probe_wait>>
      /\ UNCHANGED <<rcv_nxt, rcv_buf, rcv_packet, nrcv_buf, rcv_queue, ack_item, ask_tell>>
      /\ UNCHANGED <<sent, read>>
      /\ p.cmd = "ACK" /\ rmt_wnd' = p.wnd
  BY DEF on_kcp_ack_pcaket, rcvVars, histVars
<1>2. UNCHANGED <<delivered, Handed>>
  BY <1>1 DEF delivered, Handed
<1>3. rmt_wnd' \in Nat /\ p.sn \in Nat /\ p.una \in Nat
  BY <1>1, TypesWithin
<1>4. CASE p.sn < snd_una \/ p.sn > snd_nxt
  <2>1. UNCHANGED <<snd_buf, snd_una>>
    BY <1>4 DEF on_kcp_ack_pcaket
  <2>2. TypeOK'
    BY <1>1, <1>3, <2>1, Zenon DEF Inv, TypeOK, SndTypeOK, RcvTypeOK, NetTypeOK
  <2>3. QED
    BY <1>1, <1>2, <2>1, <2>2, FrameStep
<1>5. CASE ~ (p.sn < snd_una \/ p.sn > snd_nxt)
  <2>1. /\ snd_buf' = [sn \in left |->
                         IF sn < p.sn
                         THEN [snd_buf[sn] EXCEPT !.fastack = Smaller(@ + 1, FASTRESEND)]
                         ELSE snd_buf[sn]]
        /\ snd_una' = NextUna(left)
    BY <1>5 DEF on_kcp_ack_pcaket
  <2>2. left \subseteq DOMAIN snd_buf /\ left \subseteq snd_una .. snd_nxt - 1
    BY DEF Inv, WindowKept
  <2> HIDE DEF left
  <2>3. DOMAIN snd_buf' = left
    BY <2>1
  <2>4. \A sn \in left : snd_buf'[sn] \in Segment /\ snd_buf'[sn].seg = snd_buf[sn].seg
    <3>1. TAKE sn \in left
    <3>2. snd_buf[sn] \in Segment
      BY <2>2 DEF Inv, TypeOK, SndTypeOK
    <3>3. Smaller(snd_buf[sn].fastack + 1, FASTRESEND) \in Nat
      BY <3>2, Constants DEF Smaller, Segment
    <3>4. /\ [snd_buf[sn] EXCEPT !.fastack = Smaller(@ + 1, FASTRESEND)] \in Segment
          /\ [snd_buf[sn] EXCEPT !.fastack = Smaller(@ + 1, FASTRESEND)].seg = snd_buf[sn].seg
      BY <3>2, <3>3 DEF Segment
    <3>5. QED
      BY <3>2, <3>4, <2>1
  <2>5. /\ snd_una' \in Nat /\ snd_una <= snd_una' /\ snd_una' <= snd_nxt
        /\ \A sn \in left : snd_una' <= sn
    <3>1. CASE left = {}
      BY <3>1, <2>1, Facts DEF NextUna, Inv, WindowKept
    <3>2. CASE left # {}
      <4>1. left \in SUBSET Nat
        BY <2>2, Facts
      <4>2. Min(left) \in left /\ \A y \in left : Min(left) <= y
        BY <4>1, <3>2, MinProperties
      <4>3. snd_una' = Min(left)
        BY <3>2, <2>1 DEF NextUna
      <4>4. snd_una' \in left /\ \A y \in left : snd_una' <= y
        BY <4>2, <4>3
      <4>5. snd_una' \in snd_una .. snd_nxt - 1
        BY <4>4, <2>2
      <4>6. QED
        BY <4>4, <4>5, Counters
    <3>3. QED
      BY <3>1, <3>2
  <2>6. TypeOK'
    <3>1. DOMAIN snd_buf' \subseteq Nat /\ snd_buf' \in [DOMAIN snd_buf' -> Segment]
      <4>1. DOMAIN snd_buf' \subseteq Nat
        BY <2>2, <2>3, Facts
      <4>2. snd_buf' \in [left -> Segment]
        BY <2>1, <2>4
      <4>3. QED
        BY <4>1, <4>2, <2>3
    <3>2. QED
      BY <1>1, <1>3, <2>5, <3>1, Zenon DEF Inv, TypeOK, SndTypeOK, RcvTypeOK, NetTypeOK
  <2>7. InOrder' /\ LogWhole' /\ QueueIsTail'
    BY <1>1, <1>2 DEF Inv, InOrder, LogWhole, QueueIsTail
  <2>8. WindowKept'
    <3>1. snd_nxt <= snd_una' + SND_WND
      BY <2>5, Counters, Constants DEF Inv, WindowKept
    <3>2. DOMAIN snd_buf' \subseteq snd_una' .. snd_nxt - 1
      BY <2>2, <2>3, <2>5, Facts
    <3>3. QED
      BY <1>1, <2>5, <3>1, <3>2 DEF WindowKept
  <2>9. Carried'
    <3>1. \A sn \in left : snd_buf'[sn].seg = sent[sn + 1]
      BY <2>2, <2>4 DEF Inv, Carried
    <3>2. \A q \in net' : q \in net
      OBVIOUS
    <3>3. QED
      BY <1>1, <2>3, <3>1, <3>2 DEF Inv, Carried
  <2>10. ReceiverOrder' /\ Assemblies'
    BY <1>1, <1>2 DEF Inv, ReceiverOrder, Contiguous, Assemblies, Fitting
  <2>11. AcksTrue'
    <3>1. \A q \in net' : q \in net
      OBVIOUS
    <3>2. QED
      BY <1>1, <1>2, <3>1 DEF Inv, AcksTrue, Arrived
  <2>12. AckedArrived'
    <3>1. ASSUME NEW sn \in 0 .. snd_nxt - 1, sn \notin left PROVE Arrived(sn)
      <4>1. CASE sn \notin DOMAIN snd_buf
        BY <4>1, Facts DEF Inv, AckedArrived, Arrived
      <4>2. CASE sn = p.sn
        BY <4>2, <1>1 DEF Inv, AcksTrue
      <4>3. CASE sn < p.una
        <5>1. p.una <= rcv_nxt /\ sn \in Nat
          BY <1>1 DEF Inv, AcksTrue
        <5>2. sn < Handed \/ sn \in Handed .. rcv_nxt - 1
          BY <5>1, <4>3, <1>3, Counters
        <5>3. QED
          BY <5>2 DEF Inv, ReceiverOrder, Contiguous, Arrived
      <4>4. QED
        BY <3>1, <4>1, <4>2, <4>3, <1>3 DEF left
    <3>2. QED
      BY <1>1, <1>2, <2>3, <3>1 DEF AckedArrived, Arrived, Handed
  <2>13. QED
    BY <2>6, <2>7, <2>8, <2>9, <2>10, <2>11, <2>12 DEF Inv
<1>6. QED
  BY <1>4, <1>5

\* The flush moves no more segments than are queued, and never beyond the
\* send window.
LEMMA MovedBounds ==
  ASSUME Inv, NEW cwnd \in CWNDS
  PROVE  /\ Moved(cwnd) \in 0 .. Len(snd_queue)
         /\ snd_nxt + Moved(cwnd) <= snd_una + SND_WND
<1>1. /\ snd_una \in Nat /\ snd_nxt \in Nat /\ rmt_wnd \in Nat /\ cwnd \in Nat /\ SND_WND \in Nat
      /\ Len(snd_queue) \in Nat
  BY Facts, Constants DEF Inv, TypeOK, SndTypeOK
<1>2. snd_nxt <= snd_una + SND_WND
  BY DEF Inv, WindowKept
<1>3. QED
  BY <1>1, <1>2 DEF Moved, Smaller

\* snd_buf after the move: every segment carries its fragment of the log.
LEMMA FilledFacts ==
  ASSUME Inv, NEW k \in 0 .. Len(snd_queue)
  PROVE  /\ DOMAIN Filled(k) = DOMAIN snd_buf \cup (snd_nxt .. snd_nxt + k - 1)
         /\ \A sn \in DOMAIN Filled(k) : Filled(k)[sn] \in Segment /\ Filled(k)[sn].seg = sent[sn + 1]
<1>1. DOMAIN Filled(k) = DOMAIN snd_buf \cup (snd_nxt .. snd_nxt + k - 1)
  BY DEF Filled
<1>2. ASSUME NEW sn \in DOMAIN snd_buf \cup (snd_nxt .. snd_nxt + k - 1)
      PROVE  Filled(k)[sn] \in Segment /\ Filled(k)[sn].seg = sent[sn + 1]
  <2>1. CASE sn \in DOMAIN snd_buf
    <3>1. Filled(k)[sn] = snd_buf[sn]
      BY <2>1 DEF Filled
    <3>2. snd_buf[sn] \in Segment /\ snd_buf[sn].seg = sent[sn + 1]
      BY <2>1 DEF Inv, TypeOK, SndTypeOK, Carried
    <3>3. QED
      BY <3>1, <3>2
  <2>2. CASE sn \notin DOMAIN snd_buf
    <3>1. PICK i \in 1..Len(snd_queue) : i = sn - snd_nxt + 1 /\ snd_nxt + i = sn + 1
      <4>1. sn - snd_nxt + 1 \in 1..Len(snd_queue) /\ snd_nxt + (sn - snd_nxt + 1) = sn + 1
        BY <2>2, Counters
      <4>2. QED
        BY <4>1
    <3>2. Filled(k)[sn] = [seg |-> snd_queue[i], xmit |-> 0, fastack |-> 0]
      BY <2>2, <3>1 DEF Filled
    <3>3. snd_queue[i] \in Frag /\ snd_queue[i] = sent[sn + 1]
      BY <3>1, Facts DEF Inv, QueueIsTail
    <3>4. QED
      BY <3>2, <3>3 DEF Segment
  <2>3. QED
    BY <2>1, <2>2
<1>3. QED
  BY <1>1, <1>2

\* The send loop changes the counters of the segments, never their data.
LEMMA TransmittedFacts ==
  ASSUME NEW buf, NEW S, NEW F, \A sn \in DOMAIN buf : buf[sn] \in Segment
  PROVE  /\ DOMAIN Transmitted(buf, S, F) = DOMAIN buf
         /\ \A sn \in DOMAIN buf : /\ Transmitted(buf, S, F)[sn] \in Segment
                                   /\ Transmitted(buf, S, F)[sn].seg = buf[sn].seg
<1>1. DOMAIN Transmitted(buf, S, F) = DOMAIN buf
  BY DEF Transmitted
<1>2. ASSUME NEW sn \in DOMAIN buf
      PROVE  /\ Transmitted(buf, S, F)[sn] \in Segment
             /\ Transmitted(buf, S, F)[sn].seg = buf[sn].seg
  <2>1. /\ [buf[sn] EXCEPT !.xmit = @ + 1, !.fastack = 0] \in Segment
        /\ [buf[sn] EXCEPT !.xmit = @ + 1, !.fastack = 0].seg = buf[sn].seg
        /\ [buf[sn] EXCEPT !.xmit = @ + 1] \in Segment
        /\ [buf[sn] EXCEPT !.xmit = @ + 1].seg = buf[sn].seg
    <3>1. PICK r : r = buf[sn] /\ r \in Segment
      OBVIOUS
    <3>2. r.xmit + 1 \in Nat
      BY <3>1 DEF Segment
    <3>3. \A x \in Nat : [r EXCEPT !.xmit = x] \in Segment /\ [r EXCEPT !.xmit = x].seg = r.seg
      BY <3>1 DEF Segment
    <3>4. \A x \in Nat : /\ [r EXCEPT !.xmit = x, !.fastack = 0] \in Segment
                         /\ [r EXCEPT !.xmit = x, !.fastack = 0].seg = r.seg
      BY <3>1 DEF Segment
    <3>5. QED
      BY <3>1, <3>2, <3>3, <3>4
  <2>2. \/ Transmitted(buf, S, F)[sn] = [buf[sn] EXCEPT !.xmit = @ + 1, !.fastack = 0]
        \/ Transmitted(buf, S, F)[sn] = [buf[sn] EXCEPT !.xmit = @ + 1]
        \/ Transmitted(buf, S, F)[sn] = buf[sn]
    BY DEF Transmitted
  <2>3. QED
    BY <2>1, <2>2
<1>3. QED
  BY <1>1, <1>2

\* The sender's flush preserves the invariant, whichever timers are due and
\* whether or not it gives up the connection.
LEMMA FlushStep ==
  ASSUME Inv, NEW cwnd \in CWNDS, NEW askDue, NEW paced, NEW due, Flush(cwnd, askDue, paced, due)
  PROVE  Inv'
<1> DEFINE k    == Moved(cwnd)
           buf  == Filled(k)
           fast == FastDue(buf) \ due
           out  == paced \cup due \cup fast
           buf2 == Transmitted(buf, out, fast)
           over == {sn \in DOMAIN buf2 : buf2[sn].xmit > XMIT_MAX}
           ask  == rmt_wnd = 0 /\ probe_wait = 1 /\ askDue
           wask == IF ask THEN {Wask} ELSE {}
<1>1. /\ probe_wait' = IF rmt_wnd = 0 THEN 1 ELSE 0
      /\ snd_queue' = SubSeq(snd_queue, k + 1, Len(snd_queue))
      /\ snd_nxt' = snd_nxt + k
      /\ paced \subseteq DOMAIN buf /\ due \subseteq DOMAIN buf
  BY DEF Flush
<1>2. \/ state' = "CONNECTED" /\ snd_buf' = buf2
         /\ net' = net \cup wask \cup {Push(sn, buf[sn].seg) : sn \in out}
      \/ state' = "DISCONNECTED" /\ net' = net \cup wask
         /\ snd_buf' = [sn \in DOMAIN buf |-> IF sn <= Min(over) THEN buf2[sn] ELSE buf[sn]]
  BY DEF Flush
<1>3. /\ UNCHANGED <<psn_nxt, snd_una, rmt_wnd, losses, dups>>
      /\ UNCHANGED <<rcv_nxt, rcv_buf, rcv_packet, nrcv_buf, rcv_queue, ack_item, ask_tell>>
      /\ UNCHANGED <<sent, read>>
  BY DEF Flush, rcvVars, histVars
<1>4. UNCHANGED <<delivered, Handed>>
  BY <1>3 DEF delivered, Handed
<1>5. k \in 0 .. Len(snd_queue) /\ snd_nxt + k <= snd_una + SND_WND
  BY MovedBounds
<1>6. /\ DOMAIN buf = DOMAIN snd_buf \cup (snd_nxt .. snd_nxt + k - 1)
      /\ \A sn \in DOMAIN buf : buf[sn] \in Segment /\ buf[sn].seg = sent[sn + 1]
  BY <1>5, FilledFacts
<1>7. out \subseteq DOMAIN buf
  BY <1>1 DEF FastDue
<1> HIDE DEF k
<1>8. k \in Nat /\ DOMAIN buf \subseteq snd_una .. snd_nxt + k - 1 /\ DOMAIN buf \subseteq Nat
  <2>1. k \in Nat
    BY <1>5, Counters
  <2>2. DOMAIN snd_buf \subseteq snd_una .. snd_nxt - 1 /\ snd_una <= snd_nxt
    BY DEF Inv, WindowKept
  <2>3. QED
    BY <1>6, <2>1, <2>2, Counters
<1> HIDE DEF buf
<1>9. /\ DOMAIN buf2 = DOMAIN buf
      /\ \A sn \in DOMAIN buf : buf2[sn] \in Segment /\ buf2[sn].seg = buf[sn].seg
  BY <1>6, TransmittedFacts
<1> HIDE DEF fast, out, buf2, over
<1>10. /\ DOMAIN snd_buf' = DOMAIN buf
       /\ \A sn \in DOMAIN buf : snd_buf'[sn] = buf2[sn] \/ snd_buf'[sn] = buf[sn]
       /\ snd_buf' = [sn \in DOMAIN buf |-> snd_buf'[sn]]
  <2>1. CASE snd_buf' = buf2
    <3>1. buf2 = [sn \in DOMAIN buf2 |-> buf2[sn]]
      BY DEF buf2, Transmitted
    <3>2. QED
      BY <2>1, <3>1, <1>9
  <2>2. CASE snd_buf' = [sn \in DOMAIN buf |-> IF sn <= Min(over) THEN buf2[sn] ELSE buf[sn]]
    BY <2>2
  <2>3. QED
    BY <2>1, <2>2, <1>2
<1>11. \A sn \in DOMAIN buf : snd_buf'[sn] \in Segment /\ snd_buf'[sn].seg = sent[sn + 1]
  BY <1>6, <1>9, <1>10
<1>12. ASSUME NEW p \in net'
       PROVE  \/ p \in net \/ p = Wask
              \/ \E sn \in DOMAIN buf : p = Push(sn, sent[sn + 1])
  <2>1. \A sn \in out : buf[sn].seg = sent[sn + 1] /\ sn \in DOMAIN buf
    BY <1>6, <1>7
  <2>2. \A sn \in out : Push(sn, buf[sn].seg) = Push(sn, sent[sn + 1])
    BY <2>1
  <2>3. wask \subseteq {Wask}
    OBVIOUS
  <2>4. p \in net \/ p \in wask \/ p \in {Push(sn, buf[sn].seg) : sn \in out}
    BY <1>2
  <2>5. QED
    BY <2>1, <2>2, <2>3, <2>4
<1>13. snd_nxt + k <= Len(sent) /\ snd_nxt + k \in Nat
  BY <1>5, <1>8, Counters DEF Inv, QueueIsTail
<1>14. \A sn \in DOMAIN buf : sn + 1 \in 1..Len(sent) /\ sn < snd_nxt + k
  BY <1>8, <1>13, Counters
<1>15. TypeOK'
  <2>1. net' \subseteq Packet
    <3>1. \A sn \in DOMAIN buf : sent[sn + 1] \in Frag
      BY <1>14, Facts
    <3>2. \A sn \in DOMAIN buf : Push(sn, sent[sn + 1]) \in Packet
      BY <3>1, <1>8 DEF Push, Packet
    <3>3. Wask \in Packet
      BY DEF Wask, Packet
    <3>4. QED
      BY <3>2, <3>3, <1>12 DEF Inv, TypeOK, NetTypeOK
  <2>2. snd_queue' \in Seq(Frag)
    BY <1>1, <1>5, Facts
  <2>3. snd_buf' \in [DOMAIN snd_buf' -> Segment] /\ DOMAIN snd_buf' \subseteq Nat
    BY <1>8, <1>10, <1>11
  <2>4. probe_wait' \in {0, 1} /\ state' \in {"CONNECTED", "DISCONNECTED"} /\ snd_nxt' \in Nat
    BY <1>1, <1>2, <1>13
  <2>5. QED
    BY <1>3, <2>1, <2>2, <2>3, <2>4, Zenon DEF Inv, TypeOK, SndTypeOK, RcvTypeOK, NetTypeOK
<1>16. InOrder' /\ LogWhole' /\ Assemblies'
  BY <1>3, <1>4 DEF Inv, InOrder, LogWhole, Assemblies, Fitting
<1>17. QueueIsTail'
  <2>1. /\ Len(snd_queue') = Len(snd_queue) - k
        /\ \A i \in 1 .. Len(snd_queue) - k : snd_queue'[i] = snd_queue[k + i]
    <3>1. snd_queue \in Seq(Frag)
      BY Facts
    <3>2. QED
      BY <3>1, <1>1, <1>5, SuffixFrags
  <2>2. Len(sent) = snd_nxt + Len(snd_queue)
    BY DEF Inv, QueueIsTail
  <2>3. ASSUME NEW i \in 1 .. Len(snd_queue) - k PROVE snd_queue'[i] = sent[snd_nxt + k + i]
    <3>1. PICK j \in 1..Len(snd_queue) : j = k + i /\ snd_nxt + j = snd_nxt + k + i
      <4>1. k + i \in 1..Len(snd_queue) /\ snd_nxt + (k + i) = snd_nxt + k + i
        BY <1>5, <1>8, Counters
      <4>2. QED
        BY <4>1
    <3>2. snd_queue[j] = sent[snd_nxt + j]
      BY DEF Inv, QueueIsTail
    <3>3. QED
      BY <2>1, <3>1, <3>2
  <2>4. Len(sent) = snd_nxt' + Len(snd_queue')
    BY <1>1, <1>8, <2>1, <2>2, Counters
  <2>5. \A i \in 1..Len(snd_queue') : snd_queue'[i] = sent[snd_nxt' + i]
    BY <1>1, <2>1, <2>3
  <2>6. QED
    BY <1>3, <2>4, <2>5 DEF QueueIsTail
<1>18. WindowKept'
  <2>1. snd_una <= snd_nxt + k
    BY <1>8, Counters DEF Inv, WindowKept
  <2>2. /\ snd_una' = snd_una /\ snd_nxt' = snd_nxt + k
        /\ DOMAIN snd_buf' \subseteq snd_una .. snd_nxt + k - 1
    BY <1>1, <1>3, <1>8, <1>10
  <2>3. QED
    <3>1. snd_una' <= snd_nxt'
      BY <2>1, <2>2
    <3>2. snd_nxt' <= snd_una' + SND_WND
      BY <1>5, <2>2
    <3>3. DOMAIN snd_buf' \subseteq snd_una' .. snd_nxt' - 1
      BY <2>2, <1>8, Counters
    <3>4. QED
      BY <3>1, <3>2, <3>3 DEF WindowKept
<1>19. Carried'
  <2>1. \A sn \in DOMAIN snd_buf' : snd_buf'[sn].seg = sent[sn + 1]
    BY <1>10, <1>11
  <2>2. \A sn \in DOMAIN rcv_buf : sn < snd_nxt + k /\ rcv_buf[sn] = sent[sn + 1]
    BY <1>8, Facts DEF Inv, Carried
  <2>3. ASSUME NEW p \in net', p.cmd = "PUSH" PROVE p.sn < snd_nxt + k /\ p.seg = sent[p.sn + 1]
    <3>1. CASE p \in net
      <4>1. p.sn < snd_nxt /\ p.seg = sent[p.sn + 1] /\ p.sn \in Nat
        BY <3>1, <2>3, TypesWithin DEF Inv, Carried
      <4>2. QED
        BY <4>1, <1>8, Counters
    <3>2. ASSUME NEW sn \in DOMAIN buf, p = Push(sn, sent[sn + 1])
          PROVE  p.sn < snd_nxt + k /\ p.seg = sent[p.sn + 1]
      <4>1. p.sn = sn /\ p.seg = sent[sn + 1]
        BY <3>2 DEF Push
      <4>2. QED
        BY <4>1, <1>14
    <3>3. p # Wask
      BY <2>3 DEF Wask
    <3>4. QED
      BY <1>12, <3>1, <3>2, <3>3
  <2>4. QED
    BY <1>1, <1>3, <2>1, <2>2, <2>3 DEF Carried
<1>20. ReceiverOrder'
  <2>1. rcv_nxt <= snd_nxt + k
    BY <1>8, Counters DEF Inv, ReceiverOrder, Contiguous
  <2>2. QED
    BY <1>1, <1>3, <1>4, <2>1 DEF Inv, ReceiverOrder, Contiguous
<1>21. AcksTrue'
  <2>1. \A p \in net' : p.cmd = "ACK" => p \in net
    BY <1>12 DEF Wask, Push
  <2>2. QED
    BY <1>3, <1>4, <2>1 DEF Inv, AcksTrue, Arrived
<1>22. AckedArrived'
  <2>1. ASSUME NEW sn \in 0 .. snd_nxt + k - 1
        PROVE  sn \in DOMAIN buf \/ sn < Len(delivered) \/ sn \in DOMAIN rcv_buf
    <3>1. CASE sn \in 0 .. snd_nxt - 1
      BY <3>1, <1>6 DEF Inv, AckedArrived
    <3>2. CASE sn \in snd_nxt .. snd_nxt + k - 1
      BY <3>2, <1>6
    <3>3. QED
      BY <3>1, <3>2, <1>8, Counters
  <2>2. /\ snd_nxt' = snd_nxt + k /\ DOMAIN snd_buf' = DOMAIN buf
        /\ delivered' = delivered /\ rcv_buf' = rcv_buf
    BY <1>1, <1>3, <1>4, <1>10
  <2>3. QED
    <3>1. \A sn \in 0 .. snd_nxt' - 1 :
            sn \in DOMAIN snd_buf' \/ sn < Len(delivered') \/ sn \in DOMAIN rcv_buf'
      BY <2>1, <2>2, <1>8, Counters
    <3>2. QED
      BY <3>1 DEF AckedArrived
<1>23. QED
  BY <1>15, <1>16, <1>17, <1>18, <1>19, <1>20, <1>21, <1>22 DEF Inv

\* The fragment with serial number sn, its fields and its place in the log.
LEMMA FragmentOfLog ==
  ASSUME Inv, NEW sn \in 0 .. snd_nxt - 1
  PROVE  /\ sn \in Nat /\ sn + 1 \in 1..Len(sent) /\ sent[sn + 1] \in Frag
         /\ sent[sn + 1].frg \in Nat /\ sent[sn + 1].wnd \in Nat /\ sent[sn + 1].psn \in Nat
         /\ sn - sent[sn + 1].frg \in Nat
<1>1. sn \in Nat /\ sn + 1 \in 1..Len(sent)
  BY Facts
<1>2. sent[sn + 1] \in Frag
  BY <1>1, Facts
<1>3. sent[sn + 1].frg < sn + 1
  BY <1>1, LogFacts
<1>4. QED
  BY <1>1, <1>2, <1>3, FragFields

\* Two segments of one message agree on where it starts.
LEMMA SameMessage ==
  ASSUME Inv, NEW x \in 0 .. snd_nxt - 1, NEW y \in 0 .. snd_nxt - 1,
         sent[x + 1].psn = sent[y + 1].psn
  PROVE  x - sent[x + 1].frg = y - sent[y + 1].frg
<1>1. /\ x + 1 \in 1..Len(sent) /\ y + 1 \in 1..Len(sent)
      /\ x \in Nat /\ y \in Nat /\ sent[x + 1].frg \in Nat /\ sent[y + 1].frg \in Nat
  BY FragmentOfLog
<1>2. x + 1 - sent[x + 1].frg = y + 1 - sent[y + 1].frg
  <2>1. \A i, j \in 1..Len(sent) : sent[i].psn = sent[j].psn => i - sent[i].frg = j - sent[j].frg
    BY DEF Inv, LogWhole, Whole
  <2>2. PICK i \in 1..Len(sent), j \in 1..Len(sent) : i = x + 1 /\ j = y + 1
    BY <1>1
  <2>3. sent[i].psn = sent[j].psn
    BY <2>2
  <2>4. i - sent[i].frg = j - sent[j].frg
    BY <2>1, <2>3
  <2>5. PICK a \in Nat, b \in Nat : a = sent[i].frg /\ b = sent[j].frg
    BY <1>1, <2>2
  <2>6. sent[x + 1].frg = a /\ sent[y + 1].frg = b /\ i - a = j - b
    BY <2>2, <2>4, <2>5, Zenon
  <2>7. x + 1 - a = y + 1 - b
    BY <2>2, <2>6, <1>1
  <2>8. QED
    BY <2>6, <2>7, Zenon
<1>3. PICK a \in Nat, b \in Nat : a = sent[x + 1].frg /\ b = sent[y + 1].frg
  BY <1>1, Zenon
<1>4. x + 1 - a = y + 1 - b
  BY <1>2, <1>3, Zenon
<1>5. x - a = y - b
  <2>1. x \in Nat /\ y \in Nat
    BY <1>1, Zenon
  <2>2. QED
    BY <1>4, <2>1, SMT
<1>6. QED
  BY <1>3, <1>5, Zenon

\* What rcv_buf holds was sent under its serial number.
LEMMA BufferedFacts ==
  ASSUME Inv
  PROVE  \A sn \in DOMAIN rcv_buf : sn \in 0 .. snd_nxt - 1 /\ rcv_buf[sn] = sent[sn + 1]
BY Facts DEF Inv, Carried

\* The assembly a fragment joins starts where its message starts, and once
\* the head is there expects the message's fragments.
LEMMA JoinedFacts ==
  ASSUME Inv, NEW sn \in 0 .. snd_nxt - 1, NEW f, f = sent[sn + 1]
  PROVE  /\ Joined(sn, f) \in Assembly
         /\ Joined(sn, f).start_sn = sn - f.frg
         /\ Joined(sn, f).has_head =>
              Joined(sn, f).expected_frags = sent[sn - f.frg + 1].wnd
<1> DEFINE old == IF f.psn \in DOMAIN rcv_packet THEN rcv_packet[f.psn]
                  ELSE [start_sn |-> sn - f.frg, has_head |-> FALSE,
                        expected_frags |-> 0, received_frags |-> 0]
           new == [old EXCEPT !.received_frags = @ + 1]
           head == [new EXCEPT !.has_head = TRUE, !.expected_frags = f.wnd, !.start_sn = sn]
<1>1. f.frg \in Nat /\ f.wnd \in Nat /\ f.psn \in Nat /\ sn \in Nat /\ sn - f.frg \in Nat
  BY FragmentOfLog
<1>2. /\ old \in Assembly /\ old.start_sn = sn - f.frg
      /\ old.has_head => old.expected_frags = sent[sn - f.frg + 1].wnd
  <2>1. CASE f.psn \in DOMAIN rcv_packet
    <3>1. PICK x \in DOMAIN rcv_buf : f.psn = rcv_buf[x].psn
      BY <2>1 DEF Inv, Assemblies, Fitting
    <3>2. x \in 0 .. snd_nxt - 1 /\ rcv_buf[x] = sent[x + 1]
      BY BufferedFacts
    <3>3. rcv_packet[f.psn].start_sn = x - sent[x + 1].frg
      BY <3>1, <3>2 DEF Inv, Assemblies, Fitting
    <3>4. x - sent[x + 1].frg = sn - f.frg
      BY <3>1, <3>2, SameMessage
    <3>5. rcv_packet[f.psn] \in Assembly
      BY <2>1 DEF Inv, TypeOK, RcvTypeOK
    <3>6. rcv_packet[f.psn].has_head =>
            rcv_packet[f.psn].expected_frags = sent[rcv_packet[f.psn].start_sn + 1].wnd
      BY <2>1 DEF Inv, Assemblies, Fitting
    <3>7. old = rcv_packet[f.psn]
      BY <2>1
    <3> HIDE DEF old
    <3>8. QED
      BY <3>3, <3>4, <3>5, <3>6, <3>7
  <2>2. CASE f.psn \notin DOMAIN rcv_packet
    BY <2>2, <1>1 DEF Assembly
  <2>3. QED
    BY <2>1, <2>2
<1> HIDE DEF old
<1>3. /\ new \in Assembly /\ new.start_sn = old.start_sn
      /\ new.has_head = old.has_head /\ new.expected_frags = old.expected_frags
  BY <1>2 DEF Assembly
<1> HIDE DEF new
<1>4. head \in Assembly /\ head.start_sn = sn /\ head.expected_frags = f.wnd
  <2>1. \A a \in Assembly : [a EXCEPT !.has_head = TRUE] \in Assembly
    BY DEF Assembly
  <2>2. \A a \in Assembly : \A x, y \in Nat :
          /\ [a EXCEPT !.expected_frags = x, !.start_sn = y] \in Assembly
          /\ [a EXCEPT !.expected_frags = x, !.start_sn = y].start_sn = y
          /\ [a EXCEPT !.expected_frags = x, !.start_sn = y].expected_frags = x
    BY DEF Assembly
  <2>3. head = [[new EXCEPT !.has_head = TRUE] EXCEPT !.expected_frags = f.wnd, !.start_sn = sn]
    BY <1>3 DEF Assembly
  <2> HIDE DEF head
  <2>4. PICK a \in Assembly : a = [new EXCEPT !.has_head = TRUE]
    BY <2>1, <1>3
  <2>5. head = [a EXCEPT !.expected_frags = f.wnd, !.start_sn = sn]
    BY <2>3, <2>4
  <2>6. f.wnd \in Nat /\ sn \in Nat
    BY <1>1
  <2>7. PICK x \in Nat, y \in Nat : x = f.wnd /\ y = sn
    BY <2>6
  <2>8. head = [a EXCEPT !.expected_frags = x, !.start_sn = y]
    BY <2>5, <2>7
  <2>9. head \in Assembly /\ head.start_sn = y /\ head.expected_frags = x
    BY <2>8 DEF Assembly
  <2>10. QED
    BY <2>7, <2>9
<1>5. Joined(sn, f) = IF f.frg = 0 THEN head ELSE new
  BY Zenon DEF Joined, head, new, old
<1> HIDE DEF head
<1>6. CASE f.frg = 0
  <2>1. Joined(sn, f) = head /\ sn - f.frg = sn
    BY <1>5, <1>6, <1>1
  <2>2. QED
    BY <2>1, <1>4
<1>7. CASE f.frg # 0
  <2>1. Joined(sn, f) = new
    BY <1>5, <1>7
  <2>2. QED
    BY <2>1, <1>2, <1>3
<1>8. QED
  BY <1>6, <1>7

\* The fragment behind the last fragment of a message is the head of the next
\* one.
LEMMA NextHead ==
  ASSUME NEW s \in Seq(Frag), NEW k \in Nat, Whole(s, k), NEW i \in 1..Len(s),
         s[i].frg = 0, s[i].wnd \in Nat, s[i].wnd >= 1, i + s[i].wnd <= Len(s)
  PROVE  s[i + s[i].wnd].frg = 0
<1>1. PICK n \in Nat : n = s[i].wnd /\ n >= 1 /\ i + n <= Len(s)
  OBVIOUS
<1>2. PICK e \in 1..Len(s) : e = i + n
  BY <1>1
<1>3. PICK g \in Nat : g = s[e].frg /\ g < e
  BY WholeFacts
<1>4. PICK h \in 1..Len(s) : h = e - g
  <2>1. e - s[e].frg \in 1..Len(s)
    BY WholeFacts
  <2>2. QED
    BY <2>1, <1>3
<1>5. s[h].frg = 0 /\ g < s[h].wnd /\ s[h].wnd \in Nat
  <2>1. HasHead(s, k, e)
    BY DEF Whole
  <2>2. s[h].wnd \in Nat
    BY WholeFacts
  <2>3. QED
    BY <2>1, <2>2, <1>3, <1>4 DEF HasHead
<1>6. ASSUME g # 0 PROVE FALSE
  <2>1. h < e /\ e = h + g
    BY <1>3, <1>4, <1>6
  <2>2. CASE h = i
    BY <2>1, <2>2, <1>1, <1>2, <1>5
  <2>3. CASE h > i
    <3>1. Followed(s, i)
      BY DEF Whole
    <3>2. PICK j \in 0 .. n - 1 : h = i + j /\ j # 0
      <4>1. h - i \in 0 .. n - 1 /\ h = i + (h - i) /\ h - i # 0
        BY <2>1, <2>3, <1>2
      <4>2. QED
        BY <4>1
    <3>3. s[i + j].frg = j
      BY <3>1, <1>1 DEF Followed
    <3>4. QED
      BY <3>2, <3>3, <1>5
  <2>4. CASE h < i
    <3>1. Followed(s, h)
      BY <1>5 DEF Whole
    <3>2. PICK j \in 0 .. s[h].wnd - 1 : i = h + j /\ j # 0
      <4>1. PICK w \in Nat : w = s[h].wnd /\ g < w
        BY <1>5
      <4>2. i - h \in 0 .. w - 1 /\ i = h + (i - h) /\ i - h # 0
        BY <2>1, <2>4, <1>1, <1>2, <4>1
      <4>3. QED
        BY <4>1, <4>2, Zenon
    <3>3. s[h + j].frg = j
      BY <3>1 DEF Followed
    <3>4. QED
      BY <3>2, <3>3
  <2>5. QED
    BY <2>2, <2>3, <2>4
<1>7. QED
  BY <1>1, <1>2, <1>3, <1>6

\* The head of rcv_packet_list has the least start_sn.
LEMMA FirstPacketFacts ==
  ASSUME NEW asm, DOMAIN asm # {}, \A psn \in DOMAIN asm : asm[psn] \in Assembly
  PROVE  /\ FirstPacket(asm) \in DOMAIN asm
         /\ \A q \in DOMAIN asm : asm[FirstPacket(asm)].start_sn <= asm[q].start_sn
<1> DEFINE S == {asm[psn].start_sn : psn \in DOMAIN asm}
<1>1. S \in SUBSET Nat /\ S # {}
  BY DEF Assembly
<1>2. Min(S) \in S /\ \A y \in S : Min(S) <= y
  <2> HIDE DEF S
  <2> QED BY <1>1, MinProperties
<1>3. PICK psn \in DOMAIN asm : Min(S) = asm[psn].start_sn
  BY <1>2
<1>4. \A q \in DOMAIN asm : asm[psn].start_sn <= asm[q].start_sn
  <2> TAKE q \in DOMAIN asm
  <2>1. asm[q].start_sn \in S
    OBVIOUS
  <2> HIDE DEF S
  <2>2. QED
    BY <2>1, <1>2, <1>3
<1>5. QED
  BY <1>4, Zenon DEF FirstPacket

\* rcv_buf after inserting a new segment.
LEMMA PushedBuffer ==
  ASSUME Inv, NEW sn \in 0 .. snd_nxt - 1, NEW f, f = sent[sn + 1]
  PROVE  /\ DOMAIN Put(rcv_buf, sn, f) = DOMAIN rcv_buf \cup {sn}
         /\ \A x \in DOMAIN Put(rcv_buf, sn, f) :
              x \in 0 .. snd_nxt - 1 /\ Put(rcv_buf, sn, f)[x] = sent[x + 1]
<1>1. /\ DOMAIN Put(rcv_buf, sn, f) = DOMAIN rcv_buf \cup {sn}
      /\ \A x \in DOMAIN rcv_buf \cup {sn} :
           Put(rcv_buf, sn, f)[x] = IF x = sn THEN f ELSE rcv_buf[x]
  BY DEF Put
<1>2. QED
  BY <1>1, BufferedFacts

\* rcv_packet after a fragment has joined its assembly: every assembly still
\* fits what rcv_buf holds.
LEMMA PushedAssemblies ==
  ASSUME Inv, NEW sn \in 0 .. snd_nxt - 1, NEW f, f = sent[sn + 1],
         NEW buf, buf = Put(rcv_buf, sn, f), NEW asm, asm = Put(rcv_packet, f.psn, Joined(sn, f))
  PROVE  Fitting(buf, asm) /\ DOMAIN asm \subseteq Nat /\ \A psn \in DOMAIN asm : asm[psn] \in Assembly
<1>1. /\ DOMAIN buf = DOMAIN rcv_buf \cup {sn}
      /\ \A x \in DOMAIN buf : x \in 0 .. snd_nxt - 1 /\ buf[x] = sent[x + 1]
  <2>1. /\ DOMAIN Put(rcv_buf, sn, f) = DOMAIN rcv_buf \cup {sn}
        /\ \A x \in DOMAIN Put(rcv_buf, sn, f) :
             x \in 0 .. snd_nxt - 1 /\ Put(rcv_buf, sn, f)[x] = sent[x + 1]
    BY PushedBuffer
  <2>2. QED
    BY <2>1, Zenon
<1>2. /\ DOMAIN asm = DOMAIN rcv_packet \cup {f.psn}
      /\ asm[f.psn] = Joined(sn, f)
      /\ \A psn \in DOMAIN asm : psn # f.psn => psn \in DOMAIN rcv_packet /\ asm[psn] = rcv_packet[psn]
  BY DEF Put
<1>3. /\ Joined(sn, f) \in Assembly /\ Joined(sn, f).start_sn = sn - f.frg
      /\ Joined(sn, f).has_head => Joined(sn, f).expected_frags = sent[sn - f.frg + 1].wnd
  BY JoinedFacts
<1>4. /\ DOMAIN rcv_packet = {rcv_buf[x].psn : x \in DOMAIN rcv_buf}
      /\ \A x \in DOMAIN rcv_buf : rcv_packet[rcv_buf[x].psn].start_sn = x - rcv_buf[x].frg
      /\ \A psn \in DOMAIN rcv_packet : rcv_packet[psn].has_head =>
           rcv_packet[psn].expected_frags = sent[rcv_packet[psn].start_sn + 1].wnd
  BY DEF Inv, Assemblies, Fitting
<1>5. DOMAIN rcv_packet \subseteq Nat /\ \A psn \in DOMAIN rcv_packet : rcv_packet[psn] \in Assembly
  BY DEF Inv, TypeOK, RcvTypeOK
<1>6. f.psn \in Nat
  BY FragmentOfLog
<1>7. \A x \in DOMAIN rcv_buf : buf[x] = rcv_buf[x]
  BY <1>1, BufferedFacts
<1>8. buf[sn] = f
  BY <1>1
<1>9. DOMAIN asm = {buf[x].psn : x \in DOMAIN buf}
  BY <1>1, <1>2, <1>4, <1>7, <1>8
<1>10. ASSUME NEW x \in DOMAIN buf PROVE asm[buf[x].psn].start_sn = x - buf[x].frg
  <2>1. CASE buf[x].psn = f.psn
    <3>1. x - sent[x + 1].frg = sn - sent[sn + 1].frg
      BY <1>1, <2>1, SameMessage
    <3>2. QED
      BY <3>1, <2>1, <1>1, <1>2, <1>3
  <2>2. CASE buf[x].psn # f.psn
    BY <2>2, <1>1, <1>2, <1>4, <1>7, <1>8, <1>9
  <2>3. QED
    BY <2>1, <2>2
<1>11. ASSUME NEW psn \in DOMAIN asm, asm[psn].has_head
       PROVE  asm[psn].expected_frags = sent[asm[psn].start_sn + 1].wnd
  <2>1. CASE psn = f.psn
    BY <2>1, <1>2, <1>3, <1>11
  <2>2. CASE psn # f.psn
    BY <2>2, <1>2, <1>4, <1>11
  <2>3. QED
    BY <2>1, <2>2
<1>12. \A psn \in DOMAIN asm : psn \in Nat /\ asm[psn] \in Assembly
  BY <1>2, <1>3, <1>5, <1>6
<1>13. QED
  BY <1>9, <1>10, <1>11, <1>12 DEF Fitting

\* Advancing rcv_nxt stops at the first gap: below it nothing is missing, and
\* it never moves back.
LEMMA GapFacts ==
  ASSUME Inv, NEW sn \in 0 .. snd_nxt - 1, sn >= rcv_nxt, sn < rcv_nxt + RCV_WND,
         NEW buf, DOMAIN buf = DOMAIN rcv_buf \cup {sn},
         NEW nxt, nxt = IF sn = rcv_nxt THEN NextGap(buf, rcv_nxt) ELSE rcv_nxt
  PROVE  nxt \in Nat /\ nxt >= rcv_nxt /\ Contiguous(buf, nxt, Handed)
<1>1. /\ Handed <= rcv_nxt /\ rcv_nxt <= snd_nxt /\ rcv_nxt \notin DOMAIN rcv_buf
      /\ \A x \in Handed .. rcv_nxt - 1 : x \in DOMAIN rcv_buf
      /\ \A x \in DOMAIN rcv_buf : Handed <= x /\ x < rcv_nxt + RCV_WND
      /\ Handed < Len(sent) => sent[Handed + 1].frg = 0
  BY DEF Inv, ReceiverOrder, Contiguous
<1>2. \A x \in DOMAIN buf : x \in 0 .. snd_nxt - 1 /\ Handed <= x /\ x < rcv_nxt + RCV_WND
  BY <1>1, Facts
<1>3. rcv_nxt \in Nat /\ Handed \in Nat /\ snd_nxt \in Nat /\ RCV_WND \in Nat /\ RCV_WND > 0
  BY Counters, Constants
<1>4. CASE sn # rcv_nxt
  BY <1>1, <1>2, <1>3, <1>4 DEF Contiguous
<1>5. CASE sn = rcv_nxt
  <2> DEFINE S == {x \in rcv_nxt .. rcv_nxt + RCV_WND : x \notin DOMAIN buf}
  <2>1. S \in SUBSET Nat /\ rcv_nxt + RCV_WND \in S
    BY <1>2, <1>3
  <2>2. nxt = Min(S)
    BY <1>5 DEF NextGap
  <2>3. nxt \in S /\ \A y \in S : nxt <= y
    <3> HIDE DEF S
    <3> QED BY <2>1, <2>2, MinProperties
  <2>4. nxt \in Nat /\ nxt >= rcv_nxt /\ nxt \notin DOMAIN buf /\ nxt <= rcv_nxt + RCV_WND
    BY <2>3, <1>3
  <2>5. ASSUME NEW x \in Handed .. nxt - 1 PROVE x \in DOMAIN buf
    <3>1. CASE x < rcv_nxt
      BY <3>1, <1>1, <1>3, <2>4
    <3>2. CASE x >= rcv_nxt
      <4>1. x \in rcv_nxt .. rcv_nxt + RCV_WND
        BY <3>2, <2>4, <1>3
      <4>2. ~ (nxt <= x)
        BY <2>4, <1>3
      <4>3. QED
        BY <4>1, <4>2, <2>3
    <3>3. QED
      BY <3>1, <3>2, <1>3, <2>4
  <2>6. nxt <= snd_nxt
    <3>1. CASE nxt = Handed
      BY <3>1, <1>1, <1>3
    <3>2. CASE nxt > Handed
      <4>1. nxt - 1 \in Handed .. nxt - 1
        BY <3>2, <2>4, <1>3
      <4>2. nxt - 1 \in DOMAIN buf
        BY <4>1, <2>5
      <4>3. nxt - 1 \in 0 .. snd_nxt - 1
        BY <4>2, <1>2
      <4>4. QED
        BY <4>3, <2>4, <1>3
    <3>3. QED
      BY <3>1, <3>2, <2>4, <1>1, <1>3
  <2>7. \A x \in DOMAIN buf : Handed <= x /\ x < nxt + RCV_WND
    BY <1>2, <1>3, <2>4
  <2>8. Handed <= nxt
    BY <1>1, <1>3, <2>4
  <2>9. QED
    BY <1>1, <2>4, <2>5, <2>6, <2>7, <2>8 DEF Contiguous
<1>6. QED
  BY <1>4, <1>5

\* An assembly that passes kcp_rcv_packet_is_complete below rcv_nxt is the
\* next undelivered message, all of it.
LEMMA CompleteFacts ==
  ASSUME Inv, NEW buf, NEW asm, NEW nxt \in Nat, NEW first \in DOMAIN asm,
         \A x \in DOMAIN buf : x \in 0 .. snd_nxt - 1 /\ buf[x] = sent[x + 1],
         Fitting(buf, asm), Contiguous(buf, nxt, Handed), asm[first] \in Assembly,
         \A q \in DOMAIN asm : asm[first].start_sn <= asm[q].start_sn,
         kcp_rcv_packet_is_complete(buf, first, asm[first]),
         asm[first].start_sn + asm[first].expected_frags <= nxt
  PROVE  \E n \in Nat : /\ n >= 1 /\ asm[first].expected_frags = n
                        /\ asm[first].start_sn = Handed /\ Handed + n <= nxt
                        /\ FragmentsOf(buf, first) = Handed .. Handed + n - 1
                        /\ Handed + 1 \in 1..Len(sent) /\ sent[Handed + 1].wnd = n
                        /\ sent[Handed + 1].frg = 0
<1>1. PICK start \in Nat, n \in Nat : /\ start = asm[first].start_sn
                                      /\ n = asm[first].expected_frags
  BY DEF Assembly
<1>2. /\ n # 0 /\ start + n <= nxt /\ asm[first].has_head
      /\ FragmentsOf(buf, first) = start .. start + n - 1
  BY <1>1 DEF kcp_rcv_packet_is_complete
<1>3. /\ Handed <= nxt /\ nxt <= snd_nxt
      /\ \A x \in Handed .. nxt - 1 : x \in DOMAIN buf
      /\ \A x \in DOMAIN buf : Handed <= x /\ x < nxt + RCV_WND
      /\ Handed < Len(sent) => sent[Handed + 1].frg = 0
  BY DEF Contiguous
<1>4. Handed \in Nat /\ snd_nxt \in Nat /\ Len(sent) \in Nat /\ snd_nxt <= Len(sent)
  BY Facts
<1>5. Handed <= start
  <2>1. start \in FragmentsOf(buf, first)
    BY <1>2
  <2>2. start \in DOMAIN buf
    BY <2>1 DEF FragmentsOf
  <2>3. QED
    BY <2>2, <1>3
<1>6. Handed < nxt /\ Handed + 1 \in 1..Len(sent)
  BY <1>2, <1>3, <1>4, <1>5
<1>7. sent[Handed + 1].frg = 0
  BY <1>3, <1>4, <1>6
<1>8. start = Handed
  <2>1. Handed \in DOMAIN buf
    BY <1>3, <1>4, <1>6
  <2>2. buf[Handed] = sent[Handed + 1]
    BY <2>1
  <2>3. buf[Handed].psn \in DOMAIN asm /\ asm[buf[Handed].psn].start_sn = Handed - buf[Handed].frg
    BY <2>1 DEF Fitting
  <2>4. Handed - buf[Handed].frg = Handed
    BY <2>2, <1>7, <1>4
  <2>5. start <= Handed
    BY <2>3, <2>4, <1>1
  <2>6. QED
    BY <2>5, <1>4, <1>5
<1>9. n = sent[Handed + 1].wnd
  BY <1>1, <1>2, <1>8 DEF Fitting
<1>10. Handed + n <= nxt /\ n >= 1
  BY <1>2, <1>8
<1>11. QED
  BY <1>1, <1>2, <1>6, <1>7, <1>8, <1>9, <1>10

\* Removing the delivered message leaves rcv_buf and rcv_packet in order for
\* the next one.
LEMMA DeliveredRest ==
  ASSUME Inv, NEW buf, NEW asm, NEW nxt \in Nat, NEW first \in DOMAIN asm, NEW n \in Nat,
         \A x \in DOMAIN buf : x \in 0 .. snd_nxt - 1 /\ buf[x] = sent[x + 1],
         Fitting(buf, asm), Contiguous(buf, nxt, Handed),
         FragmentsOf(buf, first) = Handed .. Handed + n - 1,
         n >= 1, Handed + n <= nxt, Handed + 1 \in 1..Len(sent),
         sent[Handed + 1].wnd = n, sent[Handed + 1].frg = 0,
         NEW buf2, buf2 = Restrict(buf, DOMAIN buf \ (Handed .. Handed + n - 1)),
         NEW asm2, asm2 = Restrict(asm, DOMAIN asm \ {first})
  PROVE  Contiguous(buf2, nxt, Handed + n) /\ Fitting(buf2, asm2)
<1>1. /\ DOMAIN buf2 = DOMAIN buf \ (Handed .. Handed + n - 1)
      /\ \A x \in DOMAIN buf2 : buf2[x] = buf[x]
  BY DEF Restrict
<1>2. /\ DOMAIN asm2 = DOMAIN asm \ {first}
      /\ \A psn \in DOMAIN asm2 : asm2[psn] = asm[psn]
  BY DEF Restrict
<1>3. Handed \in Nat /\ snd_nxt \in Nat /\ Len(sent) \in Nat /\ RCV_WND \in Nat
  BY Counters, Constants
<1>4. /\ Handed <= nxt /\ nxt <= snd_nxt /\ nxt \notin DOMAIN buf
      /\ \A x \in Handed .. nxt - 1 : x \in DOMAIN buf
      /\ \A x \in DOMAIN buf : Handed <= x /\ x < nxt + RCV_WND
  BY DEF Contiguous
<1>5. Handed + n < Len(sent) => sent[Handed + n + 1].frg = 0
  <2>1. HAVE Handed + n < Len(sent)
  <2>2. PICK i \in 1..Len(sent) : i = Handed + 1 /\ i + n = Handed + n + 1
    BY <1>3
  <2>3. sent[i].wnd = n /\ sent[i].frg = 0
    BY <2>2
  <2>4. i + sent[i].wnd <= Len(sent) /\ sent[i].wnd \in Nat /\ sent[i].wnd >= 1
    BY <2>1, <2>2, <2>3, <1>3
  <2>5. sent \in Seq(Frag) /\ psn_nxt \in Nat /\ Whole(sent, psn_nxt)
    BY Facts DEF Inv, LogWhole
  <2>6. sent[i + sent[i].wnd].frg = 0
    BY <2>3, <2>4, <2>5, NextHead
  <2>7. QED
    BY <2>2, <2>3, <2>6
<1>6. Contiguous(buf2, nxt, Handed + n)
  <2>1. \A x \in Handed + n .. nxt - 1 : x \in DOMAIN buf2
    BY <1>1, <1>3, <1>4
  <2>2. \A x \in DOMAIN buf2 : x \in Nat /\ Handed + n <= x /\ x < nxt + RCV_WND
    BY <1>1, <1>3, <1>4
  <2>3. QED
    BY <1>1, <1>4, <1>5, <2>1, <2>2 DEF Contiguous
<1>7. \A x \in DOMAIN buf : x \in DOMAIN buf2 <=> buf[x].psn # first
  BY <1>1 DEF FragmentsOf
<1>8. /\ DOMAIN asm = {buf[x].psn : x \in DOMAIN buf}
      /\ \A x \in DOMAIN buf : asm[buf[x].psn].start_sn = x - buf[x].frg
      /\ \A psn \in DOMAIN asm : asm[psn].has_head =>
           asm[psn].expected_frags = sent[asm[psn].start_sn + 1].wnd
  BY DEF Fitting
<1>9. DOMAIN asm2 = {buf2[x].psn : x \in DOMAIN buf2}
  <2>1. ASSUME NEW psn \in DOMAIN asm2 PROVE \E x \in DOMAIN buf2 : psn = buf2[x].psn
    <3>1. psn \in DOMAIN asm /\ psn # first
      BY <1>2
    <3>2. PICK x \in DOMAIN buf : psn = buf[x].psn
      BY <3>1, <1>8
    <3>3. x \in DOMAIN buf2 /\ buf2[x] = buf[x]
      BY <3>1, <3>2, <1>1, <1>7
    <3>4. QED
      BY <3>2, <3>3
  <2>2. ASSUME NEW x \in DOMAIN buf2 PROVE buf2[x].psn \in DOMAIN asm2
    BY <1>1, <1>2, <1>7, <1>8
  <2>3. QED
    BY <2>1, <2>2
<1>10. ASSUME NEW x \in DOMAIN buf2 PROVE asm2[buf2[x].psn].start_sn = x - buf2[x].frg
  <2>1. x \in DOMAIN buf /\ buf2[x] = buf[x]
    BY <1>1
  <2>2. buf2[x].psn \in DOMAIN asm2
    BY <1>9
  <2>3. asm2[buf[x].psn] = asm[buf[x].psn]
    BY <1>2, <2>1, <2>2
  <2>4. asm[buf[x].psn].start_sn = x - buf[x].frg
    BY <1>8, <2>1
  <2>5. QED
    BY <2>1, <2>3, <2>4
<1>11. \A psn \in DOMAIN asm2 : asm2[psn].has_head =>
           asm2[psn].expected_frags = sent[asm2[psn].start_sn + 1].wnd
  BY <1>2, <1>8
<1>12. QED
  BY <1>6, <1>9, <1>10, <1>11 DEF Fitting

\* What appending to ack_item gives.
LEMMA AppendNat ==
  \A s \in Seq(Nat) : \A x \in Nat :
    /\ Len(Append(s, x)) = Len(s) + 1 /\ Len(s) \in Nat
    /\ Append(s, x)[Len(s) + 1] = x
    /\ \A i \in 1..Len(s) : Append(s, x)[i] = s[i] /\ s[i] \in Nat
OBVIOUS

\* Accepting a segment keeps every acknowledgement true: what had arrived
\* still has.
LEMMA PushHolds ==
  ASSUME Inv, NEW sn \in 0 .. snd_nxt - 1, NEW buf,
         NEW d \in Nat, Handed <= d, rcv_nxt' >= rcv_nxt,
         DOMAIN buf = DOMAIN rcv_buf \cup {sn},
         Len(delivered') = d, rcv_nxt' \in Nat,
         \A x \in DOMAIN buf : x < d \/ x \in DOMAIN rcv_buf',
         ack_item' = Append(ack_item, sn), net' \subseteq net,
         UNCHANGED <<snd_nxt, snd_buf>>
  PROVE  AcksTrue' /\ AckedArrived'
<1>1. Handed' = d
  BY DEF Handed
<1>4. ASSUME NEW i \in 1..Len(ack_item')
      PROVE  ack_item'[i] < d \/ ack_item'[i] \in DOMAIN rcv_buf'
  <2>1. /\ Len(ack_item') = Len(ack_item) + 1 /\ Len(ack_item) \in Nat
        /\ ack_item'[Len(ack_item) + 1] = sn
        /\ \A j \in 1..Len(ack_item) : ack_item'[j] = ack_item[j] /\ ack_item[j] \in Nat
    BY Facts, AppendNat
  <2>2. CASE i \in 1..Len(ack_item)
    <3>1. PICK x \in Nat : x = ack_item[i] /\ ack_item'[i] = x
      BY <2>1, <2>2
    <3>2. Arrived(x)
      BY <2>2, <3>1 DEF Inv, AcksTrue
    <3>3. x < d \/ x \in DOMAIN rcv_buf'
      BY <3>2, Counters DEF Arrived
    <3>4. QED
      BY <3>1, <3>3
  <2>3. CASE i = Len(ack_item) + 1
    BY <2>1, <2>3
  <2>4. QED
    BY <2>1, <2>2, <2>3
<1>5. ASSUME NEW p \in net', p.cmd = "ACK" PROVE Arrived(p.sn)' /\ p.una <= rcv_nxt'
  <2>1. p \in net /\ Arrived(p.sn) /\ p.una <= rcv_nxt
    BY <1>5 DEF Inv, AcksTrue
  <2>2. p.sn \in Nat /\ p.una \in Nat
    BY <1>5, <2>1, TypesWithin
  <2>3. p.sn < d \/ p.sn \in DOMAIN rcv_buf'
    BY <2>1, <2>2, Counters DEF Arrived
  <2>4. Arrived(p.sn)'
    BY <2>3, <1>1 DEF Arrived
  <2>5. QED
    BY <2>1, <2>2, <2>4, Counters
<1>6. AcksTrue'
  BY <1>1, <1>4, <1>5 DEF AcksTrue, Arrived
<1>7. ASSUME NEW x \in 0 .. snd_nxt - 1
      PROVE  x \in DOMAIN snd_buf \/ x < d \/ x \in DOMAIN rcv_buf'
  <2>1. x \in DOMAIN snd_buf \/ x < Handed \/ x \in DOMAIN rcv_buf
    BY DEF Inv, AckedArrived, Handed
  <2>2. QED
    BY <2>1, Counters
<1>8. AckedArrived'
  BY <1>7 DEF AckedArrived
<1>9. QED
  BY <1>6, <1>8

\* on_kcp_push_pcaket preserves the invariant; it hands over nothing or
\* exactly the next message, and does not move rcv_nxt back.
LEMMA PushStep ==
  ASSUME Inv, NEW p \in net, PushAccepted(p), net' \subseteq net, losses' \in Nat, dups' \in Nat
  PROVE  Inv' /\ (UNCHANGED delivered \/ Channel!ChanDeliver) /\ rcv_nxt' >= rcv_nxt
<1> DEFINE sn    == p.sn
           f     == p.seg
           buf   == Put(rcv_buf, sn, f)
           asm   == Put(rcv_packet, f.psn, Joined(sn, f))
           nxt   == IF sn = rcv_nxt THEN NextGap(buf, rcv_nxt) ELSE rcv_nxt
           first == FirstPacket(asm)
           start == asm[first].start_sn
           n     == asm[first].expected_frags
           done  == kcp_rcv_packet_is_complete(buf, first, asm[first]) /\ start + n <= nxt
           rest  == Restrict(buf, DOMAIN buf \ (start .. start + n - 1))
           frags == [i \in 1..n |-> buf[start + i - 1]]
<1>1. /\ p.cmd = "PUSH" /\ sn < rcv_nxt + RCV_WND /\ sn >= rcv_nxt
      /\ ack_item' = Append(ack_item, sn) /\ rcv_nxt' = nxt
  BY DEF PushAccepted
<1>2. \/ /\ done /\ rcv_queue' = rcv_queue \o frags /\ rcv_buf' = rest
         /\ rcv_packet' = Restrict(asm, DOMAIN asm \ {first}) /\ nrcv_buf' = nrcv_buf + 1 - n
      \/ /\ rcv_queue' = rcv_queue /\ rcv_buf' = buf
         /\ rcv_packet' = asm /\ nrcv_buf' = nrcv_buf + 1
  BY DEF PushAccepted
<1>3. /\ UNCHANGED <<state, psn_nxt, snd_queue, snd_buf, snd_nxt, snd_una, rmt_wnd, probe_wait>>
      /\ UNCHANGED <<ask_tell, sent, read>>
  BY DEF PushAccepted, sndVars, histVars
<1>4. sn \in 0 .. snd_nxt - 1 /\ f = sent[sn + 1]
  <2>1. sn \in Nat /\ sn < snd_nxt /\ f = sent[sn + 1]
    BY <1>1, TypesWithin DEF Inv, Carried
  <2>2. QED
    BY <2>1, Counters
<1>5. /\ DOMAIN buf = DOMAIN rcv_buf \cup {sn}
      /\ \A x \in DOMAIN buf : x \in 0 .. snd_nxt - 1 /\ buf[x] = sent[x + 1]
      /\ buf = [x \in DOMAIN buf |-> buf[x]]
  <2>1. buf = [x \in DOMAIN buf |-> buf[x]]
    BY DEF Put
  <2> HIDE DEF sn, f
  <2>2. /\ DOMAIN buf = DOMAIN rcv_buf \cup {sn}
        /\ \A x \in DOMAIN buf : x \in 0 .. snd_nxt - 1 /\ buf[x] = sent[x + 1]
    BY <1>4, PushedBuffer
  <2> HIDE DEF buf
  <2>3. QED
    BY <2>1, <2>2
<1>6. /\ Fitting(buf, asm) /\ DOMAIN asm \subseteq Nat
      /\ \A psn \in DOMAIN asm : asm[psn] \in Assembly
  <2> HIDE DEF sn, f, buf
  <2>1. buf = Put(rcv_buf, sn, f)
    BY DEF buf
  <2> QED
    BY <1>4, <2>1, PushedAssemblies
<1>7. asm = [psn \in DOMAIN asm |-> asm[psn]] /\ DOMAIN asm # {}
  BY DEF Put
<1> HIDE DEF sn, f, buf, asm
<1>8. nxt \in Nat /\ nxt >= rcv_nxt /\ Contiguous(buf, nxt, Handed)
  BY <1>1, <1>4, <1>5, GapFacts
<1> HIDE DEF nxt
<1>9. first \in DOMAIN asm /\ \A q \in DOMAIN asm : asm[first].start_sn <= asm[q].start_sn
  BY <1>6, <1>7, FirstPacketFacts
<1> HIDE DEF first
<1>10. \A x \in DOMAIN buf : buf[x] \in Frag /\ x \in Nat
  BY <1>4, <1>5, FragmentOfLog
<1>11. QueueIsTail' /\ WindowKept' /\ LogWhole'
  BY <1>3 DEF Inv, QueueIsTail, WindowKept, LogWhole
<1>12. nrcv_buf \in Int /\ ack_item' \in Seq(Nat) /\ rcv_nxt' \in Nat
  <2>1. nrcv_buf \in Int /\ ack_item \in Seq(Nat)
    BY DEF Inv, TypeOK, RcvTypeOK
  <2>2. QED
    BY <2>1, <1>1, <1>4, <1>8
<1>13. \A q \in net' : q.cmd = "PUSH" => q.sn < snd_nxt /\ q.seg = sent[q.sn + 1]
  BY DEF Inv, Carried
<1>14. CASE /\ rcv_queue' = rcv_queue /\ rcv_buf' = buf
            /\ rcv_packet' = asm /\ nrcv_buf' = nrcv_buf + 1
  <2>1. UNCHANGED <<delivered, Handed>>
    BY <1>3, <1>14 DEF delivered, Handed
  <2>2. rcv_buf' \in [DOMAIN rcv_buf' -> Frag] /\ DOMAIN rcv_buf' \subseteq Nat
    BY <1>5, <1>10, <1>14
  <2>3. rcv_packet' \in [DOMAIN rcv_packet' -> Assembly] /\ DOMAIN rcv_packet' \subseteq Nat
    BY <1>6, <1>7, <1>14
  <2>4. nrcv_buf' \in Int /\ rcv_queue' \in Seq(Frag)
    BY <1>12, <1>14, Facts
  <2>5. TypeOK'
    BY <1>3, <1>12, <2>2, <2>3, <2>4, Zenon DEF Inv, TypeOK, SndTypeOK, RcvTypeOK, NetTypeOK
  <2>6. InOrder'
    BY <1>3, <2>1 DEF Inv, InOrder
  <2>7. Carried'
    <3>1. \A x \in DOMAIN rcv_buf' : x < snd_nxt /\ rcv_buf'[x] = sent[x + 1]
      BY <1>5, <1>14, Counters
    <3>2. QED
      BY <1>3, <1>13, <3>1 DEF Inv, Carried
  <2>8. ReceiverOrder' /\ Assemblies'
    BY <1>1, <1>3, <1>6, <1>8, <1>14, <2>1 DEF ReceiverOrder, Assemblies, Contiguous, Fitting
  <2>9. AcksTrue' /\ AckedArrived'
    <3>1. Len(delivered') = Handed /\ Handed \in Nat /\ Handed <= Handed
      BY <2>1, Counters DEF Handed
    <3>2. \A x \in DOMAIN buf : x < Handed \/ x \in DOMAIN rcv_buf'
      BY <1>14
    <3>3. rcv_nxt' >= rcv_nxt
      BY <1>1, <1>8
    <3>4. QED
      BY <1>1, <1>3, <1>4, <1>5, <1>12, <3>1, <3>2, <3>3, PushHolds
  <2>10. Inv'
    BY <1>11, <2>5, <2>6, <2>7, <2>8, <2>9 DEF Inv
  <2>11. QED
    BY <1>1, <1>8, <2>1, <2>10
<1>15. CASE /\ done /\ rcv_queue' = rcv_queue \o frags /\ rcv_buf' = rest
            /\ rcv_packet' = Restrict(asm, DOMAIN asm \ {first}) /\ nrcv_buf' = nrcv_buf + 1 - n
  <2>1. PICK m \in Nat : /\ m >= 1 /\ n = m /\ start = Handed /\ Handed + m <= nxt
                         /\ FragmentsOf(buf, first) = Handed .. Handed + m - 1
                         /\ Handed + 1 \in 1..Len(sent) /\ sent[Handed + 1].wnd = m
                         /\ sent[Handed + 1].frg = 0
    <3>1. asm[first] \in Assembly
      BY <1>6, <1>9
    <3>2. QED
      BY <1>5, <1>6, <1>8, <1>9, <1>15, <3>1, CompleteFacts
  <2>2. /\ rcv_buf' = Restrict(buf, DOMAIN buf \ (Handed .. Handed + m - 1))
        /\ rcv_packet' = Restrict(asm, DOMAIN asm \ {first})
    BY <1>15, <2>1
  <2>3. Contiguous(rcv_buf', nxt, Handed + m) /\ Fitting(rcv_buf', rcv_packet')
    BY <1>5, <1>6, <1>8, <1>9, <2>1, <2>2, DeliveredRest
  <2>4. /\ DOMAIN rcv_buf' = DOMAIN buf \ (Handed .. Handed + m - 1)
        /\ \A x \in DOMAIN rcv_buf' : rcv_buf'[x] = buf[x]
        /\ rcv_buf' = [x \in DOMAIN rcv_buf' |-> rcv_buf'[x]]
    BY <2>2 DEF Restrict
  <2>5. /\ DOMAIN rcv_packet' = DOMAIN asm \ {first}
        /\ \A x \in DOMAIN rcv_packet' : rcv_packet'[x] = asm[x]
        /\ rcv_packet' = [x \in DOMAIN rcv_packet' |-> rcv_packet'[x]]
    BY <2>2 DEF Restrict
  <2>6. Handed \in Nat /\ Len(sent) \in Nat /\ snd_nxt \in Nat
    BY Counters
  <2>7. \A i \in 1..m : /\ Handed + i - 1 \in DOMAIN buf
                        /\ buf[Handed + i - 1] = sent[Handed + i]
                        /\ buf[Handed + i - 1] \in Frag
                        /\ Handed + i <= Len(sent)
    <3> TAKE i \in 1..m
    <3>1. PICK x \in Handed .. Handed + m - 1 : x = Handed + i - 1 /\ x + 1 = Handed + i
      <4>1. Handed + i - 1 \in Handed .. Handed + m - 1 /\ Handed + i - 1 + 1 = Handed + i
        BY <2>6
      <4>2. QED
        BY <4>1
    <3>2. x \in DOMAIN buf
      BY <2>1 DEF FragmentsOf
    <3>3. x \in 0 .. snd_nxt - 1 /\ buf[x] = sent[x + 1] /\ buf[x] \in Frag
      BY <3>2, <1>5, <1>10
    <3>4. x + 1 \in 1..Len(sent)
      BY <3>3, FragmentOfLog
    <3>5. QED
      BY <3>1, <3>2, <3>3, <3>4, <2>6
  <2>8. PICK F \in Seq(Frag) : F = frags /\ Len(F) = m /\ \A i \in 1..m : F[i] = sent[Handed + i]
    <3>1. frags = [i \in 1..m |-> buf[Handed + i - 1]]
      BY <2>1
    <3>2. frags \in [1..m -> Frag]
      BY <3>1, <2>7
    <3>3. frags \in Seq(Frag) /\ Len(frags) = m
      <4> HIDE DEF frags
      <4> QED BY <3>2
    <3>4. \A i \in 1..m : frags[i] = sent[Handed + i]
      BY <3>1, <2>7
    <3> HIDE DEF frags
    <3>5. QED
      BY <3>3, <3>4
  <2>9. /\ delivered' = delivered \o F /\ delivered' \in Seq(Frag) /\ rcv_queue' \in Seq(Frag)
        /\ Len(delivered') = Handed + m
        /\ \A i \in 1..Handed : delivered'[i] = delivered[i]
        /\ \A i \in 1..m : delivered'[Handed + i] = F[i]
    <3>1. /\ rcv_queue' = rcv_queue \o F /\ read' = read
          /\ read \in Seq(Frag) /\ rcv_queue \in Seq(Frag) /\ delivered \in Seq(Frag)
      BY <1>3, <1>15, <2>8, Facts
    <3>2. read \o (rcv_queue \o F) = (read \o rcv_queue) \o F
      BY <3>1, AssociateFrags
    <3>3. delivered' = delivered \o F
      BY <3>1, <3>2, Zenon DEF delivered
    <3>4. /\ delivered \o F \in Seq(Frag) /\ Len(delivered \o F) = Len(delivered) + Len(F)
          /\ \A i \in 1..Len(delivered) : (delivered \o F)[i] = delivered[i]
          /\ \A i \in 1..Len(F) : (delivered \o F)[Len(delivered) + i] = F[i]
      BY <3>1, ConcatFrags, Zenon
    <3>5. rcv_queue \o F \in Seq(Frag)
      BY <3>1, ConcatFrags, Zenon
    <3>6. Len(delivered) = Handed
      BY Zenon DEF Handed
    <3>7. QED
      BY <2>8, <3>1, <3>3, <3>4, <3>5, <3>6, Zenon
  <2>10. Handed' = Handed + m
    BY <2>9 DEF Handed
  <2>11. rcv_buf' \in [DOMAIN rcv_buf' -> Frag] /\ DOMAIN rcv_buf' \subseteq Nat
    BY <1>10, <2>4
  <2>12. rcv_packet' \in [DOMAIN rcv_packet' -> Assembly] /\ DOMAIN rcv_packet' \subseteq Nat
    BY <1>6, <2>5
  <2>13. nrcv_buf' \in Int
    BY <1>12, <1>15, <2>1
  <2>14. TypeOK'
    BY <1>3, <1>12, <2>9, <2>11, <2>12, <2>13, Zenon
       DEF Inv, TypeOK, SndTypeOK, RcvTypeOK, NetTypeOK
  <2>15. InOrder'
    <3>1. \A i \in 1..Handed : delivered[i] = sent[i]
      BY DEF Inv, InOrder, Handed
    <3>2. ASSUME NEW i \in 1..Handed + m PROVE delivered'[i] = sent[i]
      <4>1. CASE i \in 1..Handed
        BY <4>1, <3>1, <2>9
      <4>2. CASE i \notin 1..Handed
        <5>1. i - Handed \in 1..m /\ i = Handed + (i - Handed)
          BY <4>2, <2>6
        <5>2. PICK j \in 1..m : i = Handed + j
          BY <5>1
        <5>3. QED
          BY <5>2, <2>8, <2>9
      <4>3. QED
        BY <4>1, <4>2
    <3>3. Handed + m <= Len(sent)
      BY <2>1, <2>7, <2>6
    <3>4. QED
      BY <1>3, <2>9, <3>2, <3>3 DEF InOrder
  <2>16. Carried'
    <3>1. \A x \in DOMAIN rcv_buf' : x < snd_nxt /\ rcv_buf'[x] = sent[x + 1]
      BY <1>5, <2>4, Counters
    <3>2. QED
      BY <1>3, <1>13, <3>1 DEF Inv, Carried
  <2>17. ReceiverOrder' /\ Assemblies'
    BY <1>1, <1>3, <2>3, <2>10 DEF ReceiverOrder, Assemblies, Contiguous, Fitting
  <2>18. AcksTrue' /\ AckedArrived'
    <3>1. \A x \in DOMAIN buf : x < Handed + m \/ x \in DOMAIN rcv_buf'
      <4>1. \A x \in DOMAIN buf : x \in Nat /\ Handed <= x
        BY <1>8, <1>10 DEF Contiguous
      <4>2. QED
        BY <4>1, <2>4, <2>6
    <3>2. Handed + m \in Nat /\ Handed <= Handed + m /\ Len(delivered') = Handed + m
      BY <2>6, <2>9
    <3>3. rcv_nxt' >= rcv_nxt
      BY <1>1, <1>8
    <3>4. QED
      BY <1>1, <1>3, <1>4, <1>5, <1>12, <3>1, <3>2, <3>3, PushHolds
  <2>19. Inv'
    BY <1>11, <2>14, <2>15, <2>16, <2>17, <2>18 DEF Inv
  <2>20. Channel!ChanDeliver
    <3>1. Handed + m <= Len(sent) /\ Handed < Len(sent) /\ sent \in Seq(Frag)
      <4>1. Handed + m <= Len(sent)
        BY <2>1, <2>6, <2>7
      <4>2. Handed < Len(sent)
        BY <2>1, <2>6, <4>1
      <4>3. QED
        BY <4>1, <4>2, Facts
    <3>2. F = SubSeq(sent, Handed + 1, Handed + m)
      <4>1. /\ Len(F) = m /\ Handed \in Nat
            /\ \A i \in 1..m : F[i] = sent[Handed + i]
        BY <2>6, <2>8
      <4>2. QED
        BY <4>1, <3>1, SliceFrags
    <3>3. /\ Len(delivered) < Len(sent) /\ sent' = sent
          /\ delivered' = delivered \o SubSeq(sent, Len(delivered) + 1,
                                              Len(delivered) + sent[Len(delivered) + 1].wnd)
      BY <1>3, <2>1, <2>9, <3>1, <3>2, Zenon DEF Handed
    <3>4. QED
      BY <3>3, Zenon DEF Channel!ChanDeliver
  <2>21. QED
    BY <1>1, <1>8, <2>19, <2>20
<1>16. QED
  BY <1>2, <1>14, <1>15

\* Handling any packet preserves the invariant.
LEMMA ReceiveStep ==
  ASSUME Inv, NEW p \in net, kcp_input_pcaket(p), net' \subseteq net, losses' \in Nat, dups' \in Nat
  PROVE  Inv'
<1>1. CASE on_kcp_ack_pcaket(p)
  BY <1>1, AckStep
<1>2. CASE WinsReceived(p)
  BY <1>2, WinsStep
<1>3. CASE PushRefused(p) \/ WaskReceived(p)
  BY <1>3, TellStep
<1>4. CASE PushAccepted(p)
  BY <1>4, PushStep
<1>5. QED
  BY <1>1, <1>2, <1>3, <1>4 DEF kcp_input_pcaket

\* A delivery, with or without a copy kept in flight, is a step of
\* kcp_input_pcaket that adds no packet.
LEMMA NetworkStep ==
  ASSUME Inv, NEW p \in net, Receive(p) \/ ReceiveCopy(p)
  PROVE  kcp_input_pcaket(p) /\ net' \subseteq net /\ losses' \in Nat /\ dups' \in Nat
<1>1. losses \in Nat /\ dups \in Nat
  BY DEF Inv, TypeOK, NetTypeOK
<1>2. CASE Receive(p)
  BY <1>1, <1>2 DEF Receive
<1>3. CASE ReceiveCopy(p)
  BY <1>1, <1>3 DEF ReceiveCopy
<1>4. QED
  BY <1>2, <1>3

\* A step that changes nothing preserves the invariant.
LEMMA StutterStep ==
  ASSUME Inv, UNCHANGED vars
  PROVE  Inv'
<1>1. /\ UNCHANGED <<state, psn_nxt, snd_queue, snd_buf, snd_nxt, snd_una, rmt_wnd, probe_wait>>
      /\ UNCHANGED <<rcv_nxt, rcv_buf, rcv_packet, nrcv_buf, rcv_queue, ack_item, ask_tell>>
      /\ UNCHANGED <<net, losses, dups, sent, read>>
  BY DEF vars, sndVars, rcvVars, netVars, histVars
<1>2. TypeOK'
  BY <1>1, Zenon DEF Inv, TypeOK, SndTypeOK, RcvTypeOK, NetTypeOK
<1>3. UNCHANGED delivered
  BY <1>1 DEF delivered
<1>4. QED
  BY <1>1, <1>2, <1>3, FrameStep

\* Inv is inductive: one case per action.
LEMMA NextInv == Inv /\ [Next]_vars => Inv'
<1> SUFFICES ASSUME Inv, [Next]_vars PROVE Inv'
  OBVIOUS
<1>1. ASSUME NEW n \in 1..MAX_FRAGS, kcp_send(n) PROVE Inv'
  BY <1>1, SendStep
<1>2. CASE FlushAny
  BY <1>2, FlushStep DEF FlushAny
<1>3. CASE RcvFlush
  BY <1>3, RcvFlushStep
<1>4. CASE kcp_recv
  BY <1>4, RecvStep
<1>5. ASSUME NEW p \in net, Receive(p) \/ ReceiveCopy(p) PROVE Inv'
  BY <1>5, NetworkStep, ReceiveStep
<1>6. ASSUME NEW p \in net, Lose(p) PROVE Inv'
  BY <1>6, LoseStep
<1>7. CASE UNCHANGED vars
  BY <1>7, StutterStep
<1>8. QED
  BY <1>1, <1>2, <1>3, <1>4, <1>5, <1>6, <1>7 DEF Next, ReceiveAny

\* The invariant holds in every reachable state, for all windows, bounds,
\* losses, duplications and orders of delivery.
THEOREM Invariance == Spec => []Inv
<1>1. Init => Inv
  BY InitInv
<1>2. Inv /\ [Next]_vars => Inv'
  BY NextInv
<1>3. QED
  BY <1>1, <1>2, PTL DEF Spec

\* The variables keep their types, and only well-formed packets are in
\* flight.
THEOREM TypeCorrect == Spec => []TypeOK
<1>1. Inv => TypeOK
  BY DEF Inv
<1>2. QED
  BY <1>1, Invariance, PTL

\* The receive queue and what kcp_recv returned are a prefix of what kcp_send
\* accepted (on_kcp_push_pcaket).
THEOREM DeliveryInOrder == Spec => []InOrder
<1>1. Inv => InOrder
  BY DEF Inv
<1>2. QED
  BY <1>1, Invariance, PTL

\* on_kcp_ack_pcaket frees a segment only when the receiver holds it or has
\* handed it over.
THEOREM NothingForgotten == Spec => []AckedArrived
<1>1. Inv => AckedArrived
  BY DEF Inv
<1>2. QED
  BY <1>1, Invariance, PTL

\* The flush keeps the serial numbers in use within the send window above
\* snd_una.
THEOREM WindowRespected == Spec => []WindowKept
<1>1. Inv => WindowKept
  BY DEF Inv
<1>2. QED
  BY <1>1, Invariance, PTL

\* rcv_buf is finite, and so are the fragments of an assembly.
LEMMA FiniteBuffer ==
  ASSUME Inv
  PROVE  IsFiniteSet(DOMAIN rcv_buf) /\ \A psn : IsFiniteSet(FragmentsOf(rcv_buf, psn))
<1>1. IsFiniteSet(0 .. snd_nxt - 1)
  BY Counters, FS_Interval
<1>2. IsFiniteSet(DOMAIN rcv_buf)
  BY <1>1, Facts, FS_Subset
<1>3. ASSUME NEW psn PROVE IsFiniteSet(FragmentsOf(rcv_buf, psn))
  <2>1. FragmentsOf(rcv_buf, psn) \in SUBSET DOMAIN rcv_buf
    BY DEF FragmentsOf
  <2>2. QED
    BY <1>2, <2>1, FS_Subset
<1>4. QED
  BY <1>2, <1>3

\* A fragment that joins its assembly is counted there, and nowhere else.
LEMMA PushedCount ==
  ASSUME Inv, Counted, NEW sn \in 0 .. snd_nxt - 1, sn \notin DOMAIN rcv_buf, NEW f, f = sent[sn + 1],
         NEW buf, buf = Put(rcv_buf, sn, f), NEW asm, asm = Put(rcv_packet, f.psn, Joined(sn, f))
  PROVE  /\ CountOf(buf, asm) /\ IsFiniteSet(DOMAIN buf)
         /\ Cardinality(DOMAIN buf) = nrcv_buf + 1
<1>1. /\ DOMAIN buf = DOMAIN rcv_buf \cup {sn} /\ buf[sn] = f
      /\ \A x \in DOMAIN rcv_buf : buf[x] = rcv_buf[x]
  BY DEF Put
<1>2. /\ DOMAIN asm = DOMAIN rcv_packet \cup {f.psn} /\ asm[f.psn] = Joined(sn, f)
      /\ \A psn \in DOMAIN asm : psn # f.psn => psn \in DOMAIN rcv_packet /\ asm[psn] = rcv_packet[psn]
  BY DEF Put
<1>3. IsFiniteSet(DOMAIN rcv_buf) /\ \A psn : IsFiniteSet(FragmentsOf(rcv_buf, psn))
  BY FiniteBuffer
<1>4. IsFiniteSet(DOMAIN buf) /\ Cardinality(DOMAIN buf) = nrcv_buf + 1
  BY <1>1, <1>3, FS_AddElement DEF Counted
<1>5. FragmentsOf(buf, f.psn) = FragmentsOf(rcv_buf, f.psn) \cup {sn}
  BY <1>1 DEF FragmentsOf
<1>6. Cardinality(FragmentsOf(buf, f.psn)) = Cardinality(FragmentsOf(rcv_buf, f.psn)) + 1
  <2>1. sn \notin FragmentsOf(rcv_buf, f.psn)
    BY DEF FragmentsOf
  <2>2. Cardinality(FragmentsOf(rcv_buf, f.psn) \cup {sn}) = Cardinality(FragmentsOf(rcv_buf, f.psn)) + 1
    BY <1>3, <2>1, FS_AddElement, Zenon
  <2>3. QED
    BY <1>5, <2>2, Zenon
<1>7. Joined(sn, f).received_frags = Cardinality(FragmentsOf(rcv_buf, f.psn)) + 1
  <2>1. CASE f.psn \in DOMAIN rcv_packet
    <3>1. rcv_packet[f.psn] \in Assembly
      BY <2>1 DEF Inv, TypeOK, RcvTypeOK
    <3>2. Joined(sn, f).received_frags = rcv_packet[f.psn].received_frags + 1
      BY <2>1, <3>1 DEF Joined, Assembly
    <3>3. QED
      BY <2>1, <3>2 DEF Counted, CountOf
  <2>2. CASE f.psn \notin DOMAIN rcv_packet
    <3>1. Joined(sn, f).received_frags = 0 + 1
      BY <2>2 DEF Joined
    <3>2. FragmentsOf(rcv_buf, f.psn) = {}
      BY <2>2 DEF FragmentsOf, Inv, Assemblies, Fitting
    <3>3. QED
      BY <3>1, <3>2, FS_EmptySet
  <2>3. QED
    BY <2>1, <2>2
<1>8. ASSUME NEW psn \in DOMAIN asm
      PROVE  asm[psn].received_frags = Cardinality(FragmentsOf(buf, psn))
  <2>1. CASE psn = f.psn
    BY <2>1, <1>2, <1>6, <1>7
  <2>2. CASE psn # f.psn
    <3>1. FragmentsOf(buf, psn) = FragmentsOf(rcv_buf, psn)
      BY <1>1, <2>2 DEF FragmentsOf
    <3>2. QED
      BY <1>2, <2>2, <3>1 DEF Counted, CountOf
  <2>3. QED
    BY <2>1, <2>2
<1>9. QED
  BY <1>4, <1>8 DEF CountOf

\* The fragments of the first assembly leave rcv_buf together: as many as it
\* expected, and none of another.
LEMMA DeliveredCount ==
  ASSUME NEW buf, NEW asm, IsFiniteSet(DOMAIN buf), CountOf(buf, asm),
         NEW first \in DOMAIN asm, asm[first] \in Assembly,
         kcp_rcv_packet_is_complete(buf, first, asm[first]),
         NEW start, start = asm[first].start_sn, NEW n, n = asm[first].expected_frags,
         NEW left, left = Restrict(buf, DOMAIN buf \ (start .. start + n - 1))
  PROVE  /\ Cardinality(DOMAIN left) = Cardinality(DOMAIN buf) - n
         /\ CountOf(left, Restrict(asm, DOMAIN asm \ {first}))
<1> DEFINE gone == start .. start + n - 1
<1>1. start \in Nat /\ n \in Nat
  BY DEF Assembly
<1>2. FragmentsOf(buf, first) = gone
  BY DEF kcp_rcv_packet_is_complete
<1>3. gone \subseteq DOMAIN buf /\ \A x \in DOMAIN buf : buf[x].psn = first <=> x \in gone
  BY <1>2 DEF FragmentsOf
<1>4. Cardinality(gone) = n
  <2>1. PICK last \in Int : last = start + n - 1
    BY <1>1
  <2>2. Cardinality(start .. last) = IF start > last THEN 0 ELSE last - start + 1
    <3>1. start \in Int
      BY <1>1
    <3>2. QED
      BY <2>1, <3>1, FS_Interval, Zenon
  <2>3. Cardinality(start .. last) = n
    <3>1. PICK c : c = Cardinality(start .. last)
      OBVIOUS
    <3>2. QED
      BY <1>1, <2>1, <2>2, <3>1
  <2>4. QED
    BY <2>1, <2>3
<1> HIDE DEF gone
<1>5. DOMAIN left = DOMAIN buf \ gone /\ \A x \in DOMAIN left : left[x] = buf[x]
  BY DEF Restrict, gone
<1>6. Cardinality(DOMAIN left) = Cardinality(DOMAIN buf) - n
  <2>1. DOMAIN buf \cap gone = gone
    BY <1>3
  <2>2. Cardinality(DOMAIN buf \ gone) = Cardinality(DOMAIN buf) - Cardinality(DOMAIN buf \cap gone)
    BY FS_Difference, Zenon
  <2>3. QED
    BY <1>4, <1>5, <2>1, <2>2, Zenon
<1>7. ASSUME NEW psn \in DOMAIN asm, psn # first
      PROVE  FragmentsOf(left, psn) = FragmentsOf(buf, psn)
  BY <1>3, <1>5, <1>7 DEF FragmentsOf
<1>8. CountOf(left, Restrict(asm, DOMAIN asm \ {first}))
  BY <1>7 DEF CountOf, Restrict
<1>9. QED
  BY <1>6, <1>8

\* A new PUSH keeps the counts, whether or not a message is complete with it.
LEMMA PushCounted ==
  ASSUME Inv, Counted, NEW p \in net, PushAccepted(p)
  PROVE  Counted'
<1> DEFINE buf   == Put(rcv_buf, p.sn, p.seg)
           asm   == Put(rcv_packet, p.seg.psn, Joined(p.sn, p.seg))
           first == FirstPacket(asm)
           start == asm[first].start_sn
           n     == asm[first].expected_frags
<1>1. p.sn \in 0 .. snd_nxt - 1 /\ p.seg = sent[p.sn + 1] /\ p.sn \notin DOMAIN rcv_buf
  <2>1. p.cmd = "PUSH" /\ p.sn \notin DOMAIN rcv_buf
    BY DEF PushAccepted
  <2>2. p.sn \in Nat /\ p.sn < snd_nxt /\ p.seg = sent[p.sn + 1]
    BY <2>1, TypesWithin DEF Inv, Carried
  <2>3. QED
    BY <2>1, <2>2, Counters
<1>2. CountOf(buf, asm) /\ IsFiniteSet(DOMAIN buf) /\ Cardinality(DOMAIN buf) = nrcv_buf + 1
  BY <1>1, PushedCount
<1>3. first \in DOMAIN asm /\ asm[first] \in Assembly
  <2>1. \A psn \in DOMAIN asm : asm[psn] \in Assembly
    BY <1>1, PushedAssemblies
  <2>2. DOMAIN asm # {}
    BY DEF Put
  <2> HIDE DEF asm
  <2>3. QED
    BY <2>1, <2>2, FirstPacketFacts
<1>4. \/ /\ kcp_rcv_packet_is_complete(buf, first, asm[first])
         /\ rcv_buf' = Restrict(buf, DOMAIN buf \ (start .. start + n - 1))
         /\ rcv_packet' = Restrict(asm, DOMAIN asm \ {first}) /\ nrcv_buf' = nrcv_buf + 1 - n
      \/ rcv_buf' = buf /\ rcv_packet' = asm /\ nrcv_buf' = nrcv_buf + 1
  BY DEF PushAccepted
<1> HIDE DEF buf, asm, first
<1>5. CASE rcv_buf' = buf /\ rcv_packet' = asm /\ nrcv_buf' = nrcv_buf + 1
  BY <1>2, <1>5 DEF Counted
<1>6. CASE /\ kcp_rcv_packet_is_complete(buf, first, asm[first])
           /\ rcv_buf' = Restrict(buf, DOMAIN buf \ (start .. start + n - 1))
           /\ rcv_packet' = Restrict(asm, DOMAIN asm \ {first}) /\ nrcv_buf' = nrcv_buf + 1 - n
  <2>1. Cardinality(DOMAIN rcv_buf') = Cardinality(DOMAIN buf) - n /\ CountOf(rcv_buf', rcv_packet')
    BY <1>2, <1>3, <1>6, DeliveredCount
  <2>2. nrcv_buf \in Int /\ n \in Nat
    BY <1>3 DEF Inv, TypeOK, RcvTypeOK, Assembly
  <2>3. nrcv_buf' = Cardinality(DOMAIN rcv_buf')
    <3>1. PICK c, k : c = Cardinality(DOMAIN buf) /\ k = Cardinality(DOMAIN rcv_buf')
      OBVIOUS
    <3>2. QED
      BY <1>2, <1>6, <2>1, <2>2, <3>1
  <2>4. QED
    BY <2>1, <2>3, Zenon DEF Counted
<1>7. QED
  BY <1>4, <1>5, <1>6

\* Only a new PUSH touches the three records.
LEMMA NextCounted ==
  ASSUME Inv, Counted, [Next]_vars
  PROVE  Counted'
<1>1. CASE UNCHANGED <<rcv_buf, rcv_packet, nrcv_buf>>
  BY <1>1 DEF Counted
<1>2. ASSUME NEW p \in net, Receive(p) \/ ReceiveCopy(p)
      PROVE  Counted'
  <2>1. kcp_input_pcaket(p)
    BY <1>2 DEF Receive, ReceiveCopy
  <2>2. CASE PushAccepted(p)
    BY <2>2, PushCounted
  <2>3. CASE on_kcp_ack_pcaket(p) \/ WinsReceived(p) \/ PushRefused(p) \/ WaskReceived(p)
    <3>1. UNCHANGED <<rcv_buf, rcv_packet, nrcv_buf>>
      BY <2>3 DEF on_kcp_ack_pcaket, WinsReceived, PushRefused, WaskReceived, rcvVars
    <3>2. QED
      BY <3>1, <1>1
  <2>4. QED
    BY <2>1, <2>2, <2>3 DEF kcp_input_pcaket
<1>3. CASE FlushAny
  <2>1. UNCHANGED <<rcv_buf, rcv_packet, nrcv_buf>>
    BY <1>3 DEF FlushAny, Flush, rcvVars
  <2>2. QED
    BY <2>1, <1>1
<1>4. CASE (\E n \in 1..MAX_FRAGS : kcp_send(n)) \/ RcvFlush \/ kcp_recv
           \/ (\E p \in net : Lose(p)) \/ UNCHANGED vars
  <2>1. UNCHANGED <<rcv_buf, rcv_packet, nrcv_buf>>
    BY <1>4 DEF kcp_send, RcvFlush, kcp_recv, Lose, vars, sndVars, rcvVars
  <2>2. QED
    BY <2>1, <1>1
<1>5. QED
  BY <1>2, <1>3, <1>4 DEF Next, ReceiveAny

\* nrcv_buf, rcv_buf and the assemblies of rcv_packet tell the same, whatever
\* on_kcp_push_pcaket takes, refuses or hands over.
THEOREM RecordsKept == Spec => []RecordsAgree
<1>1. Init => Counted
  BY FS_EmptySet DEF Init, Counted, CountOf
<1>2. Inv /\ Counted /\ [Next]_vars => Counted'
  BY NextCounted
<1>3. ASSUME Inv, Counted PROVE RecordsAgree
  <2>1. /\ DOMAIN rcv_packet = {rcv_buf[sn].psn : sn \in DOMAIN rcv_buf}
        /\ \A sn \in DOMAIN rcv_buf : rcv_packet[rcv_buf[sn].psn].start_sn = sn - rcv_buf[sn].frg
    BY <1>3 DEF Inv, Assemblies, Fitting
  <2>2. \A psn \in DOMAIN rcv_packet :
          /\ rcv_packet[psn].received_frags = Cardinality(FragmentsOf(rcv_buf, psn))
          /\ \A sn \in FragmentsOf(rcv_buf, psn) : rcv_packet[psn].start_sn = sn - rcv_buf[sn].frg
    BY <1>3, <2>1 DEF Counted, CountOf, FragmentsOf
  <2>3. QED
    BY <1>3, <2>1, <2>2 DEF RecordsAgree, Counted
<1>4. QED
  BY <1>1, <1>2, <1>3, Invariance, PTL DEF Spec

\* An ACK, however old, does not move snd_una back.
LEMMA AckAdvances ==
  ASSUME Inv, NEW p, on_kcp_ack_pcaket(p)
  PROVE  snd_una' >= snd_una
<1>1. snd_una \in Nat /\ snd_nxt \in Nat /\ snd_una <= snd_nxt
  BY Counters DEF Inv, WindowKept
<1>2. DOMAIN snd_buf \subseteq snd_una .. snd_nxt - 1
  BY DEF Inv, WindowKept
<1>3. CASE UNCHANGED snd_una
  BY <1>1, <1>3
<1>4. CASE snd_una' = NextUna({sn \in DOMAIN snd_buf : sn # p.sn /\ sn >= p.una})
  <2> DEFINE left == {sn \in DOMAIN snd_buf : sn # p.sn /\ sn >= p.una}
  <2>1. left \in SUBSET Nat /\ left \subseteq snd_una .. snd_nxt - 1
    BY <1>1, <1>2
  <2>2. snd_una' = IF left = {} THEN snd_nxt ELSE Min(left)
    BY <1>4 DEF NextUna
  <2> HIDE DEF left
  <2>3. left # {} => Min(left) \in left
    BY <2>1, MinProperties
  <2>4. QED
    BY <1>1, <2>1, <2>2, <2>3
<1>5. QED
  BY <1>3, <1>4 DEF on_kcp_ack_pcaket

\* No step moves snd_una or rcv_nxt back.
LEMMA NextAdvances ==
  ASSUME Inv, [Next]_vars
  PROVE  snd_una' >= snd_una /\ rcv_nxt' >= rcv_nxt
<1>1. snd_una \in Nat /\ rcv_nxt \in Nat
  BY Counters
<1>2. CASE UNCHANGED <<snd_una, rcv_nxt>>
  BY <1>1, <1>2
<1>3. ASSUME NEW p \in net, Receive(p) \/ ReceiveCopy(p)
      PROVE  snd_una' >= snd_una /\ rcv_nxt' >= rcv_nxt
  <2>1. kcp_input_pcaket(p) /\ net' \subseteq net /\ losses' \in Nat /\ dups' \in Nat
    BY <1>3, NetworkStep
  <2>2. CASE on_kcp_ack_pcaket(p)
    <3>1. rcv_nxt' = rcv_nxt
      BY <2>2 DEF on_kcp_ack_pcaket, rcvVars
    <3>2. QED
      BY <2>2, <3>1, <1>1, AckAdvances
  <2>3. CASE PushAccepted(p)
    <3>1. snd_una' = snd_una
      BY <2>3 DEF PushAccepted, sndVars
    <3>2. QED
      BY <2>1, <2>3, <3>1, <1>1, PushStep
  <2>4. CASE WinsReceived(p) \/ PushRefused(p) \/ WaskReceived(p)
    <3>1. UNCHANGED <<snd_una, rcv_nxt>>
      BY <2>4 DEF WinsReceived, PushRefused, WaskReceived, sndVars, rcvVars
    <3>2. QED
      BY <3>1, <1>2
  <2>5. QED
    BY <2>1, <2>2, <2>3, <2>4 DEF kcp_input_pcaket
<1>4. CASE FlushAny
  <2>1. UNCHANGED <<snd_una, rcv_nxt>>
    BY <1>4 DEF FlushAny, Flush, rcvVars
  <2>2. QED
    BY <2>1, <1>2
<1>5. CASE (\E n \in 1..MAX_FRAGS : kcp_send(n)) \/ RcvFlush \/ kcp_recv
           \/ (\E p \in net : Lose(p)) \/ UNCHANGED vars
  <2>1. UNCHANGED <<snd_una, rcv_nxt>>
    BY <1>5 DEF kcp_send, RcvFlush, kcp_recv, Lose, vars, sndVars, rcvVars
  <2>2. QED
    BY <2>1, <1>2
<1>6. QED
  BY <1>3, <1>4, <1>5 DEF Next, ReceiveAny

\* snd_una and rcv_nxt only ever advance, in every behaviour.
THEOREM Monotone == Spec => PointersAdvance
<1>1. Inv /\ [Next]_vars => [snd_una' >= snd_una /\ rcv_nxt' >= rcv_nxt]_<<snd_una, rcv_nxt>>
  BY NextAdvances
<1>2. QED
  BY <1>1, Invariance, PTL DEF Spec, PointersAdvance

\* A fresh connection is an empty channel.
LEMMA ChannelInit == Init => Channel!ChanInit
<1> SUFFICES ASSUME Init PROVE Channel!ChanInit
  OBVIOUS
<1>1. delivered = <<>>
  BY DEF Init, delivered
<1>2. QED
  BY <1>1 DEF Init, Channel!ChanInit

\* Every step of the data path sends a message on the channel, delivers the
\* next one, or leaves the channel alone.
LEMMA ChannelStep ==
  ASSUME Inv, [Next]_vars
  PROVE  [Channel!ChanNext]_<<sent, delivered>>
<1>1. CASE UNCHANGED <<sent, delivered>>
  BY <1>1
<1>2. ASSUME NEW n \in 1..MAX_FRAGS, kcp_send(n) PROVE Channel!ChanSend
  <2>1. sent' = sent \o Channel!Fragments(psn_nxt, n) /\ UNCHANGED <<read, rcv_queue>>
    BY <1>2 DEF kcp_send, rcvVars
  <2>2. UNCHANGED delivered
    BY <2>1 DEF delivered
  <2>3. psn_nxt \in 0..Len(sent)
    BY Counters DEF Inv, LogWhole, Whole
  <2>4. QED
    BY <2>1, <2>2, <2>3, Zenon DEF Channel!ChanSend
<1>3. ASSUME NEW p \in net, Receive(p) \/ ReceiveCopy(p)
      PROVE  Channel!ChanDeliver \/ UNCHANGED <<sent, delivered>>
  <2>1. kcp_input_pcaket(p) /\ net' \subseteq net /\ losses' \in Nat /\ dups' \in Nat
    BY <1>3, NetworkStep
  <2>2. CASE PushAccepted(p)
    <3>1. sent' = sent
      BY <2>2 DEF PushAccepted, histVars
    <3>2. QED
      BY <2>1, <2>2, <3>1, PushStep
  <2>3. CASE on_kcp_ack_pcaket(p) \/ WinsReceived(p) \/ PushRefused(p) \/ WaskReceived(p)
    <3>1. UNCHANGED <<sent, read, rcv_queue>>
      BY <2>3 DEF on_kcp_ack_pcaket, WinsReceived, PushRefused, WaskReceived, rcvVars, histVars
    <3>2. QED
      BY <3>1 DEF delivered
  <2>4. QED
    BY <2>1, <2>2, <2>3 DEF kcp_input_pcaket
<1>4. CASE kcp_recv
  <2>1. sent' = sent /\ read' = read \o rcv_queue /\ rcv_queue' = <<>>
    BY <1>4 DEF kcp_recv
  <2>2. read \o rcv_queue \in Seq(Frag)
    BY Facts, ConcatFrags
  <2>3. (read \o rcv_queue) \o <<>> = read \o rcv_queue
    BY <2>2, ConcatEmptySeq, Zenon
  <2>4. QED
    BY <2>1, <2>3 DEF delivered
<1>5. CASE FlushAny \/ RcvFlush \/ (\E p \in net : Lose(p)) \/ UNCHANGED vars
  <2>1. UNCHANGED <<sent, read, rcv_queue>>
    <3>1. CASE FlushAny
      BY <3>1 DEF FlushAny, Flush, rcvVars, histVars
    <3>2. CASE RcvFlush
      BY <3>2 DEF RcvFlush, histVars
    <3>3. CASE \E p \in net : Lose(p)
      BY <3>3 DEF Lose, rcvVars, histVars
    <3>4. CASE UNCHANGED vars
      BY <3>4 DEF vars, rcvVars, histVars
    <3>5. QED
      BY <1>5, <3>1, <3>2, <3>3, <3>4
  <2>2. QED
    BY <2>1 DEF delivered
<1>6. QED
  BY <1>2, <1>3, <1>4, <1>5 DEF Next, ReceiveAny, Channel!ChanNext

\* The data path implements the channel: on_kcp_push_pcaket hands over whole
\* messages, each once, in the order of kcp_send.
THEOREM Refinement == Spec => ImplementsChannel
<1>1. Init => Channel!ChanInit
  BY ChannelInit
<1>2. Inv /\ [Next]_vars => [Channel!ChanNext]_<<sent, delivered>>
  BY ChannelStep
<1>3. QED
  BY <1>1, <1>2, Invariance, PTL DEF Spec, ImplementsChannel, Channel!ChanSpec, Channel!chanVars
=============================================================================
