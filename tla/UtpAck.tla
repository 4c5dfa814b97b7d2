------------------------------- MODULE UtpAck -------------------------------
(***************************************************************************)
(* Packets and acknowledgements of a libutp connection, in one direction:  *)
(* how the receiver decides what to acknowledge and when                   *)
(* (ConnectionImpl::onUdpPacket, sendAckPacket, onAckTimeout), what its    *)
(* ReceiveHistory says in the ACK frame, and how the sender's SendControl  *)
(* takes packets for arrived or for lost and sends them again under new    *)
(* numbers.  A payload stands for the STREAM frames of a packet and is     *)
(* done when the packet that carries it is acknowledged; payload 0 is a    *)
(* packet that holds an ACK frame only: it takes a number, is not tracked  *)
(* and asks for no acknowledgement.                                        *)
(*                                                                         *)
(* The network loses, doubles and reorders packets and frames.  The sender *)
(* may move to another address (a NAT binds it anew); the receiver then    *)
(* validates the new address before it uses it, and skips the frames that  *)
(* come from it until then.  Time is abstract: a timer may fire whenever   *)
(* it is armed.  Congestion control and pacing only delay the sender and   *)
(* are left out.                                                           *)
(***************************************************************************)
EXTENDS UtpHistory, FiniteSetsExt

CONSTANTS
  ADDRESSES,      \* addresses the sender may have, 1..n in this order
  THRESHOLD,      \* m_ackElicitingThreshold
  REORDERING,     \* m_ackReorderingThreshold
  REORDER_THRESH, \* m_reorderThresh: its values, the threshold adapts
  MAX_TLP,        \* tail loss probes before the timer takes all for lost
  MAX_DATA,       \* bound: payloads 1..MAX_DATA
  MAX_PN,         \* bound: packet numbers
  FAULTS          \* bound: losses, doubled packets, refusals, early timers,
                  \* ACK-only packets

ASSUME AckAssumption ==
  /\ ADDRESSES \in Nat \ {0}
  /\ THRESHOLD \in Nat /\ REORDERING \in Nat \ {0} /\ REORDER_THRESH \subseteq Nat
  /\ MAX_TLP \in Nat /\ MAX_DATA \in Nat /\ MAX_PN \in Nat /\ FAULTS \in Nat

VARIABLES
  snd,        \* the sender: SendControl
  rcv,        \* the receiver: history, acknowledgement timer, path
  net,        \* packets in flight
  acks,       \* ACK frames in flight
  faults,     \* faults that may still happen
  arrived,    \* history: numbers of the packets taken
  processed,  \* history: payloads handed to the streams
  done        \* history: payloads acknowledged

vars == <<snd, rcv, net, acks, faults, arrived, processed, done>>

Payloads == 1..MAX_DATA
NoAddress == 0

Packets == [pn : 1..MAX_PN, data : 0..MAX_DATA, from : 1..ADDRESSES]

Init ==
  /\ snd = [next |-> 1,          \* m_packetNumber
            sent |-> 0,          \* the last payload handed over
            address |-> 1,
            unacked |-> {},      \* m_unackedPackets, in the order of their numbers
            lost |-> <<>>,       \* m_lostPackets
            largest |-> 0,       \* m_largestAckedPackNo
            lossTo |-> FALSE,    \* m_lossTo # 0
            tlp |-> 0]           \* m_nTlp
  /\ rcv = [hist |-> EmptyHistory,
            pending |-> 0,       \* m_ackElicitingSinceLastAck
            timer |-> FALSE,     \* m_ackTimer is running
            active |-> 1,        \* m_peerAddress
            candidate |-> NoAddress]   \* m_networkPath's address while it is validated
  /\ net = {} /\ acks = {} /\ faults = FAULTS
  /\ arrived = {} /\ processed = {} /\ done = {}

----------------------------------------------------------------------------
\* The sender

Packet(pn, data) == [pn |-> pn, data |-> data, from |-> snd.address]

\* sendStreamFrame: a new payload.
SendData ==
  /\ snd.sent < MAX_DATA /\ snd.next <= MAX_PN
  /\ LET p == Packet(snd.next, snd.sent + 1)
     IN  /\ snd' = [snd EXCEPT !.next = @ + 1, !.sent = @ + 1,
                               !.unacked = @ \cup {[pn |-> p.pn, data |-> p.data]}]
         /\ net' = net \cup {p}
  /\ UNCHANGED <<rcv, acks, faults, arrived, processed, done>>

\* An ACK-only packet for what the other direction carries.
SendAckOnly ==
  /\ faults > 0 /\ faults' = faults - 1
  /\ snd.next <= MAX_PN
  /\ snd' = [snd EXCEPT !.next = @ + 1]
  /\ net' = net \cup {Packet(snd.next, 0)}
  /\ UNCHANGED <<rcv, acks, arrived, processed, done>>

\* Removed from the tracked packets and queued to be sent again, lowest
\* number first.
MoveToLost(s, gone) ==
  [s EXCEPT !.unacked = @ \ gone,
            !.lost = @ \o [i \in 1..Cardinality(gone) |->
                             (CHOOSE p \in gone : Cardinality({q \in gone : q.pn < p.pn}) = i - 1).data]]

\* Lost: too far below the greatest number acknowledged (FACK), or all of
\* them once nothing above it is out (early retransmit), or those sent long
\* before it (the numbers up to cut).
LostPackets(s, thresh, cut) ==
  {p \in s.unacked :
     /\ p.pn <= s.largest
     /\ \/ p.pn + thresh < s.largest
        \/ \A q \in s.unacked : q.pn <= s.largest
        \/ p.pn <= cut}

EarlyRetransmit(s, thresh) ==
  /\ \A q \in s.unacked : q.pn <= s.largest
  /\ \E p \in s.unacked : p.pn + thresh >= s.largest

DetectLossesKeepsTimer(s, thresh, cut) ==
  [MoveToLost(s, LostPackets(s, thresh, cut)) EXCEPT !.lossTo = @ \/ EarlyRetransmit(s, thresh)]

detectLosses(s, thresh, cut) ==
  [MoveToLost(s, LostPackets(s, thresh, cut)) EXCEPT !.lossTo = EarlyRetransmit(s, thresh)]

\* A loss by sending time is spurious more often than not: it counts as a
\* fault.
CutFault(s, thresh, cut) == LostPackets(s, thresh, cut) # LostPackets(s, thresh, 0)

OnAckRemoves(frame) == {p \in snd.unacked : p.pn \in Acknowledged(frame)}

\* The ACK frame: acknowledged packets go, the greatest number moves up, and
\* when there was news the rest is looked through for losses.
onAckReceived(frame, thresh, cut) ==
  LET acked == OnAckRemoves(frame)
      news  == acked # {} \/ frame.largest > snd.largest
      s     == [snd EXCEPT !.unacked = @ \ acked,
                           !.largest = IF frame.largest > @ THEN frame.largest ELSE @,
                           !.tlp = IF acked # {} THEN 0 ELSE @]
      fault == news /\ CutFault(s, thresh, cut)
  IN  /\ fault => faults > 0
      /\ ~news => cut = 0
      /\ faults' = IF fault THEN faults - 1 ELSE faults
      /\ done' = done \cup {p.data : p \in acked}
      /\ snd' = IF s.unacked = {} THEN [s EXCEPT !.lossTo = FALSE]
                ELSE IF news THEN detectLosses(s, thresh, cut)
                ELSE s

\* A frame that does not decode is ignored.
AckArrives(frame) ==
  /\ frame \in acks
  /\ acks' = acks \ {frame}
  /\ IF Decodes(frame)
     THEN \E thresh \in REORDER_THRESH, cut \in {0} \cup {p.pn : p \in snd.unacked} :
            onAckReceived(frame, thresh, cut)
     ELSE UNCHANGED <<snd, faults, done>>
  /\ UNCHANGED <<rcv, net, arrived, processed>>

InFlight == net # {} \/ acks # {} \/ rcv.timer

\* onRetransTimer: losses are looked for again, or the last packet is taken
\* for lost (MAX_TLP times), or all of them.  Firing while an answer may still come
\* counts as a fault.
RetransTimer ==
  /\ snd.unacked # {}
  /\ \E thresh \in REORDER_THRESH :
       LET last == CHOOSE p \in snd.unacked : \A q \in snd.unacked : q.pn <= p.pn
           s == IF snd.lossTo THEN detectLosses(snd, thresh, 0)
                ELSE IF snd.tlp < MAX_TLP THEN MoveToLost([snd EXCEPT !.tlp = @ + 1], {last})
                ELSE MoveToLost(snd, snd.unacked)
           early == InFlight /\ s.unacked # snd.unacked
       IN  /\ early => faults > 0
           /\ faults' = IF early THEN faults - 1 ELSE faults
           /\ snd' = s
  /\ UNCHANGED <<rcv, net, acks, arrived, processed, done>>

RetransmitDropsUnsent ==
  /\ snd.lost # <<>>
  /\ snd.next + Len(snd.lost) <= MAX_PN + 1
  /\ \E k \in 1..Len(snd.lost) :
       LET again == {Packet(snd.next + i - 1, snd.lost[i]) : i \in 1..k}
       IN  /\ k < Len(snd.lost) => faults > 0
           /\ faults' = IF k < Len(snd.lost) THEN faults - 1 ELSE faults
           /\ snd' = [snd EXCEPT !.next = @ + Len(snd.lost),
                                 !.lost = <<>>,
                                 !.unacked = @ \cup {[pn |-> p.pn, data |-> p.data] : p \in again}]
           /\ net' = net \cup again
  /\ UNCHANGED <<rcv, acks, arrived, processed, done>>

\* retransmitLostBatch: every packet prepared takes a new number; the socket
\* may take only the first k, the others get another number next time.
Retransmit ==
  /\ snd.lost # <<>>
  /\ snd.next + Len(snd.lost) <= MAX_PN + 1
  /\ \E k \in 1..Len(snd.lost) :
       LET again == {Packet(snd.next + i - 1, snd.lost[i]) : i \in 1..k}
       IN  /\ k < Len(snd.lost) => faults > 0
           /\ faults' = IF k < Len(snd.lost) THEN faults - 1 ELSE faults
           /\ snd' = [snd EXCEPT !.next = @ + Len(snd.lost),
                                 !.lost = SubSeq(@, k + 1, Len(@)),
                                 !.unacked = @ \cup {[pn |-> p.pn, data |-> p.data] : p \in again}]
           /\ net' = net \cup again
  /\ UNCHANGED <<rcv, acks, arrived, processed, done>>

----------------------------------------------------------------------------
\* The receiver

SendAckForgetsTimer(r, blocked) ==
  IF blocked
  THEN [rcv |-> [r EXCEPT !.timer = FALSE], acks |-> {}]
  ELSE [rcv |-> [r EXCEPT !.pending = 0, !.timer = FALSE], acks |-> {encode(r.hist)}]

\* sendAckPacket and what its callers do when it fails: the frame goes out,
\* or sendPacket refuses it (the frame is larger than the packet size in use,
\* the path may not be used yet, the socket is full) and the timer runs again.
sendAckPacket(r, blocked) ==
  IF blocked
  THEN [rcv |-> [r EXCEPT !.timer = TRUE], acks |-> {}]
  ELSE [rcv |-> [r EXCEPT !.pending = 0, !.timer = FALSE], acks |-> {encode(r.hist)}]

\* An acknowledgement is sent at once when enough packets ask for it or
\* numbers are missing, by the timer otherwise.
ackDecision(r, reorderedGap, blocked) ==
  IF r.pending = 0 THEN [rcv |-> r, acks |-> {}]
  ELSE IF r.pending >= Max({1, THRESHOLD}) \/ reorderedGap THEN sendAckPacket(r, blocked)
  ELSE [rcv |-> [r EXCEPT !.timer = TRUE], acks |-> {}]

\* A packet from an address not in use starts the validation of that address.
Candidate(p) == IF p.from = rcv.active THEN rcv.candidate ELSE p.from

SuppressAckNever(p, refused) == FALSE

\* streamBackpressured: a packet the streams have no room for is not
\* acknowledged.
suppressAck(p, refused) == refused

\* onUdpPacket.  Frames that come from a candidate address are skipped; the
\* network may keep a second copy of the packet.
onUdpPacket(p, refused, doubled, blocked) ==
  LET h       == rcv.hist
      gap     == h.largest # 0 /\ p.pn > h.largest + 1 /\ p.pn - h.largest - 1 >= REORDERING
      unknown == p.from # rcv.active
      r       == [rcv EXCEPT !.candidate = Candidate(p)]
      taken   == [r EXCEPT !.hist = insert(h, p.pn), !.pending = IF p.data = 0 THEN @ ELSE @ + 1]
      result  == ackDecision(taken, gap, blocked)
      fault   == refused \/ doubled \/ blocked
  IN  /\ p \in net
      /\ net' = IF doubled THEN net ELSE net \ {p}
      /\ refused => p.data # 0 /\ ~unknown
      /\ blocked => ~refused /\ ackDecision(taken, gap, FALSE).acks # {}
      /\ fault => faults > 0
      /\ faults' = IF fault THEN faults - 1 ELSE faults
      /\ processed' = IF unknown \/ refused \/ p.data = 0 THEN processed ELSE processed \cup {p.data}
      /\ IF suppressAck(p, refused)
         THEN rcv' = r /\ UNCHANGED <<acks, arrived>>
         ELSE /\ rcv' = result.rcv
              /\ acks' = acks \cup result.acks
              /\ arrived' = arrived \cup {p.pn}
      /\ UNCHANGED <<snd, done>>

\* The timer (onAckTimeout), or data of the other direction that carries the
\* frame along (sendStreamFrame).
SendAck(blocked) ==
  /\ rcv.pending > 0
  /\ blocked => faults > 0
  /\ faults' = IF blocked THEN faults - 1 ELSE faults
  /\ LET result == sendAckPacket(rcv, blocked)
     IN  rcv' = result.rcv /\ acks' = acks \cup result.acks
  /\ UNCHANGED <<snd, net, arrived, processed, done>>

AckTimeout == rcv.timer /\ SendAck(FALSE)

\* The candidate address answered the challenge, or did not in time.
PathValidated ==
  /\ rcv.candidate # NoAddress
  /\ rcv' = [rcv EXCEPT !.active = rcv.candidate, !.candidate = NoAddress]
  /\ UNCHANGED <<snd, net, acks, faults, arrived, processed, done>>

PathFailed ==
  /\ rcv.candidate # NoAddress
  /\ rcv' = [rcv EXCEPT !.candidate = NoAddress]
  /\ UNCHANGED <<snd, net, acks, faults, arrived, processed, done>>

----------------------------------------------------------------------------
\* The network

Rebind ==
  /\ snd.address < ADDRESSES
  /\ snd' = [snd EXCEPT !.address = @ + 1]
  /\ UNCHANGED <<rcv, net, acks, faults, arrived, processed, done>>

LosePacket ==
  /\ faults > 0 /\ faults' = faults - 1
  /\ \E p \in net : net' = net \ {p}
  /\ UNCHANGED <<snd, rcv, acks, arrived, processed, done>>

LoseAck ==
  /\ faults > 0 /\ faults' = faults - 1
  /\ \E frame \in acks : acks' = acks \ {frame}
  /\ UNCHANGED <<snd, rcv, net, arrived, processed, done>>

Receive == \E p \in net, refused, doubled, blocked \in BOOLEAN : onUdpPacket(p, refused, doubled, blocked)
SendAckNow == \E blocked \in BOOLEAN : SendAck(blocked)
ReceiveAck == \E frame \in acks : AckArrives(frame)

Next ==
  \/ SendData \/ SendAckOnly \/ ReceiveAck \/ RetransTimer \/ Retransmit
  \/ Receive \/ SendAckNow \/ LosePacket \/ LoseAck

Spec == Init /\ [][Next]_vars

\* The same with a sender whose address changes.
MigrateNext == Next \/ Rebind \/ PathValidated \/ PathFailed

MigrateSpec == Init /\ [][MigrateNext]_vars

\* Fairness: while the application has data to send, an armed timer can fire,
\* a lost packet can be sent again or something in flight can arrive, one of
\* these happens in the end.  The retransmission timer need only fire when no
\* answer is under way any more.
Progress ==
  \/ SendData \/ Retransmit \/ AckTimeout \/ ReceiveAck
  \/ RetransTimer /\ ~InFlight
  \/ \E p \in net : onUdpPacket(p, FALSE, FALSE, FALSE)

FairSpec == Spec /\ WF_vars(Progress)

----------------------------------------------------------------------------
\* Properties

Senders ==
  [next : 1..(MAX_PN + 1), sent : 0..MAX_DATA,
   address : 1..ADDRESSES, unacked : SUBSET [pn : 1..MAX_PN, data : Payloads],
   lost : Seq(Payloads), largest : 0..MAX_PN, lossTo : BOOLEAN, tlp : 0..MAX_TLP]

\* The fields of both ends and of what is in flight.
TypeOK ==
  /\ snd \in Senders
  /\ rcv.hist.list \in Seq([low : 1..MAX_PN, high : 1..MAX_PN])
  /\ rcv.hist.cutoff \in 0..(MAX_PN + 1) /\ rcv.hist.largest \in 0..MAX_PN
  /\ rcv.pending \in Nat /\ rcv.timer \in BOOLEAN
  /\ rcv.active \in 1..ADDRESSES /\ rcv.candidate \in 0..ADDRESSES
  /\ net \subseteq Packets /\ faults \in 0..FAULTS
  /\ arrived \subseteq 1..MAX_PN
  /\ processed \subseteq Payloads /\ done \subseteq Payloads

\* ReceiveHistory, with the types of all fields: the intervals lie in descending order with gaps between
\* them, no more than MAX_RANGES, all at or above the cutoff, and the first
\* one ends at m_largest, which FrameAck::encode relies on.
HistoryShape ==
  LET h == rcv.hist
  IN  /\ TypeOK
      /\ Len(h.list) <= MAX_RANGES
      /\ \A i \in DOMAIN h.list : h.cutoff <= h.list[i].low /\ h.list[i].low <= h.list[i].high
      /\ \A i \in 1..(Len(h.list) - 1) : h.list[i + 1].high + 1 < h.list[i].low
      /\ h.list # <<>> => h.list[1].high = h.largest

\* Every ACK frame under way decodes, names the numbers of packets that were
\* taken and no other, whatever intervals the history had to drop or the
\* frame had no room for.
AcksTruthful ==
  \A frame \in acks : Decodes(frame) /\ Acknowledged(frame) \subseteq arrived

\* The sender forgets a payload only when the receiver's streams were given
\* it: a packet refused for want of room, or whose frames were skipped, is
\* not acknowledged.
AckedProcessed == done \subseteq processed

\* Every payload sent and not acknowledged is tracked in one place, under one
\* number, so it is sent again if need be and never twice at once.
TrackedOnce ==
  LET Places(d) == Cardinality({p \in snd.unacked : p.data = d})
                   + Cardinality({i \in DOMAIN snd.lost : snd.lost[i] = d})
  IN  \A d \in 1..snd.sent : Places(d) = IF d \in done THEN 0 ELSE 1

\* A packet that asks for an acknowledgement is not left waiting: the timer
\* runs whenever one is due.
AckDue == rcv.pending > 0 => rcv.timer

\* The history implements the set of numbers it stands for.
AckSet == INSTANCE UtpAckSet WITH
  known <- Numbers(rcv.hist.list), cutoff <- rcv.hist.cutoff, largest <- rcv.hist.largest,
  NUMBERS <- 1..MAX_PN

ImplementsAckSet == AckSet!SetSpec

\* Whatever is lost, refused, dropped from the history or left out of a
\* frame, every payload is acknowledged in the end.
AllAcked == <>[](done = Payloads)

----------------------------------------------------------------------------
\* The inductive invariant of the proofs

Receivers ==
  [hist : [list : Seq(Intervals), cutoff : Nat, largest : Nat],
   pending : Nat, timer : BOOLEAN, active : 1..ADDRESSES, candidate : 0..ADDRESSES]

\* A sender whose acknowledged payloads are acked: what it tracks has numbers
\* below the next one, and a payload sent is tracked or acknowledged, in one
\* place.
Tracking(s, acked) ==
  /\ s \in Senders
  /\ \A p \in s.unacked : p.pn < s.next /\ p.data <= s.sent
  /\ \A p, q \in s.unacked : p.pn = q.pn \/ p.data = q.data => p = q
  /\ \A i \in 1..Len(s.lost) : s.lost[i] <= s.sent
  /\ \A i, j \in 1..Len(s.lost) : s.lost[i] = s.lost[j] => i = j
  /\ \A p \in s.unacked, i \in 1..Len(s.lost) : p.data # s.lost[i]
  /\ acked \subseteq 1..s.sent
  /\ \A d \in 1..s.sent :
       d \in acked <=> (\A p \in s.unacked : p.data # d) /\ \A i \in 1..Len(s.lost) : s.lost[i] # d

\* A receiver that took the packets with the numbers taken: its history holds
\* some of them, and some number when an acknowledgement is due.
Recording(r, taken) ==
  /\ r \in Receivers
  /\ WellFormed(r.hist) /\ r.hist.cutoff <= MAX_PN + 1
  /\ Numbers(r.hist.list) \subseteq taken
  /\ r.pending > 0 => r.timer /\ r.hist.list # <<>>

\* A frame about the numbers taken.
Truthful(frame, taken) ==
  Decodes(frame) /\ Acknowledged(frame) \subseteq taken /\ frame.largest \in 0..MAX_PN

Inv ==
  /\ Tracking(snd, done)
  /\ Recording(rcv, arrived)
  /\ \A frame \in acks : Truthful(frame, arrived)
  /\ net \subseteq Packets /\ \A p \in net : p.pn < snd.next /\ p.data <= snd.sent
  /\ arrived \subseteq 1..MAX_PN /\ \A n \in arrived : n < snd.next
  /\ processed \subseteq Payloads /\ faults \in 0..FAULTS

\* With one address only: a packet under way carries what its number is
\* tracked for, and a tracked payload whose number was taken is with the
\* streams.
Handed ==
  /\ snd.address = 1 /\ rcv.active = 1 /\ \A p \in net : p.from = 1
  /\ \A p \in net, q \in snd.unacked : p.pn = q.pn => p.data = q.data
  /\ \A q \in snd.unacked : q.pn \in arrived => q.data \in processed
  /\ done \subseteq processed

AddressInv == Inv /\ Handed
=============================================================================
