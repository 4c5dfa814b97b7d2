------------------------------ MODULE KcpData -------------------------------
(***************************************************************************)
(* The data path of a kcp connection, from one endpoint (the sender) to    *)
(* the other (the receiver): kcp_send, the periodic flush, PUSH and ACK    *)
(* handling, fragment reassembly, window probing and kcp_recv              *)
(* (kcp_protocol.c, kcpp.c).  Both endpoints are CONNECTED; the handshake  *)
(* and the teardown are KcpConn's subject.                                 *)
(*                                                                         *)
(* A fragment is [psn, frg, wnd]: psn and frg stand for its payload, and   *)
(* wnd is the number of fragments of the message in its head and 0 in the  *)
(* others (there the code advertises the sender's own receive window, of   *)
(* no use to a peer that sends no data).  Serial numbers are naturals: the *)
(* code's are 32 bits wide and it does not handle their wrap (FIXME at     *)
(* kcp_protocol.c:1961).  Time is left out: whether a timer is due is a    *)
(* free choice of the flush.                                               *)
(*                                                                         *)
(* A batch of more than KCP_PACKET_COUNT datagrams, which the flush sends  *)
(* in several calls, is not told apart from one call.  A send that fails   *)
(* (EAGAIN) has already counted its segments as sent: it is a loss.        *)
(*                                                                         *)
(* The network is the set of packets in flight.  Any packet may be taken   *)
(* next, lost, or taken and left for a second delivery.                    *)
(***************************************************************************)
EXTENDS Integers, Sequences, FiniteSetsExt, Functions

CONSTANTS
  SND_WND, RCV_WND,     \* snd_wnd and rcv_wnd of the endpoints
  CWNDS,                \* the values congestion control may give cwnd
  MAX_FRAGS,            \* KCP_PACKET_SIZE
  XMIT_MAX,             \* KCP_RETRANSMISSION_MAX
  FASTRESEND,           \* fastresend: 0 switches fast retransmission off
  FASTLIMIT,            \* fastlimit: 0 is no limit (kcp_connection_init leaves it unset)
  TIMELY,               \* TRUE: a timer outlasts every packet in flight
  MAX_MSGS, MAX_LOSS, MAX_DUP   \* bounds: calls of kcp_send, packets lost, duplicated

ASSUME DataAssumption ==
  /\ SND_WND \in Nat \ {0} /\ RCV_WND \in Nat \ {0}
  /\ CWNDS \subseteq Nat \ {0}
  /\ MAX_FRAGS \in Nat \ {0} /\ MAX_FRAGS <= RCV_WND  \* "must >= max fragment size"
  /\ XMIT_MAX \in Nat \ {0} /\ FASTRESEND \in Nat /\ FASTLIMIT \in Nat
  /\ TIMELY \in BOOLEAN
  /\ MAX_MSGS \in Nat /\ MAX_LOSS \in Nat /\ MAX_DUP \in Nat

VARIABLES
  \* sender
  state,        \* "CONNECTED", or "DISCONNECTED" after TOO_MANY_RETRANS
  psn_nxt, snd_queue, snd_buf, snd_nxt, snd_una, rmt_wnd, probe_wait,
  \* receiver
  rcv_nxt, rcv_buf, rcv_packet, nrcv_buf, rcv_queue, ack_item, ask_tell,
  \* network and bounds
  net, losses, dups,
  \* history: what kcp_send accepted, what kcp_recv returned
  sent, read

sndVars  == <<state, psn_nxt, snd_queue, snd_buf, snd_nxt, snd_una, rmt_wnd, probe_wait>>
rcvVars  == <<rcv_nxt, rcv_buf, rcv_packet, nrcv_buf, rcv_queue, ack_item, ask_tell>>
netVars  == <<net, losses, dups>>
histVars == <<sent, read>>
vars     == <<sndVars, rcvVars, netVars, histVars>>

\* The refinement mapping: the channel has delivered what the application read
\* and what waits for it in the receive queue.
delivered == read \o rcv_queue

Channel == INSTANCE KcpChannel WITH sent <- sent, delivered <- delivered

----------------------------------------------------------------------------
\* Data

Frag     == [psn : Nat, frg : Nat, wnd : Nat]
Segment  == [seg : Frag, xmit : Nat, fastack : Nat]
Assembly == [start_sn : Nat, has_head : BOOLEAN, expected_frags : Nat, received_frags : Nat]

Push(sn, f)       == [cmd |-> "PUSH", sn |-> sn, seg |-> f]
Ack(sn, una, wnd) == [cmd |-> "ACK", sn |-> sn, una |-> una, wnd |-> wnd]
Wask              == [cmd |-> "WASK"]
Wins(wnd)         == [cmd |-> "WINS", wnd |-> wnd]

Packet ==   [cmd : {"PUSH"}, sn : Nat, seg : Frag]
       \cup [cmd : {"ACK"}, sn : Nat, una : Nat, wnd : Nat]
       \cup [cmd : {"WASK"}]
       \cup [cmd : {"WINS"}, wnd : Nat]

Smaller(a, b) == IF a < b THEN a ELSE b

\* f with v at k, whether or not k was in its domain.
Put(f, k, v) == [x \in DOMAIN f \cup {k} |-> IF x = k THEN v ELSE f[x]]

Init ==
  /\ state = "CONNECTED"
  /\ psn_nxt = 0 /\ snd_nxt = 0 /\ snd_una = 0 /\ rcv_nxt = 0
  /\ snd_queue = <<>> /\ snd_buf = <<>>
  /\ rmt_wnd = RCV_WND /\ probe_wait = 0
  /\ rcv_buf = <<>> /\ rcv_packet = <<>> /\ nrcv_buf = 0
  /\ rcv_queue = <<>> /\ ack_item = <<>> /\ ask_tell = FALSE
  /\ net = {} /\ losses = 0 /\ dups = 0
  /\ sent = <<>> /\ read = <<>>

----------------------------------------------------------------------------
\* Sender

\* kcp_send: a message of n fragments joins the send queue.
kcp_send(n) ==
  /\ state = "CONNECTED"
  /\ psn_nxt < MAX_MSGS
  /\ snd_queue' = snd_queue \o Channel!Fragments(psn_nxt, n)
  /\ sent' = sent \o Channel!Fragments(psn_nxt, n)
  /\ psn_nxt' = psn_nxt + 1
  /\ UNCHANGED <<state, snd_buf, snd_nxt, snd_una, rmt_wnd, probe_wait, rcvVars, netVars, read>>

MovedOneMore(cwnd) ==
  LET room == snd_una + Smaller(Smaller(SND_WND, rmt_wnd), cwnd) - snd_nxt + 1
  IN  IF room < 0 THEN 0 ELSE Smaller(room, Len(snd_queue))

\* How many segments the flush moves from snd_queue to snd_buf.
Moved(cwnd) ==
  LET room == snd_una + Smaller(Smaller(SND_WND, rmt_wnd), cwnd) - snd_nxt
  IN  IF room < 0 THEN 0 ELSE Smaller(room, Len(snd_queue))

\* snd_buf once k segments of snd_queue have been given serial numbers.
Filled(k) ==
  [sn \in DOMAIN snd_buf \cup (snd_nxt .. snd_nxt + k - 1) |->
     IF sn \in DOMAIN snd_buf THEN snd_buf[sn]
     ELSE [seg |-> snd_queue[sn - snd_nxt + 1], xmit |-> 0, fastack |-> 0]]

\* Segments the fast retransmission rule picks in buf.
FastDue(buf) ==
  {sn \in DOMAIN buf : /\ buf[sn].xmit > 0
                       /\ FASTRESEND > 0 /\ buf[sn].fastack >= FASTRESEND
                       /\ FASTLIMIT = 0 \/ buf[sn].xmit <= FASTLIMIT}

TransmittedUncounted(buf, S, F) ==
  [sn \in DOMAIN buf |-> IF sn \in S THEN [buf[sn] EXCEPT !.xmit = 1] ELSE buf[sn]]

\* buf after the loop has sent the segments of S, F of them by fast retransmission.
Transmitted(buf, S, F) ==
  [sn \in DOMAIN buf |->
     IF sn \in F THEN [buf[sn] EXCEPT !.xmit = @ + 1, !.fastack = 0]
     ELSE IF sn \in S THEN [buf[sn] EXCEPT !.xmit = @ + 1]
     ELSE buf[sn]]

\* With TIMELY a timer only runs out on a packet whose acknowledgement can no longer come.
TimerMayExpire == TIMELY => (net = {} /\ ack_item = <<>> /\ ~ask_tell)

\* on_kcp_write_timeout at the sender.  The window probe first; then the
\* move to snd_buf; then the loop over snd_buf: paced are the new segments
\* the pacing credit covers (a short one may go ahead of a longer one that has
\* to wait), due the ones whose retransmission timer ran out.
\* A segment that would exceed XMIT_MAX ends the connection with on_error
\* (TOO_MANY_RETRANS), and what the loop had gathered is not sent.
Flush(cwnd, askDue, paced, due) ==
  LET k    == Moved(cwnd)
      buf  == Filled(k)
      fast == FastDue(buf) \ due
      out  == paced \cup due \cup fast
      buf2 == Transmitted(buf, out, fast)
      over == {sn \in DOMAIN buf2 : buf2[sn].xmit > XMIT_MAX}
      ask  == rmt_wnd = 0 /\ probe_wait = 1 /\ askDue
      wask == IF ask THEN {Wask} ELSE {}
  IN  /\ state = "CONNECTED"
      /\ paced \subseteq {sn \in DOMAIN buf : buf[sn].xmit = 0}
      /\ due \subseteq {sn \in DOMAIN buf : buf[sn].xmit > 0}
      /\ due # {} => TimerMayExpire
      /\ askDue => TimerMayExpire
      /\ probe_wait' = IF rmt_wnd = 0 THEN 1 ELSE 0
      /\ snd_queue' = SubSeq(snd_queue, k + 1, Len(snd_queue))
      /\ snd_nxt' = snd_nxt + k
      /\ IF over = {}
         THEN /\ state' = "CONNECTED"
              /\ snd_buf' = buf2
              /\ net' = net \cup wask \cup {Push(sn, buf[sn].seg) : sn \in out}
         ELSE /\ state' = "DISCONNECTED"
              /\ snd_buf' = [sn \in DOMAIN buf |-> IF sn <= Min(over) THEN buf2[sn] ELSE buf[sn]]
              /\ net' = net \cup wask
      /\ UNCHANGED <<psn_nxt, snd_una, rmt_wnd, losses, dups, rcvVars, histVars>>

\* snd_una after an ACK that leaves the segments left in snd_buf.
NextUna(left) == IF left = {} THEN snd_nxt ELSE Min(left)

AckUnaFirst(p) ==
  /\ state = "CONNECTED" /\ p.cmd = "ACK"
  /\ rmt_wnd' = p.wnd
  /\ snd_una' = p.una
  /\ IF p.sn < snd_una \/ p.sn > snd_nxt
     THEN UNCHANGED snd_buf
     ELSE snd_buf' = Restrict(snd_buf, {sn \in DOMAIN snd_buf : sn # p.sn /\ sn >= p.una})
  /\ UNCHANGED <<state, psn_nxt, snd_queue, snd_nxt, probe_wait, rcvVars, histVars>>

\* on_kcp_ack_pcaket: the acknowledged segment and those below una leave
\* snd_buf, the ones overtaken count towards a fast retransmission.
on_kcp_ack_pcaket(p) ==
  /\ state = "CONNECTED" /\ p.cmd = "ACK"
  /\ rmt_wnd' = p.wnd
  /\ IF p.sn < snd_una \/ p.sn > snd_nxt
     THEN UNCHANGED <<snd_buf, snd_una>>
     ELSE LET left == {sn \in DOMAIN snd_buf : sn # p.sn /\ sn >= p.una}
          IN  /\ snd_buf' = [sn \in left |->
                               IF sn < p.sn
                               THEN [snd_buf[sn] EXCEPT !.fastack = Smaller(@ + 1, FASTRESEND)]
                               ELSE snd_buf[sn]]
              /\ snd_una' = NextUna(left)
  /\ UNCHANGED <<state, psn_nxt, snd_queue, snd_nxt, probe_wait, rcvVars, histVars>>

\* KCP_CMD_WINS in kcp_input_pcaket.
WinsReceived(p) ==
  /\ state = "CONNECTED" /\ p.cmd = "WINS"
  /\ rmt_wnd' = p.wnd
  /\ UNCHANGED <<state, psn_nxt, snd_queue, snd_buf, snd_nxt, snd_una, probe_wait, rcvVars, histVars>>

----------------------------------------------------------------------------
\* Receiver

\* kcp_wnd_unused: the window the receiver advertises.
kcp_wnd_unused == IF nrcv_buf < RCV_WND THEN RCV_WND - nrcv_buf ELSE 0

\* on_kcp_write_timeout at the receiver: one ACK per item, all with the same
\* una and wnd, then the window the peer is to be told.  The ACKs and the WINS
\* share kcp_header_buffer, and kcp_proto_header_encode ORs the command into
\* it: a WINS (5) behind an ACK (2) leaves as a PONG (7) of no session, which
\* the peer ignores.
RcvFlush ==
  /\ ack_item # <<>> \/ ask_tell
  /\ net' = net \cup {Ack(ack_item[i], rcv_nxt, kcp_wnd_unused) : i \in DOMAIN ack_item}
                \cup IF ask_tell /\ ack_item = <<>> THEN {Wins(kcp_wnd_unused)} ELSE {}
  /\ ack_item' = <<>> /\ ask_tell' = FALSE
  /\ UNCHANGED <<sndVars, rcv_nxt, rcv_buf, rcv_packet, nrcv_buf, rcv_queue, losses, dups, histVars>>

NextGapSkips(buf, sn) == sn + RCV_WND

\* The first serial number from sn on that is not in buf: the loop that
\* advances rcv_nxt.  No segment lies at or beyond rcv_nxt + RCV_WND.
NextGap(buf, sn) == Min({n \in sn .. sn + RCV_WND : n \notin DOMAIN buf})

JoinedRestarted(sn, f) ==
  [start_sn |-> sn - f.frg, has_head |-> f.frg = 0, expected_frags |-> f.wnd, received_frags |-> 1]

JoinedBeforeHead(sn, f) ==
  [start_sn |-> sn - f.frg - 1, has_head |-> FALSE, expected_frags |-> 0, received_frags |-> 1]

JoinedShort(sn, f) ==
  [start_sn |-> sn - f.frg, has_head |-> TRUE, expected_frags |-> 1, received_frags |-> 1]

\* The assembly a fragment joins: kcp_rcv_packet_create for a new psn, then
\* the fields on_kcp_push_pcaket sets.
Joined(sn, f) ==
  LET old == IF f.psn \in DOMAIN rcv_packet THEN rcv_packet[f.psn]
             ELSE [start_sn |-> sn - f.frg, has_head |-> FALSE,
                   expected_frags |-> 0, received_frags |-> 0]
      new == [old EXCEPT !.received_frags = @ + 1]
  IN  IF f.frg = 0
      THEN [new EXCEPT !.has_head = TRUE, !.expected_frags = f.wnd, !.start_sn = sn]
      ELSE new

FragmentsOf(buf, psn) == {sn \in DOMAIN buf : buf[sn].psn = psn}

\* kcp_rcv_packet_is_complete: the fragments, in frg order, are the serial
\* numbers from start_sn on.
kcp_rcv_packet_is_complete(buf, psn, a) ==
  /\ a.has_head /\ a.expected_frags # 0 /\ a.expected_frags = a.received_frags
  /\ FragmentsOf(buf, psn) = a.start_sn .. a.start_sn + a.received_frags - 1

FirstPacketUnordered(asm) ==
  CHOOSE psn \in DOMAIN asm : \A q \in DOMAIN asm : asm[psn].start_sn >= asm[q].start_sn

\* The head of rcv_packet_list, which is kept in start_sn order.
FirstPacket(asm) ==
  CHOOSE psn \in DOMAIN asm : \A q \in DOMAIN asm : asm[psn].start_sn <= asm[q].start_sn

\* A PUSH beyond the window is dropped and the peer told the window; one
\* already received, delivered or not, is dropped without an acknowledgement.
PushRefused(p) ==
  /\ p.cmd = "PUSH"
  /\ p.sn >= rcv_nxt + RCV_WND \/ p.sn < rcv_nxt \/ p.sn \in DOMAIN rcv_buf
  /\ ask_tell' = (ask_tell \/ p.sn >= rcv_nxt + RCV_WND)
  /\ UNCHANGED <<sndVars, rcv_nxt, rcv_buf, rcv_packet, nrcv_buf, rcv_queue, ack_item, histVars>>

\* on_kcp_push_pcaket for a new segment: acknowledge it, add it to its
\* assembly, advance rcv_nxt, and move the first assembly (only that one) to
\* rcv_queue when it is complete and everything up to its end has arrived.
PushAccepted(p) ==
  LET buf   == Put(rcv_buf, p.sn, p.seg)
      asm   == Put(rcv_packet, p.seg.psn, Joined(p.sn, p.seg))
      nxt   == IF p.sn = rcv_nxt THEN NextGap(buf, rcv_nxt) ELSE rcv_nxt
      first == FirstPacket(asm)
      start == asm[first].start_sn
      n     == asm[first].expected_frags
  IN  /\ p.cmd = "PUSH"
      /\ p.sn < rcv_nxt + RCV_WND /\ p.sn >= rcv_nxt /\ p.sn \notin DOMAIN rcv_buf
      /\ ack_item' = Append(ack_item, p.sn)
      /\ rcv_nxt' = nxt
      /\ IF kcp_rcv_packet_is_complete(buf, first, asm[first]) /\ start + n <= nxt
         THEN /\ rcv_queue' = rcv_queue \o [i \in 1..n |-> buf[start + i - 1]]
              /\ rcv_buf' = Restrict(buf, DOMAIN buf \ (start .. start + n - 1))
              /\ rcv_packet' = Restrict(asm, DOMAIN asm \ {first})
              /\ nrcv_buf' = nrcv_buf + 1 - n
         ELSE /\ rcv_buf' = buf /\ rcv_packet' = asm
              /\ nrcv_buf' = nrcv_buf + 1
              /\ UNCHANGED rcv_queue
      /\ UNCHANGED <<sndVars, ask_tell, histVars>>

WaskForgotten(p) ==
  /\ p.cmd = "WASK"
  /\ UNCHANGED <<sndVars, rcvVars, histVars>>

\* KCP_CMD_WASK in kcp_input_pcaket.
WaskReceived(p) ==
  /\ p.cmd = "WASK"
  /\ ask_tell' = TRUE
  /\ UNCHANGED <<sndVars, rcv_nxt, rcv_buf, rcv_packet, nrcv_buf, rcv_queue, ack_item, histVars>>

\* kcp_recv drains the receive queue, and has the window told when it was full.
kcp_recv ==
  /\ rcv_queue # <<>>
  /\ read' = read \o rcv_queue
  /\ rcv_queue' = <<>>
  /\ ask_tell' = (ask_tell \/ Len(rcv_queue) >= RCV_WND)
  /\ UNCHANGED <<sndVars, rcv_nxt, rcv_buf, rcv_packet, nrcv_buf, ack_item, netVars, sent>>

----------------------------------------------------------------------------
\* Network

\* kcp_input_pcaket at the endpoint packet p is addressed to.
kcp_input_pcaket(p) ==
  \/ on_kcp_ack_pcaket(p) \/ WinsReceived(p)
  \/ PushRefused(p) \/ PushAccepted(p) \/ WaskReceived(p)

Receive(p) ==
  /\ kcp_input_pcaket(p)
  /\ net' = net \ {p}
  /\ UNCHANGED <<losses, dups>>

\* The network delivers p and keeps a copy for later.
ReceiveCopy(p) ==
  /\ dups < MAX_DUP
  /\ kcp_input_pcaket(p)
  /\ dups' = dups + 1
  /\ UNCHANGED <<net, losses>>

Lose(p) ==
  /\ losses < MAX_LOSS
  /\ losses' = losses + 1
  /\ net' = net \ {p}
  /\ UNCHANGED <<dups, sndVars, rcvVars, histVars>>

FlushAny ==
  \E cwnd \in CWNDS : \E askDue \in BOOLEAN :
    LET serials == DOMAIN snd_buf \cup (snd_nxt .. snd_nxt + Moved(cwnd) - 1)
    IN  \E paced \in SUBSET serials : \E due \in SUBSET serials : Flush(cwnd, askDue, paced, due)

ReceiveAny == \E p \in net : Receive(p)

Next ==
  \/ \E n \in 1..MAX_FRAGS : kcp_send(n)
  \/ FlushAny
  \/ RcvFlush
  \/ kcp_recv
  \/ ReceiveAny
  \/ \E p \in net : ReceiveCopy(p)
  \/ \E p \in net : Lose(p)

Spec == Init /\ [][Next]_vars

\* The flush that finds every timer due and pacing credit for every new segment.
FlushAllDue ==
  \E cwnd \in CWNDS :
    LET buf == Filled(Moved(cwnd))
    IN  Flush(cwnd, TRUE, {sn \in DOMAIN buf : buf[sn].xmit = 0},
                          {sn \in DOMAIN buf : buf[sn].xmit > 0})

\* The event loop keeps serving the socket and the periodic write timer, and
\* the timers of the segments and of the window probe run out.  A timer that
\* ran out stays so until a flush acts on it, and packets arriving in between
\* do not set it back: strong fairness of the flush that acts on all of them.
Fairness ==
  /\ WF_vars(ReceiveAny)
  /\ WF_vars(RcvFlush)
  /\ SF_vars(FlushAllDue)

FairSpec == Spec /\ Fairness

----------------------------------------------------------------------------
\* Properties

SndTypeOK ==
  /\ state \in {"CONNECTED", "DISCONNECTED"} /\ probe_wait \in {0, 1}
  /\ psn_nxt \in Nat /\ snd_nxt \in Nat /\ snd_una \in Nat /\ rmt_wnd \in Nat
  /\ snd_queue \in Seq(Frag)
  /\ DOMAIN snd_buf \subseteq Nat /\ snd_buf \in [DOMAIN snd_buf -> Segment]

RcvTypeOK ==
  /\ rcv_nxt \in Nat /\ nrcv_buf \in Int /\ rcv_queue \in Seq(Frag)
  /\ DOMAIN rcv_buf \subseteq Nat /\ rcv_buf \in [DOMAIN rcv_buf -> Frag]
  /\ DOMAIN rcv_packet \subseteq Nat /\ rcv_packet \in [DOMAIN rcv_packet -> Assembly]
  /\ ack_item \in Seq(Nat)

NetTypeOK == net \subseteq Packet /\ losses \in Nat /\ dups \in Nat

\* The types of the variables, the wire format of what is in flight included.
TypeOK ==
  /\ SndTypeOK /\ RcvTypeOK /\ ask_tell \in BOOLEAN
  /\ NetTypeOK
  /\ sent \in Seq(Frag) /\ read \in Seq(Frag)

\* What on_kcp_push_pcaket moves to the receive queue is, fragment by
\* fragment, what kcp_send accepted: nothing reordered, doubled or left out,
\* whatever the network reorders, duplicates or loses.
InOrder ==
  /\ Len(delivered) <= Len(sent)
  /\ \A i \in 1..Len(delivered) : delivered[i] = sent[i]

\* on_kcp_ack_pcaket frees a segment only when the receiver holds it: a
\* stale, duplicated or overtaken ACK never makes the sender forget data.
AckedArrived ==
  \A sn \in 0 .. snd_nxt - 1 :
    sn \in DOMAIN snd_buf \/ sn < Len(delivered) \/ sn \in DOMAIN rcv_buf

\* The flush never has more serial numbers outstanding than the send window,
\* and snd_buf lies between snd_una and snd_nxt.
WindowKept ==
  /\ snd_una <= snd_nxt /\ snd_nxt <= snd_una + SND_WND
  /\ DOMAIN snd_buf \subseteq snd_una .. snd_nxt - 1

\* The three records on_kcp_push_pcaket keeps of the same fragments agree:
\* nrcv_buf with the tree rcv_buf, and every assembly with its fragments.
RecordsAgree ==
  /\ nrcv_buf = Cardinality(DOMAIN rcv_buf)
  /\ DOMAIN rcv_packet = {rcv_buf[sn].psn : sn \in DOMAIN rcv_buf}
  /\ \A psn \in DOMAIN rcv_packet :
       /\ rcv_packet[psn].received_frags = Cardinality(FragmentsOf(rcv_buf, psn))
       /\ \A sn \in FragmentsOf(rcv_buf, psn) : rcv_packet[psn].start_sn = sn - rcv_buf[sn].frg

\* Neither snd_una nor rcv_nxt ever moves back, in whatever order the ACKs
\* and the PUSHes come.
PointersAdvance == [][snd_una' >= snd_una /\ rcv_nxt' >= rcv_nxt]_<<snd_una, rcv_nxt>>

\* The data path implements the channel: each message is handed over whole,
\* once, in order.
ImplementsChannel == Channel!ChanSpec

\* Every segment given a serial number leaves snd_buf in the end, unless the
\* connection is given up (TOO_MANY_RETRANS): retransmission does not go on
\* for ever.
SenderDrains == []<>(state = "DISCONNECTED" \/ DOMAIN snd_buf = {})

\* A sender that knows of a zero window is told of a larger one in the end, or
\* gives the connection up: when an overtaken ACK leaves a zero behind and
\* nothing is outstanding that would bring another ACK, the probe of the flush
\* (WASK, WINS) does, whatever is lost on the way.
WindowReopens == rmt_wnd = 0 ~> (rmt_wnd > 0 \/ state = "DISCONNECTED")

\* Everything kcp_send accepts is handed to the receive queue in the end.
AllDelivered == []<>(Len(delivered) = Len(sent))
=============================================================================
