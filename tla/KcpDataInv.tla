----------------------------- MODULE KcpDataInv -----------------------------
(***************************************************************************)
(* The inductive invariant of KcpData, in named parts.  KcpData_proofs     *)
(* shows that it is inductive and that it implies the properties.          *)
(*                                                                         *)
(* sent is the log of all fragments in sending order: the segment with     *)
(* serial number sn is sent[sn + 1] wherever it is found.                  *)
(***************************************************************************)
EXTENDS KcpData

\* Len(delivered): the serial numbers below it were handed to the application.
Handed == Len(delivered)

\* The receiver holds sn, or has handed it over.
Arrived(sn) == sn < Handed \/ sn \in DOMAIN rcv_buf

\* Fragment i of the log belongs to the message that begins frg places before
\* it, one of the k messages sent so far.
HasHead(log, k, i) ==
  /\ log[i].psn < k /\ log[i].frg < i
  /\ log[i - log[i].frg].frg = 0
  /\ log[i - log[i].frg].psn = log[i].psn
  /\ log[i].frg < log[i - log[i].frg].wnd

\* The fragments of the message whose head is at i follow it.
Followed(log, i) ==
  /\ i + log[i].wnd - 1 <= Len(log)
  /\ \A j \in 0 .. log[i].wnd - 1 : log[i + j].psn = log[i].psn /\ log[i + j].frg = j

\* The log consists of whole messages, each with a psn of its own below k.
Whole(log, k) ==
  /\ k <= Len(log)
  /\ \A i \in 1..Len(log) : HasHead(log, k, i)
  /\ \A i \in 1..Len(log) : log[i].frg = 0 => Followed(log, i)
  /\ \A i, j \in 1..Len(log) : log[i].psn = log[j].psn => i - log[i].frg = j - log[j].frg

LogWhole == Whole(sent, psn_nxt)

\* snd_queue is the end of the log that has no serial number yet.
QueueIsTail ==
  /\ Len(sent) = snd_nxt + Len(snd_queue)
  /\ \A i \in 1..Len(snd_queue) : snd_queue[i] = sent[snd_nxt + i]

\* Whatever carries a serial number carries that fragment of the log.
Carried ==
  /\ \A sn \in DOMAIN snd_buf : snd_buf[sn].seg = sent[sn + 1]
  /\ \A p \in net : p.cmd = "PUSH" => p.sn < snd_nxt /\ p.seg = sent[p.sn + 1]
  /\ \A sn \in DOMAIN rcv_buf : sn < snd_nxt /\ rcv_buf[sn] = sent[sn + 1]

\* With d fragments handed over, buf has no gap below nxt, a gap at it, and
\* nothing beyond the window; and d ends where a message ends.
Contiguous(buf, nxt, d) ==
  /\ d <= nxt /\ nxt <= snd_nxt
  /\ \A sn \in d .. nxt - 1 : sn \in DOMAIN buf
  /\ nxt \notin DOMAIN buf
  /\ \A sn \in DOMAIN buf : d <= sn /\ sn < nxt + RCV_WND
  /\ d < Len(sent) => sent[d + 1].frg = 0

ReceiverOrder == Contiguous(rcv_buf, rcv_nxt, Handed)

\* Every assembly of asm stands for a message of which buf holds fragments.
Fitting(buf, asm) ==
  /\ DOMAIN asm = {buf[sn].psn : sn \in DOMAIN buf}
  /\ \A sn \in DOMAIN buf : asm[buf[sn].psn].start_sn = sn - buf[sn].frg
  /\ \A psn \in DOMAIN asm : asm[psn].has_head =>
       asm[psn].expected_frags = sent[asm[psn].start_sn + 1].wnd

Assemblies == Fitting(rcv_buf, rcv_packet)

\* nrcv_buf counts rcv_buf, and every assembly the fragments it has.
CountOf(buf, asm) ==
  \A psn \in DOMAIN asm : asm[psn].received_frags = Cardinality(FragmentsOf(buf, psn))

Counted == nrcv_buf = Cardinality(DOMAIN rcv_buf) /\ CountOf(rcv_buf, rcv_packet)

\* An acknowledgement, queued or in flight, is only ever of what has arrived.
AcksTrue ==
  /\ \A i \in 1..Len(ack_item) : Arrived(ack_item[i])
  /\ \A p \in net : p.cmd = "ACK" => Arrived(p.sn) /\ p.una <= rcv_nxt

\* The inductive invariant: the log, the sender, the network and the receiver
\* agree on every fragment, and acknowledgements are only of what arrived.
Inv ==
  /\ TypeOK
  /\ InOrder
  /\ LogWhole
  /\ QueueIsTail
  /\ WindowKept
  /\ Carried
  /\ ReceiverOrder
  /\ Assemblies
  /\ AcksTrue
  /\ AckedArrived
=============================================================================
