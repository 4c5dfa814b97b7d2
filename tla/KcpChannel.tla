----------------------------- MODULE KcpChannel -----------------------------
(***************************************************************************)
(* What the kcp data path promises the two applications, in one direction: *)
(* a message handed to kcp_send is cut into fragments, and the receiving   *)
(* application is given whole messages, each one once, in sending order.   *)
(* KcpData is shown to implement this specification.                       *)
(***************************************************************************)
EXTENDS Naturals, Sequences

CONSTANT MAX_FRAGS      \* KCP_PACKET_SIZE: the most fragments of a message

VARIABLES sent,         \* fragments accepted by kcp_send, in order
          delivered     \* fragments handed to the receive queue, in order

chanVars == <<sent, delivered>>

\* The fragments of message psn cut in n pieces.  The head (frg = 0) carries
\* the number of pieces in its wnd field, as on the wire.
Fragments(psn, n) ==
  [i \in 1..n |-> [psn |-> psn, frg |-> i - 1, wnd |-> IF i = 1 THEN n ELSE 0]]

ChanInit == sent = <<>> /\ delivered = <<>>

ChanSend ==
  /\ \E psn \in 0..Len(sent), n \in 1..MAX_FRAGS : sent' = sent \o Fragments(psn, n)
  /\ UNCHANGED delivered

ChanDeliver ==
  LET d == Len(delivered)
  IN  /\ d < Len(sent)
      /\ delivered' = delivered \o SubSeq(sent, d + 1, d + sent[d + 1].wnd)
      /\ UNCHANGED sent

ChanNext == ChanSend \/ ChanDeliver

ChanSpec == ChanInit /\ [][ChanNext]_chanVars
=============================================================================
