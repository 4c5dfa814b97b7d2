----------------------------- MODULE UtpStream -----------------------------
(***************************************************************************)
(* One direction of a libutp stream: the send half of StreamImpl at one    *)
(* end, its receive half at the other, and the frames ConnectionImpl       *)
(* carries between them.  Bytes are numbered as they are written, so that  *)
(* a byte out of place shows.                                              *)
(*                                                                         *)
(* The connection sends a packet again until it is acknowledged (UtpAck),  *)
(* so here a frame under way may come late and more than once but is not   *)
(* lost for good.  A frame found lost may be cut into smaller ones when    *)
(* the MTU has shrunk.  The stream is the tighter one of the two levels of *)
(* flow control, as with the default windows.                              *)
(***************************************************************************)
EXTENDS Integers, Sequences, FiniteSets

CONSTANTS
  CAP,          \* stream_send_buffer_limit
  MTU,          \* stream bytes that fit a packet
  LIMIT,        \* the peer's initial_max_stream_data_bidi_local: what the sender starts with
  WINDOW,       \* the receiver's own initial_max_stream_data_bidi_remote: what it counts from
  THRESHOLD,    \* the growth of the credit that is told at once
  RECV_LIMIT,   \* kMaxRecvFragmentBytes
  MAX_BYTES,    \* bound: bytes written
  FAULTS        \* bound: doubled and cut frames, frames not sent, resets

ASSUME StreamAssumption ==
  /\ CAP \in Nat \ {0} /\ MTU \in Nat \ {0}
  /\ LIMIT \in Nat \ {0} /\ WINDOW \in Nat \ {0} /\ THRESHOLD \in 0..WINDOW /\ RECV_LIMIT \in Nat \ {0}
  /\ MAX_BYTES \in Nat /\ FAULTS \in Nat

VARIABLES
  snd,      \* the send half
  rcv,      \* the receive half: m_streams' entry and its StreamImpl
  credit,   \* the receiver's flow control for the stream
  net,      \* STREAM frames under way
  ctl,      \* RESET_STREAM, MAX_STREAM_DATA and STREAM_DATA_BLOCKED under way
  acked,    \* STREAM frames taken whose acknowledgement is under way
  faults,   \* faults that may still happen
  aborted,  \* abortConnection was called
  app       \* history: what the two applications saw of the stream

vars == <<snd, rcv, credit, net, ctl, acked, faults, aborted, app>>

Smaller(a, b) == IF a < b THEN a ELSE b
Larger(a, b)  == IF a > b THEN a ELSE b
Bytes(n) == [i \in 1..n |-> i]
Frame(off, data, fin) == [off |-> off, data |-> data, fin |-> fin]
EndOf(p) == p.off + Len(p.data)

\* The frames of ctl; Reset goes to the reader, ResetBack to the writer.
Reset     == [type |-> "Reset"]
ResetBack == [type |-> "ResetBack"]
Blocked   == [type |-> "Blocked"]
MaxStreamData(n) == [type |-> "MaxStreamData", value |-> n]

\* A StreamImpl as constructed.
FreshStream ==
  [off |-> 0,              \* m_recvOffset
   frags |-> {},           \* m_recvFragmentsTree; what is below off is consumed
   buffered |-> 0,         \* m_recvBufferedBytes
   peerFin |-> FALSE, reset |-> FALSE,
   finQueued |-> FALSE, finSent |-> FALSE]   \* the other direction

Init ==
  /\ snd = [buffer |-> <<>>, queued |-> 0, inFlight |-> 0, next |-> 0, ackedOff |-> 0,
            ranges |-> {},      \* m_sendAckedRanges, as the set of their bytes
            finQueued |-> FALSE, finSent |-> FALSE,
            limit |-> LIMIT, told |-> FALSE,   \* peerStreamDataLimit, and whether the peer has set it
            asked |-> FALSE]    \* m_lastStreamDataBlockedSentUs is set
  /\ \E initiator \in BOOLEAN :
       rcv = [stream |-> FreshStream, exists |-> initiator, initiator |-> initiator,
              opened |-> IF initiator THEN 1 ELSE 0]
  /\ credit = [consumed |-> 0, advertised |-> WINDOW, told |-> FALSE, refused |-> FALSE]
  /\ net = {} /\ ctl = {} /\ acked = {} /\ faults = FAULTS /\ aborted = FALSE
  /\ app = [sent |-> <<>>, fin |-> FALSE, reset |-> FALSE, got |-> <<>>, eof |-> FALSE,
            cut |-> FALSE]

Fault(b) ==
  /\ b => faults > 0
  /\ faults' = IF b THEN faults - 1 ELSE faults

----------------------------------------------------------------------------
\* The send half

appWriteCredit ==
  LET used == snd.queued + snd.inFlight
  IN  Smaller(IF used >= CAP THEN 0 ELSE CAP - used, CAP - Len(snd.buffer))

\* write and commitWrite: all of it or nothing.
write(n, fin) ==
  /\ n > 0 \/ fin
  /\ ~snd.finQueued /\ n <= appWriteCredit /\ Len(app.sent) + n <= MAX_BYTES
  /\ LET sent == Bytes(Len(app.sent) + n)
     IN  /\ snd' = [snd EXCEPT !.buffer = @ \o SubSeq(sent, Len(app.sent) + 1, Len(sent)),
                               !.queued = @ + n, !.finQueued = fin]
         /\ app' = [app EXCEPT !.sent = sent, !.fin = fin]
  /\ UNCHANGED <<rcv, credit, net, ctl, acked, faults, aborted>>

\* What flushPendingSends tries first: the MTU, the budget of the scheduler and
\* the end of the ring buffer cut it.  What is refused is halved, down to a byte.
Tries == 1..Smaller(snd.queued, MTU)

MaySendFromOffset(off, len) == off < snd.limit

\* sendStreamFrame: the credit of the stream.
MaySend(off, len) == off + len <= snd.limit

\* The FIN alone.
SendFin ==
  /\ snd.queued = 0 /\ snd.finQueued /\ ~snd.finSent
  /\ net' = net \cup {Frame(snd.next, <<>>, TRUE)}
  /\ snd' = [snd EXCEPT !.finSent = TRUE]
  /\ UNCHANGED <<ctl, faults>>

\* A try of n bytes exceeds the credit, which is told to the peer the first
\* time; later, and odd, some time after the last one.  It is also odd that the
\* first one cannot be sent.
Asks(n, odd) == ~MaySend(snd.next, n) /\ odd = snd.asked
Asked(n, odd) ==
  /\ Fault(odd) /\ (odd => ~MaySend(snd.next, n))
  /\ ctl' = IF Asks(n, odd) THEN ctl \cup {Blocked} ELSE ctl

\* The bytes after those in flight, as many as are taken of the n tried first.
SendBytes(n, len, odd) ==
  LET start == Smaller(snd.next - snd.ackedOff, Len(snd.buffer))
      data  == SubSeq(snd.buffer, start + 1, start + len)
      fin   == snd.finQueued /\ ~snd.finSent /\ len = snd.queued
  IN  /\ MaySend(snd.next, len)
      /\ Asked(n, odd)
      /\ net' = net \cup {Frame(snd.next, data, fin)}
      /\ snd' = [snd EXCEPT !.next = @ + len, !.queued = @ - len, !.inFlight = @ + len,
                            !.finSent = @ \/ fin, !.asked = @ \/ Asks(n, odd)]

\* Nothing is taken.
SendNothing(n, odd) ==
  /\ Asks(n, odd) /\ Asked(n, odd)
  /\ snd' = [snd EXCEPT !.asked = TRUE]
  /\ UNCHANGED net

\* One round of flushPendingSends.
flushPendingSends ==
  /\ \/ SendFin
     \/ \E n \in Tries, odd \in BOOLEAN :
          SendNothing(n, odd) \/ \E len \in 1..n : SendBytes(n, len, odd)
  /\ UNCHANGED <<rcv, credit, acked, aborted, app>>

\* Where the acknowledged bytes all, from a on, have their first gap.
FirstGap(a, all) ==
  CHOOSE n \in a..(a + Cardinality(all)) : a..(n - 1) \subseteq all /\ n \notin all

AckedStillInFlight(s, off, len) ==
  LET all   == s.ranges \cup {i \in off..(off + len - 1) : i >= s.ackedOff}
      delta == Smaller(FirstGap(s.ackedOff, all) - s.ackedOff, Len(s.buffer))
  IN  [s EXCEPT !.ranges = {i \in all : i >= s.ackedOff + delta},
                !.buffer = SubSeq(@, delta + 1, Len(@)),
                !.ackedOff = @ + delta]

\* onPacketAcked: acknowledged ranges are joined, and the buffer gives up
\* what is acknowledged without a gap.
onPacketAcked(s, off, len) ==
  LET all   == s.ranges \cup {i \in off..(off + len - 1) : i >= s.ackedOff}
      delta == Smaller(FirstGap(s.ackedOff, all) - s.ackedOff, Len(s.buffer))
  IN  [s EXCEPT !.ranges = {i \in all : i >= s.ackedOff + delta},
                !.buffer = SubSeq(@, delta + 1, Len(@)),
                !.ackedOff = @ + delta,
                !.inFlight = IF @ >= delta THEN @ - delta ELSE 0]

AckArrives(f) ==
  /\ acked' = acked \ {f}
  /\ snd' = onPacketAcked(snd, f.off, Len(f.data))
  /\ UNCHANGED <<rcv, credit, net, ctl, faults, aborted, app>>

\* retransmitSplitStreamPacket: a frame found lost no longer fits; it is sent
\* in pieces.  The frame itself may come after all.
retransmitSplitStreamPacket(f, n, late) ==
  /\ Fault(TRUE)
  /\ n \in 1..(Len(f.data) - 1)
  /\ MaySend(f.off, n) /\ MaySend(f.off + n, Len(f.data) - n)
  /\ net' = (IF late THEN net ELSE net \ {f})
            \cup {Frame(f.off, SubSeq(f.data, 1, n), FALSE),
                  Frame(f.off + n, SubSeq(f.data, n + 1, Len(f.data)), f.fin)}
  /\ UNCHANGED <<snd, rcv, credit, ctl, acked, aborted, app>>

\* The send half after a reset; packets with its bytes stay under way.
Emptied(s) ==
  [s EXCEPT !.finQueued = TRUE, !.finSent = TRUE, !.queued = 0, !.inFlight = 0,
            !.ackedOff = s.next, !.ranges = {}, !.buffer = <<>>]

\* reset, called by the writer.
reset ==
  /\ ~app.reset /\ Fault(TRUE)
  /\ ctl' = ctl \cup {Reset}
  /\ snd' = Emptied(snd)
  /\ app' = [app EXCEPT !.reset = TRUE]
  /\ UNCHANGED <<rcv, credit, net, acked, aborted>>

\* onReset at the writer, for the reset of the reader.
OnResetBack(c) ==
  /\ c.type = "ResetBack"
  /\ ctl' = ctl \ {c}
  /\ snd' = Emptied(snd)
  /\ app' = [app EXCEPT !.reset = TRUE]
  /\ UNCHANGED <<rcv, credit, net, acked, faults, aborted>>

MaxStreamDataLatest(c) ==
  /\ c.type = "MaxStreamData"
  /\ ctl' = ctl \ {c}
  /\ snd' = [snd EXCEPT !.told = TRUE, !.limit = c.value]
  /\ UNCHANGED <<rcv, credit, net, acked, faults, aborted, app>>

\* The first value of a stream is stored as it is, later ones when they are larger.
handleMaxStreamDataFrame(c) ==
  /\ c.type = "MaxStreamData"
  /\ ctl' = ctl \ {c}
  /\ snd' = [snd EXCEPT !.told = TRUE, !.limit = IF snd.told THEN Larger(@, c.value) ELSE c.value]
  /\ UNCHANGED <<rcv, credit, net, acked, faults, aborted, app>>

----------------------------------------------------------------------------
\* The receive half

\* The places of the bytes that fragments hold.
Held(frags) == UNION {p.off..(EndOf(p) - 1) : p \in frags}
Covered(frags, i) == \E p \in frags : p.off <= i /\ i < EndOf(p)

\* Bytes that can be read without a gap, at most n.
contiguousReadableBytes(s, n) ==
  CHOOSE k \in 0..n :
    /\ \A i \in s.off..(s.off + k - 1) : Covered(s.frags, i)
    /\ k < n => ~Covered(s.frags, s.off + k)

\* A FIN without bytes that is next in line.
maybeAdvancePeerFin(s) ==
  LET over == {p \in s.frags : EndOf(p) <= s.off}
  IN  [s EXCEPT !.frags = @ \ over, !.peerFin = @ \/ \E p \in over : p.fin]

\* collectClosedStreams, for this stream.
Closed(s) == s.finQueued /\ s.finSent /\ s.peerFin
CollectedUnread(r) ==
  IF r.exists /\ Closed(r.stream) THEN [r EXCEPT !.exists = FALSE, !.stream = FreshStream] ELSE r
Collected(r) ==
  IF r.exists /\ Closed(r.stream) /\ contiguousReadableBytes(r.stream, 1) = 0
  THEN [r EXCEPT !.exists = FALSE, !.stream = FreshStream] ELSE r

\* The bytes of a frame that no fragment holds are inserted run by run, in
\* order, until one finds no room.
insertRecvFragments(s, g) ==
  LET miss   == {i \in g.off..(EndOf(g) - 1) : ~Covered(s.frags, i)}
      ends   == {i \in miss : i + 1 \notin miss}
      fit    == {i \in ends : s.buffered + Cardinality({j \in miss : j <= i}) <= RECV_LIMIT}
      From(i) == CHOOSE j \in miss : j <= i /\ j..i \subseteq miss /\ j - 1 \notin miss
      Piece(i) == Frame(From(i), SubSeq(g.data, From(i) - g.off + 1, i - g.off + 1), FALSE)
  IN  [frags |-> {Piece(i) : i \in fit},
       last  |-> {Piece(i) : i \in {j \in fit : \A k \in fit : k <= j}},
       ok    |-> fit = ends]

FinAtOnce(s, last, end) == [s EXCEPT !.peerFin = TRUE]

\* Where the FIN of a frame is noted: at the last piece inserted, at the
\* fragment that ends there, as the end of what was read, or alone.
WithFin(s, last, end) ==
  LET low  == {p \in s.frags : p.off <= end}
      tail == {p \in low : EndOf(p) = end /\ \A q \in low : q.off <= p.off}
      Mark(ps) == [s EXCEPT !.frags = (@ \ ps) \cup {[p EXCEPT !.fin = TRUE] : p \in ps}]
  IN  IF last # {} THEN Mark(last)
      ELSE IF tail # {} THEN Mark(tail)
      ELSE IF end = s.off THEN [s EXCEPT !.peerFin = TRUE]
      ELSE [s EXCEPT !.frags = @ \cup {Frame(end, <<>>, TRUE)}]

PlacedUncounted(s, frags) == [s EXCEPT !.frags = @ \cup frags]

\* Pieces, which do not overlap, put in place and their bytes counted.
Placed(s, frags) == [s EXCEPT !.frags = @ \cup frags, !.buffered = @ + Cardinality(Held(frags))]

\* onFrame: what was read is cut off, the rest is inserted where it is new.
onFrame(s, f) ==
  LET trim == IF f.off < s.off THEN s.off - f.off ELSE 0
      g    == Frame(f.off + trim, SubSeq(f.data, trim + 1, Len(f.data)), f.fin)
      new  == insertRecvFragments(s, g)
      t    == Placed(s, new.frags)
  IN  IF s.reset THEN [stream |-> s, status |-> "StreamClosed"]
      ELSE IF trim > 0 /\ trim >= Len(f.data)
      THEN [stream |-> [s EXCEPT !.peerFin = @ \/ (f.fin /\ EndOf(f) = s.off)], status |-> "OK"]
      ELSE IF ~new.ok THEN [stream |-> t, status |-> "WouldBlock"]
      ELSE [stream |-> maybeAdvancePeerFin(IF f.fin THEN WithFin(t, new.last, EndOf(g)) ELSE t),
            status |-> "OK"]

\* ingestStreamFrame: a stream that is not known is opened when the peer may
\* open it; any status but OK and WouldBlock ends the connection.  A frame
\* refused for want of room is not acknowledged and comes again.
ingestStreamFrame(f, again) ==
  LET opening == ~rcv.exists
      r       == IF opening THEN [rcv EXCEPT !.exists = TRUE, !.opened = @ + 1] ELSE rcv
  IN  /\ Fault(again)
      /\ \E result \in {onFrame(r.stream, f)} :
           IF (opening /\ rcv.initiator) \/ result.status = "StreamClosed"
           THEN aborted' = TRUE /\ UNCHANGED <<rcv, net, acked>>
           ELSE LET refused == result.status = "WouldBlock"
                IN  /\ rcv' = Collected([r EXCEPT !.stream = result.stream])
                    /\ net' = IF again \/ refused THEN net ELSE net \ {f}
                    /\ acked' = IF refused THEN acked ELSE acked \cup {f}
                    /\ UNCHANGED aborted
      /\ UNCHANGED <<snd, credit, ctl, app>>

\* onStreamBytesConsumed: the credit moves on with what was read; it is told
\* the first time, when it has grown enough or some time has passed, and only
\* if the packet can be sent.
onStreamBytesConsumed(n, timely, blocked) ==
  LET target == WINDOW + credit.consumed + n
      enough == ~credit.told \/ target - credit.advertised >= THRESHOLD
      due    == enough \/ timely
  IN  /\ Fault(blocked)
      /\ timely => ~enough
      /\ blocked => due
      /\ credit' = [credit EXCEPT !.consumed = @ + n,
                                  !.advertised = IF due /\ ~blocked THEN target ELSE @,
                                  !.told = @ \/ (due /\ ~blocked),
                                  !.refused = @ \/ blocked]
      /\ ctl' = IF due /\ ~blocked THEN ctl \cup {MaxStreamData(target)} ELSE ctl

\* A STREAM_DATA_BLOCKED is answered with the value told last.
OnBlocked(c, blocked) ==
  /\ c.type = "Blocked"
  /\ Fault(blocked)
  /\ ctl' = (ctl \ {c}) \cup (IF blocked THEN {} ELSE {MaxStreamData(credit.advertised)})
  /\ credit' = [credit EXCEPT !.told = @ \/ ~blocked]
  /\ UNCHANGED <<snd, rcv, net, acked, aborted, app>>

\* read, and commitReadViews: up to n bytes.
read(n, timely, blocked) ==
  LET s    == rcv.stream
      k    == contiguousReadableBytes(s, n)
      ByteAt(i) == LET p == CHOOSE p \in s.frags : p.off <= i /\ i < EndOf(p) IN p.data[i - p.off + 1]
      t    == maybeAdvancePeerFin([s EXCEPT !.off = @ + k, !.buffered = IF @ >= k THEN @ - k ELSE 0])
  IN  /\ rcv.exists /\ k > 0
      /\ onStreamBytesConsumed(k, timely, blocked)
      /\ rcv' = [rcv EXCEPT !.stream = t]
      /\ app' = IF rcv.opened = 1
                THEN [app EXCEPT !.got = @ \o [i \in 1..k |-> ByteAt(s.off + i - 1)]] ELSE app
      /\ UNCHANGED <<snd, net, acked, aborted>>

\* read with nothing to read returns 0 at the end of the stream, and after a reset.
ReadEnd ==
  /\ rcv.exists /\ contiguousReadableBytes(rcv.stream, 1) = 0
  /\ LET s == maybeAdvancePeerFin(rcv.stream)
     IN  /\ s.peerFin
         /\ rcv' = [rcv EXCEPT !.stream = s]
         /\ app' = IF rcv.opened = 1 THEN [app EXCEPT !.eof = TRUE] ELSE app
  /\ UNCHANGED <<snd, credit, net, ctl, acked, faults, aborted>>

\* close: the other direction ends too; its FIN is sent by a later flush,
\* which collects closed streams.
close ==
  /\ rcv.exists /\ ~rcv.stream.finQueued
  /\ rcv' = [rcv EXCEPT !.stream.finQueued = TRUE]
  /\ UNCHANGED <<snd, credit, net, ctl, acked, faults, aborted, app>>

FlushFin ==
  /\ rcv.exists /\ rcv.stream.finQueued /\ ~rcv.stream.finSent
  /\ rcv' = Collected([rcv EXCEPT !.stream.finSent = TRUE])
  /\ UNCHANGED <<snd, credit, net, ctl, acked, faults, aborted, app>>

collectClosedStreams ==
  /\ rcv.exists /\ rcv' = Collected(rcv)
  /\ UNCHANGED <<snd, credit, net, ctl, acked, faults, aborted, app>>

\* reset, called by the reader: what it holds is dropped.  m_resetByPeer is not
\* set, so frames still under way are taken as before.
resetBack ==
  /\ rcv.exists /\ ~Closed(rcv.stream) /\ Fault(TRUE)
  /\ ctl' = ctl \cup {ResetBack}
  /\ rcv' = [rcv EXCEPT !.stream = [@ EXCEPT !.frags = {}, !.buffered = 0, !.peerFin = TRUE,
                                             !.finQueued = TRUE, !.finSent = TRUE]]
  /\ app' = [app EXCEPT !.cut = TRUE]
  /\ UNCHANGED <<snd, credit, net, acked, aborted>>

\* handleResetStreamFrame and onReset, for the reset of the writer.
handleResetStreamFrame(c) ==
  /\ c.type = "Reset"
  /\ ctl' = ctl \ {c}
  /\ rcv' = IF ~rcv.exists /\ rcv.initiator THEN rcv
            ELSE [rcv EXCEPT !.exists = TRUE, !.opened = IF rcv.exists THEN @ ELSE @ + 1,
                             !.stream = [@ EXCEPT !.reset = TRUE, !.frags = {}, !.buffered = 0, !.peerFin = TRUE,
                                                  !.finQueued = TRUE, !.finSent = TRUE]]
  /\ UNCHANGED <<snd, credit, net, acked, faults, aborted, app>>

----------------------------------------------------------------------------
Write == \E n \in 0..CAP, fin \in BOOLEAN : write(n, fin)
Split == \E f \in net : \E n \in 1..(Len(f.data) - 1), late \in BOOLEAN : retransmitSplitStreamPacket(f, n, late)
Deliver == \E f \in net, again \in BOOLEAN : ingestStreamFrame(f, again)
Control ==
  \E c \in ctl :
    \/ handleMaxStreamDataFrame(c) \/ handleResetStreamFrame(c) \/ OnResetBack(c)
    \/ \E blocked \in BOOLEAN : OnBlocked(c, blocked)
Ack == \E f \in acked : AckArrives(f)
Read == \E n \in 1..MAX_BYTES, timely, blocked \in BOOLEAN : read(n, timely, blocked)

Next ==
  /\ ~aborted
  /\ \/ Write \/ flushPendingSends \/ Split \/ reset
     \/ Deliver \/ Control \/ Ack \/ Read \/ ReadEnd
     \/ close \/ FlushFin \/ collectClosedStreams \/ resetBack

Spec == Init /\ [][Next]_vars

\* Fairness: the writer goes on to the end of its data, a flush follows while
\* there is something to send, what is under way arrives, and the reader
\* reads; that one of these can happen is enough for one of them to happen.
Progress ==
  /\ ~aborted
  /\ \/ Write \/ flushPendingSends \/ Control \/ Ack
     \/ \E f \in net : ingestStreamFrame(f, FALSE)
     \/ \E n \in 1..MAX_BYTES : read(n, FALSE, FALSE)

FairSpec == Spec /\ WF_vars(Progress)

----------------------------------------------------------------------------
\* Properties

Frames == [off : 0..MAX_BYTES, data : Seq(1..MAX_BYTES), fin : BOOLEAN]

\* The fields of both halves and of what is under way.
TypeOK ==
  /\ snd.buffer \in Seq(1..MAX_BYTES) /\ Len(snd.buffer) <= CAP
  /\ snd.queued \in 0..CAP /\ snd.inFlight \in 0..CAP
  /\ snd.next \in 0..MAX_BYTES /\ snd.ackedOff \in 0..snd.next
  /\ snd.ranges \subseteq snd.ackedOff..snd.next
  /\ snd.finQueued \in BOOLEAN /\ snd.finSent \in BOOLEAN
  /\ rcv.stream.off \in 0..MAX_BYTES /\ rcv.stream.buffered \in 0..RECV_LIMIT
  /\ rcv.stream.frags \subseteq Frames /\ net \subseteq Frames /\ acked \subseteq Frames
  /\ faults \in 0..FAULTS /\ aborted \in BOOLEAN

\* Besides the types, the three counts of the send half agree: the buffer holds exactly the
\* bytes not acknowledged without a gap, first those in flight and then
\* those queued, so flushPendingSends takes each byte from its place.
BufferAgrees ==
  /\ TypeOK
  /\ ~app.reset =>
       /\ snd.inFlight = snd.next - snd.ackedOff
       /\ Len(snd.buffer) = snd.queued + snd.inFlight
       /\ snd.buffer = SubSeq(app.sent, snd.ackedOff + 1, Len(app.sent))

\* The fragments kept do not overlap, none is read to its end already, and
\* m_recvBufferedBytes is what is left of them.
FragmentsAgree ==
  LET s == rcv.stream
  IN  /\ \A p, q \in s.frags : p # q => EndOf(p) <= q.off \/ EndOf(q) <= p.off
      /\ \A p \in s.frags : EndOf(p) > s.off
      /\ s.buffered = Cardinality({i \in Held(s.frags) : i >= s.off})

\* The send buffer gives a byte up only when the peer's stream holds it or
\* the peer's application has read it, unless one of them reset the stream.
AckedTaken ==
  ~app.reset /\ ~app.cut =>
    \A i \in 0..(snd.ackedOff - 1) :
      i < Len(app.got) \/ (rcv.opened = 1 /\ Covered(rcv.stream.frags, i))

\* A sender that keeps to its credit is never refused for want of room: what it
\* may send and the bytes kept agree, whatever is late or doubled, and however
\* the two windows, which are configured apart, relate.
NeverRefused ==
  rcv.opened = 1 => \A f \in net : onFrame(rcv.stream, f).status # "WouldBlock"

\* The application at the other end reads the bytes written, in order and
\* once, and is told the end after the last one or after a reset.
ByteStream == INSTANCE UtpByteStream WITH
  sent <- app.sent, fin <- app.fin, got <- app.got, eof <- app.eof,
  reset <- app.reset \/ app.cut

ImplementsByteStream == ByteStream!ByteSpec

\* Everything written is read in the end, unless the stream was reset, the
\* connection aborted, or a credit could not be sent (which nothing repeats).
AllRead ==
  <>[]( \/ app.fin /\ app.got = app.sent
        \/ app.reset \/ aborted \/ credit.refused )

----------------------------------------------------------------------------
\* The inductive invariant of the proofs

Senders ==
  [buffer : Seq(1..MAX_BYTES), queued : 0..CAP, inFlight : 0..CAP, next : 0..MAX_BYTES,
   ackedOff : 0..MAX_BYTES, ranges : SUBSET Nat, finQueued : BOOLEAN, finSent : BOOLEAN,
   limit : Nat, told : BOOLEAN, asked : BOOLEAN]
Streams ==
  [off : 0..MAX_BYTES, frags : SUBSET Frames, buffered : 0..RECV_LIMIT, peerFin : BOOLEAN,
   reset : BOOLEAN, finQueued : BOOLEAN, finSent : BOOLEAN]
Receivers == [stream : Streams, exists : BOOLEAN, initiator : BOOLEAN, opened : Nat]
Credits == [consumed : Nat, advertised : Nat, told : BOOLEAN, refused : BOOLEAN]
Controls == [type : {"Reset", "ResetBack", "Blocked"}] \cup [type : {"MaxStreamData"}, value : Nat]
Histories ==
  [sent : Seq(1..MAX_BYTES), fin : BOOLEAN, reset : BOOLEAN, got : Seq(1..MAX_BYTES), eof : BOOLEAN,
   cut : BOOLEAN]

Typed ==
  /\ snd \in Senders /\ rcv \in Receivers /\ credit \in Credits /\ app \in Histories
  /\ net \subseteq Frames /\ acked \subseteq Frames /\ ctl \subseteq Controls
  /\ faults \in 0..FAULTS /\ aborted \in BOOLEAN

\* The send half s of a stream to which h.sent was written.
SenderOK(s, h) ==
  /\ s.ackedOff <= s.next /\ s.next <= Len(h.sent) /\ Len(s.buffer) <= CAP
  /\ h.sent = Bytes(Len(h.sent)) /\ Len(h.sent) <= MAX_BYTES
  /\ s.ranges \subseteq s.ackedOff..(s.next - 1)
  /\ h.fin => s.finQueued
  /\ h.reset =>
       /\ s.finQueued /\ s.finSent /\ s.queued = 0 /\ s.inFlight = 0
       /\ s.ackedOff = s.next /\ s.buffer = <<>>
  /\ ~h.reset =>
       /\ s.finQueued = h.fin
       /\ s.inFlight = s.next - s.ackedOff
       /\ Len(s.buffer) = s.queued + s.inFlight
       /\ Len(h.sent) = s.ackedOff + Len(s.buffer)
       /\ \A i \in 1..Len(s.buffer) : s.buffer[i] = s.ackedOff + i

\* A frame or fragment carries the bytes of its offset.
Carries(p) == \A i \in 1..Len(p.data) : p.data[i] = p.off + i

\* A frame sent: its bytes were written, and its FIN tells where they end.
FrameOK(p, next, h) ==
  /\ Carries(p) /\ EndOf(p) <= next /\ Len(p.data) <= MTU
  /\ p.fin => h.fin /\ EndOf(p) = Len(h.sent)

\* Fragments that end above off, of which only a FIN has no bytes; after one
\* marked with the FIN none is missing.
FragsOK(frags, off, next, h) ==
  /\ \A p \in frags : Carries(p) /\ off < EndOf(p) /\ EndOf(p) <= next
  /\ \A p \in frags : p.off < EndOf(p) \/ p.fin
  /\ \A p, q \in frags : p # q => EndOf(p) <= q.off \/ EndOf(q) <= p.off
  /\ \A p \in frags : p.fin => h.fin /\ \A i \in EndOf(p)..(Len(h.sent) - 1) : Covered(frags, i)

\* The receive half of a stream.
StreamOK(s, next, h) ==
  /\ s.off <= next
  /\ FragsOK(s.frags, s.off, next, h)
  /\ s.buffered = Cardinality({i \in Held(s.frags) : i >= s.off})
  /\ s.peerFin /\ ~s.reset /\ ~h.cut => h.fin /\ \A i \in s.off..(Len(h.sent) - 1) : Covered(s.frags, i)
  /\ s.reset => h.reset

\* The receiver r, of which h.got was read, and the credit c given for it.
ReceiverOK(r, c, h) ==
  /\ ~r.exists => r.stream = FreshStream
  /\ h.got = Bytes(Len(h.got)) /\ Len(h.got) <= Len(h.sent)
  /\ r.opened = 0 => ~r.exists /\ h.got = <<>> /\ c.consumed = 0
  /\ r.opened = 1 /\ r.exists => Len(h.got) = r.stream.off /\ c.consumed = r.stream.off
  /\ r.opened # 0 /\ ~(r.opened = 1 /\ r.exists) /\ ~h.reset /\ ~h.cut =>
       h.fin /\ Len(h.got) = Len(h.sent)
  /\ h.eof => (h.fin /\ Len(h.got) = Len(h.sent)) \/ h.reset \/ h.cut

\* What the sender goes by was given to it, at the start or by the receiver,
\* which gives no more than a window.
CreditOK(s, c, cs) ==
  /\ s.next <= Larger(LIMIT, c.advertised) /\ s.limit <= Larger(LIMIT, c.advertised)
  /\ c.advertised <= WINDOW + c.consumed
  /\ \A m \in cs : m.type = "MaxStreamData" => m.value <= c.advertised

\* A byte that the receiver holds or its application has read.
Taken(r, h, i) == i < Len(h.got) \/ (r.opened = 1 /\ Covered(r.stream.frags, i))

\* What is acknowledged, or about to be, was taken.
AcksOK(s, r, as, h) ==
  ~h.reset /\ ~h.cut =>
    /\ \A i \in 0..(s.ackedOff - 1) : Taken(r, h, i)
    /\ \A i \in s.ranges : Taken(r, h, i)
    /\ \A f \in as : \A i \in f.off..(EndOf(f) - 1) : Taken(r, h, i)

Inv ==
  /\ Typed
  /\ SenderOK(snd, app)
  /\ \A f \in net \cup acked : FrameOK(f, snd.next, app)
  /\ StreamOK(rcv.stream, snd.next, app)
  /\ ReceiverOK(rcv, credit, app)
  /\ CreditOK(snd, credit, ctl)
  /\ \A m \in ctl : /\ m.type = "Reset" => app.reset
                    /\ m.type = "ResetBack" => app.cut
  /\ AcksOK(snd, rcv, acked, app)
=============================================================================
