# Verification of kcp and libutp, the UDP transports of eular

TLA+ models of `src/kcp` and of the core of `src/libutp`, the configurations that
check them with TLC, and proofs checked by TLAPS. Paths below are relative to
`src/`; `kcp_protocol.c`, `kcpp.c` and `kcp_mtu.c` are in `kcp/src/`;
`connection_impl.cpp`, `send_ctl.cpp` and `stream_impl.cpp` in `libutp/src/context/`,
`mtu.cpp` in `libutp/src/mtu/`, `network_path.cpp` and `receive_history.cpp` in
`libutp/src/util/`, `ack.cpp` in `libutp/src/proto/frame/`.

## 1. The system

The repository is a collection of C and C++ libraries. Most are wrappers or
containers (log, config, crypto, sqlutils, utils, fmt, reflection, variant) or
vendored code. Its protocol code is in `kcp`, `libutp`, `ntrs` and `stun`. This
project is about two of them:

* `kcp`: a reliable, message-preserving transport over UDP with a handshake over
  several candidate addresses;
* `libutp`: its successor, encrypted and QUIC-like: numbered packets that are never
  sent twice under one number, ACK frames of ranges, streams with flow control, MTU
  discovery, and validation of the peer's address when it changes.

Both run on one event loop (libevent), so every handler below runs to its end
undisturbed; the concurrency is between the two ends, their timers and the network.

### Components of kcp

| Component | State | Operations | Interacts with |
|---|---|---|---|
| data path, sender | `snd_queue`, `snd_buf`, `snd_una`, `snd_nxt`, `rmt_wnd`, `cwnd`, per segment `xmit`, `fastack`, `resendts` | `kcp_send`, `on_kcp_write_timeout` (the flush), `on_kcp_ack_pcaket` | congestion control sets `cwnd` and the pacing credit; the flush gives the connection up |
| data path, receiver | `rcv_nxt`, `rcv_buf` (tree), `rcv_packet_list` (assemblies), `nrcv_buf`, `rcv_queue`, `ack_item` | `on_kcp_push_pcaket`, `kcp_recv`, the flush (ACK, WINS) | advertises the window the sender obeys |
| connection management | `state`, `dcid`, `remote_host`, candidates, `syn_retries`, `fin_retries`, two timers, `kcp_proto_header_list` | `kcp_connect(_candidates)`, `kcp_accept`, `kcp_close`, `kcp_shutdown`, four timeouts, `kcp_parse_packet`, `on_kcp_read_event`, `on_kcp_syn_received`, `on_kcp_fin_pcaket` | the application's callbacks; the data path runs in CONNECTED |
| connection set | red-black tree of connections by peer id | insert, search, erase | `kcp_parse_packet`, the write timer |
| keepalive | ping sessions, `keepalive_next_ts`, `keepalive_xretries` | `on_kcp_ping_timeout`, PING and PONG | the flush; may give the connection up |
| MTU probing | `mtu_lbound`, `mtu_ubound`, `mtu_current`, timer | `kcp_mtu_probe`, probe and answer, ICMP errors | `mtu`, `mss` of the sender |
| congestion control | BBR phase, rate and RTT filters | `bbr_*` | `cwnd`, pacing |
| datagram packing | iovec and mmsghdr arrays of one flush | the packing loop of the flush | sockets |
| segment pool | unused lists and their counters | `kcp_segment_*_get/put` | data path |

### Components of libutp

| Component | State | Operations | Interacts with |
|---|---|---|---|
| MTU discovery | `MtuDiscovery`: MTU in use, bounds of the search, phase, probe in flight, black-hole counters, cooldown | `init`, `onPathValidated`, `shouldProbe`, `nextProbeMtu`, `onProbeSent`, `onProbeAck`, `onProbeLost`, `onDataPacketAck`, `onDataPacketLoss` | the send control sends probes and reports results; the path resets it |
| acknowledgements and loss recovery | sender: `m_packetNumber`, `m_unackedPackets`, `m_lostPackets`, loss timer, `m_tlpCount`; receiver: `ReceiveHistory`, `m_ackElicitingPending`, ACK timer | `onAckReceived`, `detectLosses`, the retransmission timer, `onUdpPacket`, `sendAckPacket`, `onAckTimeout` | tells streams and the MTU discovery what was acknowledged or lost |
| streams | send buffer with queued, in-flight and acknowledged parts; receive fragments, offset, FIN and reset flags; credit in both directions | `write`, `flushPendingSends`, `onPacketAcked`, `onFrame`, `read`, `reset`, `close`, `collectClosedStreams`, `handleMaxStreamDataFrame`, `handleResetStreamFrame`, the answer to STREAM_DATA_BLOCKED | rides on the acknowledgements; the application reads and writes |
| path validation | `m_peerAddress`, `NetworkPath` (address, state, challenge, retries), timer | `detectPeerAddressChange`, `maybeSendPathChallenge`, `handlePathResponseFrame`, `onPathValidationTimeout` | decides which packets' frames are processed and where packets go |
| handshake and 0-RTT | initial and handshake keys, tickets | `connect`, `accept`, resumption | makes the connection the models start from |
| close and keepalive | close state, timers | CONNECTION_CLOSE, keepalive probe | ends the connection |
| congestion control and pacing | windows, rates | `onPacketSent`, `onAck`, `onLost` | delays the sender |
| scheduling and packet building | priorities, coalescing delays, buffers | `onCanWrite`, the packet builder | chooses the frames of a packet |
| context, sockets, crypto | connection ids, sockets, keys | dispatch, send, receive | carries packets |

`PROJECT.json` lists these and the other libraries of the repository, with the
reason for each that is not modelled.

### What is hard here

Packets are lost, duplicated and reordered, and every handler must be right for
old ones.

In kcp a message passes through three receive-side records (the tree, the list of
assemblies, a counter) before it may be handed over. Acknowledgements carry both
a serial number and a cumulative `una`, and both can be stale. The window closes
and only a probe reopens it. Retransmission is limited, so that a lost or late
packet can end a connection. In the handshake SYNs are repeated and go to several
addresses, so that replies to several of them race; FIN, RST and timers of both
ends cross; and objects are released from inside callbacks.

In libutp one fact has several holders that learn of it at different times. A packet
may be declared lost while its acknowledgement is on the way, be sent again under
another number and be acknowledged under both. The receiver forgets old ranges, so
some packets are never acknowledged under their number. The result of an MTU probe
may come after the probe timed out, after a black hole was found or after the path
changed. Frames of a stream overlap at any offset after a retransmission was cut
anew, and a stream may be collected while such a frame is under way. The peer's old
addresses keep delivering packets while a new one is validated, and a late answer to
an earlier challenge must prove nothing.

`PROJECT.json` ("hazards") gives each at its line with the properties that cover it.

### What correctness means

* kcp data path: whole messages, each once, in sending order; nothing freed by the
  sender that the receiver does not hold; the window; pointers never move back;
  everything sent arrives or the connection ends.
* kcp connection: one outcome per attempt and one end per connection; no half-open
  connection is handed out; both ends use the same path; a graceful close is
  mutual; every wait ends.
* MTU discovery: the MTU in use was confirmed on the present path; bounds in order;
  the search never gets stuck, ends, and is silent in the cooldown.
* Acknowledgements: a frame tells only what arrived; what is acknowledged was
  processed; a payload is tracked in one place; everything is acknowledged in the end.
* Streams: the bytes read are a prefix of the bytes written and the end comes last;
  nothing acknowledged is lost with a collected stream; everything is read in the end.
* Path validation: an address is used only when it was proved reachable by a challenge
  of its own; validation ends; the connection follows the peer.

## 2. Plan

The modelling is finished, in this order: `KcpChannel`, `KcpData` and its proofs,
`KcpConn`, `UtpMtu` and its proofs, `UtpHistory` with `UtpAckSet` and `UtpAck`,
`UtpByteStream` and `UtpStream`, `UtpPath`.

Proved, each in its own module: the data path and the connection management of kcp,
MTU discovery, acknowledgements, streams and path validation of libutp (section 5). Every
invariant, action property and refinement of the passing runs is stated by a theorem.

## 3. The modules

### `KcpChannel`: what the kcp data path promises

`sent` grows by the fragments of one message (`ChanSend`); `delivered` grows by the
next whole message of `sent` (`ChanDeliver`). Nothing else happens. `KcpData` holds
`Channel == INSTANCE KcpChannel WITH ...` and is shown to implement it.

### `KcpData`: the data path in one direction

Variables keep the names of the fields of `kcp_connection_t`. `snd_buf` and
`rcv_buf` are functions from serial numbers to segments, `rcv_packet` a function
from packet numbers (`psn`) to assemblies. `sent` and `read` are history: what
`kcp_send` accepted and what `kcp_recv` returned; `delivered` is `read` followed
by `rcv_queue`.

| Action | Code |
|---|---|
| `kcp_send(n)` | `kcp_send`: cut in `n` fragments, append to `snd_queue` |
| `Flush` | `on_kcp_write_timeout` at the sender: window probe, move to `snd_buf`, first transmissions, timeouts, fast retransmissions, give-up |
| `on_kcp_ack_pcaket`, `WinsReceived` | ACK and WINS in `kcp_input_pcaket` |
| `RcvFlush` | `on_kcp_write_timeout` at the receiver: one ACK per item, WINS |
| `PushRefused`, `PushAccepted` | the early returns, and the rest, of `on_kcp_push_pcaket` |
| `WaskReceived`, `kcp_recv` | WASK in `kcp_input_pcaket`; `kcp_recv` |
| `Receive`, `ReceiveCopy`, `Lose` | the network |

Abstractions: a payload is its place (`psn`, `frg`); time is a free choice of
which timers are due; `cwnd` is any member of `CWNDS` at each flush, and the
pacing credit covers any set of new segments; serial numbers do not wrap; a batch
of datagrams is one send. `TIMELY` restricts the free choice: a retransmission
timer runs out only when no packet or acknowledgement is under way. It is FALSE
where safety is checked, and TRUE where a property is about what happens without
spurious timeouts.

`KcpDataInv` adds the inductive invariant, `KcpData_proofs` the theorems,
`MCKcpData` is the root of the runs.

### `KcpConn`: handshake, teardown, release

One client object and the server's objects (`conn`), the server's connection set
(`tree`), the callbacks made for each object in order (`log`), the packets in flight.
The actions are the calls of the application, the four timers, what the flush
may do to a connected end, and `kcp_parse_packet` for a received packet. Its
branches are one definition each: `PacketDropped`, `NoConnection`, `kcp_accept`,
`AcceptConflict`, `ConnectRefused`, `SynReply`, and those of `on_kcp_read_event`
(`OtherHost`, `Reset`, `GivenUpReleased`, `Accepted`, `AcceptAborted`,
`FinReceived`, `FinAnswered`, `FinAgain`, `FinAcked`, `NothingToDo`).

Abstractions and assumptions:

* one client, one attempt; the server may make several objects for it;
* a path is a pair of addresses, so both ends compare `remote_host` by path;
* a connection id is the object itself: ids are random and not drawn again while
  old packets carry them; `rand_sn`, a hash of the time, is a fresh name and never the
  0 (`NONE`) of a packet that answers none;
* sends succeed; `assert` is off, as in the default build (`RelWithDebInfo`);
* both callbacks the examples set are set; `on_connect` returns FALSE when
  `kcp_accept` fails, as in `kcp/examples/kcp_server.c`;
* with the objects of one client the set holds at most one node. `rb_erase` of a
  node without parent and children makes the tree empty whether or not the node
  was linked, so the failing branch of `kcp_accept`, which destroys an object it
  did not insert, empties the set (`AcceptConflict`);
* a read of released memory (`AcceptAborted`) finds either value: the object is
  destroyed once or twice;
* `MAX_FINS` ends the exchange of FINs of two ends that are both in FIN_RECEIVED,
  which the code carries on until a timer runs out.

### `UtpMtu`: MTU discovery

`m` is the `MtuDiscovery` object; each of its methods is an operator on such a record,
and the actions are the callers: `onCanWrite` (the probe timeout, then a probe when one
is due), `ProbeAcked`, `ProbeLost` and `ProbeSentAgain` (`onAckReceived`, `detectLosses`,
the retransmission), `DataAcked` and its loss, `PathValidated`, and `Tick`, one unit of
time. `unacked` holds the probes the send control still tracks, those the discovery has
given up included. `confirmed` is history. Times are kept as what is left of them. Sizes
are the real ones (ladder 1380, 1450, 1492, 1500). `low + step` is narrowed to 16 bits as
in the code, and `MtuAssumption` keeps the step below where that would wrap. The path may carry any size
and stop carrying it, so every probe and data packet may be acknowledged or lost.

### `UtpHistory`, `UtpAckSet`, `UtpAck`: acknowledgements and loss recovery

`UtpHistory` has the pure part: `insert` into the list of intervals, as
`ReceiveHistory` walks it, `dropOldestRange`, and the ACK frame (`encode`, `decode`) with
its gaps and lengths. `UtpAckSet` says what the list stands for: a set of numbers from
which only the lowest run is ever forgotten, and only when there are too many runs.
`UtpAck` composes the history with the two ends and is shown to implement `UtpAckSet`.

| Action | Code |
|---|---|
| `SendData`, `SendAckOnly` | a packet with a payload; a packet with an ACK frame only |
| `Receive` (`onUdpPacket`) | decode, skip frames of an address under validation, drop when the stream has no room, record the number, decide about the ACK (`suppressAck`, `ackDecision`) |
| `SendAckNow`, `AckTimeout` | `sendAckPacket` with data, by the timer; the socket may refuse |
| `ReceiveAck` | `onAckReceived` with `detectLosses` (reordering threshold, early retransmission) |
| `RetransTimer` | the loss timer: early retransmission, tail loss probe, all taken for lost |
| `Retransmit` | the lost queue sent again under new numbers; the socket may take a part |
| `Rebind`, `PathValidated`, `PathFailed` | the sender's address changes (`MigrateSpec` only) |

A payload stands for the STREAM frames of a packet. Time is abstract, congestion control
and pacing only delay.

### `UtpByteStream`, `UtpStream`: one direction of a stream

`UtpByteStream` is what the applications may expect: what is read is a prefix of what is
written, and the end is told when all was read or one of the two has reset the stream.
`UtpStream` has the send half (`snd`: buffer, queued, in-flight and acknowledged parts, the
peer's limit), the receive half (`rcv`: fragments, offset, FIN and reset), the receiver's
`credit`, and the frames under way; bytes are numbered, so that a byte out of place shows.
`write`, `flushPendingSends`, `AckArrives` (`onPacketAcked`), `retransmitSplitStreamPacket`,
`reset`, `ingestStreamFrame` (`onFrame` with `insertRecvFragments`), `read`, `ReadEnd`,
`close`, `FlushFin`, `collectClosedStreams`, `handleMaxStreamDataFrame` and
`handleResetStreamFrame` are the handlers of these names. `StreamImpl::reset` is `reset` when
the writer calls it and `resetBack` when the reader does, and `onReset` at the writer is
`OnResetBack`.

The two windows are apart, as in the code: the sender starts from `LIMIT`, the peer's
`initial_max_stream_data_bidi_local`, and the receiver counts what it tells from `WINDOW`, its
own `initial_max_stream_data_bidi_remote`. The first MAX_STREAM_DATA is stored as it is, also
when it is lower; later ones only when larger. A try that exceeds the limit sends a
STREAM_DATA_BLOCKED (`Asked`; again only some time after the last), which `OnBlocked` answers
with the value told last. How many bytes a frame takes depends on the MTU, the budget, the
end of the ring buffer and on halving, so `Tries` and `SendBytes` allow every length the MTU
does. The layer below is what `UtpAck` shows: a frame comes late and
more than once, but is not lost for good. The stream's window is the tighter of the two
levels of flow control. A frame for a stream already collected has both outcomes the code
has (`aborted`, a second stream). `FirstGap` is how far the first acknowledged range reaches
once the ranges are merged, and `Held` the bytes that fragments hold, which
`m_recvBufferedBytes` counts.

### `UtpPath`: path validation

`active` is `m_peerAddress`, `path` the `NetworkPath` with its state, pending flag and
retries, `timer` says for which challenge the timer runs. `OnPacket` and `OnResponse` are
`onUdpPacket` for a packet without and with a PATH_RESPONSE; they call
`detectPeerAddressChange`, `maybeSendPathChallenge` and `handlePathResponseFrame`.
`Timeout`, `SlowAnswer` and `EarlyTimeout` are `onPathValidationTimeout`: nothing more can
come, the answer is still under way, or the deadline has not come yet.
`ChallengeLost` and `ResponseLost` include the retransmission, which goes to the active
address. The random bytes of a challenge are only compared with those drawn last, so the
model keeps whether they are those. `stalled` marks the two states from which the code
does not go on by itself: a challenge the socket refused, and a timer that came early.

The last section of `UtpPath`, `KcpConn` and `UtpAck` holds the inductive invariant of the
proofs. The modules `MCKcpData`, `MCKcpConn`, `MCUtpMtu`, `MCUtpAck`, `MCUtpStream` and `MCUtpPath`
are the roots of the runs.

## 4. The runs

### Passing

| Run | What it shows | Bounds |
|---|---|---|
| `data_safety` | `TypeOK`, `InOrder`, `AckedArrived`, `WindowKept`, `RecordsAgree`, and the refinement `ImplementsChannel`, with reordering, a duplicate and spurious timeouts | 2 messages of up to 2 fragments, windows of 2 |
| `data_drain` | under loss, reordering and with fast retransmission every segment is acknowledged or the connection given up (`SenderDrains`), `snd_una` and `rcv_nxt` never move back (`PointersAdvance`), and a window that closed, also one an overtaken ACK leaves at zero with nothing outstanding, is opened again by the probe (WASK, WINS) or the connection given up (`WindowReopens`) | 3 messages of up to 2 fragments, windows of 2, 1 loss |
| `conn_handshake` | `TypeOK`, `OneOutcome`, `AcceptedIsConnected`, `PathsAgree`: SYNs and replies over two paths in every order, one packet doubled, two server objects, an application that may refuse, PUSH and PING racing the handshake, two calls or give-ups | 2 paths, 2 objects, no retries |
| `conn_ends` | `GracefulIsMutual` and `PassiveSideEnds` (SYN_RECEIVED and FIN_RECEIVED end), with two calls or give-ups | 1 path, 1 object, 1 retry, 1 loss |
| `utp_mtu` | `TypeOK`, `Bounds`, `Confirmed`, `NoDeadEnd`, `CooldownQuiet`, `DeferredCommit`, and that every round ends (`RoundEnds`) | the bounds of `config.h`, a search that ends between two rungs, and limits that contradict each other; 2 probes tracked |
| `utp_ack` | `HistoryShape`, `AcksTruthful`, `AckedProcessed`, `TrackedOnce`, `AckDue`, the refinement `ImplementsAckSet`, and `AllAcked` | 2 payloads, 2 ranges, 11 numbers, 2 faults |
| `utp_stream` | `BufferAgrees`, `FragmentsAgree`, `AckedTaken`, `NeverRefused`, the refinement `ImplementsByteStream` and `AllRead`, with a first limit above the receiver's own window | 3 bytes, buffer, limit and packet of 2, window of 1, 1 fault |
| `utp_path` | `PathAgrees`, `FreshProof`, `ValidationEnds`, `Follows` | 3 addresses, 2 moves, 2 retries, 1 fault |

Why the bounds are enough.

* kcp data: two messages of two fragments with windows of two reach every branch of the
  receiver (a gap, a fragment before its head, a message complete behind an incomplete
  one, a full window), and a sender with more to send than the window takes. A third
  message is needed for a window that closes (`data_drain`): a fragment of an
  incomplete message and one behind the next gap then fill it. One lost ACK is enough to bring a segment
  to its last retransmission, because a PUSH received before is not acknowledged again.
  With windows of two every overtaken ACK is one whose `sn` has left `snd_buf`; that
  `snd_una` stays also when such an ACK names an outstanding segment (windows of three and
  more) is part of the theorem `Monotone`. Loss is not needed for
  safety: a packet that is never taken is lost, so the safety runs have `MAX_LOSS` = 0; the
  liveness runs, where the network is fair, have losses.
* kcp connection: two server objects are the fewest that let a repeated SYN replace the
  peer of an established client. One retry per timer gives both the retry and its end.
* MTU: the search runs over the real sizes, so the ladder, the binary phase and its end at
  the step all occur; two tracked probes are one in flight and one given up; a threshold of
  two is the smallest that counts. The step is 24 where `config.h` has 16, which only makes
  the binary phase one probe shorter and keeps the run within minutes; `utp_mtu_base` runs
  with 16, and the theorems hold for every step.
* Acknowledgements: two ranges are exceeded by a third run, so ranges are forgotten; eleven
  numbers leave room for every retransmission two faults can cause, and no step is ever
  refused for want of a number.
* Stream: three bytes with windows of one and two need the credit, and with two bytes that
  fit a packet there are frames that overlap on both sides. `LIMIT` is above `WINDOW`, so
  that the sender is ahead of what the receiver has told, and the first MAX_STREAM_DATA
  lowers the limit below what was sent. With a window of one every byte read reaches the
  threshold. Growth below the threshold while the limit is used up needs a window of two and
  four bytes: `AllRead` was checked there too, without faults (`LIMIT` and `RECV_LIMIT` 3,
  `WINDOW` and `THRESHOLD` 2, `MAX_BYTES` 4, `FAULTS` 0).
* Path: three addresses are the active one, a candidate and one more; two retries give a
  repeated challenge and the last one. Safety was also checked with two faults.

The deadlock check is off because a bounded run ends when its messages, faults and events
are used up.

Fairness. Nothing is assumed of the loss or order of single packets beyond the stated
number of faults, and nothing of when an application closes.

* `KcpData`, `KcpConn`: the event loop serves the socket (`ReceiveAny`), the periodic write
  timer (`RcvFlush`, `FlushAllDue`) and every armed timer (`Timeouts`). `FlushAllDue` is the
  flush with every timer due: time passes, so a timer that stays armed runs out. It has
  strong fairness, because a packet that arrives may make the flush pointless for a moment
  (nothing is due) without setting back a timer that has run out.
* `UtpMtu`: time passes, the send control gets its turn to write (`onCanWrite`), and a
  tracked probe is reported lost in the end.
* `UtpAck`, `UtpStream`: weak fairness of the disjunction `Progress`: while a payload can be
  sent, an armed timer fire, a lost packet be sent again or something arrive, one of these
  happens; in `UtpStream` the applications go on writing and reading. Weak fairness of the
  disjunction is less than of each action. The retransmission timer need fire only when
  no answer is under way.
* `UtpPath`: the peer goes on sending (it has data or acknowledgements), packets and
  responses arrive, challenges arrive where the peer is, and the timer fires when there is
  nothing left to wait for.

`AllRead`, `ValidationEnds` and `Follows` name their exceptions: a stream reset, a connection
aborted or a credit the socket refused, and a validation `stalled`. The last two are faults
of the code that the models reach and these properties leave out (see below, "Seen while
modelling"): the properties say that nothing else stops a stream or a validation.

### Runs that show a disagreement

Each checks one statement of the repository's docs, comments, assertions or tests
that the code does not meet; the findings in `PROJECT.json` quote it.

| Run | What happens |
|---|---|
| `data_reorder` | A PUSH that fills the gap before two complete messages hands over the first only; the second waits for a further PUSH (`kcp_protocol.c:2050`). |
| `conn_attempt` | The connect timer takes the success of `kcp_send_syn_to_candidates` for a failure and is not armed again (`kcpp.c:986`). |
| `utp_migrate` | While a new address of the peer is validated, the frames of packets from it are skipped but the packets are acknowledged (`connection_impl.cpp:995`): their stream data is lost for good. |
| `utp_mtu_base` | A black hole takes the confirmed MTU to the minimum (`mtu.cpp:331`), below the base MTU that the design document (line 604) puts below it always. `Bounds` has the rest of that section. |

`AckedProcessed` holds while the address stays (`utp_ack`) and fails when it changes
(`utp_migrate`): the pair says where the boundary is.

### Seen while modelling, without a run

These were met while reading and modelling the code and have no run of their own. In kcp:

* a PUSH received before is refused without an ACK, so one lost ACK can end the connection
  with TOO_MANY_RETRANS (`kcp_protocol.c:1962`, 2000);
* `kcp_close_timeout` has no branch for the last retry: FIN_SENT for ever (`kcpp.c:1157`);
* a late SYN reply moves an established connection to another path (`kcp_protocol.c:1740`);
* a FIN or PING in SYN_RECEIVED releases the connection inside its handler and again in the
  caller (`kcp_protocol.c:604`);
* the SYN of a second candidate conflicts with the first and its RST refuses the attempt
  (`kcpp.c:851`, against `kcp/include/kcpp.h:289`); the SYN reply carries a `dcid` that an
  assertion forbids (`kcpp.c:168`);
* `fastlimit` is never set (`kcp_protocol.c:887`); serial numbers are compared without
  wrapping (1961); the window ignores what the application has not read (608);
  `nsnd_buf_unused` is not decremented (1922); the packing loop does not end on a segment
  larger than the MTU (945); the command byte is ORed into a reused buffer (1491);
* `keepalive_timeout` is in milliseconds and compared with microseconds (2176); a
  connection given up is not released (2183); each MTU probe starts again with the upper
  bound at `ETHERNET_MTU` (`kcp_mtu.c:168`).

In libutp:

* a MAX_STREAM_DATA the socket refuses is not sent again, and STREAM_DATA_BLOCKED is answered
  with the value told before (`connection_impl.cpp:2240`, 849): with all credit used and
  read, writer and reader wait for each other (`credit.refused` in `UtpStream`);
* a challenge the socket refuses stays pending without a timer (`connection_impl.cpp:2894`),
  and so does one whose timer fires early (`network_path.cpp:113`): the validation neither
  succeeds nor fails (`stalled` in `UtpPath`);
* the first MAX_STREAM_DATA counts from `initial_max_stream_data_bidi_remote` and replaces
  the limit the sender has from `initial_max_stream_data_bidi_local`
  (`connection_impl.cpp:2061`): with the second above the first the window shrinks, although
  `config.h:120` and 121 give the second no part in what the peer may send. `NeverRefused`
  and `AllRead` hold all the same;
* a size lost once is not tried again in the round (`mtu.cpp:260`); losses found by the
  retransmission timeout are not reported to the black-hole detector (`send_ctl.cpp:1241`);
* an ACK frame of the configured 149 ranges may not fit a packet; the ACK timer is started
  anew by every packet (`connection_impl.cpp:1018`);
* a STREAM frame that comes after its stream was collected aborts the connection or opens
  a second stream of the same number (`connection_impl.cpp:1516`, against
  `libutp/doc/协议设计文档.md:330`); one that comes after RESET_STREAM aborts it too
  (`stream_impl.cpp:458`);
* `onClosed` is not called on the side whose FIN goes last (`stream_impl.cpp:677`); the bytes
  a reset discards are never counted as consumed, so the connection-wide window loses them
  (`stream_impl.cpp:392`, 631);
* a split retransmission needs fresh connection credit (`connection_impl.cpp:1730`);
* during validation the limit on bytes also holds back data on the active path
  (`connection_impl.cpp:2864`, against `libutp/doc/协议设计文档.md:543`); a PATH_CHALLENGE
  found lost goes to the active address (`send_ctl.cpp:725`, against line 544 of that
  document).

### Mutants

Every property of a passing run has a mutant: a definition of the model changed
as a plausible slip in the code would change it (`JoinedBeforeHead`, `SynReplyPathKept`,
`ProbeAckCommitsEarly`, `EncodeGapInclusive`, `CollectedUnread`,
`HandleResponseFromAnywhere`, ...), under which TLC finds the property violated. The
mutants stand next to the definitions they change.

## 5. The proofs

### `KcpData_proofs`

Proved for all values of the constants that satisfy
`DataAssumption` (positive windows and limits, congestion windows positive, a
message fits the receive window, as the comment on
`KCP_WND_RCV` requires):

| Theorem | Statement |
|---|---|
| `Invariance` | `Spec => []Inv` |
| `TypeCorrect` | `Spec => []TypeOK` |
| `DeliveryInOrder` | `Spec => []InOrder` |
| `NothingForgotten` | `Spec => []AckedArrived` |
| `WindowRespected` | `Spec => []WindowKept` |
| `RecordsKept` | `Spec => []RecordsAgree` |
| `Monotone` | `Spec => PointersAdvance`: `snd_una` and `rcv_nxt` never move back |
| `Refinement` | `Spec => ImplementsChannel`: the data path implements `KcpChannel` |

`InOrder` is not inductive: whether the next delivery is in order depends on what
the receiver buffers, that on what was in flight, and that on the sender. `Inv`
(in `KcpDataInv`) says that all of them agree with one log, `sent`:

* `LogWhole`: the log consists of whole messages with packet numbers of their own;
* `QueueIsTail`, `Carried`: `snd_queue` is the end of the log without serial
  numbers, and whatever carries serial number `sn`, in `snd_buf`, in flight or in
  `rcv_buf`, carries fragment `sn + 1` of the log;
* `ReceiverOrder`: `rcv_buf` has no gap between what was handed over and `rcv_nxt`, and
  what was handed over ends where a message ends;
* `Assemblies`: every assembly stands for a message with fragments in `rcv_buf`, with
  the right start and, once its head arrived, the right count;
* `AcksTrue`, `AckedArrived`: acknowledgements, queued or in flight, are of what has
  arrived, so freeing on one forgets nothing.

The proof has one lemma per action (`SendStep`, `FlushStep`, `AckStep`, `PushStep`,
...), joined in `NextInv`. The hard case is `PushStep`: when the assembly with the
smallest start is complete, it begins exactly where the delivered part ends
(`NextHead`, `FirstPacketFacts`, `CompleteFacts`), so moving it keeps the order
(`DeliveredRest`). `RecordsKept` needs the counts of fragments besides (`Counted`, inductive
relative to `Inv`): a fragment is counted in one assembly, and the fragments of the assembly
handed over are as many as it expected (`PushedCount`, `DeliveredCount`). `Refinement` reuses the same facts: a PUSH that hands over is a
`ChanDeliver` step, `kcp_send` a `ChanSend` step, and everything else stutters.

### `UtpMtu_proofs`

Proved for every set of configurations, step, timeout, threshold and
sequence of results that satisfies `MtuAssumption` (a positive step with which no sum
leaves 16 bits, a positive timeout and interval, a threshold the counter can reach):

| Theorem | Statement |
|---|---|
| `Invariance` | `Spec => []Inv` |
| `TypeCorrect`, `BoundsKept`, `OnlyConfirmed`, `NeverStuck`, `QuietInCooldown` | `Spec => []P` for `TypeOK`, `Bounds`, `Confirmed`, `NoDeadEnd`, `CooldownQuiet` |
| `CommitDeferred` | `Spec => DeferredCommit` |

`Confirmed` alone is not inductive: the MTU in use takes the value of the lower bound, the
lower bound that of the probe whose acknowledgement comes, and the discovery recognises
that probe by its number only. `Inv` adds `Awaited` (the tracked packet with the awaited
number has the size the discovery believes and was sent on this path) and `InRound` (in a
round the ceiling is the upper bound of the search; otherwise nothing is in flight and
the MTU in use is the confirmed one).
The lemmas go method by method (`init`, `onProbeAck`, `onDataPacketLoss`, ...), then action
by action.

### `KcpConn_proofs`

Proved for every set of objects and paths and every number of retries, losses,
duplicates and calls (`ConnAssumption`: the constants have their types and `NONE` is
neither an object, nor a path, nor a `rand_sn`):

| Theorem | Statement |
|---|---|
| `Invariance` | `Spec => []Inv` |
| `TypeCorrect` | `Spec => []TypeOK` |
| `ReportsOnce` | `Spec => []OneOutcome` |
| `NoHalfOpen` | `Spec => []AcceptedIsConnected` |
| `SamePath` | `Spec => []PathsAgree` |
| `GracefulClose` | `Spec => []GracefulIsMutual` |

None of these is inductive, because each is decided by a packet that was sent long
before. `Inv` says what every packet under way means (`PacketOK`): a reply to a SYN
carries the path of the object that sent it, an ACK or PUSH of the client means that the
client has reported its connection, a FIN or ACK that answers a FIN means that its sender
is in FIN_RECEIVED or released. `ObjectOK` ties timers, retries and ids to the state of an
object and `LogOK` the callbacks made so far to it, so that no path through the callbacks
reports twice. `PeerOK` and `TreeOK` say that the client's peer and the object in
the set exist. Every branch of `kcp_parse_packet` and every timer is one lemma.

### `UtpPath_proofs`

Proved for every set of addresses and number of retries, moves and faults
(`PathAssumption`): `Invariance` (`Spec => []Inv`), `PathsAgree` (`Spec => []PathAgrees`)
and `OnlyFreshProof` (`Spec => FreshProof`). `FreshProof` is about one step, but whether
the step is right depends on what was drawn earlier: the code compares the bytes of an
echo with those drawn last and nothing else. `DrawnForCandidate` supplies the rest:
while a candidate is validated, the bytes drawn last were drawn for it.

### `UtpHistory_proofs` and `UtpAck_proofs`

Two results on the pure part, for every number of ranges kept and told
(`HistoryAssumption`), both about lists of any length:

| Theorem | Statement |
|---|---|
| `InsertWellFormed` | `insert` keeps a `WellFormed` history well formed, and adds at most the number it is given |
| `FrameTruthful` | the frame `encode` makes of a well-formed history decodes and acknowledges only numbers the history holds |

and on the two ends, for every number of payloads, ranges, thresholds, addresses and faults
(`AckAssumption`):

| Theorem | Statement |
|---|---|
| `MigrateInvariance`, `Invariance` | `MigrateSpec => []Inv`, `Spec => []Inv` |
| `HistoryOrdered` | `MigrateSpec => []HistoryShape` |
| `NoFalseAck` | `MigrateSpec => []AcksTruthful` |
| `AckNotForgotten` | `MigrateSpec => []AckDue` |
| `NothingForgotten` | `MigrateSpec => []TrackedOnce` |
| `AckedWasHanded` | `Spec => []AckedProcessed` |
| `Refinement` | `Spec => ImplementsAckSet` |

The first five hold also while the sender's address changes; `AckedProcessed` does not
(run `utp_migrate`), and its proof shows where the one address is used: `Handed`.

`Inv` has one part for each end and one for what is between them. `Tracking`: the sender's
packets have numbers of their own below the next one, and a payload is either
acknowledged or in exactly one place. `Recording`: the history is well formed, holds only
numbers that were taken, and is not empty when an acknowledgement is due. `Truthful`: a
frame under way decodes and names only numbers taken. `Handed` adds that a packet under
way carries the payload its number is tracked for and that a tracked payload whose number
was taken is with the streams; without it nothing relates an acknowledged number to the
payload it stood for.

The hard cases: a step that declares packets lost appends their payloads in the order of
their numbers, and `TrackedOnce` needs each exactly once (lemma `Ranks`); `insertIntoList`
walks the list and joins on one side, on both or on none; gaps and lengths of a frame are
differences, which `decode` must undo; and for the refinement the intervals of the list
are exactly the runs of the set they stand for, so that the interval dropped is the lowest
run.

### `UtpStream_proofs`

Proved for every number of bytes, buffer size, MTU, first limit, window, credit threshold
and number of faults (`StreamAssumption`):

| Theorem | Statement |
|---|---|
| `Invariance` | `Spec => []Inv` |
| `BufferKept` | `Spec => []BufferAgrees` |
| `FragmentsKept` | `Spec => []FragmentsAgree` |
| `NothingAckedLost` | `Spec => []AckedTaken` |
| `RoomKept` | `Spec => []NeverRefused`, if `LIMIT`, `WINDOW` and `MTU` are each at most `RECV_LIMIT` |
| `Refinement` | `Spec => ImplementsByteStream` |

`RECV_LIMIT` is `kMaxRecvFragmentBytes`, 2 MB; both windows are 256 KB by default and are
configured apart, and `RoomKept` holds whichever is the larger. A configuration with one of
them above the limit is outside `RoomKept`, and there the hazard is real: the
limit fills with later bytes and the frame at the head is refused each time. The other
theorems do not need the bound.

What is read being right is decided when a frame is cut, long before. `Inv` therefore says
of each place a byte passes through that the byte is the one of its offset:

* `SenderOK`: the buffer begins at the acknowledged offset, its first part is in flight and
  the rest queued, and byte number `i` of it is byte `ackedOff + i` of the stream; after a
  reset the send half claims nothing;
* `FrameOK` for every frame under way or to be acknowledged: it carries the bytes of its
  offset, all of them sent, and a FIN on it stands at the end of what was written;
* `StreamOK` with `FragsOK`: fragments are apart, carry the bytes of their offset and are
  counted by `buffered`. The code may note the FIN at a piece in front of the end (when the
  tail was held already), so "FIN at the end" is not an invariant; what is one, and what
  the refinement needs, is that after a piece with the FIN no byte is missing;
* `ReceiverOK`: what was read is the first bytes of the stream, as many as the offset of
  the first stream opened says, all of them once that one was collected; what a second
  stream, opened by a late frame, reads is not part of it;
* `CreditOK`: what the sender sent and may send is within the limit it started with or
  within what it was told, and what it was told is at most a window beyond what was
  consumed; `RoomKept` follows from it and `StreamOK`;
* `AcksOK`: what is acknowledged, in the ranges, or in a frame taken, is held or read.

The hard cases: `insertRecvFragments` cuts a frame into the runs of bytes not held, and the
proof shows that the runs are apart, cover exactly what was missing and are counted once
(`RunEnd`, `RunsApart`, `Inserted`, `PlacedFacts`); `onPacketAcked` gives up the bytes to
the first gap (`FirstGapFacts`, `AckedFacts`); `collectClosedStreams` drops the stream only
when all was read (`CollectedFacts`). Attempting the proof showed that the operator for the
beginning of a run did not say that it lies before the run's end, which TLC could not see;
it does now.

The inductive invariants of these modules were checked by TLC on the instances of the runs before
they were proved.

### Only model-checked

Liveness (`SenderDrains`, `WindowReopens`, `PassiveSideEnds`, `RoundEnds`,
`AllAcked`, `AllRead`, `ValidationEnds`, `Follows`), which is outside the prover's reach.

## 6. Not modelled

* kcp keepalive, MTU probing, packing and the segment pool: no property of the modelled
  parts depends on them, and what is known to be wrong with them (section 4) shows by
  reading; libutp's MTU discovery, which replaced kcp's, is modelled instead.
* Congestion control and pacing of both transports: arithmetic over measured rates and
  times. The models let windows and delays take any value, so nothing shown depends on it.
* Failing sends with their write queue and ICMP errors in `KcpConn`; in `KcpData` a failed
  send is a loss. The connection set appears as a map.
* kcp serial numbers do not wrap, and libutp packet numbers (64 bits) cannot.
* libutp's handshake, 0-RTT and resumption (the models start from an established
  connection), its close and keepalive (they end with it), the connection-wide window, the
  limit on bytes during validation, priorities and coalescing, buffer memory, dispatch and
  encryption.
* Clock, sockets and logs are pure I/O.
* `ntrs` and `stun` have state machines of their own that neither transport builds on. The
  other libraries of the repository are containers, wrappers and vendored code and have no
  protocol to check.
