------------------------------- MODULE KcpConn -------------------------------
(***************************************************************************)
(* The life of a kcp connection: the three-way handshake over one or more  *)
(* candidate addresses, the FIN exchange, resets, and the release of the   *)
(* connection objects (kcpp.c, kcp_protocol.c).                            *)
(*                                                                         *)
(* One client context makes one attempt; one server context accepts, and   *)
(* may create several connection objects for it when SYNs are repeated.    *)
(* A path is a candidate address of the server together with the address   *)
(* the server sees the client at, so both ends compare remote_host by path.*)
(* Connection ids are the objects themselves: an id drawn at random is not *)
(* drawn again while packets that carry it are under way.  A rand_sn (a    *)
(* hash of the time) is <<object, number of the SYN or FIN>>.              *)
(*                                                                         *)
(* The build is the default one (RelWithDebInfo), where assert is off.     *)
(* Sending succeeds; a datagram the socket refuses counts as lost.         *)
(***************************************************************************)
EXTENDS Naturals, Sequences, FiniteSets

CONSTANTS
  PATHS,              \* candidate addresses
  CLIENT, OBJECTS,    \* the client's connection object, the server's
  NONE,               \* no object: connection id 0
  RETRIES,            \* DEFAULT_SYN_FIN_RETRIES
  WILLING,            \* TRUE: the server's on_connect always calls kcp_accept
  DATA,               \* what the flush of a connected end sends
  MAX_LOSS, MAX_DUP,  \* bounds: packets lost, duplicated,
  MAX_EVENTS,         \* calls of the application and packets of the flush,
  MAX_FINS            \* and FINs an end sends in answer to repeated FINs

ASSUME ConnAssumption ==
  /\ CLIENT \notin OBJECTS /\ NONE \notin OBJECTS \cup {CLIENT} \cup PATHS
  /\ NONE \notin (OBJECTS \cup {CLIENT}) \X Nat     \* no rand_sn is 0
  /\ RETRIES \in Nat /\ WILLING \in BOOLEAN
  /\ DATA \subseteq {"PUSH", "PING"}
  /\ MAX_LOSS \in Nat /\ MAX_DUP \in Nat /\ MAX_EVENTS \in Nat /\ MAX_FINS \in Nat

VARIABLES
  conn,           \* the connection objects
  tree,           \* the server's connection_set: the object linked in it, or NONE
  log,            \* the callbacks made for each object, in order
  net, losses, dups, events

vars == <<conn, tree, log, net, losses, dups, events>>

Ids == OBJECTS \cup {CLIENT}

States == {"NONE", "SYN_SENT", "SYN_RECEIVED", "CONNECTED", "FIN_SENT", "FIN_RECEIVED",
           "DISCONNECTED", "FREED"}

\* A connection after kcp_connection_init.  syns counts the SYNs sent, fins
\* holds the packet_sn of each FIN sent: together kcp_proto_header_list.
kcp_connection_init ==
  [state |-> "NONE", dcid |-> NONE, remote_host |-> NONE, packet_sn |-> NONE,
   syn_retries |-> RETRIES, fin_retries |-> RETRIES, syn_timer |-> FALSE, fin_timer |-> FALSE,
   syns |-> 0, fins |-> <<>>, freed |-> 0]

Init ==
  /\ conn = [o \in Ids |-> kcp_connection_init]
  /\ tree = NONE
  /\ log = [o \in Ids |-> <<>>]
  /\ net = {} /\ losses = 0 /\ dups = 0 /\ events = 0

\* One of the events MAX_EVENTS bounds.
Counted == events < MAX_EVENTS /\ events' = events + 1

Alive(o) == o \in Ids /\ conn[o].state \notin {"NONE", "FREED"}

----------------------------------------------------------------------------
\* Packets and the release of objects

\* A packet of connection c of object o; sn is what it answers (packet_sn of a
\* SYN or a FIN, sn of an ACK), rand the rand_sn it brings.
Packet(o, c, cmd, sn, rand) ==
  [to |-> IF o = CLIENT THEN "server" ELSE "client", path |-> c.remote_host, cmd |-> cmd,
   scid |-> o, dcid |-> c.dcid, sn |-> sn, rand |-> rand]

\* The RST of a context that has no connection for packet p.
RstReply(p) ==
  [to |-> IF p.to = "server" THEN "client" ELSE "server", path |-> p.path, cmd |-> "RST",
   scid |-> NONE, dcid |-> NONE, sn |-> NONE, rand |-> NONE]

\* A SYN of the client goes to every candidate.
SynToCandidates(c, n) ==
  {Packet(CLIENT, [c EXCEPT !.remote_host = a], "SYN", NONE, <<CLIENT, n>>) : a \in PATHS}

\* c with one more FIN that answers sn, and that FIN.
WithFin(c, sn) == [c EXCEPT !.fins = Append(@, sn)]
LastFin(o, c)  == Packet(o, c, "FIN", c.fins[Len(c.fins)], <<o, Len(c.fins)>>)

Update(o, c, calls) ==
  /\ conn' = [conn EXCEPT ![o] = c]
  /\ log' = [log EXCEPT ![o] = @ \o calls]

\* kcp_connection_destroy, with the callbacks made before it.  Only the objects
\* of one client are ever linked in the server's tree, so every node is without
\* parent and children, and rb_erase of such a node, linked or not, leaves the
\* tree empty.
kcp_connection_destroy(o, calls) ==
  /\ Update(o, [kcp_connection_init EXCEPT !.state = "FREED", !.freed = conn[o].freed + 1], calls)
  /\ tree' = IF o = CLIENT THEN tree ELSE NONE

----------------------------------------------------------------------------
\* Calls of the application

\* kcp_connect is the case of one candidate; the first is the default remote.
kcp_connect_candidates(first) ==
  LET c == [conn[CLIENT] EXCEPT !.state = "SYN_SENT", !.remote_host = first,
                                !.syns = 1, !.syn_timer = TRUE]
  IN  /\ conn[CLIENT].state = "NONE"
      /\ Update(CLIENT, c, <<>>)
      /\ net' = net \cup SynToCandidates(c, 1)
      /\ UNCHANGED <<tree, losses, dups, events>>

\* <<"closed", "LOCAL">> is the on_closed(NO_ERROR) made inside the application's
\* own call, told apart from the one that ends a FIN exchange.

\* The application holds o: a callback gave it the connection, in SYN_SENT the
\* on_error of kcp_connect_timeout.  (In SYN_RECEIVED only a failed send would.)
Held(o) ==
  \/ conn[o].state \in {"CONNECTED", "FIN_SENT", "FIN_RECEIVED", "DISCONNECTED"}
  \/ conn[o].state = "SYN_SENT" /\ ~conn[o].syn_timer

kcp_shutdown(o) ==
  LET c == conn[o]
  IN  /\ Held(o)
      /\ net' = net \cup IF c.state = "DISCONNECTED" THEN {}
                         ELSE {Packet(o, c, "RST", NONE, NONE)}
      /\ kcp_connection_destroy(o, << <<"closed", "LOCAL">> >>)
      /\ Counted /\ UNCHANGED <<losses, dups>>

\* kcp_close: a FIN when connected; nothing in the FIN states; a shutdown before
\* the connection stands; the release when it was given up.
kcp_close(o) ==
  LET c == [WithFin(conn[o], NONE) EXCEPT !.state = "FIN_SENT", !.fin_timer = TRUE]
  IN  \/ /\ conn[o].state = "CONNECTED"
         /\ Update(o, c, <<>>)
         /\ net' = net \cup {LastFin(o, c)}
         /\ Counted /\ UNCHANGED <<tree, losses, dups>>
      \/ /\ conn[o].state \in {"SYN_SENT", "DISCONNECTED"}
         /\ kcp_shutdown(o)

----------------------------------------------------------------------------
\* Timers

\* kcp_connect_timeout: a new SYN to every candidate.  The success of
\* kcp_send_syn_to_candidates is NO_ERROR (0), which the caller takes for a
\* failure: it reports WRITE_ERROR and leaves the timer off.
kcp_connect_timeout ==
  LET c == conn[CLIENT]
      n == c.syns + 1
  IN  /\ c.syn_timer
      /\ IF c.syn_retries > 0
         THEN /\ Update(CLIENT, [c EXCEPT !.syn_retries = @ - 1, !.syns = n, !.syn_timer = FALSE],
                        << <<"error", "WRITE_ERROR">> >>)
              /\ net' = net \cup SynToCandidates(c, n)
              /\ UNCHANGED tree
         ELSE kcp_connection_destroy(CLIENT, << <<"connected", "TIMED_OUT">> >>) /\ UNCHANGED net
      /\ UNCHANGED <<losses, dups, events>>

AcceptTimeoutKept(o) ==
  /\ conn[o].syn_timer
  /\ IF conn[o].syn_retries > 0
     THEN /\ Update(o, [conn[o] EXCEPT !.syn_retries = @ - 1], <<>>)
          /\ net' = net \cup {Packet(o, conn[o], "SYN", conn[o].packet_sn, NONE)}
     ELSE Update(o, [conn[o] EXCEPT !.syn_timer = FALSE], <<>>) /\ UNCHANGED net
  /\ UNCHANGED <<tree, losses, dups, events>>

\* kcp_accept_timeout: the SYN reply again, or the end of the attempt.
kcp_accept_timeout(o) ==
  /\ conn[o].syn_timer
  /\ IF conn[o].syn_retries > 0
     THEN /\ Update(o, [conn[o] EXCEPT !.syn_retries = @ - 1], <<>>)
          /\ net' = net \cup {Packet(o, conn[o], "SYN", conn[o].packet_sn, NONE)}
          /\ UNCHANGED tree
     ELSE kcp_connection_destroy(o, << <<"accepted", "TIMED_OUT">> >>) /\ UNCHANGED net
  /\ UNCHANGED <<losses, dups, events>>

\* kcp_close_timeout: the FIN again; with no retry left it does nothing at all.
kcp_close_timeout(o) ==
  LET c == [WithFin(conn[o], NONE) EXCEPT !.fin_retries = @ - 1]
  IN  /\ conn[o].state = "FIN_SENT" /\ conn[o].fin_timer
      /\ IF conn[o].fin_retries > 0
         THEN Update(o, c, <<>>) /\ net' = net \cup {LastFin(o, c)}
         ELSE Update(o, [conn[o] EXCEPT !.fin_timer = FALSE], <<>>) /\ UNCHANGED net
      /\ UNCHANGED <<tree, losses, dups, events>>

\* on_fin_packet_timeout_cb: the answer to the first FIN again, or the release.
on_fin_packet_timeout_cb(o) ==
  LET c == [WithFin(conn[o], conn[o].fins[1]) EXCEPT !.fin_retries = @ - 1]
  IN  /\ conn[o].state = "FIN_RECEIVED" /\ conn[o].fin_timer
      /\ IF conn[o].fin_retries > 0
         THEN Update(o, c, <<>>) /\ net' = net \cup {LastFin(o, c)} /\ UNCHANGED tree
         ELSE kcp_connection_destroy(o, << <<"closed", "TIMED_OUT">> >>) /\ UNCHANGED net
      /\ UNCHANGED <<losses, dups, events>>

\* kcp_write_timeout walks the connection set: an object that is no longer
\* linked is not flushed.
Flushed(o) == conn[o].state = "CONNECTED" /\ (o = CLIENT \/ o = tree)

\* The periodic flush of a connected end sends data or a control packet ...
FlushSends(o) ==
  /\ Flushed(o)
  /\ \E cmd \in DATA : net' = net \cup {Packet(o, conn[o], cmd, NONE, NONE)}
  /\ Counted /\ UNCHANGED <<conn, tree, log, losses, dups>>

\* ... or gives the connection up (TOO_MANY_RETRANS, KEEPALIVE_ERROR): the
\* application is told, the object stays until it is closed or a packet comes.
GivesUp(o) ==
  /\ Flushed(o)
  /\ Update(o, [conn[o] EXCEPT !.state = "DISCONNECTED"], << <<"error", "GIVEN_UP">> >>)
  /\ Counted /\ UNCHANGED <<tree, net, losses, dups>>

----------------------------------------------------------------------------
\* Packets received.  rest is the network once p is taken from it.

\* The connection kcp_parse_packet finds for p: the server searches its tree for
\* the peer's id, the client takes the only connection it has.
Found(p) ==
  IF p.to = "client" THEN IF Alive(CLIENT) THEN CLIENT ELSE NONE
  ELSE tree

\* p names a local id that is not the connection's, or that nobody has.
Misdirected(p) ==
  /\ p.dcid # NONE
  /\ IF Found(p) # NONE THEN p.dcid # Found(p) ELSE ~Alive(p.dcid)

PacketDropped(p, rest) ==
  /\ Misdirected(p) \/ (Found(p) = NONE /\ p.cmd = "RST")
  /\ net' = rest
  /\ UNCHANGED <<conn, tree, log>>

NoConnection(p, rest) ==
  /\ ~Misdirected(p) /\ Found(p) = NONE /\ p.cmd \notin {"SYN", "RST"}
  /\ net' = rest \cup {RstReply(p)}
  /\ UNCHANGED <<conn, tree, log>>

AcceptEarly(p, rest) ==
  /\ p.to = "server" /\ p.cmd = "SYN" /\ tree = NONE
  /\ \E o \in OBJECTS :
       LET c == [conn[o] EXCEPT !.state = "CONNECTED", !.dcid = p.scid,
                                !.remote_host = p.path, !.packet_sn = p.rand]
       IN  /\ conn[o].state = "NONE"
           /\ Update(o, c, << <<"accepted", "NO_ERROR">> >>)
           /\ tree' = o
           /\ net' = rest \cup {Packet(o, c, "SYN", p.rand, NONE)}

\* on_kcp_syn_received at the server when the application accepts: kcp_accept
\* creates an object and answers.
kcp_accept(p, rest) ==
  /\ p.to = "server" /\ p.cmd = "SYN" /\ tree = NONE
  /\ \E o \in OBJECTS :
       LET c == [conn[o] EXCEPT !.state = "SYN_RECEIVED", !.dcid = p.scid,
                                !.remote_host = p.path, !.packet_sn = p.rand, !.syn_timer = TRUE]
       IN  /\ conn[o].state = "NONE"
           /\ Update(o, c, <<>>)
           /\ tree' = o
           /\ net' = rest \cup {Packet(o, c, "SYN", p.rand, NONE)}

\* kcp_accept for an id that is already connected fails, the application refuses,
\* and the peer is reset.  The new object, never linked, is destroyed all the
\* same: that empties the tree.
AcceptConflict(p, rest) ==
  /\ p.to = "server" /\ p.cmd = "SYN" /\ tree # NONE
  /\ tree' = NONE
  /\ net' = rest \cup {RstReply(p)}
  /\ UNCHANGED <<conn, log>>

\* on_connect refuses without calling kcp_accept.
ConnectRefused(p, rest) ==
  /\ ~WILLING
  /\ p.to = "server" /\ p.cmd = "SYN"
  /\ net' = rest \cup {RstReply(p)}
  /\ UNCHANGED <<conn, tree, log>>

SynReplyPathKept(p, rest) ==
  LET c == [conn[CLIENT] EXCEPT !.dcid = p.scid, !.syn_timer = FALSE]
  IN  /\ p.to = "client" /\ p.cmd = "SYN" /\ Alive(CLIENT) /\ ~Misdirected(p)
      /\ \E n \in 1..c.syns : p.sn = <<CLIENT, n>>
      /\ net' = rest \cup {Packet(CLIENT, c, "ACK", NONE, NONE)}
      /\ IF c.state = "SYN_SENT"
         THEN Update(CLIENT, [c EXCEPT !.state = "CONNECTED"], << <<"connected", "NO_ERROR">> >>)
         ELSE Update(CLIENT, c, <<>>)
      /\ UNCHANGED tree

SynReplyAlways(p, rest) ==
  LET c == [conn[CLIENT] EXCEPT !.dcid = p.scid, !.remote_host = p.path, !.syn_timer = FALSE]
  IN  /\ p.to = "client" /\ p.cmd = "SYN" /\ Alive(CLIENT) /\ ~Misdirected(p)
      /\ net' = rest \cup {Packet(CLIENT, c, "ACK", NONE, NONE)}
      /\ Update(CLIENT, [c EXCEPT !.state = "CONNECTED"], << <<"connected", "NO_ERROR">> >>)
      /\ UNCHANGED tree

\* on_kcp_syn_received at the client.  A reply to any SYN of the attempt gives
\* the connection the id and the address of the replier, whatever its state.
SynReply(p, rest) ==
  LET c == [conn[CLIENT] EXCEPT !.dcid = p.scid, !.remote_host = p.path, !.syn_timer = FALSE]
  IN  /\ p.to = "client" /\ p.cmd = "SYN" /\ Alive(CLIENT) /\ ~Misdirected(p)
      /\ \E n \in 1..c.syns : p.sn = <<CLIENT, n>>
      /\ net' = rest \cup {Packet(CLIENT, c, "ACK", NONE, NONE)}
      /\ IF c.state = "SYN_SENT"
         THEN Update(CLIENT, [c EXCEPT !.state = "CONNECTED"], << <<"connected", "NO_ERROR">> >>)
         ELSE Update(CLIENT, c, <<>>)
      /\ UNCHANGED tree

\* What a RST tells the application, by the state it finds.
RstCallback(state) ==
  CASE state = "SYN_SENT"     -> << <<"connected", "CONNECTION_REFUSED">> >>
    [] state = "SYN_RECEIVED" -> << <<"accepted", "CONNECTION_RESET">> >>
    [] OTHER                  -> << <<"closed", "CONNECTION_RESET">> >>

\* on_kcp_read_event for connection o in state c: one disjunct per branch.  In
\* SYN_SENT any candidate that answers becomes remote_host.  kcp_parse_packet
\* releases a connection that is DISCONNECTED afterwards.
OtherHost(o, c, p, rest) ==
  /\ c.remote_host # p.path /\ c.state # "DISCONNECTED"
  /\ Update(o, c, <<>>) /\ net' = rest /\ UNCHANGED tree

Reset(o, c, p, rest) ==
  /\ c.remote_host = p.path /\ p.cmd = "RST" /\ c.state # "DISCONNECTED"
  /\ kcp_connection_destroy(o, RstCallback(c.state))
  /\ net' = rest

\* A connection that was given up is released by whatever arrives for it.
GivenUpReleased(o, c, p, rest) ==
  /\ c.state = "DISCONNECTED"
  /\ kcp_connection_destroy(o, <<>>)
  /\ net' = rest

AcceptedTimerKept(o, c, p, rest) ==
  /\ c.remote_host = p.path /\ c.state = "SYN_RECEIVED" /\ p.cmd \in {"ACK", "PUSH"}
  /\ Update(o, [c EXCEPT !.state = "CONNECTED"], << <<"accepted", "NO_ERROR">> >>)
  /\ net' = rest /\ UNCHANGED tree

Accepted(o, c, p, rest) ==
  /\ c.remote_host = p.path /\ c.state = "SYN_RECEIVED" /\ p.cmd \in {"ACK", "PUSH"}
  /\ Update(o, [c EXCEPT !.state = "CONNECTED", !.syn_timer = FALSE],
            << <<"accepted", "NO_ERROR">> >>)
  /\ net' = rest /\ UNCHANGED tree

\* Anything else in SYN_RECEIVED: on_kcp_read_event resets the peer and destroys
\* the object, and kcp_parse_packet reads its state from the released memory:
\* as long as that still says DISCONNECTED it destroys the object again.
AcceptAborted(o, c, p, rest) ==
  /\ c.remote_host = p.path /\ c.state = "SYN_RECEIVED" /\ p.cmd \in {"FIN", "PING"}
  /\ \E times \in {1, 2} :
       Update(o, [kcp_connection_init EXCEPT !.state = "FREED", !.freed = times],
              << <<"accepted", "CONNECTION_RESET">> >>)
  /\ tree' = NONE
  /\ net' = rest \cup {Packet(o, c, "RST", NONE, NONE)}

\* on_kcp_fin_pcaket
FinReceived(o, c, p, rest) ==
  LET d == [WithFin(c, p.rand) EXCEPT !.state = "FIN_RECEIVED", !.fin_timer = TRUE]
  IN  /\ c.remote_host = p.path /\ c.state = "CONNECTED" /\ p.cmd = "FIN"
      /\ Update(o, d, <<>>)
      /\ net' = rest \cup {LastFin(o, d)} /\ UNCHANGED tree

FinAnsweredAny(o, c, p, rest) ==
  /\ c.remote_host = p.path /\ c.state = "FIN_SENT" /\ p.cmd = "FIN"
  /\ kcp_connection_destroy(o, << <<"closed", "NO_ERROR">> >>)
  /\ net' = rest \cup {Packet(o, c, "ACK", p.rand, NONE)}

\* The answer to one of our FINs: acknowledge it and close.
FinAnswered(o, c, p, rest) ==
  /\ c.remote_host = p.path /\ c.state = "FIN_SENT" /\ p.cmd = "FIN"
  /\ \E n \in DOMAIN c.fins : p.sn = <<o, n>>
  /\ kcp_connection_destroy(o, << <<"closed", "NO_ERROR">> >>)
  /\ net' = rest \cup {Packet(o, c, "ACK", p.rand, NONE)}

\* The peer repeats its FIN: answer that one too.  Two ends that are both in
\* FIN_RECEIVED answer each other without end, hence the bound.
FinAgain(o, c, p, rest) ==
  LET d == WithFin(c, p.rand)
  IN  /\ c.remote_host = p.path /\ c.state = "FIN_RECEIVED" /\ p.cmd = "FIN"
      /\ Len(c.fins) < MAX_FINS
      /\ Update(o, d, <<>>)
      /\ net' = rest \cup {LastFin(o, d)} /\ UNCHANGED tree

FinAcked(o, c, p, rest) ==
  /\ c.remote_host = p.path /\ c.state = "FIN_RECEIVED" /\ p.cmd = "ACK"
  /\ \E n \in DOMAIN c.fins : p.sn = <<o, n>>
  /\ kcp_connection_destroy(o, << <<"closed", "NO_ERROR">> >>)
  /\ net' = rest

\* Packets that change nothing here: data of a connected end (KcpData), and
\* what the branches of the other states do not look for.
NothingToDo(o, c, p, rest) ==
  /\ c.remote_host = p.path /\ p.cmd # "RST"
  /\ \/ c.state = "SYN_SENT"
     \/ c.state = "CONNECTED" /\ p.cmd # "FIN"
     \/ c.state = "FIN_SENT" /\ ~(p.cmd = "FIN" /\ \E n \in DOMAIN c.fins : p.sn = <<o, n>>)
     \/ c.state = "FIN_RECEIVED" /\ p.cmd # "FIN"
        /\ ~(p.cmd = "ACK" /\ \E n \in DOMAIN c.fins : p.sn = <<o, n>>)
  /\ Update(o, c, <<>>) /\ net' = rest /\ UNCHANGED tree

on_kcp_read_event(p, rest) ==
  LET o == Found(p)
      c == IF conn[o].state = "SYN_SENT" THEN [conn[o] EXCEPT !.remote_host = p.path] ELSE conn[o]
  IN  /\ o # NONE /\ ~Misdirected(p) /\ p.cmd # "SYN"
      /\ \/ OtherHost(o, c, p, rest) \/ Reset(o, c, p, rest) \/ GivenUpReleased(o, c, p, rest)
         \/ Accepted(o, c, p, rest) \/ AcceptAborted(o, c, p, rest)
         \/ FinReceived(o, c, p, rest) \/ FinAnswered(o, c, p, rest)
         \/ FinAgain(o, c, p, rest) \/ FinAcked(o, c, p, rest)
         \/ NothingToDo(o, c, p, rest)

kcp_parse_packet(p, rest) ==
  \/ PacketDropped(p, rest) \/ NoConnection(p, rest)
  \/ kcp_accept(p, rest) \/ AcceptConflict(p, rest) \/ ConnectRefused(p, rest)
  \/ SynReply(p, rest)
  \/ on_kcp_read_event(p, rest)

Receive(p) == kcp_parse_packet(p, net \ {p}) /\ UNCHANGED <<losses, dups, events>>

\* The network delivers p and keeps a copy for later.
ReceiveCopy(p) ==
  /\ dups < MAX_DUP
  /\ kcp_parse_packet(p, net)
  /\ dups' = dups + 1 /\ UNCHANGED <<losses, events>>

Lose(p) ==
  /\ losses < MAX_LOSS
  /\ losses' = losses + 1
  /\ net' = net \ {p}
  /\ UNCHANGED <<conn, tree, log, dups, events>>

ReceiveAny == \E p \in net : Receive(p)

Timeouts(o) ==
  \/ o = CLIENT /\ kcp_connect_timeout
  \/ o # CLIENT /\ kcp_accept_timeout(o)
  \/ kcp_close_timeout(o)
  \/ on_fin_packet_timeout_cb(o)

Next ==
  \/ \E a \in PATHS : kcp_connect_candidates(a)
  \/ \E o \in Ids : kcp_close(o) \/ kcp_shutdown(o) \/ Timeouts(o) \/ FlushSends(o) \/ GivesUp(o)
  \/ ReceiveAny
  \/ \E p \in net : ReceiveCopy(p)
  \/ \E p \in net : Lose(p)

Spec == Init /\ [][Next]_vars

\* The event loop serves the socket and every armed timer.
Fairness == WF_vars(ReceiveAny) /\ \A o \in Ids : WF_vars(Timeouts(o))

FairSpec == Spec /\ Fairness

----------------------------------------------------------------------------
\* Properties

Callbacks == {"connected", "accepted", "closed", "error"}

Connection ==
  [state : States, dcid : Ids \cup {NONE}, remote_host : PATHS \cup {NONE},
   packet_sn : {NONE} \cup ({CLIENT} \X (1 .. RETRIES + 1)),
   syn_retries : 0..RETRIES, fin_retries : 0..RETRIES, syn_timer : BOOLEAN, fin_timer : BOOLEAN,
   syns : 0 .. RETRIES + 1, fins : Seq({NONE} \cup (Ids \X Nat)), freed : 0..2]

\* The types of the variables; a timer runs only in the state its callback
\* expects (on_fin_packet_timeout_cb asserts FIN_RECEIVED).
TypeOK ==
  /\ conn \in [Ids -> Connection] /\ tree \in OBJECTS \cup {NONE}
  /\ \A o \in Ids : /\ conn[o].syn_timer => conn[o].state \in {"SYN_SENT", "SYN_RECEIVED"}
                    /\ conn[o].fin_timer => conn[o].state \in {"FIN_SENT", "FIN_RECEIVED"}
  /\ \A o \in Ids : \A i \in DOMAIN log[o] : log[o][i][1] \in Callbacks
  /\ losses \in Nat /\ dups \in Nat /\ events \in Nat

Calls(o, cb) == {i \in DOMAIN log[o] : log[o][i][1] = cb}
Reported(o, cb, code) == \E i \in DOMAIN log[o] : log[o][i] = <<cb, code>>

\* "The success callback fires once, the failure callback fires once": every
\* connection reports the outcome of its handshake at most once, on_closed at
\* most once, and nothing after on_closed, however SYN, FIN and RST cross.
OneOutcome ==
  \A o \in Ids :
    /\ Cardinality(Calls(o, "connected") \cup Calls(o, "accepted")) <= 1
    /\ \A i \in Calls(o, "closed") : i = Len(log[o])

\* on_accepted reports success only for a connection the client knows of: the
\* client reported success before, so no half-open connection is handed out.
AcceptedIsConnected ==
  \A o \in OBJECTS : Reported(o, "accepted", "NO_ERROR") => Reported(CLIENT, "connected", "NO_ERROR")

\* However many candidates answer and in whatever order, an established client
\* talks to its peer object over the path that object accepts packets from
\* (on_kcp_read_event ignores every other remote host at both ends).
PathsAgree ==
  \A o \in OBJECTS :
    conn[CLIENT].state \in {"CONNECTED", "FIN_SENT", "FIN_RECEIVED"} /\ conn[CLIENT].dcid = o /\ Alive(o)
    => conn[o].remote_host = conn[CLIENT].remote_host

\* A FIN exchange closes both ends: when one end reports a graceful close, an
\* end at the other side has answered or completed the exchange.
GracefulIsMutual ==
  \A o \in Ids : Reported(o, "closed", "NO_ERROR") =>
    \E x \in IF o = CLIENT THEN OBJECTS ELSE {CLIENT} : conn[x].state \in {"FIN_RECEIVED", "FREED"}

\* A connection request at the server and a FIN answered by either end come to
\* an end, whatever is lost: kcp_accept_timeout and on_fin_packet_timeout_cb
\* run out of retries.
PassiveSideEnds ==
  \A o \in Ids : /\ conn[o].state = "SYN_RECEIVED" ~> conn[o].state # "SYN_RECEIVED"
                 /\ conn[o].state = "FIN_RECEIVED" ~> conn[o].state # "FIN_RECEIVED"

\* The attempt ends, with the connection or with one of the failures
\* on_connected reports ("超时重传时继续向所有候选发送 SYN").
AttemptEnds == conn[CLIENT].state = "SYN_SENT" ~> conn[CLIENT].state # "SYN_SENT"
----------------------------------------------------------------------------
\* The inductive invariant of the proofs

Commands == {"SYN", "ACK", "PUSH", "PING", "FIN", "RST"}
Codes == {"NO_ERROR", "TIMED_OUT", "CONNECTION_REFUSED", "CONNECTION_RESET", "LOCAL",
          "WRITE_ERROR", "GIVEN_UP"}
Sns == {NONE} \cup (Ids \X Nat)

PacketType ==
  [to : {"client", "server"}, path : PATHS \cup {NONE}, cmd : Commands,
   scid : Ids \cup {NONE}, dcid : Ids \cup {NONE}, sn : Sns, rand : Sns]

Typed ==
  /\ conn \in [Ids -> Connection] /\ tree \in OBJECTS \cup {NONE}
  /\ log \in [Ids -> Seq(Callbacks \X Codes)]
  /\ net \subseteq PacketType
  /\ losses \in Nat /\ dups \in Nat /\ events \in Nat

\* What holds of an object o in state c whatever the others do.
ObjectOK(o, c) ==
  /\ c.syn_timer => c.state \in {"SYN_SENT", "SYN_RECEIVED"}
  /\ c.fin_timer => c.state \in {"FIN_SENT", "FIN_RECEIVED"}
  /\ c.syns + c.syn_retries <= RETRIES + 1
  /\ c.state = "NONE" => c.syns = 0
  /\ c.state \in {"NONE", "SYN_SENT"} => c.dcid = NONE
  /\ c.state # "FREED" => c.freed = 0
  /\ c.state = "SYN_SENT" => o = CLIENT
  /\ c.state = "SYN_RECEIVED" => o # CLIENT
  /\ c.state = "FIN_RECEIVED" => Len(c.fins) > 0

IsOutcome(call) == call[1] \in {"connected", "accepted"}

\* What the callbacks l say of an object in a state: one outcome at most, none
\* before the handshake is over, and on_closed last.
LogOK(l, state) ==
  /\ \A i, j \in DOMAIN l : IsOutcome(l[i]) /\ IsOutcome(l[j]) => i = j
  /\ state \in {"NONE", "SYN_SENT", "SYN_RECEIVED"} => \A i \in DOMAIN l : ~IsOutcome(l[i])
  /\ \A i \in DOMAIN l : l[i][1] = "closed" => i = Len(l) /\ state = "FREED"

\* An end that got as far as CONNECTED and is not released.
Established == {"CONNECTED", "FIN_SENT", "FIN_RECEIVED", "DISCONNECTED"}

ClientTold == Reported(CLIENT, "connected", "NO_ERROR")

\* What a packet under way says of the object that sent it.
PacketOK(p) ==
  /\ p.scid # NONE => (p.scid = CLIENT <=> p.to = "server")
  /\ p.cmd \in {"SYN", "FIN", "ACK"} => p.scid # NONE
  /\ p.scid # NONE => conn[p.scid].state # "NONE"
  /\ p.cmd = "SYN" /\ p.to = "server" => p.rand \in {CLIENT} \X (1 .. RETRIES + 1)
  /\ p.cmd = "SYN" /\ p.to = "client" /\ Alive(p.scid) => conn[p.scid].remote_host = p.path
  /\ p.cmd = "FIN" => p.rand \in Ids \X Nat
  /\ p.cmd \in {"ACK", "PUSH"} /\ p.to = "server" => ClientTold
  /\ p.cmd = "FIN" /\ p.sn # NONE => conn[p.scid].state \in {"FIN_RECEIVED", "FREED"}
  /\ p.cmd = "ACK" /\ p.sn # NONE => conn[p.scid].state = "FREED"

\* The object the client takes for its peer, and the one in the server's tree.
PeerOK ==
  conn[CLIENT].dcid \in OBJECTS =>
    LET x == conn[CLIENT].dcid
    IN  conn[x].state # "NONE" /\ (Alive(x) => conn[x].remote_host = conn[CLIENT].remote_host)

TreeOK == tree # NONE => Alive(tree)

Inv ==
  /\ Typed
  /\ \A o \in Ids : ObjectOK(o, conn[o]) /\ LogOK(log[o], conn[o].state)
  /\ \A p \in net : PacketOK(p)
  /\ conn[CLIENT].state \in Established => ClientTold
  /\ PeerOK /\ TreeOK
  /\ AcceptedIsConnected /\ GracefulIsMutual
=============================================================================
