--------------------------- MODULE KcpConn_proofs ---------------------------
(***************************************************************************)
(* Proofs about KcpConn, for every number of paths, server objects,        *)
(* retries and events.  Inv is inductive.  Almost every action updates one *)
(* object and adds packets of that object, so one lemma (ObjectStep) says  *)
(* what such an update has to respect, two more specialise it to objects   *)
(* that are released and objects that live on, and the actions follow.     *)
(***************************************************************************)
EXTENDS KcpConn, TLAPS, FiniteSetTheorems

Call == Callbacks \X Codes
Early == {"NONE", "SYN_SENT", "SYN_RECEIVED"}
Other(o) == IF o = CLIENT THEN OBJECTS ELSE {CLIENT}

\* The fields of a connection object.
LEMMA ConnectionFields ==
  ASSUME NEW c \in Connection
  PROVE  /\ c.state \in States /\ c.dcid \in Ids \cup {NONE} /\ c.remote_host \in PATHS \cup {NONE}
         /\ c.packet_sn \in {NONE} \cup ({CLIENT} \X (1 .. RETRIES + 1))
         /\ c.syn_retries \in 0..RETRIES /\ c.fin_retries \in 0..RETRIES
         /\ c.syn_timer \in BOOLEAN /\ c.fin_timer \in BOOLEAN
         /\ c.syns \in 0 .. RETRIES + 1 /\ c.fins \in Seq(Sns) /\ c.freed \in 0..2
BY DEF Connection, Sns

\* The object kcp_connection_init makes.
LEMMA InitialConnection ==
  kcp_connection_init \in Connection
<1>1. <<>> \in Seq({NONE} \cup (Ids \X Nat))
  OBVIOUS
<1>2. QED
  BY <1>1, ConnAssumption DEF kcp_connection_init, Connection, States, Ids

\* A packet of an object: its type and its fields.
LEMMA PacketFacts ==
  ASSUME NEW o \in Ids, NEW c \in Connection, NEW cmd \in Commands, NEW sn \in Sns, NEW rand \in Sns
  PROVE  LET p == Packet(o, c, cmd, sn, rand)
         IN  /\ p \in PacketType
             /\ p.to = (IF o = CLIENT THEN "server" ELSE "client")
             /\ p.path = c.remote_host /\ p.cmd = cmd /\ p.scid = o /\ p.dcid = c.dcid
             /\ p.sn = sn /\ p.rand = rand
<1>1. c.dcid \in Ids \cup {NONE} /\ c.remote_host \in PATHS \cup {NONE}
  BY ConnectionFields
<1>2. QED
  BY <1>1 DEF Packet, PacketType

\* The RST of a context without a connection says nothing of any object.
LEMMA RstFacts ==
  ASSUME NEW p \in PacketType
  PROVE  /\ RstReply(p) \in PacketType /\ RstReply(p).cmd = "RST" /\ RstReply(p).scid = NONE
         /\ PacketOK(RstReply(p)) /\ PacketOK(RstReply(p))'
<1>1. RstReply(p) \in PacketType /\ RstReply(p).cmd = "RST" /\ RstReply(p).scid = NONE
  BY DEF RstReply, PacketType, Commands, Sns
<1> DEFINE q == RstReply(p)
<1>2. q.cmd = "RST" /\ q.scid = NONE
  BY <1>1
<1> HIDE DEF q
<1>3. PacketOK(q) /\ PacketOK(q)'
  BY <1>2 DEF PacketOK
<1>4. QED
  BY <1>1, <1>3 DEF q

\* Callbacks are only ever appended: nothing that was reported is taken back.
LEMMA Appended ==
  ASSUME NEW l \in Seq(Call), NEW calls \in Seq(Call)
  PROVE  /\ l \o calls \in Seq(Call) /\ Len(l \o calls) = Len(l) + Len(calls)
         /\ Len(l) \in Nat /\ Len(calls) \in Nat
         /\ DOMAIN l = 1..Len(l) /\ DOMAIN (l \o calls) = 1..(Len(l) + Len(calls))
         /\ DOMAIN calls = 1..Len(calls)
         /\ \A i \in 1..Len(l) : (l \o calls)[i] = l[i]
         /\ \A i \in 1..Len(calls) : (l \o calls)[Len(l) + i] = calls[i]
OBVIOUS

\* A step that makes no callback keeps the log in order.
LEMMA LogNone ==
  ASSUME NEW l \in Seq(Call), NEW s, NEW t, LogOK(l, s), s # "FREED", t \in Early => s \in Early
  PROVE  l \o <<>> = l /\ LogOK(l \o <<>>, t)
BY DEF LogOK, Early

\* A step that makes one: an outcome only where there was none, on_closed only
\* at the end.
LEMMA LogOne ==
  ASSUME NEW l \in Seq(Call), NEW e \in Call, NEW s, NEW t, LogOK(l, s), s # "FREED",
         IsOutcome(e) => s \in Early /\ t \notin Early,
         t \in Early => s \in Early,
         e[1] = "closed" => t = "FREED"
  PROVE  LogOK(l \o <<e>>, t)
<1> DEFINE m == l \o <<e>>
<1>1. /\ Len(l) \in Nat /\ Len(m) = Len(l) + 1 /\ DOMAIN m = 1..(Len(l) + 1) /\ DOMAIN l = 1..Len(l)
      /\ \A i \in 1..Len(l) : m[i] = l[i]
      /\ m[Len(l) + 1] = e
  OBVIOUS
<1> HIDE DEF m
<1>2. \A i \in 1..Len(l) : l[i][1] # "closed"
  BY <1>1 DEF LogOK
<1>3. ASSUME NEW i \in DOMAIN m PROVE i \in 1..Len(l) \/ i = Len(l) + 1
  BY <1>1
<1>4. s \in Early => \A i \in 1..Len(l) : ~IsOutcome(l[i])
  BY <1>1 DEF LogOK, Early
<1>5. ASSUME NEW i \in DOMAIN m, NEW j \in DOMAIN m, IsOutcome(m[i]), IsOutcome(m[j]) PROVE i = j
  BY <1>1, <1>3, <1>4, <1>5 DEF LogOK
<1>6. t \in Early => \A i \in DOMAIN m : ~IsOutcome(m[i])
  BY <1>1, <1>3, <1>4
<1>7. \A i \in DOMAIN m : m[i][1] = "closed" => i = Len(m) /\ t = "FREED"
  BY <1>1, <1>2, <1>3
<1>8. LogOK(m, t)
  BY <1>5, <1>6, <1>7 DEF LogOK, Early
<1>9. QED
  BY <1>8 DEF m

\* How an object may change: it is not touched after its release, does not go
\* back to NONE, leaves FIN_RECEIVED only by its release, and at the server
\* keeps the path it was made for.
Evolves(o, c) ==
  /\ conn[o].state # "FREED" /\ c.state # "NONE"
  /\ conn[o].state = "FIN_RECEIVED" => c.state \in {"FIN_RECEIVED", "FREED"}
  /\ o # CLIENT /\ conn[o].state # "NONE" /\ c.state # "FREED" => c.remote_host = conn[o].remote_host

\* The peer a client in state c believes in exists and uses the same path.
PeerFits(c) ==
  c.dcid \in OBJECTS => /\ conn[c.dcid].state # "NONE"
                        /\ Alive(c.dcid) => conn[c.dcid].remote_host = c.remote_host

\* Success is reported where it is true.
CallsTrue(o, calls) ==
  \A i \in DOMAIN calls :
    /\ calls[i] = <<"accepted", "NO_ERROR">> => ClientTold
    /\ calls[i] = <<"closed", "NO_ERROR">> =>
         \E x \in Other(o) : conn[x].state \in {"FIN_RECEIVED", "FREED"}

\* What an update of object o to c with some callbacks has to respect.
StepOK(o, c, calls) ==
  /\ ObjectOK(o, c) /\ LogOK(log[o] \o calls, c.state) /\ Evolves(o, c)
  /\ o = CLIENT => PeerFits(c)
  /\ o = CLIENT /\ c.state \in Established =>
       ClientTold \/ \E i \in DOMAIN calls : calls[i] = <<"connected", "NO_ERROR">>
  /\ CallsTrue(o, calls)

\* What it has to respect in the network and in the server's tree.
NetOK == net' \subseteq PacketType /\ \A p \in net' : p \in net \/ PacketOK(p)'
TreeStep == tree' \in OBJECTS \cup {NONE} /\ TreeOK'
Counters == losses' \in Nat /\ dups' \in Nat /\ events' \in Nat

\* What an update of one object leaves as it was.
LEMMA UpdateFacts ==
  ASSUME Inv, NEW o \in Ids, NEW c \in Connection, NEW calls \in Seq(Call), Update(o, c, calls)
  PROVE  /\ conn' \in [Ids -> Connection] /\ conn'[o] = c
         /\ \A x \in Ids : x # o => conn'[x] = conn[x] /\ log'[x] = log[x]
         /\ log' \in [Ids -> Seq(Call)] /\ log'[o] = log[o] \o calls
         /\ log[o] \in Seq(Call) /\ conn[o] \in Connection
<1>1. conn \in [Ids -> Connection] /\ log \in [Ids -> Seq(Call)]
  BY DEF Inv, Typed, Call
<1>2. log[o] \in Seq(Call) /\ log[o] \o calls \in Seq(Call)
  BY <1>1, Appended
<1>3. QED
  BY <1>1, <1>2 DEF Update

\* What was reported stays reported, and what is reported new is in calls.
LEMMA ReportedStep ==
  ASSUME Inv, NEW o \in Ids, NEW c \in Connection, NEW calls \in Seq(Call), Update(o, c, calls),
         NEW x \in Ids, NEW cb, NEW code
  PROVE  /\ Reported(x, cb, code) => Reported(x, cb, code)'
         /\ Reported(x, cb, code)' =>
              Reported(x, cb, code) \/ (x = o /\ \E i \in DOMAIN calls : calls[i] = <<cb, code>>)
         /\ x = o /\ (\E i \in DOMAIN calls : calls[i] = <<cb, code>>) => Reported(x, cb, code)'
<1>1. CASE x # o
  BY <1>1, UpdateFacts DEF Reported
<1>2. CASE x = o
  <2> DEFINE l == log[o]
             m == log[o] \o calls
  <2>1. l \in Seq(Call) /\ log'[o] = m
    BY UpdateFacts
  <2>2. /\ Len(l) \in Nat /\ Len(calls) \in Nat
        /\ DOMAIN l = 1..Len(l) /\ DOMAIN m = 1..(Len(l) + Len(calls)) /\ DOMAIN calls = 1..Len(calls)
        /\ \A i \in 1..Len(l) : m[i] = l[i]
        /\ \A i \in 1..Len(calls) : m[Len(l) + i] = calls[i]
    BY <2>1, Appended
  <2> HIDE DEF l, m
  <2>3. \A i \in DOMAIN m : i \in DOMAIN l \/ (i - Len(l) \in DOMAIN calls /\ m[i] = calls[i - Len(l)])
    <3> TAKE i \in DOMAIN m
    <3>1. CASE i \in 1..Len(l)
      BY <2>2, <3>1
    <3>2. CASE i \notin 1..Len(l)
      <4>1. i - Len(l) \in 1..Len(calls) /\ i = Len(l) + (i - Len(l))
        BY <2>2, <3>2
      <4>2. QED
        BY <2>2, <4>1
    <3>3. QED
      BY <3>1, <3>2
  <2>4. \A i \in DOMAIN calls : Len(l) + i \in DOMAIN m
    BY <2>2
  <2>5. \A i \in DOMAIN l : i \in DOMAIN m /\ m[i] = l[i]
    BY <2>2
  <2>6. (\E i \in DOMAIN l : l[i] = <<cb, code>>) => \E i \in DOMAIN m : m[i] = <<cb, code>>
    BY <2>5
  <2>7. (\E i \in DOMAIN m : m[i] = <<cb, code>>) =>
          (\E i \in DOMAIN l : l[i] = <<cb, code>>) \/ \E i \in DOMAIN calls : calls[i] = <<cb, code>>
    BY <2>3, <2>5
  <2>8. (\E i \in DOMAIN calls : calls[i] = <<cb, code>>) => \E i \in DOMAIN m : m[i] = <<cb, code>>
    BY <2>2, <2>4
  <2>9. QED
    BY <1>2, <2>1, <2>6, <2>7, <2>8 DEF Reported, l, m
<1>3. QED
  BY <1>1, <1>2

\* A packet under way still tells the truth about its sender when an object is
\* updated: the facts it carries are about what never changes back.
LEMMA PacketKept ==
  ASSUME Inv, NEW o \in Ids, NEW c \in Connection, NEW calls \in Seq(Call), Update(o, c, calls),
         Evolves(o, c), NEW p \in PacketType, PacketOK(p)
  PROVE  PacketOK(p)'
<1>1. /\ conn'[o] = c
      /\ \A x \in Ids : x # o => conn'[x] = conn[x]
  BY UpdateFacts
<1>2. ClientTold => ClientTold'
  BY ReportedStep DEF ClientTold, Ids
<1>3. p.scid \in Ids \cup {NONE}
  BY DEF PacketType
<1>4. CASE p.scid = NONE
  BY <1>2, <1>4 DEF PacketOK
<1>5. CASE p.scid \in Ids /\ p.scid # o
  <2>1. conn'[p.scid] = conn[p.scid]
    BY <1>1, <1>5
  <2>2. Alive(p.scid)' <=> Alive(p.scid)
    BY <2>1 DEF Alive
  <2>3. QED
    BY <1>2, <2>1, <2>2 DEF PacketOK
<1>6. CASE p.scid = o /\ p.scid # NONE
  <2>1. conn'[p.scid] = c /\ conn[p.scid].state \notin {"NONE", "FREED"} /\ c.state # "NONE"
    BY <1>1, <1>6 DEF PacketOK, Evolves
  <2>2. Alive(p.scid) /\ (Alive(p.scid)' => c.state # "FREED")
    BY <1>6, <2>1 DEF Alive
  <2>3. o # CLIENT /\ c.state # "FREED" => c.remote_host = conn[o].remote_host
    BY <1>6, <2>1 DEF Evolves
  <2>4. p.cmd = "SYN" /\ p.to = "client" /\ Alive(p.scid)' => c.remote_host = p.path
    BY <1>6, <2>2, <2>3 DEF PacketOK
  <2>5. p.cmd = "FIN" /\ p.sn # NONE => c.state \in {"FIN_RECEIVED", "FREED"}
    BY <1>6, <2>1 DEF PacketOK, Evolves
  <2>6. p.cmd = "ACK" /\ p.sn # NONE => c.state = "FREED"
    BY <1>6, <2>1 DEF PacketOK
  <2>7. QED
    BY <1>2, <2>1, <2>4, <2>5, <2>6 DEF PacketOK
<1>7. QED
  BY <1>3, <1>4, <1>5, <1>6

\* An update that respects StepOK preserves the invariant.
LEMMA ObjectStep ==
  ASSUME Inv, NEW o \in Ids, NEW c \in Connection, NEW calls \in Seq(Call), Update(o, c, calls),
         StepOK(o, c, calls), NetOK, TreeStep, Counters
  PROVE  Inv'
<1>1. /\ conn' \in [Ids -> Connection] /\ conn'[o] = c
      /\ \A x \in Ids : x # o => conn'[x] = conn[x] /\ log'[x] = log[x]
      /\ log' \in [Ids -> Seq(Call)] /\ log'[o] = log[o] \o calls
  BY UpdateFacts
<1>2. ObjectOK(o, c) /\ LogOK(log[o] \o calls, c.state) /\ Evolves(o, c)
  BY DEF StepOK
<1>3. Typed'
  BY <1>1 DEF Typed, Call, NetOK, TreeStep, Counters
<1>4. \A x \in Ids : ObjectOK(x, conn[x])' /\ LogOK(log[x], conn[x].state)'
  <2> TAKE x \in Ids
  <2>1. CASE x = o
    BY <1>1, <1>2, <2>1 DEF ObjectOK, LogOK
  <2>2. CASE x # o
    <3>1. conn'[x] = conn[x] /\ log'[x] = log[x] /\ ObjectOK(x, conn[x]) /\ LogOK(log[x], conn[x].state)
      BY <1>1, <2>2 DEF Inv
    <3>2. QED
      BY <3>1 DEF ObjectOK, LogOK
  <2>3. QED
    BY <2>1, <2>2
<1>5. \A p \in net' : PacketOK(p)'
  <2> SUFFICES ASSUME NEW p \in net', p \in net PROVE PacketOK(p)'
    BY DEF NetOK
  <2>1. p \in PacketType /\ PacketOK(p)
    BY DEF Inv, Typed
  <2>2. QED
    BY <1>2, <2>1, PacketKept
<1>6. CLIENT \in Ids /\ (ClientTold => ClientTold')
  BY ReportedStep DEF ClientTold, Ids
<1>7. conn'[CLIENT].state \in Established => ClientTold'
  <2>1. CASE o = CLIENT
    <3>1. conn'[CLIENT] = c
      BY <1>1, <2>1
    <3>2. (\E i \in DOMAIN calls : calls[i] = <<"connected", "NO_ERROR">>) => ClientTold'
      BY <1>6, <2>1, ReportedStep DEF ClientTold
    <3>3. QED
      BY <1>6, <2>1, <3>1, <3>2 DEF StepOK
  <2>2. CASE o # CLIENT
    BY <1>1, <1>6, <2>2 DEF Inv
  <2>3. QED
    BY <2>1, <2>2
<1>8. PeerOK'
  <2> SUFFICES ASSUME NEW d \in OBJECTS, d = conn'[CLIENT].dcid
               PROVE  conn'[d].state # "NONE" /\ (Alive(d)' => conn'[d].remote_host = conn'[CLIENT].remote_host)
    BY DEF PeerOK
  <2>1. d \in Ids /\ d # CLIENT
    BY ConnAssumption DEF Ids
  <2>2. CASE o = CLIENT
    <3>1. conn'[CLIENT] = c /\ conn'[d] = conn[d] /\ PeerFits(c) /\ d = c.dcid
      BY <1>1, <2>1, <2>2 DEF StepOK
    <3>2. Alive(d)' <=> Alive(d)
      BY <3>1 DEF Alive
    <3>3. QED
      BY <3>1, <3>2 DEF PeerFits
  <2>3. CASE o # CLIENT /\ o # d
    <3>1. conn'[CLIENT] = conn[CLIENT] /\ conn'[d] = conn[d]
      BY <1>1, <1>6, <2>1, <2>3
    <3>2. Alive(d)' <=> Alive(d)
      BY <3>1 DEF Alive
    <3>3. QED
      BY <3>1, <3>2 DEF Inv, PeerOK
  <2>4. CASE o = d
    <3>1. conn'[CLIENT] = conn[CLIENT] /\ conn'[d] = c /\ d = conn[CLIENT].dcid
      BY <1>1, <1>6, <2>1, <2>4
    <3>2. conn[d].state # "NONE" /\ (Alive(d) => conn[d].remote_host = conn[CLIENT].remote_host)
      BY <3>1 DEF Inv, PeerOK
    <3>3. Alive(d)
      BY <1>2, <2>1, <2>4, <3>2 DEF Evolves, Alive
    <3>4. Alive(d)' => c.remote_host = conn[d].remote_host
      BY <1>2, <2>1, <2>4, <3>1, <3>2 DEF Evolves, Alive
    <3>5. c.state # "NONE"
      BY <1>2 DEF Evolves
    <3>6. QED
      BY <3>1, <3>2, <3>3, <3>4, <3>5
  <2>5. QED
    BY <2>2, <2>3, <2>4
<1>9. AcceptedIsConnected'
  <2> SUFFICES ASSUME NEW x \in OBJECTS, Reported(x, "accepted", "NO_ERROR")' PROVE ClientTold'
    BY DEF AcceptedIsConnected, ClientTold
  <2>1. x \in Ids
    BY DEF Ids
  <2>2. CASE Reported(x, "accepted", "NO_ERROR")
    BY <1>6, <2>2 DEF Inv, AcceptedIsConnected, ClientTold
  <2>3. CASE \E i \in DOMAIN calls : calls[i] = <<"accepted", "NO_ERROR">>
    BY <1>6, <2>3 DEF StepOK, CallsTrue
  <2>4. QED
    BY <2>1, <2>2, <2>3, ReportedStep
<1>10. GracefulIsMutual'
  <2> SUFFICES ASSUME NEW x \in Ids, Reported(x, "closed", "NO_ERROR")'
               PROVE  \E y \in Other(x) : conn'[y].state \in {"FIN_RECEIVED", "FREED"}
    BY DEF GracefulIsMutual, Other
  <2>1. \A y \in Ids : conn[y].state \in {"FIN_RECEIVED", "FREED"} => conn'[y].state \in {"FIN_RECEIVED", "FREED"}
    BY <1>1, <1>2 DEF Evolves
  <2>2. Other(x) \subseteq Ids
    BY DEF Other, Ids
  <2>3. CASE Reported(x, "closed", "NO_ERROR")
    BY <2>1, <2>2, <2>3 DEF Inv, GracefulIsMutual, Other
  <2>4. CASE x = o /\ \E i \in DOMAIN calls : calls[i] = <<"closed", "NO_ERROR">>
    BY <2>1, <2>2, <2>4 DEF StepOK, CallsTrue
  <2>5. QED
    BY <2>3, <2>4, ReportedStep
<1>11. TreeOK'
  BY DEF TreeStep
<1>12. QED
  BY <1>3, <1>4, <1>5, <1>7, <1>8, <1>9, <1>10, <1>11 DEF Inv

\* A step that updates no object: the network changes, or the tree is emptied.
LEMMA IdleStep ==
  ASSUME Inv, UNCHANGED <<conn, log>>, tree' \in {tree, NONE}, NetOK, Counters
  PROVE  Inv'
<1>1. \A x : Alive(x)' <=> Alive(x)
  BY DEF Alive
<1>2. \A x, cb, code : Reported(x, cb, code)' <=> Reported(x, cb, code)
  BY DEF Reported
<1>3. Typed'
  BY DEF Inv, Typed, NetOK, Counters
<1>4. \A x \in Ids : ObjectOK(x, conn[x])' /\ LogOK(log[x], conn[x].state)'
  BY DEF Inv, ObjectOK, LogOK
<1>5. \A p \in net' : PacketOK(p)'
  <2> SUFFICES ASSUME NEW p \in net', PacketOK(p) PROVE PacketOK(p)'
    BY DEF NetOK, Inv
  <2>1. (ClientTold' <=> ClientTold) /\ (Alive(p.scid)' <=> Alive(p.scid))
    BY <1>1, <1>2 DEF ClientTold
  <2>2. QED
    BY <2>1 DEF PacketOK
<1>6. conn'[CLIENT].state \in Established => ClientTold'
  BY <1>2 DEF Inv, ClientTold
<1>7. PeerOK' /\ TreeOK'
  BY <1>1 DEF Inv, PeerOK, TreeOK
<1>8. AcceptedIsConnected' /\ GracefulIsMutual'
  BY <1>2 DEF Inv, AcceptedIsConnected, GracefulIsMutual
<1>9. QED
  BY <1>3, <1>4, <1>5, <1>6, <1>7, <1>8 DEF Inv

\* One callback at most, an outcome only in the handshake.
CallsFit(o, calls) ==
  \/ calls = <<>>
  \/ \E e \in Call : calls = <<e>> /\ (IsOutcome(e) => conn[o].state \in Early)

\* A released object, as kcp_connection_destroy leaves it.
Freed(k) == [kcp_connection_init EXCEPT !.state = "FREED", !.freed = k]

\* Its fields are those of a fresh object.
LEMMA FreedFacts ==
  ASSUME NEW k \in 1..2
  PROVE  /\ Freed(k) \in Connection /\ Freed(k).state = "FREED" /\ Freed(k).dcid = NONE
         /\ Freed(k).syns = 0 /\ Freed(k).syn_retries = RETRIES
         /\ ~Freed(k).syn_timer /\ ~Freed(k).fin_timer
<1>1. PICK d \in Connection : d = kcp_connection_init
  BY InitialConnection
<1>2. d.dcid = NONE /\ d.syns = 0 /\ d.syn_retries = RETRIES /\ d.syn_timer = FALSE /\ d.fin_timer = FALSE
  BY <1>1 DEF kcp_connection_init
<1>3. Freed(k) = [d EXCEPT !.state = "FREED", !.freed = k]
  BY <1>1 DEF Freed
<1> DEFINE e == [d EXCEPT !.state = "FREED", !.freed = k]
<1>4. e \in Connection
  <2>1. k \in 0..2 /\ "FREED" \in States
    BY DEF States
  <2>2. QED
    BY <2>1 DEF Connection
<1>5. e.state = "FREED" /\ e.dcid = d.dcid /\ e.syns = d.syns /\ e.syn_retries = d.syn_retries
  BY DEF Connection
<1>6. e.syn_timer = d.syn_timer /\ e.fin_timer = d.fin_timer
  BY DEF Connection
<1> HIDE DEF e
<1>7. Freed(k) = e
  BY <1>3 DEF e
<1>8. QED
  BY <1>2, <1>4, <1>5, <1>6, <1>7

\* The callbacks of a step are a sequence of callbacks.
LEMMA CallsFacts ==
  ASSUME NEW o, NEW calls, CallsFit(o, calls)
  PROVE  calls \in Seq(Call)
<1>1. CASE calls = <<>>
  BY <1>1
<1>2. ASSUME NEW e \in Call, calls = <<e>> PROVE calls \in Seq(Call)
  BY <1>2
<1>3. QED
  BY <1>1, <1>2 DEF CallsFit

\* The release of an object is an update that respects StepOK.
LEMMA ReleaseStep ==
  ASSUME Inv, NEW o \in Ids, conn[o].state \notin {"NONE", "FREED"}, NEW k \in 1..2, NEW calls,
         Update(o, Freed(k), calls), tree' = IF o = CLIENT THEN tree ELSE NONE,
         CallsFit(o, calls), CallsTrue(o, calls), NetOK, Counters
  PROVE  Inv'
<1> DEFINE c == Freed(k)
<1>1. /\ c \in Connection /\ c.state = "FREED" /\ c.dcid = NONE /\ c.syns = 0
      /\ c.syn_retries = RETRIES /\ ~c.syn_timer /\ ~c.fin_timer
  BY FreedFacts
<1> HIDE DEF c
<1>2. calls \in Seq(Call)
  BY CallsFacts
<1>3. log[o] \in Seq(Call) /\ LogOK(log[o], conn[o].state)
  BY DEF Inv, Typed, Call
<1>4. LogOK(log[o] \o calls, "FREED")
  <2>1. CASE calls = <<>>
    BY <1>3, <2>1, LogNone DEF Early
  <2>2. ASSUME NEW e \in Call, calls = <<e>>, IsOutcome(e) => conn[o].state \in Early
        PROVE  LogOK(log[o] \o calls, "FREED")
    BY <1>3, <2>2, LogOne DEF Early
  <2>3. QED
    BY <2>1, <2>2 DEF CallsFit
<1>5. ObjectOK(o, c)
  BY <1>1, ConnAssumption DEF ObjectOK
<1>6. Evolves(o, c) /\ PeerFits(c) /\ c.state \notin Established
  BY <1>1, ConnAssumption DEF Evolves, PeerFits, Established
<1>7. StepOK(o, c, calls)
  BY <1>1, <1>4, <1>5, <1>6 DEF StepOK
<1>8. Update(o, c, calls)
  BY DEF c
<1>9. TreeStep
  <2>1. CASE o = CLIENT
    <3>1. tree' = tree /\ tree \in OBJECTS \cup {NONE}
      BY <2>1 DEF Inv, Typed
    <3>2. tree \in OBJECTS => conn'[tree] = conn[tree] /\ Alive(tree)
      BY <1>1, <1>2, <1>8, <2>1, UpdateFacts, ConnAssumption DEF Inv, TreeOK, Ids
    <3>3. QED
      BY <3>1, <3>2 DEF TreeStep, TreeOK, Alive
  <2>2. CASE o # CLIENT
    BY <2>2 DEF TreeStep, TreeOK
  <2>3. QED
    BY <2>1, <2>2
<1>10. QED
  BY <1>1, <1>2, <1>7, <1>8, <1>9, ObjectStep

\* kcp_connection_destroy releases an object that was not released before.
LEMMA DestroyStep ==
  ASSUME Inv, NEW o \in Ids, conn[o].state \notin {"NONE", "FREED"}, NEW calls,
         kcp_connection_destroy(o, calls), CallsFit(o, calls), CallsTrue(o, calls), NetOK, Counters
  PROVE  Inv'
<1>1. conn[o].freed = 0
  BY DEF Inv, ObjectOK
<1>2. Update(o, Freed(1), calls) /\ tree' = IF o = CLIENT THEN tree ELSE NONE
  BY <1>1 DEF kcp_connection_destroy, Freed
<1>3. QED
  BY <1>2, ReleaseStep

\* An object that lives on, in the tree or not, and callbacks other than
\* on_closed.
LEMMA LiveStep ==
  ASSUME Inv, NEW o \in Ids, NEW c \in Connection, c.state \notin {"NONE", "FREED"}, NEW calls,
         Update(o, c, calls), ObjectOK(o, c), Evolves(o, c), o = CLIENT => PeerFits(c),
         o = CLIENT /\ c.state \in Established =>
           ClientTold \/ \E i \in DOMAIN calls : calls[i] = <<"connected", "NO_ERROR">>,
         CallsFit(o, calls), CallsTrue(o, calls),
         c.state \in Early => conn[o].state \in Early /\ calls = <<>>,
         \A i \in DOMAIN calls : calls[i][1] # "closed",
         tree' = tree \/ (tree' = o /\ o # CLIENT), NetOK, Counters
  PROVE  Inv'
<1>1. calls \in Seq(Call)
  BY CallsFacts
<1>2. log[o] \in Seq(Call) /\ LogOK(log[o], conn[o].state) /\ conn[o].state # "FREED"
  BY DEF Inv, Typed, Call, Evolves
<1>3. LogOK(log[o] \o calls, c.state)
  <2>1. CASE calls = <<>>
    BY <1>2, <2>1, LogNone
  <2>2. ASSUME NEW e \in Call, calls = <<e>>, IsOutcome(e) => conn[o].state \in Early
        PROVE  LogOK(log[o] \o calls, c.state)
    <3>1. e[1] # "closed" /\ calls # <<>>
      BY <2>2
    <3>2. c.state \notin Early
      BY <3>1
    <3>3. QED
      BY <1>2, <2>2, <3>1, <3>2, LogOne
  <2>3. QED
    BY <2>1, <2>2 DEF CallsFit
<1>4. StepOK(o, c, calls)
  BY <1>3 DEF StepOK
<1>5. TreeStep
  <2>1. conn'[o] = c /\ \A x \in Ids : x # o => conn'[x] = conn[x]
    BY <1>1, UpdateFacts
  <2>2. \A x \in Ids : Alive(x) => Alive(x)'
    BY <2>1 DEF Alive
  <2>3. Alive(o)'
    BY <2>1 DEF Alive
  <2>4. tree \in OBJECTS \cup {NONE} /\ (tree # NONE => Alive(tree)) /\ OBJECTS \subseteq Ids
    BY DEF Inv, Typed, TreeOK, Ids
  <2>5. CASE tree' = tree
    BY <2>2, <2>4, <2>5 DEF TreeStep, TreeOK, Alive
  <2>6. CASE tree' = o /\ o # CLIENT
    BY <2>3, <2>6 DEF TreeStep, TreeOK, Ids, Alive
  <2>7. QED
    BY <2>5, <2>6
<1>6. QED
  BY <1>1, <1>4, <1>5, ObjectStep

\* A new packet of the object just updated.
LEMMA OwnPacket ==
  ASSUME Inv, NEW o \in Ids, NEW c \in Connection, conn'[o] = c, c.state # "NONE",
         NEW b \in Connection, NEW cmd \in Commands, NEW sn \in Sns, NEW rand \in Sns,
         NEW p, p = Packet(o, b, cmd, sn, rand),
         cmd = "SYN" /\ o = CLIENT => rand \in {CLIENT} \X (1 .. RETRIES + 1),
         cmd = "SYN" /\ o # CLIENT => c.remote_host = b.remote_host,
         cmd = "FIN" => rand \in Ids \X Nat,
         cmd \in {"ACK", "PUSH"} /\ o = CLIENT => ClientTold',
         cmd = "FIN" /\ sn # NONE => c.state \in {"FIN_RECEIVED", "FREED"},
         cmd = "ACK" /\ sn # NONE => c.state = "FREED"
  PROVE  p \in PacketType /\ PacketOK(p)'
<1>1. /\ p \in PacketType
      /\ p.to = (IF o = CLIENT THEN "server" ELSE "client")
      /\ p.path = b.remote_host /\ p.cmd = cmd /\ p.scid = o /\ p.dcid = b.dcid
      /\ p.sn = sn /\ p.rand = rand
  BY PacketFacts
<1>2. o # NONE
  BY ConnAssumption DEF Ids
<1>3. QED
  BY <1>1, <1>2 DEF PacketOK

\* What the invariant says of one object.
LEMMA ObjectFacts ==
  ASSUME Inv, NEW o \in Ids
  PROVE  /\ conn[o] \in Connection /\ ObjectOK(o, conn[o])
         /\ conn[o].state \in Established /\ o = CLIENT => ClientTold
         /\ o = CLIENT => PeerFits(conn[o])
BY DEF Inv, Typed, PeerOK, PeerFits

\* The client's peer still fits when neither its id nor the path changes, or
\* when there is none.
LEMMA PeerKept ==
  ASSUME Inv, NEW o \in Ids, NEW c,
         c.dcid = NONE \/ (c.dcid = conn[o].dcid /\ c.remote_host = conn[o].remote_host)
  PROVE  o = CLIENT => PeerFits(c)
<1>1. NONE \notin OBJECTS
  BY ConnAssumption
<1>2. QED
  BY <1>1, ObjectFacts DEF PeerFits

\* No callbacks.
LEMMA NoCalls ==
  ASSUME NEW o
  PROVE  CallsFit(o, <<>>) /\ CallsTrue(o, <<>>) /\ \A i \in DOMAIN <<>> : <<>>[i][1] # "closed"
BY DEF CallsFit, CallsTrue

\* One callback, other than those whose truth depends on the peer.
LEMMA OneCall ==
  ASSUME NEW o, NEW cb \in Callbacks, NEW code \in Codes,
         cb \in {"connected", "accepted"} => conn[o].state \in Early,
         cb = "accepted" /\ code = "NO_ERROR" => ClientTold,
         cb = "closed" /\ code = "NO_ERROR" =>
           \E x \in Other(o) : conn[x].state \in {"FIN_RECEIVED", "FREED"}
  PROVE  LET calls == << <<cb, code>> >>
         IN  /\ CallsFit(o, calls) /\ CallsTrue(o, calls)
             /\ DOMAIN calls = {1} /\ calls[1] = <<cb, code>> /\ calls[1][1] = cb
<1> DEFINE e == <<cb, code>>
           calls == <<e>>
<1>1. e \in Call /\ e[1] = cb /\ e[2] = code
  BY DEF Call
<1>2. DOMAIN calls = {1} /\ calls[1] = e /\ \A i \in DOMAIN calls : calls[i] = e
  OBVIOUS
<1> HIDE DEF e
<1>3. CallsFit(o, calls)
  BY <1>1 DEF CallsFit, IsOutcome
<1> HIDE DEF calls
<1>4. e = <<"accepted", "NO_ERROR">> => cb = "accepted" /\ code = "NO_ERROR"
  BY <1>1
<1>5. e = <<"closed", "NO_ERROR">> => cb = "closed" /\ code = "NO_ERROR"
  BY <1>1
<1>6. CallsTrue(o, calls)
  BY <1>2, <1>4, <1>5 DEF CallsTrue
<1>7. QED
  BY <1>1, <1>2, <1>3, <1>6 DEF calls, e

\* SYNs of the client to every candidate.
LEMMA SynFacts ==
  ASSUME Inv, NEW c \in Connection, NEW n \in 1 .. RETRIES + 1, NEW p \in SynToCandidates(c, n),
         conn'[CLIENT] \in Connection, conn'[CLIENT].state # "NONE"
  PROVE  p \in PacketType /\ PacketOK(p)'
<1>1. PICK a \in PATHS : p = Packet(CLIENT, [c EXCEPT !.remote_host = a], "SYN", NONE, <<CLIENT, n>>)
  BY DEF SynToCandidates
<1>2. [c EXCEPT !.remote_host = a] \in Connection
  BY DEF Connection
<1>3. CLIENT \in Ids /\ "SYN" \in Commands /\ NONE \in Sns
  BY DEF Ids, Commands, Sns
<1>4. <<CLIENT, n>> \in {CLIENT} \X (1 .. RETRIES + 1) /\ <<CLIENT, n>> \in Sns
  BY <1>3, ConnAssumption DEF Sns
<1>5. QED
  BY <1>1, <1>2, <1>3, <1>4, OwnPacket

\* kcp_connect_candidates: the attempt begins.
LEMMA ConnectStep == ASSUME Inv, NEW a \in PATHS, kcp_connect_candidates(a) PROVE Inv'
<1> DEFINE c == [conn[CLIENT] EXCEPT !.state = "SYN_SENT", !.remote_host = a, !.syns = 1, !.syn_timer = TRUE]
<1>1. /\ CLIENT \in Ids /\ conn[CLIENT] \in Connection /\ conn[CLIENT].state = "NONE"
      /\ ObjectOK(CLIENT, conn[CLIENT])
  BY ObjectFacts DEF kcp_connect_candidates, Ids
<1>2. c \in Connection
  <2>1. 1 \in 0 .. RETRIES + 1 /\ "SYN_SENT" \in States
    BY ConnAssumption DEF States
  <2>2. QED
    BY <1>1, <2>1 DEF Connection
<1>3. /\ c.state = "SYN_SENT" /\ c.dcid = conn[CLIENT].dcid /\ c.syns = 1 /\ c.syn_timer = TRUE
      /\ c.syn_retries = conn[CLIENT].syn_retries /\ c.fin_timer = conn[CLIENT].fin_timer
      /\ c.freed = conn[CLIENT].freed
  BY <1>1 DEF Connection
<1>4. /\ Update(CLIENT, c, <<>>) /\ net' = net \cup SynToCandidates(c, 1)
      /\ UNCHANGED <<tree, losses, dups, events>>
  BY DEF kcp_connect_candidates
<1> HIDE DEF c
<1>5. c.syn_retries \in 0..RETRIES
  BY <1>2, ConnectionFields
<1>6. ObjectOK(CLIENT, c) /\ c.dcid = NONE
  BY <1>1, <1>3, <1>5, ConnAssumption DEF ObjectOK
<1>7. Evolves(CLIENT, c) /\ PeerFits(c)
  BY <1>1, <1>3, <1>6, PeerKept DEF Evolves
<1>8. conn'[CLIENT] = c
  BY <1>1, <1>2, <1>4, NoCalls, CallsFacts, UpdateFacts
<1>9. NetOK
  <2>1. 1 \in 1 .. RETRIES + 1
    BY ConnAssumption
  <2>2. \A p \in SynToCandidates(c, 1) : p \in PacketType /\ PacketOK(p)'
    BY <1>2, <1>3, <1>8, <2>1, SynFacts
  <2>3. QED
    BY <1>4, <2>2 DEF NetOK, Inv, Typed
<1>10. Counters
  BY <1>4 DEF Counters, Inv, Typed
<1>11. c.state \notin Established /\ c.state \in Early /\ conn[CLIENT].state \in Early
  BY <1>1, <1>3 DEF Established, Early
<1>12. QED
  BY <1>1, <1>2, <1>3, <1>4, <1>6, <1>7, <1>9, <1>10, <1>11, NoCalls, LiveStep

\* A new packet joins the network.
LEMMA NetAdd ==
  ASSUME Inv, NEW S, net' \subseteq net \cup S, \A p \in S : p \in PacketType /\ PacketOK(p)'
  PROVE  NetOK
BY DEF NetOK, Inv, Typed

\* kcp_connect_timeout: SYNs again, or the attempt ends.
LEMMA ConnectTimeoutStep == ASSUME Inv, kcp_connect_timeout PROVE Inv'
<1> DEFINE b == conn[CLIENT]
           n == b.syns + 1
           c == [b EXCEPT !.syn_retries = @ - 1, !.syns = n, !.syn_timer = FALSE]
           error == << <<"error", "WRITE_ERROR">> >>
<1>1. CLIENT \in Ids /\ b \in Connection /\ ObjectOK(CLIENT, b) /\ b.syn_timer
  BY ObjectFacts DEF kcp_connect_timeout, Ids
<1>2. /\ b.state = "SYN_SENT" /\ b.dcid = NONE /\ b.freed = 0 /\ ~b.fin_timer
      /\ b.syns + b.syn_retries <= RETRIES + 1
  BY <1>1 DEF ObjectOK
<1>3. b.syns \in 0 .. RETRIES + 1 /\ b.syn_retries \in 0..RETRIES
  BY <1>1, ConnectionFields
<1>4. UNCHANGED <<losses, dups, events>> /\ Counters
  BY DEF kcp_connect_timeout, Counters, Inv, Typed
<1>5. CASE b.syn_retries > 0
  <2>1. n \in 1 .. RETRIES + 1 /\ n \in 0 .. RETRIES + 1 /\ b.syn_retries - 1 \in 0..RETRIES
    BY <1>2, <1>3, <1>5, ConnAssumption
  <2>2. c \in Connection
    BY <1>1, <2>1 DEF Connection
  <2>3. /\ c.state = b.state /\ c.dcid = b.dcid /\ c.remote_host = b.remote_host /\ c.syns = n
        /\ c.syn_timer = FALSE /\ c.fin_timer = b.fin_timer /\ c.freed = b.freed
        /\ c.syn_retries = b.syn_retries - 1
    BY <1>1 DEF Connection
  <2>4. Update(CLIENT, c, error) /\ net' = net \cup SynToCandidates(b, n) /\ UNCHANGED tree
    BY <1>5 DEF kcp_connect_timeout
  <2> HIDE DEF c
  <2>5. ObjectOK(CLIENT, c)
    BY <1>2, <1>3, <2>3 DEF ObjectOK
  <2>6. Evolves(CLIENT, c) /\ PeerFits(c)
    BY <1>1, <1>2, <2>3, PeerKept DEF Evolves
  <2>7. /\ CallsFit(CLIENT, error) /\ CallsTrue(CLIENT, error)
        /\ DOMAIN error = {1} /\ error[1][1] = "error"
    <3>1. "error" \in Callbacks /\ "WRITE_ERROR" \in Codes
      BY DEF Callbacks, Codes
    <3>2. QED
      BY <3>1, OneCall
  <2>8. error \in Seq(Call) /\ conn'[CLIENT] = c
    BY <1>1, <2>2, <2>4, <2>7, CallsFacts, UpdateFacts
  <2>9. NetOK
    <3>1. c.state # "NONE"
      BY <1>2, <2>3
    <3>2. \A p \in SynToCandidates(b, n) : p \in PacketType /\ PacketOK(p)'
      BY <1>1, <2>1, <2>2, <2>8, <3>1, SynFacts
    <3>3. QED
      BY <2>4, <3>2, NetAdd
  <2>10. LogOK(log[CLIENT] \o error, c.state)
    <3>1. log[CLIENT] \in Seq(Call) /\ LogOK(log[CLIENT], b.state)
      BY <1>1 DEF Inv, Typed, Call
    <3>2. <<"error", "WRITE_ERROR">> \in Call /\ ~IsOutcome(<<"error", "WRITE_ERROR">>)
      BY DEF Call, Callbacks, Codes, IsOutcome
    <3>3. QED
      BY <1>2, <2>3, <3>1, <3>2, LogOne
  <2>11. StepOK(CLIENT, c, error)
    BY <1>2, <2>3, <2>5, <2>6, <2>7, <2>10 DEF StepOK, Established
  <2>12. TreeStep
    <3>1. tree \in OBJECTS \cup {NONE} /\ (tree # NONE => Alive(tree) /\ tree # CLIENT)
      BY ConnAssumption DEF Inv, Typed, TreeOK
    <3>2. tree # NONE => conn'[tree] = conn[tree]
      BY <1>1, <2>2, <2>4, <2>8, <3>1, UpdateFacts DEF Alive
    <3>3. QED
      BY <2>4, <3>1, <3>2 DEF TreeStep, TreeOK, Alive
  <2>13. QED
    BY <1>1, <1>4, <2>2, <2>4, <2>8, <2>9, <2>11, <2>12, ObjectStep
<1>6. CASE ~(b.syn_retries > 0)
  <2> DEFINE out == << <<"connected", "TIMED_OUT">> >>
  <2>1. kcp_connection_destroy(CLIENT, out) /\ net' = net
    BY <1>6 DEF kcp_connect_timeout
  <2>2. CallsFit(CLIENT, out) /\ CallsTrue(CLIENT, out)
    <3>1. "connected" \in Callbacks /\ "TIMED_OUT" \in Codes /\ conn[CLIENT].state \in Early
      BY <1>2 DEF Callbacks, Codes, Early
    <3>2. QED
      BY <3>1, OneCall
  <2>3. NetOK
    BY <2>1 DEF NetOK, Inv, Typed
  <2>4. QED
    BY <1>1, <1>2, <1>4, <2>1, <2>2, <2>3, DestroyStep
<1>7. QED
  BY <1>5, <1>6

\* The packet of the object just updated joins the network.
LEMMA OwnNet ==
  ASSUME Inv, NEW o \in Ids, NEW c \in Connection, conn'[o] = c, c.state # "NONE",
         NEW b \in Connection, NEW cmd \in Commands, NEW sn \in Sns, NEW rand \in Sns,
         net' \subseteq net \cup {Packet(o, b, cmd, sn, rand)},
         cmd = "SYN" /\ o = CLIENT => rand \in {CLIENT} \X (1 .. RETRIES + 1),
         cmd = "SYN" /\ o # CLIENT => c.remote_host = b.remote_host,
         cmd = "FIN" => rand \in Ids \X Nat,
         cmd \in {"ACK", "PUSH"} /\ o = CLIENT => ClientTold',
         cmd = "FIN" /\ sn # NONE => c.state \in {"FIN_RECEIVED", "FREED"},
         cmd = "ACK" /\ sn # NONE => c.state = "FREED"
  PROVE  NetOK
<1> DEFINE S == {Packet(o, b, cmd, sn, rand)}
<1>1. \A p \in S : p \in PacketType /\ PacketOK(p)'
  BY OwnPacket
<1>2. net' \subseteq net \cup S
  OBVIOUS
<1> HIDE DEF S
<1>3. QED
  BY <1>1, <1>2, NetAdd

\* kcp_accept_timeout: the SYN reply again, or the object is released.
LEMMA AcceptTimeoutStep ==
  ASSUME Inv, NEW o \in OBJECTS, kcp_accept_timeout(o)
  PROVE  Inv'
<1> DEFINE b == conn[o]
           c == [b EXCEPT !.syn_retries = @ - 1]
<1>1. o \in Ids /\ o # CLIENT /\ b \in Connection /\ ObjectOK(o, b) /\ b.syn_timer
  BY ObjectFacts, ConnAssumption DEF kcp_accept_timeout, Ids
<1>2. b.state = "SYN_RECEIVED" /\ b.freed = 0 /\ ~b.fin_timer /\ b.syns + b.syn_retries <= RETRIES + 1
  BY <1>1 DEF ObjectOK
<1>3. /\ b.syns \in 0 .. RETRIES + 1 /\ b.syn_retries \in 0..RETRIES
      /\ b.packet_sn \in {NONE} \cup ({CLIENT} \X (1 .. RETRIES + 1))
  BY <1>1, ConnectionFields
<1>4. UNCHANGED <<losses, dups, events>> /\ Counters
  BY DEF kcp_accept_timeout, Counters, Inv, Typed
<1>5. CASE b.syn_retries > 0
  <2>1. b.syn_retries - 1 \in 0..RETRIES
    BY <1>3, <1>5, ConnAssumption
  <2>2. c \in Connection
    BY <1>1, <2>1 DEF Connection
  <2>3. /\ c.state = b.state /\ c.dcid = b.dcid /\ c.remote_host = b.remote_host /\ c.syns = b.syns
        /\ c.syn_timer = b.syn_timer /\ c.fin_timer = b.fin_timer /\ c.freed = b.freed
        /\ c.syn_retries = b.syn_retries - 1
    BY <1>1 DEF Connection
  <2>4. /\ Update(o, c, <<>>) /\ UNCHANGED tree
        /\ net' = net \cup {Packet(o, b, "SYN", b.packet_sn, NONE)}
    BY <1>5 DEF kcp_accept_timeout
  <2> HIDE DEF c
  <2>5. ObjectOK(o, c)
    BY <1>1, <1>2, <1>3, <2>3, ConnAssumption DEF ObjectOK
  <2>6. Evolves(o, c)
    BY <1>1, <1>2, <2>3 DEF Evolves
  <2>7. conn'[o] = c
    BY <1>1, <2>2, <2>4, NoCalls, CallsFacts, UpdateFacts
  <2>8. NetOK
    <3>1. b.packet_sn \in Sns /\ NONE \in Sns /\ "SYN" \in Commands
      BY <1>3, ConnAssumption DEF Sns, Ids, Commands
    <3>2. net' \subseteq net \cup {Packet(o, b, "SYN", b.packet_sn, NONE)}
      BY <2>4
    <3>3. QED
      BY <1>1, <1>2, <2>2, <2>3, <2>7, <3>1, <3>2, OwnNet
  <2>9. c.state \notin {"NONE", "FREED"} /\ conn[o].state \in Early
    BY <1>2, <2>3 DEF Early
  <2>10. QED
    BY <1>1, <1>4, <2>2, <2>4, <2>5, <2>6, <2>8, <2>9, NoCalls, LiveStep
<1>6. CASE ~(b.syn_retries > 0)
  <2> DEFINE out == << <<"accepted", "TIMED_OUT">> >>
  <2>1. kcp_connection_destroy(o, out) /\ net' = net
    BY <1>6 DEF kcp_accept_timeout
  <2>2. CallsFit(o, out) /\ CallsTrue(o, out)
    <3>1. "accepted" \in Callbacks /\ "TIMED_OUT" \in Codes /\ conn[o].state \in Early
      BY <1>2 DEF Callbacks, Codes, Early
    <3>2. QED
      BY <3>1, OneCall
  <2>3. NetOK
    BY <2>1 DEF NetOK, Inv, Typed
  <2>4. QED
    BY <1>1, <1>2, <1>4, <2>1, <2>2, <2>3, DestroyStep
<1>7. QED
  BY <1>5, <1>6

\* An object with one more FIN.
LEMMA FinFacts ==
  ASSUME NEW b \in Connection, NEW sn \in Sns, NEW w, w = WithFin(b, sn)
  PROVE  /\ w \in Connection /\ w.state = b.state /\ w.dcid = b.dcid /\ w.remote_host = b.remote_host
         /\ w.syns = b.syns /\ w.syn_retries = b.syn_retries /\ w.fin_retries = b.fin_retries
         /\ w.freed = b.freed /\ w.syn_timer = b.syn_timer /\ w.fin_timer = b.fin_timer
         /\ Len(w.fins) \in Nat /\ Len(w.fins) > 0 /\ w.fins[Len(w.fins)] = sn
<1>1. w = [b EXCEPT !.fins = Append(b.fins, sn)]
  BY DEF WithFin, Connection
<1>2. b.fins \in Seq(Sns)
  BY ConnectionFields
<1> DEFINE l == Append(b.fins, sn)
<1>3. l \in Seq(Sns) /\ Len(l) \in Nat /\ Len(l) > 0 /\ l[Len(l)] = sn
  BY <1>2
<1> HIDE DEF l
<1>4. w = [b EXCEPT !.fins = l] /\ l \in Seq({NONE} \cup (Ids \X Nat))
  BY <1>1, <1>3 DEF l, Sns
<1>5. w \in Connection /\ w.fins = l
  BY <1>4 DEF Connection
<1>6. /\ w.state = b.state /\ w.dcid = b.dcid /\ w.remote_host = b.remote_host
      /\ w.syns = b.syns /\ w.syn_retries = b.syn_retries /\ w.fin_retries = b.fin_retries
      /\ w.freed = b.freed
  BY <1>4 DEF Connection
<1>7. w.syn_timer = b.syn_timer /\ w.fin_timer = b.fin_timer
  BY <1>4 DEF Connection
<1>8. QED
  BY <1>3, <1>5, <1>6, <1>7

\* The last FIN of the object just updated joins the network.  Only an object
\* that answers one says what it answers.
LEMMA FinNet ==
  ASSUME Inv, NEW o \in Ids, NEW c \in Connection, conn'[o] = c, c.state # "NONE",
         Len(c.fins) > 0, c.fins[Len(c.fins)] # NONE => c.state = "FIN_RECEIVED",
         net' \subseteq net \cup {LastFin(o, c)}
  PROVE  NetOK
<1> DEFINE n == Len(c.fins)
           sn == c.fins[n]
<1>1. c.fins \in Seq(Sns)
  BY ConnectionFields
<1>2. n \in Nat /\ sn \in Sns
  BY <1>1
<1> HIDE DEF n, sn
<1>3. <<o, n>> \in Sns /\ <<o, n>> \in Ids \X Nat /\ "FIN" \in Commands
  BY <1>2 DEF Sns, Commands
<1>4. net' \subseteq net \cup {Packet(o, c, "FIN", sn, <<o, n>>)}
  BY DEF LastFin, n, sn
<1>5. sn # NONE => c.state = "FIN_RECEIVED"
  BY DEF sn, n
<1>6. QED
  BY <1>2, <1>3, <1>4, <1>5, OwnNet

\* An established object that stays so, without callbacks.
LEMMA KeptStep ==
  ASSUME Inv, NEW o \in Ids, NEW c \in Connection, conn[o].state \in Established,
         c.state \in Established, Update(o, c, <<>>),
         c.dcid = conn[o].dcid, c.remote_host = conn[o].remote_host, c.freed = conn[o].freed,
         c.syns = conn[o].syns, c.syn_retries = conn[o].syn_retries,
         c.syn_timer = conn[o].syn_timer,
         c.fin_timer => c.state \in {"FIN_SENT", "FIN_RECEIVED"},
         conn[o].state = "FIN_RECEIVED" => c.state = "FIN_RECEIVED",
         c.state = "FIN_RECEIVED" => Len(c.fins) > 0,
         tree' = tree, NetOK, Counters
  PROVE  Inv'
<1>1. conn[o] \in Connection /\ ObjectOK(o, conn[o]) /\ (o = CLIENT => ClientTold)
  BY ObjectFacts
<1>2. ObjectOK(o, c)
  BY <1>1 DEF ObjectOK, Established
<1>3. Evolves(o, c) /\ c.state \notin {"NONE", "FREED"} /\ c.state \notin Early
  BY DEF Evolves, Established, Early
<1>4. o = CLIENT => PeerFits(c)
  BY PeerKept
<1>5. QED
  BY <1>1, <1>2, <1>3, <1>4, NoCalls, LiveStep

\* What conn' is after an update.
LEMMA Updated ==
  ASSUME Inv, NEW o \in Ids, NEW c \in Connection, Update(o, c, <<>>)
  PROVE  conn'[o] = c
BY NoCalls, CallsFacts, UpdateFacts

\* kcp_close_timeout: the FIN again, or the timer stays off.
LEMMA CloseTimeoutStep == ASSUME Inv, NEW o \in Ids, kcp_close_timeout(o) PROVE Inv'
<1> DEFINE b == conn[o]
           w == WithFin(b, NONE)
           c == [w EXCEPT !.fin_retries = @ - 1]
           d == [b EXCEPT !.fin_timer = FALSE]
<1>1. b \in Connection /\ ObjectOK(o, b) /\ b.state = "FIN_SENT" /\ NONE \in Sns
  BY ObjectFacts DEF kcp_close_timeout, Sns
<1>2. UNCHANGED <<tree, losses, dups, events>> /\ Counters
  BY DEF kcp_close_timeout, Counters, Inv, Typed
<1>3. CASE b.fin_retries > 0
  <2>1. Update(o, c, <<>>) /\ net' = net \cup {LastFin(o, c)}
    BY <1>3 DEF kcp_close_timeout
  <2>2. /\ w \in Connection /\ w.state = b.state /\ w.dcid = b.dcid /\ w.remote_host = b.remote_host
        /\ w.syns = b.syns /\ w.syn_retries = b.syn_retries /\ w.fin_retries = b.fin_retries
        /\ w.freed = b.freed /\ w.syn_timer = b.syn_timer /\ w.fin_timer = b.fin_timer
        /\ Len(w.fins) > 0 /\ w.fins[Len(w.fins)] = NONE
    BY <1>1, FinFacts
  <2> HIDE DEF w
  <2>3. w.fin_retries - 1 \in 0..RETRIES
    BY <1>1, <1>3, <2>2, ConnectionFields, ConnAssumption
  <2>4. c \in Connection
    BY <2>2, <2>3 DEF Connection
  <2>5. /\ c.state = w.state /\ c.dcid = w.dcid /\ c.remote_host = w.remote_host
        /\ c.syns = w.syns /\ c.syn_retries = w.syn_retries /\ c.freed = w.freed /\ c.fins = w.fins
    BY <2>2 DEF Connection
  <2>6. c.syn_timer = w.syn_timer /\ c.fin_timer = w.fin_timer
    BY <2>2 DEF Connection
  <2> HIDE DEF c
  <2>7. conn'[o] = c
    BY <2>1, <2>4, Updated
  <2>8. NetOK
    BY <1>1, <2>1, <2>2, <2>4, <2>5, <2>7, FinNet
  <2>9. QED
    BY <1>1, <1>2, <2>1, <2>2, <2>4, <2>5, <2>6, <2>8, KeptStep DEF Established
<1>4. CASE ~(b.fin_retries > 0)
  <2>1. Update(o, d, <<>>) /\ net' = net
    BY <1>4 DEF kcp_close_timeout
  <2>2. d \in Connection
    BY <1>1 DEF Connection
  <2>3. /\ d.state = b.state /\ d.dcid = b.dcid /\ d.remote_host = b.remote_host
        /\ d.syns = b.syns /\ d.syn_retries = b.syn_retries /\ d.freed = b.freed
    BY <1>1 DEF Connection
  <2>4. d.syn_timer = b.syn_timer /\ d.fin_timer = FALSE
    BY <1>1 DEF Connection
  <2> HIDE DEF d
  <2>5. NetOK
    BY <2>1 DEF NetOK, Inv, Typed
  <2>6. QED
    BY <1>1, <1>2, <2>1, <2>2, <2>3, <2>4, <2>5, KeptStep DEF Established
<1>5. QED
  BY <1>3, <1>4

\* on_fin_packet_timeout_cb: the answer again, or the object is released.
LEMMA FinTimeoutStep == ASSUME Inv, NEW o \in Ids, on_fin_packet_timeout_cb(o) PROVE Inv'
<1> DEFINE b == conn[o]
           w == WithFin(b, b.fins[1])
           c == [w EXCEPT !.fin_retries = @ - 1]
<1>1. /\ b \in Connection /\ ObjectOK(o, b) /\ b.state = "FIN_RECEIVED" /\ Len(b.fins) > 0
  BY ObjectFacts DEF on_fin_packet_timeout_cb, ObjectOK
<1>2. UNCHANGED <<losses, dups, events>> /\ Counters
  BY DEF on_fin_packet_timeout_cb, Counters, Inv, Typed
<1>3. CASE b.fin_retries > 0
  <2>1. Update(o, c, <<>>) /\ net' = net \cup {LastFin(o, c)} /\ tree' = tree
    BY <1>3 DEF on_fin_packet_timeout_cb
  <2>2. b.fins[1] \in Sns
    <3>1. b.fins \in Seq(Sns)
      BY <1>1, ConnectionFields
    <3>2. QED
      BY <1>1, <3>1
  <2>3. /\ w \in Connection /\ w.state = b.state /\ w.dcid = b.dcid /\ w.remote_host = b.remote_host
        /\ w.syns = b.syns /\ w.syn_retries = b.syn_retries /\ w.fin_retries = b.fin_retries
        /\ w.freed = b.freed /\ w.syn_timer = b.syn_timer /\ w.fin_timer = b.fin_timer
        /\ Len(w.fins) > 0
    BY <1>1, <2>2, FinFacts
  <2> HIDE DEF w
  <2>4. w.fin_retries - 1 \in 0..RETRIES
    BY <1>1, <1>3, <2>3, ConnectionFields, ConnAssumption
  <2>5. c \in Connection
    BY <2>3, <2>4 DEF Connection
  <2>6. /\ c.state = w.state /\ c.dcid = w.dcid /\ c.remote_host = w.remote_host
        /\ c.syns = w.syns /\ c.syn_retries = w.syn_retries /\ c.freed = w.freed /\ c.fins = w.fins
    BY <2>3 DEF Connection
  <2>7. c.syn_timer = w.syn_timer /\ c.fin_timer = w.fin_timer
    BY <2>3 DEF Connection
  <2> HIDE DEF c
  <2>8. conn'[o] = c
    BY <2>1, <2>5, Updated
  <2>9. NetOK
    BY <1>1, <2>1, <2>3, <2>5, <2>6, <2>8, FinNet
  <2>10. QED
    BY <1>1, <1>2, <2>1, <2>3, <2>5, <2>6, <2>7, <2>9, KeptStep DEF Established
<1>4. CASE ~(b.fin_retries > 0)
  <2> DEFINE out == << <<"closed", "TIMED_OUT">> >>
  <2>1. kcp_connection_destroy(o, out) /\ net' = net
    BY <1>4 DEF on_fin_packet_timeout_cb
  <2>2. CallsFit(o, out) /\ CallsTrue(o, out)
    <3>1. "closed" \in Callbacks /\ "TIMED_OUT" \in Codes
      BY DEF Callbacks, Codes
    <3>2. QED
      BY <3>1, OneCall
  <2>3. NetOK
    BY <2>1 DEF NetOK, Inv, Typed
  <2>4. QED
    BY <1>1, <1>2, <2>1, <2>2, <2>3, DestroyStep
<1>5. QED
  BY <1>3, <1>4

\* The last packet of an object that is released.
LEMMA LastNet ==
  ASSUME Inv, NEW o \in Ids, NEW k \in 1..2, NEW calls, CallsFit(o, calls),
         Update(o, Freed(k), calls), NEW cmd \in {"RST", "ACK"}, NEW sn \in Sns,
         net' \subseteq net \cup {Packet(o, conn[o], cmd, sn, NONE)},
         cmd = "ACK" /\ o = CLIENT => ClientTold
  PROVE  NetOK
<1> DEFINE c == Freed(k)
<1>1. c \in Connection /\ c.state = "FREED" /\ calls \in Seq(Call) /\ Update(o, c, calls)
  BY FreedFacts, CallsFacts
<1> HIDE DEF c
<1>2. conn'[o] = c /\ conn[o] \in Connection
  BY <1>1, UpdateFacts
<1>3. ClientTold => ClientTold'
  BY <1>1, ReportedStep DEF ClientTold, Ids
<1>4. cmd \in Commands /\ NONE \in Sns
  BY DEF Commands, Sns
<1>5. QED
  BY <1>1, <1>2, <1>3, <1>4, OwnNet

\* kcp_connection_destroy, as the update it makes.
LEMMA DestroyUpdate ==
  ASSUME Inv, NEW o \in Ids, conn[o].state # "FREED", NEW calls, kcp_connection_destroy(o, calls)
  PROVE  Update(o, Freed(1), calls)
<1>1. conn[o].freed = 0
  BY DEF Inv, ObjectOK
<1>2. QED
  BY <1>1 DEF kcp_connection_destroy, Freed

\* One more event.
LEMMA CountedOK ==
  ASSUME Inv, Counted, UNCHANGED <<losses, dups>>
  PROVE  Counters
BY DEF Counted, Counters, Inv, Typed

\* kcp_shutdown: a RST and the release.
LEMMA ShutdownStep == ASSUME Inv, NEW o \in Ids, kcp_shutdown(o) PROVE Inv'
<1> DEFINE out == << <<"closed", "LOCAL">> >>
<1>1. conn[o].state \notin {"NONE", "FREED"} /\ kcp_connection_destroy(o, out) /\ Counters
  BY CountedOK DEF kcp_shutdown, Held
<1>2. CallsFit(o, out) /\ CallsTrue(o, out)
  <2>1. "closed" \in Callbacks /\ "LOCAL" \in Codes
    BY DEF Callbacks, Codes
  <2>2. QED
    BY <2>1, OneCall
<1>3. net' \subseteq net \cup {Packet(o, conn[o], "RST", NONE, NONE)}
  BY DEF kcp_shutdown
<1> HIDE DEF out
<1>4. NetOK
  <2>1. Update(o, Freed(1), out)
    BY <1>1, DestroyUpdate
  <2>2. NONE \in Sns /\ 1 \in 1..2
    BY DEF Sns
  <2>3. QED
    BY <1>2, <1>3, <2>1, <2>2, LastNet
<1>5. QED
  BY <1>1, <1>2, <1>4, DestroyStep

\* kcp_close: the first FIN, or a shutdown.
LEMMA CloseStep == ASSUME Inv, NEW o \in Ids, kcp_close(o) PROVE Inv'
<1> DEFINE b == conn[o]
           w == WithFin(b, NONE)
           c == [w EXCEPT !.state = "FIN_SENT", !.fin_timer = TRUE]
<1>1. CASE kcp_shutdown(o)
  BY <1>1, ShutdownStep
<1>2. CASE /\ b.state = "CONNECTED" /\ Update(o, c, <<>>) /\ net' = net \cup {LastFin(o, c)}
           /\ Counted /\ UNCHANGED <<tree, losses, dups>>
  <2>1. b \in Connection /\ NONE \in Sns /\ Counters
    BY <1>2, ObjectFacts, CountedOK DEF Sns
  <2>2. /\ w \in Connection /\ w.dcid = b.dcid /\ w.remote_host = b.remote_host
        /\ w.syns = b.syns /\ w.syn_retries = b.syn_retries /\ w.freed = b.freed
        /\ w.syn_timer = b.syn_timer /\ Len(w.fins) > 0 /\ w.fins[Len(w.fins)] = NONE
    BY <2>1, FinFacts
  <2>3. Update(o, c, <<>>) /\ net' = net \cup {LastFin(o, c)}
    BY <1>2
  <2> HIDE DEF w
  <2>4. c \in Connection
    <3>1. "FIN_SENT" \in States
      BY DEF States
    <3>2. QED
      BY <2>2, <3>1 DEF Connection
  <2>5. /\ c.state = "FIN_SENT" /\ c.dcid = w.dcid /\ c.remote_host = w.remote_host
        /\ c.syns = w.syns /\ c.syn_retries = w.syn_retries /\ c.freed = w.freed /\ c.fins = w.fins
    BY <2>2 DEF Connection
  <2>6. c.syn_timer = w.syn_timer
    BY <2>2 DEF Connection
  <2> HIDE DEF c
  <2>7. conn'[o] = c
    BY <2>3, <2>4, Updated
  <2>8. NetOK
    BY <2>2, <2>3, <2>4, <2>5, <2>7, FinNet
  <2>9. QED
    BY <1>2, <2>1, <2>2, <2>3, <2>4, <2>5, <2>6, <2>8, KeptStep DEF Established
<1>3. QED
  BY <1>1, <1>2 DEF kcp_close

\* FlushSends: data of a connected end.
LEMMA FlushStep == ASSUME Inv, NEW o \in Ids, FlushSends(o) PROVE Inv'
<1>1. /\ conn[o] \in Connection /\ conn[o].state = "CONNECTED" /\ (o = CLIENT => ClientTold)
      /\ UNCHANGED <<conn, tree, log>> /\ Counters
  BY ObjectFacts, CountedOK DEF FlushSends, Flushed, Established
<1>2. PICK cmd \in DATA : net' = net \cup {Packet(o, conn[o], cmd, NONE, NONE)}
  BY DEF FlushSends
<1>3. cmd \in {"PUSH", "PING"} /\ cmd \in Commands /\ NONE \in Sns
  BY ConnAssumption DEF Commands, Sns
<1>4. conn'[o] = conn[o] /\ (ClientTold => ClientTold')
  BY <1>1 DEF ClientTold, Reported
<1>5. net' \subseteq net \cup {Packet(o, conn[o], cmd, NONE, NONE)}
  BY <1>2
<1>6. NetOK
  BY <1>1, <1>3, <1>4, <1>5, OwnNet
<1>7. QED
  BY <1>1, <1>6, IdleStep

\* GivesUp: the application is told, the object stays.
LEMMA GiveUpStep == ASSUME Inv, NEW o \in Ids, GivesUp(o) PROVE Inv'
<1> DEFINE b == conn[o]
           c == [b EXCEPT !.state = "DISCONNECTED"]
           out == << <<"error", "GIVEN_UP">> >>
<1>1. b \in Connection /\ ObjectOK(o, b) /\ b.state = "CONNECTED" /\ (o = CLIENT => ClientTold)
  BY ObjectFacts DEF GivesUp, Flushed, Established
<1>2. Update(o, c, out) /\ UNCHANGED <<tree, net>> /\ Counters
  BY CountedOK DEF GivesUp
<1>3. c \in Connection
  BY <1>1 DEF Connection, States
<1>4. /\ c.state = "DISCONNECTED" /\ c.dcid = b.dcid /\ c.remote_host = b.remote_host
      /\ c.syns = b.syns /\ c.syn_retries = b.syn_retries /\ c.freed = b.freed
  BY <1>1 DEF Connection
<1>5. c.syn_timer = b.syn_timer /\ c.fin_timer = b.fin_timer
  BY <1>1 DEF Connection
<1>6. /\ CallsFit(o, out) /\ CallsTrue(o, out) /\ DOMAIN out = {1} /\ out[1][1] = "error"
  <2>1. "error" \in Callbacks /\ "GIVEN_UP" \in Codes
    BY DEF Callbacks, Codes
  <2>2. QED
    BY <2>1, OneCall
<1> HIDE DEF c, out
<1>7. ObjectOK(o, c) /\ Evolves(o, c)
  BY <1>1, <1>4, <1>5 DEF ObjectOK, Evolves
<1>8. o = CLIENT => PeerFits(c)
  BY <1>4, PeerKept
<1>9. NetOK /\ c.state \notin Early /\ c.state \notin {"NONE", "FREED"}
  BY <1>2, <1>4 DEF NetOK, Inv, Typed, Early
<1>10. \A i \in DOMAIN out : out[i][1] # "closed"
  BY <1>6
<1>11. QED
  BY <1>1, <1>2, <1>3, <1>6, <1>7, <1>8, <1>9, <1>10, LiveStep

\* A packet lost.
LEMMA LoseStep == ASSUME Inv, NEW p \in net, Lose(p) PROVE Inv'
<1>1. NetOK /\ Counters
  BY DEF Lose, NetOK, Counters, Inv, Typed
<1>2. QED
  BY <1>1, IdleStep DEF Lose

\* A packet that arrives, what it finds, and what it says.
LEMMA ArrivalFacts ==
  ASSUME Inv, NEW p \in net
  PROVE  /\ p \in PacketType /\ PacketOK(p) /\ p.to \in {"client", "server"} /\ p.path \in PATHS \cup {NONE}
         /\ p.scid \in Ids \cup {NONE} /\ p.sn \in Sns /\ p.rand \in Sns
         /\ Found(p) # NONE =>
              /\ Found(p) \in Ids /\ conn[Found(p)].state \notin {"NONE", "FREED"}
              /\ Found(p) = CLIENT <=> p.to = "client"
<1>1. p \in PacketType /\ PacketOK(p)
  BY DEF Inv, Typed
<1>2. /\ p.to \in {"client", "server"} /\ p.path \in PATHS \cup {NONE} /\ p.scid \in Ids \cup {NONE}
      /\ p.sn \in Sns /\ p.rand \in Sns
  BY <1>1 DEF PacketType
<1>3. tree \in OBJECTS \cup {NONE} /\ (tree # NONE => Alive(tree)) /\ CLIENT \notin OBJECTS
  BY ConnAssumption DEF Inv, Typed, TreeOK
<1>4. QED
  BY <1>1, <1>2, <1>3, ConnAssumption DEF Found, Alive, Ids

\* Branches that touch no object: a drop, a RST, or the tree emptied.
LEMMA NoObjectStep ==
  ASSUME Inv, NEW p \in net, NEW rest, rest \subseteq net, Counters,
         \/ PacketDropped(p, rest) \/ NoConnection(p, rest)
         \/ AcceptConflict(p, rest) \/ ConnectRefused(p, rest)
  PROVE  Inv'
<1>1. UNCHANGED <<conn, log>> /\ tree' \in {tree, NONE} /\ net' \subseteq net \cup {RstReply(p)}
  BY DEF PacketDropped, NoConnection, AcceptConflict, ConnectRefused
<1>2. RstReply(p) \in PacketType /\ PacketOK(RstReply(p))'
  BY ArrivalFacts, RstFacts
<1>3. NetOK
  BY <1>1, <1>2 DEF NetOK, Inv, Typed
<1>4. QED
  BY <1>1, <1>3, IdleStep

\* kcp_accept: a new object, linked in the tree.
LEMMA AcceptStep ==
  ASSUME Inv, NEW p \in net, NEW rest, rest \subseteq net, Counters, kcp_accept(p, rest)
  PROVE  Inv'
<1>1. PICK o \in OBJECTS :
        LET c == [conn[o] EXCEPT !.state = "SYN_RECEIVED", !.dcid = p.scid,
                                 !.remote_host = p.path, !.packet_sn = p.rand, !.syn_timer = TRUE]
        IN  /\ conn[o].state = "NONE" /\ Update(o, c, <<>>) /\ tree' = o
            /\ net' = rest \cup {Packet(o, c, "SYN", p.rand, NONE)}
  BY DEF kcp_accept
<1> DEFINE b == conn[o]
           c == [b EXCEPT !.state = "SYN_RECEIVED", !.dcid = p.scid,
                          !.remote_host = p.path, !.packet_sn = p.rand, !.syn_timer = TRUE]
<1>2. o \in Ids /\ o # CLIENT /\ b \in Connection /\ ObjectOK(o, b) /\ b.state = "NONE"
  BY <1>1, ObjectFacts, ConnAssumption DEF Ids
<1>3. /\ Update(o, c, <<>>) /\ tree' = o
      /\ net' \subseteq net \cup {Packet(o, c, "SYN", p.rand, NONE)}
  BY <1>1
<1>4. /\ p.scid \in Ids \cup {NONE} /\ p.path \in PATHS \cup {NONE} /\ p.rand \in Sns
      /\ p.rand \in {CLIENT} \X (1 .. RETRIES + 1)
  BY ArrivalFacts DEF kcp_accept, PacketOK
<1>5. c \in Connection
  <2>1. "SYN_RECEIVED" \in States /\ p.rand \in {NONE} \cup ({CLIENT} \X (1 .. RETRIES + 1))
    BY <1>4 DEF States
  <2>2. QED
    BY <1>2, <1>4, <2>1 DEF Connection
<1>6. /\ c.state = "SYN_RECEIVED" /\ c.remote_host = p.path /\ c.syns = b.syns
      /\ c.syn_retries = b.syn_retries /\ c.freed = b.freed
  BY <1>2 DEF Connection
<1>7. c.fin_timer = b.fin_timer
  BY <1>2 DEF Connection
<1> HIDE DEF c
<1>8. ObjectOK(o, c) /\ Evolves(o, c)
  BY <1>2, <1>6, <1>7 DEF ObjectOK, Evolves
<1>9. conn'[o] = c /\ "SYN" \in Commands /\ NONE \in Sns
  BY <1>2, <1>3, <1>5, Updated DEF Commands, Sns
<1>10. NetOK
  BY <1>2, <1>3, <1>4, <1>5, <1>6, <1>9, OwnNet
<1>11. c.state \notin {"NONE", "FREED"} /\ conn[o].state \in Early
  BY <1>2, <1>6 DEF Early
<1>12. QED
  BY <1>2, <1>3, <1>5, <1>8, <1>10, <1>11, NoCalls, LiveStep

\* SynReply: the client takes the id and the path of the replier.
LEMMA SynReplyStep ==
  ASSUME Inv, NEW p \in net, NEW rest, rest \subseteq net, Counters, SynReply(p, rest)
  PROVE  Inv'
<1> DEFINE b == conn[CLIENT]
           c == [b EXCEPT !.dcid = p.scid, !.remote_host = p.path, !.syn_timer = FALSE]
           d == [c EXCEPT !.state = "CONNECTED"]
           out == << <<"connected", "NO_ERROR">> >>
<1>1. /\ CLIENT \in Ids /\ b \in Connection /\ ObjectOK(CLIENT, b) /\ b.state \notin {"NONE", "FREED"}
      /\ b.state \in Established => ClientTold
  BY ObjectFacts DEF SynReply, Ids, Alive
<1>2. /\ p.scid \in Ids \cup {NONE} /\ p.path \in PATHS \cup {NONE} /\ PacketOK(p)
      /\ p.to = "client" /\ p.cmd = "SYN"
  BY ArrivalFacts DEF SynReply
<1>3. c \in Connection
  BY <1>1, <1>2 DEF Connection
<1>4. /\ c.state = b.state /\ c.dcid = p.scid /\ c.remote_host = p.path /\ c.syns = b.syns
      /\ c.syn_retries = b.syn_retries /\ c.freed = b.freed /\ c.fins = b.fins
  BY <1>1 DEF Connection
<1>5. c.syn_timer = FALSE /\ c.fin_timer = b.fin_timer
  BY <1>1 DEF Connection
<1>6. net' \subseteq net \cup {Packet(CLIENT, c, "ACK", NONE, NONE)} /\ tree' = tree
  BY DEF SynReply
<1>7. IF c.state = "SYN_SENT" THEN Update(CLIENT, d, out) ELSE Update(CLIENT, c, <<>>)
  BY DEF SynReply
<1> HIDE DEF c
<1>8. PeerFits(c)
  <2>1. c.dcid \in OBJECTS => c.dcid # NONE
    BY ConnAssumption
  <2>2. QED
    BY <1>2, <1>4, <2>1 DEF PeerFits, PacketOK
<1>9. "ACK" \in Commands /\ NONE \in Sns
  BY DEF Commands, Sns
<1>10. CASE c.state = "SYN_SENT"
  <2>1. Update(CLIENT, d, out)
    BY <1>7, <1>10
  <2>2. d \in Connection
    BY <1>3 DEF Connection, States
  <2>3. /\ d.state = "CONNECTED" /\ d.dcid = c.dcid /\ d.remote_host = c.remote_host /\ d.syns = c.syns
        /\ d.syn_retries = c.syn_retries /\ d.freed = c.freed /\ d.fins = c.fins
    BY <1>3 DEF Connection
  <2>4. d.syn_timer = c.syn_timer /\ d.fin_timer = c.fin_timer
    BY <1>3 DEF Connection
  <2>5. /\ CallsFit(CLIENT, out) /\ CallsTrue(CLIENT, out)
        /\ DOMAIN out = {1} /\ out[1] = <<"connected", "NO_ERROR">> /\ out[1][1] = "connected"
    <3>1. "connected" \in Callbacks /\ "NO_ERROR" \in Codes /\ conn[CLIENT].state \in Early
      BY <1>4, <1>10 DEF Callbacks, Codes, Early
    <3>2. QED
      BY <3>1, OneCall
  <2> HIDE DEF d, out
  <2>6. ObjectOK(CLIENT, d) /\ Evolves(CLIENT, d) /\ PeerFits(d)
    BY <1>1, <1>4, <1>5, <1>8, <1>10, <2>3, <2>4 DEF ObjectOK, Evolves, PeerFits
  <2>7. \E i \in DOMAIN out : out[i] = <<"connected", "NO_ERROR">>
    BY <2>5
  <2>8. out \in Seq(Call)
    BY <2>5, CallsFacts
  <2>9. conn'[CLIENT] = d
    BY <1>1, <2>1, <2>2, <2>8, UpdateFacts
  <2>10. ClientTold'
    BY <1>1, <2>1, <2>2, <2>7, <2>8, ReportedStep DEF ClientTold
  <2>11. NetOK
    BY <1>1, <1>3, <1>6, <1>9, <2>2, <2>3, <2>9, <2>10, OwnNet
  <2>12. \A i \in DOMAIN out : out[i][1] # "closed"
    BY <2>5
  <2>13. d.state \notin Early /\ d.state \notin {"NONE", "FREED"}
    BY <2>3 DEF Early
  <2>14. QED
    BY <1>1, <1>6, <2>1, <2>2, <2>5, <2>6, <2>7, <2>11, <2>12, <2>13, LiveStep
<1>11. CASE c.state # "SYN_SENT"
  <2>1. Update(CLIENT, c, <<>>)
    BY <1>7, <1>11
  <2>2. c.state \in Established
    BY <1>1, <1>4, <1>11, ConnectionFields DEF ObjectOK, States, Established
  <2>3. ObjectOK(CLIENT, c) /\ Evolves(CLIENT, c)
    BY <1>1, <1>4, <1>5, <2>2 DEF ObjectOK, Evolves, Established
  <2>4. conn'[CLIENT] = c
    BY <1>1, <1>3, <2>1, Updated
  <2>5. ClientTold /\ ClientTold'
    <3>1. ClientTold
      BY <1>1, <1>4, <2>2
    <3>2. <<>> \in Seq(Call)
      OBVIOUS
    <3>3. QED
      BY <1>1, <1>3, <2>1, <3>1, <3>2, ReportedStep DEF ClientTold
  <2>6. c.state \notin Early /\ c.state \notin {"NONE", "FREED"}
    BY <2>2 DEF Early, Established
  <2>7. NetOK
    BY <1>1, <1>3, <1>6, <1>9, <2>4, <2>5, <2>6, OwnNet
  <2>8. QED
    BY <1>1, <1>3, <1>6, <1>8, <2>1, <2>3, <2>5, <2>6, <2>7, NoCalls, LiveStep
<1>12. QED
  BY <1>10, <1>11

\* The object o that packet p found, as on_kcp_read_event sees it: a client
\* that is still connecting takes over the path p came on.
Seen(o, p) ==
  IF conn[o].state = "SYN_SENT" THEN [conn[o] EXCEPT !.remote_host = p.path] ELSE conn[o]

\* That changes nothing the invariant speaks of.
LEMMA SeenFacts ==
  ASSUME Inv, NEW p \in net, NEW o, o = Found(p), o # NONE, NEW c, c = Seen(o, p)
  PROVE  /\ o \in Ids /\ c \in Connection /\ c.state = conn[o].state
         /\ c.state \notin {"NONE", "FREED"} /\ (c.state # "SYN_SENT" => c = conn[o])
         /\ ObjectOK(o, c) /\ Evolves(o, c) /\ (o = CLIENT => PeerFits(c))
         /\ o = CLIENT /\ c.state \in Established => ClientTold
<1>1. o \in Ids /\ conn[o].state \notin {"NONE", "FREED"} /\ p.path \in PATHS \cup {NONE}
  BY ArrivalFacts
<1>2. /\ conn[o] \in Connection /\ ObjectOK(o, conn[o])
      /\ conn[o].state \in Established /\ o = CLIENT => ClientTold
      /\ o = CLIENT => PeerFits(conn[o])
  BY <1>1, ObjectFacts
<1>3. CASE conn[o].state # "SYN_SENT"
  <2>1. c = conn[o]
    BY <1>3 DEF Seen
  <2>2. QED
    BY <1>1, <1>2, <1>3, <2>1 DEF Evolves
<1>4. CASE conn[o].state = "SYN_SENT"
  <2>1. c = [conn[o] EXCEPT !.remote_host = p.path]
    BY <1>4 DEF Seen
  <2>2. c \in Connection
    BY <1>1, <1>2, <2>1 DEF Connection
  <2>3. /\ c.state = conn[o].state /\ c.dcid = conn[o].dcid /\ c.syns = conn[o].syns
        /\ c.syn_retries = conn[o].syn_retries /\ c.freed = conn[o].freed /\ c.fins = conn[o].fins
    BY <1>2, <2>1 DEF Connection
  <2>4. c.syn_timer = conn[o].syn_timer /\ c.fin_timer = conn[o].fin_timer
    BY <1>2, <2>1 DEF Connection
  <2>5. ObjectOK(o, c) /\ o = CLIENT /\ c.dcid = NONE
    BY <1>2, <1>4, <2>3, <2>4 DEF ObjectOK
  <2>6. Evolves(o, c) /\ PeerFits(c)
    BY <1>1, <1>4, <2>3, <2>5, PeerKept DEF Evolves
  <2>7. QED
    BY <1>1, <1>2, <1>4, <2>2, <2>3, <2>5, <2>6
<1>5. QED
  BY <1>3, <1>4

\* A packet that makes no difference otherwise.
LEMMA SeenStep ==
  ASSUME Inv, NEW p \in net, NEW o, o = Found(p), o # NONE, NEW c, c = Seen(o, p), Counters,
         Update(o, c, <<>>), net' \subseteq net, tree' = tree
  PROVE  Inv'
<1>1. /\ o \in Ids /\ c \in Connection /\ c.state = conn[o].state
      /\ c.state \notin {"NONE", "FREED"}
      /\ ObjectOK(o, c) /\ Evolves(o, c) /\ (o = CLIENT => PeerFits(c))
      /\ o = CLIENT /\ c.state \in Established => ClientTold
  BY SeenFacts
<1>2. NetOK
  BY DEF NetOK, Inv, Typed
<1>3. QED
  BY <1>1, <1>2, NoCalls, LiveStep

\* Reset: a RST releases the object, with the callback of its state.
LEMMA ResetStep ==
  ASSUME Inv, NEW p \in net, NEW rest, rest \subseteq net, NEW o, o = Found(p), o # NONE,
         NEW c, c = Seen(o, p), Counters, Reset(o, c, p, rest)
  PROVE  Inv'
<1>1. o \in Ids /\ c.state = conn[o].state /\ conn[o].state \notin {"NONE", "FREED"}
  BY SeenFacts
<1>2. kcp_connection_destroy(o, RstCallback(c.state)) /\ NetOK
  BY DEF Reset, NetOK, Inv, Typed
<1>3. CallsFit(o, RstCallback(c.state)) /\ CallsTrue(o, RstCallback(c.state))
  <2>1. /\ {"connected", "accepted", "closed"} \subseteq Callbacks
        /\ {"CONNECTION_REFUSED", "CONNECTION_RESET"} \subseteq Codes
        /\ {"SYN_SENT", "SYN_RECEIVED"} \subseteq Early
    BY DEF Callbacks, Codes, Early
  <2>2. CASE c.state = "SYN_SENT"
    <3> DEFINE out == << <<"connected", "CONNECTION_REFUSED">> >>
    <3>1. RstCallback(c.state) = out
      BY <2>2 DEF RstCallback
    <3>2. conn[o].state \in Early /\ "connected" \in Callbacks /\ "CONNECTION_REFUSED" \in Codes
      BY <1>1, <2>1, <2>2
    <3>3. CallsFit(o, out) /\ CallsTrue(o, out)
      BY <3>2, OneCall
    <3>4. QED
      BY <3>1, <3>3
  <2>3. CASE c.state = "SYN_RECEIVED"
    <3> DEFINE out == << <<"accepted", "CONNECTION_RESET">> >>
    <3>1. RstCallback(c.state) = out
      BY <2>3 DEF RstCallback
    <3>2. conn[o].state \in Early /\ "accepted" \in Callbacks /\ "CONNECTION_RESET" \in Codes
      BY <1>1, <2>1, <2>3
    <3>3. CallsFit(o, out) /\ CallsTrue(o, out)
      BY <3>2, OneCall
    <3>4. QED
      BY <3>1, <3>3
  <2>4. CASE c.state \notin {"SYN_SENT", "SYN_RECEIVED"}
    <3> DEFINE out == << <<"closed", "CONNECTION_RESET">> >>
    <3>1. RstCallback(c.state) = out
      BY <2>4 DEF RstCallback
    <3>2. CallsFit(o, out) /\ CallsTrue(o, out)
      BY <2>1, OneCall
    <3>3. QED
      BY <3>1, <3>2
  <2>5. QED
    BY <2>2, <2>3, <2>4
<1>4. QED
  BY <1>1, <1>2, <1>3, DestroyStep

\* GivenUpReleased: whatever arrives releases the object.
LEMMA GivenUpStep ==
  ASSUME Inv, NEW p \in net, NEW rest, rest \subseteq net, NEW o, o = Found(p), o # NONE,
         NEW c, c = Seen(o, p), Counters, GivenUpReleased(o, c, p, rest)
  PROVE  Inv'
<1>1. o \in Ids /\ conn[o].state \notin {"NONE", "FREED"}
  BY SeenFacts
<1>2. kcp_connection_destroy(o, <<>>) /\ NetOK
  BY DEF GivenUpReleased, NetOK, Inv, Typed
<1>3. QED
  BY <1>1, <1>2, NoCalls, DestroyStep

\* Accepted: the ACK or the data of the client completes the handshake.
LEMMA AcceptedStep ==
  ASSUME Inv, NEW p \in net, NEW rest, rest \subseteq net, NEW o, o = Found(p), o # NONE,
         NEW c, c = Seen(o, p), Counters, Accepted(o, c, p, rest)
  PROVE  Inv'
<1> DEFINE d == [c EXCEPT !.state = "CONNECTED", !.syn_timer = FALSE]
           out == << <<"accepted", "NO_ERROR">> >>
<1>1. /\ o \in Ids /\ c \in Connection /\ c.state = "SYN_RECEIVED" /\ c = conn[o]
      /\ ObjectOK(o, c) /\ o # CLIENT
  BY SeenFacts DEF Accepted, ObjectOK
<1>2. ClientTold
  <2>1. p.to = "server" /\ PacketOK(p)
    BY <1>1, ArrivalFacts
  <2>2. QED
    BY <2>1 DEF Accepted, PacketOK
<1>3. Update(o, d, out) /\ net' \subseteq net /\ tree' = tree
  BY DEF Accepted
<1>4. d \in Connection
  BY <1>1 DEF Connection, States
<1>5. /\ d.state = "CONNECTED" /\ d.dcid = c.dcid /\ d.remote_host = c.remote_host /\ d.syns = c.syns
      /\ d.syn_retries = c.syn_retries /\ d.freed = c.freed
  BY <1>1 DEF Connection
<1>6. d.syn_timer = FALSE /\ d.fin_timer = c.fin_timer
  BY <1>1 DEF Connection
<1>7. /\ CallsFit(o, out) /\ CallsTrue(o, out) /\ DOMAIN out = {1} /\ out[1][1] = "accepted"
  <2>1. "accepted" \in Callbacks /\ "NO_ERROR" \in Codes /\ conn[o].state \in Early
    BY <1>1 DEF Callbacks, Codes, Early
  <2>2. QED
    BY <1>2, <2>1, OneCall
<1> HIDE DEF d, out
<1>8. ObjectOK(o, d) /\ Evolves(o, d)
  BY <1>1, <1>5, <1>6 DEF ObjectOK, Evolves
<1>9. NetOK /\ d.state \notin Early /\ d.state \notin {"NONE", "FREED"}
  BY <1>3, <1>5 DEF NetOK, Inv, Typed, Early
<1>10. \A i \in DOMAIN out : out[i][1] # "closed"
  BY <1>7
<1>11. QED
  BY <1>1, <1>3, <1>4, <1>7, <1>8, <1>9, <1>10, LiveStep

\* AcceptAborted: the object is destroyed, perhaps twice.
LEMMA AbortStep ==
  ASSUME Inv, NEW p \in net, NEW rest, rest \subseteq net, NEW o, o = Found(p), o # NONE,
         NEW c, c = Seen(o, p), Counters, AcceptAborted(o, c, p, rest)
  PROVE  Inv'
<1> DEFINE out == << <<"accepted", "CONNECTION_RESET">> >>
<1>1. /\ o \in Ids /\ c = conn[o] /\ c.state = "SYN_RECEIVED" /\ o # CLIENT
  BY SeenFacts DEF AcceptAborted, ObjectOK
<1>2. PICK k \in 1..2 : Update(o, Freed(k), out)
  <2>1. PICK k \in {1, 2} : Update(o, Freed(k), out)
    BY DEF AcceptAborted, Freed
  <2>2. k \in 1..2
    OBVIOUS
  <2>3. QED
    BY <2>1, <2>2
<1>3. tree' = NONE /\ net' \subseteq net \cup {Packet(o, conn[o], "RST", NONE, NONE)}
  BY <1>1 DEF AcceptAborted
<1>4. CallsFit(o, out) /\ CallsTrue(o, out)
  <2>1. "accepted" \in Callbacks /\ "CONNECTION_RESET" \in Codes /\ conn[o].state \in Early
    BY <1>1 DEF Callbacks, Codes, Early
  <2>2. QED
    BY <2>1, OneCall
<1> HIDE DEF out
<1>5. NetOK
  <2>1. NONE \in Sns
    BY DEF Sns
  <2>2. QED
    BY <1>1, <1>2, <1>3, <1>4, <2>1, LastNet
<1>6. QED
  BY <1>1, <1>2, <1>3, <1>4, <1>5, ReleaseStep

\* FinReceived and FinAgain: one more FIN that answers the peer's.
LEMMA FinAnswerStep ==
  ASSUME Inv, NEW p \in net, NEW rest, rest \subseteq net, NEW o, o = Found(p), o # NONE,
         NEW c, c = Seen(o, p), Counters,
         FinReceived(o, c, p, rest) \/ FinAgain(o, c, p, rest)
  PROVE  Inv'
<1> DEFINE w == WithFin(c, p.rand)
<1>1. /\ o \in Ids /\ c \in Connection /\ c = conn[o] /\ c.state \in {"CONNECTED", "FIN_RECEIVED"}
      /\ ObjectOK(o, c) /\ p.rand \in Sns
  BY SeenFacts, ArrivalFacts DEF FinReceived, FinAgain
<1>2. /\ w \in Connection /\ w.state = c.state /\ w.dcid = c.dcid /\ w.remote_host = c.remote_host
      /\ w.syns = c.syns /\ w.syn_retries = c.syn_retries /\ w.freed = c.freed
      /\ w.syn_timer = c.syn_timer /\ w.fin_timer = c.fin_timer /\ Len(w.fins) > 0
  BY <1>1, FinFacts
<1>3. CASE FinReceived(o, c, p, rest)
  <2> DEFINE d == [w EXCEPT !.state = "FIN_RECEIVED", !.fin_timer = TRUE]
  <2>1. Update(o, d, <<>>) /\ net' \subseteq net \cup {LastFin(o, d)} /\ tree' = tree
    BY <1>3 DEF FinReceived
  <2> HIDE DEF w
  <2>2. d \in Connection
    <3>1. "FIN_RECEIVED" \in States
      BY DEF States
    <3>2. QED
      BY <1>2, <3>1 DEF Connection
  <2>3. /\ d.state = "FIN_RECEIVED" /\ d.dcid = w.dcid /\ d.remote_host = w.remote_host
        /\ d.syns = w.syns /\ d.syn_retries = w.syn_retries /\ d.freed = w.freed /\ d.fins = w.fins
    BY <1>2 DEF Connection
  <2>4. d.syn_timer = w.syn_timer
    BY <1>2 DEF Connection
  <2> HIDE DEF d
  <2>5. conn'[o] = d
    BY <1>1, <2>1, <2>2, Updated
  <2>6. NetOK
    BY <1>1, <1>2, <2>1, <2>2, <2>3, <2>5, FinNet
  <2>7. QED
    BY <1>1, <1>2, <2>1, <2>2, <2>3, <2>4, <2>6, KeptStep DEF Established
<1>4. CASE FinAgain(o, c, p, rest)
  <2>1. /\ Update(o, w, <<>>) /\ net' \subseteq net \cup {LastFin(o, w)} /\ tree' = tree
        /\ c.state = "FIN_RECEIVED"
    BY <1>4 DEF FinAgain
  <2> HIDE DEF w
  <2>2. conn'[o] = w
    BY <1>1, <1>2, <2>1, Updated
  <2>3. NetOK
    BY <1>1, <1>2, <2>1, <2>2, FinNet
  <2>4. QED
    BY <1>1, <1>2, <2>1, <2>3, KeptStep DEF Established
<1>5. QED
  BY <1>3, <1>4

\* FinAnswered and FinAcked: the exchange is complete.  What arrived names one
\* of our FINs, so the peer has received it.
LEMMA ClosedStep ==
  ASSUME Inv, NEW p \in net, NEW rest, rest \subseteq net, NEW o, o = Found(p), o # NONE,
         NEW c, c = Seen(o, p), Counters,
         FinAnswered(o, c, p, rest) \/ FinAcked(o, c, p, rest)
  PROVE  Inv'
<1> DEFINE out == << <<"closed", "NO_ERROR">> >>
<1>1. /\ o \in Ids /\ c \in Connection /\ c = conn[o] /\ c.state \in {"FIN_SENT", "FIN_RECEIVED"}
      /\ (o = CLIENT => ClientTold)
  BY SeenFacts DEF FinAnswered, FinAcked, Established
<1>2. kcp_connection_destroy(o, out) /\ net' \subseteq net \cup {Packet(o, conn[o], "ACK", p.rand, NONE)}
  BY <1>1 DEF FinAnswered, FinAcked
<1>3. p.sn # NONE
  <2>1. c.fins \in Seq(Sns)
    BY <1>1, ConnectionFields
  <2>2. DOMAIN c.fins \subseteq Nat
    BY <2>1
  <2>3. PICK n \in Nat : p.sn = <<o, n>>
    BY <2>2 DEF FinAnswered, FinAcked
  <2>4. p.sn \in Ids \X Nat
    BY <1>1, <2>3
  <2>5. QED
    BY <2>4, ConnAssumption DEF Ids
<1>4. \E x \in Other(o) : conn[x].state \in {"FIN_RECEIVED", "FREED"}
  <2>1. /\ PacketOK(p) /\ p.scid \in Ids \cup {NONE} /\ p.to \in {"client", "server"}
        /\ (o = CLIENT <=> p.to = "client") /\ p.cmd \in {"FIN", "ACK"}
    BY ArrivalFacts DEF FinAnswered, FinAcked
  <2>2. p.scid # NONE /\ conn[p.scid].state \in {"FIN_RECEIVED", "FREED"}
    BY <1>3, <2>1 DEF PacketOK
  <2>3. p.scid = CLIENT <=> p.to = "server"
    BY <2>1, <2>2 DEF PacketOK
  <2>4. p.scid \in Other(o)
    BY <2>1, <2>2, <2>3 DEF Other, Ids
  <2>5. QED
    BY <2>2, <2>4
<1>5. CallsFit(o, out) /\ CallsTrue(o, out)
  <2>1. "closed" \in Callbacks /\ "NO_ERROR" \in Codes
    BY DEF Callbacks, Codes
  <2>2. QED
    BY <1>4, <2>1, OneCall
<1> HIDE DEF out
<1>6. NetOK
  <2>1. Update(o, Freed(1), out) /\ 1 \in 1..2
    BY <1>1, <1>2, DestroyUpdate
  <2>2. p.rand \in Sns
    BY ArrivalFacts
  <2>3. QED
    BY <1>1, <1>2, <1>5, <2>1, <2>2, LastNet
<1>7. QED
  BY <1>1, <1>2, <1>5, <1>6, DestroyStep

\* kcp_parse_packet, whichever branch it takes.
LEMMA ReceiveStep ==
  ASSUME Inv, NEW p \in net, NEW rest, rest \subseteq net, Counters, kcp_parse_packet(p, rest)
  PROVE  Inv'
<1>1. CASE \/ PacketDropped(p, rest) \/ NoConnection(p, rest)
           \/ AcceptConflict(p, rest) \/ ConnectRefused(p, rest)
  BY <1>1, NoObjectStep
<1>2. CASE kcp_accept(p, rest)
  BY <1>2, AcceptStep
<1>3. CASE SynReply(p, rest)
  BY <1>3, SynReplyStep
<1>4. CASE on_kcp_read_event(p, rest)
  <2> DEFINE o == Found(p)
             c == Seen(o, p)
  <2>1. /\ o # NONE
        /\ \/ OtherHost(o, c, p, rest) \/ Reset(o, c, p, rest) \/ GivenUpReleased(o, c, p, rest)
           \/ Accepted(o, c, p, rest) \/ AcceptAborted(o, c, p, rest)
           \/ FinReceived(o, c, p, rest) \/ FinAnswered(o, c, p, rest)
           \/ FinAgain(o, c, p, rest) \/ FinAcked(o, c, p, rest)
           \/ NothingToDo(o, c, p, rest)
    BY <1>4 DEF on_kcp_read_event, Seen
  <2> HIDE DEF o, c
  <2>2. o = Found(p) /\ c = Seen(o, p)
    BY DEF o, c
  <2>3. CASE OtherHost(o, c, p, rest) \/ NothingToDo(o, c, p, rest)
    <3>1. Update(o, c, <<>>) /\ net' \subseteq net /\ tree' = tree
      BY <2>3 DEF OtherHost, NothingToDo
    <3>2. QED
      BY <2>1, <2>2, <3>1, SeenStep
  <2>4. QED
    BY <2>1, <2>2, <2>3, ResetStep, GivenUpStep, AcceptedStep, AbortStep, FinAnswerStep, ClosedStep
<1>5. QED
  BY <1>1, <1>2, <1>3, <1>4 DEF kcp_parse_packet

\* Every step preserves the invariant.
LEMMA NextInv == Inv /\ [Next]_vars => Inv'
<1> SUFFICES ASSUME Inv, [Next]_vars PROVE Inv'
  OBVIOUS
<1>1. ASSUME NEW a \in PATHS, kcp_connect_candidates(a) PROVE Inv'
  BY <1>1, ConnectStep
<1>2. ASSUME NEW o \in Ids, Timeouts(o) PROVE Inv'
  <2>1. o # CLIENT => o \in OBJECTS
    BY DEF Ids
  <2>2. QED
    BY <1>2, <2>1, ConnectTimeoutStep, AcceptTimeoutStep, CloseTimeoutStep, FinTimeoutStep DEF Timeouts
<1>3. ASSUME NEW o \in Ids, kcp_close(o) \/ kcp_shutdown(o) \/ FlushSends(o) \/ GivesUp(o) PROVE Inv'
  BY <1>3, CloseStep, ShutdownStep, FlushStep, GiveUpStep
<1>4. ASSUME NEW p \in net, Receive(p) PROVE Inv'
  <2>1. Counters
    BY <1>4 DEF Receive, Counters, Inv, Typed
  <2>2. net \ {p} \subseteq net /\ kcp_parse_packet(p, net \ {p})
    BY <1>4 DEF Receive
  <2>3. QED
    BY <2>1, <2>2, ReceiveStep
<1>5. ASSUME NEW p \in net, ReceiveCopy(p) PROVE Inv'
  <2>1. Counters
    BY <1>5 DEF ReceiveCopy, Counters, Inv, Typed
  <2>2. net \subseteq net /\ kcp_parse_packet(p, net)
    BY <1>5 DEF ReceiveCopy
  <2>3. QED
    BY <2>1, <2>2, ReceiveStep
<1>6. ASSUME NEW p \in net, Lose(p) PROVE Inv'
  BY <1>6, LoseStep
<1>7. CASE UNCHANGED vars
  <2>1. UNCHANGED <<conn, log>> /\ tree' \in {tree, NONE} /\ NetOK /\ Counters
    BY <1>7 DEF vars, NetOK, Counters, Inv, Typed
  <2>2. QED
    BY <2>1, IdleStep
<1>8. QED
  BY <1>1, <1>2, <1>3, <1>4, <1>5, <1>6, <1>7 DEF Next, ReceiveAny

\* The initial state satisfies it.
LEMMA InitInv == Init => Inv
<1> SUFFICES ASSUME Init PROVE Inv
  OBVIOUS
<1>1. /\ \A o \in Ids : conn[o] = kcp_connection_init /\ log[o] = <<>>
      /\ tree = NONE /\ net = {} /\ losses = 0 /\ dups = 0 /\ events = 0 /\ CLIENT \in Ids
  BY DEF Init, Ids
<1>2. Typed
  <2>1. conn \in [Ids -> Connection]
    BY InitialConnection DEF Init
  <2>2. log \in [Ids -> Seq(Callbacks \X Codes)]
    BY DEF Init
  <2>3. QED
    BY <1>1, <2>1, <2>2 DEF Typed
<1>3. PICK i : i = kcp_connection_init
  OBVIOUS
<1>4. /\ i.state = "NONE" /\ i.dcid = NONE /\ i.syns = 0 /\ i.syn_retries = RETRIES
      /\ ~i.syn_timer /\ ~i.fin_timer /\ i.freed = 0
  BY <1>3 DEF kcp_connection_init
<1>5. \A o \in Ids : conn[o] = i /\ log[o] = <<>>
  BY <1>1, <1>3
<1>6. \A o \in Ids : ObjectOK(o, conn[o]) /\ LogOK(log[o], conn[o].state)
  BY <1>4, <1>5, ConnAssumption DEF ObjectOK, LogOK
<1>7. conn[CLIENT].state \notin Established /\ PeerOK /\ TreeOK
  BY <1>1, <1>4, <1>5, ConnAssumption DEF Established, PeerOK, TreeOK
<1>8. \A o \in Ids : \A cb, code : ~Reported(o, cb, code)
  BY <1>5 DEF Reported
<1>9. AcceptedIsConnected /\ GracefulIsMutual
  BY <1>8 DEF AcceptedIsConnected, GracefulIsMutual, Ids
<1>10. QED
  BY <1>1, <1>2, <1>6, <1>7, <1>9 DEF Inv

----------------------------------------------------------------------------
\* The theorems

\* Inv holds in every reachable state, however SYN, FIN, RST, timers, losses
\* and duplicates interleave.
THEOREM Invariance == Spec => []Inv
<1>1. Init => Inv
  BY InitInv
<1>2. Inv /\ [Next]_vars => Inv'
  BY NextInv
<1>3. QED
  BY <1>1, <1>2, PTL DEF Spec

\* The types of the variables; a timer runs only in the state its callback
\* expects (kcp_accept_timeout, kcp_close_timeout, on_fin_packet_timeout_cb).
THEOREM TypeCorrect == Spec => []TypeOK
<1>1. Inv => TypeOK
  <2> SUFFICES ASSUME Inv PROVE TypeOK
    OBVIOUS
  <2>1. \A o \in Ids : \A i \in DOMAIN log[o] : log[o][i][1] \in Callbacks
    <3> TAKE o \in Ids
    <3>1. log[o] \in Seq(Callbacks \X Codes)
      BY DEF Inv, Typed
    <3>2. \A i \in DOMAIN log[o] : log[o][i] \in Callbacks \X Codes
      BY <3>1
    <3>3. QED
      BY <3>2
  <2>2. QED
    BY <2>1 DEF Inv, Typed, TypeOK, ObjectOK
<1>2. QED
  BY <1>1, Invariance, PTL

\* Every connection reports one outcome of its handshake at most, on_closed at
\* most once, and nothing after it (kcp_connection_destroy and its callers).
THEOREM ReportsOnce == Spec => []OneOutcome
<1>1. Inv => OneOutcome
  <2> SUFFICES ASSUME Inv, NEW o \in Ids
               PROVE  /\ Cardinality(Calls(o, "connected") \cup Calls(o, "accepted")) <= 1
                      /\ \A i \in Calls(o, "closed") : i = Len(log[o])
    BY DEF OneOutcome
  <2> DEFINE S == Calls(o, "connected") \cup Calls(o, "accepted")
  <2>1. LogOK(log[o], conn[o].state)
    BY DEF Inv
  <2>2. \A i, j \in S : i = j
    BY <2>1 DEF LogOK, Calls, IsOutcome
  <2>3. Cardinality(S) <= 1
    <3> HIDE DEF S
    <3>1. CASE S = {}
      BY <3>1, FS_EmptySet
    <3>2. ASSUME NEW i \in S PROVE Cardinality(S) <= 1
      <4>1. S = {i}
        BY <2>2, <3>2
      <4>2. Cardinality({i}) = 1
        BY FS_Singleton
      <4>3. QED
        BY <4>1, <4>2
    <3>3. QED
      BY <3>1, <3>2
  <2>4. \A i \in Calls(o, "closed") : i = Len(log[o])
    BY <2>1 DEF LogOK, Calls
  <2>5. QED
    BY <2>3, <2>4
<1>2. QED
  BY <1>1, Invariance, PTL

\* on_accepted reports success only where the client reported it before
\* (on_kcp_read_event in SYN_RECEIVED, on_kcp_syn_received at the client).
THEOREM NoHalfOpen == Spec => []AcceptedIsConnected
<1>1. Inv => AcceptedIsConnected
  BY DEF Inv
<1>2. QED
  BY <1>1, Invariance, PTL

\* An established client and the object it talks to use the same path, however
\* many candidates answer (on_kcp_syn_received, kcp_accept).
THEOREM SamePath == Spec => []PathsAgree
<1>1. Inv => PathsAgree
  BY DEF Inv, PeerOK, PathsAgree
<1>2. QED
  BY <1>1, Invariance, PTL

\* A close reported as graceful was answered by the other side (on_kcp_fin_pcaket,
\* on_kcp_read_event in the FIN states).
THEOREM GracefulClose == Spec => []GracefulIsMutual
<1>1. Inv => GracefulIsMutual
  BY DEF Inv
<1>2. QED
  BY <1>1, Invariance, PTL
=============================================================================
