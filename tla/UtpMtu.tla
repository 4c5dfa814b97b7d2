------------------------------- MODULE UtpMtu -------------------------------
(***************************************************************************)
(* Path MTU discovery of a libutp connection: MtuDiscovery (mtu.cpp), the  *)
(* probe that SendControl::onCanWrite sends, and what onAckReceived,       *)
(* detectLosses and expireUnacked (send_ctl.cpp) tell it of probes and of  *)
(* full-sized data packets.                                                *)
(*                                                                         *)
(* m is the MtuDiscovery object, its fields without "m_", "search" and     *)
(* "inFlight".  Times are kept as what is left of them (next, deadline,    *)
(* cooldown), and the two "last" times as the time gone since, where the   *)
(* cap stands for never as well: the code does not tell the two apart.     *)
(* Packet sizes are given as the MTU they need; PacketSizeFromMtu takes    *)
(* the same headers off both sides of every comparison.                    *)
(*                                                                         *)
(* unacked holds the probes the send control tracks, those the discovery   *)
(* has given up included.  A path may carry any size and stop carrying it: *)
(* every probe and data packet may be acknowledged or lost, at any time.   *)
(* Packet numbers are fresh names.                                         *)
(***************************************************************************)
EXTENDS Integers

CONSTANTS
  CONFIGS,        \* the configurations [min, max, base], before init makes them consistent
  MIN_SUPPORTED,  \* MinimumSupportedMtu of the address family
  STEP,           \* m_probeStep
  TIMEOUT, INTERVAL, WINDOW, COOLDOWN,   \* of probes, of rounds, of losses, after a fallback
  THRESHOLD,      \* m_blackholeLossThreshold
  STREAK_MAX,     \* UINT8_MAX, where m_largeLossStreak stops counting
  DATA_SIZES,     \* the sizes of data packets, those sent under an earlier MTU included
  MAX_UNACKED     \* bound: probes tracked at once

ETHERNET == 1500                                \* UTP_ETHERNET_MTU
kProbeLadderMtu == {1380, 1450, 1492, 1500}

ASSUME MtuAssumption ==
  /\ CONFIGS \subseteq [min : Nat, max : Nat, base : Nat]
  /\ MIN_SUPPORTED \in 1..ETHERNET
  /\ STEP \in 1..(65535 - ETHERNET)   \* a larger one wraps low + step around
  /\ STREAK_MAX \in Nat /\ THRESHOLD \in 1..STREAK_MAX
  /\ TIMEOUT \in Nat \ {0} /\ INTERVAL \in Nat \ {0} /\ WINDOW \in Nat /\ COOLDOWN \in Nat
  /\ DATA_SIZES \subseteq Nat
  /\ MAX_UNACKED \in Nat

VARIABLES
  m,          \* the MtuDiscovery object
  unacked,    \* probes tracked by the send control
  confirmed   \* history: the largest probe acknowledged on this path

vars == <<m, unacked, confirmed>>

Phases == {"Ladder", "Binary", "Stable"}
ACK_CAP  == 2 * TIMEOUT + 1
LOSS_CAP == WINDOW + 1

Larger(a, b)  == IF a > b THEN a ELSE b
Smaller(a, b) == IF a < b THEN a ELSE b
Uint16(n) == n % 65536
ClampValue(v, lo, hi) == IF v < lo THEN lo ELSE IF v > hi THEN hi ELSE v

----------------------------------------------------------------------------
\* MtuDiscovery

InitBaseAsGiven(cfg, enabled) ==
  LET min == ClampValue(cfg.min, MIN_SUPPORTED, ETHERNET)
      max == ClampValue(cfg.max, min, ETHERNET)
  IN  [enabled |-> enabled, min |-> min, max |-> max, base |-> cfg.base,
       current |-> cfg.base, ceiling |-> max, low |-> cfg.base, high |-> max, phase |-> "Ladder",
       next |-> 0, ack |-> ACK_CAP, loss |-> LOSS_CAP, cooldown |-> 0, streak |-> 0,
       packno |-> 0, probe |-> 0, deadline |-> 0]

init(cfg, enabled) ==
  LET min  == ClampValue(cfg.min, MIN_SUPPORTED, ETHERNET)
      max  == ClampValue(cfg.max, min, ETHERNET)
      base == ClampValue(cfg.base, min, max)
  IN  [enabled |-> enabled, min |-> min, max |-> max, base |-> base,
       current |-> base, ceiling |-> max, low |-> base, high |-> max, phase |-> "Ladder",
       next |-> 0, ack |-> ACK_CAP, loss |-> LOSS_CAP, cooldown |-> 0, streak |-> 0,
       packno |-> 0, probe |-> 0, deadline |-> 0]

clearInFlightProbe(s) == [s EXCEPT !.packno = 0, !.probe = 0, !.deadline = 0]

\* A new path was validated: the search starts again from the base MTU.
onPathValidated(s) ==
  [clearInFlightProbe(s) EXCEPT
     !.current = s.base, !.low = s.base, !.ack = ACK_CAP, !.loss = LOSS_CAP,
     !.streak = 0, !.cooldown = 0, !.next = 0,
     !.ceiling = IF s.enabled THEN s.max ELSE s.base,
     !.high = IF s.enabled THEN s.max ELSE s.base,
     !.phase = IF s.enabled THEN "Ladder" ELSE "Stable"]

\* The next rung above low, low itself when there is none.
nextLadderTarget(s) ==
  LET up == {x \in kProbeLadderMtu : s.low < x /\ x <= s.ceiling /\ x <= s.max /\ s.min <= x}
  IN  IF up = {} THEN s.low ELSE CHOOSE x \in up : \A y \in up : x <= y

\* The middle of low + 1 .. high, low itself when the search has converged.
nextBinaryTarget(s) ==
  IF s.high <= s.low + STEP \/ s.low + 1 >= s.high
  THEN s.low
  ELSE (s.low + 1) + (s.high - (s.low + 1)) \div 2

nextProbeMtu(s) ==
  IF ~s.enabled \/ s.low >= s.ceiling \/ s.phase = "Stable" THEN s.low
  ELSE IF s.phase = "Ladder" /\ nextLadderTarget(s) > s.low THEN nextLadderTarget(s)
  ELSE nextBinaryTarget(s)

shouldProbe(s) ==
  /\ s.enabled /\ s.packno = 0
  /\ s.cooldown = 0 /\ s.next = 0
  /\ nextProbeMtu(s) > s.low

onProbeSent(s, packno, probe) ==
  LET clamped == ClampValue(probe, s.low + 1, s.ceiling)
      rung    == nextLadderTarget(s)
  IN  IF clamped <= s.low THEN s
      ELSE [s EXCEPT !.packno = packno, !.probe = clamped, !.deadline = TIMEOUT,
                     !.phase = IF @ = "Ladder" /\ (rung = s.low \/ clamped # rung) THEN "Binary" ELSE @]

\* The round is over: what the search confirmed becomes the MTU in use.
Commit(s) == [s EXCEPT !.current = s.low, !.ceiling = s.low, !.phase = "Stable", !.next = INTERVAL]

ProbeAckAny(s, packno) ==
  LET low == Larger(s.low, s.probe)
      t   == [clearInFlightProbe(s) EXCEPT !.low = low, !.ack = 0, !.streak = 0]
  IN  IF s.packno = 0 THEN s
      ELSE IF low >= s.max THEN [Commit(t) EXCEPT !.current = s.max, !.ceiling = s.max,
                                                  !.low = s.max, !.high = s.max]
      ELSE IF t.phase = "Binary" /\ t.high <= Uint16(low + STEP) THEN Commit(t)
      ELSE [t EXCEPT !.next = 1]

ProbeAckStaysOnLadder(s, packno) ==
  LET low == Larger(s.low, s.probe)
      t   == [clearInFlightProbe(s) EXCEPT !.low = low, !.ack = 0, !.streak = 0]
  IN  IF s.packno = 0 \/ packno # s.packno THEN s
      ELSE IF low >= s.max THEN [Commit(t) EXCEPT !.current = s.max, !.ceiling = s.max,
                                                  !.low = s.max, !.high = s.max]
      ELSE IF t.phase = "Binary" /\ t.high <= Uint16(low + STEP) THEN Commit(t)
      ELSE [t EXCEPT !.next = 1]

ProbeAckCommitsEarly(s, packno) ==
  LET low == Larger(s.low, s.probe)
      t   == [clearInFlightProbe(s) EXCEPT !.low = low, !.ack = 0, !.streak = 0, !.next = 1, !.current = low]
  IN  IF s.packno = 0 \/ packno # s.packno THEN s ELSE t

onProbeAck(s, packno) ==
  LET low  == Larger(s.low, s.probe)
      t    == [clearInFlightProbe(s) EXCEPT !.low = low, !.ack = 0, !.streak = 0]
      done == t.phase = "Ladder" /\ nextLadderTarget(t) <= low
      u    == [t EXCEPT !.phase = IF done THEN "Binary" ELSE @]
  IN  IF s.packno = 0 \/ packno # s.packno THEN s
      ELSE IF low >= s.max THEN [Commit(u) EXCEPT !.current = s.max, !.ceiling = s.max,
                                                  !.low = s.max, !.high = s.max]
      ELSE IF u.phase = "Binary" /\ u.high <= Uint16(low + STEP) THEN Commit(u)
      ELSE [u EXCEPT !.next = 1]

onProbeLost(s, packno) ==
  LET high == Smaller(s.high, s.probe - 1)
      t    == [clearInFlightProbe(s) EXCEPT !.high = high, !.ceiling = Smaller(@, high), !.phase = "Binary"]
  IN  IF s.packno = 0 \/ packno # s.packno THEN s
      ELSE IF high <= Uint16(s.low + STEP) THEN Commit(t)
      ELSE [t EXCEPT !.next = 1]

\* A data packet counts when it is nearly as large as the current MTU allows.
Relevant(s, size) == s.enabled /\ size + STEP >= s.current

onDataPacketAck(s, size) ==
  IF Relevant(s, size) THEN [s EXCEPT !.ack = 0, !.streak = 0] ELSE s

DataLossUncapped(s, size) ==
  IF ~Relevant(s, size) THEN s
  ELSE [s EXCEPT !.loss = 0, !.streak = (IF s.loss > WINDOW THEN 0 ELSE s.streak) + 1]

DataLossProbeKept(s, size) ==
  LET streak == (IF s.loss > WINDOW THEN 0 ELSE s.streak) + 1
  IN  IF ~Relevant(s, size) THEN s
      ELSE IF streak < THRESHOLD \/ s.ack <= 2 * TIMEOUT
      THEN [s EXCEPT !.loss = 0, !.streak = Smaller(streak, STREAK_MAX)]
      ELSE [s EXCEPT !.loss = 0, !.streak = 0, !.current = s.min, !.low = s.min,
                     !.ceiling = s.max, !.high = s.max, !.phase = "Ladder",
                     !.cooldown = COOLDOWN, !.next = COOLDOWN]

\* The black hole: after THRESHOLD losses within the window and no recent
\* acknowledgement the MTU falls back to the smallest.
onDataPacketLoss(s, size) ==
  LET streak == (IF s.loss > WINDOW THEN 0 ELSE s.streak) + 1
  IN  IF ~Relevant(s, size) THEN s
      ELSE IF streak < THRESHOLD \/ s.ack <= 2 * TIMEOUT
      THEN [s EXCEPT !.loss = 0, !.streak = Smaller(streak, STREAK_MAX)]
      ELSE [clearInFlightProbe(s) EXCEPT
              !.loss = 0, !.streak = 0, !.current = s.min, !.low = s.min,
              !.ceiling = s.max, !.high = s.max, !.phase = "Ladder",
              !.cooldown = COOLDOWN, !.next = COOLDOWN]

----------------------------------------------------------------------------
\* The send control and the path

Init ==
  /\ \E cfg \in CONFIGS, enabled \in BOOLEAN : m = init(cfg, enabled)
  /\ unacked = {}
  /\ confirmed = 0

\* packetNumber: no packet has it and the discovery does not wait for it.
Fresh(no) == no # m.packno /\ \A p \in unacked : p.no # no

Numbers == 1 .. MAX_UNACKED

ProbeTimeoutNever ==
  /\ m.packno # 0 /\ m.deadline > TIMEOUT
  /\ m' = onProbeLost(m, m.packno)
  /\ UNCHANGED <<unacked, confirmed>>

\* onCanWrite: the deadline of the probe in flight has passed.
ProbeTimeout ==
  /\ m.packno # 0 /\ m.deadline = 0
  /\ m' = onProbeLost(m, m.packno)
  /\ UNCHANGED <<unacked, confirmed>>

\* onCanWrite: a probe is due, and sendPacket accepts it.
SendProbe(no) ==
  /\ shouldProbe(m)
  /\ Fresh(no)
  /\ m' = onProbeSent(m, no, nextProbeMtu(m))
  /\ unacked' = unacked \cup {[no |-> no, mtu |-> nextProbeMtu(m), here |-> TRUE]}
  /\ UNCHANGED confirmed

onCanWrite == ProbeTimeout \/ \E no \in Numbers : SendProbe(no)

\* onAckReceived for a probe.
ProbeAcked(p) ==
  /\ m' = onProbeAck(m, p.no)
  /\ unacked' = unacked \ {p}
  /\ confirmed' = IF p.here THEN Larger(confirmed, p.mtu) ELSE confirmed

\* handleLostMtuProbe: a later packet was acknowledged, or the timer ran out.
ProbeLost(p) ==
  /\ m' = onProbeLost(m, p.no)
  /\ unacked' = unacked \ {p}
  /\ UNCHANGED confirmed

\* A probe found lost by its sending time, or expired as the last packet, is
\* sent again as it is under a new number; the discovery is not told.
ProbeSentAgain(p, no) ==
  /\ Fresh(no)
  /\ unacked' = (unacked \ {p}) \cup {[p EXCEPT !.no = no, !.here = TRUE]}
  /\ UNCHANGED <<m, confirmed>>

\* onAckReceived and detectLosses for a data packet.
DataAcked(size) == m' = onDataPacketAck(m, size) /\ UNCHANGED <<unacked, confirmed>>
DataLost(size)  == m' = onDataPacketLoss(m, size) /\ UNCHANGED <<unacked, confirmed>>

\* A PATH_RESPONSE validated another path: m_peerAddress changes.
PathValidated ==
  /\ m' = onPathValidated(m)
  /\ unacked' = {[p EXCEPT !.here = FALSE] : p \in unacked}
  /\ confirmed' = 0

Tick ==
  /\ m' = [m EXCEPT !.next = Larger(0, @ - 1), !.deadline = Larger(0, @ - 1),
                    !.cooldown = Larger(0, @ - 1),
                    !.ack = Smaller(ACK_CAP, @ + 1), !.loss = Smaller(LOSS_CAP, @ + 1)]
  /\ UNCHANGED <<unacked, confirmed>>

Next ==
  \/ onCanWrite
  \/ \E p \in unacked : ProbeAcked(p) \/ ProbeLost(p)
  \/ \E p \in unacked, no \in Numbers : ProbeSentAgain(p, no)
  \/ \E size \in DATA_SIZES : DataAcked(size) \/ DataLost(size)
  \/ PathValidated
  \/ Tick

Spec == Init /\ [][Next]_vars

\* Time passes, the connection goes on writing, and the timer of the send
\* control settles every probe.
Fairness ==
  WF_vars(Tick) /\ WF_vars(onCanWrite) /\ WF_vars(\E p \in unacked : ProbeLost(p))

FairSpec == Spec /\ Fairness

----------------------------------------------------------------------------
\* Properties

Discovery ==
  [enabled : BOOLEAN, min : Nat, max : Nat, base : Nat,
   current : Nat, ceiling : Nat, low : Nat, high : Nat, phase : Phases,
   next : Nat, ack : Nat, loss : Nat, cooldown : Nat, streak : Nat,
   packno : Nat, probe : Nat, deadline : Nat]

Probe == [no : Nat, mtu : Nat, here : BOOLEAN]

\* The types of the object, of the tracked probes and of the history; the
\* counter of losses stops where its type does.
TypeOK ==
  /\ m \in Discovery /\ m.streak <= STREAK_MAX
  /\ unacked \subseteq Probe
  /\ confirmed \in Nat

\* The MTU in use, the confirmed one and the ceiling of the search stay in
\* order between the smallest and the largest MTU, and a probe in flight lies
\* above the confirmed MTU and within the ceiling, through every round and
\* fallback.  Of the three constraints of the design document (11.1.1) these
\* are min <= base <= max, min <= current <= max and the upper half of the
\* third, validated <= max; its lower half is BaseKept, which does not hold.
InOrder(s) ==
  /\ s.min <= s.base /\ s.base <= s.max /\ s.max <= ETHERNET
  /\ s.min <= s.current /\ s.current <= s.low /\ s.low <= s.ceiling /\ s.ceiling <= s.max
  /\ s.packno # 0 => s.low < s.probe /\ s.probe <= s.ceiling

Bounds == InOrder(m)

\* The lower half of the third constraint of 11.1.1, base_mtu <= validated_mtu:
\* the confirmed MTU (m_searchLowMtu) is never below the base MTU.  The fallback
\* of onDataPacketLoss sets it to the smallest MTU, so this is violated.
BaseKept == m.base <= m.low

\* Data never grows past the base MTU on the word of a probe that was lost, is
\* still on its way, or was acknowledged over an earlier path: however probes
\* time out, are sent again and are acknowledged late, onProbeAck raises the
\* MTU to what an acknowledgement on this path confirmed.
Confirmed == m.low <= Larger(m.base, confirmed)

\* The search is never stuck with a confirmed MTU it does not use: while low
\* is above the MTU in use there is a probe in flight or another one to send.
GoesOn(s) == s.enabled /\ s.current < s.low => s.packno # 0 \/ nextProbeMtu(s) > s.low

NoDeadEnd == GoesOn(m)

\* After a black hole nothing is probed until the cooldown is over (11.1.4):
\* the fallback also forgets the probe in flight.
Quiet(s) == s.cooldown > 0 => s.packno = 0

CooldownQuiet == Quiet(m)

\* The rest of the inductive invariant of the proofs.  In a round the ceiling
\* is the upper bound of the search; between rounds and with the discovery
\* switched off nothing is in flight and the MTU in use is the confirmed one.
InRound(s) ==
  /\ s.low <= s.high /\ s.high <= s.max
  /\ s.phase # "Stable" => s.ceiling = s.high
  /\ s.phase = "Stable" \/ ~s.enabled => s.current = s.low /\ s.packno = 0

\* The packet that carries the awaited number is the probe in flight, sent on
\* this path: no other probe can pass for it.
Awaited == \A p \in unacked : m.packno # 0 /\ p.no = m.packno => p.mtu = m.probe /\ p.here

\* All of it, for every state of the object and of the probes tracked.
Inv ==
  /\ TypeOK /\ Bounds /\ InRound(m) /\ NoDeadEnd /\ CooldownQuiet
  /\ Awaited /\ Confirmed

\* Deferred commit (11.1.2): the MTU in use grows only when the round is over,
\* with nothing left to probe.
DeferredCommit == [][m'.current > m.current => nextProbeMtu(m') = m'.low \/ m'.current = m.base]_m

\* Every round ends: a confirmed MTU is put to use, or is given up by a
\* fallback or a new path, however probes are lost or late.
RoundEnds == m.current < m.low ~> m.current = m.low
=============================================================================
