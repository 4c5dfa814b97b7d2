--------------------------- MODULE UtpMtu_proofs ----------------------------
(***************************************************************************)
(* Proofs about UtpMtu: Inv is inductive, for every configuration, step,   *)
(* time constant and bound.  Every operation of MtuDiscovery keeps Good,   *)
(* the part of Inv that speaks of the object alone; the actions follow.    *)
(***************************************************************************)
EXTENDS UtpMtu, TLAPS

Good(s) == s \in Discovery /\ s.streak <= STREAK_MAX /\ InOrder(s) /\ InRound(s) /\ GoesOn(s) /\ Quiet(s)

----------------------------------------------------------------------------
\* The targets of the search

\* A rung lies above low and within the ceiling, unless there is none.
LEMMA LadderTarget ==
  ASSUME NEW s \in Discovery
  PROVE  /\ nextLadderTarget(s) \in Nat
         /\ nextLadderTarget(s) # s.low => s.low < nextLadderTarget(s) /\ nextLadderTarget(s) <= s.ceiling
<1> DEFINE up == {x \in kProbeLadderMtu : s.low < x /\ x <= s.ceiling /\ x <= s.max /\ s.min <= x}
<1>1. s.low \in Nat /\ s.ceiling \in Nat
  BY DEF Discovery
<1>2. CASE up = {}
  BY <1>1, <1>2 DEF nextLadderTarget
<1>3. CASE up # {}
  <2>1. up \subseteq {1380, 1450, 1492, 1500}
    BY DEF kProbeLadderMtu
  <2>2. \E x \in up : \A y \in up : x <= y
    BY <1>3, <2>1
  <2>3. (CHOOSE x \in up : \A y \in up : x <= y) \in up
    BY <2>2
  <2>4. nextLadderTarget(s) = CHOOSE x \in up : \A y \in up : x <= y
    BY <1>3 DEF nextLadderTarget
  <2> HIDE DEF up
  <2>5. nextLadderTarget(s) \in up
    BY <2>3, <2>4
  <2> QED
    BY <1>1, <2>1, <2>5 DEF up
<1> QED
  BY <1>2, <1>3

\* The middle lies above low and below high, unless the search has converged.
LEMMA BinaryTarget ==
  ASSUME NEW s \in Discovery
  PROVE  IF s.high <= s.low + STEP THEN nextBinaryTarget(s) = s.low
         ELSE nextBinaryTarget(s) \in Nat /\ s.low < nextBinaryTarget(s) /\ nextBinaryTarget(s) <= s.high
<1>1. s.low \in Nat /\ s.high \in Nat /\ STEP \in Nat /\ STEP >= 1
  BY MtuAssumption DEF Discovery, ETHERNET
<1>2. CASE s.high <= s.low + STEP
  BY <1>1, <1>2 DEF nextBinaryTarget
<1>3. CASE ~(s.high <= s.low + STEP)
  <2> DEFINE d == s.high - (s.low + 1)
  <2>1. d \in Nat /\ d >= 1
    BY <1>1, <1>3
  <2>2. d \div 2 \in Nat /\ d \div 2 <= d
    BY <2>1
  <2>3. nextBinaryTarget(s) = (s.low + 1) + d \div 2
    BY <1>1, <1>3 DEF nextBinaryTarget
  <2> HIDE DEF d
  <2>4. s.high = d + (s.low + 1)
    BY <1>1 DEF d
  <2> QED
    BY <1>1, <1>3, <2>1, <2>2, <2>3, <2>4
<1> QED
  BY <1>2, <1>3

\* A probe lies above low and within the ceiling, or there is none.
LEMMA ProbeTarget ==
  ASSUME NEW s \in Discovery, InOrder(s), InRound(s)
  PROVE  /\ nextProbeMtu(s) \in Nat
         /\ nextProbeMtu(s) # s.low => /\ s.low < nextProbeMtu(s) /\ nextProbeMtu(s) <= s.ceiling
                                       /\ s.enabled /\ s.phase # "Stable"
<1>1. s.low \in Nat /\ s.high \in Nat /\ s.ceiling \in Nat /\ STEP \in Nat
  BY MtuAssumption DEF Discovery, ETHERNET
<1>2. s.phase # "Stable" => s.ceiling = s.high
  BY DEF InRound
<1> QED
  BY <1>1, <1>2, LadderTarget, BinaryTarget DEF nextProbeMtu

----------------------------------------------------------------------------
\* The operations of MtuDiscovery

\* The constants, in the form the steps below use them.
LEMMA Constants ==
  /\ STEP \in Nat /\ STEP >= 1 /\ ETHERNET = 1500 /\ MIN_SUPPORTED \in 1..1500
  /\ TIMEOUT \in Nat /\ INTERVAL \in Nat /\ COOLDOWN \in Nat /\ WINDOW \in Nat
  /\ ACK_CAP \in Nat /\ LOSS_CAP \in Nat /\ ACK_CAP > 0 /\ LOSS_CAP > 0
  /\ STREAK_MAX \in Nat
BY MtuAssumption DEF ETHERNET, ACK_CAP, LOSS_CAP

\* The uint16_t of low + step holds the sum: no MTU exceeds the Ethernet one.
LEMMA NoWrap ==
  ASSUME NEW n \in Nat, n <= ETHERNET
  PROVE  Uint16(n + STEP) = n + STEP
<1>1. STEP \in Nat /\ STEP <= 65535 - 1500 /\ n <= 1500
  BY MtuAssumption DEF ETHERNET
<1>2. n + STEP \in Nat /\ n + STEP < 65536
  BY <1>1
<1> DEFINE k == n + STEP
<1>3. k \in Nat /\ k < 65536
  BY <1>2
<1> HIDE DEF k
<1>4. k % 65536 = k
  BY <1>3
<1> QED
  BY <1>4 DEF Uint16, k

LEMMA InitGood ==
  ASSUME NEW cfg \in CONFIGS, NEW enabled \in BOOLEAN
  PROVE  Good(init(cfg, enabled))
<1> DEFINE min  == ClampValue(cfg.min, MIN_SUPPORTED, ETHERNET)
           max  == ClampValue(cfg.max, min, ETHERNET)
           base == ClampValue(cfg.base, min, max)
           s    == init(cfg, enabled)
<1>1. cfg.min \in Nat /\ cfg.max \in Nat /\ cfg.base \in Nat
  BY MtuAssumption
<1>2. min \in Nat /\ max \in Nat /\ base \in Nat /\ min <= base /\ base <= max /\ max <= ETHERNET
  BY <1>1, Constants DEF ClampValue
<1>3. s = [enabled |-> enabled, min |-> min, max |-> max, base |-> base,
           current |-> base, ceiling |-> max, low |-> base, high |-> max, phase |-> "Ladder",
           next |-> 0, ack |-> ACK_CAP, loss |-> LOSS_CAP, cooldown |-> 0, streak |-> 0,
           packno |-> 0, probe |-> 0, deadline |-> 0]
  BY DEF init
<1> HIDE DEF min, max, base, s
<1>4. s \in Discovery
  BY <1>2, <1>3, Constants DEF Discovery, Phases
<1>5. InOrder(s) /\ InRound(s) /\ GoesOn(s) /\ Quiet(s) /\ s.streak <= STREAK_MAX
  BY <1>2, <1>3, Constants DEF InOrder, InRound, GoesOn, Quiet
<1> QED
  BY <1>4, <1>5 DEF Good, s

\* clearInFlightProbe leaves everything but the probe in flight.
LEMMA Cleared ==
  ASSUME NEW s \in Discovery
  PROVE  LET t == clearInFlightProbe(s)
         IN  /\ t \in Discovery /\ t.packno = 0 /\ t.enabled = s.enabled
             /\ t.min = s.min /\ t.max = s.max /\ t.base = s.base
             /\ t.current = s.current /\ t.ceiling = s.ceiling /\ t.low = s.low /\ t.high = s.high
             /\ t.phase = s.phase /\ t.cooldown = s.cooldown /\ t.streak = s.streak
BY DEF Discovery, clearInFlightProbe

LEMMA PathValidatedGood ==
  ASSUME NEW s, Good(s)
  PROVE  LET t == onPathValidated(s)
         IN  Good(t) /\ t.packno = 0 /\ t.low = s.base /\ t.base = s.base
<1> DEFINE u  == clearInFlightProbe(s)
           c  == IF s.enabled THEN s.max ELSE s.base
           ph == IF s.enabled THEN "Ladder" ELSE "Stable"
           t  == onPathValidated(s)
<1>1. s \in Discovery /\ InOrder(s)
  BY DEF Good
<1>2. /\ s.min \in Nat /\ s.max \in Nat /\ s.base \in Nat /\ c \in Nat /\ ph \in Phases
  BY <1>1 DEF Discovery, Phases
<1>3. t = [u EXCEPT !.current = s.base, !.low = s.base, !.ack = ACK_CAP, !.loss = LOSS_CAP,
                    !.streak = 0, !.cooldown = 0, !.next = 0, !.ceiling = c, !.high = c, !.phase = ph]
  BY DEF onPathValidated
<1>4. /\ u \in Discovery /\ u.packno = 0 /\ u.enabled = s.enabled
      /\ u.min = s.min /\ u.max = s.max /\ u.base = s.base
  BY <1>1, Cleared
<1>5. /\ s.enabled => c = s.max /\ ph = "Ladder"
      /\ ~s.enabled => c = s.base /\ ph = "Stable"
  OBVIOUS
<1> HIDE DEF u, c, ph, t
<1>6. t \in Discovery
  <2>1. /\ u \in Discovery /\ s.base \in Nat /\ c \in Nat /\ ph \in Phases
        /\ ACK_CAP \in Nat /\ LOSS_CAP \in Nat /\ 0 \in Nat
    BY <1>2, <1>4, Constants
  <2> QED
    BY <1>3, <2>1 DEF Discovery
<1>7. /\ t.enabled = s.enabled /\ t.min = s.min /\ t.max = s.max /\ t.base = s.base
      /\ t.current = s.base /\ t.low = s.base /\ t.cooldown = 0 /\ t.packno = 0
      /\ t.ceiling = c /\ t.high = c /\ t.phase = ph /\ t.streak = 0
  BY <1>3, <1>4 DEF Discovery
<1>8. InOrder(t) /\ InRound(t) /\ GoesOn(t) /\ Quiet(t) /\ t.streak <= STREAK_MAX
  BY <1>1, <1>2, <1>5, <1>7, Constants DEF InOrder, InRound, GoesOn, Quiet
<1> QED
  BY <1>6, <1>7, <1>8 DEF Good, t

\* What a probe sent leaves: the probe asked for is the one in flight.
LEMMA ProbeSentGood ==
  ASSUME NEW s, Good(s), shouldProbe(s), NEW no \in Nat \ {0}
  PROVE  LET t == onProbeSent(s, no, nextProbeMtu(s))
         IN  /\ Good(t) /\ t.packno = no /\ t.probe = nextProbeMtu(s)
             /\ t.low = s.low /\ t.base = s.base
<1> DEFINE probe == nextProbeMtu(s)
           t == onProbeSent(s, no, probe)
<1>1. s \in Discovery /\ InOrder(s) /\ InRound(s) /\ s.streak <= STREAK_MAX
  BY DEF Good
<1>2. /\ s.low \in Nat /\ s.ceiling \in Nat /\ s.phase \in Phases /\ s.high \in Nat /\ s.current \in Nat
      /\ s.min \in Nat /\ s.max \in Nat /\ s.base \in Nat /\ s.cooldown = 0
  BY <1>1 DEF Discovery, shouldProbe
<1>3. /\ probe \in Nat /\ s.low < probe /\ probe <= s.ceiling /\ s.enabled /\ s.phase # "Stable"
  BY <1>1, <1>2, ProbeTarget DEF shouldProbe
<1> HIDE DEF probe
<1>4. ClampValue(probe, s.low + 1, s.ceiling) = probe
  BY <1>2, <1>3 DEF ClampValue
<1>5. \E ph \in {"Ladder", "Binary"} :
        t = [s EXCEPT !.packno = no, !.probe = probe, !.deadline = TIMEOUT, !.phase = ph]
  <2> DEFINE ph == IF s.phase = "Ladder" /\ (nextLadderTarget(s) = s.low \/ probe # nextLadderTarget(s))
                   THEN "Binary" ELSE s.phase
  <2>1. ph \in {"Ladder", "Binary"}
    BY <1>2, <1>3 DEF Phases
  <2>2. t = [s EXCEPT !.packno = no, !.probe = probe, !.deadline = TIMEOUT, !.phase = ph]
    <3>1. ~(probe <= s.low)
      BY <1>2, <1>3
    <3> QED
      BY <1>4, <3>1 DEF onProbeSent
  <2> HIDE DEF ph, t
  <2> QED
    BY <2>1, <2>2
<1>6. PICK ph \in {"Ladder", "Binary"} :
        t = [s EXCEPT !.packno = no, !.probe = probe, !.deadline = TIMEOUT, !.phase = ph]
  BY <1>5
<1> HIDE DEF t
<1>7. t \in Discovery
  <2>1. s \in Discovery /\ no \in Nat /\ probe \in Nat /\ TIMEOUT \in Nat /\ ph \in Phases
    BY <1>1, <1>3, Constants DEF Phases
  <2> QED
    BY <1>6, <2>1 DEF Discovery
<1>8. /\ t.enabled = s.enabled /\ t.min = s.min /\ t.max = s.max /\ t.base = s.base
      /\ t.current = s.current /\ t.low = s.low /\ t.cooldown = s.cooldown /\ t.packno = no
      /\ t.ceiling = s.ceiling /\ t.high = s.high /\ t.phase = ph /\ t.probe = probe
      /\ t.streak = s.streak
  BY <1>1, <1>6 DEF Discovery
<1>9. InOrder(t) /\ InRound(t) /\ GoesOn(t) /\ Quiet(t) /\ t.streak <= STREAK_MAX
  BY <1>1, <1>2, <1>3, <1>8 DEF InOrder, InRound, GoesOn, Quiet
<1> QED
  BY <1>7, <1>8, <1>9 DEF Good, t, probe

\* The end of a round, wherever it comes from: u is out of flight, and low,
\* the confirmed MTU, lies between the MTU in use and the upper bound.
LEMMA CommitGood ==
  ASSUME NEW u \in Discovery, u.packno = 0, u.min <= u.base, u.base <= u.max, u.max <= ETHERNET,
         u.min <= u.low, u.low <= u.high, u.high <= u.max, u.streak <= STREAK_MAX
  PROVE  /\ Good(Commit(u)) /\ Commit(u).packno = 0 /\ Commit(u).low = u.low /\ Commit(u).base = u.base
         /\ Commit(u).phase = "Stable"
<1> DEFINE t == Commit(u)
<1>1. /\ u.min \in Nat /\ u.max \in Nat /\ u.base \in Nat /\ u.low \in Nat /\ u.high \in Nat
      /\ INTERVAL \in Nat /\ "Stable" \in Phases
  BY Constants DEF Discovery, Phases
<1>2. t = [u EXCEPT !.current = u.low, !.ceiling = u.low, !.phase = "Stable", !.next = INTERVAL]
  BY DEF Commit
<1> HIDE DEF t
<1>3. t \in Discovery
  BY <1>1, <1>2 DEF Discovery
<1>4. /\ t.enabled = u.enabled /\ t.min = u.min /\ t.max = u.max /\ t.base = u.base
      /\ t.current = u.low /\ t.low = u.low /\ t.cooldown = u.cooldown /\ t.packno = 0
      /\ t.ceiling = u.low /\ t.high = u.high /\ t.phase = "Stable" /\ t.streak = u.streak
  BY <1>2 DEF Discovery
<1>5. InOrder(t) /\ InRound(t) /\ GoesOn(t) /\ Quiet(t) /\ t.streak <= STREAK_MAX
  BY <1>1, <1>4, Constants DEF InOrder, InRound, GoesOn, Quiet
<1> QED
  BY <1>3, <1>4, <1>5 DEF Good, t

\* A search that goes on: there is a rung left, or the bounds are still far
\* enough apart for another halving.
LEMMA SearchGoesOn ==
  ASSUME NEW u \in Discovery, u.packno = 0, InOrder(u), InRound(u), u.enabled, u.streak <= STREAK_MAX,
         \/ u.phase = "Ladder" /\ nextLadderTarget(u) > u.low
         \/ u.phase = "Binary" /\ ~(u.high <= u.low + STEP)
  PROVE  Good([u EXCEPT !.next = 1])
<1> DEFINE t == [u EXCEPT !.next = 1]
<1>1. /\ u.low \in Nat /\ u.high \in Nat /\ u.ceiling \in Nat /\ u.current \in Nat
      /\ u.min \in Nat /\ u.max \in Nat /\ u.base \in Nat /\ STEP \in Nat
  BY Constants DEF Discovery
<1>2. t \in Discovery
  BY DEF Discovery
<1>3. /\ t.enabled = u.enabled /\ t.min = u.min /\ t.max = u.max /\ t.base = u.base
      /\ t.current = u.current /\ t.low = u.low /\ t.cooldown = u.cooldown /\ t.packno = 0
      /\ t.ceiling = u.ceiling /\ t.high = u.high /\ t.phase = u.phase /\ t.streak = u.streak
  BY DEF Discovery
<1> HIDE DEF t
<1>4. InOrder(t) /\ InRound(t) /\ Quiet(t) /\ t.streak <= STREAK_MAX
  BY <1>1, <1>3 DEF InOrder, InRound, Quiet
<1>5. nextLadderTarget(t) = nextLadderTarget(u)
  BY <1>3 DEF nextLadderTarget
<1>6. nextProbeMtu(t) > t.low
  <2>1. CASE u.phase = "Ladder" /\ nextLadderTarget(u) > u.low
    BY <1>1, <1>3, <1>5, <2>1, LadderTarget DEF nextProbeMtu
  <2>2. CASE u.phase = "Binary" /\ ~(u.high <= u.low + STEP)
    <3>1. u.ceiling = u.high
      BY <2>2 DEF InRound
    <3>2. nextBinaryTarget(t) \in Nat /\ t.low < nextBinaryTarget(t)
      BY <1>2, <1>3, <2>2, BinaryTarget
    <3> QED
      BY <1>1, <1>3, <2>2, <3>1, <3>2, Constants DEF nextProbeMtu
  <2> QED
    BY <2>1, <2>2
<1> QED
  BY <1>2, <1>4, <1>6 DEF Good, GoesOn, t

\* An acknowledgement confirms the probe in flight and nothing else.
LEMMA ProbeAckGood ==
  ASSUME NEW s, Good(s), NEW no, s.packno # 0, no = s.packno
  PROVE  LET r == onProbeAck(s, no)
         IN  /\ Good(r) /\ r.packno = 0 /\ r.low <= s.probe /\ r.base = s.base
             /\ r.current = s.current \/ r.phase = "Stable"
<1> DEFINE c  == clearInFlightProbe(s)
           t  == [c EXCEPT !.low = s.probe, !.ack = 0, !.streak = 0]
           ph == IF t.phase = "Ladder" /\ nextLadderTarget(t) <= s.probe THEN "Binary" ELSE t.phase
           u  == [t EXCEPT !.phase = ph]
           r  == onProbeAck(s, no)
<1>1. s \in Discovery /\ InOrder(s) /\ InRound(s) /\ s.streak <= STREAK_MAX
  BY DEF Good
<1>2. /\ s.low \in Nat /\ s.high \in Nat /\ s.ceiling \in Nat /\ s.current \in Nat /\ s.probe \in Nat
      /\ s.min \in Nat /\ s.max \in Nat /\ s.base \in Nat /\ STEP \in Nat /\ s.phase \in Phases
  BY <1>1, Constants DEF Discovery
<1>3. s.enabled /\ s.phase # "Stable" /\ s.ceiling = s.high
  BY <1>1 DEF InRound
<1>4. Larger(s.low, s.probe) = s.probe
  BY <1>1, <1>2 DEF InOrder, Larger
<1>4a. Uint16(s.probe + STEP) = s.probe + STEP
  BY <1>1, <1>2, NoWrap, Constants DEF InOrder
<1>5. /\ c \in Discovery /\ c.packno = 0 /\ c.enabled = s.enabled
      /\ c.min = s.min /\ c.max = s.max /\ c.base = s.base
      /\ c.current = s.current /\ c.ceiling = s.ceiling /\ c.high = s.high
      /\ c.phase = s.phase /\ c.cooldown = s.cooldown
  BY <1>1, Cleared
<1>6. r = IF s.probe >= s.max
          THEN [Commit(u) EXCEPT !.current = s.max, !.ceiling = s.max, !.low = s.max, !.high = s.max]
          ELSE IF u.phase = "Binary" /\ u.high <= s.probe + STEP THEN Commit(u)
          ELSE [u EXCEPT !.next = 1]
  BY <1>4, <1>4a DEF onProbeAck
<1> HIDE DEF c, r
<1>7. /\ t \in Discovery /\ t.packno = 0 /\ t.enabled = s.enabled
      /\ t.min = s.min /\ t.max = s.max /\ t.base = s.base /\ t.low = s.probe
      /\ t.current = s.current /\ t.ceiling = s.ceiling /\ t.high = s.high
      /\ t.phase = s.phase /\ t.cooldown = s.cooldown /\ t.streak = 0
  BY <1>2, <1>5 DEF Discovery
<1> HIDE DEF t
<1>8. nextLadderTarget(t) \in Nat
  BY <1>7, LadderTarget
<1>9. /\ ph \in {"Ladder", "Binary"}
      /\ ph = "Ladder" => nextLadderTarget(t) > s.probe
  BY <1>2, <1>3, <1>7, <1>8 DEF Phases
<1>10. ph \in Phases
  BY <1>9 DEF Phases
<1> HIDE DEF ph
<1>11. /\ u \in Discovery /\ u.packno = 0 /\ u.enabled = s.enabled
       /\ u.min = s.min /\ u.max = s.max /\ u.base = s.base /\ u.low = s.probe
       /\ u.current = s.current /\ u.ceiling = s.ceiling /\ u.high = s.high
       /\ u.phase = ph /\ u.cooldown = s.cooldown /\ u.streak <= STREAK_MAX
  BY <1>7, <1>10, Constants DEF Discovery
<1> HIDE DEF u
<1>12. InOrder(u) /\ InRound(u)
  BY <1>1, <1>2, <1>3, <1>9, <1>11 DEF InOrder, InRound
<1>13. CASE s.probe >= s.max
  <2> DEFINE w == [u EXCEPT !.low = s.max, !.high = s.max]
  <2>1. r = Commit(w)
    BY <1>2, <1>6, <1>11, <1>13 DEF Commit, Discovery
  <2>2. /\ w \in Discovery /\ w.packno = 0 /\ w.min = s.min /\ w.max = s.max /\ w.base = s.base
        /\ w.low = s.max /\ w.high = s.max /\ w.streak <= STREAK_MAX
    BY <1>2, <1>11 DEF Discovery
  <2> HIDE DEF w
  <2>3. Good(Commit(w)) /\ Commit(w).packno = 0 /\ Commit(w).low = s.max /\ Commit(w).base = s.base
        /\ Commit(w).phase = "Stable"
    BY <1>1, <1>2, <2>2, CommitGood DEF InOrder
  <2> QED
    BY <1>2, <1>13, <2>1, <2>3 DEF r
<1>14. CASE ~(s.probe >= s.max) /\ u.phase = "Binary" /\ u.high <= s.probe + STEP
  <2>1. r = Commit(u)
    BY <1>6, <1>14
  <2>2. Good(Commit(u)) /\ Commit(u).packno = 0 /\ Commit(u).low = u.low /\ Commit(u).base = u.base
        /\ Commit(u).phase = "Stable"
    BY <1>2, <1>11, <1>12, CommitGood DEF InOrder, InRound
  <2> QED
    BY <1>2, <1>11, <2>1, <2>2 DEF r
<1>15. CASE ~(s.probe >= s.max) /\ ~(u.phase = "Binary" /\ u.high <= s.probe + STEP)
  <2>1. r = [u EXCEPT !.next = 1]
    BY <1>6, <1>15
  <2>2. nextLadderTarget(u) = nextLadderTarget(t)
    BY <1>7, <1>11 DEF nextLadderTarget
  <2>3. \/ u.phase = "Ladder" /\ nextLadderTarget(u) > u.low
        \/ u.phase = "Binary" /\ ~(u.high <= u.low + STEP)
    BY <1>9, <1>11, <1>15, <2>2
  <2>4. Good(r)
    BY <1>3, <1>11, <1>12, <2>1, <2>3, SearchGoesOn
  <2>5. r.packno = 0 /\ r.low = s.probe /\ r.base = s.base /\ r.current = s.current
    BY <1>11, <2>1 DEF Discovery
  <2> QED
    BY <1>2, <2>4, <2>5 DEF r
<1> QED
  BY <1>13, <1>14, <1>15

\* A loss narrows the search and may end it; nothing is confirmed.
LEMMA ProbeLostGood ==
  ASSUME NEW s, Good(s), NEW no, s.packno # 0, no = s.packno
  PROVE  LET r == onProbeLost(s, no)
         IN  /\ Good(r) /\ r.packno = 0 /\ r.low = s.low /\ r.base = s.base
             /\ r.current = s.current \/ r.phase = "Stable"
<1> DEFINE c  == clearInFlightProbe(s)
           hi == s.probe - 1
           t  == [c EXCEPT !.high = hi, !.ceiling = hi, !.phase = "Binary"]
           r  == onProbeLost(s, no)
<1>1. s \in Discovery /\ InOrder(s) /\ InRound(s) /\ s.streak <= STREAK_MAX
  BY DEF Good
<1>2. /\ s.low \in Nat /\ s.high \in Nat /\ s.ceiling \in Nat /\ s.current \in Nat /\ s.probe \in Nat
      /\ s.min \in Nat /\ s.max \in Nat /\ s.base \in Nat /\ STEP \in Nat /\ "Binary" \in Phases
  BY <1>1, Constants DEF Discovery, Phases
<1>3. s.enabled /\ s.phase # "Stable" /\ s.ceiling = s.high /\ s.low < s.probe /\ s.probe <= s.ceiling
  BY <1>1 DEF InRound, InOrder
<1>4. hi \in Nat /\ s.low <= hi /\ hi <= s.high /\ Smaller(s.high, s.probe - 1) = hi /\ Smaller(s.ceiling, hi) = hi
  BY <1>2, <1>3 DEF Smaller
<1>4a. Uint16(s.low + STEP) = s.low + STEP
  BY <1>1, <1>2, NoWrap, Constants DEF InOrder
<1>5. /\ c \in Discovery /\ c.packno = 0 /\ c.enabled = s.enabled
      /\ c.min = s.min /\ c.max = s.max /\ c.base = s.base /\ c.low = s.low
      /\ c.current = s.current /\ c.ceiling = s.ceiling /\ c.cooldown = s.cooldown /\ c.streak = s.streak
  BY <1>1, Cleared
<1>6. r = IF hi <= s.low + STEP THEN Commit(t) ELSE [t EXCEPT !.next = 1]
  BY <1>4, <1>4a, <1>5 DEF onProbeLost, Discovery
<1> HIDE DEF c, r, hi
<1>7. /\ t \in Discovery /\ t.packno = 0 /\ t.enabled = s.enabled
      /\ t.min = s.min /\ t.max = s.max /\ t.base = s.base /\ t.low = s.low
      /\ t.current = s.current /\ t.ceiling = hi /\ t.high = hi
      /\ t.phase = "Binary" /\ t.cooldown = s.cooldown /\ t.streak <= STREAK_MAX
  BY <1>1, <1>2, <1>4, <1>5 DEF Discovery
<1> HIDE DEF t
<1>8. InOrder(t) /\ InRound(t)
  BY <1>1, <1>2, <1>3, <1>4, <1>7 DEF InOrder, InRound
<1>9. CASE hi <= s.low + STEP
  <2>1. Good(Commit(t)) /\ Commit(t).packno = 0 /\ Commit(t).low = t.low /\ Commit(t).base = t.base
        /\ Commit(t).phase = "Stable"
    BY <1>2, <1>7, <1>8, CommitGood DEF InOrder, InRound
  <2> QED
    BY <1>6, <1>7, <1>9, <2>1 DEF r
<1>10. CASE ~(hi <= s.low + STEP)
  <2>1. r = [t EXCEPT !.next = 1]
    BY <1>6, <1>10
  <2>2. Good(r)
    BY <1>3, <1>7, <1>8, <1>10, <2>1, SearchGoesOn
  <2>3. r.packno = 0 /\ r.low = s.low /\ r.base = s.base /\ r.current = s.current
    BY <1>7, <2>1 DEF Discovery
  <2> QED
    BY <2>2, <2>3 DEF r
<1> QED
  BY <1>9, <1>10

\* Good does not look at the clocks of the object, except that the cooldown
\* may run down.
LEMMA SameSearch ==
  ASSUME NEW s, Good(s), NEW t \in Discovery, t.streak <= STREAK_MAX,
         t.enabled = s.enabled, t.min = s.min, t.max = s.max, t.base = s.base,
         t.current = s.current, t.ceiling = s.ceiling, t.low = s.low, t.high = s.high,
         t.phase = s.phase, t.packno = s.packno, t.probe = s.probe, t.cooldown <= s.cooldown
  PROVE  Good(t)
<1>1. s \in Discovery /\ InOrder(s) /\ InRound(s) /\ GoesOn(s) /\ Quiet(s)
  BY DEF Good
<1>2. nextProbeMtu(t) = nextProbeMtu(s)
  <2>1. nextLadderTarget(t) = nextLadderTarget(s)
    BY DEF nextLadderTarget
  <2>2. nextBinaryTarget(t) = nextBinaryTarget(s)
    BY DEF nextBinaryTarget
  <2> QED
    BY <2>1, <2>2 DEF nextProbeMtu
<1>3. s.cooldown \in Nat /\ t.cooldown \in Nat
  BY <1>1 DEF Discovery
<1>4. InOrder(t) /\ InRound(t)
  BY <1>1 DEF InOrder, InRound
<1>5. GoesOn(t)
  BY <1>1, <1>2 DEF GoesOn
<1>6. Quiet(t)
  BY <1>1, <1>3 DEF Quiet
<1> QED
  BY <1>4, <1>5, <1>6 DEF Good

LEMMA DataAckGood ==
  ASSUME NEW s, Good(s), NEW size
  PROVE  LET r == onDataPacketAck(s, size)
         IN  /\ Good(r) /\ r.packno = s.packno /\ r.probe = s.probe /\ r.low = s.low /\ r.base = s.base
             /\ r.current = s.current
<1> DEFINE t == [s EXCEPT !.ack = 0, !.streak = 0]
<1>1. s \in Discovery /\ s.cooldown \in Nat
  BY DEF Good, Discovery
<1>2. /\ t \in Discovery /\ t.streak = 0
      /\ t.enabled = s.enabled /\ t.min = s.min /\ t.max = s.max /\ t.base = s.base
      /\ t.current = s.current /\ t.ceiling = s.ceiling /\ t.low = s.low /\ t.high = s.high
      /\ t.phase = s.phase /\ t.packno = s.packno /\ t.probe = s.probe /\ t.cooldown = s.cooldown
  BY <1>1 DEF Discovery
<1>3. onDataPacketAck(s, size) = s \/ onDataPacketAck(s, size) = t
  BY DEF onDataPacketAck
<1> HIDE DEF t
<1>4. Good(t)
  BY <1>1, <1>2, SameSearch, Constants
<1> QED
  BY <1>2, <1>3, <1>4

\* A loss is counted, or the MTU falls back and the probe in flight is forgotten.
LEMMA DataLossGood ==
  ASSUME NEW s, Good(s), NEW size
  PROVE  LET r == onDataPacketLoss(s, size)
         IN  /\ Good(r) /\ r.base = s.base /\ r.low <= s.low /\ r.current <= s.current
             /\ r.packno = 0 \/ (r.packno = s.packno /\ r.probe = s.probe)
<1> DEFINE n == (IF s.loss > WINDOW THEN 0 ELSE s.streak) + 1
           k == Smaller(n, STREAK_MAX)
           t == [s EXCEPT !.loss = 0, !.streak = k]
           c == clearInFlightProbe(s)
           u == [c EXCEPT !.loss = 0, !.streak = 0, !.current = s.min, !.low = s.min,
                          !.ceiling = s.max, !.high = s.max, !.phase = "Ladder",
                          !.cooldown = COOLDOWN, !.next = COOLDOWN]
           r == onDataPacketLoss(s, size)
<1>1. s \in Discovery /\ InOrder(s)
  BY DEF Good
<1>2. /\ s.min \in Nat /\ s.max \in Nat /\ s.base \in Nat /\ s.low \in Nat /\ s.current \in Nat
      /\ s.streak \in Nat /\ s.cooldown \in Nat /\ "Ladder" \in Phases /\ COOLDOWN \in Nat
  BY <1>1, Constants DEF Discovery, Phases
<1>3. k \in Nat /\ k <= STREAK_MAX
  BY <1>2, Constants DEF Smaller
<1>4. r = s \/ r = t \/ r = u
  BY DEF onDataPacketLoss
<1> HIDE DEF n, k, r
<1>5. /\ t \in Discovery /\ t.streak <= STREAK_MAX
      /\ t.enabled = s.enabled /\ t.min = s.min /\ t.max = s.max /\ t.base = s.base
      /\ t.current = s.current /\ t.ceiling = s.ceiling /\ t.low = s.low /\ t.high = s.high
      /\ t.phase = s.phase /\ t.packno = s.packno /\ t.probe = s.probe /\ t.cooldown = s.cooldown
  BY <1>1, <1>3 DEF Discovery
<1>6. /\ c \in Discovery /\ c.packno = 0 /\ c.enabled = s.enabled
      /\ c.min = s.min /\ c.max = s.max /\ c.base = s.base
  BY <1>1, Cleared
<1> HIDE DEF c, t
<1>7. Good(t)
  BY <1>2, <1>5, SameSearch
<1>8. u \in Discovery
  BY <1>2, <1>6 DEF Discovery
<1>9. /\ u.streak = 0 /\ u.enabled = s.enabled /\ u.min = s.min /\ u.max = s.max /\ u.base = s.base
      /\ u.current = s.min /\ u.low = s.min /\ u.ceiling = s.max /\ u.high = s.max
      /\ u.phase = "Ladder" /\ u.packno = 0
  BY <1>6 DEF Discovery
<1> HIDE DEF u
<1>10. InOrder(u) /\ InRound(u) /\ GoesOn(u) /\ Quiet(u) /\ u.streak <= STREAK_MAX
  BY <1>1, <1>2, <1>9, Constants DEF InOrder, InRound, GoesOn, Quiet
<1>11. Good(u) /\ s.min <= s.low /\ s.min <= s.current
  BY <1>1, <1>2, <1>8, <1>10 DEF Good, InOrder
<1> QED
  BY <1>2, <1>4, <1>5, <1>7, <1>9, <1>11 DEF r

LEMMA TickGood ==
  ASSUME NEW s, Good(s)
  PROVE  LET r == [s EXCEPT !.next = Larger(0, @ - 1), !.deadline = Larger(0, @ - 1),
                            !.cooldown = Larger(0, @ - 1),
                            !.ack = Smaller(ACK_CAP, @ + 1), !.loss = Smaller(LOSS_CAP, @ + 1)]
         IN  /\ Good(r) /\ r.packno = s.packno /\ r.probe = s.probe /\ r.low = s.low /\ r.base = s.base
             /\ r.current = s.current
<1> DEFINE ne == Larger(0, s.next - 1)
           de == Larger(0, s.deadline - 1)
           co == Larger(0, s.cooldown - 1)
           ac == Smaller(ACK_CAP, s.ack + 1)
           lo == Smaller(LOSS_CAP, s.loss + 1)
           r  == [s EXCEPT !.next = ne, !.deadline = de, !.cooldown = co, !.ack = ac, !.loss = lo]
<1>1. s \in Discovery /\ s.streak <= STREAK_MAX
  BY DEF Good
<1>2. s.next \in Nat /\ s.deadline \in Nat /\ s.cooldown \in Nat /\ s.ack \in Nat /\ s.loss \in Nat
  BY <1>1 DEF Discovery
<1>3. /\ ne \in Nat /\ de \in Nat /\ co \in Nat /\ ac \in Nat /\ lo \in Nat
      /\ co <= s.cooldown
  BY <1>2, Constants DEF Larger, Smaller
<1>4. r = [s EXCEPT !.next = Larger(0, @ - 1), !.deadline = Larger(0, @ - 1),
                    !.cooldown = Larger(0, @ - 1),
                    !.ack = Smaller(ACK_CAP, @ + 1), !.loss = Smaller(LOSS_CAP, @ + 1)]
  BY <1>1 DEF Discovery
<1> HIDE DEF ne, de, co, ac, lo
<1>5. /\ r \in Discovery /\ r.streak = s.streak
      /\ r.enabled = s.enabled /\ r.min = s.min /\ r.max = s.max /\ r.base = s.base
      /\ r.current = s.current /\ r.ceiling = s.ceiling /\ r.low = s.low /\ r.high = s.high
      /\ r.phase = s.phase /\ r.packno = s.packno /\ r.probe = s.probe /\ r.cooldown = co
  BY <1>1, <1>3 DEF Discovery
<1> HIDE DEF r
<1>6. Good(r)
  BY <1>1, <1>3, <1>5, SameSearch
<1> QED
  BY <1>4, <1>5, <1>6

----------------------------------------------------------------------------
\* The invariant

\* Inv, with the part about the object in one predicate.
LEMMA InvParts ==
  Inv <=> Good(m) /\ unacked \subseteq Probe /\ confirmed \in Nat /\ Awaited /\ Confirmed
BY DEF Inv, TypeOK, Bounds, NoDeadEnd, CooldownQuiet, Good

LEMMA InvPartsNext ==
  Inv' <=> Good(m') /\ unacked' \subseteq Probe /\ confirmed' \in Nat /\ Awaited' /\ Confirmed'
BY DEF Inv, TypeOK, Bounds, NoDeadEnd, CooldownQuiet, Good

\* A step that leaves the probes and what is confirmed, keeps or drops the
\* awaited probe, and confirms nothing.
LEMMA QuietStep ==
  ASSUME Inv, Good(m'), UNCHANGED <<unacked, confirmed>>,
         m'.base = m.base, m'.low <= m.low,
         m'.packno = 0 \/ (m'.packno = m.packno /\ m'.probe = m.probe)
  PROVE  Inv'
<1>1. Good(m) /\ unacked \subseteq Probe /\ confirmed \in Nat /\ Awaited /\ Confirmed
  BY InvParts
<1>2. m.low \in Nat /\ m'.low \in Nat /\ m.base \in Nat
  BY <1>1 DEF Good, Discovery
<1>3. Awaited'
  BY <1>1 DEF Awaited
<1>4. Confirmed'
  BY <1>1, <1>2 DEF Confirmed, Larger
<1> QED
  BY <1>1, <1>3, <1>4, InvPartsNext

LEMMA InitInv == Init => Inv
<1> SUFFICES ASSUME Init PROVE Inv
  OBVIOUS
<1>1. PICK cfg \in CONFIGS, enabled \in BOOLEAN : m = init(cfg, enabled)
  BY DEF Init
<1>2. Good(m) /\ unacked = {} /\ confirmed = 0
  BY <1>1, InitGood DEF Init
<1>3. m.low = m.base /\ m.base \in Nat
  <2>1. m.low = m.base
    BY <1>1 DEF init
  <2> QED
    BY <1>2, <2>1 DEF Good, Discovery
<1>4. Confirmed /\ Awaited
  BY <1>2, <1>3 DEF Confirmed, Awaited, Larger
<1> QED
  BY <1>2, <1>4, InvParts

\* Every step keeps Inv, and raises the MTU in use only at the end of a round
\* or back to the base MTU of a new path.
LEMMA NextInv ==
  ASSUME Inv, Next
  PROVE  Inv' /\ (m'.current <= m.current \/ m'.phase = "Stable" \/ m'.current = m.base)
<1> DEFINE Kept == m'.current <= m.current \/ m'.phase = "Stable" \/ m'.current = m.base
<1>1. Good(m) /\ unacked \subseteq Probe /\ confirmed \in Nat /\ Awaited /\ Confirmed
  BY InvParts
<1>2. /\ m \in Discovery /\ m.low \in Nat /\ m.base \in Nat /\ m.current \in Nat /\ m.packno \in Nat
      /\ InOrder(m)
  BY <1>1 DEF Good, Discovery
<1>3. CASE ProbeTimeout
  <2>1. m' = onProbeLost(m, m.packno) /\ m.packno # 0 /\ UNCHANGED <<unacked, confirmed>>
    BY <1>3 DEF ProbeTimeout
  <2>2. /\ Good(m') /\ m'.packno = 0 /\ m'.low = m.low /\ m'.base = m.base
        /\ m'.current = m.current \/ m'.phase = "Stable"
    BY <1>1, <2>1, ProbeLostGood
  <2> QED
    BY <1>2, <2>1, <2>2, QuietStep
<1>4. ASSUME NEW no \in Numbers, SendProbe(no) PROVE Inv' /\ Kept
  <2> DEFINE p == [no |-> no, mtu |-> nextProbeMtu(m), here |-> TRUE]
  <2>1. /\ shouldProbe(m) /\ Fresh(no) /\ m' = onProbeSent(m, no, nextProbeMtu(m))
        /\ unacked' = unacked \cup {p} /\ confirmed' = confirmed
    BY <1>4 DEF SendProbe
  <2>2. no \in Nat \ {0}
    BY MtuAssumption DEF Numbers
  <2>3. /\ Good(m') /\ m'.packno = no /\ m'.probe = nextProbeMtu(m)
        /\ m'.low = m.low /\ m'.base = m.base
    BY <1>1, <2>1, <2>2, ProbeSentGood
  <2>4. nextProbeMtu(m) \in Nat
    BY <1>1, ProbeTarget DEF Good
  <2>5. unacked' \subseteq Probe
    <3>1. no \in Nat /\ TRUE \in BOOLEAN
      BY <2>2
    <3>2. p \in Probe
      BY <2>4, <3>1 DEF Probe
    <3> QED
      BY <1>1, <2>1, <3>2
  <2>6. Awaited'
    BY <2>1, <2>3 DEF Awaited, Fresh
  <2>7. Confirmed'
    BY <1>1, <2>1, <2>3 DEF Confirmed
  <2>8. m'.current = m.current
    BY <1>2, <2>1 DEF onProbeSent, Discovery
  <2> QED
    BY <1>1, <1>2, <2>1, <2>3, <2>5, <2>6, <2>7, <2>8, InvPartsNext
<1>5. ASSUME NEW p \in unacked, ProbeAcked(p) PROVE Inv' /\ Kept
  <2>1. /\ m' = onProbeAck(m, p.no) /\ unacked' = unacked \ {p}
        /\ confirmed' = IF p.here THEN Larger(confirmed, p.mtu) ELSE confirmed
    BY <1>5 DEF ProbeAcked
  <2>2. p \in Probe /\ p.mtu \in Nat
    BY <1>1 DEF Probe
  <2>3. confirmed' \in Nat /\ confirmed' >= confirmed /\ (p.here => confirmed' >= p.mtu)
    BY <1>1, <2>1, <2>2 DEF Larger
  <2>4. CASE m.packno # 0 /\ p.no = m.packno
    <3>1. p.mtu = m.probe /\ p.here
      BY <1>1, <2>4 DEF Awaited
    <3>2. /\ Good(m') /\ m'.packno = 0 /\ m'.low <= m.probe /\ m'.base = m.base
          /\ m'.current = m.current \/ m'.phase = "Stable"
      BY <1>1, <2>1, <2>4, ProbeAckGood
    <3>3. m'.low \in Nat
      BY <3>2 DEF Good, Discovery
    <3>4. Confirmed' /\ Awaited'
      BY <1>2, <2>2, <2>3, <3>1, <3>2, <3>3 DEF Confirmed, Awaited, Larger
    <3> QED
      BY <1>1, <1>2, <2>1, <2>3, <3>2, <3>4, InvPartsNext
  <2>5. CASE ~(m.packno # 0 /\ p.no = m.packno)
    <3>1. m' = m
      BY <2>1, <2>5 DEF onProbeAck
    <3>2. Confirmed' /\ Awaited'
      BY <1>1, <1>2, <2>1, <2>3, <3>1 DEF Confirmed, Awaited, Larger
    <3> QED
      BY <1>1, <1>2, <2>1, <2>3, <3>1, <3>2, InvPartsNext
  <2> QED
    BY <2>4, <2>5
<1>6. ASSUME NEW p \in unacked, ProbeLost(p) PROVE Inv' /\ Kept
  <2>1. m' = onProbeLost(m, p.no) /\ unacked' = unacked \ {p} /\ confirmed' = confirmed
    BY <1>6 DEF ProbeLost
  <2>2. /\ Good(m') /\ m'.low = m.low /\ m'.base = m.base
        /\ m'.packno = 0 \/ m' = m
        /\ m'.current = m.current \/ m'.phase = "Stable"
    <3>1. CASE m.packno # 0 /\ p.no = m.packno
      BY <1>1, <2>1, <3>1, ProbeLostGood
    <3>2. CASE ~(m.packno # 0 /\ p.no = m.packno)
      BY <1>1, <2>1, <3>2 DEF onProbeLost
    <3> QED
      BY <3>1, <3>2
  <2>3. Confirmed' /\ Awaited'
    BY <1>1, <2>1, <2>2 DEF Confirmed, Awaited
  <2> QED
    BY <1>1, <1>2, <2>1, <2>2, <2>3, InvPartsNext
<1>7. ASSUME NEW p \in unacked, NEW no \in Numbers, ProbeSentAgain(p, no) PROVE Inv' /\ Kept
  <2> DEFINE q == [p EXCEPT !.no = no, !.here = TRUE]
  <2>1. Fresh(no) /\ unacked' = (unacked \ {p}) \cup {q} /\ m' = m /\ confirmed' = confirmed
    BY <1>7 DEF ProbeSentAgain
  <2>2. no \in Nat
    BY MtuAssumption DEF Numbers
  <2>3. q \in Probe /\ q.no = no
    BY <1>1, <2>2 DEF Probe
  <2> HIDE DEF q
  <2>4. Awaited' /\ Confirmed'
    BY <1>1, <2>1, <2>3 DEF Awaited, Confirmed, Fresh
  <2> QED
    BY <1>1, <1>2, <2>1, <2>3, <2>4, InvPartsNext
<1>8. ASSUME NEW size \in DATA_SIZES, DataAcked(size) PROVE Inv' /\ Kept
  <2>1. m' = onDataPacketAck(m, size) /\ UNCHANGED <<unacked, confirmed>>
    BY <1>8 DEF DataAcked
  <2>2. /\ Good(m') /\ m'.packno = m.packno /\ m'.probe = m.probe /\ m'.low = m.low /\ m'.base = m.base
        /\ m'.current = m.current
    BY <1>1, <2>1, DataAckGood
  <2> QED
    BY <1>2, <2>1, <2>2, QuietStep
<1>9. ASSUME NEW size \in DATA_SIZES, DataLost(size) PROVE Inv' /\ Kept
  <2>1. m' = onDataPacketLoss(m, size) /\ UNCHANGED <<unacked, confirmed>>
    BY <1>9 DEF DataLost
  <2>2. /\ Good(m') /\ m'.base = m.base /\ m'.low <= m.low /\ m'.current <= m.current
        /\ m'.packno = 0 \/ (m'.packno = m.packno /\ m'.probe = m.probe)
    BY <1>1, <2>1, DataLossGood
  <2> QED
    BY <2>1, <2>2, QuietStep
<1>10. CASE PathValidated
  <2>1. /\ m' = onPathValidated(m) /\ confirmed' = 0
        /\ unacked' = {[p EXCEPT !.here = FALSE] : p \in unacked}
    BY <1>10 DEF PathValidated
  <2>2. Good(m') /\ m'.packno = 0 /\ m'.low = m.base /\ m'.base = m.base
    BY <1>1, <2>1, PathValidatedGood
  <2>3. unacked' \subseteq Probe
    BY <1>1, <2>1 DEF Probe
  <2>4. Awaited' /\ Confirmed'
    BY <1>2, <2>1, <2>2 DEF Awaited, Confirmed, Larger
  <2>5. m'.current = m.base
    BY <1>2, <2>1 DEF onPathValidated, clearInFlightProbe, Discovery
  <2> QED
    BY <2>1, <2>2, <2>3, <2>4, <2>5, InvPartsNext
<1>11. CASE Tick
  <2>1. UNCHANGED <<unacked, confirmed>>
    BY <1>11 DEF Tick
  <2>2. /\ Good(m') /\ m'.packno = m.packno /\ m'.probe = m.probe /\ m'.low = m.low /\ m'.base = m.base
        /\ m'.current = m.current
    BY <1>1, <1>11, TickGood DEF Tick
  <2> QED
    BY <1>2, <2>1, <2>2, QuietStep
<1> QED
  BY <1>3, <1>4, <1>5, <1>6, <1>7, <1>8, <1>9, <1>10, <1>11 DEF Next, onCanWrite

----------------------------------------------------------------------------
\* Theorems

\* Inv is an invariant: the object, the probes it awaits and what the path
\* confirmed agree, whatever is lost, late or sent again.
THEOREM Invariance == Spec => []Inv
<1>1. Inv /\ [Next]_vars => Inv'
  <2>1. ASSUME Inv, UNCHANGED vars PROVE Inv'
    BY <2>1 DEF vars, Inv, TypeOK, Bounds, NoDeadEnd, CooldownQuiet, Awaited, Confirmed
  <2> QED
    BY <2>1, NextInv
<1> QED
  BY <1>1, InitInv, PTL DEF Spec

\* The types, and the counter of losses within its width.
THEOREM TypeCorrect == Spec => []TypeOK
<1>1. Inv => TypeOK
  BY DEF Inv
<1> QED
  BY <1>1, Invariance, PTL

\* The bounds of the search stay in order (design document, 11.1.1).
THEOREM BoundsKept == Spec => []Bounds
<1>1. Inv => Bounds
  BY DEF Inv
<1> QED
  BY <1>1, Invariance, PTL

\* onProbeAck raises the MTU only to sizes acknowledged on this path.
THEOREM OnlyConfirmed == Spec => []Confirmed
<1>1. Inv => Confirmed
  BY DEF Inv
<1> QED
  BY <1>1, Invariance, PTL

\* A search with a confirmed MTU not yet in use can always go on.
THEOREM NeverStuck == Spec => []NoDeadEnd
<1>1. Inv => NoDeadEnd
  BY DEF Inv
<1> QED
  BY <1>1, Invariance, PTL

\* No probe is in flight during the cooldown.
THEOREM QuietInCooldown == Spec => []CooldownQuiet
<1>1. Inv => CooldownQuiet
  BY DEF Inv
<1> QED
  BY <1>1, Invariance, PTL

\* The MTU in use grows only when the round is over (11.1.2).
THEOREM CommitDeferred == Spec => DeferredCommit
<1>1. ASSUME Inv, [Next]_vars
      PROVE  [m'.current > m.current => nextProbeMtu(m') = m'.low \/ m'.current = m.base]_m
  <2>1. CASE UNCHANGED vars
    BY <2>1 DEF vars
  <2>2. CASE Next
    <3>1. /\ Inv' /\ (m'.current <= m.current \/ m'.phase = "Stable" \/ m'.current = m.base)
      BY <1>1, <2>2, NextInv
    <3>2. m.current \in Nat /\ m'.current \in Nat
      BY <1>1, <3>1 DEF Inv, TypeOK, Discovery
    <3> QED
      BY <3>1, <3>2 DEF nextProbeMtu
  <2> QED
    BY <1>1, <2>1, <2>2
<1> QED
  BY <1>1, Invariance, PTL DEF Spec, DeferredCommit
=============================================================================
