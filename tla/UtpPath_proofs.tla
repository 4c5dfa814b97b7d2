--------------------------- MODULE UtpPath_proofs ---------------------------
(***************************************************************************)
(* Proofs about UtpPath, for every set of addresses, limit of retries and  *)
(* number of moves and faults.  Inv is inductive: one step per action.     *)
(***************************************************************************)
EXTENDS UtpPath, TLAPS

\* What a frame under way is: its bytes, and where it goes or comes from.
ChallengeFrames == [bytes : Bytes, to : Addr]
ResponseFrames  == [bytes : Bytes, from : Addr]

\* Drawing new bytes makes every frame under way an old one, and keeps its type.
LEMMA SupersededChallenges ==
  ASSUME NEW S \in SUBSET ChallengeFrames
  PROVE  /\ Superseded(S) \subseteq ChallengeFrames
         /\ \A f \in Superseded(S) : ~f.bytes.latest
<1>1. ASSUME NEW g \in S, NEW f, f = [g EXCEPT !.bytes.latest = FALSE]
      PROVE  f \in ChallengeFrames /\ ~f.bytes.latest
  BY <1>1 DEF ChallengeFrames, Bytes
<1>2. QED
  BY <1>1 DEF Superseded

\* The same for the responses.
LEMMA SupersededResponses ==
  ASSUME NEW S \in SUBSET ResponseFrames
  PROVE  /\ Superseded(S) \subseteq ResponseFrames
         /\ \A f \in Superseded(S) : ~f.bytes.latest
<1>1. ASSUME NEW g \in S, NEW f, f = [g EXCEPT !.bytes.latest = FALSE]
      PROVE  f \in ResponseFrames /\ ~f.bytes.latest
  BY <1>1 DEF ResponseFrames, Bytes
<1>2. QED
  BY <1>1 DEF Superseded

\* A NetworkPath that is validating another address and may still be
\* challenged: what maybeSendPathChallenge is called with.
Challengeable(p) ==
  /\ p \in [address : Addr, state : {"validating"}, pending : BOOLEAN, retries : 0..MAX_RETRIES]
  /\ p.address # active
  /\ canRetryChallenge(p)

\* maybeSendPathChallenge leaves a pending challenge whose bytes, the only
\* ones that count from then on, were drawn for the candidate.
LEMMA ChallengeStep ==
  ASSUME Inv, NEW p, Challengeable(p), NEW t \in {"off", "on", "old"}, NEW f \in 0..FAULTS,
         NEW rs \in SUBSET responses, maybeSendPathChallenge(p, t, f, rs),
         UNCHANGED <<active, peer>>, data' \subseteq Addr
  PROVE  Inv'
<1> USE PathAssumption
<1>1. rs \subseteq ResponseFrames /\ challenges \subseteq ChallengeFrames
  BY DEF Inv, PathAgrees, TypeOK, ResponseFrames, ChallengeFrames
<1>2. /\ Superseded(rs) \subseteq ResponseFrames
      /\ Superseded(challenges) \subseteq ChallengeFrames
      /\ \A g \in Superseded(rs) \cup Superseded(challenges) : ~g.bytes.latest
  BY <1>1, SupersededChallenges, SupersededResponses
<1> DEFINE new == [bytes |-> [for |-> p.address, latest |-> TRUE], to |-> p.address]
<1>3. new \in ChallengeFrames /\ new.bytes.for = p.address
  BY DEF Challengeable, ChallengeFrames, Bytes
<1>4. /\ path'.state = "validating" /\ path'.address = p.address /\ path'.pending
      /\ path' \in [address : Addr, state : {"validated", "validating", "failed"},
                    pending : BOOLEAN, retries : 0..MAX_RETRIES]
  <2>1. /\ p \in [address : Addr, state : {"validating"}, pending : BOOLEAN, retries : 0..MAX_RETRIES]
        /\ p.retries < MAX_RETRIES
    BY DEF Challengeable, canRetryChallenge
  <2>2. path' = [p EXCEPT !.pending = TRUE, !.retries = p.retries + 1]
    BY <2>1 DEF maybeSendPathChallenge, makePathChallenge, canRetryChallenge
  <2>3. path' = [address |-> p.address, state |-> "validating", pending |-> TRUE, retries |-> p.retries + 1]
    BY <2>1, <2>2
  <2>4. QED
    BY <2>1, <2>3
<1>5. /\ responses' = Superseded(rs)
      /\ challenges' \in {Superseded(challenges), Superseded(challenges) \cup {new}}
      /\ timer' \in {"off", "on", "old"} /\ faults' \in 0..FAULTS /\ stalled' \in BOOLEAN
      /\ stalled' \/ timer' = "on"
  <2>1. responses' = Superseded(rs)
    BY DEF maybeSendPathChallenge
  <2>2. CASE /\ challenges' = Superseded(challenges) \cup {new}
             /\ timer' = "on" /\ faults' = f /\ stalled' = FALSE
    BY <2>1, <2>2
  <2>3. CASE /\ f > 0 /\ faults' = f - 1 /\ challenges' = Superseded(challenges)
             /\ timer' = IF t = "on" THEN "old" ELSE t
             /\ stalled' = TRUE
    <3>1. faults' \in 0..FAULTS
      BY <2>3
    <3>2. timer' \in {"off", "on", "old"}
      BY <2>3
    <3>3. QED
      BY <2>1, <2>3, <3>1, <3>2
  <2>4. QED
    BY <2>2, <2>3 DEF maybeSendPathChallenge
<1> HIDE DEF new
<1>6. responses' \subseteq ResponseFrames /\ challenges' \subseteq ChallengeFrames
  BY <1>2, <1>3, <1>5
<1>7. TypeOK'
  BY <1>4, <1>5, <1>6 DEF Inv, PathAgrees, TypeOK, peer, ResponseFrames, ChallengeFrames
<1>8. PathAgrees'
  BY <1>4, <1>5, <1>7 DEF PathAgrees, Challengeable
<1>9. DrawnForCandidate'
  BY <1>2, <1>3, <1>4, <1>5 DEF DrawnForCandidate
<1>10. QED
  BY <1>8, <1>9 DEF Inv

\* A packet from an address in use by neither makes it a candidate that may
\* be challenged.
LEMMA CandidateFacts ==
  ASSUME NEW a \in Addr, AddressChanged(a)
  PROVE  Challengeable(Candidate(a))
BY PathAssumption DEF Challengeable, Candidate, AddressChanged, canRetryChallenge

\* onUdpPacket for a packet without path frames.
LEMMA PacketStep == ASSUME Inv, NEW a \in Addr, OnPacket(a) PROVE Inv'
<1>1. data' \subseteq Addr /\ UNCHANGED <<active, peer>>
  BY DEF OnPacket, Inv, PathAgrees, TypeOK
<1>2. CASE detectPeerAddressChange(a, responses)
  <2>1. timer \in {"off", "on", "old"} /\ faults \in 0..FAULTS
    BY DEF Inv, PathAgrees, TypeOK
  <2>2. Challengeable(Candidate(a)) /\ maybeSendPathChallenge(Candidate(a), timer, faults, responses)
    BY <1>2, CandidateFacts DEF detectPeerAddressChange
  <2>3. QED
    BY <1>1, <2>1, <2>2, ChallengeStep
<1>3. CASE UNCHANGED <<path, timer, challenges, responses, faults, stalled>>
  BY <1>1, <1>3 DEF Inv, PathAgrees, TypeOK, DrawnForCandidate, peer, bindPeerAddress
<1>4. QED
  BY <1>2, <1>3 DEF OnPacket

\* onUdpPacket for a PATH_RESPONSE: the active address becomes the candidate
\* or stays.
LEMMA ResponseStep == ASSUME Inv, NEW r \in responses, OnResponse(r) PROVE Inv'
<1>1. UNCHANGED <<data, peer>> /\ data' \subseteq Addr /\ r.from \in Addr
  BY DEF OnResponse, Inv, PathAgrees, TypeOK
<1>2. CASE detectPeerAddressChange(r.from, responses \ {r}) /\ UNCHANGED active
  <2>1. timer \in {"off", "on", "old"} /\ faults \in 0..FAULTS
    BY DEF Inv, PathAgrees, TypeOK
  <2>2. /\ Challengeable(Candidate(r.from))
        /\ maybeSendPathChallenge(Candidate(r.from), timer, faults, responses \ {r})
    BY <1>1, <1>2, CandidateFacts DEF detectPeerAddressChange
  <2>3. QED
    BY <1>1, <1>2, <2>1, <2>2, ChallengeStep
<1>3. CASE /\ handlePathResponseFrame(r)
           /\ responses' = responses \ {r}
           /\ UNCHANGED <<challenges, faults, stalled>>
  <2>1. CASE r.from = path.address /\ onPathResponse(path, r.bytes)
    <3>1. active' = path.address /\ path' = bindPeerAddress(path.address) /\ timer' = "off"
      BY <1>3, <2>1 DEF handlePathResponseFrame
    <3>2. path' = bindPeerAddress(active')
      BY <3>1
    <3>3. TypeOK'
      BY <1>1, <1>3, <3>1, PathAssumption DEF bindPeerAddress, Inv, PathAgrees, TypeOK, peer
    <3>4. path'.state = "validated"
      BY <3>1 DEF bindPeerAddress
    <3>5. PathAgrees'
      BY <3>1, <3>2, <3>3, <3>4 DEF PathAgrees, bindPeerAddress
    <3>6. QED
      BY <3>4, <3>5 DEF Inv, DrawnForCandidate
  <2>2. CASE ~(r.from = path.address /\ onPathResponse(path, r.bytes))
    BY <1>1, <1>3, <2>2
       DEF handlePathResponseFrame, bindPeerAddress, Inv, PathAgrees, TypeOK, DrawnForCandidate, peer
  <2>3. QED
    BY <2>1, <2>2
<1>4. QED
  BY <1>2, <1>3 DEF OnResponse

\* onPathValidationTimeout: the candidate is challenged again, or given up and
\* the active address bound.
LEMMA TimeoutStep ==
  ASSUME Inv, NEW f \in 0..FAULTS, onPathValidationTimeout(f)
  PROVE  Inv'
<1> DEFINE p == onTimeout(path)
<1>1. /\ path.state = "validating" /\ path.address # active /\ timer = "on"
      /\ path.address \in Addr /\ path.retries \in 0..MAX_RETRIES
      /\ path \in [address : Addr, state : {"validating"}, pending : BOOLEAN, retries : 0..MAX_RETRIES]
  BY DEF onPathValidationTimeout, Inv, PathAgrees, TypeOK
<1>2. UNCHANGED <<active, data, peer>> /\ data' \subseteq Addr
  BY DEF onPathValidationTimeout, Inv, PathAgrees, TypeOK
<1>3. CASE canRetryChallenge(path)
  <2>1. Challengeable(p) /\ p.state = "validating" /\ ~p.pending
    BY <1>1, <1>3 DEF onTimeout, Challengeable, canRetryChallenge
  <2>2. maybeSendPathChallenge(p, "off", f, responses)
    BY <2>1 DEF onPathValidationTimeout, needPathValidation
  <2>3. QED
    BY <1>2, <2>1, <2>2, ChallengeStep
<1>4. CASE ~canRetryChallenge(path)
  <2>1. p.state = "failed" /\ ~p.pending
    BY <1>1, <1>4 DEF onTimeout
  <2>2. /\ path' = bindPeerAddress(active) /\ timer' = "off" /\ faults' = f
        /\ UNCHANGED <<challenges, responses, stalled>>
    BY <2>1 DEF onPathValidationTimeout, needPathValidation
  <2>3. QED
    BY <1>2, <2>2, PathAssumption DEF bindPeerAddress, Inv, PathAgrees, TypeOK, DrawnForCandidate, peer
<1>5. QED
  BY <1>3, <1>4

\* The timer that comes early, the peer and the network: they leave the path
\* alone and carry bytes as they are.
LEMMA NetworkStep ==
  ASSUME Inv,
         \/ EarlyTimeout \/ PeerSends
         \/ \E a \in Addr : Move(a)
         \/ \E c \in challenges : handlePathChallengeFrame(c) \/ ChallengeLost(c)
         \/ \E r \in responses : ResponseLost(r)
  PROVE  Inv'
<1> USE PathAssumption DEF Inv, PathAgrees, TypeOK, DrawnForCandidate, bindPeerAddress, net, peer
<1>1. CASE EarlyTimeout
  BY <1>1 DEF EarlyTimeout
<1>2. CASE PeerSends
  BY <1>2 DEF PeerSends
<1>3. ASSUME NEW a \in Addr, Move(a) PROVE Inv'
  BY <1>3 DEF Move
<1>4. ASSUME NEW c \in challenges, handlePathChallengeFrame(c) PROVE Inv'
  BY <1>4 DEF handlePathChallengeFrame
<1>5. ASSUME NEW c \in challenges, ChallengeLost(c) PROVE Inv'
  BY <1>5 DEF ChallengeLost
<1>6. ASSUME NEW r \in responses, ResponseLost(r) PROVE Inv'
  BY <1>6 DEF ResponseLost
<1>7. QED
  BY <1>1, <1>2, <1>3, <1>4, <1>5, <1>6

\* Every step of path validation preserves the invariant.
LEMMA NextInv == Inv /\ [Next]_vars => Inv'
<1> SUFFICES ASSUME Inv, [Next]_vars PROVE Inv'
  OBVIOUS
<1>1. ASSUME NEW a \in Addr, OnPacket(a) PROVE Inv'
  BY <1>1, PacketStep
<1>2. ASSUME NEW r \in responses, OnResponse(r) PROVE Inv'
  BY <1>2, ResponseStep
<1>3. CASE Timeout
  <2>1. faults \in 0..FAULTS
    BY DEF Inv, PathAgrees, TypeOK
  <2>2. QED
    BY <1>3, <2>1, TimeoutStep DEF Timeout
<1>4. CASE SlowAnswer
  <2>1. faults - 1 \in 0..FAULTS
    BY <1>4, PathAssumption DEF SlowAnswer, Inv, PathAgrees, TypeOK
  <2>2. QED
    BY <1>4, <2>1, TimeoutStep DEF SlowAnswer
<1>5. CASE UNCHANGED vars
  BY <1>5 DEF vars, net, peer, Inv, PathAgrees, TypeOK, DrawnForCandidate, bindPeerAddress
<1>6. QED
  BY <1>1, <1>2, <1>3, <1>4, <1>5, NetworkStep DEF Next

\* Inv is an invariant of path validation: the NetworkPath, the active address,
\* the timer and the bytes under way agree after every handler.
THEOREM Invariance == Spec => []Inv
<1>1. ASSUME Init PROVE Inv
  <2>1. path = bindPeerAddress(active) /\ path.state = "validated" /\ timer = "off"
    BY <1>1 DEF Init, bindPeerAddress
  <2>2. TypeOK
    <3>1. path \in [address : Addr, state : {"validated", "validating", "failed"},
                    pending : BOOLEAN, retries : 0..MAX_RETRIES]
      BY <1>1, PathAssumption DEF Init, bindPeerAddress
    <3>2. moves \in 0..MAX_MOVES /\ faults \in 0..FAULTS
      BY <1>1, PathAssumption DEF Init
    <3>3. held \subseteq Addr /\ active \in Addr /\ at \in Addr
      BY <1>1, PathAssumption DEF Init
    <3>4. QED
      BY <1>1, <3>1, <3>2, <3>3 DEF Init, TypeOK
  <2>3. QED
    BY <2>1, <2>2 DEF Inv, PathAgrees, DrawnForCandidate
<1>2. QED
  BY <1>1, NextInv, PTL DEF Spec

\* After every handler the path is validated and active, or validating another
\* address with a challenge pending; kPathFailed never survives.
THEOREM PathsAgree == Spec => []PathAgrees
<1>1. Inv => PathAgrees
  BY DEF Inv
<1>2. QED
  BY <1>1, Invariance, PTL

\* handlePathResponseFrame adopts an address only on an echo, from that
\* address, of bytes drawn for it.
THEOREM OnlyFreshProof == Spec => FreshProof
<1> DEFINE Fresh == active' # active =>
                      \E r \in responses : r.from = active' /\ r.bytes.for = active'
<1>1. Inv /\ [Next]_vars => Fresh
  <2> SUFFICES ASSUME Inv, [Next]_vars, active' # active
               PROVE  \E r \in responses : r.from = active' /\ r.bytes.for = active'
    OBVIOUS
  <2>1. PICK r \in responses : OnResponse(r)
    BY DEF Next, vars, Move, OnPacket, PeerSends, handlePathChallengeFrame, ChallengeLost,
           ResponseLost, Timeout, SlowAnswer, EarlyTimeout, onPathValidationTimeout
  <2>2. r.from = path.address /\ onPathResponse(path, r.bytes) /\ active' = path.address
    BY <2>1 DEF OnResponse, handlePathResponseFrame
  <2>3. path.state = "validating" /\ r.bytes.latest
    BY <2>2 DEF onPathResponse, needPathValidation
  <2>4. QED
    BY <2>2, <2>3 DEF Inv, DrawnForCandidate
<1>2. [Fresh]_vars <=> Fresh
  BY DEF vars
<1>3. Inv /\ [Next]_vars => [Fresh]_vars
  BY <1>1
<1>4. QED
  BY <1>3, Invariance, PTL DEF Spec, FreshProof
=============================================================================
