------------------------------ MODULE UtpPath ------------------------------
(***************************************************************************)
(* Path validation of a libutp connection: NetworkPath and the handlers    *)
(* of ConnectionImpl around it.  The peer changes its address (a NAT       *)
(* rebinding, another network); the connection keeps sending on its active *)
(* address, challenges the new one and adopts it once the challenge is     *)
(* echoed from there.                                                      *)
(*                                                                         *)
(* Time is left to the network: a timer may fire while the answer is still *)
(* under way, at the cost of a fault.  The random bytes of a challenge are *)
(* only ever compared with those drawn last, so of the bytes in a frame    *)
(* under way the model keeps whether they are those, and, for the          *)
(* properties, the address they were drawn for.  The connection is         *)
(* established and stays so.                                               *)
(***************************************************************************)
EXTENDS Integers

CONSTANTS
  Addr,         \* the addresses of the peer
  HOME,         \* the one the connection was established with
  MAX_RETRIES,  \* m_maxChallengeRetries
  MAX_MOVES,    \* bound: how often the peer moves
  FAULTS        \* bound: lost packets, slow answers, refused sends, early timers

ASSUME PathAssumption ==
  /\ HOME \in Addr
  /\ MAX_RETRIES \in Nat \ {0} /\ MAX_MOVES \in Nat /\ FAULTS \in Nat

VARIABLES
  active,       \* ConnectionImpl::m_peerAddress
  path,         \* m_networkPath: address, state, whether a challenge is pending, retries
  timer,        \* m_pathValidationTimer: "on" for the latest challenge, "old" or "off"
  challenges,   \* PATH_CHALLENGE frames under way to the peer
  responses,    \* PATH_RESPONSE frames under way from the peer
  data,         \* the addresses other packets under way come from
  at,           \* where the peer is
  held,         \* where it is or was: an old mapping may still deliver
  moves,        \* moves left
  faults,       \* faults left
  stalled       \* the challenge pending was not sent, or its timer came early

net  == <<challenges, responses, data>>
peer == <<at, held, moves>>
vars == <<active, path, timer, net, peer, faults, stalled>>

\* The bytes of a challenge.
Bytes == [for : Addr, latest : BOOLEAN]

TypeOK ==
  /\ active \in Addr /\ at \in Addr /\ held \subseteq Addr
  /\ path \in [address : Addr, state : {"validated", "validating", "failed"},
               pending : BOOLEAN, retries : 0..MAX_RETRIES]
  /\ timer \in {"off", "on", "old"}
  /\ challenges \subseteq [bytes : Bytes, to : Addr]
  /\ responses \subseteq [bytes : Bytes, from : Addr]
  /\ data \subseteq Addr
  /\ moves \in 0..MAX_MOVES /\ faults \in 0..FAULTS /\ stalled \in BOOLEAN

-----------------------------------------------------------------------------
(* NetworkPath *)

bindPeerAddress(a) ==
  [address |-> a, state |-> "validated", pending |-> FALSE, retries |-> 0]

\* What detectPeerAddressChange leaves when it answers true.
Candidate(a) ==
  [address |-> a, state |-> "validating", pending |-> FALSE, retries |-> 0]

needPathValidation(p) == p.state = "validating"

canRetryChallenge(p) == p.retries < MAX_RETRIES

\* Mutant: the challenge is not counted.
MakeChallengeUncounted(p) == [p EXCEPT !.pending = TRUE]

\* No challenge of p is pending here: the early return is not taken.
makePathChallenge(p) ==
  IF canRetryChallenge(p)
  THEN [p EXCEPT !.pending = TRUE, !.retries = @ + 1]
  ELSE [p EXCEPT !.state = "failed"]

\* What drawing new bytes makes of the frames under way.
Superseded(frames) == {[f EXCEPT !.bytes.latest = FALSE] : f \in frames}

\* Mutant: the test for a pending challenge is the wrong way round.
OnResponseNotPending(p, bytes) == needPathValidation(p) /\ ~p.pending /\ bytes.latest
onPathResponse(p, bytes) == needPathValidation(p) /\ p.pending /\ bytes.latest

\* Mutant: the challenge stays pending when its deadline has passed.
OnTimeoutStillPending(p) ==
  [p EXCEPT !.state = IF canRetryChallenge(p) THEN @ ELSE "failed"]

\* The deadline of the pending challenge has passed.
onTimeout(p) ==
  [p EXCEPT !.pending = FALSE, !.state = IF canRetryChallenge(p) THEN @ ELSE "failed"]

-----------------------------------------------------------------------------
(* ConnectionImpl *)

\* The challenge goes to the candidate, not to the active address, and starts
\* the timer.  When sendPacket is refused the challenge stays pending all the
\* same.  t and f are the timer and the faults as they stand, rs the responses
\* still under way.
maybeSendPathChallenge(p, t, f, rs) ==
  /\ path' = makePathChallenge(p)
  /\ responses' = Superseded(rs)
  /\ \/ /\ challenges' = Superseded(challenges) \cup
              {[bytes |-> [for |-> p.address, latest |-> TRUE], to |-> p.address]}
        /\ timer' = "on"
        /\ faults' = f
        /\ stalled' = FALSE
     \/ /\ f > 0
        /\ faults' = f - 1
        /\ challenges' = Superseded(challenges)
        /\ timer' = IF t = "on" THEN "old" ELSE t
        /\ stalled' = TRUE

\* A packet from an address that is neither the active one nor the candidate
\* makes it the candidate, whatever was being validated.
AddressChanged(a) == a # active /\ a # path.address

detectPeerAddressChange(a, rs) ==
  /\ AddressChanged(a)
  /\ maybeSendPathChallenge(Candidate(a), timer, faults, rs)

\* Mutant: wherever the response comes from.
HandleResponseFromAnywhere(r) ==
  /\ ~AddressChanged(r.from)
  /\ IF onPathResponse(path, r.bytes)
     THEN /\ active' = path.address
          /\ path' = bindPeerAddress(path.address)
          /\ timer' = "off"
     ELSE UNCHANGED <<active, path, timer>>

handlePathResponseFrame(r) ==
  /\ ~AddressChanged(r.from)
  /\ IF r.from = path.address /\ onPathResponse(path, r.bytes)
     THEN /\ active' = path.address
          /\ path' = bindPeerAddress(path.address)
          /\ timer' = "off"
     ELSE UNCHANGED <<active, path, timer>>

\* onUdpPacket, for a packet with none of the frames of path validation: it is
\* an address that counts here.
OnPacket(a) ==
  /\ a \in data
  /\ data' = data \ {a}
  /\ \/ detectPeerAddressChange(a, responses)
     \/ /\ ~AddressChanged(a)
        /\ UNCHANGED <<path, timer, challenges, responses, faults, stalled>>
  /\ UNCHANGED <<active, peer>>

\* onUdpPacket, for a PATH_RESPONSE.  One that makes its address the candidate
\* cannot echo the challenge just drawn.
OnResponse(r) ==
  /\ r \in responses
  /\ \/ /\ detectPeerAddressChange(r.from, responses \ {r})
        /\ UNCHANGED active
     \/ /\ handlePathResponseFrame(r)
        /\ responses' = responses \ {r}
        /\ UNCHANGED <<challenges, faults, stalled>>
  /\ UNCHANGED <<data, peer>>

\* The answer to the pending challenge can still come.
Answerable ==
  \/ \E c \in challenges : c.bytes.latest /\ c.to = at
  \/ \E r \in responses : r.bytes.latest /\ r.from = path.address

\* onPathValidationTimeout once the deadline has passed.  A candidate out of
\* retries is given up and the active address bound again.
onPathValidationTimeout(f) ==
  /\ timer = "on"
  /\ \E p \in {onTimeout(path)} :
       \/ /\ p.state = "failed" \/ p.pending
          /\ path' = IF p.state = "failed" THEN bindPeerAddress(active) ELSE p
          /\ timer' = "off"
          /\ faults' = f
          /\ UNCHANGED <<challenges, responses, stalled>>
       \/ /\ needPathValidation(p) /\ ~p.pending
          /\ maybeSendPathChallenge(p, "off", f, responses)
  /\ UNCHANGED <<active, data, peer>>

Timeout == ~Answerable /\ onPathValidationTimeout(faults)
SlowAnswer == Answerable /\ faults > 0 /\ onPathValidationTimeout(faults - 1)

\* The timer fires before the deadline of the pending challenge: it was started
\* for an earlier one, or the clock of the loop lags.  NetworkPath::onTimeout
\* does nothing and the timer is not started again.
EarlyTimeout ==
  /\ \/ timer = "old" /\ UNCHANGED faults
     \/ timer = "on" /\ faults > 0 /\ faults' = faults - 1
  /\ timer' = "off"
  /\ stalled' = TRUE
  /\ UNCHANGED <<active, path, net, peer>>

-----------------------------------------------------------------------------
(* The peer and the network *)

Move(a) ==
  /\ moves > 0 /\ a # at
  /\ moves' = moves - 1
  /\ at' = a
  /\ held' = held \cup {a}
  /\ UNCHANGED <<active, path, timer, net, faults, stalled>>

PeerSends ==
  /\ data' = data \cup {at}
  /\ UNCHANGED <<active, path, timer, challenges, responses, peer, faults, stalled>>

\* The peer echoes a challenge from where it is now.
handlePathChallengeFrame(c) ==
  /\ c \in challenges /\ c.to \in held
  /\ challenges' = challenges \ {c}
  /\ responses' = responses \cup {[bytes |-> c.bytes, from |-> at]}
  /\ UNCHANGED <<active, path, timer, data, peer, faults, stalled>>

\* A lost challenge is sent again, as every packet with a frame of
\* UTP_FRAME_RETX_MASK, but to the active address.
ChallengeLost(c) ==
  /\ c \in challenges
  /\ IF c.to = at /\ c.bytes.latest
     THEN faults > 0 /\ faults' = faults - 1
     ELSE UNCHANGED faults
  /\ \/ challenges' = challenges \ {c}
     \/ challenges' = (challenges \ {c}) \cup {[c EXCEPT !.to = active]}
  /\ UNCHANGED <<active, path, timer, responses, data, peer, stalled>>

\* A lost response is sent again, from where the peer has moved to.
ResponseLost(r) ==
  /\ r \in responses /\ faults > 0
  /\ faults' = faults - 1
  /\ \/ responses' = responses \ {r}
     \/ responses' = (responses \ {r}) \cup {[r EXCEPT !.from = at]}
  /\ UNCHANGED <<active, path, timer, challenges, data, peer, stalled>>

-----------------------------------------------------------------------------
Init ==
  /\ active = HOME /\ at = HOME /\ held = {HOME}
  /\ path = bindPeerAddress(HOME)
  /\ timer = "off"
  /\ challenges = {} /\ responses = {} /\ data = {}
  /\ moves = MAX_MOVES /\ faults = FAULTS /\ stalled = FALSE

Next ==
  \/ \E a \in Addr : Move(a) \/ OnPacket(a)
  \/ PeerSends
  \/ \E c \in challenges : handlePathChallengeFrame(c) \/ ChallengeLost(c)
  \/ \E r \in responses : OnResponse(r) \/ ResponseLost(r)
  \/ Timeout
  \/ SlowAnswer
  \/ EarlyTimeout

Spec == Init /\ [][Next]_vars

\* The peer goes on sending, what is sent to where it is and what it sends
\* arrives, and a timer that has nothing to wait for fires.
FairSpec ==
  /\ Spec
  /\ WF_vars(PeerSends)
  /\ \A a \in Addr : WF_vars(OnPacket(a))
  /\ WF_vars(\E c \in challenges : c.to = at /\ handlePathChallengeFrame(c))
  /\ WF_vars(\E r \in responses : OnResponse(r))
  /\ WF_vars(Timeout)

-----------------------------------------------------------------------------
(* What path validation promises *)

\* Between two events the path is either validated, and then it is the active
\* address and no timer runs, or it is validating another address with a
\* challenge pending and the timer running for it, unless that challenge was
\* never sent or its timer came early.  In particular kPathFailed, in which
\* sendPacket refuses everything (connection_impl.cpp:2577) and which only a
\* new address would end, is never left standing.
PathAgrees ==
  /\ TypeOK
  /\ \/ /\ path.state = "validated"
        /\ path = bindPeerAddress(active)
        /\ timer = "off"
     \/ /\ path.state = "validating"
        /\ path.address # active
        /\ path.pending
        /\ stalled \/ timer = "on"

\* An address becomes the active one (handlePathResponseFrame) only on an echo
\* from that address of a challenge drawn for that address: never on the answer
\* to the challenge of an earlier candidate, however late and from wherever it
\* comes.
FreshProof ==
  [][active' # active =>
       \E r \in responses : r.from = active' /\ r.bytes.for = active']_vars

\* The rest of the inductive invariant of the proofs: while a candidate is
\* validated, frames with the bytes drawn last carry bytes drawn for it.
DrawnForCandidate ==
  path.state = "validating" =>
    \A f \in challenges \cup responses : f.bytes.latest => f.bytes.for = path.address

Inv == PathAgrees /\ DrawnForCandidate

\* A validation comes to an end, by an echo or by running out of retries
\* (onPathValidationTimeout), unless it stalled.
ValidationEnds ==
  path.state = "validating" ~> path.state # "validating" \/ stalled

\* Once the peer stays where it is the connection ends up sending there: late
\* packets from older addresses and failed validations do not keep it away for
\* ever (detectPeerAddressChange, onPathValidationTimeout).
Follows == <>[](active = at \/ stalled)

=============================================================================
