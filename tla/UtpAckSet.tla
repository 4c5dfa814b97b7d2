------------------------------ MODULE UtpAckSet ------------------------------
(***************************************************************************)
(* What the receive history of a libutp connection stands for: the set of  *)
(* the packet numbers received, of which it may forget the lowest.  It     *)
(* forgets only when the numbers known form more than MAX_RANGES runs, and *)
(* then exactly the lowest run; what is below the cutoff stays forgotten.  *)
(* UtpAck is shown to implement this specification.                        *)
(***************************************************************************)
EXTENDS Integers, FiniteSetsExt

CONSTANTS MAX_RANGES, NUMBERS

VARIABLES known, cutoff, largest

setVars == <<known, cutoff, largest>>

\* The last number of each run of consecutive numbers.
RunEnds(S) == {n \in S : n + 1 \notin S}

SetInit == known = {} /\ cutoff = 0 /\ largest = 0

Learn(pn) ==
  LET all == known \cup {pn}
  IN  /\ pn >= cutoff
      /\ largest' = IF pn > largest THEN pn ELSE largest
      /\ cutoff' = IF Cardinality(RunEnds(all)) > MAX_RANGES THEN Min(RunEnds(all)) + 1 ELSE cutoff
      /\ known' = {n \in all : n >= cutoff'}

SetNext == \E pn \in NUMBERS : Learn(pn)

SetSpec == SetInit /\ [][SetNext]_setVars
=============================================================================
