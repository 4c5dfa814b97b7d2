----------------------------- MODULE UtpHistory -----------------------------
(***************************************************************************)
(* ReceiveHistory (receive_history.cpp), the record a libutp connection    *)
(* keeps of the packet numbers it received, and the ACK frame made of it   *)
(* (ack.cpp).                                                              *)
(*                                                                         *)
(* A history is [list, cutoff, largest]; list is the linked list of        *)
(* intervals [low, high], greatest first, and m_usedCount its length.  The *)
(* elements' free list is left out.  Packet numbers are 64 bits wide and   *)
(* start at 1; the 32-bit gaps and lengths of a frame do not overflow      *)
(* before 2^32 consecutive numbers.                                        *)
(***************************************************************************)
EXTENDS Integers, Sequences, SequencesExt

CONSTANTS
  MAX_RANGES,     \* m_maxRanges: intervals kept
  ACK_RANGES      \* max_ack_range_size: intervals told in a frame

ASSUME HistoryAssumption ==
  /\ MAX_RANGES \in Nat \ {0}
  /\ ACK_RANGES \in Nat \ {0}

EmptyHistory == [list |-> <<>>, cutoff |-> 0, largest |-> 0]

Interval(low, high) == [low |-> low, high |-> high]

\* The packet numbers a list of intervals stands for.
Numbers(list) == UNION {list[i].low .. list[i].high : i \in DOMAIN list}

----------------------------------------------------------------------------
\* Recording a number

InsertNoMergeBelow(list, pn) ==
  LET hits == {i \in DOMAIN list : pn + 1 >= list[i].low}
      i    == IF hits = {} THEN Len(list) + 1 ELSE Min(hits)
  IN  IF hits = {} \/ list[i].high + 1 < pn
      THEN InsertAt(list, i, Interval(pn, pn))
      ELSE ReplaceAt(list, i, Interval(Min({pn, list[i].low}), Max({pn, list[i].high})))

\* The walk down the list stops at the first interval that pn touches or
\* lies above.  A gap of one between two intervals is met at its upper side,
\* so only the merge with the interval below can come about.
insertIntoList(list, pn) ==
  LET n    == Len(list)
      hits == {i \in 1..n : pn + 1 >= list[i].low}
      i    == IF hits = {} THEN n + 1 ELSE Min(hits)
      Merged(j, low, high) == RemoveAt(ReplaceAt(list, j, Interval(low, high)), j + 1)
  IN  IF hits = {} \/ list[i].high + 1 < pn
      THEN InsertAt(list, i, Interval(pn, pn))
      ELSE IF pn \in list[i].low .. list[i].high
      THEN list
      ELSE IF pn + 1 = list[i].low
      THEN IF i > 1 /\ list[i - 1].high + 1 = pn
           THEN Merged(i - 1, list[i - 1].low, list[i].high)
           ELSE IF i < n /\ list[i + 1].high + 1 = pn
           THEN Merged(i, list[i + 1].low, list[i].high)
           ELSE ReplaceAt(list, i, Interval(pn, list[i].high))
      ELSE IF i < n /\ list[i + 1].low = pn + 1
           THEN Merged(i, list[i].low, list[i + 1].high)
           ELSE ReplaceAt(list, i, Interval(list[i].low, pn))

DropOldestKeepsCutoff(h) == [h EXCEPT !.list = Front(h.list)]

\* The interval with the smallest numbers goes; nothing up to its end is
\* recorded any more.
dropOldestRange(h) ==
  IF h.list = <<>> THEN h
  ELSE [h EXCEPT !.list = Front(h.list), !.cutoff = Last(h.list).high + 1]

insert(h, pn) ==
  LET g == [h EXCEPT !.list = insertIntoList(h.list, pn),
                     !.largest = IF pn > h.largest THEN pn ELSE h.largest]
  IN  IF pn < h.cutoff THEN h
      ELSE IF Len(g.list) > MAX_RANGES THEN dropOldestRange(g) ELSE g

----------------------------------------------------------------------------
\* The ACK frame: the greatest number, the length of the first interval, then
\* the gap below each interval and the length of the next.

rangeSize(h) == (IF Len(h.list) > ACK_RANGES THEN ACK_RANGES ELSE Len(h.list)) - 1

EncodeGapInclusive(h) ==
  LET Length(i) == h.list[i].high - h.list[i].low + 1
  IN  [largest |-> h.largest, first |-> Length(1),
       ranges  |-> [i \in 1..rangeSize(h) |->
                      [gap |-> h.list[i].low - h.list[i + 1].high - 2, length |-> Length(i + 1)]]]

encode(h) ==
  LET Length(i) == h.list[i].high - h.list[i].low + 1
  IN  [largest |-> h.largest, first |-> Length(1),
       ranges  |-> [i \in 1..rangeSize(h) |->
                      [gap |-> h.list[i].low - h.list[i + 1].high - 1, length |-> Length(i + 1)]]]

\* The intervals of a frame; the lower end of one gives the upper end of the
\* next.
decode(frame) ==
  LET low[i \in 0..Len(frame.ranges)] ==
        IF i = 0 THEN frame.largest - frame.first + 1
        ELSE low[i - 1] - frame.ranges[i].gap - frame.ranges[i].length
  IN  [i \in 1..(Len(frame.ranges) + 1) |->
         IF i = 1 THEN Interval(low[0], frame.largest)
         ELSE Interval(low[i - 1], low[i - 1] + frame.ranges[i - 1].length - 1)]

\* What the decoder refuses: an empty interval, or one that reaches below 0.
Decodes(frame) ==
  LET ranges == decode(frame)
  IN  /\ frame.first > 0
      /\ \A i \in DOMAIN ranges : ranges[i].low >= 0
      /\ \A i \in DOMAIN frame.ranges :
           frame.ranges[i].length > 0 /\ ranges[i].low > frame.ranges[i].gap

\* The packets a frame acknowledges (IsPackNoAcked).
Acknowledged(frame) == Numbers(decode(frame))

----------------------------------------------------------------------------
\* What the proofs know of a history

Intervals == [low : Nat, high : Nat]

\* No interval is empty, and they lie in descending order with gaps between
\* them.
Descending(list) ==
  /\ \A i \in 1..Len(list) : list[i].low <= list[i].high
  /\ \A i, j \in 1..Len(list) : i < j => list[j].high + 1 < list[i].low

\* A history as insert leaves it.
WellFormed(h) ==
  /\ h \in [list : Seq(Intervals), cutoff : Nat, largest : Nat]
  /\ Descending(h.list) /\ Len(h.list) <= MAX_RANGES
  /\ \A i \in 1..Len(h.list) : h.cutoff <= h.list[i].low
  /\ IF h.list = <<>> THEN h.cutoff = 0 /\ h.largest = 0 ELSE h.list[1].high = h.largest
=============================================================================
