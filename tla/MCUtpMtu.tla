------------------------------ MODULE MCUtpMtu ------------------------------
(* Model checking of UtpMtu; the constants are given by the .cfg files. *)
EXTENDS UtpMtu

\* The bounds config.h gives by default, a search that ends between two rungs
\* of the ladder, and a contradictory configuration.
Configs ==
  {[min |-> 1280, max |-> 1500, base |-> 1400], [min |-> 1440, max |-> 1470, base |-> 1440],
   [min |-> 1490, max |-> 1300, base |-> 1500]}
=============================================================================
