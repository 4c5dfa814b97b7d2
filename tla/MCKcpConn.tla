----------------------------- MODULE MCKcpConn ------------------------------
(* Model checking of KcpConn; the constants are given by the .cfg files. *)
EXTENDS KcpConn, TLC

CONSTANTS a, b, o1, o2

OnePath    == {a}
TwoPaths   == {a, b}
OneObject  == {o1}
TwoObjects == {o1, o2}

\* The server's connection objects are interchangeable.
ObjectSymmetry == Permutations(TwoObjects)
=============================================================================
