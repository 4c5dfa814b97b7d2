----------------------------- MODULE MCKcpData ------------------------------
(* Model checking of KcpData; the constants are given by the .cfg files. *)
EXTENDS KcpDataInv
=============================================================================
