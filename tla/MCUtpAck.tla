------------------------------ MODULE MCUtpAck ------------------------------
\* Model checking of UtpAck.
EXTENDS UtpAck
=============================================================================
