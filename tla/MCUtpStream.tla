----------------------------- MODULE MCUtpStream -----------------------------
\* Model checking of UtpStream.
EXTENDS UtpStream
=============================================================================
