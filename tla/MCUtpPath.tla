------------------------------ MODULE MCUtpPath ------------------------------
\* Model checking of UtpPath.
EXTENDS UtpPath
=============================================================================
