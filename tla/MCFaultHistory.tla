--------------------------- MODULE MCFaultHistory ---------------------------
EXTENDS FaultHistory
=============================================================================
