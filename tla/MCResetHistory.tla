--------------------------- MODULE MCResetHistory ---------------------------
EXTENDS ResetHistory
=============================================================================
