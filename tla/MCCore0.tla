------------------------------ MODULE MCCore0 -------------------------------
EXTENDS Core0
=============================================================================
