-------------------------- MODULE MCFiringHistory ---------------------------
EXTENDS FiringHistory
=============================================================================
