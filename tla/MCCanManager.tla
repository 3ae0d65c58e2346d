---------------------------- MODULE MCCanManager ----------------------------
EXTENDS CanManager
=============================================================================
