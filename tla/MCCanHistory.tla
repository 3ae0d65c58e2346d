---------------------------- MODULE MCCanHistory ----------------------------
EXTENDS CanHistory
=============================================================================
