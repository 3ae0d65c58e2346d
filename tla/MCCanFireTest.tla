--------------------------- MODULE MCCanFireTest ---------------------------
EXTENDS CanFireTest
=============================================================================
