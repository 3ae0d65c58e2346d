--------------------------- MODULE MCStatusFrames ---------------------------
EXTENDS StatusFrames

\* An abort with CAN faults set, where the board starts in Idle without any.
MCPhaseFlags == {<<3, 7>>}

\* OPEN and CLOSED: one below and one above the centre.
MCReachedAngles == {-348, 552}
=============================================================================
