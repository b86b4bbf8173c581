------------------------------- MODULE MCMemory -------------------------------
EXTENDS Memory

MCDelta == {-6, -3, 3}
=============================================================================
