------------------------- MODULE MCServiceLifecycle -------------------------
EXTENDS ServiceLifecycle

CONSTANTS p1, m1
=============================================================================
