--------------------------- MODULE MCParallelFor ---------------------------
EXTENDS ParallelFor
=============================================================================
