--------------------------- MODULE MCUvmObjection ---------------------------
EXTENDS UvmObjection
=============================================================================
