---------------------------- MODULE MCVpiCallback ---------------------------
EXTENDS VpiCallback
=============================================================================
