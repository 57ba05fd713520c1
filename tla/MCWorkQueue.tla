---------------------------- MODULE MCWorkQueue ----------------------------
EXTENDS WorkQueue
=============================================================================
