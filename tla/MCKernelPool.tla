---------------------------- MODULE MCKernelPool ----------------------------
EXTENDS KernelPool
=============================================================================
