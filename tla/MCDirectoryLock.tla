-------------------------- MODULE MCDirectoryLock --------------------------
(* Four processes that each take the lock once, one of which crashes.      *)
EXTENDS DirectoryLock, TLC

CONSTANTS w, x, y, z

Separate == [c \in Contenders |-> c]
Once == [c \in Contenders |-> 1]
Interchangeable == Permutations(Contenders)
=============================================================================
