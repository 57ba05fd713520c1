------------------------ MODULE MCCancellationSlots ------------------------
(* Tasks are interchangeable: nothing but identity tells them apart.       *)
EXTENDS CancellationSlots, TLC
TaskSymmetry == Permutations(Tasks)
=============================================================================
