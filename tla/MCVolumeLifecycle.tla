------------------------- MODULE MCVolumeLifecycle -------------------------
(* Instances of VolumeLifecycle for TLC.                                   *)
EXTENDS VolumeLifecycle, TLC

\* The controller processes are interchangeable (safety runs only).
Symmetric == Permutations(Procs)
=============================================================================
