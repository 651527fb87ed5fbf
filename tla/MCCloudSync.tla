---------------------------- MODULE MCCloudSync ----------------------------
(* TLC instances of CloudSync.  The bounds of the constants end every       *)
(* behaviour, so deadlock is not checked.                                   *)
EXTENDS CloudSync, TLC

Symmetry == Permutations(Devices)
SymmetryWithRecords == Permutations(Devices) \cup Permutations(Records)
=============================================================================
