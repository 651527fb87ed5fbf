--------------------------- MODULE MCCloudSession ---------------------------
(* The instance of CloudSession that TLC checks.                           *)
EXTENDS CloudSession, TLC

Symmetry == Permutations(Tasks) \cup Permutations(Accounts)
=============================================================================
