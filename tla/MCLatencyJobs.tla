--------------------------- MODULE MCLatencyJobs ---------------------------
(* Instances of LatencyJobs for TLC: no property tells the nodes apart.    *)
EXTENDS LatencyJobs, TLC

Symmetry == Permutations(Node)
=============================================================================
