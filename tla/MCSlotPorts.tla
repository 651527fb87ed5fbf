---------------------------- MODULE MCSlotPorts ----------------------------
(* The instance of SlotPorts that TLC checks.                              *)
EXTENDS SlotPorts, TLC

\* The whole range, where a port cools down for two steps, and a narrower one
\* where it does for one.
TwoSettings ==
    {[start |-> 1, end |-> MaxPort, cooldown |-> 2], [start |-> 2, end |-> MaxPort, cooldown |-> 1]}

Symmetry == Permutations(Slots) \cup Permutations(Tasks)
=============================================================================
