--------------------------- MODULE MCSlotRuntime ---------------------------
(* TLC instances of SlotRuntime.  The commands a task may run and the node  *)
(* sets a provider may deliver keep an instance small without a bound on    *)
(* the length of its behaviours.                                            *)
EXTENDS SlotRuntime, TLC

CONSTANTS
    User,    \* a task of the user interface, where tasks have roles
    Steady,  \* a node the provider always delivers
    Fickle   \* a node it delivers now and then

AllCommands == [w \in Workers |-> {"bind", "update", "refresh", "start", "stop"}]
BindAndStart == [w \in Workers |-> {"bind", "start"}]
BindAndStop == [w \in Workers |-> IF w = User THEN {"bind"} ELSE {"start", "stop"}]

AnyContents == (SUBSET Nodes) \ {{}}
Flickering == {{Steady}, {Steady, Fickle}}

Symmetry == Permutations(Managers)
=============================================================================
