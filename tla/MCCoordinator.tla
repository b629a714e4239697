--------------------------- MODULE MCCoordinator ---------------------------
\* Instances of Coordinator for TLC.
EXTENDS Coordinator

CONSTANTS w1, w2

\* w1 is joined by its turn, w2 runs detached or in another turn's plan.
BothJoined == [w \in Workers |-> TRUE]
OneJoined == [w \in Workers |-> w = w1]
WaitForAll == [w \in Workers |-> "all"]
WaitForAny == [w \in Workers |-> "any"]
WaitForOne == [w \in Workers |-> 1]
=============================================================================
