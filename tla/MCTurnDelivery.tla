--------------------------- MODULE MCTurnDelivery ---------------------------
(* Instances of TurnDelivery for TLC.  The .cfg files give every constant, *)
(* with turns and workers as model values.                                 *)
EXTENDS TurnDelivery
=============================================================================
