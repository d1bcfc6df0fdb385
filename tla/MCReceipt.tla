------------------------------ MODULE MCReceipt ------------------------------
(* Receipt of a request of two lines, each shipped on its own.  The          *)
(* warehouse raised the order of the first line to 2 (a full carton) but     *)
(* ships the 1 that was asked for.                                           *)
EXTENDS Receipt, TLC

CONSTANTS l1, l2, a1, b1

MCFinal == (l1 :> 1) @@ (l2 :> 1)
MCOrdered == (l1 :> 2) @@ (l2 :> 1)
MCShipmentOf ==
  (a1 :> [line |-> l1, quantity |-> 1]) @@ (b1 :> [line |-> l2, quantity |-> 1])
MCDefault == {[useShipments |-> TRUE, fallbackToOrder |-> TRUE]}
MCEverySetting == MCDefault \union
  {[useShipments |-> TRUE, fallbackToOrder |-> FALSE], [useShipments |-> FALSE, fallbackToOrder |-> FALSE]}
=============================================================================
