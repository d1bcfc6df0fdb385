----------------------------- MODULE MCInventory -----------------------------
(* Inventory on small instances, whose sets of model values the cfg gives.   *)
EXTENDS Inventory
=============================================================================
