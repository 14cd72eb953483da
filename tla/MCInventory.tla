----------------------------- MODULE MCInventory -----------------------------
(***************************************************************************)
(* Model-checking instance of the inventory service.                       *)
(***************************************************************************)
EXTENDS Inventory

MCDeltas == {-1, 1}
=============================================================================
