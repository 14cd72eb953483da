--------------------------- MODULE MCCheckoutSaga ---------------------------
(***************************************************************************)
(* Model-checking instances of the checkout saga.                          *)
(***************************************************************************)
EXTENDS CheckoutSaga, TLC

Symmetry == Permutations(Orders) \cup Permutations(Consumers) \cup Permutations(Shops)
=============================================================================
