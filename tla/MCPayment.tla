------------------------------ MODULE MCPayment ------------------------------
(***************************************************************************)
(* Model-checking instance of the payment service.                         *)
(***************************************************************************)
EXTENDS Payment, TLC

Symmetry == Permutations(Payments) \cup Permutations(RefundKeys)
=============================================================================
