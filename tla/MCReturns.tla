------------------------------ MODULE MCReturns ------------------------------
(***************************************************************************)
(* Model-checking instances of returns.                                    *)
(***************************************************************************)
EXTENDS Returns, TLC

CONSTANTS lamp, mug

(* Two lamps and a mug, discounted: shares of the total do not come out    *)
(* even, and a mug alone is refunded nothing.                              *)
MCOrdered == lamp :> 2 @@ mug :> 1
MCPrice == lamp :> 3 @@ mug :> 1


Symmetry == Permutations(Returns) \cup Permutations(Deciders)
=============================================================================
