----------------------------- MODULE MCEventBus ------------------------------
(***************************************************************************)
(* Model-checking instances of the event bus: the record of the first row  *)
(* is one the handler never accepts.                                       *)
(***************************************************************************)
EXTENDS EventBus

FirstIsPoison == {1}
=============================================================================
