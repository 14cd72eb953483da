----------------------------- MODULE EventTopic ------------------------------
(***************************************************************************)
(* What the relays that publish and the consumer group that reads share:   *)
(* one partition of a topic, and the failures they meet.                   *)
(***************************************************************************)
EXTENDS Naturals, Sequences

CONSTANT MaxFaults   \* bound on refused or unanswered calls, rebalances and crashes

ASSUME FaultBound == MaxFaults \in Nat

VARIABLES topic,     \* the records' contents, in offset order
          faults     \* failed calls, rebalances and crashes so far

Fault == faults < MaxFaults /\ faults' = faults + 1
=============================================================================
