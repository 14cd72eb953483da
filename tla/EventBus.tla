------------------------------ MODULE EventBus -------------------------------
(***************************************************************************)
(* The way of an event from a service's transaction to another service's:  *)
(* the outbox and its relays publish to a topic, a consumer group reads    *)
(* it.  The composition of OutboxRelay and KafkaConsumer over the topic    *)
(* they share; a record's content is the id of the outbox row, one of the  *)
(* Values.                                                                 *)
(***************************************************************************)
EXTENDS OutboxRelay, KafkaConsumer

ASSUME BusConstants == Ids \subseteq Values

relayVars == <<row, rowKey, marked, relay, overlap>>
groupVars == <<owner, position, committed, member, processed, applied, parked, fetchErrors>>
vars == <<relayVars, topic, faults, groupVars>>

Init == OutboxInit /\ ConsumerInit

Produces == OutboxNext /\ UNCHANGED groupVars
Consumes == GroupNext /\ UNCHANGED relayVars

Next == Produces \/ Consumes

Fairness ==
    /\ \A r \in Relays : WF_vars(DrainStep(r) /\ UNCHANGED groupVars)
    /\ \A m \in Members : WF_vars(Step(m) /\ UNCHANGED relayVars)

Spec == Init /\ [][Next]_vars /\ Fairness

-----------------------------------------------------------------------------
Delivered == {topic[o] : o \in Done}

Channel == INSTANCE EventChannel WITH delivered <- Delivered

(* ARCHITECTURE: no dual-write, no lost events, and a single aggregate's   *)
(* events stay ordered.  With one relay, outbox, topic and group together  *)
(* implement the event channel, through crashes of relay and consumers,    *)
(* republished batches, rebalances and records set aside.                  *)
ImplementsChannel == Channel!Spec
=============================================================================
