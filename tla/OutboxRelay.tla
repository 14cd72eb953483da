----------------------------- MODULE OutboxRelay -----------------------------
(***************************************************************************)
(* The transactional outbox of one service and the relays of its replicas  *)
(* (pkg/kafka/outbox.go).                                                  *)
(*                                                                         *)
(* The record of a row carries its id.                                     *)
(*                                                                         *)
(* A row's id is drawn when it is inserted and the row becomes visible     *)
(* when its transaction commits, so rows of different aggregates become    *)
(* visible out of id order; the aggregate's row lock keeps the rows of one *)
(* key in order.  drainOnce is not one transaction: its SELECT .. FOR      *)
(* UPDATE SKIP LOCKED runs through the pool, so the row locks last only    *)
(* while the statement does, and the rows are published and marked later.  *)
(***************************************************************************)
EXTENDS EventTopic, FiniteSetsExt

CONSTANTS Relays,     \* replicas running OutboxRelay.Run
          Keys,       \* aggregate ids
          Batch,      \* rows of one drain pass
          MaxRows     \* bound on rows inserted

ASSUME RelayConstants == Batch \in Nat \ {0} /\ MaxRows \in Nat

VARIABLES row,      \* state of each row: "none", "open" (not committed), "committed", "gone"
          rowKey,   \* key of each row
          marked,   \* rows with published_at set
          relay,    \* local state of each relay
          overlap   \* history: two relays drained at the same time

tableVars == <<row, rowKey>>
outboxVars == <<tableVars, marked, topic, relay, faults, overlap>>

Ids == 1..MaxRows
OnTopic == {topic[i] : i \in DOMAIN topic}

RelayState == [pc : {"idle", "reading", "publishing", "marking"},
               pending : SUBSET Ids, sent : SUBSET Ids]
IdleRelay == [pc |-> "idle", pending |-> {}, sent |-> {}]

OutboxTypeOK ==
    /\ row \in [Ids -> {"none", "open", "committed", "gone"}]
    /\ rowKey \in [Ids -> Keys]
    /\ marked \subseteq Ids
    /\ topic \in Seq(Ids)
    /\ relay \in [Relays -> RelayState]
    /\ faults \in 0..MaxFaults /\ overlap \in BOOLEAN

OutboxInit ==
    /\ row = [i \in Ids |-> "none"]
    /\ rowKey \in [Ids -> Keys]
    /\ marked = {} /\ topic = <<>> /\ faults = 0 /\ overlap = FALSE
    /\ relay = [r \in Relays |-> IdleRelay]

-----------------------------------------------------------------------------
(* A service's transaction inserts its outbox row; the lock on the         *)
(* aggregate keeps out a second transaction of the same key.               *)
InsertRow(i) ==
    /\ row[i] = "none" /\ \A j \in Ids : j < i => row[j] # "none"
    /\ \A j \in Ids : row[j] = "open" => rowKey[j] # rowKey[i]
    /\ row' = [row EXCEPT ![i] = "open"]
    /\ UNCHANGED <<rowKey, marked, topic, relay, faults, overlap>>

EndTransaction(i, outcome) ==
    /\ row[i] = "open"
    /\ row' = [row EXCEPT ![i] = outcome]
    /\ UNCHANGED <<rowKey, marked, topic, relay, faults, overlap>>

-----------------------------------------------------------------------------
(* Rows another relay's SELECT holds at this moment.                       *)
Locked(r) == UNION {relay[q].pending : q \in {x \in Relays \ {r} : relay[x].pc = "reading"}}

Unpublished(r) == {i \in Ids : row[i] = "committed" /\ i \notin marked} \ Locked(r)

(* ORDER BY id LIMIT batch.                                                *)
FirstOf(ids) == {i \in ids : Cardinality({j \in ids : j < i}) < Batch}

(* Mutant: the relay remembers the last id in place of published_at.       *)
DrainSelectAfterLast(r) ==
    LET last == IF OnTopic = {} THEN 0 ELSE Max(OnTopic)
        found == {i \in Ids : row[i] = "committed" /\ i > last} IN
    /\ relay[r].pc = "idle" /\ found # {}
    /\ relay' = [relay EXCEPT ![r] = [pc |-> "reading", pending |-> FirstOf(found), sent |-> {}]]
    /\ overlap' = (overlap \/ \E q \in Relays \ {r} : relay[q].pc # "idle")
    /\ UNCHANGED <<tableVars, marked, topic, faults>>

DrainSelect(r) ==
    /\ relay[r].pc = "idle" /\ Unpublished(r) # {}
    /\ relay' = [relay EXCEPT ![r] =
                    [pc |-> "reading", pending |-> FirstOf(Unpublished(r)), sent |-> {}]]
    /\ overlap' = (overlap \/ \E q \in Relays \ {r} : relay[q].pc # "idle")
    /\ UNCHANGED <<tableVars, marked, topic, faults>>

(* The statement ends: the locks are gone.                                 *)
DrainSelected(r) ==
    /\ relay[r].pc = "reading"
    /\ relay' = [relay EXCEPT ![r].pc = "publishing"]
    /\ UNCHANGED <<tableVars, marked, topic, faults, overlap>>

(* Mutant: the loop goes on behind a row that could not be published.      *)
DrainPublishSkipping(r) ==
    LET i == Min(relay[r].pending)
        left == relay[r].pending \ {i}
        next == IF left = {} THEN "marking" ELSE "publishing" IN
    /\ relay[r].pc = "publishing"
    /\ \/ /\ topic' = Append(topic, i) /\ UNCHANGED faults
          /\ relay' = [relay EXCEPT ![r] = [pc |-> next, pending |-> left, sent |-> @.sent \cup {i}]]
       \/ /\ Fault /\ UNCHANGED topic
          /\ relay' = [relay EXCEPT ![r] = [pc |-> next, pending |-> left, sent |-> @.sent]]
    /\ UNCHANGED <<tableVars, marked, overlap>>

(* One turn of the publish loop, in id order.  The broker may refuse, or   *)
(* its acknowledgement may get lost; either way the loop stops.            *)
DrainPublish(r) ==
    LET i == Min(relay[r].pending)
        left == relay[r].pending \ {i} IN
    /\ relay[r].pc = "publishing"
    /\ \/ /\ topic' = Append(topic, i) /\ UNCHANGED faults
          /\ relay' = [relay EXCEPT ![r] =
                          [pc |-> IF left = {} THEN "marking" ELSE "publishing",
                           pending |-> left, sent |-> @.sent \cup {i}]]
       \/ /\ Fault /\ (topic' = Append(topic, i) \/ UNCHANGED topic)
          /\ relay' = [relay EXCEPT ![r].pc = "marking"]
    /\ UNCHANGED <<tableVars, marked, overlap>>

(* Mutant: the whole batch is marked, the unpublished rest included.       *)
DrainMarkBatch(r) ==
    /\ relay[r].pc = "marking"
    /\ marked' = marked \cup relay[r].sent \cup relay[r].pending
    /\ relay' = [relay EXCEPT ![r] = IdleRelay]
    /\ UNCHANGED <<tableVars, topic, faults, overlap>>

(* The published prefix is marked in one statement.                        *)
DrainMark(r) ==
    /\ relay[r].pc = "marking"
    /\ \/ marked' = marked \cup relay[r].sent /\ UNCHANGED faults
       \/ Fault /\ UNCHANGED marked
    /\ relay' = [relay EXCEPT ![r] = IdleRelay]
    /\ UNCHANGED <<tableVars, topic, overlap>>

RelayCrash(r) ==
    /\ relay[r].pc # "idle" /\ Fault
    /\ relay' = [relay EXCEPT ![r] = IdleRelay]
    /\ UNCHANGED <<tableVars, marked, topic, overlap>>

DrainStep(r) == DrainSelect(r) \/ DrainSelected(r) \/ DrainPublish(r) \/ DrainMark(r)

OutboxNext ==
    \/ \E i \in Ids : InsertRow(i) \/ \E o \in {"committed", "gone"} : EndTransaction(i, o)
    \/ \E r \in Relays : DrainStep(r) \/ RelayCrash(r)

(* Run's ticker keeps every relay draining.                                *)
OutboxSpec ==
    OutboxInit /\ [][OutboxNext]_outboxVars /\ \A r \in Relays : WF_outboxVars(DrainStep(r))

-----------------------------------------------------------------------------
(* The state has its types, no event is announced that was rolled back,    *)
(* and none is ticked off that is not on the topic, whichever relays race, *)
(* crash or lose answers: the outbox neither invents nor loses events.     *)
TopicMatchesTable ==
    /\ OutboxTypeOK
    /\ \A i \in OnTopic : row[i] = "committed"
    /\ marked \subseteq OnTopic

(* ARCHITECTURE: no dual-write, no lost events.  Every committed row is    *)
(* published, although ids become visible out of order.                    *)
NoLostEvents == \A i \in Ids : row[i] = "committed" ~> i \in OnTopic

Quiet == (\A r \in Relays : relay[r].pc = "idle")
         /\ \A i \in Ids : row[i] = "committed" => i \in marked

(* ARCHITECTURE: a single aggregate's events stay ordered.  Once the table *)
(* is drained, the last record of a key is its newest row, so that a       *)
(* reader who keeps the latest record per key has the current state, even  *)
(* if batches were published again.  SKIP LOCKED outside a transaction     *)
(* does not keep two replicas' drains apart; when they overlap the order   *)
(* may be lost.                                                            *)
NewestIsLast ==
    ~overlap /\ Quiet => \A n \in DOMAIN topic :
        \/ \E m \in DOMAIN topic : m > n /\ rowKey[topic[m]] = rowKey[topic[n]]
        \/ \A i \in Ids : row[i] = "committed" /\ rowKey[i] = rowKey[topic[n]] => i <= topic[n]
=============================================================================
