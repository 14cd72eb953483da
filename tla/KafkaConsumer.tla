---------------------------- MODULE KafkaConsumer ----------------------------
(***************************************************************************)
(* A consumer group reading one partition with pkg/kafka/kafka.go, running *)
(* a handler whose effect and processed_events row are one transaction, as *)
(* in services/notification/internal/store/store.go.                       *)
(*                                                                         *)
(* The partition belongs to one member at a time.  The client moves its    *)
(* poll position when it hands out records, and CommitUncommittedOffsets   *)
(* commits that position, whatever became of the records.  A member that   *)
(* loses the partition while it works on a batch is not told: it goes on   *)
(* with the batch next to the new owner, who starts at the committed       *)
(* offset; only its commits have no effect any more.                       *)
(***************************************************************************)
EXTENDS EventTopic

CONSTANTS Members,         \* consumers of the group
          Values,          \* records' contents
          Poison,          \* contents the handler never accepts
          DeadLetter,      \* WithDeadLetter was called
          Attempts,        \* handler calls before a record is set aside
          Retryable,       \* dl.Retryable recognises a downstream that is down
          MaxBatch,        \* bound on the records of one poll
          MaxRecords,      \* bound on the records produced
          MaxFetchErrors   \* bound on polls that report a partition error

ASSUME ConsumerConstants ==
    /\ Poison \subseteq Values /\ DeadLetter \in BOOLEAN /\ Retryable \in BOOLEAN
    /\ Attempts \in Nat \ {0} /\ MaxBatch \in Nat \ {0}
    /\ MaxRecords \in Nat /\ MaxFetchErrors \in Nat

VARIABLES owner,        \* member the partition is assigned to
          position,     \* last offset the owner's client handed out
          committed,    \* the group's committed offset
          member,       \* local state of each member
          processed,    \* processed_events: offsets whose transaction committed
          applied,      \* offsets in the order their effects were applied
          parked,       \* offsets published to the DLQ
          fetchErrors   \* polls that reported a partition error so far

offsetVars == <<owner, position, committed>>
effectVars == <<processed, applied, parked>>
consumerVars == <<topic, offsetVars, member, effectVars, faults, fetchErrors>>

Offsets == Nat \ {0}
Working == {"handling", "holding", "parking"}

(* next..last are the records of the batch that are not dealt with yet.    *)
MemberState == [pc : Working \cup {"polling", "committing"}, next : Nat, last : Nat, tries : Nat]
Polling == [pc |-> "polling", next |-> 0, last |-> 0, tries |-> 0]

Done == processed \cup parked

ConsumerTypeOK ==
    /\ topic \in Seq(Values)
    /\ owner \in Members /\ position \in 0..Len(topic) /\ committed \in 0..Len(topic)
    /\ member \in [Members -> MemberState]
    /\ \A m \in Members : member[m].pc \in Working =>
          /\ 0 < member[m].next /\ member[m].next <= member[m].last
          /\ member[m].last <= Len(topic) /\ member[m].tries < Attempts
    /\ processed \subseteq 1..Len(topic) /\ parked \subseteq 1..Len(topic)
    /\ applied \in Seq(Offsets)
    /\ faults \in 0..MaxFaults /\ fetchErrors \in 0..MaxFetchErrors

ConsumerInit ==
    /\ topic = <<>> /\ owner \in Members /\ position = 0 /\ committed = 0
    /\ member = [m \in Members |-> Polling]
    /\ processed = {} /\ applied = <<>> /\ parked = {}
    /\ faults = 0 /\ fetchErrors = 0

Produce(v) ==
    /\ Len(topic) < MaxRecords
    /\ topic' = Append(topic, v)
    /\ UNCHANGED <<offsetVars, member, effectVars, faults, fetchErrors>>

-----------------------------------------------------------------------------
(* Run: PollFetches hands out the records up to n.                         *)
Poll(m, n) ==
    /\ owner = m /\ member[m].pc = "polling" /\ position < n
    /\ position' = n
    /\ member' = [member EXCEPT ![m] =
                     [pc |-> "handling", next |-> position + 1, last |-> n, tries |-> 0]]
    /\ UNCHANGED <<topic, owner, committed, effectVars, faults, fetchErrors>>

(* Another partition of the fetch reports an error: Run's loop continues,  *)
(* and the records handed out with it are not looked at.                   *)
PollWithError(m, n) ==
    /\ owner = m /\ member[m].pc = "polling" /\ position < n
    /\ fetchErrors < MaxFetchErrors /\ fetchErrors' = fetchErrors + 1
    /\ position' = n
    /\ UNCHANGED <<topic, owner, committed, member, effectVars, faults>>

Offset(m) == member[m].next

(* dispatch returned true for this record.                                 *)
Advance(m) ==
    LET n == Offset(m) IN
    member' = [member EXCEPT ![m] =
        IF n = @.last THEN [Polling EXCEPT !.pc = "committing"]
                      ELSE [pc |-> "handling", next |-> n + 1, last |-> @.last, tries |-> 0]]

(* Mutant: the handler's effect is not tied to processed_events.           *)
ApplyAlways(o) ==
    /\ processed' = processed \cup {o}
    /\ applied' = Append(applied, o)

(* The handler's transaction: a record whose event id (its coordinates) is *)
(* in processed_events already is a no-op.                                 *)
Apply(o) ==
    /\ processed' = processed \cup {o}
    /\ applied' = IF o \in processed THEN applied ELSE Append(applied, o)

HandlerSucceeds(m) ==
    /\ member[m].pc \in {"handling", "holding"} /\ topic[Offset(m)] \notin Poison
    /\ Apply(Offset(m)) /\ Advance(m)
    /\ UNCHANGED <<topic, offsetVars, parked, faults, fetchErrors>>

(* Mutant: every failure is taken for one that passes.                     *)
ShouldHoldAlways(retryable) == TRUE

ShouldHold(retryable) == ~DeadLetter \/ retryable
AttemptsAllowed == IF DeadLetter THEN Attempts ELSE 1

(* Mutant: a failure that may pass is parked like any other.               *)
AfterFailureParks(s, retryable) ==
    IF s.pc = "handling" /\ s.tries + 1 < AttemptsAllowed THEN [s EXCEPT !.tries = s.tries + 1]
    ELSE [s EXCEPT !.pc = IF DeadLetter THEN "parking" ELSE "holding"]

(* handleRecord's attempts, then retryInPlace or parkInPlace.              *)
AfterFailure(s, retryable) ==
    IF s.pc = "handling" /\ s.tries + 1 < AttemptsAllowed THEN [s EXCEPT !.tries = s.tries + 1]
    ELSE [s EXCEPT !.pc = IF ShouldHold(retryable) THEN "holding" ELSE "parking"]

(* The handler turns the record down for good.                             *)
HandlerRejects(m) ==
    /\ member[m].pc \in {"handling", "holding"} /\ topic[Offset(m)] \in Poison
    /\ member' = [member EXCEPT ![m] = AfterFailure(@, FALSE)]
    /\ UNCHANGED <<topic, offsetVars, effectVars, faults, fetchErrors>>

(* A passing failure: before the transaction committed, or after it.       *)
HandlerFails(m) ==
    /\ member[m].pc \in {"handling", "holding"} /\ topic[Offset(m)] \notin Poison
    /\ Fault
    /\ Apply(Offset(m)) \/ UNCHANGED <<processed, applied>>
    /\ member' = [member EXCEPT ![m] = AfterFailure(@, Retryable)]
    /\ UNCHANGED <<topic, offsetVars, parked, fetchErrors>>

(* Mutant: a record that cannot be parked is given up.                     *)
ParkOrSkip(m) ==
    /\ member[m].pc = "parking" /\ Advance(m)
    /\ \/ parked' = parked \cup {Offset(m)} /\ UNCHANGED faults
       \/ Fault /\ UNCHANGED parked
    /\ UNCHANGED <<topic, offsetVars, processed, applied, fetchErrors>>

(* parkInPlace: published to the DLQ, or tried again.                      *)
Park(m) ==
    /\ member[m].pc = "parking"
    /\ \/ parked' = parked \cup {Offset(m)} /\ Advance(m) /\ UNCHANGED faults
       \/ Fault /\ (parked' = parked \cup {Offset(m)} \/ UNCHANGED parked) /\ UNCHANGED member
    /\ UNCHANGED <<topic, offsetVars, processed, applied, fetchErrors>>

(* CommitUncommittedOffsets; a commit that fails is only logged.           *)
Commit(m) ==
    /\ member[m].pc = "committing"
    /\ member' = [member EXCEPT ![m] = Polling]
    /\ \/ committed' = (IF owner = m THEN position ELSE committed) /\ UNCHANGED faults
       \/ Fault /\ UNCHANGED committed
    /\ UNCHANGED <<topic, owner, position, effectVars, fetchErrors>>

-----------------------------------------------------------------------------
(* The partition is assigned anew and read from the committed offset.      *)
Rebalance(m) ==
    /\ Fault /\ owner' = m /\ position' = committed
    /\ UNCHANGED <<topic, committed, member, effectVars, fetchErrors>>

(* Shutdown or crash of a member: it forgets its batch, and the partition  *)
(* goes to n.                                                              *)
Restart(m, n) ==
    /\ Fault /\ member' = [member EXCEPT ![m] = Polling]
    /\ IF owner = m THEN owner' = n /\ position' = committed
                    ELSE UNCHANGED <<owner, position>>
    /\ UNCHANGED <<topic, committed, effectVars, fetchErrors>>

Polls(m) == \E n \in 1..Len(topic) : n <= position + MaxBatch /\ Poll(m, n)

Step(m) ==
    \/ Polls(m) \/ HandlerSucceeds(m) \/ HandlerRejects(m) \/ HandlerFails(m)
    \/ Park(m) \/ Commit(m)

GroupNext ==
    \/ \E m \in Members : Step(m) \/ Rebalance(m) \/ \E n \in Members : Restart(m, n)
    \/ \E m \in Members, n \in 1..Len(topic) : n <= position + MaxBatch /\ PollWithError(m, n)

ConsumerNext == GroupNext \/ \E v \in Values : Produce(v)

(* Run loops until shutdown, so a member that can move does.               *)
ConsumerSpec ==
    ConsumerInit /\ [][ConsumerNext]_consumerVars /\ \A m \in Members : WF_consumerVars(Step(m))

-----------------------------------------------------------------------------
(* Run: offsets are committed only after every record has been handled,    *)
(* or parked, so that no restart or rebalance skips one.                   *)
CommittedIsDone == 1..committed \subseteq Done

(* The same for what the code achieves: nothing is skipped as long as no   *)
(* poll reported a partition error.                                        *)
NoneSkipped == fetchErrors = 0 => CommittedIsDone

EffectsOrdered == \A i, j \in DOMAIN applied : i < j => applied[i] < applied[j]

(* Effects happen once per record and in partition order, although a       *)
(* restart redelivers and two members may work on the same records; only   *)
(* records dropped by a fetch error can come back out of order.            *)
AppliedInOrder == fetchErrors = 0 => EffectsOrdered

(* DeadLetter.Retryable: a failure that only means "not yet" never parks a *)
(* record; what is on the DLQ is the record's own fault.                   *)
OnlyPoisonParked == \A o \in parked : topic[o] \in Poison

(* A poison record does not wedge the group: unless a fetch error drops    *)
(* it, every record is handled or parked in the end, through outages,      *)
(* restarts and rebalances.                                                *)
RecordsDone == \A o \in 1..MaxRecords : o <= Len(topic) ~> (o \in Done \/ fetchErrors > 0)
=============================================================================
