---------------------------- MODULE EventBusProofs ----------------------------
(***************************************************************************)
(* Proofs about the event bus, for any number of relays, rows, keys and    *)
(* members, any batch sizes and any bound on faults.                       *)
(*                                                                         *)
(* The outbox neither invents nor loses events whatever its relays do      *)
(* (RelayInv).  That the newest record of a key is the last one needs that *)
(* drains do not overlap: a batch then holds the oldest unmarked rows of   *)
(* its keys, so that records and marks follow row order (DrainInv).        *)
(*                                                                         *)
(* In the consumer group, NoneSkipped is not inductive: a commit covers    *)
(* the owner's position, so the position has to be tied to the batch the   *)
(* owner is working on, and a batch to what was done before it (GroupInv). *)
(* The order of the effects needs, beyond that, that a record set aside is *)
(* one that is never applied later (OrderInv), which is what Retryable is  *)
(* for.                                                                    *)
(*                                                                         *)
(* DrainInv and GroupInv together make every step of outbox, topic and     *)
(* group a step of the abstract event channel.                             *)
(***************************************************************************)
EXTENDS EventBus, FiniteSetTheorems, WellFoundedInduction, NaturalsInduction, TLAPS

(* A relay holds committed rows, and counts as sent only what is on the    *)
(* topic.                                                                  *)
HoldsCommitted ==
    \A r \in Relays :
        /\ \A i \in relay[r].pending : row[i] = "committed"
        /\ relay[r].sent \subseteq OnTopic
        /\ relay[r].pc \in {"reading", "publishing"} => relay[r].pending # {}
        /\ relay[r].pc = "idle" => relay[r].pending = {} /\ relay[r].sent = {}

RelayInv == TopicMatchesTable /\ HoldsCommitted

(* j is an older event of the aggregate of i.                              *)
Older(j, i) == j < i /\ rowKey[j] = rowKey[i]

(* The lock on the aggregate: its older rows are settled before a new one  *)
(* is inserted.                                                            *)
SettledInOrder ==
    \A i, j \in Ids : row[i] # "none" /\ Older(j, i) => row[j] \in {"committed", "gone"}

OneDrain == \A q, r \in Relays : relay[q].pc # "idle" /\ relay[r].pc # "idle" => q = r

(* Rows of a key are marked oldest first, and a batch holds the oldest     *)
(* ones that are not marked.                                               *)
MarkedInOrder ==
    \A i \in marked, j \in Ids : Older(j, i) /\ row[j] = "committed" => j \in marked

BatchInOrder ==
    \A r \in Relays :
        /\ \A i \in relay[r].pending \cup relay[r].sent, j \in Ids :
             Older(j, i) /\ row[j] = "committed" => j \in marked \cup relay[r].pending \cup relay[r].sent
        /\ \A i \in relay[r].sent, j \in relay[r].pending : i < j
        /\ \A i \in marked, j \in relay[r].pending : rowKey[i] = rowKey[j] => i < j

(* The last record of a key.                                               *)
IsLast(n) == \A m \in DOMAIN topic : m > n => rowKey[topic[m]] # rowKey[topic[n]]

(* No marked or sent row is newer than the last record of its key.         *)
LastCovers ==
    \A n \in DOMAIN topic : IsLast(n) =>
        /\ \A i \in marked : rowKey[i] = rowKey[topic[n]] => i <= topic[n]
        /\ \A r \in Relays : \A i \in relay[r].sent : rowKey[i] = rowKey[topic[n]] => i <= topic[n]

(* Every record has the older events of its aggregate before it.           *)
RecordsInOrder ==
    \A n \in DOMAIN topic : \A j \in Ids :
        Older(j, topic[n]) /\ row[j] = "committed" => \E m \in DOMAIN topic : m < n /\ topic[m] = j

DrainInv ==
    /\ RelayInv /\ SettledInOrder
    /\ ~overlap => OneDrain /\ MarkedInOrder /\ BatchInOrder /\ LastCovers /\ RecordsInOrder
-----------------------------------------------------------------------------
(* Every set of row ids has a first one, which is what Min returns.        *)
LEMMA MinOfIds ==
    ASSUME NEW S \in SUBSET Ids, S # {}
    PROVE  Min(S) \in S /\ \A j \in S : Min(S) <= j
<1> DEFINE R == {ss \in Nat \X Nat : ss[1] < ss[2]}
<1>1. IsWellFoundedOn(R, Nat)
  BY NatLessThanWellFounded DEF OpToRel
<1>2. S \subseteq Nat
  BY RelayConstants DEF Ids
<1>3. PICK x \in S : \A y \in S : <<y, x>> \notin R
  <2> HIDE DEF R
  <2> QED
    BY <1>1, <1>2, WFMin
<1>4. \A y \in S : x <= y
  <2>1. ASSUME NEW y \in S PROVE ~(y < x)
    <3>1. y \in Nat /\ x \in Nat /\ <<y, x>> \notin R
      BY <1>2, <1>3
    <3>2. <<y, x>> \in R <=> y < x
      BY <3>1
    <3> QED
      BY <3>1, <3>2
  <2> QED
    BY <1>2, <2>1
<1> QED
  BY <1>4 DEF Min

(* The rows a drain takes come first among those it may take.              *)
LEMMA FirstTaken ==
    ASSUME NEW S \in SUBSET Ids
    PROVE  /\ FirstOf(S) \subseteq S
           /\ S # {} => FirstOf(S) # {}
           /\ \A i \in FirstOf(S), j \in S : j < i => j \in FirstOf(S)
<1> DEFINE below(i) == {j \in S : j < i}
<1>1. \A i \in S : i \in Nat
  BY RelayConstants DEF Ids
<1>2. IsFiniteSet(S)
  <2>1. IsFiniteSet(1..MaxRows)
    BY FS_Interval, RelayConstants
  <2> QED
    BY <2>1, FS_Subset DEF Ids
<1>3. ASSUME NEW i \in S PROVE IsFiniteSet(below(i)) /\ Cardinality(below(i)) \in Nat
  <2>1. below(i) \subseteq S
    OBVIOUS
  <2> QED
    BY <1>2, <2>1, FS_Subset, FS_CardinalityType
<1>4. \A i : i \in FirstOf(S) <=> i \in S /\ Cardinality(below(i)) < Batch
  BY DEF FirstOf
<1>5. ASSUME NEW i \in S, NEW j \in S, j < i, Cardinality(below(i)) < Batch PROVE Cardinality(below(j)) < Batch
  <2>1. below(j) \subseteq below(i)
    <3>1. SUFFICES ASSUME NEW k \in S, k < j PROVE k < i
      OBVIOUS
    <3>2. k \in Nat /\ i \in Nat /\ j \in Nat
      BY <1>1
    <3> QED
      BY <1>5, <3>1, <3>2
  <2>2. Cardinality(below(j)) <= Cardinality(below(i))
    BY <1>3, <2>1, FS_Subset
  <2> HIDE DEF below
  <2> QED
    BY <1>3, <1>5, <2>2, RelayConstants
<1>6. ASSUME S # {} PROVE FirstOf(S) # {}
  <2>1. PICK x \in S : \A j \in S : x <= j
    BY <1>6, MinOfIds
  <2>2. ASSUME NEW j \in S PROVE ~(j < x)
    BY <1>1, <2>1
  <2>3. below(x) = {}
    BY <2>2
  <2>4. Cardinality(below(x)) < Batch
    BY <2>3, FS_EmptySet, RelayConstants
  <2> QED
    BY <1>4, <2>4
<1> HIDE DEF below
<1> QED
  BY <1>4, <1>5, <1>6

(* A record at the end of the topic.                                       *)
LEMMA TopicGrows ==
    ASSUME topic \in Seq(Ids), NEW i \in Ids, topic' = Append(topic, i)
    PROVE  /\ topic' \in Seq(Ids) /\ Len(topic) \in Nat /\ Len(topic') = Len(topic) + 1
           /\ DOMAIN topic = 1..Len(topic) /\ DOMAIN topic' = 1..(Len(topic) + 1)
           /\ topic'[Len(topic) + 1] = i /\ \A n \in DOMAIN topic : topic'[n] = topic[n]
           /\ OnTopic' = OnTopic \cup {i}
<1>1. /\ topic' \in Seq(Ids) /\ Len(topic) \in Nat /\ Len(topic') = Len(topic) + 1
      /\ DOMAIN topic = 1..Len(topic) /\ DOMAIN topic' = 1..(Len(topic) + 1)
      /\ topic'[Len(topic) + 1] = i /\ \A n \in DOMAIN topic : topic'[n] = topic[n]
  OBVIOUS
<1>2. \A x : x \in OnTopic' <=> x \in OnTopic \/ x = i
  <2>1. ASSUME NEW x, x \in OnTopic' PROVE x \in OnTopic \/ x = i
    <3>1. PICK n \in DOMAIN topic' : x = topic'[n]
      BY <2>1 DEF OnTopic
    <3>2. n \in DOMAIN topic \/ n = Len(topic) + 1
      BY <1>1, <3>1
    <3> QED
      BY <1>1, <3>1, <3>2 DEF OnTopic
  <2>2. ASSUME NEW x, x \in OnTopic \/ x = i PROVE x \in OnTopic'
    <3>1. CASE x = i
      <4>1. Len(topic) + 1 \in DOMAIN topic'
        BY <1>1
      <4> QED
        BY <1>1, <3>1, <4>1 DEF OnTopic
    <3>2. CASE x \in OnTopic
      <4>1. PICK n \in DOMAIN topic : x = topic[n]
        BY <3>2 DEF OnTopic
      <4>2. n \in DOMAIN topic' /\ x = topic'[n]
        BY <1>1, <4>1
      <4> QED
        BY <4>2 DEF OnTopic
    <3> QED
      BY <2>2, <3>1, <3>2
  <2> QED
    BY <2>1, <2>2
<1> QED
  BY <1>1, <1>2

-----------------------------------------------------------------------------
(* The steps of a relay as they change its own state.                      *)
Moves(r, me) == me \in RelayState /\ relay' = [relay EXCEPT ![r] = me]

(* The SELECT takes the first rows that are committed and not marked.      *)
LEMMA SelectStep ==
    ASSUME RelayInv, NEW r \in Relays, DrainSelect(r)
    PROVE  /\ relay[r].pc = "idle" /\ UNCHANGED <<row, rowKey, marked, topic, faults>>
           /\ overlap' = (overlap \/ \E q \in Relays \ {r} : relay[q].pc # "idle")
           /\ \E S \in SUBSET Ids :
                /\ S = Unpublished(r) /\ S # {} /\ FirstOf(S) \subseteq S
                /\ Moves(r, [pc |-> "reading", pending |-> FirstOf(S), sent |-> {}])
<1>1. Unpublished(r) \in SUBSET Ids
  BY DEF Unpublished, Ids
<1>2. FirstOf(Unpublished(r)) \subseteq Unpublished(r)
  BY <1>1, FirstTaken
<1>3. [pc |-> "reading", pending |-> FirstOf(Unpublished(r)), sent |-> {}] \in RelayState
  BY <1>1, <1>2 DEF RelayState, Ids
<1> QED
  BY <1>1, <1>2, <1>3 DEF DrainSelect, tableVars, Moves

(* The first pending row goes to the topic and counts as sent, or the      *)
(* broker's answer did not come.                                           *)
Published(r, i, me) ==
    /\ i \in Ids /\ Moves(r, me) /\ \A j \in relay[r].pending : i <= j
    /\ me.pc \in {"publishing", "marking"}
    /\ me.pc = "publishing" => me.pending # {}
    /\ \/ /\ topic' = Append(topic, i)
          /\ me.pending = relay[r].pending \ {i} /\ me.sent = relay[r].sent \cup {i}
       \/ /\ topic' = Append(topic, i) \/ topic' = topic
          /\ me.pending = relay[r].pending /\ me.sent = relay[r].sent

(* One turn of the publish loop.                                           *)
LEMMA PublishStep ==
    ASSUME RelayInv, NEW r \in Relays, DrainPublish(r)
    PROVE  /\ relay[r].pc = "publishing" /\ UNCHANGED <<row, rowKey, marked, overlap>>
           /\ faults' \in 0..MaxFaults
           /\ \E i \in relay[r].pending : \E me \in RelayState : Published(r, i, me)
<1>1. PICK i : i = Min(relay[r].pending)
  OBVIOUS
<1>2. /\ relay[r] \in RelayState /\ relay[r].pending \subseteq Ids /\ relay[r].sent \subseteq Ids
      /\ relay[r].pc = "publishing" /\ relay[r].pending # {} /\ faults \in 0..MaxFaults
  BY DEF RelayInv, TopicMatchesTable, OutboxTypeOK, HoldsCommitted, RelayState,
         DrainPublish, Ids
<1>3. i \in relay[r].pending /\ i \in Ids /\ \A j \in relay[r].pending : i <= j
  BY <1>1, <1>2, MinOfIds
<1>4. UNCHANGED <<row, rowKey, marked, overlap>>
  BY DEF DrainPublish, tableVars
<1>5. CASE /\ topic' = Append(topic, i) /\ UNCHANGED faults
           /\ relay' = [relay EXCEPT ![r] =
                          [pc |-> IF relay[r].pending \ {i} = {} THEN "marking" ELSE "publishing",
                           pending |-> relay[r].pending \ {i}, sent |-> @.sent \cup {i}]]
  <2> DEFINE me == [pc |-> IF relay[r].pending \ {i} = {} THEN "marking" ELSE "publishing",
                    pending |-> relay[r].pending \ {i}, sent |-> relay[r].sent \cup {i}]
  <2>1. me \in RelayState
    BY <1>2, <1>3 DEF RelayState, Ids
  <2>2. relay' = [relay EXCEPT ![r] = me]
    BY <1>5
  <2> QED
    BY <1>2, <1>3, <1>4, <1>5, <2>1, <2>2 DEF Moves, Published
<1>6. CASE /\ Fault /\ (topic' = Append(topic, i) \/ UNCHANGED topic)
           /\ relay' = [relay EXCEPT ![r].pc = "marking"]
  <2> DEFINE me == [relay[r] EXCEPT !.pc = "marking"]
  <2>1. /\ me \in RelayState /\ me.pending = relay[r].pending /\ me.sent = relay[r].sent
        /\ me.pc = "marking"
    BY <1>2 DEF RelayState
  <2>2. relay' = [relay EXCEPT ![r] = me]
    BY <1>6
  <2>3. faults' \in 0..MaxFaults
    BY <1>2, <1>6, FaultBound DEF Fault
  <2> HIDE DEF me
  <2> QED
    BY <1>2, <1>3, <1>4, <1>6, <2>1, <2>2, <2>3 DEF Moves, Published
<1> QED
  BY <1>1, <1>5, <1>6 DEF DrainPublish

(* A relay that ends its pass, marked what it sent or not.                 *)
LEMMA EndStep ==
    ASSUME RelayInv, NEW r \in Relays, DrainMark(r) \/ RelayCrash(r)
    PROVE  /\ UNCHANGED <<row, rowKey, topic, overlap>> /\ faults' \in 0..MaxFaults
           /\ marked' = marked \/ marked' = marked \cup relay[r].sent
           /\ Moves(r, IdleRelay)
<1>1. IdleRelay \in RelayState
  BY DEF IdleRelay, RelayState
<1>2. faults' \in 0..MaxFaults
  BY FaultBound DEF DrainMark, RelayCrash, Fault, RelayInv, TopicMatchesTable, OutboxTypeOK
<1> QED
  BY <1>1, <1>2 DEF DrainMark, RelayCrash, tableVars, Moves

(* The SELECT ends.                                                        *)
LEMMA SelectedStep ==
    ASSUME RelayInv, NEW r \in Relays, DrainSelected(r)
    PROVE  /\ UNCHANGED <<row, rowKey, marked, topic, faults, overlap>>
           /\ relay[r].pc = "reading"
           /\ \E me \in RelayState : /\ Moves(r, me) /\ me.pc = "publishing"
                                            /\ me.pending = relay[r].pending /\ me.sent = relay[r].sent
<1> DEFINE me == [relay[r] EXCEPT !.pc = "publishing"]
<1>1. /\ me \in RelayState /\ me.pending = relay[r].pending /\ me.sent = relay[r].sent
      /\ me.pc = "publishing"
  BY DEF RelayState, RelayInv, TopicMatchesTable, OutboxTypeOK
<1>2. relay' = [relay EXCEPT ![r] = me]
  BY DEF DrainSelected
<1> HIDE DEF me
<1> QED
  BY <1>1, <1>2 DEF DrainSelected, tableVars, Moves

(* What the relay's own move has to keep of HoldsCommitted.                *)
LEMMA MoveHolds ==
    ASSUME RelayInv, NEW r \in Relays, NEW me, Moves(r, me), row' = row,
           OnTopic \subseteq OnTopic',
           \A i \in me.pending : row[i] = "committed",
           me.sent \subseteq OnTopic',
           me.pc \in {"reading", "publishing"} => me.pending # {},
           me.pc = "idle" => me.pending = {} /\ me.sent = {}
    PROVE  HoldsCommitted' /\ relay' \in [Relays -> RelayState]
<1>1. relay \in [Relays -> RelayState]
  BY DEF RelayInv, TopicMatchesTable, OutboxTypeOK
<1>2. relay' \in [Relays -> RelayState] /\ relay'[r] = me /\ \A q \in Relays \ {r} : relay'[q] = relay[q]
  BY <1>1 DEF Moves
<1>3. ASSUME NEW q \in Relays
      PROVE  /\ \A i \in relay'[q].pending : row'[i] = "committed"
             /\ relay'[q].sent \subseteq OnTopic'
             /\ relay'[q].pc \in {"reading", "publishing"} => relay'[q].pending # {}
             /\ relay'[q].pc = "idle" => relay'[q].pending = {} /\ relay'[q].sent = {}
  <2>1. CASE q = r
    BY <1>2, <2>1
  <2>2. CASE q # r
    <3>1. relay'[q] = relay[q]
      BY <1>2, <2>2
    <3> QED
      BY <3>1 DEF RelayInv, HoldsCommitted
  <2> QED
    BY <2>1, <2>2
<1> QED
  BY <1>2, <1>3 DEF HoldsCommitted

(* A step of a service or of any relay keeps topic and table together.     *)
LEMMA RelayKeeps == ASSUME RelayInv, OutboxNext PROVE RelayInv'
<1>1. /\ OutboxTypeOK /\ \A i \in OnTopic : row[i] = "committed"
      /\ marked \subseteq OnTopic /\ HoldsCommitted
      /\ row \in [Ids -> {"none", "open", "committed", "gone"}] /\ rowKey \in [Ids -> Keys]
      /\ marked \subseteq Ids /\ topic \in Seq(Ids) /\ relay \in [Relays -> RelayState]
      /\ faults \in 0..MaxFaults /\ overlap \in BOOLEAN /\ Ids = Ids
  BY DEF RelayInv, TopicMatchesTable, OutboxTypeOK, Ids
<1>2. ASSUME NEW i \in Ids, NEW to \in {"open", "committed", "gone"}, row[i] # "committed",
             row' = [row EXCEPT ![i] = to], UNCHANGED <<rowKey, marked, topic, relay, faults, overlap>>
      PROVE  RelayInv'
  <2>1. OnTopic' = OnTopic
    BY <1>2 DEF OnTopic
  <2>2. row' \in [Ids -> {"none", "open", "committed", "gone"}] /\ \A j \in Ids : row[j] = "committed" => row'[j] = "committed"
    BY <1>1, <1>2
  <2>3. OnTopic \subseteq Ids /\ \A r \in Relays : relay[r].pending \subseteq Ids
    BY <1>1 DEF OnTopic, RelayState
  <2>4. OutboxTypeOK'
    BY <1>1, <1>2, <2>2 DEF OutboxTypeOK
  <2> QED
    BY <1>1, <1>2, <2>1, <2>2, <2>3, <2>4 DEF RelayInv, TopicMatchesTable, HoldsCommitted
<1>3. ASSUME NEW r \in Relays, DrainSelect(r) PROVE RelayInv'
  <2>1. UNCHANGED <<row, rowKey, marked, topic, faults>> /\ overlap' \in BOOLEAN
    BY <1>1, <1>3, SelectStep
  <2>2. PICK S \in SUBSET Ids :
                /\ S = Unpublished(r) /\ S # {} /\ FirstOf(S) \subseteq S
                /\ Moves(r, [pc |-> "reading", pending |-> FirstOf(S), sent |-> {}])
    BY <1>3, SelectStep
  <2>3. FirstOf(S) # {} /\ \A i \in S : row[i] = "committed"
    BY <2>2, FirstTaken DEF Unpublished
  <2>4. OnTopic' = OnTopic
    BY <2>1 DEF OnTopic
  <2>5. HoldsCommitted' /\ relay' \in [Relays -> RelayState]
    BY <2>1, <2>2, <2>3, <2>4, MoveHolds
  <2> QED
    BY <1>1, <2>1, <2>4, <2>5 DEF RelayInv, TopicMatchesTable, OutboxTypeOK
<1>4. ASSUME NEW r \in Relays, DrainSelected(r) PROVE RelayInv'
  <2>1. UNCHANGED <<row, rowKey, marked, topic, faults, overlap>> /\ relay[r].pc = "reading"
    BY <1>4, SelectedStep
  <2>2. PICK me \in RelayState : /\ Moves(r, me) /\ me.pc = "publishing"
                                        /\ me.pending = relay[r].pending /\ me.sent = relay[r].sent
    BY <1>4, SelectedStep
  <2>3. OnTopic' = OnTopic
    BY <2>1 DEF OnTopic
  <2>4. HoldsCommitted' /\ relay' \in [Relays -> RelayState]
    BY <1>1, <2>1, <2>2, <2>3, MoveHolds DEF HoldsCommitted
  <2> QED
    BY <1>1, <2>1, <2>3, <2>4 DEF RelayInv, TopicMatchesTable, OutboxTypeOK
<1>5. ASSUME NEW r \in Relays, DrainPublish(r) PROVE RelayInv'
  <2>1. UNCHANGED <<row, rowKey, marked, overlap>> /\ relay[r].pc = "publishing" /\ faults' \in 0..MaxFaults
    BY <1>5, PublishStep
  <2>a. PICK i \in relay[r].pending : \E me \in RelayState : Published(r, i, me)
    BY <1>5, PublishStep
  <2>b. PICK me \in RelayState : Published(r, i, me)
    BY <2>a
  <2>2. /\ i \in Ids /\ Moves(r, me) /\ me.pc \in {"publishing", "marking"}
        /\ me.pc = "publishing" => me.pending # {}
        /\ topic' = Append(topic, i) \/ topic' = topic
        /\ me.pending \subseteq relay[r].pending
        /\ me.sent = relay[r].sent \/ (me.sent = relay[r].sent \cup {i} /\ topic' = Append(topic, i))
    BY <2>b DEF Published
  <2>3. row[i] = "committed" /\ \A j \in me.pending : row[j] = "committed"
    BY <1>1, <2>2 DEF HoldsCommitted
  <2>4. CASE topic' = Append(topic, i)
    <3>1. topic' \in Seq(Ids) /\ OnTopic' = OnTopic \cup {i}
      BY <1>1, <2>2, <2>4, TopicGrows
    <3>2. me.sent \subseteq OnTopic'
      BY <1>1, <2>2, <3>1 DEF HoldsCommitted
    <3>3. HoldsCommitted' /\ relay' \in [Relays -> RelayState]
      BY <2>1, <2>2, <2>3, <3>1, <3>2, MoveHolds
    <3> QED
      BY <1>1, <2>1, <2>3, <3>1, <3>3 DEF RelayInv, TopicMatchesTable, OutboxTypeOK
  <2>5. CASE topic' = topic
    <3>1. OnTopic' = OnTopic
      BY <2>5 DEF OnTopic
    <3>2. me.sent \subseteq OnTopic'
      <4>1. topic # Append(topic, i)
        <5>1. Len(Append(topic, i)) = Len(topic) + 1 /\ Len(topic) \in Nat
          BY <1>1
        <5> QED
          BY <5>1
      <4> QED
        BY <1>1, <2>2, <2>5, <3>1, <4>1 DEF HoldsCommitted
    <3>3. HoldsCommitted' /\ relay' \in [Relays -> RelayState]
      BY <2>1, <2>2, <2>3, <3>1, <3>2, MoveHolds
    <3> QED
      BY <1>1, <2>1, <2>5, <3>1, <3>3 DEF RelayInv, TopicMatchesTable, OutboxTypeOK
  <2> QED
    BY <2>2, <2>4, <2>5
<1>6. ASSUME NEW r \in Relays, DrainMark(r) \/ RelayCrash(r) PROVE RelayInv'
  <2>1. /\ UNCHANGED <<row, rowKey, topic, overlap>> /\ faults' \in 0..MaxFaults
        /\ marked' = marked \/ marked' = marked \cup relay[r].sent
        /\ Moves(r, IdleRelay)
    BY <1>6, EndStep
  <2>2. OnTopic' = OnTopic
    BY <2>1 DEF OnTopic
  <2>3. HoldsCommitted' /\ relay' \in [Relays -> RelayState]
    BY <2>1, <2>2, MoveHolds DEF IdleRelay
  <2>4. marked' \subseteq Ids /\ marked' \subseteq OnTopic
    BY <1>1, <2>1 DEF HoldsCommitted, RelayState
  <2> QED
    BY <1>1, <2>1, <2>2, <2>3, <2>4 DEF RelayInv, TopicMatchesTable, OutboxTypeOK
<1>7. ASSUME NEW i \in Ids, InsertRow(i) PROVE RelayInv'
  BY <1>1, <1>2, <1>7 DEF InsertRow
<1>8. ASSUME NEW i \in Ids, NEW o \in {"committed", "gone"}, EndTransaction(i, o) PROVE RelayInv'
  BY <1>1, <1>2, <1>8 DEF EndTransaction
<1> QED
  BY <1>3, <1>4, <1>5, <1>6, <1>7, <1>8 DEF OutboxNext, DrainStep

(* The empty outbox.                                                       *)
LEMMA RelayInit == OutboxInit => RelayInv
<1>1. SUFFICES ASSUME OutboxInit PROVE RelayInv
  OBVIOUS
<1>2. OutboxTypeOK
  <2>1. IdleRelay \in RelayState /\ 0 \in 0..MaxFaults
    BY FaultBound, RelayConstants DEF IdleRelay, RelayState
  <2>2. overlap \in BOOLEAN
    BY <1>1, Zenon DEF OutboxInit
  <2>3. /\ row \in [Ids -> {"none", "open", "committed", "gone"}]
        /\ relay \in [Relays -> RelayState] /\ topic \in Seq(Ids)
    BY <1>1, <2>1 DEF OutboxInit
  <2>4. rowKey \in [Ids -> Keys] /\ marked \subseteq Ids /\ faults \in 0..MaxFaults
    BY <1>1, <2>1 DEF OutboxInit
  <2> QED
    BY <2>2, <2>3, <2>4 DEF OutboxTypeOK
<1>3. OnTopic = {}
  BY <1>1 DEF OutboxInit, OnTopic
<1> QED
  BY <1>1, <1>2, <1>3 DEF OutboxInit, RelayInv, HoldsCommitted, TopicMatchesTable, IdleRelay

(* Whichever relays race, crash or lose answers, what is on the topic was  *)
(* committed and what is ticked off is on the topic (drainOnce).           *)
THEOREM OutboxIsFaithful == OutboxSpec => []TopicMatchesTable
<1>1. RelayInv /\ UNCHANGED outboxVars => RelayInv'
  BY DEF RelayInv, HoldsCommitted, TopicMatchesTable, OutboxTypeOK, OnTopic, outboxVars, tableVars
<1>2. RelayInv /\ [OutboxNext]_outboxVars => RelayInv'
  BY <1>1, RelayKeeps
<1>3. RelayInv => TopicMatchesTable
  BY DEF RelayInv
<1> QED
  BY <1>2, <1>3, RelayInit, PTL DEF OutboxSpec
-----------------------------------------------------------------------------
(* The facts of RelayInv the following proofs use.                         *)
LEMMA RelayFacts ==
    ASSUME RelayInv
    PROVE  /\ row \in [Ids -> {"none", "open", "committed", "gone"}] /\ rowKey \in [Ids -> Keys]
           /\ marked \subseteq Ids /\ topic \in Seq(Ids) /\ relay \in [Relays -> RelayState]
           /\ DOMAIN topic = 1..Len(topic) /\ Len(topic) \in Nat /\ \A n \in DOMAIN topic : topic[n] \in Ids
           /\ \A n \in DOMAIN topic : row[topic[n]] = "committed"
           /\ \A i \in marked : row[i] = "committed" /\ \E n \in DOMAIN topic : topic[n] = i
           /\ \A r \in Relays :
                /\ relay[r].pending \subseteq Ids /\ relay[r].sent \subseteq Ids
                /\ \A i \in relay[r].pending : row[i] = "committed"
                /\ \A i \in relay[r].sent : row[i] = "committed" /\ \E n \in DOMAIN topic : topic[n] = i
                /\ relay[r].pc = "idle" => relay[r].pending = {} /\ relay[r].sent = {}
           /\ Ids \subseteq Nat /\ Ids = Ids
<1>1. /\ row \in [Ids -> {"none", "open", "committed", "gone"}] /\ rowKey \in [Ids -> Keys]
      /\ marked \subseteq Ids /\ topic \in Seq(Ids) /\ relay \in [Relays -> RelayState]
      /\ Ids = Ids /\ Ids \subseteq Nat
  BY RelayConstants DEF RelayInv, TopicMatchesTable, OutboxTypeOK, Ids
<1>2. DOMAIN topic = 1..Len(topic) /\ Len(topic) \in Nat /\ \A n \in DOMAIN topic : topic[n] \in Ids
  BY <1>1
<1>3. \A i \in OnTopic : row[i] = "committed" /\ \E n \in DOMAIN topic : topic[n] = i
  BY DEF RelayInv, TopicMatchesTable, OnTopic
<1>4. \A n \in DOMAIN topic : row[topic[n]] = "committed"
  BY <1>3 DEF OnTopic
<1>5. marked \subseteq OnTopic /\ \A r \in Relays : relay[r].sent \subseteq OnTopic
  BY DEF RelayInv, TopicMatchesTable, HoldsCommitted
<1>6. \A r \in Relays : relay[r].pending \subseteq Ids /\ relay[r].sent \subseteq Ids
  BY <1>1 DEF RelayState
<1> QED
  BY <1>1, <1>2, <1>3, <1>4, <1>5, <1>6 DEF RelayInv, HoldsCommitted

(* A row is inserted or its transaction ends: the older events of what is  *)
(* committed are settled, so nothing appears behind it.                    *)
LEMMA RowKeepsOrder ==
    ASSUME DrainInv, RelayInv', NEW x \in Ids, NEW to,
           \/ /\ row[x] = "none" /\ to = "open"
              /\ \A j \in Ids : Older(j, x) => row[j] \in {"committed", "gone"}
           \/ row[x] = "open" /\ to \in {"committed", "gone"},
           row' = [row EXCEPT ![x] = to], UNCHANGED <<rowKey, marked, topic, relay, overlap>>
    PROVE  DrainInv'
<1>1. RelayInv /\ SettledInOrder
  BY DEF DrainInv
<1>2. /\ row'[x] = to /\ \A j \in Ids \ {x} : row'[j] = row[j]
      /\ \A i, j : Older(i, j)' <=> Older(i, j)
  BY <1>1, RelayFacts DEF Older
<1>3. SettledInOrder'
  BY <1>1, <1>2, RelayFacts DEF SettledInOrder, Older
<1>4. ASSUME NEW i \in Ids, row[i] = "committed", NEW j \in Ids, Older(j, i), row'[j] = "committed"
      PROVE  row[j] = "committed"
  BY <1>1, <1>2, <1>4 DEF SettledInOrder
<1>5. ASSUME ~overlap PROVE OneDrain' /\ MarkedInOrder' /\ BatchInOrder' /\ LastCovers' /\ RecordsInOrder'
  <2>1. OneDrain /\ MarkedInOrder /\ BatchInOrder /\ LastCovers /\ RecordsInOrder
    BY <1>5 DEF DrainInv
  <2>2. OneDrain' /\ LastCovers'
    BY <2>1 DEF OneDrain, LastCovers, IsLast
  <2>3. MarkedInOrder'
    BY <1>1, <1>2, <1>4, <2>1, RelayFacts DEF MarkedInOrder
  <2>4. BatchInOrder'
    BY <1>1, <1>2, <1>4, <2>1, RelayFacts DEF BatchInOrder
  <2>5. RecordsInOrder'
    BY <1>1, <1>2, <1>4, <2>1, RelayFacts DEF RecordsInOrder
  <2> QED
    BY <2>2, <2>3, <2>4, <2>5
<1> QED
  BY <1>3, <1>5 DEF DrainInv

(* The moves of a relay leave the rows alone.                              *)
LEMMA RelaySettled == ASSUME DrainInv, UNCHANGED <<row, rowKey>> PROVE SettledInOrder'
  BY DEF DrainInv, SettledInOrder, Older

(* Without overlap, a relay that selects is alone and finds no locks.      *)
LEMMA SelectKeepsOrder ==
    ASSUME DrainInv, RelayInv', NEW r \in Relays, DrainSelect(r)
    PROVE  DrainInv'
<1>1. RelayInv /\ SettledInOrder'
  BY RelaySettled, SelectStep DEF DrainInv
<1>2. /\ relay[r].pc = "idle" /\ UNCHANGED <<row, rowKey, marked, topic>>
      /\ overlap' = (overlap \/ \E q \in Relays \ {r} : relay[q].pc # "idle")
  BY <1>1, SelectStep
<1>3. PICK S \in SUBSET Ids :
                /\ S = Unpublished(r) /\ S # {} /\ FirstOf(S) \subseteq S
                /\ Moves(r, [pc |-> "reading", pending |-> FirstOf(S), sent |-> {}])
  BY <1>1, SelectStep
<1>4. SUFFICES ASSUME ~overlap' PROVE OneDrain' /\ MarkedInOrder' /\ BatchInOrder' /\ LastCovers' /\ RecordsInOrder'
  BY <1>1 DEF DrainInv
<1>5. ~overlap /\ \A q \in Relays \ {r} : relay[q].pc = "idle"
  BY <1>2, <1>4
<1>6. OneDrain /\ MarkedInOrder /\ BatchInOrder /\ LastCovers /\ RecordsInOrder
  BY <1>5 DEF DrainInv
<1>7. S = {i \in Ids : row[i] = "committed" /\ i \notin marked}
  <2>1. Locked(r) = {}
    BY <1>5 DEF Locked
  <2> QED
    BY <1>1, <1>3, <2>1, RelayFacts DEF Unpublished
<1> DEFINE F == FirstOf(S)
<1>8. /\ relay'[r].pc = "reading" /\ relay'[r].pending = F /\ relay'[r].sent = {}
      /\ \A q \in Relays \ {r} : relay'[q] = relay[q]
      /\ F \subseteq S /\ \A i \in F, j \in S : j < i => j \in F
  BY <1>1, <1>3, FirstTaken, RelayFacts DEF Moves
<1> HIDE DEF F
<1>9. OneDrain'
  BY <1>5, <1>8 DEF OneDrain
<1>10. MarkedInOrder' /\ RecordsInOrder'
  BY <1>2, <1>6 DEF MarkedInOrder, RecordsInOrder, Older
<1>11. LastCovers'
  BY <1>2, <1>6, <1>8 DEF LastCovers, IsLast
<1>12. BatchInOrder'
  <2>1. ASSUME NEW i \in F, NEW j \in Ids, Older(j, i), row[j] = "committed" PROVE j \in marked \cup F
    BY <1>7, <1>8, <2>1 DEF Older
  <2>2. ASSUME NEW i \in marked, NEW j \in F, rowKey[i] = rowKey[j] PROVE i < j
    <3>1. i \in Nat /\ j \in Nat /\ j \in Ids /\ j \notin marked /\ row[j] = "committed"
      BY <1>1, <1>7, <1>8, RelayFacts
    <3>2. ~(j < i)
      BY <1>6, <2>2, <3>1 DEF MarkedInOrder, Older
    <3>3. i # j
      BY <3>1
    <3> QED
      BY <3>1, <3>2, <3>3
  <2>3. ASSUME NEW q \in Relays
        PROVE  /\ \A i \in relay'[q].pending \cup relay'[q].sent, j \in Ids :
                    Older(j, i)' /\ row'[j] = "committed" => j \in marked' \cup relay'[q].pending \cup relay'[q].sent
               /\ \A i \in relay'[q].sent, j \in relay'[q].pending : i < j
               /\ \A i \in marked', j \in relay'[q].pending : rowKey'[i] = rowKey'[j] => i < j
    <3>1. CASE q = r
      BY <1>2, <1>8, <2>1, <2>2, <3>1 DEF Older
    <3>2. CASE q # r
      <4>1. relay'[q] = relay[q]
        BY <1>8, <3>2
      <4> QED
        BY <1>2, <1>6, <4>1 DEF BatchInOrder, Older
    <3> QED
      BY <3>1, <3>2
  <2> QED
    BY <2>3 DEF BatchInOrder
<1> QED
  BY <1>9, <1>10, <1>11, <1>12

(* The end of the SELECT changes nothing of what the relay holds.          *)
LEMMA SelectedKeepsOrder ==
    ASSUME DrainInv, RelayInv', NEW r \in Relays, DrainSelected(r)
    PROVE  DrainInv'
<1>1. RelayInv /\ SettledInOrder'
  BY RelaySettled, SelectedStep DEF DrainInv
<1>2. UNCHANGED <<row, rowKey, marked, topic, overlap>> /\ relay[r].pc = "reading"
  BY <1>1, SelectedStep
<1>3. PICK me \in RelayState : /\ Moves(r, me) /\ me.pc = "publishing"
                                      /\ me.pending = relay[r].pending /\ me.sent = relay[r].sent
  BY <1>1, SelectedStep
<1>4. \A q \in Relays : /\ relay'[q].pending = relay[q].pending /\ relay'[q].sent = relay[q].sent
                        /\ relay'[q].pc # "idle" <=> relay[q].pc # "idle"
  BY <1>1, <1>2, <1>3, RelayFacts DEF Moves
<1>5. ASSUME ~overlap PROVE OneDrain' /\ MarkedInOrder' /\ BatchInOrder' /\ LastCovers' /\ RecordsInOrder'
  <2>1. OneDrain /\ MarkedInOrder /\ BatchInOrder /\ LastCovers /\ RecordsInOrder
    BY <1>5 DEF DrainInv
  <2>2. OneDrain'
    BY <1>4, <2>1 DEF OneDrain
  <2>3. MarkedInOrder' /\ RecordsInOrder'
    BY <1>2, <2>1 DEF MarkedInOrder, RecordsInOrder, Older
  <2>4. BatchInOrder'
    BY <1>2, <1>4, <2>1 DEF BatchInOrder, Older
  <2>5. LastCovers'
    BY <1>2, <1>4, <2>1 DEF LastCovers, IsLast
  <2> QED
    BY <2>2, <2>3, <2>4, <2>5
<1> QED
  BY <1>1, <1>2, <1>5 DEF DrainInv

(* The published row has its older ones on the topic, and none of its key  *)
(* that is marked or sent is newer.                                        *)
LEMMA PublishKeepsOrder ==
    ASSUME DrainInv, RelayInv', NEW r \in Relays, DrainPublish(r)
    PROVE  DrainInv'
<1>1. RelayInv /\ SettledInOrder'
  BY RelaySettled, PublishStep DEF DrainInv
<1>2. UNCHANGED <<row, rowKey, marked, overlap>> /\ relay[r].pc = "publishing"
  BY <1>1, PublishStep
<1>3. PICK i \in relay[r].pending : \E me \in RelayState : Published(r, i, me)
  BY <1>1, PublishStep
<1>4. PICK me \in RelayState : Published(r, i, me)
  BY <1>3
<1>5. /\ i \in Ids /\ relay'[r] = me /\ me.pc # "idle" /\ \A j \in relay[r].pending : i <= j
      /\ \A q \in Relays \ {r} : relay'[q] = relay[q]
      /\ topic' = topic \/ topic' = Append(topic, i)
      /\ \/ me.pending = relay[r].pending \ {i} /\ me.sent = relay[r].sent \cup {i} /\ topic' = Append(topic, i)
         \/ me.pending = relay[r].pending /\ me.sent = relay[r].sent
  BY <1>1, <1>4, RelayFacts DEF Published, Moves
<1>6. SUFFICES ASSUME ~overlap PROVE OneDrain' /\ MarkedInOrder' /\ BatchInOrder' /\ LastCovers' /\ RecordsInOrder'
  BY <1>1, <1>2 DEF DrainInv
<1>7. OneDrain /\ MarkedInOrder /\ BatchInOrder /\ LastCovers /\ RecordsInOrder
  BY <1>6 DEF DrainInv
<1>8. \A q \in Relays \ {r} : relay[q].pc = "idle" /\ relay[q].pending = {} /\ relay[q].sent = {}
  BY <1>1, <1>2, <1>7, RelayFacts DEF OneDrain
<1>9. OneDrain'
  BY <1>5, <1>8 DEF OneDrain
<1>10. MarkedInOrder'
  BY <1>2, <1>7 DEF MarkedInOrder, Older
<1>11. BatchInOrder'
  <2>1. me.pending \cup me.sent = relay[r].pending \cup relay[r].sent /\ me.pending \subseteq relay[r].pending
    BY <1>3, <1>5
  <2>2. ASSUME NEW a \in me.sent, NEW b \in me.pending PROVE a < b
    <3>1. CASE a \in relay[r].sent
      BY <1>7, <2>1, <3>1 DEF BatchInOrder
    <3>2. CASE a \notin relay[r].sent
      <4>1. a = i /\ b \in relay[r].pending /\ b # i /\ b \in Nat /\ i \in Nat
        BY <1>1, <1>5, <3>2, RelayFacts
      <4> QED
        BY <1>5, <4>1
    <3> QED
      BY <3>1, <3>2
  <2>3. ASSUME NEW q \in Relays
        PROVE  /\ \A a \in relay'[q].pending \cup relay'[q].sent, j \in Ids :
                    Older(j, a)' /\ row'[j] = "committed" => j \in marked' \cup relay'[q].pending \cup relay'[q].sent
               /\ \A a \in relay'[q].sent, j \in relay'[q].pending : a < j
               /\ \A a \in marked', j \in relay'[q].pending : rowKey'[a] = rowKey'[j] => a < j
    <3>1. CASE q = r
      <4>1. \A a \in me.pending \cup me.sent, j \in Ids :
                    Older(j, a) /\ row[j] = "committed" => j \in marked \cup (me.pending \cup me.sent)
        BY <1>7, <2>1 DEF BatchInOrder
      <4>2. \A a \in marked, j \in me.pending : rowKey[a] = rowKey[j] => a < j
        BY <1>7, <2>1 DEF BatchInOrder
      <4> QED
        BY <1>2, <1>5, <2>2, <3>1, <4>1, <4>2 DEF Older
    <3>2. CASE q # r
      <4>1. relay'[q] = relay[q]
        BY <1>5, <3>2
      <4> QED
        BY <1>2, <1>7, <4>1 DEF BatchInOrder, Older
    <3> QED
      BY <3>1, <3>2
  <2> QED
    BY <2>3 DEF BatchInOrder
<1>12. CASE topic' = topic
  <2>1. me.sent = relay[r].sent
    <3>1. topic # Append(topic, i)
      <4>1. Len(Append(topic, i)) = Len(topic) + 1 /\ Len(topic) \in Nat
        BY <1>1, <1>5, RelayFacts
      <4> QED
        BY <4>1
    <3> QED
      BY <1>5, <1>12, <3>1
  <2>2. \A q \in Relays : relay'[q].sent = relay[q].sent
    BY <1>5, <2>1
  <2>3. LastCovers' /\ RecordsInOrder'
    BY <1>2, <1>7, <1>12, <2>2 DEF LastCovers, IsLast, RecordsInOrder, Older
  <2> QED
    BY <1>9, <1>10, <1>11, <2>3
<1>13. CASE topic' = Append(topic, i)
  <2> DEFINE end == Len(topic) + 1
  <2>1. /\ DOMAIN topic' = 1..end /\ DOMAIN topic = 1..Len(topic) /\ Len(topic) \in Nat
        /\ topic'[end] = i /\ \A n \in DOMAIN topic : topic'[n] = topic[n]
    BY <1>1, <1>5, <1>13, TopicGrows, RelayFacts
  <2>2. \A n \in DOMAIN topic' : n \in DOMAIN topic \/ n = end
    BY <2>1
  <2>3. end \in DOMAIN topic' /\ \A n \in DOMAIN topic : n \in DOMAIN topic' /\ n < end
    BY <2>1
  <2>4. RecordsInOrder'
    <3>1. SUFFICES ASSUME NEW n \in DOMAIN topic', NEW j \in Ids, Older(j, topic'[n]), row[j] = "committed"
                   PROVE  \E m \in DOMAIN topic' : m < n /\ topic'[m] = j
      BY <1>2 DEF RecordsInOrder, Older
    <3>2. CASE n \in DOMAIN topic
      <4>1. PICK m \in DOMAIN topic : m < n /\ topic[m] = j
        BY <1>7, <2>1, <3>1, <3>2 DEF RecordsInOrder
      <4> QED
        BY <2>1, <2>3, <4>1
    <3>3. CASE n = end
      <4>1. Older(j, i) /\ j \in marked \cup relay[r].pending \cup relay[r].sent
        BY <1>3, <1>7, <2>1, <3>1, <3>3 DEF BatchInOrder
      <4>2. j \notin relay[r].pending
        <5>1. j < i /\ j \in Nat /\ i \in Nat
          BY <1>1, <1>5, <4>1, RelayFacts DEF Older
        <5> QED
          BY <1>5, <5>1
      <4>3. PICK m \in DOMAIN topic : topic[m] = j
        BY <1>1, <4>1, <4>2, RelayFacts
      <4> QED
        BY <2>1, <2>3, <3>3, <4>3
    <3> QED
      BY <2>2, <3>2, <3>3
  <2>5. LastCovers'
    <3>1. SUFFICES ASSUME NEW n \in DOMAIN topic', IsLast(n)'
                   PROVE  /\ \A a \in marked : rowKey[a] = rowKey[topic'[n]] => a <= topic'[n]
                          /\ \A q \in Relays : \A a \in relay'[q].sent : rowKey[a] = rowKey[topic'[n]] => a <= topic'[n]
      BY <1>2 DEF LastCovers
    <3>2. CASE n = end
      <4>1. topic'[n] = i /\ i \in Nat
        BY <1>1, <1>5, <2>1, <3>2, RelayFacts
      <4>2. ASSUME NEW a \in marked, rowKey[a] = rowKey[i] PROVE a <= i
        <5>1. a < i /\ a \in Nat
          BY <1>1, <1>3, <1>7, <4>2, RelayFacts DEF BatchInOrder
        <5> QED
          BY <4>1, <5>1
      <4>3. ASSUME NEW q \in Relays, NEW a \in relay'[q].sent PROVE a <= i
        <5>1. q = r /\ (a \in relay[r].sent \/ a = i)
          BY <1>5, <1>8
        <5>2. a \in relay[r].sent => a < i /\ a \in Nat
          BY <1>1, <1>3, <1>7, RelayFacts DEF BatchInOrder
        <5> QED
          BY <4>1, <5>1, <5>2
      <4> QED
        BY <4>1, <4>2, <4>3
    <3>3. CASE n \in DOMAIN topic
      <4>1. topic'[n] = topic[n] /\ rowKey[topic[n]] # rowKey[i]
        BY <1>2, <2>1, <2>3, <3>1, <3>3 DEF IsLast
      <4>2. IsLast(n)
        <5>1. SUFFICES ASSUME NEW m \in DOMAIN topic, m > n PROVE rowKey[topic[m]] # rowKey[topic[n]]
          BY DEF IsLast
        <5>2. m \in DOMAIN topic' /\ topic'[m] = topic[m]
          BY <2>1, <2>3
        <5> QED
          BY <1>2, <3>1, <4>1, <5>1, <5>2 DEF IsLast
      <4>3. \A q \in Relays : \A a \in relay'[q].sent : a \in relay[q].sent \/ a = i
        BY <1>5
      <4> QED
        BY <1>7, <3>3, <4>1, <4>2, <4>3 DEF LastCovers
    <3> QED
      BY <2>2, <3>2, <3>3
  <2> QED
    BY <1>9, <1>10, <1>11, <2>4, <2>5
<1> QED
  BY <1>5, <1>12, <1>13

(* A pass ends: what it marks is the oldest part of what it held.          *)
LEMMA EndKeepsOrder ==
    ASSUME DrainInv, RelayInv', NEW r \in Relays, DrainMark(r) \/ RelayCrash(r)
    PROVE  DrainInv'
<1>1. RelayInv /\ SettledInOrder'
  BY RelaySettled, EndStep DEF DrainInv
<1>2. /\ UNCHANGED <<row, rowKey, topic, overlap>> /\ relay[r].pc # "idle"
      /\ marked' = marked \/ marked' = marked \cup relay[r].sent
      /\ relay'[r].pc = "idle" /\ relay'[r].pending = {} /\ relay'[r].sent = {}
      /\ \A q \in Relays \ {r} : relay'[q] = relay[q]
  BY <1>1, EndStep, RelayFacts DEF Moves, IdleRelay, DrainMark, RelayCrash
<1>3. SUFFICES ASSUME ~overlap PROVE OneDrain' /\ MarkedInOrder' /\ BatchInOrder' /\ LastCovers' /\ RecordsInOrder'
  BY <1>1, <1>2 DEF DrainInv
<1>4. OneDrain /\ MarkedInOrder /\ BatchInOrder /\ LastCovers /\ RecordsInOrder
  BY <1>3 DEF DrainInv
<1>5. \A q \in Relays : relay'[q].pc = "idle" /\ relay'[q].pending = {} /\ relay'[q].sent = {}
  BY <1>1, <1>2, <1>4, RelayFacts DEF OneDrain
<1>6. OneDrain' /\ BatchInOrder'
  BY <1>5 DEF OneDrain, BatchInOrder
<1>7. RecordsInOrder'
  BY <1>2, <1>4 DEF RecordsInOrder, Older
<1>8. LastCovers'
  BY <1>2, <1>4, <1>5 DEF LastCovers, IsLast
<1>9. MarkedInOrder'
  <2>1. SUFFICES ASSUME NEW i \in marked', NEW j \in Ids, Older(j, i), row[j] = "committed" PROVE j \in marked'
    BY <1>2 DEF MarkedInOrder, Older
  <2>2. CASE i \in marked
    BY <1>2, <1>4, <2>1, <2>2 DEF MarkedInOrder
  <2>3. CASE i \notin marked
    <3>1. i \in relay[r].sent /\ marked' = marked \cup relay[r].sent
      BY <1>2, <2>1, <2>3
    <3>2. j \in marked \cup relay[r].pending \cup relay[r].sent
      BY <1>4, <2>1, <3>1 DEF BatchInOrder
    <3>3. j \in relay[r].pending => i < j
      BY <1>4, <3>1 DEF BatchInOrder
    <3>4. j < i /\ i \in Nat /\ j \in Nat
      BY <1>1, <2>1, <3>1, RelayFacts DEF Older
    <3> QED
      BY <3>1, <3>2, <3>3, <3>4
  <2> QED
    BY <2>2, <2>3
<1> QED
  BY <1>6, <1>7, <1>8, <1>9

(* Every step of the outbox keeps its order.                               *)
LEMMA DrainKeeps == ASSUME DrainInv, OutboxNext PROVE DrainInv'
<1>1. RelayInv /\ SettledInOrder /\ RelayInv'
  BY RelayKeeps DEF DrainInv
<1>2. ASSUME NEW i \in Ids, InsertRow(i) PROVE DrainInv'
  <2>1. i \in Ids /\ row[i] = "none" /\ row' = [row EXCEPT ![i] = "open"]
        /\ UNCHANGED <<rowKey, marked, topic, relay, overlap>>
    BY <1>2 DEF InsertRow, Ids
  <2>2. \A j \in Ids : Older(j, i) => row[j] \in {"committed", "gone"}
    BY <1>1, <1>2, RelayFacts DEF InsertRow, Older
  <2> QED
    BY <1>1, <2>1, <2>2, RowKeepsOrder
<1>3. ASSUME NEW i \in Ids, NEW o \in {"committed", "gone"}, EndTransaction(i, o) PROVE DrainInv'
  <2>1. i \in Ids /\ row[i] = "open" /\ row' = [row EXCEPT ![i] = o]
        /\ UNCHANGED <<rowKey, marked, topic, relay, overlap>>
    BY <1>3 DEF EndTransaction, Ids
  <2> QED
    BY <1>1, <2>1, RowKeepsOrder
<1> QED
  BY <1>1, <1>2, <1>3, SelectKeepsOrder, SelectedKeepsOrder, PublishKeepsOrder, EndKeepsOrder
  DEF OutboxNext, DrainStep

(* The empty outbox is in order.                                           *)
LEMMA DrainInit == OutboxInit => DrainInv
<1>1. SUFFICES ASSUME OutboxInit PROVE DrainInv
  OBVIOUS
<1>2. RelayInv
  BY <1>1, RelayInit
<1>3. /\ \A i \in Ids : row[i] = "none"
      /\ marked = {} /\ DOMAIN topic = {}
      /\ \A r \in Relays : relay[r].pc = "idle" /\ relay[r].pending = {} /\ relay[r].sent = {}
  BY <1>1 DEF OutboxInit, Ids, IdleRelay
<1> QED
  BY <1>2, <1>3 DEF DrainInv, SettledInOrder, OneDrain, MarkedInOrder, BatchInOrder, LastCovers, RecordsInOrder

(* Once the table is drained, and unless two drains overlapped, the last   *)
(* record of a key is its newest row, through lost answers, crashes and    *)
(* batches published again (drainOnce, ORDER BY id).                       *)
THEOREM NewestStaysLast == OutboxSpec => []NewestIsLast
<1>1. DrainInv /\ UNCHANGED outboxVars => DrainInv'
  <2>1. SUFFICES ASSUME DrainInv, UNCHANGED outboxVars PROVE DrainInv'
    OBVIOUS
  <2>2. UNCHANGED <<row, rowKey, marked, topic, relay, faults, overlap>>
    BY <2>1 DEF outboxVars, tableVars
  <2> QED
    BY <2>1, <2>2 DEF DrainInv, RelayInv, HoldsCommitted, TopicMatchesTable, OutboxTypeOK, OnTopic,
     SettledInOrder, OneDrain, MarkedInOrder, BatchInOrder, LastCovers, RecordsInOrder, Older, IsLast
<1>2. DrainInv /\ [OutboxNext]_outboxVars => DrainInv'
  BY <1>1, DrainKeeps
<1>3. DrainInv => NewestIsLast
  <2>1. SUFFICES ASSUME DrainInv, ~overlap, Quiet, NEW n \in DOMAIN topic,
                        \A m \in DOMAIN topic : m > n => rowKey[topic[m]] # rowKey[topic[n]],
                        NEW i \in Ids, row[i] = "committed", rowKey[i] = rowKey[topic[n]]
                 PROVE  i <= topic[n]
    BY DEF NewestIsLast
  <2>2. i \in marked
    BY <2>1 DEF Quiet
  <2> QED
    BY <2>1, <2>2 DEF DrainInv, LastCovers, IsLast
<1> QED
  BY <1>2, <1>3, DrainInit, PTL DEF OutboxSpec
-----------------------------------------------------------------------------
(* The consumer group.  A working member has dealt with everything before  *)
(* its next record.                                                        *)
BatchStarts == \A m \in Members : member[m].pc \in Working =>
                   \A p \in Offsets : p < member[m].next => p \in Done

(* What the owner's client handed out is done or still in its batch.       *)
OwnerCovers ==
    \A p \in Offsets : p <= position =>
        \/ p \in Done
        \/ /\ member[owner].pc \in Working
           /\ member[owner].next <= p /\ p <= member[owner].last

(* Records are done in partition order, without gaps.                      *)
DonePrefix == \A o \in Done, p \in Offsets : p < o => p \in Done

CommittedDone == \A p \in Offsets : p <= committed => p \in Done

GroupInv == ConsumerTypeOK /\ BatchStarts /\ OwnerCovers /\ DonePrefix /\ CommittedDone

(* A member about to park holds a record the handler never accepts.        *)
ParkingIsPoison == \A m \in Members : member[m].pc = "parking" =>
                       topic[member[m].next] \in Poison

AppliedAreProcessed == \A i \in DOMAIN applied : applied[i] \in processed

ParkInv == ConsumerTypeOK /\ ParkingIsPoison /\ OnlyPoisonParked

OrderInv == AppliedAreProcessed /\ EffectsOrdered

-----------------------------------------------------------------------------
(* The member states Advance leads to: the next record of the batch, or    *)
(* the commit after its last one.                                          *)
LEMMA AdvanceStep ==
    ASSUME ConsumerTypeOK, NEW m \in Members, member[m].pc \in Working, Advance(m)
    PROVE  /\ member' \in [Members -> MemberState]
           /\ \A q \in Members : q # m => member'[q] = member[q]
           /\ \/ /\ member[m].next = member[m].last /\ member'[m].pc = "committing"
              \/ /\ member[m].next < member[m].last
                 /\ member'[m] = [pc |-> "handling", next |-> member[m].next + 1,
                                  last |-> member[m].last, tries |-> 0]
<1>1. member[m] \in MemberState /\ member[m].next <= member[m].last
    BY DEF ConsumerTypeOK
<1>2. CASE member[m].next = member[m].last
  <2>1. member' = [member EXCEPT ![m] = [Polling EXCEPT !.pc = "committing"]]
    BY <1>2 DEF Advance, Offset
  <2>2. [Polling EXCEPT !.pc = "committing"] \in MemberState
    BY DEF Polling, MemberState, Working
  <2>3. [Polling EXCEPT !.pc = "committing"].pc = "committing"
    BY DEF Polling
  <2>4. QED
    BY <1>2, <2>1, <2>2, <2>3 DEF ConsumerTypeOK
<1>3. CASE member[m].next < member[m].last
  <2>1. member' = [member EXCEPT ![m] =
                      [pc |-> "handling", next |-> member[m].next + 1,
                       last |-> member[m].last, tries |-> 0]]
    <3>1. member[m].next # member[m].last
      BY <1>1, <1>3 DEF MemberState
    <3>2. QED
      BY <3>1, Zenon DEF Advance, Offset
  <2>2. [pc |-> "handling", next |-> member[m].next + 1,
         last |-> member[m].last, tries |-> 0] \in MemberState
    BY <1>1 DEF MemberState, Working
  <2>3. QED
    BY <1>3, <2>1, <2>2 DEF ConsumerTypeOK
<1>4. QED
    BY <1>1, <1>2, <1>3 DEF MemberState

(* A failed attempt keeps the member on its record, within its attempts.   *)
LEMMA AfterFailureState ==
    ASSUME NEW s \in MemberState, NEW b \in BOOLEAN, s.tries < Attempts,
           s.pc \in {"handling", "holding"}
    PROVE  /\ AfterFailure(s, b) \in MemberState
           /\ AfterFailure(s, b).pc \in {"handling", "holding", "parking"}
           /\ AfterFailure(s, b).pc = "parking" => ~b /\ DeadLetter
           /\ AfterFailure(s, b).next = s.next /\ AfterFailure(s, b).last = s.last
           /\ AfterFailure(s, b).tries < Attempts
<1>1. CASE s.pc = "handling" /\ s.tries + 1 < AttemptsAllowed
  <2>1. AfterFailure(s, b) = [s EXCEPT !.tries = s.tries + 1]
    BY <1>1 DEF AfterFailure
  <2>2. s.tries + 1 < Attempts
    BY <1>1, ConsumerConstants DEF AttemptsAllowed, MemberState
  <2>3. QED
    BY <1>1, <2>1, <2>2 DEF MemberState
<1>2. CASE ~(s.pc = "handling" /\ s.tries + 1 < AttemptsAllowed)
  <2>1. AfterFailure(s, b) = [s EXCEPT !.pc = IF ShouldHold(b) THEN "holding" ELSE "parking"]
    BY <1>2 DEF AfterFailure
  <2>2. ~ShouldHold(b) => ~b /\ DeadLetter
    BY ConsumerConstants, Zenon DEF ShouldHold
  <2>3. CASE ShouldHold(b)
    BY <2>1, <2>3 DEF MemberState, Working
  <2>4. CASE ~ShouldHold(b)
    BY <2>1, <2>2, <2>4 DEF MemberState, Working
  <2>5. QED
    BY <2>3, <2>4
<1>3. QED
    BY <1>1, <1>2

(* The same for the member that made the attempt and those that did not.   *)
LEMMA FailureStep ==
    ASSUME ConsumerTypeOK, NEW m \in Members, NEW b \in BOOLEAN,
           member[m].pc \in {"handling", "holding"},
           member' = [member EXCEPT ![m] = AfterFailure(member[m], b)]
    PROVE  /\ member' \in [Members -> MemberState]
           /\ \A q \in Members : q # m => member'[q] = member[q]
           /\ member'[m].pc \in Working
           /\ member'[m].pc = "parking" => ~b /\ DeadLetter
           /\ member'[m].next = member[m].next /\ member'[m].last = member[m].last
           /\ member'[m].tries < Attempts
<1>1. member[m] \in MemberState /\ member[m].tries < Attempts
    BY DEF ConsumerTypeOK, Working
<1>2. member'[m] = AfterFailure(member[m], b)
    BY DEF ConsumerTypeOK
<1>3. QED
    BY <1>1, <1>2, AfterFailureState DEF ConsumerTypeOK, Working

(* The records a working member holds are on the partition.                *)
LEMMA BatchOnTopic ==
    ASSUME ConsumerTypeOK, NEW m \in Members, member[m].pc \in Working
    PROVE  Offset(m) \in 1..Len(topic) /\ Offset(m) \in Offsets
BY DEF ConsumerTypeOK, MemberState, Offset, Offsets

(* One step preserves the types.                                           *)
LEMMA TypeStep == ConsumerTypeOK /\ [ConsumerNext]_consumerVars => ConsumerTypeOK'
<1> SUFFICES ASSUME ConsumerTypeOK, [ConsumerNext]_consumerVars PROVE ConsumerTypeOK'
    OBVIOUS
<1>a. ASSUME NEW o \in 1..Len(topic), Apply(o), UNCHANGED <<topic>>
      PROVE  processed' \subseteq 1..Len(topic') /\ applied' \in Seq(Offsets)
    BY <1>a DEF ConsumerTypeOK, Apply, Offsets
<1>b. ASSUME NEW m \in Members, member[m].pc \in Working, Advance(m), UNCHANGED <<topic, offsetVars>>,
             processed' \subseteq 1..Len(topic'), parked' \subseteq 1..Len(topic'),
             applied' \in Seq(Offsets), faults' \in 0..MaxFaults, UNCHANGED fetchErrors
      PROVE  ConsumerTypeOK'
  <2>1. /\ 0 < member[m].next /\ member[m].last <= Len(topic)
        /\ member[m].next \in Nat /\ member[m].last \in Nat
    BY <1>b DEF ConsumerTypeOK, MemberState
  <2>2. /\ member' \in [Members -> MemberState]
        /\ \A q \in Members : q # m => member'[q] = member[q]
        /\ \/ member'[m].pc = "committing"
           \/ /\ member[m].next < member[m].last
              /\ member'[m] = [pc |-> "handling", next |-> member[m].next + 1,
                               last |-> member[m].last, tries |-> 0]
    BY <1>b, AdvanceStep
  <2>3. ASSUME member'[m].pc \in Working
        PROVE  /\ 0 < member'[m].next /\ member'[m].next <= member'[m].last
               /\ member'[m].last <= Len(topic) /\ member'[m].tries < Attempts
    BY <2>1, <2>2, <2>3, ConsumerConstants DEF Working
  <2>4. QED
    BY <1>b, <2>2, <2>3 DEF ConsumerTypeOK, offsetVars
<1>c. ASSUME NEW m \in Members, NEW b \in BOOLEAN, member[m].pc \in {"handling", "holding"},
             member' = [member EXCEPT ![m] = AfterFailure(member[m], b)],
             UNCHANGED <<topic, offsetVars, parked, fetchErrors>>,
             processed' \subseteq 1..Len(topic'), applied' \in Seq(Offsets), faults' \in 0..MaxFaults
      PROVE  ConsumerTypeOK'
    BY <1>c, FailureStep DEF ConsumerTypeOK, offsetVars, Working
<1>1. ASSUME NEW v \in Values, Produce(v) PROVE ConsumerTypeOK'
    BY <1>1, ConsumerConstants DEF ConsumerTypeOK, MemberState, Produce, offsetVars, effectVars
<1>2. ASSUME NEW m \in Members, Polls(m) PROVE ConsumerTypeOK'
  <2> PICK n \in 1..Len(topic) : Poll(m, n)
    BY <1>2 DEF Polls
  <2>1. [pc |-> "handling", next |-> position + 1, last |-> n, tries |-> 0] \in MemberState
    BY DEF ConsumerTypeOK, MemberState, Working
  <2>2. QED
    BY <2>1, ConsumerConstants DEF Poll, ConsumerTypeOK, effectVars
<1>3. ASSUME NEW m \in Members, HandlerSucceeds(m) PROVE ConsumerTypeOK'
  <2>1. member[m].pc \in Working
    BY <1>3 DEF HandlerSucceeds, Working
  <2>2. processed' \subseteq 1..Len(topic') /\ applied' \in Seq(Offsets)
    BY <1>3, <1>a, <2>1, BatchOnTopic DEF HandlerSucceeds
  <2>3. QED
    BY <1>3, <1>b, <2>1, <2>2 DEF HandlerSucceeds, ConsumerTypeOK
<1>4. ASSUME NEW m \in Members, HandlerRejects(m) PROVE ConsumerTypeOK'
    BY <1>4, <1>c DEF HandlerRejects, effectVars, ConsumerTypeOK
<1>5. ASSUME NEW m \in Members, HandlerFails(m) PROVE ConsumerTypeOK'
  <2>1. processed' \subseteq 1..Len(topic') /\ applied' \in Seq(Offsets)
    BY <1>5, <1>a, BatchOnTopic DEF HandlerFails, ConsumerTypeOK, Working
  <2>2. faults' \in 0..MaxFaults
    BY <1>5, FaultBound DEF HandlerFails, Fault, ConsumerTypeOK
  <2>3. QED
    BY <1>5, <1>c, <2>1, <2>2, ConsumerConstants DEF HandlerFails
<1>6. ASSUME NEW m \in Members, Park(m) PROVE ConsumerTypeOK'
  <2>1. member[m].pc \in Working
    BY <1>6 DEF Park, Working
  <2>2. Offset(m) \in 1..Len(topic)
    BY <2>1, BatchOnTopic
  <2>3. CASE parked' = parked \cup {Offset(m)} /\ Advance(m) /\ UNCHANGED faults
    BY <1>6, <1>b, <2>1, <2>2, <2>3 DEF Park, ConsumerTypeOK
  <2>4. CASE /\ Fault /\ (parked' = parked \cup {Offset(m)} \/ UNCHANGED parked)
             /\ UNCHANGED member
    <3>0. faults' \in 0..MaxFaults
      BY <2>4, FaultBound DEF ConsumerTypeOK, Fault
    <3>1. parked' \subseteq 1..Len(topic)
      BY <2>2, <2>4, Zenon DEF ConsumerTypeOK
    <3>2. UNCHANGED <<topic, offsetVars, processed, applied, fetchErrors, member>>
      BY <1>6, <2>4 DEF Park
    <3>3. QED
      BY <3>0, <3>1, <3>2 DEF ConsumerTypeOK, offsetVars
  <2>5. QED
    BY <1>6, <2>3, <2>4 DEF Park
<1>7. ASSUME NEW m \in Members, Commit(m) PROVE ConsumerTypeOK'
    BY <1>7, FaultBound, ConsumerConstants DEF Commit, effectVars, ConsumerTypeOK, MemberState, Working, Polling, Fault
<1>8. ASSUME NEW m \in Members, Rebalance(m) PROVE ConsumerTypeOK'
    BY <1>8, FaultBound DEF Rebalance, effectVars, ConsumerTypeOK, Fault
<1>9. ASSUME NEW m \in Members, NEW n \in Members, Restart(m, n) PROVE ConsumerTypeOK'
    BY <1>9, FaultBound, ConsumerConstants DEF Restart, effectVars, ConsumerTypeOK, MemberState, Working, Polling, Fault
<1>10. ASSUME NEW m \in Members, NEW n \in 1..Len(topic), PollWithError(m, n) PROVE ConsumerTypeOK'
    BY <1>10, ConsumerConstants DEF PollWithError, effectVars, ConsumerTypeOK
<1>11. CASE UNCHANGED consumerVars
    BY <1>11 DEF consumerVars, offsetVars, effectVars, ConsumerTypeOK
<1>12. QED
    BY <1>1, <1>2, <1>3, <1>4, <1>5, <1>6, <1>7, <1>8, <1>9, <1>10, <1>11
    DEF ConsumerNext, GroupNext, Step

(* The empty partition and its idle members are well typed.                *)
LEMMA TypeInit == ConsumerInit => ConsumerTypeOK
BY FaultBound, ConsumerConstants DEF ConsumerInit, ConsumerTypeOK, MemberState, Working, Polling, Offsets

(* TypeOK holds for every instance: the attempts of handleRecord stay      *)
(* within Attempts, and nobody works beyond what the partition holds.      *)
THEOREM GroupTypeCorrect == ConsumerSpec => []ConsumerTypeOK
BY TypeInit, TypeStep, PTL DEF ConsumerSpec

-----------------------------------------------------------------------------
(* Records that are done stay done.                                        *)
LEMMA DoneGrows == ConsumerTypeOK /\ [ConsumerNext]_consumerVars => Done \subseteq Done'
BY DEF ConsumerNext, GroupNext, Step, Polls, Poll, PollWithError, HandlerSucceeds, HandlerRejects, HandlerFails,
       Park, Commit, Rebalance, Restart, Produce, Apply, consumerVars, effectVars, Done

(* What is left of GroupInv once a member is through with its record.      *)
LEMMA AdvanceKeepsGroup ==
    ASSUME GroupInv, NEW m \in Members, member[m].pc \in Working, Advance(m),
           Done' = Done \cup {Offset(m)}, UNCHANGED offsetVars
    PROVE  (BatchStarts /\ OwnerCovers /\ DonePrefix /\ CommittedDone)'
<1>1. /\ member[m].next \in Nat /\ member[m].last \in Nat
      /\ 0 < member[m].next /\ member[m].next <= member[m].last
      /\ owner \in Members /\ position \in Nat /\ committed \in Nat
    BY DEF GroupInv, ConsumerTypeOK, MemberState
<1>2. /\ \A q \in Members : q # m => member'[q] = member[q]
      /\ \/ /\ member[m].next = member[m].last /\ member'[m].pc = "committing"
         \/ /\ member[m].next < member[m].last
            /\ member'[m] = [pc |-> "handling", next |-> member[m].next + 1,
                             last |-> member[m].last, tries |-> 0]
    BY AdvanceStep DEF GroupInv
<1>3. \A p \in Offsets : p <= member[m].next => p \in Done'
    BY <1>1 DEF GroupInv, BatchStarts, Offset, Offsets
<1>4. BatchStarts'
  <2> SUFFICES ASSUME NEW q \in Members, member'[q].pc \in Working,
                      NEW p \in Offsets, p < member'[q].next
               PROVE  p \in Done'
    BY DEF BatchStarts
  <2>1. CASE q = m
    BY <1>1, <1>2, <1>3, <2>1 DEF Working, Offsets
  <2>2. CASE q # m
    BY <1>2, <2>2 DEF GroupInv, BatchStarts
  <2>3. QED
    BY <2>1, <2>2
<1>5. OwnerCovers'
  <2> SUFFICES ASSUME NEW p \in Offsets, p <= position, p \notin Done'
               PROVE  /\ member'[owner].pc \in Working
                      /\ member'[owner].next <= p /\ p <= member'[owner].last
    BY DEF OwnerCovers, offsetVars
  <2>1. /\ member[owner].pc \in Working /\ p # member[m].next
        /\ member[owner].next <= p /\ p <= member[owner].last
    BY DEF GroupInv, OwnerCovers, Offset
  <2>2. CASE owner = m
    BY <1>1, <1>2, <2>1, <2>2 DEF Working, Offsets
  <2>3. CASE owner # m
    BY <1>1, <1>2, <2>1, <2>3
  <2>4. QED
    BY <2>2, <2>3
<1>6. DonePrefix'
  <2> SUFFICES ASSUME NEW o \in Done', NEW p \in Offsets, p < o PROVE p \in Done'
    BY DEF DonePrefix
  <2>1. CASE o \in Done
    BY <2>1 DEF GroupInv, DonePrefix
  <2>2. CASE o = member[m].next
    BY <1>1, <1>3, <2>2 DEF Offsets
  <2>3. QED
    BY <2>1, <2>2 DEF Offset
<1>7. CommittedDone'
    BY DEF GroupInv, CommittedDone, offsetVars
<1>8. QED
    BY <1>4, <1>5, <1>6, <1>7

-----------------------------------------------------------------------------
(* A step that is not a poll with a fetch error preserves GroupInv.        *)
LEMMA GroupStep ==
    ASSUME fetchErrors' = 0, GroupInv, [ConsumerNext]_consumerVars
    PROVE  GroupInv'
<1> USE DEF GroupInv
<1>t. ConsumerTypeOK'
    BY TypeStep
<1>k. /\ owner \in Members /\ position \in Nat /\ committed \in Nat
      /\ member \in [Members -> MemberState]
    BY DEF ConsumerTypeOK
<1>r. ASSUME NEW m \in Members, member[m].pc \in {"handling", "holding"}, NEW b \in BOOLEAN,
             member' = [member EXCEPT ![m] = AfterFailure(member[m], b)],
             UNCHANGED offsetVars, Done \subseteq Done', Done' \subseteq Done \cup {Offset(m)}
      PROVE  (BatchStarts /\ OwnerCovers /\ DonePrefix /\ CommittedDone)'
  <2>1. /\ \A q \in Members : q # m => member'[q] = member[q]
        /\ member'[m].pc \in Working
        /\ member'[m].next = member[m].next /\ member'[m].last = member[m].last
        /\ member[m].pc \in Working
    BY <1>r, FailureStep DEF Working
  <2>2. \A q \in Members : /\ member'[q].pc \in Working <=> member[q].pc \in Working
                           /\ member'[q].next = member[q].next /\ member'[q].last = member[q].last
    BY <2>1
  <2>3. BatchStarts'
    BY <1>r, <2>2 DEF BatchStarts
  <2>4. OwnerCovers'
    BY <1>r, <1>k, <2>2 DEF OwnerCovers, offsetVars
  <2>5. DonePrefix'
    BY <1>r, <2>1 DEF DonePrefix, BatchStarts, Offset
  <2>6. CommittedDone'
    BY <1>r DEF CommittedDone, offsetVars
  <2>7. QED
    BY <2>3, <2>4, <2>5, <2>6
<1>1. ASSUME NEW v \in Values, Produce(v) PROVE GroupInv'
    BY <1>t, <1>1 DEF Produce, offsetVars, effectVars, BatchStarts, OwnerCovers, DonePrefix, CommittedDone, Done
<1>2. ASSUME NEW m \in Members, Polls(m) PROVE GroupInv'
  <2> PICK n \in 1..Len(topic) : Poll(m, n)
    BY <1>2 DEF Polls
  <2>1. /\ owner = m /\ member[m].pc = "polling" /\ position < n /\ position' = n
        /\ Done' = Done /\ UNCHANGED <<owner, committed>>
        /\ member'[m] = [pc |-> "handling", next |-> position + 1, last |-> n, tries |-> 0]
        /\ \A q \in Members : q # m => member'[q] = member[q]
    BY <1>k DEF Poll, effectVars, Done
  <2>2. \A p \in Offsets : p <= position => p \in Done
    BY <2>1 DEF OwnerCovers, Working
  <2>3. BatchStarts'
    BY <1>k, <2>1, <2>2 DEF BatchStarts, Offsets
  <2>4. OwnerCovers'
    BY <1>k, <2>1, <2>2 DEF OwnerCovers, Offsets, Working
  <2>5. DonePrefix' /\ CommittedDone'
    BY <2>1 DEF DonePrefix, CommittedDone
  <2>6. QED
    BY <1>t, <2>3, <2>4, <2>5
<1>3. ASSUME NEW m \in Members, HandlerSucceeds(m) PROVE GroupInv'
  <2>1. /\ member[m].pc \in Working /\ Advance(m) /\ UNCHANGED offsetVars
        /\ Done' = Done \cup {Offset(m)}
    BY <1>3 DEF HandlerSucceeds, Working, Apply, Done
  <2>2. QED
    BY <1>t, <2>1, AdvanceKeepsGroup
<1>4. ASSUME NEW m \in Members, HandlerRejects(m) PROVE GroupInv'
    BY <1>t, <1>r, <1>4 DEF HandlerRejects, effectVars, Done
<1>5. ASSUME NEW m \in Members, HandlerFails(m) PROVE GroupInv'
  <2>1. Done \subseteq Done' /\ Done' \subseteq Done \cup {Offset(m)}
    BY <1>5 DEF HandlerFails, Apply, Done
  <2>2. QED
    BY <1>t, <1>r, <1>5, <2>1, ConsumerConstants DEF HandlerFails
<1>6. ASSUME NEW m \in Members, Park(m) PROVE GroupInv'
  <2>1. member[m].pc \in Working /\ UNCHANGED offsetVars /\ processed' = processed
    BY <1>6 DEF Park, Working
  <2>2. CASE parked' = parked \cup {Offset(m)} /\ Advance(m)
    <3>1. Done' = Done \cup {Offset(m)}
      BY <2>1, <2>2 DEF Done
    <3>2. QED
      BY <1>t, <2>1, <2>2, <3>1, AdvanceKeepsGroup
  <2>3. CASE (parked' = parked \cup {Offset(m)} \/ UNCHANGED parked) /\ UNCHANGED member
    <3>1. Done \subseteq Done' /\ Done' \subseteq Done \cup {Offset(m)}
      BY <2>1, <2>3, Zenon DEF Done
    <3>2. BatchStarts' /\ OwnerCovers' /\ CommittedDone'
      BY <2>1, <2>3, <3>1 DEF BatchStarts, OwnerCovers, CommittedDone, offsetVars
    <3>3. DonePrefix'
      BY <2>1, <3>1 DEF DonePrefix, BatchStarts, Offset
    <3>4. QED
      BY <1>t, <3>2, <3>3
  <2>4. QED
    BY <1>6, <2>2, <2>3 DEF Park
<1>7. ASSUME NEW m \in Members, Commit(m) PROVE GroupInv'
  <2>1. /\ member[m].pc = "committing" /\ member'[m].pc = "polling" /\ Done' = Done
        /\ \A q \in Members : q # m => member'[q] = member[q]
        /\ UNCHANGED <<owner, position>>
        /\ committed' = committed \/ (owner = m /\ committed' = position)
    BY <1>7, <1>k DEF Commit, Polling, effectVars, Done
  <2>2. BatchStarts' /\ DonePrefix'
    BY <2>1 DEF BatchStarts, DonePrefix, Working
  <2>3. OwnerCovers'
    BY <1>k, <2>1 DEF OwnerCovers, Working
  <2>4. CommittedDone'
    BY <2>1 DEF OwnerCovers, CommittedDone, Working
  <2>5. QED
    BY <1>t, <2>2, <2>3, <2>4
<1>8. ASSUME NEW m \in Members, Rebalance(m) PROVE GroupInv'
    BY <1>t, <1>8 DEF Rebalance, effectVars, BatchStarts, OwnerCovers, DonePrefix, CommittedDone, Done
<1>9. ASSUME NEW m \in Members, NEW n \in Members, Restart(m, n) PROVE GroupInv'
  <2>1. /\ member'[m].pc = "polling" /\ Done' = Done /\ committed' = committed
        /\ \A q \in Members : q # m => member'[q] = member[q]
        /\ \/ owner = m /\ position' = committed
           \/ owner # m /\ UNCHANGED <<owner, position>>
    BY <1>9, <1>k DEF Restart, Polling, effectVars, Done
  <2>2. BatchStarts' /\ DonePrefix' /\ CommittedDone'
    BY <2>1 DEF BatchStarts, DonePrefix, CommittedDone, Working
  <2>3. OwnerCovers'
    BY <1>k, <2>1 DEF OwnerCovers, CommittedDone
  <2>4. QED
    BY <1>t, <2>2, <2>3
<1>10. ASSUME NEW m \in Members, NEW n \in 1..Len(topic), PollWithError(m, n) PROVE GroupInv'
    BY <1>10 DEF PollWithError, ConsumerTypeOK
<1>11. CASE UNCHANGED consumerVars
    BY <1>t, <1>11 DEF consumerVars, offsetVars, effectVars, BatchStarts, OwnerCovers, DonePrefix, CommittedDone, Done
<1>12. QED
    BY <1>1, <1>2, <1>3, <1>4, <1>5, <1>6, <1>7, <1>8, <1>9, <1>10, <1>11
    DEF ConsumerNext, GroupNext, Step

(* Nothing is handed out, committed or done at the start.                  *)
LEMMA GroupInit == ConsumerInit => GroupInv
BY TypeInit DEF ConsumerInit, GroupInv, Working, Polling, Offsets,
   BatchStarts, OwnerCovers, DonePrefix, CommittedDone, Done

(* Fetch errors are only ever added.                                       *)
LEMMA ErrorsStay ==
    ASSUME ConsumerTypeOK, [ConsumerNext]_consumerVars, fetchErrors' = 0
    PROVE  fetchErrors = 0
<1>1. ASSUME NEW m \in Members, NEW n \in 1..Len(topic), PollWithError(m, n) PROVE FALSE
    BY <1>1 DEF PollWithError, ConsumerTypeOK
<1>2. CASE UNCHANGED fetchErrors
    BY <1>2
<1>3. QED
    BY <1>1, <1>2 DEF ConsumerNext, GroupNext, Step, Polls, Poll, HandlerSucceeds, HandlerRejects,
       HandlerFails, Park, Commit, Rebalance, Restart, Produce, consumerVars

(* While no fetch has reported a partition error, the committed offset     *)
(* never passes a record that was neither handled nor parked.              *)
THEOREM NothingSkipped == ConsumerSpec => []NoneSkipped
<1> DEFINE Inv == ConsumerTypeOK /\ (fetchErrors = 0 => GroupInv)
<1>1. ConsumerInit => Inv
    BY GroupInit, TypeInit
<1>2. Inv /\ [ConsumerNext]_consumerVars => Inv'
    BY TypeStep, ErrorsStay, GroupStep
<1>3. Inv => NoneSkipped
    BY DEF GroupInv, CommittedDone, CommittedIsDone, NoneSkipped, Offsets, ConsumerTypeOK
<1>4. QED
    BY <1>1, <1>2, <1>3, PTL DEF ConsumerSpec

-----------------------------------------------------------------------------
(* With a Retryable that recognises outages only poison is set aside.      *)
LEMMA ParkStep ==
    ASSUME Retryable \/ ~DeadLetter, ParkInv, [ConsumerNext]_consumerVars
    PROVE  ParkInv'
<1> USE DEF ParkInv
<1>t. ConsumerTypeOK'
    BY TypeStep
<1>k. /\ topic \in Seq(Values) /\ member \in [Members -> MemberState]
      /\ parked \subseteq 1..Len(topic)
    BY DEF ConsumerTypeOK
<1>a. ASSUME NEW m \in Members, member[m].pc \in Working, Advance(m), UNCHANGED topic
      PROVE  ParkingIsPoison'
  <2>1. \A q \in Members : q # m => member'[q] = member[q]
    BY <1>a, AdvanceStep
  <2>2. member'[m].pc # "parking"
    <3>1. \/ member'[m].pc = "committing"
          \/ member'[m] = [pc |-> "handling", next |-> member[m].next + 1,
                           last |-> member[m].last, tries |-> 0]
      BY <1>a, AdvanceStep, Zenon
    <3>2. QED
      BY <3>1
  <2>3. QED
    BY <1>a, <2>1, <2>2 DEF ParkingIsPoison
<1>1. ASSUME NEW v \in Values, Produce(v) PROVE ParkInv'
  <2>1. \A o \in 1..Len(topic) : topic'[o] = topic[o]
    BY <1>k, <1>1 DEF Produce
  <2>2. \A m \in Members : member[m].pc = "parking" => member[m].next \in 1..Len(topic)
    BY BatchOnTopic DEF Working, Offset
  <2>3. QED
    BY <1>t, <1>k, <1>1, <2>1, <2>2 DEF Produce, effectVars, ParkingIsPoison, OnlyPoisonParked
<1>2. ASSUME NEW m \in Members, Polls(m) PROVE ParkInv'
    BY <1>t, <1>k, <1>2 DEF Polls, Poll, effectVars, ParkingIsPoison, OnlyPoisonParked
<1>3. ASSUME NEW m \in Members, HandlerSucceeds(m) PROVE ParkInv'
    BY <1>t, <1>a, <1>3 DEF HandlerSucceeds, Working, OnlyPoisonParked
<1>4. ASSUME NEW m \in Members, HandlerRejects(m) PROVE ParkInv'
  <2>1. /\ \A q \in Members : q # m => member'[q] = member[q]
        /\ member'[m].next = member[m].next
    BY <1>4, FailureStep DEF HandlerRejects
  <2>2. QED
    BY <1>t, <1>4, <2>1 DEF HandlerRejects, effectVars, Offset, ParkingIsPoison, OnlyPoisonParked
<1>5. ASSUME NEW m \in Members, HandlerFails(m) PROVE ParkInv'
  <2>1. Retryable \in BOOLEAN
    BY ConsumerConstants
  <2>2. /\ \A q \in Members : q # m => member'[q] = member[q]
        /\ member'[m].pc = "parking" => ~Retryable /\ DeadLetter
    BY <1>5, <2>1, FailureStep DEF HandlerFails
  <2>3. member'[m].pc # "parking"
    BY <2>2
  <2>4. QED
    BY <1>t, <1>5, <2>2, <2>3 DEF HandlerFails, ParkingIsPoison, OnlyPoisonParked
<1>6. ASSUME NEW m \in Members, Park(m) PROVE ParkInv'
  <2>1. topic' = topic /\ topic[Offset(m)] \in Poison /\ parked' \subseteq parked \cup {Offset(m)}
    BY <1>6 DEF Park, ParkingIsPoison, Offset
  <2>2. OnlyPoisonParked'
    BY <2>1 DEF OnlyPoisonParked
  <2>3. ParkingIsPoison'
    BY <1>6, <1>a, <2>1 DEF Park, Working, ParkingIsPoison
  <2>4. QED
    BY <1>t, <2>2, <2>3
<1>7. ASSUME NEW m \in Members, Commit(m) PROVE ParkInv'
    BY <1>t, <1>k, <1>7 DEF Commit, Polling, effectVars, ParkingIsPoison, OnlyPoisonParked
<1>8. ASSUME NEW m \in Members, Rebalance(m) PROVE ParkInv'
    BY <1>t, <1>8 DEF Rebalance, effectVars, ParkingIsPoison, OnlyPoisonParked
<1>9. ASSUME NEW m \in Members, NEW n \in Members, Restart(m, n) PROVE ParkInv'
    BY <1>t, <1>k, <1>9 DEF Restart, Polling, effectVars, ParkingIsPoison, OnlyPoisonParked
<1>10. ASSUME NEW m \in Members, NEW n \in 1..Len(topic), PollWithError(m, n) PROVE ParkInv'
    BY <1>t, <1>10 DEF PollWithError, effectVars, ParkingIsPoison, OnlyPoisonParked
<1>11. CASE UNCHANGED consumerVars
    BY <1>t, <1>11 DEF consumerVars, effectVars, ParkingIsPoison, OnlyPoisonParked
<1>12. QED
    BY <1>1, <1>2, <1>3, <1>4, <1>5, <1>6, <1>7, <1>8, <1>9, <1>10, <1>11
    DEF ConsumerNext, GroupNext, Step

(* A failure that only means "not yet" never puts a record on the DLQ.     *)
THEOREM OutagesParkNothing == Retryable \/ ~DeadLetter => (ConsumerSpec => []OnlyPoisonParked)
<1> SUFFICES ASSUME Retryable \/ ~DeadLetter PROVE ConsumerSpec => []OnlyPoisonParked
    OBVIOUS
<1>1. ConsumerInit => ParkInv
    BY TypeInit DEF ConsumerInit, ParkInv, Polling, ParkingIsPoison, OnlyPoisonParked
<1>2. ParkInv /\ [ConsumerNext]_consumerVars => ParkInv'
    BY ParkStep
<1>3. ParkInv => OnlyPoisonParked
    BY DEF ParkInv
<1>4. QED
    BY <1>1, <1>2, <1>3, PTL DEF ConsumerSpec

-----------------------------------------------------------------------------
(* A record that is applied for the first time is behind all that were.    *)
LEMMA AppliesNext ==
    ASSUME GroupInv, ParkInv, OrderInv, NEW m \in Members, member[m].pc \in Working,
           topic[Offset(m)] \notin Poison, Apply(Offset(m))
    PROVE  OrderInv'
<1>1. Offset(m) \in Offsets /\ Offset(m) \in 1..Len(topic)
    BY BatchOnTopic DEF GroupInv
<1>2. CASE Offset(m) \in processed
    BY <1>2 DEF Apply, OrderInv, AppliedAreProcessed, EffectsOrdered
<1>3. CASE Offset(m) \notin processed
  <2>1. applied' = Append(applied, Offset(m)) /\ processed' = processed \cup {Offset(m)}
    BY <1>3 DEF Apply
  <2>2. applied \in Seq(Offsets) /\ processed \subseteq Offsets
    BY DEF GroupInv, ConsumerTypeOK, Offsets
  <2>3. \A o \in processed : o < Offset(m)
    <3>1. SUFFICES ASSUME NEW o \in processed, Offset(m) < o PROVE FALSE
      BY <1>1, <1>3, <2>2 DEF Offsets
    <3>2. Offset(m) \in Done
      BY <1>1, <3>1 DEF GroupInv, DonePrefix, Done
    <3>3. Offset(m) \in parked
      BY <1>3, <3>2 DEF Done
    <3>4. QED
      BY <3>3 DEF ParkInv, OnlyPoisonParked
  <2>4. /\ DOMAIN applied' = 1..(Len(applied) + 1) /\ DOMAIN applied = 1..Len(applied)
        /\ Len(applied) \in Nat /\ applied'[Len(applied) + 1] = Offset(m)
        /\ \A i \in 1..Len(applied) : applied'[i] = applied[i]
    BY <1>1, <2>1, <2>2
  <2>5. AppliedAreProcessed'
    BY <2>1, <2>4 DEF OrderInv, AppliedAreProcessed
  <2>6. EffectsOrdered'
    BY <2>3, <2>4 DEF OrderInv, AppliedAreProcessed, EffectsOrdered
  <2>7. QED
    BY <2>5, <2>6 DEF OrderInv
<1>4. QED
    BY <1>2, <1>3

(* Only the handler's transaction extends the sequence of effects.         *)
LEMMA OrderStep ==
    ASSUME GroupInv, ParkInv, OrderInv, [ConsumerNext]_consumerVars
    PROVE  OrderInv'
<1>1. ASSUME NEW m \in Members, HandlerSucceeds(m) PROVE OrderInv'
    BY <1>1, AppliesNext DEF HandlerSucceeds, Working
<1>2. ASSUME NEW m \in Members, HandlerFails(m) PROVE OrderInv'
  <2>1. CASE Apply(Offset(m))
    BY <1>2, <2>1, AppliesNext DEF HandlerFails, Working
  <2>2. CASE UNCHANGED <<processed, applied>>
    BY <2>2 DEF OrderInv, AppliedAreProcessed, EffectsOrdered
  <2>3. QED
    BY <1>2, <2>1, <2>2 DEF HandlerFails
<1>3. CASE UNCHANGED <<processed, applied>>
    BY <1>3 DEF OrderInv, AppliedAreProcessed, EffectsOrdered
<1>4. QED
    BY <1>1, <1>2, <1>3 DEF ConsumerNext, GroupNext, Step, Polls, Poll, PollWithError, HandlerRejects,
       Park, Commit, Rebalance, Restart, Produce, consumerVars, effectVars

(* Effects happen once and in partition order, however often members are   *)
(* restarted or the partition moves between them, if outages are retried   *)
(* in place and no fetch has reported a partition error.                   *)
THEOREM EffectsInOrder == Retryable \/ ~DeadLetter => (ConsumerSpec => []AppliedInOrder)
<1> SUFFICES ASSUME Retryable \/ ~DeadLetter PROVE ConsumerSpec => []AppliedInOrder
    OBVIOUS
<1> DEFINE Inv == ParkInv /\ (fetchErrors = 0 => GroupInv /\ OrderInv)
<1>1. ConsumerInit => Inv
    BY GroupInit, TypeInit DEF ConsumerInit, ParkInv, Polling, ParkingIsPoison, OnlyPoisonParked,
       OrderInv, AppliedAreProcessed, EffectsOrdered
<1>2. Inv /\ [ConsumerNext]_consumerVars => Inv'
  <2> SUFFICES ASSUME Inv, [ConsumerNext]_consumerVars PROVE Inv'
    OBVIOUS
  <2>1. ParkInv'
    BY ParkStep
  <2>2. ASSUME fetchErrors' = 0 PROVE GroupInv' /\ OrderInv'
    <3>1. GroupInv /\ OrderInv
      BY <2>2, ErrorsStay DEF ParkInv
    <3>2. QED
      BY <2>2, <3>1, GroupStep, OrderStep
  <2>3. QED
    BY <2>1, <2>2
<1>3. Inv => AppliedInOrder
    BY DEF OrderInv, AppliedInOrder
<1>4. QED
    BY <1>1, <1>2, <1>3, PTL DEF ConsumerSpec
-----------------------------------------------------------------------------
(* What holds on the bus while one relay drains and no fetch reports a     *)
(* partition error.                                                        *)
BusInv == DrainInv /\ GroupInv /\ ~overlap

OneRelay == \A q, r \in Relays : q = r

(* Steps of the outbox change, of what the group sees, at most the end of  *)
(* the topic.                                                              *)
LEMMA OutboxExtends ==
    ASSUME RelayInv, OutboxNext
    PROVE  topic' = topic \/ \E i \in Ids : topic' = Append(topic, i)
<1>1. ASSUME NEW r \in Relays, DrainPublish(r) PROVE topic' = topic \/ \E i \in Ids : topic' = Append(topic, i)
  <2>1. PICK i \in relay[r].pending : \E me \in RelayState : Published(r, i, me)
    BY <1>1, PublishStep
  <2> QED
    BY <2>1 DEF Published
<1>2. ASSUME NEW r \in Relays, ~DrainPublish(r), DrainStep(r) \/ RelayCrash(r) PROVE topic' = topic
  BY <1>2 DEF DrainStep, DrainSelect, DrainSelected, DrainMark, RelayCrash
<1>3. ASSUME NEW i, InsertRow(i) \/ \E o \in {"committed", "gone"} : EndTransaction(i, o) PROVE topic' = topic
  BY <1>3 DEF InsertRow, EndTransaction
<1> QED
  BY <1>1, <1>2, <1>3 DEF OutboxNext

(* The group's invariant bears a longer topic.                             *)
LEMMA LongerTopic ==
    ASSUME GroupInv, topic \in Seq(Ids), faults' \in 0..MaxFaults, UNCHANGED groupVars,
           topic' = topic \/ \E i \in Ids : topic' = Append(topic, i)
    PROVE  GroupInv'
<1>1. /\ topic' \in Seq(Ids) /\ Len(topic) \in Nat /\ Len(topic') \in Nat /\ Len(topic) <= Len(topic')
  BY TopicGrows
<1>2. UNCHANGED <<owner, position, committed, member, processed, applied, parked, fetchErrors>>
  BY DEF groupVars
<1>3. ConsumerTypeOK
  BY DEF GroupInv
<1>4. \A n \in 0..Len(topic) : n \in 0..Len(topic')
  BY <1>1
<1>5. \A n \in 1..Len(topic) : n \in 1..Len(topic')
  BY <1>1
<1>6. \A m \in Members : member[m].pc \in Working => member[m].last <= Len(topic')
  <2>1. \A m \in Members : member[m].last \in Nat
    BY <1>3 DEF ConsumerTypeOK, MemberState
  <2> QED
    BY <1>1, <1>3, <2>1 DEF ConsumerTypeOK
<1>7. ConsumerTypeOK'
  <2>1. \A s \in Seq(Ids) : s \in Seq(Values)
    BY BusConstants
  <2> QED
    BY <1>1, <1>2, <1>3, <1>4, <1>5, <1>6, <2>1 DEF ConsumerTypeOK
<1>8. (BatchStarts /\ OwnerCovers /\ DonePrefix /\ CommittedDone)'
  BY <1>2 DEF GroupInv, BatchStarts, OwnerCovers, DonePrefix,
     CommittedDone, Done, Offset
<1> QED
  BY <1>7, <1>8 DEF GroupInv

(* A step of the outbox.                                                   *)
LEMMA ProducesKeeps == ASSUME OneRelay, BusInv, Produces PROVE BusInv'
<1>1. DrainInv /\ RelayInv /\ ~overlap /\ GroupInv /\ OutboxNext /\ UNCHANGED groupVars
  BY DEF BusInv, DrainInv, Produces
<1>2. DrainInv' /\ RelayInv'
  BY <1>1, DrainKeeps DEF DrainInv
<1>3. GroupInv'
  <2>1. faults' \in 0..MaxFaults
    BY <1>2 DEF RelayInv, TopicMatchesTable, OutboxTypeOK
  <2> QED
    BY <1>1, <2>1, OutboxExtends, LongerTopic, RelayFacts
<1>4. ~overlap'
  <2>1. ASSUME NEW r \in Relays, DrainSelect(r) PROVE ~overlap'
    BY <1>1, <2>1 DEF OneRelay, DrainSelect
  <2> QED
    BY <1>1, <2>1 DEF OutboxNext, DrainStep, InsertRow, EndTransaction, DrainSelected,
       DrainPublish, DrainMark, RelayCrash
<1> QED
  BY <1>2, <1>3, <1>4 DEF BusInv

(* A step of the consumer group.                                           *)
LEMMA ConsumesKeeps == ASSUME MaxFetchErrors = 0, BusInv, Consumes PROVE BusInv' /\ topic' = topic
<1>1. /\ DrainInv /\ RelayInv /\ ~overlap /\ GroupInv /\ GroupNext
      /\ UNCHANGED <<row, rowKey, marked, relay, overlap>>
  BY DEF BusInv, DrainInv, Consumes, relayVars
<1>2. [ConsumerNext]_consumerVars
  BY <1>1 DEF ConsumerNext
<1>k. ConsumerTypeOK
  BY <1>1 DEF GroupInv
<1>3. ConsumerTypeOK'
  BY <1>k, <1>2, TypeStep
<1>4. fetchErrors' = 0
  BY <1>3 DEF ConsumerTypeOK
<1>5. GroupInv'
  BY <1>1, <1>2, <1>4, GroupStep
<1>6. topic' = topic
  BY <1>1 DEF GroupNext, Step, Polls, Poll, PollWithError,
     HandlerSucceeds, HandlerRejects, HandlerFails, Park,
     Commit, Rebalance, Restart
<1>7. faults' \in 0..MaxFaults
  BY <1>3 DEF ConsumerTypeOK
<1>8. RelayInv'
  BY <1>1, <1>6, <1>7 DEF RelayInv, HoldsCommitted, TopicMatchesTable, OutboxTypeOK, OnTopic
<1>9. DrainInv'
  BY <1>1, <1>6, <1>8 DEF DrainInv, SettledInOrder, OneDrain, MarkedInOrder, BatchInOrder, LastCovers, RecordsInOrder,
     Older, IsLast
<1> QED
  BY <1>1, <1>5, <1>6, <1>9 DEF BusInv

(* The group deals with one more record at most.                           *)
LEMMA OneMoreDone ==
    ASSUME GroupInv, GroupNext
    PROVE  \/ Done' = Done
           \/ \E o \in 1..Len(topic) : Done' = Done \cup {o}
<1>1. ASSUME NEW m \in Members, HandlerSucceeds(m) \/ HandlerFails(m) \/ Park(m)
      PROVE  \/ Done' = Done
             \/ \E o \in 1..Len(topic) : Done' = Done \cup {o}
  <2>1. member[m].pc \in Working
    BY <1>1 DEF HandlerSucceeds, HandlerFails, Park, Working
  <2>2. Offset(m) \in 1..Len(topic)
    <3>1. ConsumerTypeOK
      BY DEF GroupInv
    <3> QED
      BY <2>1, <3>1, BatchOnTopic
  <2>3. \/ UNCHANGED <<processed, parked>>
        \/ processed' = processed \cup {Offset(m)} /\ parked' = parked
        \/ parked' = parked \cup {Offset(m)} /\ processed' = processed
    BY <1>1 DEF HandlerSucceeds, HandlerFails, Park, Apply
  <2> QED
    BY <2>2, <2>3 DEF Done
<1>2. ASSUME UNCHANGED <<processed, parked>> PROVE Done' = Done
  BY <1>2 DEF Done
<1> QED
  BY <1>1, <1>2 DEF GroupNext, Step, Polls, Poll, PollWithError,
     HandlerRejects, Commit, Rebalance, Restart, effectVars
-----------------------------------------------------------------------------
(* What is delivered, and where it stood on the topic.                     *)
LEMMA DeliveredIs ==
    ASSUME BusInv
    PROVE  /\ \A x : x \in Delivered <=> \E o \in Done : x = topic[o]
           /\ Done \subseteq DOMAIN topic
<1>1. Done \subseteq 1..Len(topic)
  BY DEF BusInv, GroupInv, ConsumerTypeOK, Done
<1>2. DOMAIN topic = 1..Len(topic)
  BY RelayFacts DEF BusInv, DrainInv
<1> QED
  BY <1>1, <1>2 DEF Delivered

(* A step of the outbox writes or ends an event, or does nothing to the    *)
(* channel.                                                                *)
LEMMA ProducesIsChannelStep ==
    ASSUME OneRelay, BusInv, Produces
    PROVE  [Channel!Next]_(Channel!vars)
<1>1. RelayInv /\ OutboxNext /\ UNCHANGED groupVars /\ BusInv'
  BY ProducesKeeps DEF BusInv, DrainInv, Produces
<1>2. Done' = Done
  BY <1>1 DEF groupVars, Done
<1>3. \A n \in DOMAIN topic : topic'[n] = topic[n]
  BY <1>1, OutboxExtends, RelayFacts, TopicGrows
<1>4. /\ \A x : x \in Delivered <=> \E o \in Done : x = topic[o]
      /\ Done \subseteq DOMAIN topic
  BY DeliveredIs
<1>5. \A x : x \in Delivered' <=> \E o \in Done' : x = topic'[o]
  BY <1>1 DEF Delivered, Done
<1>6. Delivered' = Delivered
  <2>1. \A x : x \in Delivered' <=> x \in Delivered
    BY <1>2, <1>3, <1>4, <1>5
  <2> QED
    BY <2>1
<1>7. Channel!Ids = Ids
  BY DEF Channel!Ids, Ids
<1>8. ASSUME NEW i \in Ids, InsertRow(i) PROVE Channel!Write(i)
  BY <1>6, <1>8 DEF InsertRow, Channel!Write
<1>9. ASSUME NEW i \in Ids, NEW o \in {"committed", "gone"}, EndTransaction(i, o) PROVE Channel!End(i, o)
  BY <1>6, <1>9 DEF EndTransaction, Channel!End
<1>10. ASSUME NEW r \in Relays, DrainStep(r) \/ RelayCrash(r) PROVE UNCHANGED Channel!vars
  <2>1. UNCHANGED <<row, rowKey>>
    BY <1>10 DEF DrainStep, RelayCrash, DrainSelect, DrainSelected, DrainPublish,
       DrainMark, tableVars
  <2> QED
    BY <1>6, <2>1 DEF Channel!vars
<1> QED
  BY <1>1, <1>7, <1>8, <1>9, <1>10 DEF OutboxNext, Channel!Next

(* A step of the group delivers an event whose elders are delivered, or    *)
(* does nothing to the channel.                                            *)
LEMMA ConsumesIsChannelStep ==
    ASSUME MaxFetchErrors = 0, BusInv, Consumes
    PROVE  [Channel!Next]_(Channel!vars)
<1>1. /\ RelayInv /\ RecordsInOrder /\ GroupInv /\ GroupNext /\ UNCHANGED <<row, rowKey>>
      /\ BusInv' /\ topic' = topic
  BY ConsumesKeeps DEF BusInv, DrainInv, Consumes, relayVars
<1>2. /\ \A x : x \in Delivered <=> \E o \in Done : x = topic[o]
      /\ Done \subseteq DOMAIN topic
  BY DeliveredIs
<1>3. \A x : x \in Delivered' <=> \E o \in Done' : x = topic[o]
  BY <1>1 DEF Delivered, Done
<1>4. CASE Done' = Done
  <2>1. \A x : x \in Delivered' <=> x \in Delivered
    BY <1>2, <1>3, <1>4
  <2>2. Delivered' = Delivered
    BY <2>1
  <2> QED
    BY <1>1, <2>2 DEF Channel!vars
<1>5. ASSUME NEW o \in 1..Len(topic), Done' = Done \cup {o} PROVE Channel!Deliver(topic[o])
  <2>1. o \in DOMAIN topic /\ topic[o] \in Ids /\ row[topic[o]] = "committed" /\ o \in Nat
    <3>1. DOMAIN topic = 1..Len(topic) /\ Len(topic) \in Nat
      BY <1>1, RelayFacts
    <3>2. o \in DOMAIN topic /\ o \in Nat
      BY <1>5, <3>1
    <3> QED
      BY <1>1, <3>2, RelayFacts
  <2>2. \A x : x \in Delivered' <=> x \in Delivered \/ x = topic[o]
    BY <1>2, <1>3, <1>5
  <2>3. Delivered' = Delivered \cup {topic[o]}
    BY <2>2
  <2>4. ASSUME NEW j \in Ids, j < topic[o], rowKey[j] = rowKey[topic[o]], row[j] = "committed" PROVE j \in Delivered
    <3>1. PICK m \in DOMAIN topic : m < o /\ topic[m] = j
      BY <1>1, <2>1, <2>4 DEF RecordsInOrder, Older
    <3>2. m \in Nat \ {0}
      BY <1>1, RelayFacts
    <3>3. m \in Done'
      <4>1. DonePrefix'
        BY <1>1 DEF BusInv, GroupInv
      <4>2. o \in Done' /\ m \in Offsets
        BY <1>5, <3>2 DEF Offsets
      <4> QED
        BY <3>1, <4>1, <4>2 DEF DonePrefix
    <3>4. m \in Done
      BY <1>5, <2>1, <3>1, <3>2, <3>3
    <3> QED
      BY <1>2, <3>1, <3>4
  <2> QED
    BY <1>1, <2>1, <2>3, <2>4 DEF Channel!Deliver, Channel!Ids, Ids
<1>6. \A o \in 1..Len(topic) : topic[o] \in Channel!Ids
  BY <1>1, RelayFacts DEF Channel!Ids, Ids
<1> QED
  BY <1>1, <1>4, <1>5, <1>6, OneMoreDone DEF Channel!Next

(* The initial states of the bus.                                          *)
LEMMA BusInit == Init => BusInv /\ Channel!Init
<1>1. SUFFICES ASSUME Init PROVE BusInv /\ Channel!Init
  OBVIOUS
<1>2. DrainInv /\ ~overlap
  BY <1>1, DrainInit DEF Init, OutboxInit
<1>3. GroupInv
  <2>1. ConsumerInit
    BY <1>1 DEF Init, ConsumerInit, Polling
  <2> QED
    BY <2>1, GroupInit
<1>4. Delivered = {}
  BY <1>1 DEF Init, ConsumerInit, Delivered, Done
<1>5. Channel!Init
  BY <1>1, <1>4 DEF Init, OutboxInit, Ids, Channel!Init, Channel!Ids
<1> QED
  BY <1>2, <1>3, <1>5 DEF BusInv

(* ARCHITECTURE: no dual-write, and a single aggregate's events stay       *)
(* ordered.  With one relay and no partition error swallowed, every step   *)
(* of outbox, topic and consumer group is a step of the event channel or   *)
(* leaves it alone: only committed events reach the consumer, each after   *)
(* the older events of its aggregate.                                      *)
THEOREM ChannelSafety ==
    OneRelay /\ MaxFetchErrors = 0 => (Spec => Channel!Init /\ [][Channel!Next]_(Channel!vars))
<1>1. SUFFICES ASSUME OneRelay, MaxFetchErrors = 0 PROVE Spec => Channel!Init /\ [][Channel!Next]_(Channel!vars)
  OBVIOUS
<1>2. Init => BusInv /\ Channel!Init
  BY BusInit
<1>3. BusInv /\ Next => BusInv' /\ [Channel!Next]_(Channel!vars)
  BY <1>1, ProducesKeeps, ConsumesKeeps, ProducesIsChannelStep, ConsumesIsChannelStep DEF Next
<1>4. BusInv /\ UNCHANGED vars => BusInv' /\ [Channel!Next]_(Channel!vars)
  <2>1. SUFFICES ASSUME BusInv, UNCHANGED vars PROVE BusInv' /\ UNCHANGED Channel!vars
    OBVIOUS
  <2>2. UNCHANGED <<row, rowKey, marked, relay, overlap, topic, faults, owner, position, committed, member,
                    processed, applied, parked, fetchErrors>>
    BY <2>1 DEF vars, relayVars, groupVars
  <2>3. UNCHANGED Channel!vars
    BY <2>2 DEF Channel!vars, Delivered, Done
  <2>4. DrainInv' /\ ~overlap'
    BY <2>1, <2>2 DEF BusInv, DrainInv, RelayInv, HoldsCommitted, TopicMatchesTable, OutboxTypeOK, OnTopic,
       SettledInOrder, OneDrain, MarkedInOrder, BatchInOrder, LastCovers, RecordsInOrder, Older, IsLast
  <2>5. GroupInv'
    BY <2>1, <2>2 DEF BusInv, GroupInv, ConsumerTypeOK, BatchStarts, OwnerCovers,
       DonePrefix, CommittedDone, Done, Offset
  <2> QED
    BY <2>3, <2>4, <2>5 DEF BusInv
<1> QED
  BY <1>2, <1>3, <1>4, PTL DEF Spec
=============================================================================
