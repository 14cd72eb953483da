---------------------------- MODULE EventChannel -----------------------------
(***************************************************************************)
(* What the event bus promises a consumer, without outbox, broker or       *)
(* groups: every event that was committed reaches the consumer, nothing    *)
(* that was rolled back does, and the events of one aggregate arrive in    *)
(* the order they were written.                                            *)
(***************************************************************************)
EXTENDS Naturals

CONSTANTS Keys,     \* aggregate ids
          MaxRows   \* bound on events

VARIABLES row,        \* state of each event: "none", "open", "committed", "gone"
          rowKey,     \* key of each event
          delivered   \* events handled, or set aside on the DLQ

vars == <<row, rowKey, delivered>>

Ids == 1..MaxRows

Init ==
    /\ row = [i \in Ids |-> "none"] /\ rowKey \in [Ids -> Keys] /\ delivered = {}

Write(i) ==
    /\ row[i] = "none" /\ row' = [row EXCEPT ![i] = "open"]
    /\ UNCHANGED <<rowKey, delivered>>

End(i, outcome) ==
    /\ row[i] = "open" /\ row' = [row EXCEPT ![i] = outcome]
    /\ UNCHANGED <<rowKey, delivered>>

Deliver(i) ==
    /\ row[i] = "committed"
    /\ \A j \in Ids : j < i /\ rowKey[j] = rowKey[i] /\ row[j] = "committed" => j \in delivered
    /\ delivered' = delivered \cup {i}
    /\ UNCHANGED <<row, rowKey>>

Next == \E i \in Ids : Write(i) \/ Deliver(i) \/ \E o \in {"committed", "gone"} : End(i, o)

Spec == Init /\ [][Next]_vars /\ \A i \in Ids : WF_vars(Deliver(i))
=============================================================================
