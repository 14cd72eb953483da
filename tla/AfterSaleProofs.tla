---------------------------- MODULE AfterSaleProofs ----------------------------
(***************************************************************************)
(* Proofs about the services behind order.confirmed, for any set of        *)
(* orders, shops, carriers, settlers, mailers and faults.                  *)
(***************************************************************************)
EXTENDS AfterSale, SequenceTheorems, Sums

ShipTopics == {"shipment_created", "shipped", "delivered", "cancelled"}

(* The announcements a shipment in a status may have behind it.            *)
History(status, h) ==
    CASE status = "NONE"      -> h = <<>>
      [] status = "PENDING"   -> h = <<"shipment_created">>
      [] status = "SHIPPED"   -> h = <<"shipment_created", "shipped">>
      [] status = "DELIVERED" -> h = <<"shipment_created", "shipped", "delivered">>
      [] status = "CANCELLED" ->
            h \in {<<"shipment_created", "cancelled">>, <<"shipment_created", "shipped", "cancelled">>}

ShipState ==
    /\ shipment \in [Orders -> [Shops -> Ful!ShipStatus \cup {"NONE"}]]
    /\ shipEvents \in [Orders -> [Shops -> Seq(ShipTopics)]]
    /\ \A o \in Orders, s \in Shops : History(shipment[o][s], shipEvents[o][s])

(* What fulfillment is about to do concerns orders and shops there are.    *)
FulInv ==
    /\ CommonTypeOK
    /\ fProcessed \subseteq confirmed
    /\ targets \in [Carriers -> SUBSET Ful!AdvanceTarget]
    /\ ShipState

-----------------------------------------------------------------------------
(* Appending an event to a history of one event ...                        *)
LEMMA AppendToOne == ASSUME NEW S, NEW a \in S, NEW b \in S PROVE Append(<<a>>, b) = <<a, b>>
<1>1. <<a,b>> \in Seq(S) /\ Len(<<a,b>>) = 2 /\ <<a,b>>[1] = a /\ <<a,b>>[2] = b
  OBVIOUS
<1>2. Append(<<a>>,b) \in Seq(S) /\ Len(Append(<<a>>,b)) = 2 /\ Append(<<a>>,b)[1] = a /\ Append(<<a>>,b)[2] = b
  OBVIOUS
<1>3. \A i \in 1..2 : Append(<<a>>,b)[i] = <<a,b>>[i]
  BY <1>1, <1>2
<1> QED BY <1>1, <1>2, <1>3, SeqEqual

(* ... or of two (the outbox rows Transition writes).                      *)
LEMMA AppendToTwo ==
    ASSUME NEW S, NEW a \in S, NEW b \in S, NEW c \in S PROVE Append(<<a,b>>, c) = <<a, b, c>>
<1>1. <<a,b,c>> \in Seq(S) /\ Len(<<a,b,c>>) = 3 /\ <<a,b,c>>[1] = a /\ <<a,b,c>>[2] = b /\ <<a,b,c>>[3] = c
  OBVIOUS
<1>2. Append(<<a,b>>,c) \in Seq(S) /\ Len(Append(<<a,b>>,c)) = 3 /\ Append(<<a,b>>,c)[1] = a /\ Append(<<a,b>>,c)[2] = b /\ Append(<<a,b>>,c)[3] = c
  OBVIOUS
<1>3. \A i \in 1..3 : Append(<<a,b>>,c)[i] = <<a,b,c>>[i]
  BY <1>1, <1>2
<1> QED BY <1>1, <1>2, <1>3, SeqEqual

(* The same, for the topics of shipments.                                  *)
LEMMA AppendTopics ==
    \A x, y, z \in ShipTopics : Append(<<x>>, y) = <<x, y>> /\ Append(<<x, y>>, z) = <<x, y, z>>
  BY AppendToOne, AppendToTwo

(* A move CanMove allows, announced by ShipEventFor, extends the history   *)
(* of the old status to one of the new.                                    *)
LEMMA MoveExtendsHistory ==
    ASSUME NEW from, NEW to, NEW h \in Seq(ShipTopics), History(from, h), Ful!CanMove(from, to)
    PROVE  /\ to \in Ful!ShipStatus /\ Ful!ShipEventFor(to) \in ShipTopics
           /\ Append(h, Ful!ShipEventFor(to)) \in Seq(ShipTopics)
           /\ History(to, Append(h, Ful!ShipEventFor(to)))
<1>1. CASE from = "PENDING" /\ to = "SHIPPED"
  <2>1. h = <<"shipment_created">>
    BY <1>1 DEF History
  <2>2. Ful!ShipEventFor(to) = "shipped"
    BY <1>1 DEF Ful!ShipEventFor
  <2>3. Append(h, Ful!ShipEventFor(to)) = <<"shipment_created", "shipped">>
    BY <2>1, <2>2, AppendTopics DEF ShipTopics
  <2>4. History(to, <<"shipment_created", "shipped">>)
    BY <1>1 DEF History
  <2>5. to \in Ful!ShipStatus /\ Ful!ShipEventFor(to) \in ShipTopics
    BY <1>1, <2>2 DEF Ful!ShipStatus, ShipTopics
  <2>6. Append(h, Ful!ShipEventFor(to)) \in Seq(ShipTopics)
    BY <2>5
  <2> QED
    BY <2>3, <2>4, <2>5, <2>6
<1>2. CASE from = "PENDING" /\ to = "CANCELLED"
  <2>1. h = <<"shipment_created">>
    BY <1>2 DEF History
  <2>2. Ful!ShipEventFor(to) = "cancelled"
    BY <1>2 DEF Ful!ShipEventFor
  <2>3. Append(h, Ful!ShipEventFor(to)) = <<"shipment_created", "cancelled">>
    BY <2>1, <2>2, AppendTopics DEF ShipTopics
  <2>4. History(to, <<"shipment_created", "cancelled">>)
    BY <1>2 DEF History
  <2>5. to \in Ful!ShipStatus /\ Ful!ShipEventFor(to) \in ShipTopics
    BY <1>2, <2>2 DEF Ful!ShipStatus, ShipTopics
  <2>6. Append(h, Ful!ShipEventFor(to)) \in Seq(ShipTopics)
    BY <2>5
  <2> QED
    BY <2>3, <2>4, <2>5, <2>6
<1>3. CASE from = "SHIPPED" /\ to = "DELIVERED"
  <2>1. h = <<"shipment_created", "shipped">>
    BY <1>3 DEF History
  <2>2. Ful!ShipEventFor(to) = "delivered"
    BY <1>3 DEF Ful!ShipEventFor
  <2>3. Append(h, Ful!ShipEventFor(to)) = <<"shipment_created", "shipped", "delivered">>
    BY <2>1, <2>2, AppendTopics DEF ShipTopics
  <2>4. History(to, <<"shipment_created", "shipped", "delivered">>)
    BY <1>3 DEF History
  <2>5. to \in Ful!ShipStatus /\ Ful!ShipEventFor(to) \in ShipTopics
    BY <1>3, <2>2 DEF Ful!ShipStatus, ShipTopics
  <2>6. Append(h, Ful!ShipEventFor(to)) \in Seq(ShipTopics)
    BY <2>5
  <2> QED
    BY <2>3, <2>4, <2>5, <2>6
<1>4. CASE from = "SHIPPED" /\ to = "CANCELLED"
  <2>1. h = <<"shipment_created", "shipped">>
    BY <1>4 DEF History
  <2>2. Ful!ShipEventFor(to) = "cancelled"
    BY <1>4 DEF Ful!ShipEventFor
  <2>3. Append(h, Ful!ShipEventFor(to)) = <<"shipment_created", "shipped", "cancelled">>
    BY <2>1, <2>2, AppendTopics DEF ShipTopics
  <2>4. History(to, <<"shipment_created", "shipped", "cancelled">>)
    BY <1>4 DEF History
  <2>5. to \in Ful!ShipStatus /\ Ful!ShipEventFor(to) \in ShipTopics
    BY <1>4, <2>2 DEF Ful!ShipStatus, ShipTopics
  <2>6. Append(h, Ful!ShipEventFor(to)) \in Seq(ShipTopics)
    BY <2>5
  <2> QED
    BY <2>3, <2>4, <2>5, <2>6
<1> QED
  BY <1>1, <1>2, <1>3, <1>4 DEF Ful!CanMove

(* Store.Transition keeps the histories, whoever asks for it.              *)
LEMMA TransitionKeeps ==
    ASSUME NEW o \in Orders, NEW s \in Shops, NEW to, ShipState, Ful!ShipTransition(o, s, to)
    PROVE  ShipState'
<1>1. CASE UNCHANGED <<shipment, shipEvents>>
  BY <1>1 DEF ShipState, History
<1>2. CASE /\ Ful!CanMove(shipment[o][s], to)
           /\ shipment' = [shipment EXCEPT ![o][s] = to]
           /\ shipEvents' = [shipEvents EXCEPT ![o][s] = Append(@, Ful!ShipEventFor(to))]
  <2> DEFINE h == Append(shipEvents[o][s], Ful!ShipEventFor(to))
  <2>1. to \in Ful!ShipStatus /\ h \in Seq(ShipTopics) /\ History(to, h)
    BY <1>2, MoveExtendsHistory DEF ShipState
  <2>2. shipment' \in [Orders -> [Shops -> Ful!ShipStatus \cup {"NONE"}]]
    BY <1>2, <2>1 DEF ShipState
  <2>3. shipEvents' \in [Orders -> [Shops -> Seq(ShipTopics)]]
    BY <1>2, <2>1 DEF ShipState
  <2>4. ASSUME NEW x \in Orders, NEW y \in Shops
        PROVE  History(shipment'[x][y], shipEvents'[x][y])
    <3>1. CASE x = o /\ y = s
      BY <1>2, <2>1, <3>1 DEF ShipState
    <3>2. CASE ~(x = o /\ y = s)
      <4>1. shipment'[x][y] = shipment[x][y] /\ shipEvents'[x][y] = shipEvents[x][y]
        BY <1>2, <3>2 DEF ShipState
      <4> QED BY <4>1 DEF ShipState
    <3> QED BY <3>1, <3>2
  <2> QED BY <2>2, <2>3, <2>4 DEF ShipState, History
<1> QED
  BY <1>1, <1>2 DEF Ful!ShipTransition

(* CreateFromOrder inserts the missing shipments, each with one event.     *)
LEMMA CreateKeeps ==
    ASSUME NEW r \in confirmed, FulInv, Ful!CreateShipments(r)
    PROVE  ShipState'
<1> DEFINE o == r.order
           new == {s \in Ful!ShipmentGroups(o) : shipment[o][s] = "NONE"}
           st == [s \in Shops |-> IF s \in new THEN "PENDING" ELSE shipment[o][s]]
           ev == [s \in Shops |-> IF s \in new THEN <<"shipment_created">> ELSE shipEvents[o][s]]
<1>1. o \in Orders
  BY DEF FulInv, CommonTypeOK
<1>2. shipment' = [shipment EXCEPT ![o] = st] /\ shipEvents' = [shipEvents EXCEPT ![o] = ev]
  BY DEF Ful!CreateShipments
<1>3. st \in [Shops -> Ful!ShipStatus \cup {"NONE"}] /\ ev \in [Shops -> Seq(ShipTopics)]
  <2>1. <<"shipment_created">> \in Seq(ShipTopics)
    BY DEF ShipTopics
  <2> QED
    BY <1>1, <2>1 DEF FulInv, ShipState, Ful!ShipStatus
<1>4. \A s \in Shops : History(st[s], ev[s])
  BY <1>1 DEF FulInv, ShipState, History
<1>5. shipment' \in [Orders -> [Shops -> Ful!ShipStatus \cup {"NONE"}]] /\ shipEvents' \in [Orders -> [Shops -> Seq(ShipTopics)]]
  BY <1>1, <1>2, <1>3 DEF FulInv, ShipState
<1>6. ASSUME NEW x \in Orders, NEW y \in Shops
      PROVE  History(shipment'[x][y], shipEvents'[x][y])
  <2>1. CASE x = o
    BY <1>1, <1>2, <1>4, <2>1 DEF FulInv, ShipState
  <2>2. CASE x # o
    <3>1. shipment'[x][y] = shipment[x][y] /\ shipEvents'[x][y] = shipEvents[x][y]
      BY <1>1, <1>2, <2>2 DEF FulInv, ShipState
    <3> QED BY <3>1 DEF FulInv, ShipState
  <2> QED BY <2>1, <2>2
<1> QED BY <1>5, <1>6 DEF ShipState, History

(* Failed calls are counted in natural numbers.                            *)
TriesOK == \A x \in DOMAIN tries : tries[x] \in Nat

(* What is counted of failing calls stays a number, whoever counts.        *)
LEMMA TriesKept ==
    ASSUME TriesOK, \/ UNCHANGED tries
                    \/ \E svc, r : CallFails(svc, r) \/ CountForgotten(svc, r)
    PROVE  TriesOK'
<1>1. CASE UNCHANGED tries
  BY <1>1 DEF TriesOK
<1>2. ASSUME NEW svc, NEW r, CallFails(svc, r) PROVE TriesOK'
  <2>1. Tries(svc, r) \in Nat
    BY DEF Tries, TriesOK
  <2> QED
    BY <1>2, <2>1 DEF CallFails, TriesOK
<1>3. ASSUME NEW svc, NEW r, CountForgotten(svc, r) PROVE TriesOK'
  BY <1>3 DEF CountForgotten, TriesOK
<1> QED
  BY <1>1, <1>2, <1>3

(* The counts are touched by the consumers' calls only (handleRecord).     *)
LEMMA TriesStep == TriesOK /\ [Next]_vars => TriesOK'
<1> SUFFICES ASSUME TriesOK, [Next]_vars
             PROVE  \/ UNCHANGED tries
                    \/ \E svc, r : CallFails(svc, r) \/ CountForgotten(svc, r)
  BY TriesKept
<1>1. CASE FulfillmentStep
  BY <1>1 DEF FulfillmentStep, Fulfil, Operate, Sweep, Carry, CarrierStops, RecordFails, HandedOutAgain
<1>2. CASE PayoutStep
  BY <1>2 DEF PayoutStep, Owe, Finance, SettleSweep, SettleNext, SettleFails, RecordFails, HandedOutAgain
<1>3. CASE ReviewStep
  BY <1>3 DEF ReviewStep, Note, WriteReview, ModerateReview, RecordFails, HandedOutAgain
<1>4. CASE NotificationStep
  BY <1>4 DEF NotificationStep, Mail, MailFails, TestMail, HandedOutAgain
<1>5. CASE (\E o \in Orders : Publish(o)) \/ UNCHANGED vars
  BY <1>5 DEF Publish, vars
<1> QED
  BY <1>1, <1>2, <1>3, <1>4, <1>5 DEF Next

(* Every step keeps the histories: the carrier's, on however old a list,   *)
(* the operators' and the consumer's; the other services do not touch      *)
(* shipments.                                                              *)
LEMMA FulStep == FulInv /\ [Next]_vars => FulInv'
<1> SUFFICES ASSUME FulInv, [Next]_vars, TriesOK' PROVE FulInv'
  BY TriesStep DEF FulInv, CommonTypeOK, TriesOK
<1> USE AfterSaleConstants
<1> USE DEF TriesOK
<1>0. ASSUME UNCHANGED fulVars
      PROVE ShipState' /\ targets' \in [Carriers -> SUBSET Ful!AdvanceTarget] /\ fProcessed' = fProcessed
  <2>1. shipment' = shipment /\ shipEvents' = shipEvents /\ targets' = targets /\ fProcessed' = fProcessed
    BY <1>0 DEF fulVars
  <2>2. ShipState'
    BY <2>1 DEF FulInv, ShipState, History
  <2> QED
    BY <2>1, <2>2 DEF FulInv
<1>1. ASSUME UNCHANGED <<confirmed, up, fulVars>>, faults' = faults \/ Fault
      PROVE FulInv'
  <2>1. ShipState' /\ targets' \in [Carriers -> SUBSET Ful!AdvanceTarget] /\ fProcessed' = fProcessed
    BY <1>0, <1>1
  <2>2. faults' \in 0..MaxFaults
    BY <1>1 DEF FulInv, CommonTypeOK, Fault
  <2>3. CommonTypeOK'
    BY <1>1, <2>2 DEF FulInv, CommonTypeOK
  <2> QED
    BY <1>1, <2>1, <2>3 DEF FulInv
<1>2. ASSUME NEW o \in Orders, Publish(o) PROVE FulInv'
  <2>1. ShipState' /\ targets' \in [Carriers -> SUBSET Ful!AdvanceTarget] /\ fProcessed' = fProcessed
    BY <1>0, <1>2 DEF Publish
  <2>2. confirmed \subseteq confirmed' /\ CommonTypeOK'
    BY <1>2 DEF Publish, FulInv, CommonTypeOK
  <2> QED
    BY <2>1, <2>2 DEF FulInv
<1>3. CASE FulfillmentStep
  <2>1. ASSUME NEW r \in confirmed, Fulfil(r) PROVE FulInv'
    <3>1. ShipState'
      BY <2>1, CreateKeeps DEF Fulfil
    <3> QED
      BY <2>1, <3>1 DEF Fulfil, Ful!CreateShipments, FulInv, CommonTypeOK
  <2>2. ASSUME NEW p \in Principals, NEW o \in Orders, NEW s \in Shops, Operate(p, o, s) PROVE FulInv'
    <3>1. \E to \in {"SHIPPED", "DELIVERED", "CANCELLED"} : Ful!ShipTransition(o, s, to)
      BY <2>2 DEF Operate, Ful!MarkShipped, Ful!MarkDelivered, Ful!CancelShipment
    <3>2. UNCHANGED <<fProcessed, targets, confirmed, up, faults>>
      BY <2>2 DEF Operate, Ful!MarkShipped, Ful!MarkDelivered, Ful!CancelShipment
    <3>3. ShipState'
      BY <3>1, TransitionKeeps DEF FulInv
    <3> QED
      BY <3>2, <3>3 DEF FulInv, CommonTypeOK
  <2>3. ASSUME NEW c \in Carriers, NEW due \in SUBSET Ful!DueForAdvance, Sweep(c, due) PROVE FulInv'
    BY <2>3 DEF Sweep, Ful!CarrierSweep, Ful!DueForAdvance, FulInv, CommonTypeOK, ShipState, History
  <2>4. ASSUME NEW c \in Carriers, Carry(c) PROVE FulInv'
    <3>1. PICK t \in targets[c] : Ful!CarrierAdvance(c, t)
      BY <2>4 DEF Carry
    <3>2. t.order \in Orders /\ t.shop \in Shops
      BY <3>1 DEF FulInv, Ful!AdvanceTarget
    <3>3. ShipState'
      BY <3>1, <3>2, TransitionKeeps DEF Ful!CarrierAdvance, FulInv
    <3> QED
      BY <2>4, <3>1, <3>3 DEF Carry, Ful!CarrierAdvance, FulInv, CommonTypeOK
  <2>5. ASSUME NEW c \in Carriers, CarrierStops(c) PROVE FulInv'
    <3>1. UNCHANGED <<fProcessed, shipment, shipEvents, up, confirmed>> /\ faults' \in 0..MaxFaults
      BY <2>5 DEF CarrierStops, Ful!CarrierRestart, Fault, FulInv, CommonTypeOK
    <3>2. targets' \in [Carriers -> SUBSET Ful!AdvanceTarget]
      BY <2>5 DEF CarrierStops, Ful!CarrierRestart, FulInv
    <3>3. ShipState'
      BY <3>1 DEF FulInv, ShipState, History
    <3> QED
      BY <3>1, <3>2, <3>3 DEF FulInv, CommonTypeOK
  <2>6. ASSUME NEW r \in confirmed, RecordFails("fulfillment", r, fProcessed) \/ HandedOutAgain("fulfillment", r) PROVE FulInv'
    BY <1>1, <2>6 DEF RecordFails, HandedOutAgain
  <2> QED
    BY <1>3, <2>1, <2>2, <2>3, <2>4, <2>5, <2>6 DEF FulfillmentStep
<1>4. CASE PayoutStep
  BY <1>1, <1>4 DEF PayoutStep, Owe, Finance, SettleSweep, SettleNext, SettleFails, RecordFails, HandedOutAgain
<1>5. CASE ReviewStep
  BY <1>1, <1>5 DEF ReviewStep, Note, WriteReview, ModerateReview, RecordFails, HandedOutAgain
<1>6. CASE NotificationStep
  BY <1>1, <1>6 DEF NotificationStep, Mail, MailFails, TestMail, HandedOutAgain
<1>7. CASE UNCHANGED vars
  BY <1>1, <1>7 DEF vars
<1> QED
  BY <1>2, <1>3, <1>4, <1>5, <1>6, <1>7 DEF Next

(* The histories imply what the run checks, the bound on events included.  *)
LEMMA FulInvGivesHistory == FulInv => ShipmentHistory
<1> SUFFICES ASSUME FulInv PROVE ShipmentHistory
  OBVIOUS
<1>1. Ful!ShipmentHistory
  BY DEF FulInv, ShipState, History, Ful!ShipmentHistory
<1>2. ASSUME NEW o \in Orders, NEW s \in Shops
      PROVE  /\ Len(shipEvents[o][s]) <= 3
             /\ \A i \in 1..Len(shipEvents[o][s]) : shipEvents[o][s][i] \in ShipTopics
  <2>1. shipment[o][s] \in Ful!ShipStatus \cup {"NONE"} /\ shipEvents[o][s] \in Seq(ShipTopics)
    BY DEF FulInv, ShipState
  <2>2. History(shipment[o][s], shipEvents[o][s])
    BY DEF FulInv, ShipState
  <2>3. Len(shipEvents[o][s]) <= 3
    <3>1. shipEvents[o][s] \in {<<>>, <<"shipment_created">>, <<"shipment_created", "shipped">>,
             <<"shipment_created", "cancelled">>, <<"shipment_created", "shipped", "delivered">>,
             <<"shipment_created", "shipped", "cancelled">>}
      BY <2>1, <2>2 DEF History, Ful!ShipStatus
    <3>2. Len(<<>>) = 0
      OBVIOUS
    <3>3. \A x, y, z : Len(<<x>>) = 1 /\ Len(<<x, y>>) = 2 /\ Len(<<x, y, z>>) = 3
      OBVIOUS
    <3>4. Len(shipEvents[o][s]) \in 0..3
      BY <3>1, <3>2, <3>3
    <3>5. \A k \in 0..3 : k <= 3
      OBVIOUS
    <3> QED
      BY <3>4, <3>5, Zenon
  <2> QED
    BY <2>1, <2>3
<1>3. Ful!FulTypeOK
  BY <1>2 DEF FulInv, ShipState, Ful!FulTypeOK, Ful!ShipTopics, ShipTopics
<1> QED
  BY <1>1, <1>3 DEF ShipmentHistory, FulInv

(* Nothing has been shipped when the services start.                       *)
LEMMA FulStart == Init => FulInv
<1> SUFFICES ASSUME Init PROVE FulInv
  OBVIOUS
<1>1. CommonTypeOK /\ fProcessed \subseteq confirmed /\ targets \in [Carriers -> SUBSET Ful!AdvanceTarget]
  BY AfterSaleConstants DEF Init, Ful!FulInit, CommonTypeOK
<1>2. ShipState
  <2>1. <<>> \in Seq(ShipTopics)
    OBVIOUS
  <2>2. History("NONE", <<>>)
    BY DEF History
  <2>3. shipment = [o \in Orders |-> [s \in Shops |-> "NONE"]] /\ shipEvents = [o \in Orders |-> [s \in Shops |-> <<>>]]
    BY DEF Init, Ful!FulInit
  <2>4. \A o \in Orders, s \in Shops : shipment[o][s] = "NONE" /\ shipEvents[o][s] = <<>>
    BY <2>3
  <2>5. \A o \in Orders, s \in Shops : History(shipment[o][s], shipEvents[o][s])
    BY <2>2, <2>4
  <2>6. shipment \in [Orders -> [Shops -> Ful!ShipStatus \cup {"NONE"}]]
    BY <2>3
  <2>7. shipEvents \in [Orders -> [Shops -> Seq(ShipTopics)]]
    BY <2>1, <2>3
  <2> QED
    BY <2>5, <2>6, <2>7 DEF ShipState
<1> QED
  BY <1>1, <1>2 DEF FulInv

(* For any orders, shops, carriers and faults, what a shipment announced   *)
(* is exactly how it got where it is (CreateFromOrder, Transition).        *)
THEOREM ShipmentsTellHistory == Spec => []ShipmentHistory
BY FulStart, FulStep, FulInvGivesHistory, PTL DEF Spec

-----------------------------------------------------------------------------
(* Payouts: a row says what the shop's lines cost, the platform itself has *)
(* none, and an order that was processed has one for each of its           *)
(* marketplace shops.  Without the last two the sum over the shops could   *)
(* hide an amount credited to the wrong one.                               *)
PayoutRow(o, s) ==
    /\ owed[o][s] = IF payout[o][s] = "NONE" THEN 0 ELSE Po!GroupAmount(o, s)
    /\ payout[o][s] # "NONE" => s # FirstParty
    /\ poEvents[o][s].created = (IF payout[o][s] = "NONE" THEN 0 ELSE 1)
    /\ poEvents[o][s].paid = (IF payout[o][s] = "PAID" THEN 1 ELSE 0)

PoInv ==
    /\ Po!PoTypeOK
    /\ \A o \in Orders, s \in Shops : PayoutRow(o, s)
    /\ \A r \in poProcessed, s \in Shops :
         s \in ShopsOf[r.order] \ {FirstParty} => payout[r.order][s] # "NONE"

(* Payout's sums are the sums the lemmas are about.                        *)
LEMMA PayoutSums == \A f, S : Po!SumFunctionOnSet(f, S) = SumFunctionOnSet(f, S)
BY DEF Po!SumFunctionOnSet, Po!FoldFunctionOnSet, Po!MapThenFoldSet,
       SumFunctionOnSet, FoldFunctionOnSet, MapThenFoldSet

(* A shop's share of an order is an amount (groupsFrom).                   *)
LEMMA GroupAmountType == ASSUME NEW o \in Orders, NEW s PROVE Po!GroupAmount(o, s) \in Nat
<1> DEFINE f == [l \in Lines[o] |-> l.total]
           S == {l \in Lines[o] : l.shop = s}
<1>1. IsFiniteSet(S)
  BY AfterSaleConstants, FS_Subset
<1>2. \A l \in S : f[l] \in Nat
  BY AfterSaleConstants
<1>3. SumFunctionOnSet(f, S) \in Nat
  <2> HIDE DEF f, S
  <2> QED
    BY <1>1, <1>2, SumType
<1> QED
  BY <1>3, PayoutSums DEF Po!GroupAmount

(* Only the row that is settled changes, and only from PENDING to PAID     *)
(* (MarkPaid under the row lock).                                          *)
LEMMA SettleKeeps ==
    ASSUME NEW o \in Orders, NEW s \in Shops, PoInv, Po!Settle(o, s),
           poProcessed' = poProcessed, owed' = owed, confirmed' = confirmed,
           toSettle' \in [Settlers -> SUBSET (Orders \X Shops)]
    PROVE  PoInv'
<1>1. CASE UNCHANGED <<payout, poEvents>>
  BY <1>1 DEF PoInv, PayoutRow, Po!PoTypeOK, Po!GroupAmount
<1>2. CASE /\ payout[o][s] = "PENDING"
           /\ payout' = [payout EXCEPT ![o][s] = "PAID"]
           /\ poEvents' = [poEvents EXCEPT ![o][s].paid = @ + 1]
  <2>1. payout \in [Orders -> [Shops -> {"NONE", "PENDING", "PAID"}]] /\ poEvents \in [Orders -> [Shops -> [created : Nat, paid : Nat]]]
    BY DEF PoInv, Po!PoTypeOK
  <2>2. PayoutRow(o, s)
    BY DEF PoInv
  <2>3. poEvents[o][s] \in [created : Nat, paid : Nat] /\ poEvents'[o][s] = [poEvents[o][s] EXCEPT !.paid = @ + 1]
    BY <1>2, <2>1
  <2>4. poEvents'[o][s].created = 1 /\ poEvents'[o][s].paid = 1
    BY <1>2, <2>2, <2>3 DEF PayoutRow
  <2>5. payout' \in [Orders -> [Shops -> {"NONE", "PENDING", "PAID"}]]
    BY <1>2, <2>1
  <2>6. poEvents' \in [Orders -> [Shops -> [created : Nat, paid : Nat]]]
    <3>1. [poEvents[o][s] EXCEPT !.paid = @ + 1] \in [created : Nat, paid : Nat]
      BY <2>3
    <3> QED
      BY <1>2, <2>1, <3>1
  <2>7. Po!PoTypeOK'
    BY <2>5, <2>6 DEF PoInv, Po!PoTypeOK
  <2>8. ASSUME NEW x \in Orders, NEW y \in Shops PROVE PayoutRow(x, y)'
    <3>1. CASE x = o /\ y = s
      BY <1>2, <2>1, <2>2, <2>4, <3>1 DEF PayoutRow, Po!GroupAmount
    <3>2. CASE ~(x = o /\ y = s)
      <4>1. payout'[x][y] = payout[x][y] /\ poEvents'[x][y] = poEvents[x][y]
        BY <1>2, <2>1, <3>2
      <4>2. PayoutRow(x, y)
        BY DEF PoInv
      <4>3. Po!GroupAmount(x, y)' = Po!GroupAmount(x, y) /\ owed'[x][y] = owed[x][y]
        BY DEF Po!GroupAmount
      <4> QED
        BY <4>1, <4>2, <4>3 DEF PayoutRow
    <3> QED
      BY <3>1, <3>2
  <2>9. \A x \in Orders, y \in Shops : payout[x][y] # "NONE" => payout'[x][y] # "NONE"
    BY <1>2, <2>1
  <2>10. ASSUME NEW r \in poProcessed, NEW y \in Shops, y \in ShopsOf[r.order] \ {FirstParty}
         PROVE  payout'[r.order][y] # "NONE"
    <3>1. payout[r.order][y] # "NONE"
      BY <2>10 DEF PoInv
    <3> QED
      BY <1>2, <2>1, <3>1
  <2> QED
    BY <2>7, <2>8, <2>10 DEF PoInv
<1> QED
  BY <1>1, <1>2 DEF Po!Settle

(* CreateFromOrder writes the missing rows of the order, and none twice.   *)
LEMMA PayoutsKeep ==
    ASSUME NEW r \in confirmed, CommonTypeOK, PoInv, Po!CreatePayouts(r), confirmed' = confirmed
    PROVE  PoInv'
<1> DEFINE o == r.order
           new == {s \in Shops \ {FirstParty} : payout[o][s] = "NONE" /\ \E l \in Lines[o] : l.shop = s}
           pay == [s \in Shops |-> IF s \in new THEN "PENDING" ELSE payout[o][s]]
           amounts == [s \in Shops |-> IF s \in new THEN Po!GroupAmount(o, s) ELSE owed[o][s]]
           events == [s \in Shops |-> IF s \in new THEN [created |-> poEvents[o][s].created + 1, paid |-> 0] ELSE poEvents[o][s]]
<1>1. o \in Orders
  BY DEF CommonTypeOK
<1>2. /\ payout' = [payout EXCEPT ![o] = pay] /\ owed' = [owed EXCEPT ![o] = amounts]
      /\ poEvents' = [poEvents EXCEPT ![o] = events]
      /\ poProcessed' = poProcessed \cup {r} /\ toSettle' = toSettle
  BY DEF Po!CreatePayouts
<1>3. /\ payout \in [Orders -> [Shops -> {"NONE", "PENDING", "PAID"}]] /\ owed \in [Orders -> [Shops -> Nat]]
      /\ poEvents \in [Orders -> [Shops -> [created : Nat, paid : Nat]]]
      /\ poProcessed \subseteq confirmed /\ toSettle \in [Settlers -> SUBSET (Orders \X Shops)]
  BY DEF PoInv, Po!PoTypeOK
<1>4. pay \in [Shops -> {"NONE", "PENDING", "PAID"}]
  BY <1>1, <1>3
<1>5. amounts \in [Shops -> Nat]
  BY <1>1, <1>3, GroupAmountType
<1>6. events \in [Shops -> [created : Nat, paid : Nat]]
  <2>1. \A s \in Shops : poEvents[o][s] \in [created : Nat, paid : Nat]
    BY <1>1, <1>3
  <2>2. \A s \in Shops : [created |-> poEvents[o][s].created + 1, paid |-> 0] \in [created : Nat, paid : Nat]
    BY <2>1
  <2> QED
    BY <2>1, <2>2
<1>7. ASSUME NEW y \in Shops
      PROVE  /\ amounts[y] = IF pay[y] = "NONE" THEN 0 ELSE Po!GroupAmount(o, y)
             /\ pay[y] # "NONE" => y # FirstParty
             /\ events[y].created = (IF pay[y] = "NONE" THEN 0 ELSE 1)
             /\ events[y].paid = (IF pay[y] = "PAID" THEN 1 ELSE 0)
  <2>1. PayoutRow(o, y)
    BY <1>1 DEF PoInv
  <2>2. CASE y \in new
    <3>1. poEvents[o][y].created = 0
      BY <2>1, <2>2 DEF PayoutRow
    <3> QED
      BY <2>1, <2>2, <3>1 DEF PayoutRow
  <2>3. CASE y \notin new
    BY <2>1, <2>3 DEF PayoutRow
  <2> QED
    BY <2>2, <2>3
<1>8. \A y \in Shops : /\ payout[o][y] # "NONE" => pay[y] # "NONE"
                       /\ y \in ShopsOf[o] \ {FirstParty} => pay[y] # "NONE"
  BY <1>1 DEF ShopsOf
<1> HIDE DEF pay, amounts, events, new
<1>9. Po!PoTypeOK'
  BY <1>1, <1>2, <1>3, <1>4, <1>5, <1>6 DEF Po!PoTypeOK
<1>10. ASSUME NEW x \in Orders, NEW y \in Shops PROVE PayoutRow(x, y)'
  <2>1. CASE x = o
    <3>1. payout'[x][y] = pay[y] /\ owed'[x][y] = amounts[y] /\ poEvents'[x][y] = events[y]
      BY <1>1, <1>2, <1>3, <2>1
    <3> QED
      BY <1>7, <2>1, <3>1 DEF PayoutRow, Po!GroupAmount
  <2>2. CASE x # o
    <3>1. payout'[x][y] = payout[x][y] /\ owed'[x][y] = owed[x][y] /\ poEvents'[x][y] = poEvents[x][y]
      BY <1>1, <1>2, <1>3, <2>2
    <3> QED
      BY <3>1 DEF PoInv, PayoutRow, Po!GroupAmount
  <2> QED
    BY <2>1, <2>2
<1>11. ASSUME NEW q \in poProcessed', NEW y \in Shops, y \in ShopsOf[q.order] \ {FirstParty}
       PROVE  payout'[q.order][y] # "NONE"
  <2>1. q \in confirmed /\ q.order \in Orders
    BY <1>2, <1>3 DEF CommonTypeOK
  <2>2. CASE q.order = o
    BY <1>1, <1>2, <1>3, <1>8, <1>11, <2>2
  <2>3. CASE q.order # o
    <3>1. q \in poProcessed
      BY <1>2, <2>3
    <3>2. payout[q.order][y] # "NONE"
      BY <1>11, <3>1 DEF PoInv
    <3> QED
      BY <1>1, <1>2, <1>3, <2>1, <2>3, <3>2
  <2> QED
    BY <2>2, <2>3
<1> QED
  BY <1>9, <1>10, <1>11 DEF PoInv

(* Every step keeps the payouts right.                                     *)
LEMMA PoStep == FulInv /\ PoInv /\ [Next]_vars => PoInv'
<1> SUFFICES ASSUME FulInv, PoInv, [Next]_vars PROVE PoInv'
  OBVIOUS
<1>1. ASSUME UNCHANGED <<poProcessed, payout, owed, poEvents>>, confirmed \subseteq confirmed',
             toSettle' \in [Settlers -> SUBSET (Orders \X Shops)]
      PROVE  PoInv'
  BY <1>1 DEF PoInv, PayoutRow, Po!PoTypeOK, Po!GroupAmount
<1>2. toSettle \in [Settlers -> SUBSET (Orders \X Shops)]
  BY DEF PoInv, Po!PoTypeOK
<1>3. CASE PayoutStep
  <2>1. ASSUME NEW r \in confirmed, Owe(r) PROVE PoInv'
    BY <2>1, PayoutsKeep DEF Owe, FulInv
  <2>2. ASSUME NEW p \in Principals, NEW o \in Orders, NEW s \in Shops, Finance(p, o, s) PROVE PoInv'
    BY <1>2, <2>2, SettleKeeps DEF Finance, Po!MarkPaid
  <2>3. ASSUME NEW w \in Settlers, NEW due \in SUBSET Po!DuePayoutIDs, SettleSweep(w, due) PROVE PoInv'
    BY <1>1, <1>2, <2>3 DEF SettleSweep, Po!SettlementSweep, Po!DuePayoutIDs
  <2>4. ASSUME NEW w \in Settlers, SettleNext(w) PROVE PoInv'
    <3>1. PICK x \in toSettle[w] : Po!SettlementStep(w, x)
      BY <2>4 DEF SettleNext
    <3>2. x[1] \in Orders /\ x[2] \in Shops
      BY <1>2, <3>1
    <3>3. toSettle' \in [Settlers -> SUBSET (Orders \X Shops)]
      BY <1>2, <3>1 DEF Po!SettlementStep
    <3> QED
      BY <2>4, <3>1, <3>2, <3>3, SettleKeeps DEF SettleNext, Po!SettlementStep
  <2>5. ASSUME NEW w \in Settlers, SettleFails(w) PROVE PoInv'
    BY <1>1, <1>2, <2>5 DEF SettleFails, Po!SettlementFails
  <2>6. ASSUME NEW r \in confirmed, RecordFails("payout", r, poProcessed) \/ HandedOutAgain("payout", r) PROVE PoInv'
    BY <1>1, <1>2, <2>6 DEF RecordFails, HandedOutAgain, poVars
  <2> QED
    BY <1>3, <2>1, <2>2, <2>3, <2>4, <2>5, <2>6 DEF PayoutStep
<1>4. ASSUME UNCHANGED poVars, confirmed \subseteq confirmed' PROVE PoInv'
  BY <1>1, <1>2, <1>4 DEF poVars
<1>5. CASE \E o \in Orders : Publish(o)
  BY <1>4, <1>5 DEF Publish
<1>6. CASE FulfillmentStep
  BY <1>4, <1>6 DEF FulfillmentStep, Fulfil, Operate, Sweep, Carry, CarrierStops, RecordFails, HandedOutAgain
<1>7. CASE ReviewStep
  BY <1>4, <1>7 DEF ReviewStep, Note, WriteReview, ModerateReview, RecordFails, HandedOutAgain
<1>8. CASE NotificationStep
  BY <1>4, <1>8 DEF NotificationStep, Mail, MailFails, TestMail, HandedOutAgain
<1>9. CASE UNCHANGED vars
  BY <1>4, <1>9 DEF vars
<1> QED
  BY <1>3, <1>5, <1>6, <1>7, <1>8, <1>9 DEF Next

(* The rows of a processed order add up to its marketplace lines: the      *)
(* lines are grouped by shop, and the platform's own shop is owed nothing. *)
LEMMA RowsAddUp ==
    ASSUME CommonTypeOK, PoInv, NEW r \in poProcessed
    PROVE  SumFunctionOnSet(owed[r.order], Shops)
             = SumFunctionOnSet([l \in Lines[r.order] |-> l.total], {l \in Lines[r.order] : l.shop # FirstParty})
<1> DEFINE o == r.order
           f == [l \in Lines[o] |-> l.total]
           M == {l \in Lines[o] : l.shop # FirstParty}
           G == Shops \ {FirstParty}
           k == [l \in M |-> l.shop]
           g == owed[o]
<1>1. o \in Orders /\ g \in [Shops -> Nat]
  BY DEF CommonTypeOK, PoInv, Po!PoTypeOK
<1>2. IsFiniteSet(Shops) /\ IsFiniteSet(G) /\ IsFiniteSet(M) /\ \A l \in M : f[l] \in Int
  BY <1>1, AfterSaleConstants, FS_Subset
<1>3. k \in [M -> G]
  <2>1. ShopsOf[o] \subseteq Shops /\ \A l \in Lines[o] : l.shop \in ShopsOf[o]
    BY <1>1, AfterSaleConstants DEF ShopsOf
  <2> QED
    BY <2>1
<1>4. ASSUME NEW s \in G PROVE g[s] = SumFunctionOnSet(f, {x \in M : k[x] = s})
  <2>1. {x \in M : k[x] = s} = {l \in Lines[o] : l.shop = s}
    OBVIOUS
  <2>2. Po!GroupAmount(o, s) = SumFunctionOnSet(f, {x \in M : k[x] = s})
    BY <2>1, PayoutSums DEF Po!GroupAmount
  <2>3. PayoutRow(o, s)
    BY <1>1 DEF PoInv
  <2>4. CASE s \in ShopsOf[o]
    BY <2>2, <2>3, <2>4 DEF PoInv, PayoutRow
  <2>5. CASE s \notin ShopsOf[o]
    <3>1. {x \in M : k[x] = s} = {}
      BY <1>1, <2>5 DEF ShopsOf
    <3>2. SumFunctionOnSet(f, {x \in M : k[x] = s}) = 0
      BY <3>1, SumEmpty
    <3> QED
      BY <2>2, <2>3, <3>2 DEF PayoutRow
  <2> QED
    BY <2>4, <2>5
<1>5. FirstParty \in Shops => g[FirstParty] = 0
  BY <1>1 DEF PoInv, PayoutRow
<1> HIDE DEF f, M, G, k, g
<1>6. SumFunctionOnSet(g, G) = SumFunctionOnSet(f, M)
  <2>1. \A x \in M : f[x] \in Int
    BY <1>2
  <2>2. IsFiniteSet(M) /\ IsFiniteSet(G)
    BY <1>2
  <2>3. \A s \in G : g[s] = SumFunctionOnSet(f, {x \in M : k[x] = s})
    BY <1>4
  <2> QED
    BY <1>3, <2>1, <2>2, <2>3, SumByGroup
<1>7. SumFunctionOnSet(g, Shops) = SumFunctionOnSet(g, G)
  <2>1. CASE FirstParty \in Shops
    <3>1. SumFunctionOnSet(g, Shops) = g[FirstParty] + SumFunctionOnSet(g, Shops \ {FirstParty})
      BY <1>1, <1>2, <2>1, SumRemove
    <3>2. SumFunctionOnSet(g, Shops \ {FirstParty}) \in Nat
      BY <1>1, <1>2, SumType DEF G
    <3> QED
      BY <1>5, <2>1, <3>1, <3>2 DEF G
  <2>2. CASE FirstParty \notin Shops
    <3>1. G = Shops
      BY <2>2 DEF G
    <3> QED
      BY <3>1
  <2> QED
    BY <2>1, <2>2
<1> QED
  BY <1>6, <1>7 DEF f, M, g

(* For any orders, lines and shops, the shops are owed together exactly    *)
(* what their lines of a confirmed order cost and every payout is paid at  *)
(* most once, through redelivered records, two sweeps on stale lists and   *)
(* finance in between (CreateFromOrder, MarkPaid).                         *)
THEOREM ShopsArePaid == Spec => []ShopsPaidTheirLines
<1>1. Init => FulInv /\ PoInv
  <2> SUFFICES ASSUME Init PROVE PoInv
    BY FulStart
  <2>1. /\ poProcessed = {} /\ payout = [o \in Orders |-> [s \in Shops |-> "NONE"]]
        /\ owed = [o \in Orders |-> [s \in Shops |-> 0]]
        /\ poEvents = [o \in Orders |-> [s \in Shops |-> [created |-> 0, paid |-> 0]]]
        /\ toSettle = [w \in Settlers |-> {}]
    BY DEF Init, Po!PoInit
  <2>2. Po!PoTypeOK
    BY <2>1 DEF Po!PoTypeOK
  <2>3. \A o \in Orders, s \in Shops : PayoutRow(o, s)
    BY <2>1 DEF PayoutRow
  <2> QED
    BY <2>1, <2>2, <2>3 DEF PoInv
<1>2. FulInv /\ PoInv => ShopsPaidTheirLines
  <2> SUFFICES ASSUME FulInv, PoInv PROVE ShopsPaidTheirLines
    OBVIOUS
  <2>1. Po!ShopsOwedTheirLines
    BY RowsAddUp, PayoutSums DEF FulInv, Po!ShopsOwedTheirLines
  <2>2. Po!PaidOnce
    BY DEF PoInv, PayoutRow, Po!PaidOnce
  <2> QED
    BY <2>1, <2>2 DEF PoInv, ShopsPaidTheirLines
<1> QED
  BY <1>1, <1>2, FulStep, PoStep, PTL DEF Spec

-----------------------------------------------------------------------------
(* Reviews: a purchase on file goes back to a confirmed order, a call that *)
(* passed the check to a purchase on file, and a review to both; its       *)
(* announcements alternate from its first status to its present one.       *)
Bought(a, p) == \E r \in confirmed : OwnerOf[r.order] = a /\ p \in ProductsOf[r.order]

ReviewRow(status, given, h) ==
    /\ status # "NONE" => given \in 1..5
    /\ Len(h) <= MaxModerations + 1
    /\ \A i \in 1..Len(h) : h[i] = (IF i % 2 = 1 THEN "published" ELSE "hidden")
    /\ (Len(h) % 2 = 1) <=> (status = "PUBLISHED")
    /\ (Len(h) = 0) <=> (status = "NONE")

RevTables ==
    /\ review \in [Principals -> [Products -> {"NONE", "PUBLISHED", "HIDDEN"}]]
    /\ rating \in [Principals -> [Products -> 0..5]]
    /\ reviewEvents \in [Principals -> [Products -> Seq({"published", "hidden"})]]
    /\ \A a \in Principals, p \in Products : ReviewRow(review[a][p], rating[a][p], reviewEvents[a][p])

RevInv ==
    /\ rProcessed \subseteq confirmed
    /\ purchases \subseteq Principals \X Products
    /\ drafts \subseteq Principals \X Products \X Ratings
    /\ \A x \in purchases : Bought(x[1], x[2])
    /\ \A d \in drafts : <<d[1], d[2]>> \in purchases /\ d[3] \in 1..5
    /\ \A a \in Principals, p \in Products : review[a][p] # "NONE" => Bought(a, p)
    /\ RevTables

(* Writing one review's row keeps the table, if the new row is right.      *)
LEMMA RowWritten ==
    ASSUME RevTables, NEW a \in Principals, NEW p \in Products,
           NEW st \in {"NONE", "PUBLISHED", "HIDDEN"}, NEW n \in 0..5, NEW h \in Seq({"published", "hidden"}),
           ReviewRow(st, n, h),
           review' = [review EXCEPT ![a][p] = st], rating' = [rating EXCEPT ![a][p] = n],
           reviewEvents' = [reviewEvents EXCEPT ![a][p] = h]
    PROVE  RevTables'
<1>1. /\ review \in [Principals -> [Products -> {"NONE", "PUBLISHED", "HIDDEN"}]]
      /\ rating \in [Principals -> [Products -> 0..5]]
      /\ reviewEvents \in [Principals -> [Products -> Seq({"published", "hidden"})]]
  BY DEF RevTables
<1>2. review' \in [Principals -> [Products -> {"NONE", "PUBLISHED", "HIDDEN"}]]
  BY <1>1
<1>3. rating' \in [Principals -> [Products -> 0..5]]
  BY <1>1
<1>4. reviewEvents' \in [Principals -> [Products -> Seq({"published", "hidden"})]]
  BY <1>1
<1>5. ASSUME NEW b \in Principals, NEW q \in Products
      PROVE  ReviewRow(review'[b][q], rating'[b][q], reviewEvents'[b][q])
  <2>1. CASE b = a /\ q = p
    <3>1. review'[b][q] = st /\ rating'[b][q] = n /\ reviewEvents'[b][q] = h
      BY <1>1, <2>1
    <3> QED
      BY <3>1
  <2>2. CASE ~(b = a /\ q = p)
    <3>1. review'[b][q] = review[b][q] /\ rating'[b][q] = rating[b][q] /\ reviewEvents'[b][q] = reviewEvents[b][q]
      BY <1>1, <2>2
    <3>2. ReviewRow(review[b][q], rating[b][q], reviewEvents[b][q])
      BY DEF RevTables
    <3> QED
      BY <3>1, <3>2
  <2> QED
    BY <2>1, <2>2
<1> QED
  BY <1>2, <1>3, <1>4, <1>5 DEF RevTables, ReviewRow

(* The outbox row of a moderation continues the alternation (Moderate).    *)
LEMMA ModerationAlternates ==
    ASSUME NEW st \in {"NONE", "PUBLISHED", "HIDDEN"}, NEW n \in 0..5, NEW h \in Seq({"published", "hidden"}),
           NEW to \in {"PUBLISHED", "HIDDEN"}, ReviewRow(st, n, h), st \notin {"NONE", to},
           Len(h) <= MaxModerations
    PROVE  LET e == IF to = "PUBLISHED" THEN "published" ELSE "hidden" IN
           Append(h, e) \in Seq({"published", "hidden"}) /\ ReviewRow(to, n, Append(h, e))
<1> DEFINE e == IF to = "PUBLISHED" THEN "published" ELSE "hidden"
           H == Append(h, e)
<1>1. /\ e \in {"published", "hidden"} /\ H \in Seq({"published", "hidden"})
      /\ Len(h) \in Nat /\ Len(H) = Len(h) + 1 /\ H[Len(h) + 1] = e
      /\ \A i \in 1..Len(h) : H[i] = h[i]
  OBVIOUS
<1>2. \A m \in Nat : ((m + 1) % 2 = 1) <=> ~(m % 2 = 1)
  OBVIOUS
<1>3. (Len(H) % 2 = 1) <=> (to = "PUBLISHED")
  BY <1>1, <1>2 DEF ReviewRow
<1>4. e = (IF Len(H) % 2 = 1 THEN "published" ELSE "hidden")
  BY <1>3
<1>5. ASSUME NEW i \in 1..Len(H) PROVE H[i] = (IF i % 2 = 1 THEN "published" ELSE "hidden")
  <2>1. CASE i = Len(H)
    BY <1>1, <1>4, <2>1
  <2>2. CASE i # Len(H)
    <3>1. i \in 1..Len(h)
      BY <1>1, <2>2
    <3>2. h[i] = (IF i % 2 = 1 THEN "published" ELSE "hidden")
      BY <3>1 DEF ReviewRow
    <3> QED
      BY <1>1, <3>1, <3>2
  <2> QED
    BY <2>1, <2>2
<1>6. Len(H) # 0 /\ Len(H) <= MaxModerations + 1
  BY <1>1, AfterSaleConstants
<1>7. n \in 1..5 /\ to # "NONE"
  BY DEF ReviewRow
<1> HIDE DEF H, e
<1>8. ReviewRow(to, n, H)
  BY <1>3, <1>5, <1>6, <1>7 DEF ReviewRow
<1> QED
  BY <1>1, <1>8 DEF H, e

(* Every step keeps the reviews right: two calls of one author that both   *)
(* passed the check, purchases that arrive again and moderators included.  *)
LEMMA RevStep == FulInv /\ RevInv /\ [Next]_vars => RevInv'
<1> SUFFICES ASSUME FulInv, RevInv, [Next]_vars PROVE RevInv'
  OBVIOUS
<1>1. ASSUME UNCHANGED <<review, rating, reviewEvents>> PROVE RevTables'
  <2>1. \A a \in Principals, p \in Products : ReviewRow(review[a][p], rating[a][p], reviewEvents[a][p])
    BY DEF RevInv, RevTables
  <2>2. review' = review /\ rating' = rating /\ reviewEvents' = reviewEvents
    BY <1>1
  <2>3. \A a \in Principals, p \in Products : ReviewRow(review'[a][p], rating'[a][p], reviewEvents'[a][p])
    BY <2>1, <2>2
  <2> QED
    BY <2>2, <2>3 DEF RevInv, RevTables, ReviewRow
<1>2. ASSUME confirmed \subseteq confirmed', NEW a, NEW p, Bought(a, p) PROVE Bought(a, p)'
  BY <1>2 DEF Bought
<1>3. ASSUME UNCHANGED revVars, confirmed \subseteq confirmed' PROVE RevInv'
  <2>1. /\ rProcessed' = rProcessed /\ purchases' = purchases /\ drafts' = drafts
        /\ review' = review /\ rating' = rating /\ reviewEvents' = reviewEvents
    BY <1>3 DEF revVars
  <2>2. \A x \in purchases : Bought(x[1], x[2])'
    BY <1>2, <1>3 DEF RevInv
  <2>3. \A a \in Principals, p \in Products : review[a][p] # "NONE" => Bought(a, p)'
    BY <1>2, <1>3 DEF RevInv
  <2> QED
    BY <1>1, <1>3, <2>1, <2>2, <2>3 DEF RevInv
<1>4. CASE ReviewStep
  <2>1. ASSUME NEW r \in confirmed, Note(r) PROVE RevInv'
    <3>1. /\ rProcessed' = rProcessed \cup {r}
          /\ purchases' = purchases \cup ({OwnerOf[r.order]} \X ProductsOf[r.order])
          /\ UNCHANGED <<confirmed, drafts, review, rating, reviewEvents>>
      BY <2>1 DEF Note, Rev!RecordPurchases
    <3>2. r.order \in Orders
      BY DEF FulInv, CommonTypeOK
    <3>3. OwnerOf[r.order] \in Principals /\ ProductsOf[r.order] \subseteq Products
      BY <3>2, AfterSaleConstants DEF ProductsOf, Products
    <3>4. ASSUME NEW x \in purchases' PROVE Bought(x[1], x[2])'
      BY <3>1 DEF RevInv, Bought
    <3>5. \A a \in Principals, p \in Products : review'[a][p] # "NONE" => Bought(a, p)'
      BY <3>1 DEF RevInv, Bought
    <3>6. RevTables'
      BY <1>1, <3>1
    <3>7. purchases' \subseteq Principals \X Products /\ purchases \subseteq purchases'
      BY <3>1, <3>3 DEF RevInv
    <3> QED
      BY <3>1, <3>4, <3>5, <3>6, <3>7 DEF RevInv
  <2>2. ASSUME NEW a \in Principals, NEW p \in Products, NEW n \in Ratings, WriteReview(a, p, n) PROVE RevInv'
    <3>1. CASE Rev!CreateReview(a, p, n)
      <4>1. /\ <<a, p>> \in purchases /\ n \in 1..5 /\ drafts' = drafts \cup {<<a, p, n>>}
            /\ UNCHANGED <<rProcessed, purchases, review, rating, reviewEvents, confirmed>>
        BY <2>2, <3>1 DEF WriteReview, Rev!CreateReview, Rev!HasPurchased, Rev!NewReviewAccepts, Rev!MinRating, Rev!MaxRating
      <4>2. RevTables'
        BY <1>1, <4>1
      <4>3. ASSUME NEW d \in drafts' PROVE <<d[1], d[2]>> \in purchases /\ d[3] \in 1..5
        BY <4>1 DEF RevInv
      <4> QED
        BY <4>1, <4>2, <4>3 DEF RevInv, Bought
    <3>2. CASE Rev!InsertReview(a, p, n)
      <4>1. /\ <<a, p, n>> \in drafts /\ drafts' = drafts \ {<<a, p, n>>}
            /\ UNCHANGED <<rProcessed, purchases, confirmed>>
        BY <2>2, <3>2 DEF WriteReview, Rev!InsertReview
      <4>2. <<a, p>> \in purchases /\ n \in 1..5 /\ Bought(a, p)
        BY <4>1 DEF RevInv
      <4>3. CASE review[a][p] # "NONE" /\ UNCHANGED <<review, rating, reviewEvents>>
        <5>1. RevTables'
          BY <1>1, <4>3
        <5> QED
          BY <4>1, <4>3, <5>1 DEF RevInv, Bought
      <4>4. CASE /\ review' = [review EXCEPT ![a][p] = "PUBLISHED"]
                 /\ rating' = [rating EXCEPT ![a][p] = n]
                 /\ reviewEvents' = [reviewEvents EXCEPT ![a][p] = <<"published">>]
        <5> DEFINE h == <<"published">>
        <5>1. h \in Seq({"published", "hidden"}) /\ Len(h) = 1 /\ h[1] = "published"
          OBVIOUS
        <5>2. 1 % 2 = 1 /\ 1..1 = {1} /\ 1 <= MaxModerations + 1
          BY AfterSaleConstants
        <5> HIDE DEF h
        <5>3. ReviewRow("PUBLISHED", n, h)
          BY <4>2, <5>1, <5>2 DEF ReviewRow
        <5>4. RevTables'
          <6>1. reviewEvents' = [reviewEvents EXCEPT ![a][p] = h]
            BY <4>4 DEF h
          <6>2. RevTables /\ n \in 0..5
            BY <4>2 DEF RevInv
          <6> QED
            BY <4>4, <5>1, <5>3, <6>1, <6>2, RowWritten
        <5>5. \A b \in Principals, q \in Products : review'[b][q] # "NONE" => Bought(b, q)
          BY <4>2, <4>4 DEF RevInv, RevTables
        <5> QED
          BY <4>1, <5>4, <5>5 DEF RevInv, Bought
      <4> QED
        BY <3>2, <4>3, <4>4 DEF Rev!InsertReview
    <3> QED
      BY <2>2, <3>1, <3>2 DEF WriteReview
  <2>3. ASSUME NEW m \in Principals, NEW a \in Principals, NEW p \in Products, NEW to \in {"PUBLISHED", "HIDDEN"},
               ModerateReview(m, a, p, to)
        PROVE  RevInv'
    <3> DEFINE e == IF to = "PUBLISHED" THEN "published" ELSE "hidden"
               h == reviewEvents[a][p]
    <3>1. /\ review[a][p] \notin {"NONE", to} /\ Len(h) <= MaxModerations
          /\ review' = [review EXCEPT ![a][p] = to]
          /\ reviewEvents' = [reviewEvents EXCEPT ![a][p] = Append(h, e)]
          /\ UNCHANGED <<rProcessed, purchases, drafts, rating, confirmed>>
      BY <2>3 DEF ModerateReview, Rev!Moderate, RevInv, RevTables
    <3>2. /\ review[a][p] \in {"NONE", "PUBLISHED", "HIDDEN"} /\ rating[a][p] \in 0..5
          /\ h \in Seq({"published", "hidden"}) /\ ReviewRow(review[a][p], rating[a][p], h)
      BY DEF RevInv, RevTables
    <3>3. Append(h, e) \in Seq({"published", "hidden"}) /\ ReviewRow(to, rating[a][p], Append(h, e))
      BY <3>1, <3>2, ModerationAlternates
    <3>4. rating' = [rating EXCEPT ![a][p] = rating[a][p]]
      BY <3>1 DEF RevInv, RevTables
    <3>5. RevTables'
      <4>1. RevTables /\ to \in {"NONE", "PUBLISHED", "HIDDEN"}
        BY DEF RevInv
      <4>2. PICK H \in Seq({"published", "hidden"}), k \in 0..5 : H = Append(h, e) /\ k = rating[a][p]
        BY <3>2, <3>3
      <4>3. ReviewRow(to, k, H)
        BY <3>3, <4>2
      <4>4. reviewEvents' = [reviewEvents EXCEPT ![a][p] = H] /\ rating' = [rating EXCEPT ![a][p] = k]
        BY <3>1, <3>4, <4>2
      <4>5. review' = [review EXCEPT ![a][p] = to]
        BY <3>1
      <4> QED
        BY <4>1, <4>3, <4>4, <4>5, RowWritten
    <3>6. Bought(a, p)
      BY <3>1 DEF RevInv
    <3>7. \A b \in Principals, q \in Products : review'[b][q] # "NONE" => Bought(b, q)
      BY <3>1, <3>6 DEF RevInv, RevTables
    <3> QED
      BY <3>1, <3>5, <3>7 DEF RevInv, Bought
  <2>4. ASSUME NEW r \in confirmed, RecordFails("review", r, rProcessed) \/ HandedOutAgain("review", r) PROVE RevInv'
    BY <1>3, <2>4 DEF RecordFails, HandedOutAgain
  <2> QED
    BY <1>4, <2>1, <2>2, <2>3, <2>4 DEF ReviewStep
<1>5. CASE \E o \in Orders : Publish(o)
  BY <1>3, <1>5 DEF Publish
<1>6. CASE FulfillmentStep
  BY <1>3, <1>6 DEF FulfillmentStep, Fulfil, Operate, Sweep, Carry, CarrierStops, RecordFails, HandedOutAgain
<1>7. CASE PayoutStep
  BY <1>3, <1>7 DEF PayoutStep, Owe, Finance, SettleSweep, SettleNext, SettleFails, RecordFails, HandedOutAgain
<1>8. CASE NotificationStep
  BY <1>3, <1>8 DEF NotificationStep, Mail, MailFails, TestMail, HandedOutAgain
<1>9. CASE UNCHANGED vars
  BY <1>3, <1>9 DEF vars
<1> QED
  BY <1>4, <1>5, <1>6, <1>7, <1>8, <1>9 DEF Next

(* The review service counts reviews as the library does.                  *)
LEMMA SameCount == \A S : Rev!Cardinality(S) = Cardinality(S)
BY DEF Rev!Cardinality, Cardinality

(* A published review is counted under its rating (Summary).               *)
LEMMA PublishedIsCounted ==
    ASSUME NEW a \in Principals, NEW p \in Products, RevInv, review[a][p] = "PUBLISHED"
    PROVE  Rev!Summary(p)[rating[a][p]] > 0
<1> DEFINE n == rating[a][p]
           C == {b \in Principals : review[b][p] = "PUBLISHED" /\ rating[b][p] = n}
<1>1. n \in 1..5
  BY DEF RevInv, RevTables, ReviewRow
<1>2. Rev!Summary(p)[n] = Cardinality(C)
  BY <1>1, SameCount DEF Rev!Summary, Rev!MinRating, Rev!MaxRating
<1>3. IsFiniteSet(C) /\ C # {}
  BY AfterSaleConstants, FS_Subset
<1>4. Cardinality(C) \in Nat /\ Cardinality(C) # 0
  BY <1>3, FS_CardinalityType, FS_EmptySet
<1> QED
  BY <1>2, <1>4

(* For any callers, orders and products, every review is by a buyer whose  *)
(* order was confirmed, and what is announced of it alternates and ends in *)
(* what the rating summary counts (CreateReview, Create, Moderate).        *)
THEOREM ReviewsAreBuyers == Spec => []ReviewsRight
<1>1. Init => FulInv /\ RevInv
  <2> SUFFICES ASSUME Init PROVE RevInv
    BY FulStart
  <2>1. /\ rProcessed = {} /\ purchases = {} /\ drafts = {}
        /\ review = [a \in Principals |-> [p \in Products |-> "NONE"]]
        /\ rating = [a \in Principals |-> [p \in Products |-> 0]]
        /\ reviewEvents = [a \in Principals |-> [p \in Products |-> <<>>]]
    BY DEF Init, Rev!RevInit
  <2>2. ReviewRow("NONE", 0, <<>>)
    <3>1. Len(<<>>) = 0 /\ 0 % 2 = 0 /\ 0 <= MaxModerations + 1 /\ 1..0 = {}
      BY AfterSaleConstants
    <3> QED
      BY <3>1 DEF ReviewRow
  <2>3. <<>> \in Seq({"published", "hidden"})
    OBVIOUS
  <2>4. RevTables
    BY <2>1, <2>2, <2>3 DEF RevTables
  <2> QED
    BY <2>1, <2>4 DEF RevInv
<1>2. FulInv /\ RevInv => ReviewsRight
  <2> SUFFICES ASSUME FulInv, RevInv PROVE ReviewsRight
    OBVIOUS
  <2>1. Rev!RevTypeOK
    BY DEF RevInv, RevTables, ReviewRow, Rev!RevTypeOK, Rev!MaxRating
  <2>2. Rev!ReviewerBought
    BY DEF RevInv, Bought, Rev!ReviewerBought
  <2>3. ASSUME NEW a \in Principals, NEW p \in Products
        PROVE  LET h == reviewEvents[a][p] IN
               /\ \A i \in 1..Len(h) : h[i] = (IF i % 2 = 1 THEN "published" ELSE "hidden")
               /\ (Len(h) % 2 = 1) = (review[a][p] = "PUBLISHED")
               /\ review[a][p] = "PUBLISHED" => Rev!Summary(p)[rating[a][p]] > 0
    <3>1. review[a][p] = "PUBLISHED" => Rev!Summary(p)[rating[a][p]] > 0
      BY PublishedIsCounted
    <3>2. ReviewRow(review[a][p], rating[a][p], reviewEvents[a][p])
      BY DEF RevInv, RevTables
    <3> QED
      BY <3>1, <3>2 DEF ReviewRow
  <2>4. Rev!ReviewEventsMatchSummary
    BY <2>3 DEF Rev!ReviewEventsMatchSummary
  <2> QED
    BY <2>1, <2>2, <2>4 DEF ReviewsRight
<1> QED
  BY <1>1, <1>2, FulStep, RevStep, PTL DEF Spec

-----------------------------------------------------------------------------
(* Notifications.  A record on a topic stays: a parcel that was announced  *)
(* as shipped or is delivered remains so, whatever fulfillment does next.  *)
Left(o, s) == Len(shipEvents[o][s]) > 1 /\ shipEvents[o][s][2] = "shipped"

GoesOn(o, s) == (Left(o, s) => Left(o, s)') /\ (shipment[o][s] = "DELIVERED" => shipment'[o][s] = "DELIVERED")

(* A transition adds an announcement and never leaves DELIVERED.           *)
LEMMA TransitionGoesOn ==
    ASSUME ShipState, NEW o \in Orders, NEW s \in Shops, NEW to, Ful!ShipTransition(o, s, to),
           NEW x \in Orders, NEW y \in Shops
    PROVE  GoesOn(x, y)
<1>1. shipEvents \in [Orders -> [Shops -> Seq(ShipTopics)]] /\ shipment \in [Orders -> [Shops -> Ful!ShipStatus \cup {"NONE"}]]
  BY DEF ShipState
<1>2. CASE UNCHANGED <<shipment, shipEvents>>
  BY <1>2 DEF GoesOn, Left
<1>3. CASE ~(x = o /\ y = s) /\ shipment' = [shipment EXCEPT ![o][s] = to]
           /\ shipEvents' = [shipEvents EXCEPT ![o][s] = Append(@, Ful!ShipEventFor(to))]
  <2>1. shipEvents'[x][y] = shipEvents[x][y] /\ shipment'[x][y] = shipment[x][y]
    BY <1>1, <1>3
  <2> QED
    BY <2>1 DEF GoesOn, Left
<1>4. CASE x = o /\ y = s /\ Ful!CanMove(shipment[o][s], to)
           /\ shipEvents' = [shipEvents EXCEPT ![o][s] = Append(@, Ful!ShipEventFor(to))]
  <2>1. shipment[o][s] # "DELIVERED"
    BY <1>4 DEF Ful!CanMove
  <2>2. Ful!ShipEventFor(to) \in ShipTopics /\ shipEvents[o][s] \in Seq(ShipTopics)
    BY <1>1, <1>4, MoveExtendsHistory DEF ShipState
  <2>3. shipEvents'[o][s] = Append(shipEvents[o][s], Ful!ShipEventFor(to))
    BY <1>1, <1>4
  <2>4. ASSUME NEW h \in Seq(ShipTopics), NEW e \in ShipTopics, Len(h) > 1
        PROVE  Len(Append(h, e)) > 1 /\ Append(h, e)[2] = h[2]
    BY <2>4
  <2>5. Left(o, s) => Left(o, s)'
    BY <2>2, <2>3, <2>4 DEF Left
  <2> QED
    BY <1>4, <2>1, <2>5 DEF GoesOn
<1> QED
  BY <1>2, <1>3, <1>4 DEF Ful!ShipTransition

(* So the records notification may read are only added to.                 *)
LEMMA NoticesGrow == FulInv /\ [Next]_vars => Notices \subseteq Notices'
<1> SUFFICES ASSUME FulInv, [Next]_vars PROVE Notices \subseteq Notices'
  OBVIOUS
<1>1. ASSUME UNCHANGED <<shipment, shipEvents>> PROVE \A o \in Orders, s \in Shops : GoesOn(o, s)
  BY <1>1 DEF GoesOn, Left
<1>2. ASSUME NEW r \in confirmed, Fulfil(r), NEW x \in Orders, NEW y \in Shops PROVE GoesOn(x, y)
  <2>1. shipEvents \in [Orders -> [Shops -> Seq(ShipTopics)]] /\ shipment \in [Orders -> [Shops -> Ful!ShipStatus \cup {"NONE"}]]
    BY DEF FulInv, ShipState
  <2>2. r.order \in Orders
    BY DEF FulInv, CommonTypeOK
  <2>3. shipment[x][y] = "NONE" => Len(shipEvents[x][y]) = 0
    <3>1. shipment[x][y] = "NONE" => shipEvents[x][y] = <<>>
      BY DEF FulInv, ShipState, History
    <3> QED
      BY <3>1
  <2>4. \/ shipment[x][y] = "NONE"
        \/ shipment'[x][y] = shipment[x][y] /\ shipEvents'[x][y] = shipEvents[x][y]
    BY <1>2, <2>1, <2>2 DEF Fulfil, Ful!CreateShipments
  <2> QED
    BY <2>3, <2>4 DEF GoesOn, Left
<1>3. confirmed \subseteq confirmed' /\ \A o \in Orders, s \in Shops : GoesOn(o, s)
  <2>1. CASE \E o \in Orders : Publish(o)
    BY <1>1, <2>1 DEF Publish, fulVars
  <2>2. CASE FulfillmentStep
    <3>1. ASSUME NEW p \in Principals, NEW o \in Orders, NEW s \in Shops, Operate(p, o, s)
          PROVE  \A x \in Orders, y \in Shops : GoesOn(x, y)
      <4>1. PICK to : Ful!ShipTransition(o, s, to)
        BY <3>1 DEF Operate, Ful!MarkShipped, Ful!MarkDelivered, Ful!CancelShipment
      <4> QED
        BY <4>1, TransitionGoesOn DEF FulInv
    <3>2. ASSUME NEW c \in Carriers, Carry(c) PROVE \A x \in Orders, y \in Shops : GoesOn(x, y)
      <4>1. PICK t \in targets[c] : Ful!CarrierAdvance(c, t)
        BY <3>2 DEF Carry
      <4>2. t.order \in Orders /\ t.shop \in Shops
        BY <4>1 DEF FulInv, Ful!AdvanceTarget
      <4> QED
        BY <4>1, <4>2, TransitionGoesOn DEF FulInv, Ful!CarrierAdvance
    <3>3. ASSUME NEW c \in Carriers, CarrierStops(c) \/ \E due : Sweep(c, due)
          PROVE  \A x \in Orders, y \in Shops : GoesOn(x, y)
      BY <1>1, <3>3 DEF CarrierStops, Sweep, Ful!CarrierRestart, Ful!CarrierSweep
    <3>6. ASSUME NEW r \in confirmed, RecordFails("fulfillment", r, fProcessed) \/ HandedOutAgain("fulfillment", r)
          PROVE  \A x \in Orders, y \in Shops : GoesOn(x, y)
      BY <1>1, <3>6 DEF RecordFails, HandedOutAgain, fulVars
    <3>4. \A x \in Orders, y \in Shops : GoesOn(x, y)
      BY <1>2, <2>2, <3>1, <3>2, <3>3, <3>6 DEF FulfillmentStep
    <3>5. confirmed' = confirmed
      BY <2>2 DEF FulfillmentStep, Fulfil, Operate, Sweep, Carry, CarrierStops, RecordFails, HandedOutAgain
    <3> QED
      BY <3>4, <3>5
  <2>3. CASE PayoutStep
    <3>1. UNCHANGED <<confirmed, fulVars>>
      BY <2>3 DEF PayoutStep, Owe, Finance, SettleSweep, SettleNext, SettleFails, RecordFails, HandedOutAgain
    <3> QED
      BY <1>1, <3>1 DEF fulVars
  <2>4. CASE ReviewStep
    <3>1. UNCHANGED <<confirmed, fulVars>>
      BY <2>4 DEF ReviewStep, Note, WriteReview, ModerateReview, RecordFails, HandedOutAgain
    <3> QED
      BY <1>1, <3>1 DEF fulVars
  <2>5. CASE NotificationStep
    <3>1. UNCHANGED <<confirmed, fulVars>>
      BY <2>5 DEF NotificationStep, Mail, MailFails, TestMail, HandedOutAgain
    <3> QED
      BY <1>1, <3>1 DEF fulVars
  <2>6. CASE UNCHANGED vars
    BY <1>1, <2>6 DEF vars, fulVars
  <2> QED
    BY <2>1, <2>2, <2>3, <2>4, <2>5, <2>6 DEF Next
<1> SUFFICES ASSUME NEW n \in Notices PROVE n \in Notices'
  OBVIOUS
<1>4. n.kind \in Watched
  BY DEF Notices
<1>5. CASE n \in {Notice("order_confirmed", r.order, FirstParty, r.copy) : r \in confirmed}
  BY <1>3, <1>4, <1>5 DEF Notices, Notice
<1>6. CASE \E y \in Orders \X Shops : n = Notice("shipment_shipped", y[1], y[2], 1) /\ Left(y[1], y[2])
  <2>1. PICK o \in Orders, s \in Shops : n = Notice("shipment_shipped", o, s, 1) /\ Left(o, s)
    BY <1>6
  <2>2. Left(o, s)' /\ <<o, s>> \in Orders \X Shops /\ <<o, s>>[1] = o /\ <<o, s>>[2] = s
    BY <1>3, <2>1 DEF GoesOn
  <2> QED
    BY <1>4, <2>1, <2>2 DEF Notices, Notice, Left
<1>7. CASE \E y \in Orders \X Shops : n = Notice("shipment_delivered", y[1], y[2], 1) /\ shipment[y[1]][y[2]] = "DELIVERED"
  <2>1. PICK o \in Orders, s \in Shops : n = Notice("shipment_delivered", o, s, 1) /\ shipment[o][s] = "DELIVERED"
    BY <1>7
  <2>2. shipment'[o][s] = "DELIVERED" /\ <<o, s>> \in Orders \X Shops /\ <<o, s>>[1] = o /\ <<o, s>>[2] = s
    BY <1>3, <2>1 DEF GoesOn
  <2> QED
    BY <1>4, <2>1, <2>2 DEF Notices, Notice
<1> QED
  BY <1>5, <1>6, <1>7 DEF Notices, Left

(* No record asks for a test mail.                                         *)
LEMMA NoticesAreEvents == \A n \in Notices : n.kind # "test"
BY DEF Notices, Notice

-----------------------------------------------------------------------------
(* What a consumer has in hand is at most one record and how its mail      *)
(* went; what is recorded of an event is one entry, true of the channel.   *)
Entry(x) == \E n \in Notices, st \in {"SENT", "FAILED"} : x = <<n, st>> /\ (st = "SENT" => Not!Mailed(n) > 0)

AnnouncedOnce ==
    /\ DOMAIN announced = {x[1] : x \in noted}
    /\ \A n \in DOMAIN announced : announced[n] \in Nat
    /\ \A x \in noted : x[1].kind # "test" => Not!Announced(x[1]) = 1

NotInv ==
    /\ AnnouncedOnce
    /\ nProcessed \subseteq Notices
    /\ sending \in [Mailers -> SUBSET (Notices \X {"SENT", "FAILED"})]
    /\ \A m \in Mailers : sending[m] = {} \/ \E x : sending[m] = {x} /\ Entry(x)
    /\ \A n \in DOMAIN mails : mails[n] \in Nat
    /\ \A x \in noted : x[1].kind = "test" \/ (Entry(x) /\ x[1] \in nProcessed)
    /\ \A x, y \in noted : x[1].kind # "test" /\ x[1] = y[1] => x = y
    /\ \A n \in nProcessed : \E x \in noted : x[1] = n

(* An entry stays true: records stay and mails are only added.             *)
LEMMA EntriesStay ==
    ASSUME Notices \subseteq Notices', \A n : Not!Mailed(n) > 0 => Not!Mailed(n)' > 0, NEW x, Entry(x)
    PROVE  Entry(x)'
<1>1. PICK n \in Notices, st \in {"SENT", "FAILED"} : x = <<n, st>> /\ (st = "SENT" => Not!Mailed(n) > 0)
  BY DEF Entry
<1>2. n \in Notices' /\ (st = "SENT" => Not!Mailed(n)' > 0)
  BY <1>1
<1> QED
  BY <1>1, <1>2 DEF Entry

(* An entry of a record not announced before, or of a test mail, is added  *)
(* with its outbox row (Store.Record).                                     *)
LEMMA AnnouncedWithEntry ==
    ASSUME AnnouncedOnce, NEW x, noted' = noted \cup {x}, Not!Announce(x[1]),
           x[1].kind = "test" \/ x[1] \notin DOMAIN announced
    PROVE  AnnouncedOnce'
<1> DEFINE n == x[1]
<1>1. Not!Announced(n) \in Nat /\ (n \notin DOMAIN announced => Not!Announced(n) = 0)
  BY DEF AnnouncedOnce, Not!Announced
<1>2. announced' = [k \in DOMAIN announced \cup {n} |-> IF k = n THEN Not!Announced(n) + 1 ELSE announced[k]]
  BY DEF Not!Announce
<1>3. /\ DOMAIN announced' = DOMAIN announced \cup {n}
      /\ announced'[n] = Not!Announced(n) + 1
      /\ \A k \in DOMAIN announced \ {n} : announced'[k] = announced[k]
  BY <1>2
<1>4. {y[1] : y \in noted'} = {y[1] : y \in noted} \cup {n}
  OBVIOUS
<1>5. \A k \in DOMAIN announced' : announced'[k] \in Nat
  BY <1>1, <1>3 DEF AnnouncedOnce
<1>6. ASSUME NEW y \in noted', y[1].kind # "test" PROVE Not!Announced(y[1])' = 1
  <2>1. CASE y[1] = n
    BY <1>1, <1>3, <1>6, <2>1 DEF Not!Announced
  <2>2. CASE y[1] # n
    <3>1. y \in noted /\ y[1] \in DOMAIN announced /\ Not!Announced(y[1]) = 1
      BY <1>6, <2>2 DEF AnnouncedOnce
    <3> QED
      BY <1>3, <2>2, <3>1 DEF Not!Announced
  <2> QED
    BY <2>1, <2>2
<1> QED
  BY <1>3, <1>4, <1>5, <1>6 DEF AnnouncedOnce

(* Every step keeps the list truthful.                                     *)
LEMMA NotStep == FulInv /\ NotInv /\ [Next]_vars => NotInv'
<1> SUFFICES ASSUME FulInv, NotInv, [Next]_vars PROVE NotInv'
  OBVIOUS
<1>1. Notices \subseteq Notices'
  BY NoticesGrow
<1>0. ASSUME UNCHANGED <<noted, announced>> PROVE AnnouncedOnce'
  BY <1>0 DEF NotInv, AnnouncedOnce, Not!Announced
<1>2. ASSUME mails' = mails PROVE \A n : Not!Mailed(n) > 0 => Not!Mailed(n)' > 0
  BY <1>2 DEF Not!Mailed
<1>3. ASSUME UNCHANGED <<mails, sending>>
      PROVE  /\ sending' \in [Mailers -> SUBSET (Notices' \X {"SENT", "FAILED"})]
             /\ \A m \in Mailers : sending'[m] = {} \/ \E x : sending'[m] = {x} /\ Entry(x)'
             /\ \A n \in DOMAIN mails' : mails'[n] \in Nat
  <2>1. ASSUME NEW m \in Mailers PROVE sending[m] = {} \/ \E x : sending[m] = {x} /\ Entry(x)'
    BY <1>1, <1>2, <1>3, EntriesStay DEF NotInv
  <2>2. sending' \in [Mailers -> SUBSET (Notices' \X {"SENT", "FAILED"})]
    BY <1>1, <1>3 DEF NotInv
  <2> QED
    BY <1>3, <2>1, <2>2 DEF NotInv
<1>4. ASSUME UNCHANGED notVars PROVE NotInv'
  <2>1. nProcessed' = nProcessed /\ noted' = noted /\ mails' = mails /\ sending' = sending /\ AnnouncedOnce'
    BY <1>0, <1>4 DEF notVars
  <2>2. \A x \in noted : x[1].kind = "test" \/ (Entry(x)' /\ x[1] \in nProcessed)
    BY <1>1, <1>2, <2>1, EntriesStay DEF NotInv
  <2> QED
    BY <1>1, <1>3, <2>1, <2>2 DEF NotInv
<1>5. CASE NotificationStep
  <2>1. ASSUME NEW m \in Mailers, NEW n \in Notices, Not!SendNotice(m, n) PROVE NotInv'
    <3>1. Not!Mailed(n) \in Nat
      BY DEF Not!Mailed, NotInv
    <3>2. PICK st \in {"SENT", "FAILED"} :
             /\ sending' = [sending EXCEPT ![m] = {<<n, st>>}]
             /\ st = "SENT" => mails' = [k \in DOMAIN mails \cup {n} |-> IF k = n THEN Not!Mailed(n) + 1 ELSE mails[k]]
             /\ st = "FAILED" => mails' = mails
      BY <2>1 DEF Not!SendNotice
    <3>3. nProcessed' = nProcessed /\ noted' = noted /\ AnnouncedOnce'
      BY <1>0, <2>1 DEF Not!SendNotice
    <3>4. /\ \A k : Not!Mailed(k) > 0 => Not!Mailed(k)' > 0
          /\ \A k \in DOMAIN mails' : mails'[k] \in Nat
          /\ st = "SENT" => Not!Mailed(n)' > 0
      <4>1. CASE st = "SENT"
        <5>1. mails' = [k \in DOMAIN mails \cup {n} |-> IF k = n THEN Not!Mailed(n) + 1 ELSE mails[k]]
          BY <3>2, <4>1
        <5>2. DOMAIN mails' = DOMAIN mails \cup {n}
          BY <5>1
        <5>3. \A k \in DOMAIN mails' : mails'[k] = IF k = n THEN Not!Mailed(n) + 1 ELSE mails[k]
          BY <5>1, <5>2
        <5>4. mails'[n] = Not!Mailed(n) + 1 /\ Not!Mailed(n)' = mails'[n]
          BY <5>2, <5>3 DEF Not!Mailed
        <5>5. \A k : k # n => Not!Mailed(k)' = Not!Mailed(k)
          BY <5>2, <5>3 DEF Not!Mailed
        <5>6. \A k \in DOMAIN mails' : mails'[k] \in Nat
          BY <3>1, <5>2, <5>3 DEF NotInv
        <5> QED
          BY <3>1, <5>4, <5>5, <5>6
      <4>2. CASE st = "FAILED"
        BY <1>2, <3>2, <4>2 DEF NotInv
      <4> QED
        BY <4>1, <4>2
    <3>5. Entry(<<n, st>>)'
      BY <1>1, <3>4 DEF Entry
    <3>6. <<n, st>> \in Notices' \X {"SENT", "FAILED"}
      BY <1>1
    <3>7. sending' \in [Mailers -> SUBSET (Notices' \X {"SENT", "FAILED"})]
      BY <1>1, <3>2, <3>6 DEF NotInv
    <3>8. ASSUME NEW k \in Mailers PROVE sending'[k] = {} \/ \E x : sending'[k] = {x} /\ Entry(x)'
      <4>1. CASE k = m
        BY <3>2, <3>5, <4>1 DEF NotInv
      <4>2. CASE k # m
        <5>1. sending'[k] = sending[k]
          BY <3>2, <4>2 DEF NotInv
        <5>2. sending[k] = {} \/ \E x : sending[k] = {x} /\ Entry(x)
          BY DEF NotInv
        <5>3. ASSUME NEW x, Entry(x) PROVE Entry(x)'
          BY <1>1, <3>4, <5>3, EntriesStay
        <5> QED
          BY <5>1, <5>2, <5>3
      <4> QED
        BY <4>1, <4>2
    <3>9. ASSUME NEW x \in noted PROVE x[1].kind = "test" \/ (Entry(x)' /\ x[1] \in nProcessed)
      BY <1>1, <3>4, EntriesStay DEF NotInv
    <3> QED
      BY <1>1, <3>3, <3>4, <3>7, <3>8, <3>9 DEF NotInv
  <2>2. ASSUME NEW m \in Mailers, Not!RecordNotice(m) PROVE NotInv'
    <3>1. PICK x : sending[m] = {x} /\ Entry(x)
      BY <2>2 DEF NotInv, Not!RecordNotice
    <3>2. PICK n \in Notices, st \in {"SENT", "FAILED"} : x = <<n, st>>
      BY <3>1 DEF Entry
    <3>3. x[1] = n /\ {y[1] : y \in sending[m]} = {n} /\ n.kind # "test"
      BY <3>1, <3>2, NoticesAreEvents
    <3>4. /\ sending' = [sending EXCEPT ![m] = {}] /\ mails' = mails
          /\ nProcessed' = nProcessed \cup {n}
          /\ noted' = IF n \in nProcessed THEN noted ELSE noted \cup {x}
          /\ IF n \in nProcessed THEN announced' = announced ELSE Not!Announce(n)
      BY <2>2, <3>1, <3>3 DEF Not!RecordNotice
    <3>12. AnnouncedOnce'
      <4>1. CASE n \in nProcessed
        BY <1>0, <3>4, <4>1
      <4>2. CASE n \notin nProcessed
        <5>1. \A w \in noted : w[1] = n => w[1] \in nProcessed
          BY <3>3 DEF NotInv
        <5>2. n \notin DOMAIN announced
          BY <4>2, <5>1 DEF NotInv, AnnouncedOnce
        <5> QED
          BY <3>3, <3>4, <4>2, <5>2, AnnouncedWithEntry DEF NotInv
      <4> QED
        BY <4>1, <4>2
    <3>5. ASSUME NEW y, Entry(y) PROVE Entry(y)'
      BY <1>1, <1>2, <3>4, <3>5, EntriesStay
    <3>6. sending' \in [Mailers -> SUBSET (Notices' \X {"SENT", "FAILED"})]
      BY <1>1, <3>4 DEF NotInv
    <3>7. ASSUME NEW k \in Mailers PROVE sending'[k] = {} \/ \E y : sending'[k] = {y} /\ Entry(y)'
      BY <3>4, <3>5 DEF NotInv
    <3>8. ASSUME NEW y \in noted' PROVE y[1].kind = "test" \/ (Entry(y)' /\ y[1] \in nProcessed')
      BY <3>1, <3>3, <3>4, <3>5 DEF NotInv
    <3>9. ASSUME NEW y \in noted', NEW z \in noted', y[1].kind # "test", y[1] = z[1] PROVE y = z
      <4>1. CASE y \in noted /\ z \in noted
        BY <3>9, <4>1 DEF NotInv
      <4>2. CASE y \notin noted \/ z \notin noted
        <5>1. n \notin nProcessed /\ noted' = noted \cup {x}
          BY <3>4, <4>2
        <5>2. \A w \in noted : w[1] = n => w[1] \in nProcessed
          BY <3>3 DEF NotInv
        <5> QED
          BY <3>3, <3>9, <4>2, <5>1, <5>2
      <4> QED
        BY <4>1, <4>2
    <3>10. ASSUME NEW k \in nProcessed' PROVE \E y \in noted' : y[1] = k
      BY <3>3, <3>4 DEF NotInv
    <3>11. nProcessed' \subseteq Notices'
      BY <1>1, <3>4 DEF NotInv
    <3> QED
      BY <3>4, <3>6, <3>7, <3>8, <3>9, <3>10, <3>11, <3>12 DEF NotInv
  <2>3. ASSUME NEW m \in Mailers, Not!RecordNoticeFails(m) PROVE NotInv'
    <3>1. /\ sending' = [sending EXCEPT ![m] = {}] /\ mails' = mails
          /\ nProcessed' = nProcessed /\ noted' = noted /\ AnnouncedOnce'
      BY <1>0, <2>3 DEF Not!RecordNoticeFails
    <3>2. ASSUME NEW y, Entry(y) PROVE Entry(y)'
      BY <1>1, <1>2, <3>1, <3>2, EntriesStay
    <3>3. sending' \in [Mailers -> SUBSET (Notices' \X {"SENT", "FAILED"})]
      BY <1>1, <3>1 DEF NotInv
    <3>4. ASSUME NEW k \in Mailers PROVE sending'[k] = {} \/ \E y : sending'[k] = {y} /\ Entry(y)'
      BY <3>1, <3>2 DEF NotInv
    <3>5. \A y \in noted : y[1].kind = "test" \/ (Entry(y)' /\ y[1] \in nProcessed)
      BY <3>2 DEF NotInv
    <3> QED
      BY <1>1, <3>1, <3>3, <3>4, <3>5 DEF NotInv
  <2>4. ASSUME TestMail PROVE NotInv'
    <3>1. PICK z : z[1].kind = "test" /\ noted' = noted \cup {z} /\ Not!Announce(z[1])
      <4>1. PICK st : noted' = noted \cup {<<[kind |-> "test"], st>>} /\ Not!Announce([kind |-> "test"])
        BY <2>4 DEF TestMail, Not!SendTest
      <4>2. <<[kind |-> "test"], st>>[1] = [kind |-> "test"] /\ [kind |-> "test"].kind = "test"
        OBVIOUS
      <4> QED
        BY <4>1, <4>2
    <3>6. AnnouncedOnce'
      BY <3>1, AnnouncedWithEntry DEF NotInv
    <3>2. nProcessed' = nProcessed /\ sending' = sending /\ mails' = mails
      BY <2>4 DEF TestMail, Not!SendTest
    <3>3. ASSUME NEW y, Entry(y) PROVE Entry(y)'
      BY <1>1, <1>2, <3>2, <3>3, EntriesStay
    <3>4. ASSUME NEW y \in noted' PROVE y[1].kind = "test" \/ (Entry(y)' /\ y[1] \in nProcessed')
      BY <3>1, <3>2, <3>3 DEF NotInv
    <3>5. ASSUME NEW y \in noted', NEW w \in noted', y[1].kind # "test", y[1] = w[1] PROVE y = w
      BY <3>1, <3>5 DEF NotInv
    <3> QED
      BY <1>1, <1>3, <3>1, <3>2, <3>4, <3>5, <3>6 DEF NotInv
  <2>5. ASSUME NEW n \in Notices, HandedOutAgain("notification", n) PROVE NotInv'
    BY <1>4, <2>5 DEF HandedOutAgain
  <2> QED
    BY <1>5, <2>1, <2>2, <2>3, <2>4, <2>5 DEF NotificationStep, Mail, MailFails
<1>6. CASE \E o \in Orders : Publish(o)
  BY <1>4, <1>6 DEF Publish
<1>7. CASE FulfillmentStep
  BY <1>4, <1>7 DEF FulfillmentStep, Fulfil, Operate, Sweep, Carry, CarrierStops, RecordFails, HandedOutAgain
<1>8. CASE PayoutStep
  BY <1>4, <1>8 DEF PayoutStep, Owe, Finance, SettleSweep, SettleNext, SettleFails, RecordFails, HandedOutAgain
<1>9. CASE ReviewStep
  BY <1>4, <1>9 DEF ReviewStep, Note, WriteReview, ModerateReview, RecordFails, HandedOutAgain
<1>10. CASE UNCHANGED vars
  BY <1>4, <1>10 DEF vars
<1> QED
  BY <1>5, <1>6, <1>7, <1>8, <1>9, <1>10 DEF Next

(* For any consumers and records, however often a record is delivered and  *)
(* whichever transactions fail, the list has one entry per processed event *)
(* and one marked SENT was handed to the channel; each entry is announced  *)
(* once on notification.sent, a FAILED one too (Handler, Record).          *)
THEOREM NotificationsAreTrue == Spec => []NotedTruthfully
<1>1. Init => FulInv /\ NotInv
  <2> SUFFICES ASSUME Init PROVE NotInv
    BY FulStart
  <2>1. /\ nProcessed = {} /\ noted = {} /\ sending = [m \in Mailers |-> {}]
        /\ mails = [n \in {} |-> 0] /\ announced = [n \in {} |-> 0]
    BY DEF Init, Not!NotInit
  <2> QED
    BY <2>1 DEF NotInv, AnnouncedOnce
<1>2. NotInv => NotedTruthfully
  <2> SUFFICES ASSUME NotInv PROVE NotedTruthfully
    OBVIOUS
  <2>1. \A x : Entry(x) => x[1] \in Notices /\ (x[2] = "SENT" => Not!Mailed(x[1]) > 0)
    BY DEF Entry
  <2>2. ASSUME NEW m \in Mailers PROVE Not!Cardinality(sending[m]) <= 1
    <3>1. \A S : Not!Cardinality(S) = Cardinality(S)
      BY DEF Not!Cardinality, Cardinality
    <3>2. Cardinality({}) = 0 /\ \A x : Cardinality({x}) = 1
      BY FS_EmptySet, FS_Singleton
    <3>3. Not!Cardinality(sending[m]) \in {0, 1}
      BY <3>1, <3>2 DEF NotInv
    <3> QED
      BY <3>3
  <2>3. Not!NotTypeOK
    BY <2>1, <2>2 DEF NotInv, Not!NotTypeOK
  <2>4. {x[1] : x \in {y \in noted : y[1].kind # "test"}} = nProcessed
    BY NoticesAreEvents DEF NotInv
  <2>5. Not!NotedTruthfully
    BY <2>1, <2>4 DEF NotInv, AnnouncedOnce, Not!NotedTruthfully
  <2> QED
    BY <2>3, <2>5 DEF NotedTruthfully
<1> QED
  BY <1>1, <1>2, FulStep, NotStep, PTL DEF Spec
=============================================================================
