-------------------------- MODULE CheckoutSagaProofs --------------------------
(***************************************************************************)
(* Proofs about the checkout saga composed with inventory and payment, for *)
(* any orders, products, shops, workers, sweepers, republished topics and  *)
(* bounds on faults.                                                       *)
(***************************************************************************)
EXTENDS CheckoutSaga, FiniteSetTheorems, SequenceTheorems, TLAPS

(* The reservation holds no stock.                                         *)
Resolved(o) == rstatus[o] \in {"COMMITTED", "RELEASED"}

(* Sweepers that may still write an expiry of the order.                   *)
Busy(o) == {s \in Sweepers : o \in todo[s] \cup emitting[s]}

(* Inventory's sweepers work on reservations that exist, announce only     *)
(* resolved ones, and each of them announces a reservation at most once.   *)
SweepInv ==
    /\ \A s \in Sweepers : todo[s] \cap emitting[s] = {}
    /\ \A s \in Sweepers : \A o \in todo[s] : rstatus[o] # "NONE"
    /\ \A s \in Sweepers : \A o \in emitting[s] : Resolved(o)
    /\ \A o \in Orders :
         /\ expiredEvents[o] > 0 => Resolved(o)
         /\ expiredEvents[o] + Cardinality(Busy(o)) <= Cardinality(Sweepers)

(* How far CreateOrder got, and what it has left in the other services.    *)
CheckoutInv ==
    \A o \in Orders :
        /\ ostatus[o] # "NONE" <=> checkout[o] = "done"
        /\ checkout[o] \in {"reserved", "paid", "done"} => rstatus[o] # "NONE"
        /\ checkout[o] \in {"start", "reserved"} => pstatus[o] = "NONE"
        /\ checkout[o] = "paid" => pstatus[o] = "REQUIRES_CONFIRMATION"

(* What the topics say is true of the services that wrote it.              *)
TopicInv ==
    \A e \in published :
        /\ e.topic = "authorized" => "authorized" \in payEvents[e.order]
        /\ e.topic = "expired" => Resolved(e.order)

(* The row's status was announced.                                         *)
AnnouncedInv ==
    \A o \in Orders :
        /\ ostatus[o] \in {"CONFIRMED", "FULFILLED"} => "confirmed" \in orderEvents[o]
        /\ ostatus[o] = "CANCELLED" => "cancelled" \in orderEvents[o]

(* The RPCs and marks a worker has still to do for an order: each mark     *)
(* comes right after its RPC, or the RPC has had its effect.               *)
StepsOK(l, o) ==
    \A i \in 1..Len(l) :
        /\ l[i] = "commit" => "authorized" \in payEvents[o]
        /\ l[i] \in {"void", "markVoided"} => "cancelled" \in orderEvents[o]
        /\ l[i] = "release" => i = 1
        /\ l[i] = "markReleased" => Resolved(o) \/ (i > 1 /\ l[i - 1] = "release")
        /\ l[i] = "markVoided" => pstatus[o] = "VOIDED" \/ (i > 1 /\ l[i - 1] = "void")
        /\ l[i] = "void" => i = 1 \/ l[i - 1] = "markReleased"

(* What a worker has read may be stale, but it was announced.              *)
ReadOK(me, o) ==
    /\ me.op # "none" /\ me.read # "NONE"
    /\ me.op \in Topics => \E e \in me.ev : e.topic = me.op
    /\ me.read \in {"CONFIRMED", "FULFILLED"} => "confirmed" \in orderEvents[o]
    /\ me.read = "CANCELLED" => "cancelled" \in orderEvents[o]
    /\ me.seen \subseteq delivered[o] \cup {e.shop : e \in me.ev}

(* The rows the reconciler has still to come to were announced.            *)
ListOK(l) == \A p \in l : ostatus[p.order] # "NONE" /\ "cancelled" \in orderEvents[p.order]

(* A worker at its order.                                                  *)
WorkerOK(me) ==
    /\ me.ev \subseteq published /\ ListOK(me.list)
    /\ \A o \in me.order :
         /\ me.order = {o} /\ ostatus[o] # "NONE"
         /\ \A e \in me.ev : e.order = o
         /\ me.pc = "apply" => ReadOK(me, o)
         /\ StepsOK(me.steps, o)

WorkerInv == \A w \in Workers : WorkerOK(worker[w])

(* The inductive invariant: the three properties, and what the services    *)
(* and the workers between two steps must know for them to last.           *)
IndInv ==
    /\ MoneyFollowsOrder /\ CompensationsRecordedTruthfully /\ FulfilledMeansDelivered
    /\ SweepInv /\ CheckoutInv /\ TopicInv /\ AnnouncedInv /\ WorkerInv
-----------------------------------------------------------------------------
(* What no step of any service takes back.                                 *)
Grows ==
    /\ published \subseteq published'
    /\ \A o \in Orders :
         /\ ostatus[o] # "NONE" => ostatus'[o] # "NONE"
         /\ payEvents[o] \subseteq payEvents'[o] /\ orderEvents[o] \subseteq orderEvents'[o]
         /\ delivered[o] \subseteq delivered'[o]
         /\ Resolved(o) => Resolved(o)'
         /\ pstatus[o] = "VOIDED" => pstatus'[o] = "VOIDED"

(* A list of steps stays right while others act.                           *)
LEMMA StepsStay ==
    ASSUME NEW l, NEW o \in Orders, StepsOK(l, o), Grows
    PROVE  StepsOK(l, o)'
  BY DEF StepsOK, Grows, Resolved

(* So does everything a worker holds on to.                                *)
LEMMA WorkerStays ==
    ASSUME NEW me, me.order \subseteq Orders, me.list \subseteq Pending, WorkerOK(me), Grows
    PROVE  WorkerOK(me)'
<1>1. me.ev \subseteq published' /\ ListOK(me.list)'
  BY DEF WorkerOK, ListOK, Pending, Grows
<1>2. ASSUME NEW o \in me.order
      PROVE  /\ me.order = {o} /\ ostatus'[o] # "NONE" /\ \A e \in me.ev : e.order = o
             /\ me.pc = "apply" => ReadOK(me, o)'
             /\ StepsOK(me.steps, o)'
  <2>1. me.order = {o} /\ ostatus'[o] # "NONE" /\ \A e \in me.ev : e.order = o
    BY DEF WorkerOK, Grows
  <2>2. me.pc = "apply" => ReadOK(me, o)'
    BY DEF WorkerOK, Grows, ReadOK
  <2>3. StepsOK(me.steps, o)'
    BY StepsStay DEF WorkerOK
  <2> QED
    BY <2>1, <2>2, <2>3
<1> QED
  BY <1>1, <1>2 DEF WorkerOK

(* Doing the first step of a list, or skipping its mark too, leaves a      *)
(* right list if the effect the mark tells of is there.                    *)
LEMMA AdvanceKeeps ==
    ASSUME NEW l \in Seq(Steps), l # <<>>, NEW n \in 1..2, NEW o \in Orders,
           StepsOK(l, o), Grows,
           n = 2 => Head(l) \in {"release", "void"},
           Head(l) = "release" /\ n = 1 => Resolved(o)',
           Head(l) = "void" /\ n = 1 => pstatus'[o] = "VOIDED"
    PROVE  StepsOK(SubSeq(l, n + 1, Len(l)), o)' /\ SubSeq(l, n + 1, Len(l)) \in Seq(Steps)
<1> DEFINE m == SubSeq(l, n + 1, Len(l))
<1>1. Len(l) \in Nat \ {0} /\ Head(l) = l[1] /\ \A i \in 1..Len(l) : l[i] \in Steps
  OBVIOUS
<1>2. /\ m \in Seq(Steps) /\ Len(m) \in Nat /\ Len(m) <= Len(l)
      /\ \A i \in 1..Len(m) : i + n \in 1..Len(l) /\ m[i] = l[i + n]
  <2>1. \A i \in (n + 1)..Len(l) : l[i] \in Steps
    BY <1>1
  <2>2. /\ m \in Seq(Steps) /\ Len(m) = IF n + 1 <= Len(l) THEN Len(l) - n ELSE 0
        /\ \A i \in 1..(Len(l) - n) : m[i] = l[i + n]
    BY <1>1, <2>1, SubSeqProperties
  <2> QED
    BY <1>1, <2>2
<1>3. StepsOK(l, o)'
  BY StepsStay
<1> HIDE DEF m
<1>4. ASSUME NEW i \in 1..Len(m)
      PROVE  /\ m[i] = "commit" => "authorized" \in payEvents'[o]
             /\ m[i] \in {"void", "markVoided"} => "cancelled" \in orderEvents'[o]
             /\ m[i] = "release" => i = 1
             /\ m[i] = "markReleased" => Resolved(o)' \/ (i > 1 /\ m[i - 1] = "release")
             /\ m[i] = "markVoided" => pstatus'[o] = "VOIDED" \/ (i > 1 /\ m[i - 1] = "void")
             /\ m[i] = "void" => i = 1 \/ m[i - 1] = "markReleased"
  <2>1. i + n \in 1..Len(l) /\ m[i] = l[i + n] /\ i \in Nat
    BY <1>2
  <2>2. /\ m[i] = "commit" => "authorized" \in payEvents'[o]
        /\ m[i] \in {"void", "markVoided"} => "cancelled" \in orderEvents'[o]
        /\ m[i] = "release" => i = 1
    BY <1>3, <2>1 DEF StepsOK
  <2>3. m[i] = "markReleased" => Resolved(o)' \/ (i > 1 /\ m[i - 1] = "release")
    <3>1. SUFFICES ASSUME l[i + n] = "markReleased", ~Resolved(o)', l[i + n - 1] = "release" PROVE FALSE
      <4>1. l[i + n] = "markReleased" => Resolved(o)' \/ l[i + n - 1] = "release"
        BY <1>3, <2>1 DEF StepsOK
      <4> QED
        BY <2>1, <4>1
    <3>2. i + n - 1 \in 1..Len(l)
      BY <2>1, <1>1
    <3>3. i + n - 1 = 1
      BY <1>3, <3>1, <3>2 DEF StepsOK
    <3> QED
      BY <1>1, <2>1, <3>1, <3>3
  <2>4. i > 1 => i - 1 \in 1..Len(m) /\ m[i - 1] = l[i + n - 1]
    BY <1>2, <2>1
  <2>5. m[i] = "markVoided" => pstatus'[o] = "VOIDED" \/ (i > 1 /\ m[i - 1] = "void")
    <3>1. SUFFICES ASSUME l[i + n] = "markVoided", pstatus'[o] # "VOIDED", i = 1 PROVE FALSE
      <4>1. l[i + n] = "markVoided" => pstatus'[o] = "VOIDED" \/ l[i + n - 1] = "void"
        BY <1>3, <2>1 DEF StepsOK
      <4> QED
        BY <2>1, <2>4, <4>1
    <3>2. l[n] = "void" /\ n \in 1..Len(l)
      <4>1. n + 1 \in 1..Len(l) /\ l[n + 1] = "markVoided"
        BY <2>1, <3>1
      <4>2. l[(n + 1) - 1] = "void"
        BY <1>3, <3>1, <4>1 DEF StepsOK
      <4> QED
        BY <4>1, <4>2
    <3>3. CASE n = 1
      BY <1>1, <3>1, <3>2, <3>3
    <3>4. CASE n = 2
      <4>1. l[2 - 1] = "markReleased"
        BY <1>3, <3>2, <3>4 DEF StepsOK
      <4> QED
        BY <1>1, <3>4, <4>1
    <3> QED
      BY <3>3, <3>4
  <2>6. m[i] = "void" => i = 1 \/ m[i - 1] = "markReleased"
    <3>1. l[i + n] = "void" => l[i + n - 1] = "markReleased"
      BY <1>3, <2>1 DEF StepsOK
    <3> QED
      BY <2>1, <2>4, <3>1
  <2> QED
    BY <2>2, <2>3, <2>5, <2>6
<1> QED
  BY <1>2, <1>4 DEF StepsOK, m
-----------------------------------------------------------------------------
(* Inventory's calls as the saga sees them: the types are kept, and only   *)
(* the status of the reservation moves.                                    *)
InvCall(o, from, to) ==
    /\ Inv!TypeOK' /\ UNCHANGED <<due, todo, emitting, expiredEvents, sweepFaults>>
    /\ rstatus' = IF rstatus[o] = from THEN [rstatus EXCEPT ![o] = to] ELSE rstatus

(* No step takes a reservation back.                                       *)
ReservationsGoOn ==
    /\ \A x \in Orders : Resolved(x) => Resolved(x)'
    /\ \A x \in Orders : rstatus[x] # "NONE" => rstatus'[x] # "NONE"

(* Reserve opens a reservation, once.                                      *)
LEMMA ReserveCall ==
    ASSUME Inv!TypeOK, NEW o \in Orders, Inv!Reserve(o, Basket)
    PROVE  rstatus[o] = "NONE" /\ InvCall(o, "NONE", "HELD")
<1>1. Basket \in Inv!Lines /\ \A p \in Products : Basket[p] = 1
  BY DEF Basket, Inv!Lines
<1>2. /\ onHand' \in [Products -> Nat] /\ reserved' \in [Products -> Nat]
      /\ lastStock' \in [Products -> SUBSET (Nat \X Nat)]
  <2>1. onHand' \in [Products -> Nat] /\ reserved' \in [Products -> Nat]
    BY <1>1 DEF Inv!Reserve, Inv!TypeOK
  <2> QED
    BY <2>1 DEF Inv!Reserve, Inv!TypeOK, Inv!OutboxStock
<1> QED
  BY <1>1, <1>2 DEF Inv!Reserve, Inv!TypeOK, Inv!RStatus, InvCall, Inv!sweepVars

(* finish(), for Commit, Release and the sweeper's release.                *)
LEMMA FinishCall ==
    ASSUME Inv!TypeOK, NEW o \in Orders, NEW to \in {"COMMITTED", "RELEASED"},
           NEW sold \in Inv!Lines, Inv!Finish(o, to, sold)
    PROVE  /\ rows' \subseteq Products /\ onHand' \in [Products -> Nat]
           /\ reserved' \in [Products -> Nat] /\ rstatus' \in [Orders -> Inv!RStatus]
           /\ lastStock' \in [Products -> SUBSET (Nat \X Nat)]
           /\ supplied' \in [Products -> Nat] /\ shrunk' \subseteq Products
           /\ rstatus' = IF rstatus[o] = "HELD" THEN [rstatus EXCEPT ![o] = to] ELSE rstatus
<1>1. CASE rstatus[o] # "HELD"
  BY <1>1 DEF Inv!Finish, Inv!stockVars, Inv!TypeOK
<1>2. CASE rstatus[o] = "HELD"
  <2>1. \A p \in Products : items[o][p] \in Nat /\ onHand[p] \in Nat /\ reserved[p] \in Nat /\ sold[p] \in Nat
    BY DEF Inv!TypeOK, Inv!Lines
  <2>2. onHand' \in [Products -> Nat] /\ reserved' \in [Products -> Nat]
    BY <1>2, <2>1 DEF Inv!Finish, Inv!AtLeastZero
  <2>3. lastStock' \in [Products -> SUBSET (Nat \X Nat)]
    BY <1>2, <2>2 DEF Inv!Finish, Inv!OutboxStock, Inv!TypeOK
  <2> QED
    BY <1>2, <2>2, <2>3 DEF Inv!Finish, Inv!TypeOK, Inv!RStatus
<1> QED
  BY <1>1, <1>2

(* Commit sells a held reservation and nothing else.                       *)
LEMMA CommitCall ==
    ASSUME Inv!TypeOK, NEW o \in Orders, Inv!Commit(o)
    PROVE  InvCall(o, "HELD", "COMMITTED")
<1>1. items[o] \in Inv!Lines
  BY DEF Inv!TypeOK
<1> QED
  BY <1>1, FinishCall DEF Inv!Commit, Inv!FinishCommit, Inv!TypeOK, InvCall, Inv!sweepVars

(* Release frees a held reservation and nothing else.                      *)
LEMMA ReleaseCall ==
    ASSUME Inv!TypeOK, NEW o \in Orders, Inv!Release(o)
    PROVE  InvCall(o, "HELD", "RELEASED")
<1>1. Inv!NoLines \in Inv!Lines
  BY DEF Inv!NoLines, Inv!Lines
<1> QED
  BY <1>1, FinishCall DEF Inv!Release, Inv!FinishRelease, Inv!TypeOK, InvCall, Inv!sweepVars

(* A call moves the reservation on and disturbs no sweep.                  *)
LEMMA InvCallKeeps ==
    ASSUME Inv!TypeOK, SweepInv, NEW o \in Orders, NEW from, NEW to, InvCall(o, from, to),
           <<from, to>> \in {<<"NONE", "HELD">>, <<"HELD", "COMMITTED">>, <<"HELD", "RELEASED">>}
    PROVE  SweepInv' /\ ReservationsGoOn
<1>1. /\ \A x \in Orders : Resolved(x) => Resolved(x)'
      /\ \A x \in Orders : rstatus[x] # "NONE" => rstatus'[x] # "NONE"
  BY DEF InvCall, Inv!TypeOK, Resolved
<1>2. UNCHANGED <<todo, emitting, expiredEvents>> /\ \A x \in Orders : Busy(x)' = Busy(x)
  BY DEF InvCall, Busy
<1>3. \A s \in Sweepers : todo[s] \subseteq Orders /\ emitting[s] \subseteq Orders
  BY DEF Inv!TypeOK
<1> QED
  BY <1>1, <1>2, <1>3 DEF SweepInv, ReservationsGoOn

(* A sweep that selects takes HELD reservations, which no sweeper has      *)
(* announced yet.                                                          *)
LEMMA SelectKeeps ==
    ASSUME Inv!TypeOK, SweepInv, NEW s \in Sweepers, Inv!ExpireDueSelect(s)
    PROVE  Inv!TypeOK' /\ SweepInv' /\ ReservationsGoOn
<1>1. PICK found \in SUBSET {r \in due : rstatus[r] = "HELD"} : todo' = [todo EXCEPT ![s] = found]
  BY DEF Inv!ExpireDueSelect
<1>2. /\ UNCHANGED <<rstatus, emitting, expiredEvents>> /\ todo[s] = {} /\ emitting[s] = {}
      /\ found \subseteq Orders /\ \A o \in found : rstatus[o] = "HELD"
  BY <1>1 DEF Inv!ExpireDueSelect, Inv!Idle, Inv!stockVars, Inv!TypeOK
<1>3. Inv!TypeOK'
  BY <1>1, <1>2 DEF Inv!ExpireDueSelect, Inv!TypeOK, Inv!stockVars
<1>4. /\ \A t \in Sweepers : todo'[t] \cap emitting'[t] = {}
      /\ \A t \in Sweepers : \A o \in todo'[t] : rstatus'[o] # "NONE"
      /\ \A t \in Sweepers : \A o \in emitting'[t] : Resolved(o)'
  BY <1>1, <1>2 DEF SweepInv, Inv!TypeOK, Resolved
<1>5. ASSUME NEW o \in Orders
      PROVE  /\ expiredEvents'[o] > 0 => Resolved(o)'
             /\ expiredEvents'[o] + Cardinality(Busy(o)') <= Cardinality(Sweepers)
  <2>1. expiredEvents'[o] = expiredEvents[o] /\ expiredEvents[o] \in Nat /\ rstatus' = rstatus
    BY <1>2 DEF Inv!TypeOK
  <2>2. CASE o \in found
    <3>1. expiredEvents[o] = 0
      BY <1>2, <2>1, <2>2 DEF SweepInv, Resolved
    <3>2. Busy(o)' \subseteq Sweepers
      BY DEF Busy
    <3>3. Cardinality(Busy(o)') <= Cardinality(Sweepers) /\ Cardinality(Busy(o)') \in Nat
      BY <3>2, FS_Subset, FS_CardinalityType, SagaConstants
    <3> QED
      BY <2>1, <3>1, <3>3
  <2>3. CASE o \notin found
    <3>1. Busy(o)' = Busy(o)
      BY <1>1, <1>2, <2>3 DEF Busy, Inv!TypeOK
    <3> QED
      BY <2>1, <3>1 DEF SweepInv, Resolved
  <2> QED
    BY <2>2, <2>3
<1> QED
  BY <1>2, <1>3, <1>4, <1>5 DEF SweepInv, ReservationsGoOn, Resolved

(* A sweeper that releases a reservation finds or leaves it resolved.      *)
LEMMA SweepReleaseKeeps ==
    ASSUME Inv!TypeOK, SweepInv, NEW s \in Sweepers, NEW r \in Orders, Inv!ExpireDueRelease(s, r)
    PROVE  Inv!TypeOK' /\ SweepInv' /\ ReservationsGoOn
<1>1. /\ r \in todo[s] /\ emitting[s] = {} /\ expiredEvents' = expiredEvents
      /\ todo' = [todo EXCEPT ![s] = @ \ {r}] /\ emitting' = [emitting EXCEPT ![s] = {r}]
  BY DEF Inv!ExpireDueRelease
<1>2. Inv!NoLines \in Inv!Lines
  BY DEF Inv!NoLines, Inv!Lines
<1>3. Inv!TypeOK' /\ rstatus' = IF rstatus[r] = "HELD" THEN [rstatus EXCEPT ![r] = "RELEASED"] ELSE rstatus
  BY <1>1, <1>2, FinishCall DEF Inv!ExpireDueRelease, Inv!FinishRelease, Inv!TypeOK
<1>4. ReservationsGoOn /\ Resolved(r)'
  BY <1>1, <1>3 DEF ReservationsGoOn, Resolved, Inv!TypeOK, Inv!RStatus, SweepInv
<1>5. /\ \A t \in Sweepers : todo'[t] \cap emitting'[t] = {}
      /\ \A t \in Sweepers : \A o \in todo'[t] : rstatus'[o] # "NONE"
      /\ \A t \in Sweepers : \A o \in emitting'[t] : Resolved(o)'
  BY <1>1, <1>4 DEF SweepInv, ReservationsGoOn, Inv!TypeOK
<1>6. \A o \in Orders : Busy(o)' = Busy(o)
  BY <1>1 DEF Busy, Inv!TypeOK
<1> QED
  BY <1>1, <1>3, <1>4, <1>5, <1>6 DEF SweepInv, ReservationsGoOn

(* An expiry is announced for a resolved reservation, and no more often    *)
(* than there are sweepers.                                                *)
LEMMA SweepEmitKeeps ==
    ASSUME Inv!TypeOK, SweepInv, NEW s \in Sweepers, NEW r \in Orders, Inv!ExpireDueEmit(s, r)
    PROVE  /\ Inv!TypeOK' /\ SweepInv' /\ ReservationsGoOn
           /\ Resolved(r) /\ expiredEvents'[r] \in 1..MaxCopies
<1>1. /\ r \in emitting[s] /\ UNCHANGED <<rstatus, todo>>
      /\ expiredEvents' = [expiredEvents EXCEPT ![r] = @ + 1] /\ emitting' = [emitting EXCEPT ![s] = {}]
  BY DEF Inv!ExpireDueEmit
<1>2. Inv!TypeOK'
  BY <1>1 DEF Inv!ExpireDueEmit, Inv!stockVars, Inv!TypeOK
<1>3. Resolved(r)
  BY <1>1 DEF SweepInv
<1>4. ASSUME NEW o \in Orders
      PROVE  expiredEvents'[o] + Cardinality(Busy(o)') <= Cardinality(Sweepers)
             /\ Cardinality(Busy(o)') \in Nat /\ expiredEvents'[o] \in Nat
  <2>1. expiredEvents[o] \in Nat /\ expiredEvents'[o] \in Nat
    BY <1>2 DEF Inv!TypeOK
  <2>2. Busy(o) \subseteq Sweepers /\ IsFiniteSet(Busy(o)) /\ Cardinality(Busy(o)) \in Nat
    <3>1. Busy(o) \subseteq Sweepers
      BY DEF Busy
    <3> QED
      BY <3>1, FS_Subset, FS_CardinalityType, SagaConstants
  <2>3. CASE o = r
    <3>1. s \in Busy(o) /\ Busy(o)' = Busy(o) \ {s}
      BY <1>1, <2>3 DEF Busy, Inv!TypeOK, SweepInv
    <3>2. Cardinality(Busy(o)') = Cardinality(Busy(o)) - 1 /\ Cardinality(Busy(o)') \in Nat
      BY <2>2, <3>1, FS_RemoveElement, FS_CardinalityType
    <3>3. expiredEvents'[o] = expiredEvents[o] + 1
      BY <1>1, <2>3 DEF Inv!TypeOK
    <3> QED
      BY <2>1, <2>2, <3>2, <3>3 DEF SweepInv
  <2>4. CASE o # r
    <3>1. Busy(o)' \subseteq Busy(o)
      BY <1>1 DEF Busy, Inv!TypeOK
    <3>2. Cardinality(Busy(o)') <= Cardinality(Busy(o)) /\ Cardinality(Busy(o)') \in Nat
      BY <2>2, <3>1, FS_Subset, FS_CardinalityType
    <3>3. expiredEvents'[o] = expiredEvents[o]
      BY <1>1, <2>4 DEF Inv!TypeOK
    <3>4. expiredEvents[o] + Cardinality(Busy(o)) <= Cardinality(Sweepers)
      BY DEF SweepInv
    <3>5. Cardinality(Sweepers) \in Nat
      BY FS_CardinalityType, SagaConstants
    <3> QED
      BY <2>1, <2>2, <3>2, <3>3, <3>4, <3>5
  <2> QED
    BY <2>3, <2>4
<1>5. /\ \A t \in Sweepers : todo'[t] \cap emitting'[t] = {}
      /\ \A t \in Sweepers : \A o \in todo'[t] : rstatus'[o] # "NONE"
      /\ \A t \in Sweepers : \A o \in emitting'[t] : Resolved(o)'
      /\ \A o \in Orders : expiredEvents'[o] > 0 => Resolved(o)'
  BY <1>1, <1>3 DEF SweepInv, Inv!TypeOK, Resolved
<1>6. expiredEvents'[r] \in 1..MaxCopies
  <2>1. expiredEvents'[r] = expiredEvents[r] + 1 /\ expiredEvents[r] \in Nat
    BY <1>1 DEF Inv!TypeOK
  <2>2. Cardinality(Sweepers) \in Nat
    BY FS_CardinalityType, SagaConstants
  <2> QED
    BY <1>4, <2>1, <2>2, SagaConstants
<1> QED
  BY <1>1, <1>2, <1>3, <1>4, <1>5, <1>6 DEF SweepInv, ReservationsGoOn, Resolved

(* A sweep cut short forgets what it had left to announce.                 *)
LEMMA SweepAbortKeeps ==
    ASSUME Inv!TypeOK, SweepInv, NEW s \in Sweepers, Inv!ExpireDueAbort(s)
    PROVE  Inv!TypeOK' /\ SweepInv' /\ ReservationsGoOn
<1>1. /\ UNCHANGED <<rstatus, expiredEvents>>
      /\ todo' = [todo EXCEPT ![s] = {}] /\ emitting' = [emitting EXCEPT ![s] = {}]
  BY DEF Inv!ExpireDueAbort, Inv!stockVars
<1>2. Inv!TypeOK'
  BY <1>1, SagaConstants DEF Inv!ExpireDueAbort, Inv!stockVars, Inv!TypeOK
<1>3. ASSUME NEW o \in Orders
      PROVE  expiredEvents'[o] + Cardinality(Busy(o)') <= Cardinality(Sweepers)
  <2>1. expiredEvents[o] \in Nat /\ expiredEvents'[o] = expiredEvents[o]
    BY <1>1 DEF Inv!TypeOK
  <2>2. Busy(o)' \subseteq Busy(o) /\ Busy(o) \subseteq Sweepers
    BY <1>1 DEF Busy, Inv!TypeOK
  <2>3. IsFiniteSet(Busy(o)) /\ Cardinality(Busy(o)) \in Nat /\ Cardinality(Sweepers) \in Nat
    BY <2>2, FS_Subset, FS_CardinalityType, SagaConstants
  <2>4. Cardinality(Busy(o)') <= Cardinality(Busy(o)) /\ Cardinality(Busy(o)') \in Nat
    BY <2>2, <2>3, FS_Subset, FS_CardinalityType
  <2>5. expiredEvents[o] + Cardinality(Busy(o)) <= Cardinality(Sweepers)
    BY DEF SweepInv
  <2> QED
    BY <2>1, <2>3, <2>4, <2>5
<1> QED
  BY <1>1, <1>2, <1>3 DEF SweepInv, ReservationsGoOn, Resolved, Inv!TypeOK

(* A reservation that falls due is not touched yet.                        *)
LEMMA PassExpiryKeeps ==
    ASSUME Inv!TypeOK, SweepInv, NEW r \in Orders, Inv!PassExpiry(r)
    PROVE  Inv!TypeOK' /\ SweepInv' /\ ReservationsGoOn
<1>1. UNCHANGED <<rstatus, todo, emitting, expiredEvents>>
  BY DEF Inv!PassExpiry, Inv!sweepVars
<1>2. \A o \in Orders : Busy(o)' = Busy(o)
  BY <1>1 DEF Busy
<1> QED
  BY <1>1, <1>2 DEF SweepInv, ReservationsGoOn, Resolved, Inv!TypeOK, Inv!PassExpiry, Inv!sweepVars, Inv!stockVars

-----------------------------------------------------------------------------
(* Payment's calls as the saga sees them: Create opens a payment, once.    *)
LEMMA CreateCall ==
    ASSUME Pay!PaymentTypeOK, NEW o \in Orders, Pay!Create(o, 1, FALSE)
    PROVE  /\ Pay!PaymentTypeOK' /\ payEvents' = payEvents /\ pstatus[o] = "NONE"
           /\ pstatus' = [pstatus EXCEPT ![o] = "REQUIRES_CONFIRMATION"]
  BY DEF Pay!Create, Pay!PaymentTypeOK, Pay!PStatus

(* Void voids the payment and announces nothing.                           *)
LEMMA VoidCall ==
    ASSUME Pay!PaymentTypeOK, NEW o \in Orders, Pay!Void(o)
    PROVE  /\ Pay!PaymentTypeOK' /\ payEvents' = payEvents /\ pstatus[o] # "NONE"
           /\ pstatus' = [pstatus EXCEPT ![o] = "VOIDED"]
<1>1. payEvents' = payEvents
  BY DEF Pay!Void, Pay!Transition, Pay!PaymentTypeOK, Pay!EventFor
<1> QED
  BY <1>1 DEF Pay!Void, Pay!Transition, Pay!canTransition, Pay!PaymentTypeOK, Pay!PStatus

(* Confirm settles a payment that waits for it.                            *)
LEMMA ConfirmCall ==
    ASSUME Pay!PaymentTypeOK, NEW o \in Orders, NEW outcome, Pay!ConfirmPayment(o, outcome)
    PROVE  /\ Pay!PaymentTypeOK' /\ pstatus[o] = "REQUIRES_CONFIRMATION"
           /\ \E to \in {"AUTHORIZED", "FAILED"} : pstatus' = [pstatus EXCEPT ![o] = to]
           /\ \A x \in Orders : payEvents[x] \subseteq payEvents'[x]
<1>1. PICK to \in {"AUTHORIZED", "FAILED"} : Pay!Transition(o, to)
  BY DEF Pay!ConfirmPayment
<1>2. pstatus[o] = "REQUIRES_CONFIRMATION" /\ pstatus' = [pstatus EXCEPT ![o] = to]
  BY <1>1 DEF Pay!Transition, Pay!canTransition
<1>3. /\ payEvents' \in [Orders -> SUBSET {"authorized", "failed"}]
      /\ \A x \in Orders : payEvents[x] \subseteq payEvents'[x]
  BY <1>1 DEF Pay!Transition, Pay!EventFor, Pay!PaymentTypeOK
<1> QED
  BY <1>1, <1>2, <1>3 DEF Pay!Transition, Pay!PaymentTypeOK, Pay!PStatus

-----------------------------------------------------------------------------
(* The parts of the invariant that only the order's own row can break hold *)
(* after any step that leaves it alone, sells only what is paid and voids  *)
(* only what is cancelled.                                                 *)
LEMMA RowUntouched ==
    ASSUME IndInv, TypeOK', Grows, UNCHANGED dbVars,
           \A o \in Orders : rstatus'[o] = "COMMITTED" =>
               rstatus[o] = "COMMITTED" \/ "authorized" \in payEvents[o],
           \A o \in Orders : pstatus'[o] = "VOIDED" =>
               pstatus[o] = "VOIDED" \/ ostatus[o] = "NONE" \/ "cancelled" \in orderEvents[o]
    PROVE  /\ MoneyFollowsOrder' /\ CompensationsRecordedTruthfully'
           /\ FulfilledMeansDelivered' /\ AnnouncedInv'
<1>1. UNCHANGED <<ostatus, releasedAt, voidedAt, delivered, orderEvents>>
  BY DEF dbVars
<1>2. MoneyFollowsOrder'
  BY <1>1 DEF IndInv, MoneyFollowsOrder, Grows
<1>3. CompensationsRecordedTruthfully'
  BY <1>1 DEF IndInv, MoneyFollowsOrder, TypeOK, CompensationsRecordedTruthfully, Grows, Resolved
<1>4. FulfilledMeansDelivered' /\ AnnouncedInv'
  BY <1>1 DEF IndInv, FulfilledMeansDelivered, AnnouncedInv
<1> QED
  BY <1>2, <1>3, <1>4

(* The topics stay truthful while nothing is published.                    *)
LEMMA TopicsStay == ASSUME IndInv, Grows, published' = published PROVE TopicInv'
  BY DEF IndInv, MoneyFollowsOrder, TypeOK, Event, TopicInv, Grows

(* The workers stay right while none of them moves.                        *)
LEMMA WorkersStay == ASSUME IndInv, Grows, worker' = worker PROVE WorkerInv'
<1>1. \A w \in Workers : /\ WorkerOK(worker[w]) /\ worker[w].order \subseteq Orders
                         /\ worker[w].list \subseteq Pending
  BY DEF IndInv, MoneyFollowsOrder, TypeOK, WorkerState, WorkerInv
<1>2. \A w \in Workers : WorkerOK(worker[w])'
  BY <1>1, WorkerStays DEF WorkerOK, ListOK, ReadOK, StepsOK, Resolved
<1> QED
  BY <1>2 DEF WorkerInv

(* One worker moves and is right again; the others stay right.             *)
LEMMA OneWorkerMoves ==
    ASSUME IndInv, Grows, NEW w \in Workers, NEW me, worker' = [worker EXCEPT ![w] = me], WorkerOK(me)'
    PROVE  WorkerInv'
<1>1. \A v \in Workers : /\ WorkerOK(worker[v]) /\ worker[v].order \subseteq Orders
                         /\ worker[v].list \subseteq Pending
  BY DEF IndInv, MoneyFollowsOrder, TypeOK, WorkerState, WorkerInv
<1>2. ASSUME NEW v \in Workers PROVE WorkerOK(worker[v])'
  <2>1. CASE v = w
    <3>1. worker'[v] = me
      BY <2>1 DEF IndInv, MoneyFollowsOrder, TypeOK
    <3> QED BY <3>1 DEF WorkerOK, ListOK, ReadOK, StepsOK, Resolved
  <2>2. CASE v # w
    <3>1. worker'[v] = worker[v]
      BY <2>2 DEF IndInv, MoneyFollowsOrder, TypeOK
    <3> QED BY <1>1, <3>1, WorkerStays DEF WorkerOK, ListOK, ReadOK, StepsOK, Resolved
  <2> QED BY <2>1, <2>2
<1> QED
  BY <1>2 DEF WorkerInv

(* A worker without an order owes nothing.                                 *)
LEMMA IdleFits ==
    /\ IdleWorker \in WorkerState /\ WorkerOK(IdleWorker)'
    /\ IdleWorker.order = {} /\ IdleWorker.ev = {} /\ IdleWorker.steps = <<>> /\ IdleWorker.tries = 0
    /\ IdleWorker.list = {}
  BY SagaConstants DEF IdleWorker, WorkerState, OStatus, WorkerOK, ListOK

(* The counted faults stay within their bound.                             *)
LEMMA FaultCounts == ASSUME TypeOK, Fault \/ NoFault PROVE faults' \in 0..MaxFaults
  BY SagaConstants DEF TypeOK, Fault, NoFault

(* Nothing of inventory changes.                                           *)
LEMMA InventoryStays ==
    ASSUME TypeOK, SweepInv, UNCHANGED invVars
    PROVE  Inv!TypeOK' /\ SweepInv' /\ ReservationsGoOn /\ rstatus' = rstatus
<1>1. UNCHANGED <<rstatus, todo, emitting, expiredEvents>> /\ Inv!TypeOK'
  BY DEF invVars, TypeOK, Inv!TypeOK
<1>2. \A x \in Orders : Busy(x)' = Busy(x)
  BY <1>1 DEF Busy
<1> QED
  BY <1>1, <1>2 DEF SweepInv, ReservationsGoOn, Resolved

(* No step takes an event or a void of a payment back.                     *)
PaymentsGoOn ==
    /\ \A x \in Orders : payEvents[x] \subseteq payEvents'[x]
    /\ \A x \in Orders : pstatus[x] = "VOIDED" => pstatus'[x] = "VOIDED"

(* Nothing of payment changes.                                             *)
LEMMA PaymentStays ==
    ASSUME TypeOK, UNCHANGED payVars
    PROVE  Pay!PaymentTypeOK' /\ PaymentsGoOn /\ pstatus' = pstatus
  BY DEF TypeOK, Pay!PaymentTypeOK, payVars, PaymentsGoOn

(* A step outside the order service, or of CreateOrder before the row is   *)
(* there: what it publishes is true, it sells only what is paid and voids  *)
(* only what is cancelled.                                                 *)
LEMMA OutsideStep ==
    ASSUME IndInv, TypeOK', SweepInv', CheckoutInv', UNCHANGED <<dbVars, worker>>,
           ReservationsGoOn, PaymentsGoOn, published \subseteq published',
           \A e \in published' \ published :
               /\ e.topic = "authorized" => "authorized" \in payEvents'[e.order]
               /\ e.topic = "expired" => Resolved(e.order)',
           \A o \in Orders : rstatus'[o] = "COMMITTED" => rstatus[o] = "COMMITTED",
           \A o \in Orders : pstatus'[o] = "VOIDED" => pstatus[o] = "VOIDED" \/ ostatus[o] = "NONE"
    PROVE  IndInv'
<1>1. Grows
  BY DEF Grows, ReservationsGoOn, PaymentsGoOn, dbVars
<1>2. MoneyFollowsOrder' /\ CompensationsRecordedTruthfully' /\ FulfilledMeansDelivered' /\ AnnouncedInv'
  BY <1>1, RowUntouched
<1>3. TopicInv'
  BY DEF IndInv, MoneyFollowsOrder, TypeOK, Event, TopicInv, ReservationsGoOn, PaymentsGoOn
<1>4. WorkerInv'
  BY <1>1, WorkersStay
<1> QED
  BY <1>2, <1>3, <1>4 DEF IndInv

(* CreateOrder's Reserve, answered, refused or lost.                       *)
LEMMA CreateReserveKeeps == ASSUME IndInv, NEW o \in Orders, CreateReserve(o) PROVE IndInv'
<1>1. TypeOK /\ Inv!TypeOK /\ SweepInv /\ checkout[o] = "start" /\ UNCHANGED <<payVars, dbVars, worker, busVars>>
  BY DEF IndInv, MoneyFollowsOrder, TypeOK, CreateReserve
<1>2. PICK to \in {"reserved", "failed"} : checkout' = [checkout EXCEPT ![o] = to]
                                          /\ (to = "reserved" => Inv!Reserve(o, Basket))
  BY DEF CreateReserve, Goto
<1>3. /\ Inv!TypeOK' /\ SweepInv' /\ ReservationsGoOn
      /\ rstatus' = rstatus \/ (rstatus[o] = "NONE" /\ rstatus' = [rstatus EXCEPT ![o] = "HELD"])
      /\ to = "reserved" => rstatus'[o] # "NONE"
  <2>1. CASE Inv!Reserve(o, Basket)
    <3>1. rstatus[o] = "NONE" /\ InvCall(o, "NONE", "HELD")
      BY <1>1, <2>1, ReserveCall
    <3> QED
      BY <1>1, <3>1, InvCallKeeps DEF InvCall, Inv!TypeOK
  <2>2. CASE UNCHANGED invVars /\ to = "failed"
    BY <1>1, <2>2, InventoryStays
  <2> QED
    BY <1>1, <1>2, <2>1, <2>2 DEF CreateReserve, Goto, TypeOK
<1>4. Pay!PaymentTypeOK' /\ PaymentsGoOn /\ pstatus' = pstatus /\ faults' \in 0..MaxFaults
  BY <1>1, PaymentStays, FaultCounts DEF CreateReserve
<1>5. TypeOK'
  BY <1>1, <1>2, <1>3, <1>4 DEF TypeOK, dbVars, busVars
<1>6. CheckoutInv'
  BY <1>1, <1>2, <1>3, <1>4 DEF IndInv, CheckoutInv, TypeOK, dbVars, ReservationsGoOn
<1>7. \A x \in Orders : rstatus'[x] = "COMMITTED" => rstatus[x] = "COMMITTED"
  BY <1>1, <1>3 DEF Inv!TypeOK
<1> QED
  BY <1>1, <1>3, <1>4, <1>5, <1>6, <1>7, OutsideStep DEF busVars

(* CreateOrder's payment, answered or lost.                                *)
LEMMA CreatePaymentKeeps == ASSUME IndInv, NEW o \in Orders, CreatePayment(o) PROVE IndInv'
<1>1. TypeOK /\ Pay!PaymentTypeOK /\ SweepInv /\ checkout[o] = "reserved" /\ UNCHANGED <<invVars, dbVars, worker, busVars>>
  BY DEF IndInv, MoneyFollowsOrder, TypeOK, CreatePayment
<1>2. PICK to \in {"paid", "undoReserve"} : checkout' = [checkout EXCEPT ![o] = to]
                                           /\ (to = "paid" => Pay!Create(o, 1, FALSE))
  BY DEF CreatePayment, Goto
<1>3. /\ Pay!PaymentTypeOK' /\ payEvents' = payEvents
      /\ pstatus' = pstatus \/ (pstatus[o] = "NONE" /\ pstatus' = [pstatus EXCEPT ![o] = "REQUIRES_CONFIRMATION"])
      /\ to = "paid" => pstatus'[o] = "REQUIRES_CONFIRMATION"
  <2>1. CASE Pay!Create(o, 1, FALSE)
    BY <1>1, <2>1, CreateCall DEF Pay!PaymentTypeOK
  <2>2. CASE UNCHANGED payVars /\ to = "undoReserve"
    BY <1>1, <2>2, PaymentStays DEF payVars
  <2> QED
    BY <1>1, <1>2, <2>1, <2>2 DEF CreatePayment, Goto, TypeOK
<1>4. Inv!TypeOK' /\ SweepInv' /\ ReservationsGoOn /\ rstatus' = rstatus /\ faults' \in 0..MaxFaults
  BY <1>1, InventoryStays, FaultCounts DEF CreatePayment
<1>5. TypeOK'
  BY <1>1, <1>2, <1>3, <1>4 DEF TypeOK, dbVars, busVars
<1>6. CheckoutInv'
  BY <1>1, <1>2, <1>3, <1>4 DEF IndInv, CheckoutInv, TypeOK, dbVars, Pay!PaymentTypeOK
<1>7. PaymentsGoOn /\ \A x \in Orders : pstatus'[x] = "VOIDED" => pstatus[x] = "VOIDED"
  BY <1>1, <1>3 DEF Pay!PaymentTypeOK, PaymentsGoOn
<1> QED
  BY <1>1, <1>3, <1>4, <1>5, <1>6, <1>7, OutsideStep DEF busVars

(* CreateOrder gives the reservation back.                                 *)
LEMMA UndoReserveKeeps == ASSUME IndInv, NEW o \in Orders, UndoReserve(o) PROVE IndInv'
<1>1. /\ TypeOK /\ Inv!TypeOK /\ SweepInv /\ checkout[o] \in {"undoReserve", "undoBoth"}
      /\ UNCHANGED <<payVars, dbVars, worker, busVars>>
  BY DEF IndInv, MoneyFollowsOrder, TypeOK, UndoReserve
<1>2. PICK to \in {"undoPay", "failed"} : checkout' = [checkout EXCEPT ![o] = to]
  BY DEF UndoReserve, Goto
<1>3. /\ Inv!TypeOK' /\ SweepInv' /\ ReservationsGoOn
      /\ \A x \in Orders : rstatus'[x] = "COMMITTED" => rstatus[x] = "COMMITTED"
  <2>1. CASE Inv!Release(o)
    <3>1. InvCall(o, "HELD", "RELEASED")
      BY <1>1, <2>1, ReleaseCall
    <3> QED
      BY <1>1, <3>1, InvCallKeeps DEF InvCall, Inv!TypeOK
  <2>2. CASE UNCHANGED invVars
    BY <1>1, <2>2, InventoryStays
  <2> QED
    BY <2>1, <2>2 DEF UndoReserve
<1>4. Pay!PaymentTypeOK' /\ PaymentsGoOn /\ pstatus' = pstatus /\ faults' \in 0..MaxFaults
  BY <1>1, PaymentStays, FaultCounts DEF UndoReserve
<1>5. TypeOK'
  BY <1>1, <1>2, <1>3, <1>4 DEF TypeOK, dbVars, busVars
<1>6. CheckoutInv'
  BY <1>1, <1>2, <1>3, <1>4 DEF IndInv, CheckoutInv, TypeOK, dbVars, ReservationsGoOn
<1> QED
  BY <1>1, <1>3, <1>4, <1>5, <1>6, OutsideStep DEF busVars

(* CreateOrder voids the payment of an order it did not store.             *)
LEMMA UndoPayKeeps == ASSUME IndInv, NEW o \in Orders, UndoPay(o) PROVE IndInv'
<1>1. /\ TypeOK /\ Pay!PaymentTypeOK /\ SweepInv /\ checkout[o] = "undoPay" /\ ostatus[o] = "NONE"
      /\ UNCHANGED <<invVars, dbVars, worker, busVars>> /\ checkout' = [checkout EXCEPT ![o] = "failed"]
  BY DEF IndInv, MoneyFollowsOrder, TypeOK, CheckoutInv, UndoPay, Goto
<1>2. /\ Pay!PaymentTypeOK' /\ payEvents' = payEvents
      /\ pstatus' = pstatus \/ pstatus' = [pstatus EXCEPT ![o] = "VOIDED"]
  <2>1. CASE Pay!Void(o)
    BY <1>1, <2>1, VoidCall
  <2>2. CASE UNCHANGED payVars
    BY <1>1, <2>2, PaymentStays DEF payVars
  <2> QED
    BY <2>1, <2>2 DEF UndoPay
<1>3. Inv!TypeOK' /\ SweepInv' /\ ReservationsGoOn /\ rstatus' = rstatus /\ faults' \in 0..MaxFaults
  BY <1>1, InventoryStays, FaultCounts DEF UndoPay
<1>4. TypeOK'
  BY <1>1, <1>2, <1>3 DEF TypeOK, dbVars, busVars
<1>5. CheckoutInv'
  BY <1>1, <1>2, <1>3 DEF IndInv, CheckoutInv, TypeOK, dbVars, Pay!PaymentTypeOK
<1>6. PaymentsGoOn /\ \A x \in Orders : pstatus'[x] = "VOIDED" => pstatus[x] = "VOIDED" \/ ostatus[x] = "NONE"
  BY <1>1, <1>2 DEF Pay!PaymentTypeOK, PaymentsGoOn
<1> QED
  BY <1>1, <1>3, <1>4, <1>5, <1>6, OutsideStep DEF busVars

(* CreateOrder stops where it is.                                          *)
LEMMA CrashCheckoutKeeps == ASSUME IndInv, NEW o \in Orders, CrashCheckout(o) PROVE IndInv'
<1>1. /\ TypeOK /\ SweepInv /\ checkout[o] # "done" /\ checkout' = [checkout EXCEPT ![o] = "failed"]
      /\ UNCHANGED <<invVars, payVars, dbVars, worker, busVars>>
  BY DEF IndInv, MoneyFollowsOrder, CrashCheckout, Goto
<1>2. /\ Inv!TypeOK' /\ SweepInv' /\ ReservationsGoOn /\ rstatus' = rstatus
      /\ Pay!PaymentTypeOK' /\ PaymentsGoOn /\ pstatus' = pstatus /\ faults' \in 0..MaxFaults
  BY <1>1, InventoryStays, PaymentStays, FaultCounts DEF CrashCheckout
<1>3. TypeOK'
  BY <1>1, <1>2 DEF TypeOK, dbVars, busVars
<1>4. CheckoutInv'
  BY <1>1, <1>2 DEF IndInv, CheckoutInv, TypeOK, dbVars
<1> QED
  BY <1>1, <1>2, <1>3, <1>4, OutsideStep DEF busVars

(* A row that is touched leaves updated_at's order one of orders.          *)
LEMMA Touched == ASSUME TypeOK, NEW o \in Orders, Touch(o) PROVE older' \subseteq Orders \X Orders
  BY DEF TypeOK, Touch

(* CreateOrder stores the order, or fails to.                              *)
LEMMA InsertOrderKeeps == ASSUME IndInv, NEW o \in Orders, InsertOrder(o) PROVE IndInv'
<1>1. /\ TypeOK /\ SweepInv /\ CheckoutInv /\ checkout[o] = "paid"
      /\ UNCHANGED <<invVars, payVars, releasedAt, voidedAt, delivered, processed, worker, busVars>>
  BY DEF IndInv, MoneyFollowsOrder, InsertOrder
<1>2. /\ Inv!TypeOK' /\ SweepInv' /\ ReservationsGoOn /\ rstatus' = rstatus
      /\ Pay!PaymentTypeOK' /\ PaymentsGoOn /\ pstatus' = pstatus /\ payEvents' = payEvents /\ faults' \in 0..MaxFaults
  BY <1>1, InventoryStays, PaymentStays, FaultCounts DEF InsertOrder, payVars
<1>3. CASE UNCHANGED <<ostatus, older, orderEvents>> /\ checkout' = [checkout EXCEPT ![o] = "undoBoth"]
  <2>1. TypeOK'
    BY <1>1, <1>2, <1>3 DEF TypeOK, busVars
  <2>2. CheckoutInv'
    BY <1>1, <1>2, <1>3 DEF CheckoutInv, TypeOK
  <2> QED
    BY <1>1, <1>2, <1>3, <2>1, <2>2, OutsideStep DEF busVars, dbVars
<1>4. CASE /\ ostatus' = [ostatus EXCEPT ![o] = "PENDING_PAYMENT"] /\ Touch(o)
           /\ orderEvents' = [orderEvents EXCEPT ![o] = @ \cup {"created"}]
           /\ checkout' = [checkout EXCEPT ![o] = "done"]
  <2>1. TypeOK'
    BY <1>1, <1>2, <1>4, Touched DEF TypeOK, busVars, OStatus
  <2>2. CheckoutInv'
    BY <1>1, <1>2, <1>4 DEF CheckoutInv, TypeOK
  <2>3. Grows
    BY <1>1, <1>2, <1>4 DEF Grows, ReservationsGoOn, PaymentsGoOn, TypeOK, busVars
  <2>4. /\ pstatus[o] = "REQUIRES_CONFIRMATION"
        /\ \A x \in Orders : orderEvents'[x] \subseteq orderEvents[x] \cup {"created"}
        /\ \A x \in Orders \ {o} : ostatus'[x] = ostatus[x]
        /\ ostatus'[o] = "PENDING_PAYMENT"
    BY <1>1, <1>4 DEF CheckoutInv, TypeOK
  <2>5. MoneyFollowsOrder' /\ AnnouncedInv'
    BY <1>2, <2>1, <2>3, <2>4 DEF IndInv, MoneyFollowsOrder, AnnouncedInv, Grows
  <2>6. CompensationsRecordedTruthfully'
    BY <1>1, <1>2 DEF IndInv, CompensationsRecordedTruthfully
  <2>7. FulfilledMeansDelivered'
    BY <1>1, <2>3, <2>4 DEF IndInv, FulfilledMeansDelivered, Grows
  <2> QED
    BY <1>1, <1>2, <2>2, <2>3, <2>5, <2>6, <2>7, TopicsStay, WorkersStay DEF IndInv, busVars
<1> QED
  BY <1>3, <1>4 DEF InsertOrder, Goto

-----------------------------------------------------------------------------
(* The shopper confirms the payment, and payment says so.                  *)
LEMMA ConfirmPaymentKeeps ==
    ASSUME IndInv, NEW o \in Orders, NEW outcome, ConfirmPayment(o, outcome) PROVE IndInv'
<1>1. /\ TypeOK /\ Pay!PaymentTypeOK /\ SweepInv /\ CheckoutInv /\ ostatus[o] # "NONE"
      /\ UNCHANGED <<invVars, dbVars, checkout, worker, closed, faults>>
  BY DEF IndInv, MoneyFollowsOrder, TypeOK, ConfirmPayment
<1>2. /\ Pay!PaymentTypeOK' /\ \A x \in Orders : payEvents[x] \subseteq payEvents'[x]
      /\ pstatus[o] = "REQUIRES_CONFIRMATION" 
      /\ \E to \in {"AUTHORIZED", "FAILED"} : pstatus' = [pstatus EXCEPT ![o] = to]
  BY <1>1, ConfirmCall DEF ConfirmPayment
<1>3. Inv!TypeOK' /\ SweepInv' /\ ReservationsGoOn /\ rstatus' = rstatus
  BY <1>1, InventoryStays
<1>4. /\ published' = published \cup {EventOf(t, o, NoShop, 1) : t \in payEvents'[o]}
      /\ payEvents'[o] \subseteq {"authorized", "failed"}
  BY <1>2 DEF ConfirmPayment, Pay!PaymentTypeOK
<1>5. published' \subseteq Event
  BY <1>1, <1>4, SagaConstants DEF TypeOK, Event, EventOf, Topics
<1>6. TypeOK'
  BY <1>1, <1>2, <1>3, <1>4, <1>5 DEF TypeOK, dbVars
<1>7. CheckoutInv'
  BY <1>1, <1>2, <1>3 DEF CheckoutInv, TypeOK, Pay!PaymentTypeOK, dbVars
<1>8. PaymentsGoOn /\ \A x \in Orders : pstatus'[x] = "VOIDED" => pstatus[x] = "VOIDED"
  BY <1>1, <1>2 DEF PaymentsGoOn, Pay!PaymentTypeOK
<1>9. \A e \in published' \ published :
         /\ e.topic = "authorized" => "authorized" \in payEvents'[e.order]
         /\ e.topic = "expired" => Resolved(e.order)'
  BY <1>4 DEF EventOf
<1> QED
  BY <1>1, <1>3, <1>4, <1>6, <1>7, <1>8, <1>9, OutsideStep

(* Inventory's sweeper takes a step, or stops.                             *)
LEMMA InventorySweepKeeps ==
    ASSUME IndInv, NEW s \in Sweepers, InventorySweep(s) \/ InventoryAbort(s) PROVE IndInv'
<1>1. /\ TypeOK /\ Inv!TypeOK /\ SweepInv /\ CheckoutInv
      /\ UNCHANGED <<payVars, dbVars, checkout, worker, closed, faults>>
  BY DEF IndInv, MoneyFollowsOrder, TypeOK, InventorySweep, InventoryAbort, busVars
<1>2. Pay!PaymentTypeOK' /\ PaymentsGoOn /\ pstatus' = pstatus
  BY <1>1, PaymentStays
<1>3. ASSUME Inv!TypeOK', SweepInv', ReservationsGoOn,
             published \subseteq published', published' \subseteq Event,
             \A e \in published' \ published : e.topic = "expired" /\ Resolved(e.order)',
             \A x \in Orders : rstatus'[x] = "COMMITTED" => rstatus[x] = "COMMITTED"
      PROVE  IndInv'
  <2>1. TypeOK'
    BY <1>1, <1>2, <1>3 DEF TypeOK, dbVars
  <2>2. CheckoutInv'
    BY <1>1, <1>2, <1>3 DEF CheckoutInv, dbVars, ReservationsGoOn
  <2> QED
    BY <1>1, <1>2, <1>3, <2>1, <2>2, OutsideStep
<1>4. CASE Inv!ExpireDueSelect(s) /\ published' = published
  BY <1>1, <1>3, <1>4, SelectKeeps DEF TypeOK, Inv!ExpireDueSelect
<1>5. CASE Inv!ExpireDueAbort(s) /\ published' = published
  BY <1>1, <1>3, <1>5, SweepAbortKeeps DEF TypeOK, Inv!ExpireDueAbort
<1>6. ASSUME NEW o \in Orders, Inv!ExpireDueRelease(s, o), published' = published PROVE IndInv'
  <2>1. \A x \in Orders : rstatus'[x] = "COMMITTED" => rstatus[x] = "COMMITTED"
    BY <1>1, <1>6 DEF Inv!ExpireDueRelease, Inv!FinishRelease, Inv!Finish, Inv!TypeOK
  <2> QED
    BY <1>1, <1>3, <1>6, <2>1, SweepReleaseKeeps DEF TypeOK
<1>7. ASSUME NEW o \in Orders, Inv!ExpireDueEmit(s, o),
             published' = published \cup {EventOf("expired", o, NoShop, expiredEvents'[o])}
      PROVE IndInv'
  <2>1. /\ Inv!TypeOK' /\ SweepInv' /\ ReservationsGoOn /\ Resolved(o)
        /\ expiredEvents'[o] \in 1..MaxCopies /\ rstatus' = rstatus
    BY <1>1, <1>7, SweepEmitKeeps DEF Inv!ExpireDueEmit
  <2>2. EventOf("expired", o, NoShop, expiredEvents'[o]) \in Event
    BY <2>1 DEF EventOf, Event, Topics
  <2>3. \A e \in published' \ published : e.topic = "expired" /\ e.order = o
    BY <1>7 DEF EventOf
  <2> QED
    BY <1>1, <1>3, <1>7, <2>1, <2>2, <2>3 DEF TypeOK, Resolved
<1> QED
  BY <1>4, <1>5, <1>6, <1>7 DEF InventorySweep, InventoryAbort, busVars

(* A reservation falls due.                                                *)
LEMMA PassExpiryStep == ASSUME IndInv, NEW o \in Orders, PassExpiry(o) PROVE IndInv'
<1>1. /\ TypeOK /\ Inv!TypeOK /\ SweepInv /\ CheckoutInv /\ Inv!PassExpiry(o)
      /\ UNCHANGED <<payVars, dbVars, checkout, worker, busVars, faults>>
  BY DEF IndInv, MoneyFollowsOrder, TypeOK, PassExpiry
<1>2. Inv!TypeOK' /\ SweepInv' /\ ReservationsGoOn /\ rstatus' = rstatus
  BY <1>1, PassExpiryKeeps DEF Inv!PassExpiry
<1>3. Pay!PaymentTypeOK' /\ PaymentsGoOn /\ pstatus' = pstatus
  BY <1>1, PaymentStays
<1>4. TypeOK'
  BY <1>1, <1>2, <1>3 DEF TypeOK, dbVars, busVars
<1>5. CheckoutInv'
  BY <1>1, <1>2, <1>3 DEF CheckoutInv, dbVars
<1> QED
  BY <1>1, <1>2, <1>3, <1>4, <1>5, OutsideStep DEF busVars

(* Another record of a topic that says what an earlier one said, or that a *)
(* shipment was delivered.                                                 *)
LEMMA PublishKeeps ==
    ASSUME IndInv, NEW e \in Event, published' = published \cup {e},
           e.topic = "delivered" \/ \E f \in published : f.topic = e.topic /\ f.order = e.order,
           UNCHANGED <<invVars, payVars, dbVars, checkout, worker, closed, faults>>
    PROVE  IndInv'
<1>1. TypeOK /\ SweepInv /\ CheckoutInv /\ TopicInv
  BY DEF IndInv, MoneyFollowsOrder
<1>2. /\ Inv!TypeOK' /\ SweepInv' /\ ReservationsGoOn /\ rstatus' = rstatus
      /\ Pay!PaymentTypeOK' /\ PaymentsGoOn /\ pstatus' = pstatus /\ payEvents' = payEvents
  BY <1>1, InventoryStays, PaymentStays DEF payVars
<1>3. TypeOK'
  BY <1>1, <1>2 DEF TypeOK, dbVars
<1>4. CheckoutInv'
  BY <1>1, <1>2 DEF CheckoutInv, dbVars
<1>5. /\ e.topic = "authorized" => "authorized" \in payEvents'[e.order]
      /\ e.topic = "expired" => Resolved(e.order)'
  BY <1>1, <1>2 DEF TopicInv, Resolved
<1> QED
  BY <1>1, <1>2, <1>3, <1>4, <1>5, OutsideStep

(* Fulfillment reports a delivery.                                         *)
LEMMA ShipmentDeliveredKeeps ==
    ASSUME IndInv, NEW o \in Orders, NEW shop \in Shops, ShipmentDelivered(o, shop) PROVE IndInv'
<1>1. EventOf("delivered", o, shop, 1) \in Event /\ EventOf("delivered", o, shop, 1).topic = "delivered"
  BY SagaConstants DEF EventOf, Event, Topics
<1> QED
  BY <1>1, PublishKeeps DEF ShipmentDelivered

(* The relay publishes a row again.                                        *)
LEMMA RepublishKeeps == ASSUME IndInv, NEW e \in published, Republish(e) PROVE IndInv'
<1> DEFINE f == [e EXCEPT !.copy = e.copy + 1]
<1>1. e \in Event
  BY DEF IndInv, MoneyFollowsOrder, TypeOK
<1>2. f \in Event /\ f.topic = e.topic /\ f.order = e.order
  BY <1>1, SagaConstants DEF Event, Republish
<1> HIDE DEF f
<1>3. published' = published \cup {f}
  BY DEF Republish, f
<1> QED
  BY <1>2, <1>3, PublishKeeps DEF Republish

-----------------------------------------------------------------------------
(* A step of a worker that leaves the order's row alone.                   *)
LEMMA WorkerStep ==
    ASSUME IndInv, NEW w \in Workers, NEW me \in WorkerState, worker' = [worker EXCEPT ![w] = me],
           Inv!TypeOK', SweepInv', ReservationsGoOn, Pay!PaymentTypeOK', payEvents' = payEvents,
           UNCHANGED <<dbVars, checkout, published>>, closed' \subseteq published,
           faults' \in 0..MaxFaults,
           \A o \in Orders : rstatus'[o] = "COMMITTED" =>
               rstatus[o] = "COMMITTED" \/ "authorized" \in payEvents[o],
           \A o \in Orders : \/ pstatus'[o] = pstatus[o]
                             \/ /\ pstatus'[o] = "VOIDED" /\ ostatus[o] # "NONE"
                                /\ "cancelled" \in orderEvents[o],
           Grows => WorkerOK(me)'
    PROVE  IndInv'
<1>1. TypeOK /\ CheckoutInv
  BY DEF IndInv, MoneyFollowsOrder
<1>2. TypeOK'
  BY <1>1 DEF TypeOK, dbVars
<1>3. Grows
  BY <1>1 DEF Grows, ReservationsGoOn, dbVars
<1>4. CheckoutInv'
  BY <1>1 DEF CheckoutInv, ReservationsGoOn, dbVars
<1>5. MoneyFollowsOrder' /\ CompensationsRecordedTruthfully' /\ FulfilledMeansDelivered' /\ AnnouncedInv'
  BY <1>2, <1>3, RowUntouched
<1>6. TopicInv' /\ WorkerInv'
  BY <1>3, TopicsStay, OneWorkerMoves
<1> QED
  BY <1>4, <1>5, <1>6 DEF IndInv

(* A step of a worker that calls no other service.                         *)
LEMMA LocalStep ==
    ASSUME IndInv, NEW w \in Workers, NEW me \in WorkerState, worker' = [worker EXCEPT ![w] = me],
           UNCHANGED <<invVars, payVars, dbVars, checkout, published>>, closed' \subseteq published,
           faults' \in 0..MaxFaults, Grows => WorkerOK(me)'
    PROVE  IndInv'
<1>1. TypeOK /\ SweepInv
  BY DEF IndInv, MoneyFollowsOrder
<1>2. Inv!TypeOK' /\ SweepInv' /\ ReservationsGoOn /\ rstatus' = rstatus
  BY <1>1, InventoryStays
<1>3. Pay!PaymentTypeOK' /\ pstatus' = pstatus /\ payEvents' = payEvents
  BY <1>1, PaymentStays DEF payVars
<1> QED
  BY <1>2, <1>3, WorkerStep

(* What the invariant says of one worker.                                  *)
LEMMA OfWorker ==
    ASSUME IndInv, NEW w \in Workers
    PROVE  /\ TypeOK /\ worker[w] \in WorkerState /\ WorkerOK(worker[w])
           /\ worker[w].ev \subseteq published /\ worker[w].ev \subseteq Event
           /\ closed \subseteq published /\ faults \in 0..MaxFaults
  BY DEF IndInv, MoneyFollowsOrder, TypeOK, WorkerInv, WorkerOK

(* A worker that holds a record between two attempts owes no order.        *)
LEMMA WaitingFits ==
    ASSUME NEW evs \in SUBSET Event, evs \subseteq published', NEW n \in 0..(Attempts - 1)
    PROVE  /\ [IdleWorker EXCEPT !.ev = evs, !.tries = n] \in WorkerState
           /\ WorkerOK([IdleWorker EXCEPT !.ev = evs, !.tries = n])'
<1>1. [IdleWorker EXCEPT !.ev = evs, !.tries = n] \in WorkerState
  BY IdleFits DEF WorkerState
<1>2. /\ [IdleWorker EXCEPT !.ev = evs, !.tries = n].order = {}
      /\ [IdleWorker EXCEPT !.ev = evs, !.tries = n].ev = evs
      /\ [IdleWorker EXCEPT !.ev = evs, !.tries = n].list = {}
  BY DEF IdleWorker
<1> QED
  BY <1>1, <1>2 DEF WorkerOK, ListOK

(* A handler that is done leaves a worker without an order.                *)
LEMMA DoneKeeps == ASSUME IndInv, NEW w \in Workers, Done(w) PROVE IndInv'
<1>1. closed' \subseteq published /\ faults' \in 0..MaxFaults
  BY OfWorker DEF Done
<1> QED
  BY <1>1, IdleFits, LocalStep DEF Done

(* A worker crashes.                                                       *)
LEMMA CrashWorkerKeeps == ASSUME IndInv, NEW w \in Workers, CrashWorker(w) PROVE IndInv'
<1>1. closed' \subseteq published /\ faults' \in 0..MaxFaults
  BY OfWorker, FaultCounts DEF CrashWorker, busVars
<1> QED
  BY <1>1, IdleFits, LocalStep DEF CrashWorker, busVars

(* The consumer keeps the record or parks it.                              *)
LEMMA HandlerFailsCall ==
    ASSUME IndInv, NEW w \in Workers, HandlerFails(w)
    PROVE  /\ closed' \subseteq published /\ published' = published
           /\ \E me \in WorkerState : worker' = [worker EXCEPT ![w] = me] /\ WorkerOK(me)'
<1>1. PICK me \in WorkerState : me = worker[w]
  BY OfWorker
<1>2. /\ me.ev \subseteq published /\ me.ev \subseteq Event /\ closed \subseteq published
      /\ me.tries \in 0..(Attempts - 1) /\ published' = published
  BY <1>1, OfWorker DEF WorkerState, HandlerFails
<1>3. CASE me.ev = {} \/ me.tries + 1 = Attempts
  BY <1>1, <1>2, <1>3, IdleFits DEF HandlerFails
<1>4. CASE ~(me.ev = {} \/ me.tries + 1 = Attempts)
  <2> DEFINE held == [IdleWorker EXCEPT !.ev = me.ev, !.tries = me.tries + 1]
  <2>1. me.tries + 1 \in 0..(Attempts - 1)
    BY <1>2, <1>4, SagaConstants
  <2>2. held \in WorkerState /\ WorkerOK(held)'
    BY <1>2, <2>1, WaitingFits
  <2>3. closed' = closed /\ worker' = [worker EXCEPT ![w] = held]
    BY <1>1, <1>4 DEF HandlerFails
  <2> HIDE DEF held
  <2> QED
    BY <1>2, <2>2, <2>3
<1> QED
  BY <1>3, <1>4

(* Apply is refused or rolled back.                                        *)
LEMMA ApplyFailsKeeps == ASSUME IndInv, NEW w \in Workers, ApplyFails(w) PROVE IndInv'
<1>1. faults' \in 0..MaxFaults /\ HandlerFails(w) /\ UNCHANGED <<invVars, payVars, dbVars, checkout>>
  BY OfWorker, FaultCounts DEF ApplyFails
<1>2. closed' \subseteq published /\ published' = published
  BY <1>1, HandlerFailsCall
<1>3. PICK me \in WorkerState : worker' = [worker EXCEPT ![w] = me] /\ WorkerOK(me)'
  BY <1>1, HandlerFailsCall
<1> QED
  BY <1>1, <1>2, <1>3, LocalStep

-----------------------------------------------------------------------------
(* A worker goes on with its list, or skips a mark whose RPC failed.       *)
LEMMA Advanced ==
    ASSUME IndInv, NEW w \in Workers, NEW o \in Orders, NEW step, NextIs(w, o, step),
           NEW n \in 1..2, Advance(w, n), n = 2 => step \in {"release", "void"}
    PROVE  /\ \E me \in WorkerState :
                /\ worker' = [worker EXCEPT ![w] = me]
                /\ (/\ Grows
                    /\ step = "release" /\ n = 1 => Resolved(o)'
                    /\ step = "void" /\ n = 1 => pstatus'[o] = "VOIDED") => WorkerOK(me)'
<1>1. PICK old \in WorkerState : old = worker[w]
  BY OfWorker
<1>2. /\ old.steps \in Seq(Steps) /\ old.steps # <<>> /\ Head(old.steps) = step /\ o \in old.order
      /\ WorkerOK(old) /\ old.pc = "run"
  BY <1>1, OfWorker DEF NextIs, WorkerState
<1> DEFINE rest == SubSeq(old.steps, n + 1, Len(old.steps))
           me == [old EXCEPT !.steps = rest]
<1>3. rest \in Seq(Steps)
  <2>1. Len(old.steps) \in Nat /\ \A i \in 1..Len(old.steps) : old.steps[i] \in Steps
    BY <1>2
  <2>2. \A i \in (n + 1)..Len(old.steps) : old.steps[i] \in Steps
    BY <2>1
  <2> QED
    BY <2>1, <2>2, SubSeqProperties
<1>4. worker' = [worker EXCEPT ![w] = me]
  BY <1>1, OfWorker DEF Advance, TypeOK
<1> HIDE DEF rest
<1>5. me \in WorkerState /\ me.ev = old.ev /\ me.order = old.order /\ me.pc = "run" /\ me.steps = rest
      /\ me.list = old.list /\ old.list \subseteq Pending
  BY <1>2, <1>3 DEF WorkerState
<1>6. ASSUME Grows, step = "release" /\ n = 1 => Resolved(o)',
             step = "void" /\ n = 1 => pstatus'[o] = "VOIDED"
      PROVE  WorkerOK(me)'
  <2>1. StepsOK(rest, o)'
    BY <1>2, <1>6, AdvanceKeeps DEF rest, WorkerOK
  <2>2. /\ old.ev \subseteq published' /\ old.order = {o} /\ ostatus'[o] # "NONE"
        /\ \A e \in old.ev : e.order = o
        /\ ListOK(old.list)'
    BY <1>2, <1>5, <1>6 DEF WorkerOK, ListOK, Pending, Grows
  <2> HIDE DEF me
  <2> QED
    BY <1>5, <2>1, <2>2 DEF WorkerOK
<1> QED
  BY <1>4, <1>5, <1>6

(* Commit, whose error goes back to the consumer.                          *)
LEMMA CallCommitKeeps == ASSUME IndInv, NEW w \in Workers, NEW o \in Orders, CallCommit(w, o) PROVE IndInv'
<1>1. /\ TypeOK /\ Inv!TypeOK /\ SweepInv /\ NextIs(w, o, "commit") /\ faults' \in 0..MaxFaults
      /\ UNCHANGED <<payVars, dbVars, checkout>> /\ closed \subseteq published
  BY OfWorker, FaultCounts DEF IndInv, TypeOK, CallCommit
<1>2. "authorized" \in payEvents[o]
  <2>1. /\ WorkerOK(worker[w]) /\ o \in worker[w].order /\ worker[w].steps \in Seq(Steps)
        /\ worker[w].steps # <<>> /\ Head(worker[w].steps) = "commit"
    BY <1>1, OfWorker DEF NextIs, WorkerState
  <2>2. 1 \in 1..Len(worker[w].steps) /\ worker[w].steps[1] = "commit"
    BY <2>1
  <2> QED
    BY <2>1, <2>2 DEF WorkerOK, StepsOK
<1>3. /\ Inv!TypeOK' /\ SweepInv' /\ ReservationsGoOn
      /\ \A x \in Orders : rstatus'[x] = "COMMITTED" => rstatus[x] = "COMMITTED" \/ "authorized" \in payEvents[x]
  <2>1. CASE Inv!Commit(o)
    <3>1. InvCall(o, "HELD", "COMMITTED")
      BY <1>1, <2>1, CommitCall
    <3> QED
      BY <1>1, <1>2, <3>1, InvCallKeeps DEF InvCall, Inv!TypeOK
  <2>2. CASE UNCHANGED invVars
    BY <1>1, <2>2, InventoryStays
  <2> QED
    BY <2>1, <2>2 DEF CallCommit
<1>4. Pay!PaymentTypeOK' /\ payEvents' = payEvents /\ pstatus' = pstatus
  BY <1>1, PaymentStays DEF payVars
<1>5. CASE Advance(w, 1) /\ UNCHANGED busVars
  <2>1. PICK me \in WorkerState : worker' = [worker EXCEPT ![w] = me] /\ (Grows => WorkerOK(me)')
    BY <1>1, <1>5, Advanced
  <2> QED
    BY <1>1, <1>3, <1>4, <1>5, <2>1, WorkerStep DEF busVars
<1>6. CASE HandlerFails(w)
  <2>1. closed' \subseteq published /\ published' = published
    BY <1>6, HandlerFailsCall
  <2>2. PICK me \in WorkerState : worker' = [worker EXCEPT ![w] = me] /\ WorkerOK(me)'
    BY <1>6, HandlerFailsCall
  <2> QED
    BY <1>1, <1>3, <1>4, <2>1, <2>2, WorkerStep
<1> QED
  BY <1>5, <1>6 DEF CallCommit

(* Release, with the mark to come only if it was answered.                 *)
LEMMA CallReleaseKeeps == ASSUME IndInv, NEW w \in Workers, NEW o \in Orders, CallRelease(w, o) PROVE IndInv'
<1>1. /\ TypeOK /\ Inv!TypeOK /\ SweepInv /\ NextIs(w, o, "release") /\ faults' \in 0..MaxFaults
      /\ UNCHANGED <<payVars, dbVars, checkout, busVars>> /\ closed \subseteq published
  BY OfWorker, FaultCounts DEF IndInv, TypeOK, CallRelease
<1>2. /\ Inv!TypeOK' /\ SweepInv' /\ ReservationsGoOn
      /\ \A x \in Orders : rstatus'[x] = "COMMITTED" => rstatus[x] = "COMMITTED"
  <2>1. CASE Inv!Release(o)
    <3>1. InvCall(o, "HELD", "RELEASED")
      BY <1>1, <2>1, ReleaseCall
    <3> QED
      BY <1>1, <3>1, InvCallKeeps DEF InvCall, Inv!TypeOK
  <2>2. CASE UNCHANGED invVars
    BY <1>1, <2>2, InventoryStays
  <2> QED
    BY <2>1, <2>2 DEF CallRelease
<1>3. Pay!PaymentTypeOK' /\ payEvents' = payEvents /\ pstatus' = pstatus
  BY <1>1, PaymentStays DEF payVars
<1>4. PICK n \in 1..2 : Advance(w, n) /\ (n = 1 => Inv!Release(o))
  BY DEF CallRelease
<1>5. n = 1 => Resolved(o)'
  <2>1. SUFFICES ASSUME n = 1 PROVE Resolved(o)'
    OBVIOUS
  <2>2. InvCall(o, "HELD", "RELEASED")
    BY <1>1, <1>4, <2>1, ReleaseCall
  <2>3. rstatus[o] \in {"HELD", "COMMITTED", "RELEASED"}
    <3>1. ostatus[o] # "NONE"
      BY <1>1, OfWorker DEF NextIs, WorkerOK
    <3> QED
      BY <1>1, <3>1 DEF IndInv, CheckoutInv, Inv!TypeOK, Inv!RStatus
  <2> QED
    BY <1>1, <2>2, <2>3 DEF InvCall, Resolved, Inv!TypeOK
<1>6. PICK me \in WorkerState : worker' = [worker EXCEPT ![w] = me] /\ (Grows => WorkerOK(me)')
  BY <1>1, <1>4, <1>5, Advanced
<1> QED
  BY <1>1, <1>2, <1>3, <1>6, WorkerStep DEF busVars

(* Void, with the mark to come only if the payment is voided.              *)
LEMMA CallVoidKeeps == ASSUME IndInv, NEW w \in Workers, NEW o \in Orders, CallVoid(w, o) PROVE IndInv'
<1>1. /\ TypeOK /\ Pay!PaymentTypeOK /\ SweepInv /\ NextIs(w, o, "void") /\ faults' \in 0..MaxFaults
      /\ UNCHANGED <<invVars, dbVars, checkout, busVars>> /\ closed \subseteq published
  BY OfWorker, FaultCounts DEF IndInv, TypeOK, CallVoid
<1>2. "cancelled" \in orderEvents[o] /\ ostatus[o] # "NONE"
  <2>1. /\ WorkerOK(worker[w]) /\ o \in worker[w].order /\ worker[w].steps \in Seq(Steps)
        /\ worker[w].steps # <<>> /\ Head(worker[w].steps) = "void"
    BY <1>1, OfWorker DEF NextIs, WorkerState
  <2>2. 1 \in 1..Len(worker[w].steps) /\ worker[w].steps[1] = "void"
    BY <2>1
  <2> QED
    BY <2>1, <2>2 DEF WorkerOK, StepsOK
<1>3. /\ Pay!PaymentTypeOK' /\ payEvents' = payEvents
      /\ pstatus' = pstatus \/ pstatus' = [pstatus EXCEPT ![o] = "VOIDED"]
  <2>1. CASE Pay!Void(o)
    BY <1>1, <2>1, VoidCall
  <2>2. CASE UNCHANGED payVars
    BY <1>1, <2>2, PaymentStays DEF payVars
  <2> QED
    BY <2>1, <2>2 DEF CallVoid
<1>4. Inv!TypeOK' /\ SweepInv' /\ ReservationsGoOn /\ rstatus' = rstatus
  BY <1>1, InventoryStays
<1>5. PICK n \in 1..2 : Advance(w, n) /\ (n = 1 => pstatus'[o] = "VOIDED")
  <2>1. Pay!Void(o) => pstatus'[o] = "VOIDED"
    BY <1>1, VoidCall DEF Pay!PaymentTypeOK
  <2>2. pstatus[o] = "VOIDED" /\ UNCHANGED payVars => pstatus'[o] = "VOIDED"
    BY DEF payVars
  <2> QED
    BY <2>1, <2>2 DEF CallVoid
<1>6. PICK me \in WorkerState : worker' = [worker EXCEPT ![w] = me] /\ (Grows => WorkerOK(me)')
  BY <1>1, <1>5, Advanced
<1>7. \A x \in Orders : pstatus'[x] = pstatus[x] \/ (x = o /\ pstatus'[x] = "VOIDED")
  BY <1>1, <1>3 DEF Pay!PaymentTypeOK
<1> QED
  BY <1>1, <1>2, <1>3, <1>4, <1>6, <1>7, WorkerStep DEF busVars

-----------------------------------------------------------------------------
(* A consumer reads the order of its record, or has nothing to do.         *)
LEMMA StartEventKeeps ==
    ASSUME IndInv, NEW w \in Consumers, NEW e \in published, StartEvent(w, e) PROVE IndInv'
<1>1. /\ w \in Workers /\ TypeOK /\ closed \subseteq published /\ faults \in 0..MaxFaults /\ e \in Event
      /\ UNCHANGED <<invVars, payVars, dbVars, checkout, published, faults>>
  BY OfWorker DEF Workers, StartEvent, TypeOK
<1>2. CASE closed' = closed \cup {e} /\ worker' = [worker EXCEPT ![w] = IdleWorker]
  BY <1>1, <1>2, IdleFits, LocalStep
<1>3. CASE ~(closed' = closed \cup {e} /\ worker' = [worker EXCEPT ![w] = IdleWorker])
  <2>1. PICK me : me = [pc |-> "apply", op |-> e.topic, ev |-> {e}, order |-> {e.order},
                 read |-> ostatus[e.order], steps |-> <<>>, tries |-> worker[w].tries,
                 list |-> {}, seen |-> (delivered[e.order] \cup {e.shop}) \cap Shops]
    OBVIOUS
  <2>2. /\ closed' = closed /\ worker' = [worker EXCEPT ![w] = me] /\ ostatus[e.order] # "NONE"
    BY <1>3, <2>1 DEF StartEvent
  <2>3. e.topic \in Topics /\ e.order \in Orders /\ worker[w].tries \in 0..(Attempts - 1)
    BY <1>1, OfWorker DEF Event, WorkerState
  <2>4. me \in WorkerState
    BY <1>1, <2>1, <2>3 DEF WorkerState, TypeOK
  <2>5. WorkerOK(me)'
    <3>1. /\ me.ev = {e} /\ me.order = {e.order} /\ me.pc = "apply" /\ me.op = e.topic /\ me.steps = <<>>
          /\ me.read = ostatus[e.order] /\ me.seen \subseteq delivered[e.order] \cup {e.shop}
          /\ me.list = {}
      BY <2>1
    <3>2. UNCHANGED <<ostatus, delivered, orderEvents, published>>
      BY <1>1 DEF dbVars
    <3>3. ReadOK(me, e.order)'
      BY <2>2, <2>3, <3>1, <3>2 DEF ReadOK, IndInv, AnnouncedInv, Topics
    <3>4. StepsOK(me.steps, e.order)'
      BY <3>1 DEF StepsOK
    <3> QED
      BY <2>2, <3>1, <3>2, <3>3, <3>4 DEF WorkerOK, ListOK
  <2> QED
    BY <1>1, <2>2, <2>4, <2>5, LocalStep
<1> QED
  BY <1>2, <1>3

(* A handler reads the order it is asked to cancel.                        *)
LEMMA StartCancelKeeps ==
    ASSUME IndInv, NEW w \in Callers, NEW o \in Orders, StartCancel(w, o) PROVE IndInv'
<1>1. /\ w \in Workers /\ TypeOK /\ closed \subseteq published /\ faults \in 0..MaxFaults
      /\ UNCHANGED <<invVars, payVars, dbVars, checkout, busVars, faults>>
  BY OfWorker DEF Workers, StartCancel
<1>2. PICK me : me = [IdleWorker EXCEPT !.pc = "apply", !.op = "cancel", !.order = {o}, !.read = ostatus[o]]
  OBVIOUS
<1>3. worker' = [worker EXCEPT ![w] = me] /\ ostatus[o] # "NONE"
  BY <1>2 DEF StartCancel
<1>4. /\ me \in WorkerState /\ me.ev = {} /\ me.order = {o} /\ me.pc = "apply" /\ me.op = "cancel"
      /\ me.read = ostatus[o] /\ me.seen = {} /\ me.steps = <<>> /\ me.list = {}
  BY <1>1, <1>2, IdleFits DEF IdleWorker, WorkerState, TypeOK
<1>5. WorkerOK(me)'
  <2>1. UNCHANGED <<ostatus, delivered, orderEvents>>
    BY <1>1 DEF dbVars
  <2>2. ReadOK(me, o)'
    BY <1>3, <1>4, <2>1 DEF ReadOK, IndInv, AnnouncedInv, Topics
  <2>3. StepsOK(me.steps, o)'
    BY <1>4 DEF StepsOK
  <2> QED
    BY <1>3, <1>4, <2>1, <2>2, <2>3 DEF WorkerOK, ListOK
<1> QED
  BY <1>1, <1>3, <1>4, <1>5, LocalStep DEF busVars

(* The reconciler's list for a cancelled order is right, whichever marks   *)
(* are missing.                                                            *)
LEMMA SweepList ==
    ASSUME NEW o \in Orders, "cancelled" \in orderEvents[o], NEW l,
           l \in {<<"release", "markReleased">>, <<"void", "markVoided">>, <<>>,
                  <<"release", "markReleased", "void", "markVoided">>}
    PROVE  l \in Seq(Steps) /\ StepsOK(l, o)
<1>1. CASE l = <<"release", "markReleased">>
  BY <1>1 DEF Steps, StepsOK
<1>2. CASE l = <<"void", "markVoided">>
  BY <1>2 DEF Steps, StepsOK
<1>3. CASE l = <<>>
  BY <1>3 DEF Steps, StepsOK
<1>4. CASE l = <<"release", "markReleased", "void", "markVoided">>
  BY <1>4 DEF Steps, StepsOK
<1> QED
  BY <1>1, <1>2, <1>3, <1>4

(* The two halves of the reconciler's list.                                *)
LEMMA SweepConcat ==
    <<"release", "markReleased">> \o <<"void", "markVoided">>
        = <<"release", "markReleased", "void", "markVoided">>
<1> DEFINE a == <<"release", "markReleased">>
           b == <<"void", "markVoided">>
           c == <<"release", "markReleased", "void", "markVoided">>
<1>1. a \in Seq(Steps) /\ b \in Seq(Steps) /\ c \in Seq(Steps) /\ Len(a) = 2 /\ Len(b) = 2 /\ Len(c) = 4
  BY DEF Steps
<1>2. /\ a \o b \in Seq(Steps) /\ Len(a \o b) = 4
      /\ \A i \in 1..4 : (a \o b)[i] = IF i <= 2 THEN a[i] ELSE b[i - 2]
  BY <1>1, ConcatProperties
<1>3. \A i \in 1..4 : (a \o b)[i] = c[i]
  BY <1>2
<1> QED
  BY <1>1, <1>2, <1>3, SeqEqual

(* The reconciler takes a page of cancelled orders.                        *)
LEMMA StartSweepKeeps == ASSUME IndInv, NEW w \in Reconcilers, StartSweep(w) PROVE IndInv'
<1>1. /\ w \in Workers /\ TypeOK /\ closed \subseteq published /\ faults \in 0..MaxFaults
      /\ UNCHANGED <<invVars, payVars, dbVars, checkout, busVars, faults>>
  BY OfWorker DEF Workers, StartSweep
<1>2. PICK l : l = {[order |-> o, owes |-> Owed(o)] : o \in Page}
  OBVIOUS
<1>3. l \subseteq Pending /\ ListOK(l)
  <2>1. \A o \in Page : o \in Orders /\ ostatus[o] = "CANCELLED" /\ "cancelled" \in orderEvents[o]
    BY DEF Page, PendingCompensation, IndInv, AnnouncedInv
  <2>2. \A o \in Orders : Owed(o) \subseteq {"release", "void"}
    BY DEF Owed
  <2> QED
    BY <1>2, <2>1, <2>2 DEF Pending, ListOK
<1>4. PICK me : me = [IdleWorker EXCEPT !.pc = "run", !.list = l]
  OBVIOUS
<1>5. worker' = [worker EXCEPT ![w] = me]
  BY <1>2, <1>4 DEF StartSweep
<1>6. me \in WorkerState /\ me.ev = {} /\ me.order = {} /\ me.list = l
  BY <1>3, <1>4, IdleFits DEF IdleWorker, WorkerState
<1>7. Grows => WorkerOK(me)'
  BY <1>3, <1>6 DEF WorkerOK, ListOK, Pending, Grows
<1> QED
  BY <1>1, <1>5, <1>6, <1>7, LocalStep DEF busVars

(* The reconciler goes on to a row of its list.                            *)
LEMMA SweepNextKeeps ==
    ASSUME IndInv, NEW w \in Workers, NEW p \in worker[w].list, SweepNext(w, p) PROVE IndInv'
<1>1. /\ TypeOK /\ closed \subseteq published /\ faults \in 0..MaxFaults
      /\ worker[w] \in WorkerState /\ WorkerOK(worker[w]) /\ p \in Pending /\ worker[w].pc = "run"
      /\ UNCHANGED <<invVars, payVars, dbVars, checkout, busVars, faults>>
  BY OfWorker DEF SweepNext, WorkerState
<1> DEFINE r == "release" \in p.owes
           v == "void" \in p.owes
<1>2. PICK l : l = (IF r THEN <<"release", "markReleased">> ELSE <<>>)
                    \o (IF v THEN <<"void", "markVoided">> ELSE <<>>)
  OBVIOUS
<1>3. l \in {<<"release", "markReleased">>, <<"void", "markVoided">>, <<>>,
             <<"release", "markReleased", "void", "markVoided">>}
  <2>1. CASE r /\ v
    BY <1>2, <2>1, SweepConcat
  <2>2. CASE r /\ ~v
    BY <1>2, <2>2
  <2>3. CASE ~r
    <3>1. \A x \in Seq(Steps) : <<>> \o x = x
      BY ConcatEmptySeq
    <3>2. <<"void", "markVoided">> \in Seq(Steps) /\ <<>> \in Seq(Steps)
      BY DEF Steps
    <3> QED
      BY <1>2, <2>3, <3>1, <3>2
  <2> QED
    BY <2>1, <2>2, <2>3
<1>4. PICK me : me = [IdleWorker EXCEPT !.pc = "run", !.list = worker[w].list \ {p}, !.order = {p.order}, !.steps = l]
  OBVIOUS
<1>5. worker' = [worker EXCEPT ![w] = me]
  BY <1>2, <1>4 DEF SweepNext
<1> HIDE DEF r, v
<1>6. p.order \in Orders /\ ostatus[p.order] # "NONE" /\ "cancelled" \in orderEvents[p.order]
  BY <1>1 DEF Pending, WorkerOK, ListOK
<1>7. l \in Seq(Steps) /\ StepsOK(l, p.order)
  BY <1>3, <1>6, SweepList
<1>8. /\ me \in WorkerState /\ me.ev = {} /\ me.order = {p.order} /\ me.pc = "run"
      /\ me.steps = l /\ me.list \subseteq worker[w].list /\ me.list \subseteq Pending
  BY <1>1, <1>4, <1>6, <1>7, IdleFits DEF IdleWorker, WorkerState
<1>9. Grows => WorkerOK(me)'
  BY <1>1, <1>6, <1>7, <1>8, StepsStay DEF WorkerOK, ListOK, Pending, Grows
<1> QED
  BY <1>1, <1>5, <1>8, <1>9, LocalStep DEF busVars

-----------------------------------------------------------------------------
(* A mark is set only when its effect is there.                            *)
LEMMA MarkStep ==
    ASSUME IndInv, NEW w \in Workers, NEW me \in WorkerState, worker' = [worker EXCEPT ![w] = me],
           UNCHANGED <<invVars, payVars, ostatus, older, delivered, processed, orderEvents, checkout, busVars>>,
           releasedAt' \subseteq Orders, \A o \in releasedAt' : Resolved(o),
           voidedAt' \subseteq Orders, \A o \in voidedAt' : pstatus[o] = "VOIDED",
           faults' \in 0..MaxFaults, Grows => WorkerOK(me)'
    PROVE  IndInv'
<1>1. TypeOK /\ SweepInv
  BY DEF IndInv, MoneyFollowsOrder
<1>2. /\ Inv!TypeOK' /\ SweepInv' /\ ReservationsGoOn /\ rstatus' = rstatus
      /\ Pay!PaymentTypeOK' /\ pstatus' = pstatus /\ payEvents' = payEvents
  BY <1>1, InventoryStays, PaymentStays DEF payVars
<1>3. TypeOK'
  BY <1>1, <1>2 DEF TypeOK, busVars
<1>4. Grows
  BY <1>2 DEF Grows, ReservationsGoOn, busVars
<1>5. MoneyFollowsOrder' /\ FulfilledMeansDelivered' /\ CheckoutInv' /\ AnnouncedInv'
  BY <1>2, <1>3 DEF IndInv, MoneyFollowsOrder, FulfilledMeansDelivered, CheckoutInv, AnnouncedInv
<1>6. CompensationsRecordedTruthfully'
  BY <1>2 DEF CompensationsRecordedTruthfully, Resolved
<1>7. TopicInv' /\ WorkerInv'
  BY <1>4, TopicsStay, OneWorkerMoves DEF busVars
<1> QED
  BY <1>2, <1>5, <1>6, <1>7 DEF IndInv

(* A mark at the head of a worker's list tells the truth.                  *)
LEMMA MarkIsTrue ==
    ASSUME IndInv, NEW w \in Workers, NEW o \in Orders
    PROVE  /\ NextIs(w, o, "markReleased") => Resolved(o)
           /\ NextIs(w, o, "markVoided") => pstatus[o] = "VOIDED"
<1>1. SUFFICES ASSUME NEW step, NextIs(w, o, step)
               PROVE  /\ step = "markReleased" => Resolved(o)
                      /\ step = "markVoided" => pstatus[o] = "VOIDED"
  OBVIOUS
<1>2. /\ WorkerOK(worker[w]) /\ o \in worker[w].order /\ worker[w].steps \in Seq(Steps)
      /\ worker[w].steps # <<>> /\ Head(worker[w].steps) = step
  BY <1>1, OfWorker DEF NextIs, WorkerState
<1>3. 1 \in 1..Len(worker[w].steps) /\ worker[w].steps[1] = step
  BY <1>2
<1> QED
  BY <1>2, <1>3 DEF WorkerOK, StepsOK

(* The release is recorded, or the UPDATE fails.                           *)
LEMMA MarkReservationReleasedKeeps ==
    ASSUME IndInv, NEW w \in Workers, NEW o \in Orders, MarkReservationReleased(w, o) PROVE IndInv'
<1>1. /\ TypeOK /\ NextIs(w, o, "markReleased") /\ faults' \in 0..MaxFaults /\ Advance(w, 1)
      /\ UNCHANGED <<invVars, payVars, ostatus, older, voidedAt, delivered, processed, orderEvents, checkout, busVars>>
  BY OfWorker, FaultCounts DEF MarkReservationReleased
<1>2. releasedAt' \subseteq releasedAt \cup {o} /\ Resolved(o)
  BY <1>1, MarkIsTrue DEF MarkReservationReleased
<1>3. PICK me \in WorkerState : worker' = [worker EXCEPT ![w] = me] /\ (Grows => WorkerOK(me)')
  BY <1>1, Advanced
<1>4. /\ releasedAt' \subseteq Orders /\ \A x \in releasedAt' : Resolved(x)
      /\ voidedAt' \subseteq Orders /\ \A x \in voidedAt' : pstatus[x] = "VOIDED"
  BY <1>1, <1>2 DEF TypeOK, IndInv, CompensationsRecordedTruthfully, Resolved
<1> QED
  BY <1>1, <1>3, <1>4, MarkStep

(* The void is recorded, or the UPDATE fails.                              *)
LEMMA MarkPaymentVoidedKeeps ==
    ASSUME IndInv, NEW w \in Workers, NEW o \in Orders, MarkPaymentVoided(w, o) PROVE IndInv'
<1>1. /\ TypeOK /\ NextIs(w, o, "markVoided") /\ faults' \in 0..MaxFaults /\ Advance(w, 1)
      /\ UNCHANGED <<invVars, payVars, ostatus, older, releasedAt, delivered, processed, orderEvents, checkout, busVars>>
  BY OfWorker, FaultCounts DEF MarkPaymentVoided
<1>2. voidedAt' \subseteq voidedAt \cup {o} /\ pstatus[o] = "VOIDED"
  BY <1>1, MarkIsTrue DEF MarkPaymentVoided
<1>3. PICK me \in WorkerState : worker' = [worker EXCEPT ![w] = me] /\ (Grows => WorkerOK(me)')
  BY <1>1, Advanced
<1>4. /\ releasedAt' \subseteq Orders /\ \A x \in releasedAt' : Resolved(x)
      /\ voidedAt' \subseteq Orders /\ \A x \in voidedAt' : pstatus[x] = "VOIDED"
  BY <1>1, <1>2 DEF TypeOK, IndInv, CompensationsRecordedTruthfully, Resolved
<1> QED
  BY <1>1, <1>3, <1>4, MarkStep

-----------------------------------------------------------------------------
(* What Apply decides for a worker that read the order, and on what: it    *)
(* confirms only what was paid, fulfils only what was confirmed and        *)
(* delivered everywhere, and leaves the rest alone.                        *)
Decision(me, o, new) ==
    /\ new \in OStatus \ {"NONE"}
    /\ new = me.read \/ new \in {"CONFIRMED", "CANCELLED", "FULFILLED"}
    /\ new = "CONFIRMED" => "authorized" \in payEvents[o]
    /\ new = "FULFILLED" => me.read = "FULFILLED" \/ (me.read = "CONFIRMED" /\ Shops \subseteq me.seen)
    /\ me.op \in {"authorized", "failed", "cancel", "expired", "delivered"}
    /\ me.op = "authorized" => "authorized" \in payEvents[o]
    /\ me.op \in {"failed", "cancel"} => new = "CANCELLED"
    /\ me.op = "expired" => Resolved(o)

(* Apply decides so on whatever it read, current or stale.                 *)
LEMMA Decides ==
    ASSUME IndInv, NEW me \in WorkerState, NEW o \in Orders, ReadOK(me, o), o \in me.order, WorkerOK(me),
           NEW new, new = Outcome(me.op, me.read, me.seen), new # "BAD_TRANSITION"
    PROVE  Decision(me, o, new)
<1>1. /\ me.op \in {"authorized", "failed", "cancel", "expired", "delivered"}
      /\ me.read \in OStatus \ {"NONE"} /\ me.ev \subseteq published /\ \A e \in me.ev : e.order = o
  BY DEF ReadOK, WorkerState, Topics, WorkerOK
<1>2. /\ me.op = "authorized" => "authorized" \in payEvents[o]
      /\ me.op = "expired" => Resolved(o)
  BY <1>1 DEF ReadOK, IndInv, TopicInv, Topics
<1>3. me.read \in {"CONFIRMED", "FULFILLED"} => "authorized" \in payEvents[o]
  BY DEF ReadOK, IndInv, MoneyFollowsOrder
<1>4. CASE me.op = "authorized"
  <2>1. new = MoveTo(me.read, "CONFIRMED")
    BY <1>4 DEF Outcome
  <2> QED
    BY <1>1, <1>2, <1>4, <2>1 DEF MoveTo, Decision, OStatus
<1>5. CASE me.op \in {"failed", "cancel"}
  <2>1. new = MoveTo(me.read, "CANCELLED")
    BY <1>5 DEF Outcome
  <2> QED
    BY <1>1, <1>5, <2>1 DEF MoveTo, Decision, OStatus
<1>6. CASE me.op = "expired"
  <2>1. new = IF me.read = "PENDING_PAYMENT" THEN "CANCELLED" ELSE me.read
    BY <1>6 DEF Outcome
  <2> QED
    BY <1>1, <1>2, <1>3, <1>6, <2>1 DEF Decision, OStatus
<1>7. CASE me.op = "delivered"
  <2>1. new = IF me.read = "CONFIRMED" /\ Shops \subseteq me.seen THEN "FULFILLED" ELSE me.read
    BY <1>7 DEF Outcome
  <2> QED
    BY <1>1, <1>3, <1>7, <2>1 DEF Decision, OStatus
<1> QED
  BY <1>1, <1>4, <1>5, <1>6, <1>7

(* What is left to do after Apply is right for what it decided.            *)
LEMMA FollowsUp ==
    ASSUME NEW me \in WorkerState, NEW o \in Orders, NEW new, Decision(me, o, new), Grows,
           new = "CANCELLED" => "cancelled" \in orderEvents'[o]
    PROVE  FollowUp(me.op, new) \in Seq(Steps) /\ StepsOK(FollowUp(me.op, new), o)'
<1>1. CASE me.op = "authorized"
  BY <1>1 DEF FollowUp, Steps, StepsOK, Decision, Grows
<1>2. CASE me.op = "failed"
  BY <1>2 DEF FollowUp, Steps, StepsOK
<1>3. CASE me.op = "cancel"
  BY <1>3 DEF FollowUp, Steps, StepsOK, Decision
<1>4. CASE me.op = "expired" /\ new = "CANCELLED"
  BY <1>4 DEF FollowUp, Steps, StepsOK, Decision, Grows
<1>5. CASE (me.op = "expired" /\ new # "CANCELLED") \/ me.op = "delivered"
  BY <1>5 DEF FollowUp, Steps, StepsOK
<1> QED
  BY <1>1, <1>2, <1>3, <1>4, <1>5 DEF Decision

(* Apply commits: row, outbox, processed_events and what follows.          *)
LEMMA ApplyCommitKeeps ==
    ASSUME IndInv, NEW w \in Workers, NEW o \in Orders, ApplyCommit(w, o) PROVE IndInv'
<1>1. PICK me \in WorkerState : me = worker[w]
  BY OfWorker
<1>2. PICK new : new = Outcome(me.op, me.read, me.seen)
  OBVIOUS
<1>3. /\ TypeOK /\ SweepInv /\ WorkerOK(me) /\ ReadOK(me, o) /\ o \in me.order /\ me.order = {o}
      /\ ostatus[o] # "NONE" /\ me.ev \subseteq published /\ new # "BAD_TRANSITION"
      /\ UNCHANGED <<invVars, payVars, releasedAt, voidedAt, checkout, busVars, faults>>
  BY <1>1, <1>2, OfWorker DEF ApplyCommit, WorkerOK, IndInv
<1>4. Decision(me, o, new)
  BY <1>2, <1>3, Decides
<1>5. /\ ostatus' = [ostatus EXCEPT ![o] = IF new # me.read THEN new ELSE @]
      /\ orderEvents' = [orderEvents EXCEPT ![o] = IF new # me.read THEN @ \cup OutboxTransition(new) ELSE @]
      /\ delivered' = [delivered EXCEPT ![o] = @ \cup ({e.shop : e \in me.ev} \cap Shops)]
      /\ processed' = processed \cup me.ev
      /\ worker' = [worker EXCEPT ![w] =
                    [IdleWorker EXCEPT !.pc = "run", !.ev = me.ev, !.order = me.order,
                                       !.tries = me.tries, !.steps = FollowUp(me.op, new)]]
  BY <1>1, <1>2 DEF ApplyCommit
<1>6. /\ new # me.read => /\ new \in {"CONFIRMED", "CANCELLED", "FULFILLED"}
                          /\ OutboxTransition(new) \subseteq {"confirmed", "cancelled", "fulfilled"}
                          /\ "confirmed" \in OutboxTransition(new) <=> new = "CONFIRMED"
                          /\ "cancelled" \in OutboxTransition(new) <=> new = "CANCELLED"
                          /\ "fulfilled" \in OutboxTransition(new) <=> new = "FULFILLED"
  BY <1>4 DEF Decision, OutboxTransition
<1>7. /\ \A x \in Orders \ {o} : ostatus'[x] = ostatus[x] /\ orderEvents'[x] = orderEvents[x]
                                  /\ delivered'[x] = delivered[x]
      /\ ostatus'[o] = IF new # me.read THEN new ELSE ostatus[o]
      /\ orderEvents'[o] = IF new # me.read THEN orderEvents[o] \cup OutboxTransition(new) ELSE orderEvents[o]
      /\ delivered'[o] = delivered[o] \cup ({e.shop : e \in me.ev} \cap Shops)
  BY <1>3, <1>5 DEF TypeOK
<1>8. /\ Inv!TypeOK' /\ SweepInv' /\ ReservationsGoOn /\ rstatus' = rstatus
      /\ Pay!PaymentTypeOK' /\ PaymentsGoOn /\ pstatus' = pstatus /\ payEvents' = payEvents
  BY <1>3, InventoryStays, PaymentStays DEF payVars
<1>9. Grows
  BY <1>3, <1>4, <1>7, <1>8 DEF Grows, ReservationsGoOn, PaymentsGoOn, Decision, busVars
<1>10. PICK l : l = FollowUp(me.op, new)
  OBVIOUS
<1>11. new = "CANCELLED" => "cancelled" \in orderEvents'[o]
  BY <1>3, <1>6, <1>7 DEF ReadOK
<1>12. l \in Seq(Steps) /\ StepsOK(l, o)'
  BY <1>4, <1>9, <1>10, <1>11, FollowsUp
<1>13. PICK you : you = [IdleWorker EXCEPT !.pc = "run", !.ev = me.ev, !.order = me.order,
                                       !.tries = me.tries, !.steps = l]
  OBVIOUS
<1>14. /\ you \in WorkerState /\ you.ev = me.ev /\ you.order = {o} /\ you.pc = "run" /\ you.steps = l
       /\ you.list = {}
       /\ worker' = [worker EXCEPT ![w] = you]
  <2>1. worker' = [worker EXCEPT ![w] = you]
    BY <1>5, <1>10, <1>13
  <2> QED
    BY <1>3, <1>12, <1>13, <2>1, IdleFits DEF IdleWorker, WorkerState
<1>15. WorkerOK(you)'
  BY <1>3, <1>9, <1>12, <1>14 DEF WorkerOK, ListOK, Grows
<1>16. TypeOK'
  <2>1. /\ ostatus' \in [Orders -> OStatus] /\ delivered' \in [Orders -> SUBSET Shops]
    BY <1>3, <1>4, <1>5 DEF TypeOK, Decision
  <2>2. orderEvents' \in [Orders -> SUBSET {"created", "confirmed", "cancelled", "fulfilled"}]
    BY <1>3, <1>5, <1>6 DEF TypeOK
  <2>3. worker' \in [Workers -> WorkerState]
    BY <1>3, <1>14 DEF TypeOK
  <2>4. older' \subseteq Orders \X Orders
    BY <1>1, <1>3, Touched DEF ApplyCommit, TypeOK
  <2> QED
    BY <1>3, <1>5, <1>8, <2>1, <2>2, <2>3, <2>4 DEF TypeOK, busVars
<1>17. me.read \in {"CONFIRMED", "FULFILLED"} => "confirmed" \in orderEvents[o] /\ "authorized" \in payEvents[o]
  BY <1>3 DEF ReadOK, IndInv, MoneyFollowsOrder
<1>18. MoneyFollowsOrder'
  <2>1. /\ rstatus[o] = "COMMITTED" => "authorized" \in payEvents[o]
        /\ ostatus'[o] \in {"CONFIRMED", "FULFILLED"} => "authorized" \in payEvents[o]
        /\ "confirmed" \in orderEvents'[o] => "authorized" \in payEvents[o]
        /\ pstatus[o] = "VOIDED" => "cancelled" \in orderEvents'[o]
    BY <1>3, <1>4, <1>6, <1>7, <1>17 DEF Decision, IndInv, MoneyFollowsOrder
  <2> QED
    BY <1>7, <1>8, <1>16, <2>1 DEF IndInv, MoneyFollowsOrder
<1>19. CompensationsRecordedTruthfully'
  BY <1>3, <1>8 DEF IndInv, CompensationsRecordedTruthfully
<1>20. FulfilledMeansDelivered'
  <2>1. ASSUME "fulfilled" \in orderEvents'[o]
        PROVE  delivered'[o] = Shops /\ "confirmed" \in orderEvents'[o]
    <3>1. CASE "fulfilled" \in orderEvents[o]
      BY <1>3, <1>7, <1>16, <3>1 DEF IndInv, FulfilledMeansDelivered, TypeOK
    <3>2. CASE "fulfilled" \notin orderEvents[o]
      <4>1. new = "FULFILLED" /\ me.read = "CONFIRMED" /\ Shops \subseteq me.seen
        BY <1>4, <1>6, <1>7, <2>1, <3>2 DEF Decision
      <4>2. Shops \subseteq delivered'[o]
        BY <1>3, <1>7, <4>1 DEF ReadOK
      <4> QED
        BY <1>7, <1>16, <1>17, <4>1, <4>2 DEF TypeOK
    <3> QED
      BY <3>1, <3>2
  <2> QED
    BY <1>7, <2>1 DEF IndInv, FulfilledMeansDelivered
<1>21. CheckoutInv'
  BY <1>3, <1>4, <1>7, <1>8 DEF IndInv, CheckoutInv, Decision
<1>22. AnnouncedInv'
  <2>1. /\ ostatus'[o] \in {"CONFIRMED", "FULFILLED"} => "confirmed" \in orderEvents'[o]
        /\ ostatus'[o] = "CANCELLED" => "cancelled" \in orderEvents'[o]
    BY <1>4, <1>6, <1>7, <1>17 DEF Decision, IndInv, AnnouncedInv
  <2> QED
    BY <1>7, <2>1 DEF IndInv, AnnouncedInv
<1>23. TopicInv' /\ WorkerInv'
  BY <1>3, <1>9, <1>14, <1>15, TopicsStay, OneWorkerMoves DEF busVars
<1> QED
  BY <1>8, <1>18, <1>19, <1>20, <1>21, <1>22, <1>23 DEF IndInv

-----------------------------------------------------------------------------
(* The invariant holds at first, and no step breaks it.                    *)
LEMMA IndInit == Init => IndInv
<1>1. SUFFICES ASSUME Init PROVE IndInv
  OBVIOUS
<1>2. Inv!TypeOK
  BY <1>1, SagaConstants DEF Init, Inv!TypeOK, Inv!RStatus, Inv!NoLines, Inv!Lines
<1>3. Pay!PaymentTypeOK
  BY <1>1 DEF Init, Pay!PaymentInit, Pay!PaymentTypeOK, Pay!PStatus
<1>4. TypeOK
  BY <1>1, <1>2, <1>3, IdleFits, SagaConstants DEF Init, TypeOK, OStatus
<1>5. MoneyFollowsOrder /\ CompensationsRecordedTruthfully /\ FulfilledMeansDelivered
  BY <1>1, <1>4 DEF Init, Pay!PaymentInit, MoneyFollowsOrder, CompensationsRecordedTruthfully, FulfilledMeansDelivered
<1>6. SweepInv
  <2>1. \A o \in Orders : Busy(o) = {}
    BY <1>1 DEF Init, Busy
  <2>2. Cardinality({}) = 0 /\ Cardinality(Sweepers) \in Nat
    BY FS_EmptySet, FS_CardinalityType, SagaConstants
  <2>3. \A s \in Sweepers : todo[s] = {} /\ emitting[s] = {}
    BY <1>1 DEF Init
  <2>4. \A o \in Orders : expiredEvents[o] = 0 /\ expiredEvents[o] + Cardinality(Busy(o)) <= Cardinality(Sweepers)
    <3>1. SUFFICES ASSUME NEW o \in Orders
                   PROVE  expiredEvents[o] = 0 /\ expiredEvents[o] + Cardinality(Busy(o)) <= Cardinality(Sweepers)
      OBVIOUS
    <3>2. expiredEvents[o] = 0 /\ Cardinality(Busy(o)) = 0
      BY <1>1, <2>1, <2>2 DEF Init
    <3> QED
      BY <2>2, <3>2
  <2> QED
    BY <2>3, <2>4 DEF SweepInv
<1>7. CheckoutInv /\ TopicInv /\ AnnouncedInv
  BY <1>1 DEF Init, Pay!PaymentInit, CheckoutInv, TopicInv, AnnouncedInv
<1>8. WorkerInv
  <2>1. \A w \in Workers : worker[w] = IdleWorker
    BY <1>1 DEF Init
  <2>2. IdleWorker.ev = {} /\ IdleWorker.order = {} /\ IdleWorker.list = {}
    BY IdleFits
  <2> QED
    BY <2>1, <2>2 DEF WorkerInv, WorkerOK, ListOK
<1> QED
  BY <1>5, <1>6, <1>7, <1>8 DEF IndInv

(* Nothing changes.                                                        *)
LEMMA IndStutter == ASSUME IndInv, UNCHANGED vars PROVE IndInv'
<1>1. /\ TypeOK /\ SweepInv /\ CheckoutInv
      /\ UNCHANGED <<invVars, payVars, dbVars, checkout, worker, busVars, faults>>
  BY DEF IndInv, MoneyFollowsOrder, vars
<1>2. /\ Inv!TypeOK' /\ SweepInv' /\ ReservationsGoOn /\ rstatus' = rstatus
      /\ Pay!PaymentTypeOK' /\ PaymentsGoOn /\ pstatus' = pstatus
  BY <1>1, InventoryStays, PaymentStays
<1>3. TypeOK'
  BY <1>1, <1>2 DEF TypeOK, dbVars, busVars
<1>4. CheckoutInv'
  BY <1>1, <1>2 DEF CheckoutInv, dbVars
<1> QED
  BY <1>1, <1>2, <1>3, <1>4, OutsideStep DEF busVars

(* Every step of every service keeps the invariant.                        *)
LEMMA IndNext == IndInv /\ [Next]_vars => IndInv'
<1> SUFFICES ASSUME IndInv, [Next]_vars PROVE IndInv'
  OBVIOUS
<1>1. ASSUME NEW o \in Orders, CreateStep(o) \/ CrashCheckout(o) \/ PassExpiry(o) PROVE IndInv'
  BY <1>1, CreateReserveKeeps, CreatePaymentKeeps, InsertOrderKeeps, UndoReserveKeeps, UndoPayKeeps,
     CrashCheckoutKeeps, PassExpiryStep DEF CreateStep
<1>2. ASSUME NEW o \in Orders, NEW outcome, ConfirmPayment(o, outcome) PROVE IndInv'
  BY <1>2, ConfirmPaymentKeeps
<1>3. ASSUME NEW o \in Orders, NEW shop \in Shops, ShipmentDelivered(o, shop) PROVE IndInv'
  BY <1>3, ShipmentDeliveredKeeps
<1>4. ASSUME NEW w \in Consumers, NEW e \in published, StartEvent(w, e) PROVE IndInv'
  BY <1>4, StartEventKeeps
<1>5. ASSUME NEW w \in Callers, NEW o \in Orders, StartCancel(w, o) PROVE IndInv'
  BY <1>5, StartCancelKeeps
<1>6. ASSUME NEW w \in Reconcilers, StartSweep(w) PROVE IndInv'
  BY <1>6, StartSweepKeeps
<1>7. ASSUME NEW w \in Workers, RunStep(w) \/ CrashWorker(w) PROVE IndInv'
  BY <1>7, ApplyCommitKeeps, CallCommitKeeps, CallReleaseKeeps, CallVoidKeeps, MarkReservationReleasedKeeps,
     MarkPaymentVoidedKeeps, SweepNextKeeps, ApplyFailsKeeps, DoneKeeps, CrashWorkerKeeps DEF RunStep
<1>8. ASSUME NEW s \in Sweepers, InventorySweep(s) \/ InventoryAbort(s) PROVE IndInv'
  BY <1>8, InventorySweepKeeps
<1>9. ASSUME NEW e \in published, Republish(e) PROVE IndInv'
  BY <1>9, RepublishKeeps
<1>10. CASE UNCHANGED vars
  BY <1>10, IndStutter
<1> QED
  BY <1>1, <1>2, <1>3, <1>4, <1>5, <1>6, <1>7, <1>8, <1>9, <1>10 DEF Next

(* Whatever the workers of however many replicas interleave, retry, lose   *)
(* and redo, stock is sold and orders are confirmed only for authorised    *)
(* payments, and a payment is voided only for an order announced as        *)
(* cancelled or never stored (saga.go).                                    *)
THEOREM MoneyFollows == Spec => []MoneyFollowsOrder
<1>1. IndInv => MoneyFollowsOrder
  BY DEF IndInv
<1> QED
  BY <1>1, IndInit, IndNext, PTL DEF Spec

(* A mark the reconciler relies on to leave an order alone is never set    *)
(* without its effect (MarkReservationReleased, MarkPaymentVoided).        *)
THEOREM CompensationsTruthful == Spec => []CompensationsRecordedTruthfully
<1>1. IndInv => CompensationsRecordedTruthfully
  BY DEF IndInv
<1> QED
  BY <1>1, IndInit, IndNext, PTL DEF Spec

(* order.fulfilled is announced only when every shop has delivered and the *)
(* order was confirmed, although Apply decides on a stale read             *)
(* (ApplyShipmentDelivered).                                               *)
THEOREM FulfilledIsDelivered == Spec => []FulfilledMeansDelivered
<1>1. IndInv => FulfilledMeansDelivered
  BY DEF IndInv
<1> QED
  BY <1>1, IndInit, IndNext, PTL DEF Spec
=============================================================================
