------------------------------- MODULE Payment -------------------------------
(***************************************************************************)
(* The payment service: the intent's state machine and its refunds         *)
(* (services/payment/internal/store/store.go, grpcsvc/server.go).          *)
(*                                                                         *)
(* Transition and Refund row-lock the payment and write their outbox row   *)
(* in the same transaction, so each is one atomic action.  Calls that are  *)
(* refused or answered without a change leave the state alone;             *)
(* VoidAccepted tells a caller of Void which of the two it gets.  A row of *)
(* refunds stands for its payment.refunded outbox row too: Refund writes   *)
(* both or neither.                                                        *)
(***************************************************************************)
EXTENDS Integers, Sequences, Functions

CONSTANTS Payments,    \* payment ids
          RefundKeys,  \* idempotency keys callers send with Refund
          NoKey,       \* the empty idempotency key
          MaxAmount    \* bound on the amount of a payment, in minor units

ASSUME PaymentConstants ==
    /\ MaxAmount \in Nat \ {0}
    /\ NoKey \notin RefundKeys

VARIABLES pstatus,    \* payments.status ("NONE": not yet created)
          amount,     \* payments.amount_cents
          declined,   \* payments whose method token is the decline token
          refunded,   \* payments.refunded_cents
          refunds,    \* rows of the refunds table, in insertion order
          payEvents   \* payment.* outbox rows written, per payment

paymentVars == <<pstatus, amount, declined, refunded, refunds, payEvents>>

PStatus == {"NONE", "REQUIRES_CONFIRMATION", "AUTHORIZED", "FAILED", "VOIDED", "REFUNDED"}
RefundRow == [key : RefundKeys \cup {NoKey}, cents : 1..MaxAmount]

PaymentTypeOK ==
    /\ pstatus \in [Payments -> PStatus]
    /\ amount \in [Payments -> 0..MaxAmount]
    /\ declined \subseteq Payments
    /\ refunded \in [Payments -> 0..MaxAmount]
    /\ refunds \in [Payments -> Seq(RefundRow)]
    /\ payEvents \in [Payments -> SUBSET {"authorized", "failed"}]

PaymentInit ==
    /\ pstatus = [p \in Payments |-> "NONE"]
    /\ amount = [p \in Payments |-> 0]
    /\ declined = {}
    /\ refunded = [p \in Payments |-> 0]
    /\ refunds = [p \in Payments |-> <<>>]
    /\ payEvents = [p \in Payments |-> {}]

-----------------------------------------------------------------------------
(* CreatePayment: a positive amount opens an intent.                       *)
Create(p, cents, decline) ==
    /\ pstatus[p] = "NONE"
    /\ cents > 0
    /\ pstatus' = [pstatus EXCEPT ![p] = "REQUIRES_CONFIRMATION"]
    /\ amount' = [amount EXCEPT ![p] = cents]
    /\ declined' = IF decline THEN declined \cup {p} ELSE declined
    /\ UNCHANGED <<refunded, refunds, payEvents>>

(* Mutant: a failed payment may be confirmed again.                        *)
canTransitionAgain(from, to) ==
    \/ from \in {"REQUIRES_CONFIRMATION", "FAILED"} /\ to \in {"AUTHORIZED", "FAILED", "VOIDED"}
    \/ from = "AUTHORIZED" /\ to = "VOIDED"

canTransition(from, to) ==
    \/ from = "REQUIRES_CONFIRMATION" /\ to \in {"AUTHORIZED", "FAILED", "VOIDED"}
    \/ from = "AUTHORIZED" /\ to = "VOIDED"

(* eventFor: the outbox row of a transition; a void writes none.           *)
EventFor(to) == IF to = "AUTHORIZED" THEN {"authorized"}
                ELSE IF to = "FAILED" THEN {"failed"} ELSE {}

Transition(p, to) ==
    /\ canTransition(pstatus[p], to)
    /\ pstatus' = [pstatus EXCEPT ![p] = to]
    /\ payEvents' = [payEvents EXCEPT ![p] = @ \cup EventFor(to)]
    /\ UNCHANGED <<amount, declined, refunded, refunds>>

(* ConfirmPayment with outcome AUTHORIZE or FAIL; a declined token turns   *)
(* the former into the latter.                                             *)
ConfirmPayment(p, outcome) ==
    Transition(p, IF outcome = "FAIL" \/ p \in declined THEN "FAILED" ELSE "AUTHORIZED")

(* Void succeeds, with or without a change, or is refused BAD_TRANSITION.  *)
VoidAccepted(p) == pstatus[p] = "VOIDED" \/ canTransition(pstatus[p], "VOIDED")
Void(p) == Transition(p, "VOIDED")

-----------------------------------------------------------------------------
(* Mutant: only the latest refund is compared.                             *)
RefundIsLatest(p, key) ==
    key # NoKey /\ refunds[p] # <<>> /\ refunds[p][Len(refunds[p])].key = key

(* refundAlreadyApplied: the key was used for this payment before.         *)
RefundAlreadyApplied(p, key) ==
    key # NoKey /\ \E i \in DOMAIN refunds[p] : refunds[p][i].key = key

Remaining(p) == amount[p] - refunded[p]

(* resolveRefundAmount: 0 stands for the whole remaining balance.          *)
ResolveRefundAmount(p, requested) == IF requested <= 0 THEN Remaining(p) ELSE requested

(* Mutant: the requested amount is added up in place of the resolved one.  *)
RefundRequested(p, requested, key) ==
    LET cents == ResolveRefundAmount(p, requested) IN
    /\ pstatus[p] \in {"AUTHORIZED", "REFUNDED"} /\ ~RefundAlreadyApplied(p, key)
    /\ cents > 0 /\ cents <= Remaining(p)
    /\ refunds' = [refunds EXCEPT ![p] = Append(@, [key |-> key, cents |-> cents])]
    /\ refunded' = [refunded EXCEPT ![p] = @ + requested]
    /\ pstatus' = [pstatus EXCEPT ![p] =
                      IF refunded[p] + requested >= amount[p] THEN "REFUNDED" ELSE @]
    /\ UNCHANGED <<amount, declined, payEvents>>

(* Store.Refund under the payment's row lock: one refund row, the running  *)
(* total, and REFUNDED once nothing is left.                               *)
Refund(p, requested, key) ==
    LET cents == ResolveRefundAmount(p, requested) IN
    /\ pstatus[p] \in {"AUTHORIZED", "REFUNDED"}
    /\ ~RefundAlreadyApplied(p, key)
    /\ cents > 0                    \* otherwise settled: nothing left
    /\ cents <= Remaining(p)        \* otherwise REFUND_EXCEEDS_BALANCE
    /\ refunds' = [refunds EXCEPT ![p] = Append(@, [key |-> key, cents |-> cents])]
    /\ refunded' = [refunded EXCEPT ![p] = @ + cents]
    /\ pstatus' = [pstatus EXCEPT ![p] =
                      IF refunded[p] + cents >= amount[p] THEN "REFUNDED" ELSE @]
    /\ UNCHANGED <<amount, declined, payEvents>>

PaymentNext ==
    \E p \in Payments :
        \/ \E cents \in 1..MaxAmount, decline \in BOOLEAN : Create(p, cents, decline)
        \/ \E outcome \in {"AUTHORIZE", "FAIL"} : ConfirmPayment(p, outcome)
        \/ Void(p)
        \/ \E requested \in 0..MaxAmount, key \in RefundKeys \cup {NoKey} :
              Refund(p, requested, key)

PaymentSpec == PaymentInit /\ [][PaymentNext]_paymentVars

-----------------------------------------------------------------------------
(* What was refunded in total, recomputed from the rows of the refunds     *)
(* table.                                                                  *)
RefundedTotal(table) == SumFunctionOnSet([i \in DOMAIN table |-> table[i].cents], DOMAIN table)

(* refunded_cents agrees with the refunds table, whatever mix of partial,  *)
(* full, keyed and repeated refunds was requested.                         *)
RefundedMatchesRows == \A p \in Payments : refunded[p] = RefundedTotal(refunds[p])

(* No sequence of refunds gives back more than was taken, and the payment  *)
(* is REFUNDED exactly when nothing is left.                               *)
NeverOverRefunded ==
    \A p \in Payments :
        /\ refunded[p] <= amount[p]
        /\ pstatus[p] # "NONE" => (pstatus[p] = "REFUNDED" <=> refunded[p] = amount[p])

(* A non-empty idempotency key refunds a payment at most once, so a caller *)
(* may repeat the call after a lost answer (Refund's comment).             *)
KeyRefundsOnce ==
    \A p \in Payments : \A i, j \in DOMAIN refunds[p] :
        refunds[p][i].key = refunds[p][j].key /\ refunds[p][i].key # NoKey => i = j

(* What payment told the saga is still true: authorized and failed are     *)
(* never both announced for one payment, failed is final, and an announced *)
(* authorisation was really given.                                         *)
EventsMatchStatus ==
    \A p \in Payments :
        /\ "failed" \in payEvents[p] <=> pstatus[p] = "FAILED"
        /\ "authorized" \in payEvents[p] => pstatus[p] \in {"AUTHORIZED", "VOIDED", "REFUNDED"}
        /\ pstatus[p] \in {"AUTHORIZED", "REFUNDED"} => "authorized" \in payEvents[p]

(* Money moves only on an authorised payment: no refund row is ever added  *)
(* to one that failed, was voided or was never confirmed.                  *)
RefundsOnlyAuthorized ==
    [][\A p \in Payments : refunded'[p] # refunded[p] =>
          /\ "authorized" \in payEvents[p]
          /\ pstatus[p] \notin {"VOIDED", "FAILED"}]_paymentVars
=============================================================================
