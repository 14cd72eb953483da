------------------------------- MODULE Returns -------------------------------
(***************************************************************************)
(* Returns (RMAs) against one FULFILLED order, composed with the payment   *)
(* service that refunds them (services/order/internal/saga/returns.go,     *)
(* store/returns.go, domain/return.go).  FULFILLED is a final status, so   *)
(* the order itself is constant.                                           *)
(*                                                                         *)
(* RequestReturn reads what was already returned with one query per line   *)
(* and inserts the return in a later transaction; nothing locks the order  *)
(* in between.  DecideReturn commits the decision in one transaction, then *)
(* calls payment, then inventory once per line, marking each line after    *)
(* its call.  Any of these calls may fail, before or after its effect took *)
(* place; the operator may call again, and operators may overlap.          *)
(***************************************************************************)
EXTENDS Integers, Sequences, FiniteSetsExt, Functions

CONSTANTS Products,   \* products on the order
          Ordered,    \* units of each on the order
          UnitPrice,  \* pre-tax price of a unit
          Total,      \* what the shopper paid: discount off, tax on
          Returns,    \* return ids, each of one RequestReturn call
          Deciders,   \* RPC handlers running DecideReturn
          NoKey,      \* the empty idempotency key
          MaxFaults   \* bound on failed calls and crashes

Value(units) == SumFunctionOnSet([p \in Products |-> UnitPrice[p] * units[p]], Products)
Subtotal == Value(Ordered)
MaxUnits == Max({Ordered[p] : p \in Products})

(* An order has a value and finitely many lines, of finitely many units.   *)
ASSUME ReturnConstants ==
    /\ IsFiniteSet(Products) /\ IsFiniteSet(Returns)
    /\ Ordered \in [Products -> Nat \ {0}] /\ UnitPrice \in [Products -> Nat]
    /\ Subtotal > 0 /\ Total \in Nat \ {0}
    /\ MaxFaults \in Nat /\ NoKey \notin Returns

VARIABLES status,      \* returns.status ("NONE": no row)
          lines,       \* return_lines.quantity, 0 = no line
          restocked,   \* return_lines with restocked = TRUE
          announced,   \* return_* outbox rows written, per return
          request,     \* local state of each RequestReturn call
          decider,     \* local state of each DecideReturn handler
          adjusted,    \* inventory: AdjustStock calls applied per return and product
          faults,      \* failed calls and crashes so far
          overlap,     \* history: RequestReturn calls, or DecideReturn calls of a return, overlapped
          pstatus, amount, declined, refunded, refunds, payEvents  \* payment service

payVars == <<pstatus, amount, declined, refunded, refunds, payEvents>>
rowVars == <<status, lines, restocked, announced>>
vars == <<rowVars, request, decider, adjusted, faults, overlap, payVars>>

ThePayment == "payment"
Pay == INSTANCE Payment
         WITH Payments <- {ThePayment}, RefundKeys <- Returns, MaxAmount <- Total

NoLines == [p \in Products |-> 0]
Asked == [Products -> 0..(MaxUnits + 1)]
Idle == [pc |-> "idle", ret |-> {}, pending |-> {}, line |-> {}]

TypeOK ==
    /\ Pay!PaymentTypeOK
    /\ status \in [Returns -> {"NONE", "REQUESTED", "APPROVED", "REJECTED"}]
    /\ lines \in [Returns -> [Products -> 0..MaxUnits]]
    /\ restocked \subseteq Returns \X Products
    /\ announced \in [Returns -> SUBSET {"requested", "approved", "rejected"}]
    /\ request \in [Returns -> [pc : {"start", "resolving", "done"}, open : SUBSET Products,
                                asked : Asked, lines : [Products -> 0..MaxUnits]]]
    /\ decider \in [Deciders -> [pc : {"idle", "refund", "read", "restock", "mark"},
                                 ret : SUBSET Returns, pending : SUBSET Products,
                                 line : SUBSET Products]]
    /\ adjusted \in [Returns \X Products -> Nat]
    /\ faults \in 0..MaxFaults /\ overlap \in BOOLEAN

Init ==
    /\ status = [r \in Returns |-> "NONE"]
    /\ lines = [r \in Returns |-> NoLines]
    /\ restocked = {} /\ faults = 0 /\ overlap = FALSE
    /\ announced = [r \in Returns |-> {}]
    /\ request = [r \in Returns |-> [pc |-> "start", open |-> {}, asked |-> NoLines, lines |-> NoLines]]
    /\ decider = [d \in Deciders |-> Idle]
    /\ adjusted = [x \in Returns \X Products |-> 0]
    /\ pstatus = [p \in {ThePayment} |-> "AUTHORIZED"]
    /\ amount = [p \in {ThePayment} |-> Total]
    /\ declined = {}
    /\ refunded = [p \in {ThePayment} |-> 0]
    /\ refunds = [p \in {ThePayment} |-> <<>>]
    /\ payEvents = [p \in {ThePayment} |-> {"authorized"}]

Fault == faults < MaxFaults /\ faults' = faults + 1
NoFault == faults' = faults

-----------------------------------------------------------------------------
(* RequestReturn is called with quantities for some of the products, 0 for *)
(* all that is left; no lines at all stands for every line in full.        *)
StartReturn(r, named, asked) ==
    /\ request[r].pc = "start"
    /\ overlap' = (overlap \/ \E x \in Returns : request[x].pc = "resolving")
    /\ request' = [request EXCEPT ![r] =
          [pc |-> "resolving", open |-> IF named = {} THEN Products ELSE named,
           asked |-> [p \in Products |-> IF p \in named THEN asked[p] ELSE 0],
           lines |-> NoLines]]
    /\ UNCHANGED <<rowVars, decider, adjusted, faults, payVars>>

(* store.ReturnedQty: units covered by returns that are not REJECTED.      *)
ReturnedQty(p) ==
    SumFunctionOnSet([r \in Returns |-> lines[r][p]], {r \in Returns : status[r] # "REJECTED"})

(* One turn of resolveReturnLines: nothing left for the line skips it, too *)
(* much asked for ends the call.                                           *)
ResolveLine(r, p) ==
    LET returnable == Ordered[p] - ReturnedQty(p)
        qty == IF request[r].asked[p] = 0 THEN returnable ELSE request[r].asked[p] IN
    /\ request[r].pc = "resolving" /\ p \in request[r].open
    /\ request' = [request EXCEPT ![r] =
          IF qty > 0 /\ qty > returnable
          THEN [pc |-> "done", open |-> {}, asked |-> NoLines, lines |-> NoLines]
          ELSE [request[r] EXCEPT !.open = @ \ {p}, !.asked[p] = 0, !.lines[p] = IF qty <= 0 THEN 0 ELSE qty]]
    /\ UNCHANGED <<rowVars, decider, adjusted, faults, payVars, overlap>>

(* The end of RequestReturn: NOTHING_TO_RETURN, or InsertReturn.           *)
InsertReturn(r) ==
    /\ request[r].pc = "resolving" /\ request[r].open = {}
    /\ request' = [request EXCEPT ![r] = [@ EXCEPT !.pc = "done", !.lines = NoLines]]
    /\ \/ request[r].lines = NoLines /\ NoFault /\ UNCHANGED rowVars
       \/ Fault /\ UNCHANGED rowVars
       \/ /\ request[r].lines # NoLines /\ NoFault
          /\ status' = [status EXCEPT ![r] = "REQUESTED"]
          /\ lines' = [lines EXCEPT ![r] = request[r].lines]
          /\ announced' = [announced EXCEPT ![r] = {"requested"}]
          /\ UNCHANGED restocked
    /\ UNCHANGED <<decider, adjusted, payVars, overlap>>

(* refund_total_cents: the share of what was paid.  RequestReturn spreads  *)
(* it over the lines by cumulative rounding, whose parts add up to this.   *)
RefundTotal(r) == (Total * Value(lines[r])) \div Subtotal

-----------------------------------------------------------------------------
DecideEvent(approve) == IF approve THEN "approved" ELSE "rejected"
DecideStatus(approve) == IF approve THEN "APPROVED" ELSE "REJECTED"

(* Mutant: the side effects are not reserved to approvals.                 *)
DecideReturnAlwaysRefunds(d, r, approve) ==
    /\ decider[d] = Idle
    /\ status[r] \in {"REQUESTED", DecideStatus(approve)}
    /\ status' = [status EXCEPT ![r] = DecideStatus(approve)]
    /\ announced' = [announced EXCEPT ![r] = @ \cup {DecideEvent(approve)}]
    /\ decider' = [decider EXCEPT ![d] = [Idle EXCEPT !.pc = "refund", !.ret = {r}]]
    /\ overlap' = (overlap \/ \E e \in Deciders : r \in decider[e].ret)
    /\ UNCHANGED <<lines, restocked, request, adjusted, faults, payVars>>

(* store.DecideReturn: the row-locked transaction, a no-op when the return *)
(* is already decided that way, BAD_TRANSITION when it is decided the      *)
(* other way.  An approval goes on to the side effects.                    *)
DecideReturn(d, r, approve) ==
    /\ decider[d] = Idle
    /\ status[r] \in {"REQUESTED", DecideStatus(approve)}
    /\ status' = [status EXCEPT ![r] = DecideStatus(approve)]
    /\ announced' = [announced EXCEPT ![r] = @ \cup {DecideEvent(approve)}]
    /\ decider' = IF approve THEN [decider EXCEPT ![d] = [Idle EXCEPT !.pc = "refund", !.ret = {r}]]
                             ELSE decider
    /\ overlap' = (overlap \/ \E e \in Deciders : r \in decider[e].ret)
    /\ UNCHANGED <<lines, restocked, request, adjusted, faults, payVars>>

At(d, r, pc) == decider[d].pc = pc /\ r \in decider[d].ret
GoOn(d, pc) == decider' = [decider EXCEPT ![d].pc = pc]
Answer(d) == decider' = [decider EXCEPT ![d] = Idle]

(* Mutant: a refused refund does not stop the handler.                     *)
CallRefundIgnored(d, r) ==
    /\ At(d, r, "refund")
    /\ GoOn(d, "read") /\ NoFault
    /\ Pay!Refund(ThePayment, RefundTotal(r), r) \/ UNCHANGED payVars
    /\ UNCHANGED <<rowVars, request, adjusted, overlap>>

(* Payment.Refund under the return's id as key, unless the total is zero   *)
(* (which the payment service would take for "everything left").           *)
CallRefund(d, r) ==
    LET total == RefundTotal(r) IN
    /\ At(d, r, "refund")
    /\ \/ total = 0 /\ GoOn(d, "read") /\ NoFault /\ UNCHANGED payVars
       \/ total > 0 /\ Pay!Refund(ThePayment, total, r) /\ GoOn(d, "read") /\ NoFault
       \/ /\ total > 0 /\ Pay!RefundAlreadyApplied(ThePayment, r)
          /\ GoOn(d, "read") /\ NoFault /\ UNCHANGED payVars
       \/ /\ total > Pay!Remaining(ThePayment) /\ ~Pay!RefundAlreadyApplied(ThePayment, r)
          /\ Answer(d) /\ NoFault /\ UNCHANGED payVars
       \/ /\ total > 0 /\ Fault /\ Answer(d)
          /\ Pay!Refund(ThePayment, total, r) \/ UNCHANGED payVars
    /\ UNCHANGED <<rowVars, request, adjusted, overlap>>

UnrestockedLines(r) == {p \in Products : lines[r][p] > 0 /\ <<r, p>> \notin restocked}

ReadUnrestocked(d, r) ==
    /\ At(d, r, "read")
    /\ decider' = [decider EXCEPT ![d] = IF UnrestockedLines(r) = {} THEN Idle ELSE
                      [@ EXCEPT !.pc = "restock", !.pending = UnrestockedLines(r)]]
    /\ UNCHANGED <<rowVars, request, adjusted, faults, payVars, overlap>>

Adjust(r, p) == adjusted' = [adjusted EXCEPT ![<<r, p>>] = @ + 1]

(* The handler goes on to mark line p.                                     *)
ThenMark(d, p) == decider' = [decider EXCEPT ![d] =
                      [decider[d] EXCEPT !.pc = "mark", !.pending = @ \ {p}, !.line = {p}]]

(* Inventory.AdjustStock for one line.                                     *)
CallAdjustStock(d, r, p) ==
    /\ At(d, r, "restock") /\ p \in decider[d].pending
    /\ \/ Adjust(r, p) /\ ThenMark(d, p) /\ NoFault
       \/ Fault /\ Answer(d) /\ (Adjust(r, p) \/ UNCHANGED adjusted)
    /\ UNCHANGED <<rowVars, request, payVars, overlap>>

MarkRestocked(d, r, p) ==
    /\ At(d, r, "mark") /\ p \in decider[d].line
    /\ \/ /\ restocked' = restocked \cup {<<r, p>>} /\ NoFault
          /\ decider' = [decider EXCEPT ![d] = IF @.pending = {} THEN Idle
                                              ELSE [@ EXCEPT !.pc = "restock", !.line = {}]]
       \/ Fault /\ Answer(d) /\ UNCHANGED restocked
    /\ UNCHANGED <<status, lines, announced, request, adjusted, payVars, overlap>>

CrashDecider(d) ==
    /\ decider[d] # Idle /\ Fault /\ Answer(d)
    /\ UNCHANGED <<rowVars, request, adjusted, payVars, overlap>>

(* Refund called on the payment directly, outside any return.              *)
DirectRefund(cents) ==
    /\ Pay!Refund(ThePayment, cents, NoKey)
    /\ UNCHANGED <<rowVars, request, decider, adjusted, faults, overlap>>

Next ==
    \/ \E r \in Returns :
         \/ \E named \in SUBSET Products, asked \in Asked : StartReturn(r, named, asked)
         \/ \E p \in Products : ResolveLine(r, p)
         \/ InsertReturn(r)
    \/ \E d \in Deciders, r \in Returns :
         \/ \E approve \in BOOLEAN : DecideReturn(d, r, approve)
         \/ CallRefund(d, r) \/ ReadUnrestocked(d, r)
         \/ \E p \in Products : CallAdjustStock(d, r, p) \/ MarkRestocked(d, r, p)
    \/ \E d \in Deciders : CrashDecider(d)
    \/ \E cents \in 0..Total : DirectRefund(cents)

Spec == Init /\ [][Next]_vars

-----------------------------------------------------------------------------
RefundRows == {refunds[ThePayment][i] : i \in DOMAIN refunds[ThePayment]}

(* The state has its types, and money goes back only for an approved       *)
(* return, exactly its refund total, once, however often and by however    *)
(* many operators DecideReturn is called, and whichever answers are lost;  *)
(* and no unit is returned twice: returns that are not rejected never      *)
(* cover more than was ordered (resolveReturnLines).  That check reads     *)
(* before the insert without a lock, so only overlapping calls of          *)
(* RequestReturn can break it.                                             *)
RefundsMatchReturns ==
    /\ TypeOK
    /\ \A row \in RefundRows : row.key # NoKey =>
          status[row.key] = "APPROVED" /\ row.cents = RefundTotal(row.key)
    /\ \A i, j \in DOMAIN refunds[ThePayment] :
          refunds[ThePayment][i].key = refunds[ThePayment][j].key /\ i # j
              => refunds[ThePayment][i].key = NoKey
    /\ ~overlap => \A p \in Products : ReturnedQty(p) <= Ordered[p]

(* Units come back to stock only for a return whose refund was given: the  *)
(* refund is called first and its failure stops the handler.  And once,    *)
(* as the restocked flag's comment says: a retried approval does not       *)
(* restock twice.  AdjustStock has no idempotency key, so a lost answer or *)
(* mark, or two operators at once, can break that, and nothing else.       *)
RestockedAfterRefund ==
    /\ \A r \in Returns, p \in Products : adjusted[<<r, p>>] > 0 =>
          /\ status[r] = "APPROVED"
          /\ RefundTotal(r) = 0 \/ \E row \in RefundRows : row.key = r
    /\ ~overlap /\ faults = 0 => \A x \in Returns \X Products : adjusted[x] <= 1
=============================================================================
