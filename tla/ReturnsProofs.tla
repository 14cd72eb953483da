----------------------------- MODULE ReturnsProofs -----------------------------
(***************************************************************************)
(* Proofs about returns, for any order, prices, number of returns and      *)
(* operators, and any bound on faults.                                     *)
(*                                                                         *)
(* What the runs check is not inductive: that money goes back only for an  *)
(* approved return needs that a handler past the decision works on one     *)
(* return, which stays approved and keeps its lines (BaseInv); that units  *)
(* come back only after the refund needs where the handler is (PaidInv).   *)
(* What overlapping calls can break is stated for behaviours without them: *)
(* a request that is being resolved fits next to what is on file (QtyInv), *)
(* and a line that is about to be restocked was not restocked (OnceInv).   *)
(***************************************************************************)
EXTENDS Returns, SequenceTheorems, Sums

Request == [pc : {"start", "resolving", "done"}, open : SUBSET Products,
            asked : Asked, lines : [Products -> 0..MaxUnits]]
Handler == [pc : {"idle", "refund", "read", "restock", "mark"},
            ret : SUBSET Returns, pending : SUBSET Products, line : SUBSET Products]
RStatus == {"NONE", "REQUESTED", "APPROVED", "REJECTED"}
Table == refunds[ThePayment]

(* The payment stays the authorised one of the order; refunds accumulate.  *)
PayInv ==
    /\ amount = [p \in {ThePayment} |-> Total] /\ declined = {}
    /\ payEvents = [p \in {ThePayment} |-> {"authorized"}]
    /\ pstatus \in [{ThePayment} -> {"AUTHORIZED", "REFUNDED"}]
    /\ refunded \in [{ThePayment} -> 0..Total]
    /\ refunds \in [{ThePayment} -> Seq(Pay!RefundRow)]

(* A return has lines once it is on file, which is when its call is over.  *)
RowInv ==
    /\ status \in [Returns -> RStatus]
    /\ lines \in [Returns -> [Products -> 0..MaxUnits]]
    /\ restocked \subseteq Returns \X Products
    /\ announced \in [Returns -> SUBSET {"requested", "approved", "rejected"}]
    /\ request \in [Returns -> Request]
    /\ \A r \in Returns : status[r] = "NONE" => lines[r] = NoLines
    /\ \A r \in Returns : request[r].pc # "done" => status[r] = "NONE"

(* A handler past the decision works on one approved return, line by line. *)
Busy(h, st) ==
    /\ h.pc # "idle" /\ \E r \in Returns : h.ret = {r} /\ st[r] = "APPROVED"
    /\ \A p, q \in h.line : p = q

DecInv == decider \in [Deciders -> Handler] /\ \A d \in Deciders : decider[d] = Idle \/ Busy(decider[d], status)

BaseInv ==
    /\ PayInv /\ RowInv /\ DecInv
    /\ adjusted \in [Returns \X Products -> Nat]
    /\ faults \in 0..MaxFaults /\ overlap \in BOOLEAN

-----------------------------------------------------------------------------
(* A finite set of numbers has a largest one.                              *)
LEMMA LargestExists ==
    ASSUME NEW S \in SUBSET Int, IsFiniteSet(S), S # {}
    PROVE  Max(S) \in S /\ \A y \in S : Max(S) >= y
<1> DEFINE B == {T \in SUBSET S : T # {} /\ ~\E x \in T : \A y \in T : x >= y}
<1>1. B = {}
  <2>1. SUFFICES ASSUME B # {} PROVE FALSE
    OBVIOUS
  <2>2. PICK T \in B : \A u \in SUBSET T : u # T => u \notin B
    <3>1. B \in SUBSET SUBSET S
      OBVIOUS
    <3> HIDE DEF B
    <3> QED
      BY <2>1, <3>1, SmallestSet
  <2>3. T \subseteq Int /\ T # {} /\ ~\E x \in T : \A y \in T : x >= y
    BY <2>2
  <2>4. PICK a \in T : TRUE
    BY <2>3
  <2>5. PICK b \in T : ~(a >= b)
    BY <2>3
  <2>6. T \ {a} \in SUBSET T /\ T \ {a} # T /\ T \ {a} # {} /\ T \ {a} \in SUBSET S
    BY <2>2, <2>3, <2>5
  <2>7. PICK c \in T \ {a} : \A y \in T \ {a} : c >= y
    BY <2>2, <2>6
  <2>8. c >= b
    BY <2>3, <2>5, <2>7
  <2>9. c >= a
    BY <2>3, <2>5, <2>7, <2>8
  <2>10. \A y \in T : c >= y
    BY <2>3, <2>7, <2>9
  <2> QED
    BY <2>3, <2>7, <2>10
<1>2. \E x \in S : \A y \in S : x >= y
  BY <1>1
<1> QED
  BY <1>2 DEF Max

(* The order is worth something, so it has lines.                          *)
LEMMA ProductsThere == Products # {}
<1>1. SUFFICES ASSUME Products = {} PROVE FALSE
  OBVIOUS
<1>2. Subtotal = 0
  BY <1>1, SumEmpty DEF Subtotal, Value
<1> QED
  BY <1>2, ReturnConstants

(* No line has more than MaxUnits.                                         *)
LEMMA UnitsBound == MaxUnits \in Int /\ \A p \in Products : Ordered[p] \in Nat \ {0} /\ Ordered[p] <= MaxUnits
<1> DEFINE U == {Ordered[p] : p \in Products}
<1>1. IsFiniteSet(U)
  <2>1. Ordered \in Surjection(Products, U)
    BY ReturnConstants DEF Surjection
  <2> QED
    BY <2>1, ReturnConstants, FS_Surjection
<1>2. \A p \in Products : Ordered[p] \in Nat \ {0}
  BY ReturnConstants
<1>3. Products # {}
  BY ProductsThere
<1>4. U \in SUBSET Int /\ U # {}
  BY <1>2, <1>3
<1>5. MaxUnits \in U /\ \A y \in U : MaxUnits >= y
  BY <1>1, <1>4, LargestExists DEF MaxUnits
<1> QED
  BY <1>2, <1>4, <1>5

(* What is on file for a product is a number of units.                     *)
LEMMA QtyType ==
    ASSUME lines \in [Returns -> [Products -> 0..MaxUnits]], NEW p \in Products
    PROVE  ReturnedQty(p) \in Nat
<1> DEFINE f == [r \in Returns |-> lines[r][p]]
           S == {r \in Returns : status[r] # "REJECTED"}
<1>1. IsFiniteSet(S)
  BY ReturnConstants, FS_Subset
<1>2. \A r \in S : f[r] \in Nat
  BY UnitsBound
<1> HIDE DEF f, S
<1>3. SumFunctionOnSet(f, S) \in Nat
  BY <1>1, <1>2, SumType
<1> QED
  BY <1>3 DEF ReturnedQty, f, S

(* A refund adds one row under its key, of what was asked for.             *)
LEMMA RefundAdds ==
    ASSUME PayInv, NEW req \in Int, NEW k \in Returns \cup {NoKey}, Pay!Refund(ThePayment, req, k)
    PROVE  /\ PayInv' /\ ~Pay!RefundAlreadyApplied(ThePayment, k)
           /\ \E row \in Pay!RefundRow : /\ row.key = k /\ (req > 0 => row.cents = req)
                                         /\ refunds' = [refunds EXCEPT ![ThePayment] = Append(Table, row)]
                                         /\ Table' = Append(Table, row)
<1> DEFINE cents == Pay!ResolveRefundAmount(ThePayment, req)
           row == [key |-> k, cents |-> cents]
<1>1. Total \in Nat /\ amount[ThePayment] = Total /\ refunded[ThePayment] \in 0..Total
  BY ReturnConstants DEF PayInv
<1>2. /\ cents > 0 /\ cents <= Pay!Remaining(ThePayment) /\ ~Pay!RefundAlreadyApplied(ThePayment, k)
      /\ refunds' = [refunds EXCEPT ![ThePayment] = Append(@, row)]
      /\ refunded' = [refunded EXCEPT ![ThePayment] = @ + cents]
      /\ pstatus' = [pstatus EXCEPT ![ThePayment] =
                       IF refunded[ThePayment] + cents >= amount[ThePayment] THEN "REFUNDED" ELSE @]
      /\ UNCHANGED <<amount, declined, payEvents>>
  BY DEF Pay!Refund
<1>3. cents \in Int /\ (req > 0 => cents = req)
  BY <1>1 DEF Pay!ResolveRefundAmount, Pay!Remaining
<1>4. cents \in 1..Total /\ refunded[ThePayment] + cents \in 0..Total
  BY <1>1, <1>2, <1>3 DEF Pay!Remaining
<1>5. row \in Pay!RefundRow
  BY <1>4 DEF Pay!RefundRow
<1>6. refunds \in [{ThePayment} -> Seq(Pay!RefundRow)]
  BY DEF PayInv
<1>7. Append(Table, row) \in Seq(Pay!RefundRow)
  BY <1>5, <1>6 DEF Table
<1> HIDE DEF row, cents
<1>8. refunds' = [refunds EXCEPT ![ThePayment] = Append(Table, row)]
  BY <1>2 DEF Table
<1>9. refunds' \in [{ThePayment} -> Seq(Pay!RefundRow)] /\ Table' = Append(Table, row)
  <2>1. refunds'[ThePayment] = Append(Table, row)
    BY <1>6, <1>8
  <2> QED
    BY <1>6, <1>7, <1>8, <2>1 DEF Table
<1>10. refunded' \in [{ThePayment} -> 0..Total]
  BY <1>2, <1>4 DEF PayInv
<1>11. pstatus' \in [{ThePayment} -> {"AUTHORIZED", "REFUNDED"}]
  BY <1>2 DEF PayInv
<1>12. PayInv'
  BY <1>2, <1>9, <1>10, <1>11 DEF PayInv
<1>13. row.key = k /\ (req > 0 => row.cents = req)
  BY <1>3 DEF row
<1> QED
  BY <1>2, <1>5, <1>8, <1>9, <1>12, <1>13

(* The refund total of a return is an integer.                             *)
LEMMA RefundTotalType == ASSUME RowInv, NEW r \in Returns PROVE RefundTotal(r) \in Int
<1> DEFINE f == [p \in Products |-> UnitPrice[p] * lines[r][p]]
<1>1. \A p \in Products : f[p] \in Int
  BY UnitsBound, ReturnConstants DEF RowInv
<1> HIDE DEF f
<1>2. SumFunctionOnSet(f, Products) \in Int
  BY <1>1, ReturnConstants, SumType
<1>3. Value(lines[r]) \in Int
  BY <1>2 DEF Value, f
<1>4. Subtotal \in Int
  <2> DEFINE g == [p \in Products |-> UnitPrice[p] * Ordered[p]]
  <2>1. \A p \in Products : g[p] \in Int
    BY ReturnConstants
  <2> HIDE DEF g
  <2>2. SumFunctionOnSet(g, Products) \in Int
    BY <2>1, ReturnConstants, SumType
  <2> QED
    BY <2>2 DEF Subtotal, Value, g
<1>5. \A a, b, c \in Int : c > 0 => (a * b) \div c \in Int
  OBVIOUS
<1> QED
  BY <1>3, <1>4, <1>5, ReturnConstants DEF RefundTotal

-----------------------------------------------------------------------------
(* What a step leaves alone keeps its part of the invariant.               *)
LEMMA PayKeeps == ASSUME PayInv, UNCHANGED payVars PROVE PayInv'
BY DEF PayInv, payVars

(* Likewise the rows and the requests.                                     *)
LEMMA RowsKeep == ASSUME RowInv, UNCHANGED <<rowVars, request>> PROVE RowInv'
BY DEF RowInv, rowVars

(* A handler set to a state that fits leaves the others where they are, if *)
(* approved returns stay approved.                                         *)
LEMMA HandlersKeep ==
    ASSUME DecInv, NEW d \in Deciders, NEW h \in Handler, decider' = [decider EXCEPT ![d] = h],
           h = Idle \/ Busy(h, status'), \A r \in Returns : status[r] = "APPROVED" => status'[r] = "APPROVED"
    PROVE  /\ DecInv' /\ decider'[d] = h /\ \A e \in Deciders : e # d => decider'[e] = decider[e]
<1>1. decider \in [Deciders -> Handler]
  BY DEF DecInv
<1>2. decider'[d] = h /\ \A e \in Deciders : e # d => decider'[e] = decider[e]
  BY <1>1
<1>3. decider' \in [Deciders -> Handler]
  BY <1>1
<1>4. ASSUME NEW e \in Deciders, e # d PROVE decider[e] = Idle \/ Busy(decider[e], status')
  <2>1. decider[e] = Idle \/ Busy(decider[e], status)
    BY DEF DecInv
  <2> QED
    BY <2>1 DEF Busy
<1>5. ASSUME NEW e \in Deciders PROVE decider'[e] = Idle \/ Busy(decider'[e], status')
  BY <1>2, <1>4
<1> QED
  BY <1>2, <1>3, <1>5 DEF DecInv

(* What a handler that is past the decision works on.                      *)
LEMMA HandlerWorksOn ==
    ASSUME DecInv, NEW d \in Deciders, NEW r \in Returns, r \in decider[d].ret
    PROVE  /\ decider[d] \in Handler /\ decider[d].ret = {r} /\ status[r] = "APPROVED"
           /\ decider[d].pc # "idle" /\ decider[d] # Idle /\ Busy(decider[d], status)
<1>1. decider[d] \in Handler /\ decider[d] # Idle
  BY DEF DecInv, Idle
<1>2. Busy(decider[d], status)
  BY <1>1 DEF DecInv
<1> QED
  BY <1>1, <1>2 DEF Busy

(* Idle is a state of a handler; a handler that goes on stays with its     *)
(* return.                                                                 *)
LEMMA HandlerStates ==
    /\ Idle \in Handler
    /\ \A h \in Handler, r \in Returns :
         /\ [h EXCEPT !.pc = "read"] \in Handler
         /\ \A u \in SUBSET Products : [h EXCEPT !.pc = "restock", !.pending = u] \in Handler
         /\ \A p \in Products : [h EXCEPT !.pc = "mark", !.pending = @ \ {p}, !.line = {p}] \in Handler
         /\ [h EXCEPT !.pc = "restock", !.line = {}] \in Handler
         /\ [Idle EXCEPT !.pc = "refund", !.ret = {r}] \in Handler
BY DEF Handler, Idle

(* Refunded for a return: nothing was due, or there is a row of its id.    *)
RefundedFor(r) == RefundTotal(r) = 0 \/ \E i \in DOMAIN Table : Table[i].key = r

(* Rows are added at the end, so a refund stays.                           *)
LEMMA TableGrows ==
    ASSUME PayInv, NEW row \in Pay!RefundRow, Table' = Append(Table, row)
    PROVE  /\ Table \in Seq(Pay!RefundRow) /\ DOMAIN Table' = DOMAIN Table \cup {Len(Table) + 1}
           /\ Len(Table) + 1 \notin DOMAIN Table /\ Len(Table) + 1 \in DOMAIN Table'
           /\ \A i \in DOMAIN Table : Table'[i] = Table[i]
           /\ Table'[Len(Table) + 1] = row
<1>1. Table \in Seq(Pay!RefundRow)
  BY DEF PayInv, Table
<1>2. PICK s \in Seq(Pay!RefundRow) : s = Table
  BY <1>1
<1>3. PICK u : u = Append(s, row)
  OBVIOUS
<1>4. /\ DOMAIN u = DOMAIN s \cup {Len(s) + 1} /\ Len(s) + 1 \notin DOMAIN s
      /\ \A i \in DOMAIN s : u[i] = s[i]
      /\ u[Len(s) + 1] = row
  BY <1>2, <1>3
<1>5. Table' = u
  BY <1>2, <1>3
<1> QED
  BY <1>1, <1>2, <1>4, <1>5

(* CallRefund goes on only when the refund of the return is given, and     *)
(* adds at most its row.                                                   *)
LEMMA RefundCalled ==
    ASSUME BaseInv, NEW d \in Deciders, NEW r \in Returns, CallRefund(d, r)
    PROVE  /\ UNCHANGED <<rowVars, request, adjusted, overlap>> /\ faults' \in 0..MaxFaults /\ faults' >= faults
           /\ PayInv' /\ DOMAIN Table \subseteq DOMAIN Table' /\ \A i \in DOMAIN Table : Table'[i] = Table[i]
           /\ \/ Table' = Table
              \/ /\ RefundTotal(r) > 0 /\ ~Pay!RefundAlreadyApplied(ThePayment, r)
                 /\ \E row \in Pay!RefundRow : row.key = r /\ row.cents = RefundTotal(r) /\ Table' = Append(Table, row)
           /\ \E h \in Handler :
                 /\ decider' = [decider EXCEPT ![d] = h]
                 /\ h = Idle \/ (/\ h = [decider[d] EXCEPT !.pc = "read"]
                                 /\ RefundTotal(r) = 0 \/ \E i \in DOMAIN Table' : Table'[i].key = r)
<1> DEFINE total == RefundTotal(r)
           on == [decider[d] EXCEPT !.pc = "read"]
<1>1. At(d, r, "refund") /\ r \in decider[d].ret /\ UNCHANGED <<rowVars, request, adjusted, overlap>>
  BY DEF CallRefund, At
<1>2. total \in Int
  BY RefundTotalType DEF BaseInv
<1>3. on \in Handler /\ Idle \in Handler /\ decider \in [Deciders -> Handler]
  BY HandlerStates DEF BaseInv, DecInv
<1>4. GoOn(d, "read") => decider' = [decider EXCEPT ![d] = on]
  BY <1>3 DEF GoOn
<1>5. Answer(d) => decider' = [decider EXCEPT ![d] = Idle]
  BY DEF Answer
<1>6. faults \in Nat /\ faults \in 0..MaxFaults
  BY DEF BaseInv
<1>7. (NoFault \/ Fault) => faults' \in 0..MaxFaults /\ faults' >= faults
  BY <1>6, ReturnConstants DEF NoFault, Fault
<1>8. ASSUME UNCHANGED payVars
      PROVE  /\ PayInv' /\ Table' = Table
  BY <1>8, PayKeeps DEF BaseInv, payVars, Table
<1>9. ASSUME total > 0, Pay!Refund(ThePayment, total, r)
      PROVE  /\ PayInv' /\ ~Pay!RefundAlreadyApplied(ThePayment, r)
             /\ DOMAIN Table \subseteq DOMAIN Table' /\ \A i \in DOMAIN Table : Table'[i] = Table[i]
             /\ \E row \in Pay!RefundRow : row.key = r /\ row.cents = total /\ Table' = Append(Table, row)
             /\ \E i \in DOMAIN Table' : Table'[i].key = r
  <2> HIDE DEF total
  <2>1. PayInv' /\ ~Pay!RefundAlreadyApplied(ThePayment, r)
    BY <1>2, <1>9, RefundAdds DEF BaseInv
  <2>2. PICK row \in Pay!RefundRow : row.key = r /\ row.cents = total /\ Table' = Append(Table, row)
    BY <1>2, <1>9, RefundAdds DEF BaseInv
  <2>3. /\ DOMAIN Table \subseteq DOMAIN Table' /\ \A i \in DOMAIN Table : Table'[i] = Table[i]
        /\ Len(Table) + 1 \in DOMAIN Table' /\ Table'[Len(Table) + 1] = row
    BY <2>2, TableGrows DEF BaseInv
  <2> QED
    BY <2>1, <2>2, <2>3
<1>10. Pay!RefundAlreadyApplied(ThePayment, r) => \E i \in DOMAIN Table : Table[i].key = r
  BY DEF Pay!RefundAlreadyApplied, Table
<1> HIDE DEF on
<1>11. CASE total = 0 /\ GoOn(d, "read") /\ NoFault /\ UNCHANGED payVars
  BY <1>1, <1>3, <1>4, <1>7, <1>8, <1>11 DEF on
<1>12. CASE total > 0 /\ Pay!Refund(ThePayment, total, r) /\ GoOn(d, "read") /\ NoFault
  BY <1>1, <1>3, <1>4, <1>7, <1>9, <1>12 DEF on
<1>13. CASE Pay!RefundAlreadyApplied(ThePayment, r) /\ GoOn(d, "read") /\ NoFault /\ UNCHANGED payVars
  BY <1>1, <1>3, <1>4, <1>7, <1>8, <1>10, <1>13 DEF on
<1>14. CASE Answer(d) /\ (NoFault \/ Fault) /\ UNCHANGED payVars
  BY <1>1, <1>3, <1>5, <1>7, <1>8, <1>14
<1>15. CASE total > 0 /\ Fault /\ Answer(d) /\ Pay!Refund(ThePayment, total, r)
  BY <1>1, <1>3, <1>5, <1>7, <1>9, <1>15
<1> QED
  BY <1>11, <1>12, <1>13, <1>14, <1>15 DEF CallRefund

(* Reading and restocking move only the handler, and what it marks.        *)
LEMMA RestockMoves ==
    ASSUME BaseInv, NEW d \in Deciders, NEW r \in Returns, NEW p \in Products,
           ReadUnrestocked(d, r) \/ CallAdjustStock(d, r, p) \/ MarkRestocked(d, r, p)
    PROVE  /\ r \in decider[d].ret
           /\ UNCHANGED <<status, lines, announced, request, overlap, payVars>>
           /\ faults' \in 0..MaxFaults /\ faults' >= faults
           /\ \E h \in Handler : decider' = [decider EXCEPT ![d] = h] /\ (h = Idle \/ Busy(h, status))
<1>1. r \in decider[d].ret /\ UNCHANGED <<status, lines, announced, request, overlap, payVars>>
  BY DEF ReadUnrestocked, CallAdjustStock, MarkRestocked, At, rowVars
<1>2. decider[d] \in Handler /\ decider[d].ret = {r} /\ status[r] = "APPROVED" /\ Busy(decider[d], status)
  BY <1>1, HandlerWorksOn DEF BaseInv
<1>3. faults \in 0..MaxFaults /\ faults \in Nat
  BY DEF BaseInv
<1>4. faults' \in 0..MaxFaults /\ faults' >= faults
  BY <1>3, ReturnConstants DEF ReadUnrestocked, CallAdjustStock, MarkRestocked, NoFault, Fault
<1> DEFINE h1 == [decider[d] EXCEPT !.pc = "restock", !.pending = UnrestockedLines(r)]
           h2 == [decider[d] EXCEPT !.pc = "mark", !.pending = @ \ {p}, !.line = {p}]
           h3 == [decider[d] EXCEPT !.pc = "restock", !.line = {}]
<1>5. Idle \in Handler /\ h1 \in Handler /\ h2 \in Handler /\ h3 \in Handler
  BY <1>2, HandlerStates DEF UnrestockedLines
<1>6. Busy(h1, status) /\ Busy(h2, status) /\ Busy(h3, status)
  BY <1>2 DEF Busy, Handler
<1>7. \/ decider' = [decider EXCEPT ![d] = Idle] \/ decider' = [decider EXCEPT ![d] = h1]
      \/ decider' = [decider EXCEPT ![d] = h2] \/ decider' = [decider EXCEPT ![d] = h3]
  <2>1. decider \in [Deciders -> Handler]
    BY DEF BaseInv, DecInv
  <2>2. CASE ReadUnrestocked(d, r)
    BY <2>1, <2>2 DEF ReadUnrestocked
  <2>3. CASE CallAdjustStock(d, r, p)
    <3>1. ThenMark(d, p) => decider' = [decider EXCEPT ![d] = h2]
      BY <2>1 DEF ThenMark, Handler
    <3> QED
      BY <2>3, <3>1 DEF CallAdjustStock, Answer
  <2>4. CASE MarkRestocked(d, r, p)
    BY <2>1, <2>4 DEF MarkRestocked, Answer
  <2> QED
    BY <2>2, <2>3, <2>4
<1> HIDE DEF h1, h2, h3
<1> QED
  BY <1>1, <1>4, <1>5, <1>6, <1>7

(* Writing one return's request keeps the rows, while it is not on file.   *)
LEMMA RequestKeeps ==
    ASSUME RowInv, UNCHANGED rowVars, NEW r \in Returns, NEW q \in Request, request[r].pc # "done",
           request' = [request EXCEPT ![r] = q]
    PROVE  RowInv'
<1>1. status[r] = "NONE" /\ request \in [Returns -> Request]
  BY DEF RowInv
<1>2. request' \in [Returns -> Request] /\ request'[r] = q /\ \A x \in Returns : x # r => request'[x] = request[x]
  BY <1>1
<1> QED
  BY <1>1, <1>2 DEF RowInv, rowVars

(* resolveReturnLines takes no more of a line than is left.                *)
LEMMA ResolvedLine ==
    ASSUME RowInv, NEW r \in Returns, NEW p \in Products, ResolveLine(r, p)
    PROVE  \E q \in Request :
             /\ request' = [request EXCEPT ![r] = q] /\ request[r].pc = "resolving"
             /\ \/ q.pc = "done"
                \/ /\ q.pc = "resolving" /\ \A x \in Products : x # p => q.lines[x] = request[r].lines[x]
                   /\ q.lines[p] = 0 \/ q.lines[p] + ReturnedQty(p) <= Ordered[p]
<1> DEFINE returnable == Ordered[p] - ReturnedQty(p)
           qty == IF request[r].asked[p] = 0 THEN returnable ELSE request[r].asked[p]
           n == IF qty <= 0 THEN 0 ELSE qty
           no == [pc |-> "done", open |-> {}, asked |-> NoLines, lines |-> NoLines]
           yes == [request[r] EXCEPT !.open = @ \ {p}, !.asked[p] = 0, !.lines[p] = n]
<1>1. /\ request[r].pc = "resolving"
      /\ request' = [request EXCEPT ![r] = IF qty > 0 /\ qty > returnable THEN no ELSE yes]
  <2>1. request \in [Returns -> Request]
    BY DEF RowInv
  <2> QED
    BY <2>1 DEF ResolveLine, Request
<1>2. MaxUnits \in Nat /\ Ordered[p] \in Nat /\ Ordered[p] <= MaxUnits /\ ReturnedQty(p) \in Nat
  BY UnitsBound, QtyType DEF RowInv
<1>3. request[r] \in Request /\ request[r].asked \in [Products -> 0..(MaxUnits + 1)]
      /\ request[r].lines \in [Products -> 0..MaxUnits]
  BY DEF RowInv, Request, Asked
<1>4. NoLines \in Asked /\ NoLines \in [Products -> 0..MaxUnits]
  BY <1>2 DEF NoLines, Asked
<1>5. no \in Request /\ no.pc = "done"
  BY <1>4 DEF Request
<1>6. qty \in Int /\ returnable \in Int
  BY <1>2, <1>3
<1>7. CASE qty > 0 /\ qty > returnable
  BY <1>1, <1>5, <1>7
<1>8. CASE ~(qty > 0 /\ qty > returnable)
  <2>1. n \in 0..MaxUnits /\ (n = 0 \/ n + ReturnedQty(p) <= Ordered[p])
    BY <1>2, <1>6, <1>8
  <2> HIDE DEF n
  <2>2. [request[r].lines EXCEPT ![p] = n] \in [Products -> 0..MaxUnits]
    BY <1>3, <2>1
  <2>3. [request[r].asked EXCEPT ![p] = 0] \in Asked
    BY <1>2, <1>3 DEF Asked
  <2>4. yes = [request[r] EXCEPT !.open = @ \ {p}, !.asked = [request[r].asked EXCEPT ![p] = 0],
                                 !.lines = [request[r].lines EXCEPT ![p] = n]]
    BY <1>3 DEF Request
  <2>5. yes \in Request /\ yes.pc = "resolving" /\ yes.lines = [request[r].lines EXCEPT ![p] = n]
    BY <1>1, <1>3, <2>2, <2>3, <2>4 DEF Request
  <2>6. request' = [request EXCEPT ![r] = yes]
    BY <1>1, <1>8
  <2> HIDE DEF yes
  <2>7. yes.lines[p] = n /\ \A x \in Products : x # p => yes.lines[x] = request[r].lines[x]
    BY <1>3, <2>5
  <2> QED
    BY <1>1, <2>1, <2>5, <2>6, <2>7
<1> QED
  BY <1>7, <1>8

(* Every step keeps what the other invariants build on.                    *)
LEMMA BaseStep == BaseInv /\ [Next]_vars => BaseInv'
<1> SUFFICES ASSUME BaseInv, [Next]_vars PROVE BaseInv'
  OBVIOUS
<1>0. /\ PayInv /\ RowInv /\ DecInv /\ adjusted \in [Returns \X Products -> Nat]
      /\ faults \in 0..MaxFaults /\ faults \in Nat /\ overlap \in BOOLEAN
  BY DEF BaseInv
<1>1. (NoFault \/ Fault) => faults' \in 0..MaxFaults
  BY <1>0, ReturnConstants DEF NoFault, Fault
<1>2. UNCHANGED <<decider, status>> => DecInv'
  BY <1>0 DEF DecInv
<1>3. ASSUME NEW r \in Returns, NEW named \in SUBSET Products, NEW asked \in Asked, StartReturn(r, named, asked)
      PROVE  BaseInv'
  <2> DEFINE a == [p \in Products |-> IF p \in named THEN asked[p] ELSE 0]
             q == [pc |-> "resolving", open |-> IF named = {} THEN Products ELSE named, asked |-> a, lines |-> NoLines]
  <2>1. request[r].pc = "start" /\ request' = [request EXCEPT ![r] = q]
        /\ UNCHANGED <<rowVars, decider, adjusted, faults, payVars>>
    BY <1>3 DEF StartReturn
  <2>2. a \in Asked /\ NoLines \in [Products -> 0..MaxUnits]
    BY UnitsBound DEF Asked, NoLines
  <2>3. q \in Request
    BY <2>2 DEF Request
  <2> HIDE DEF q
  <2>4. RowInv'
    BY <1>0, <2>1, <2>3, RequestKeeps
  <2>5. overlap' \in BOOLEAN
    BY <1>3, Zenon DEF StartReturn
  <2> QED
    BY <1>0, <1>2, <2>1, <2>4, <2>5, PayKeeps DEF BaseInv, rowVars
<1>4. ASSUME NEW r \in Returns, NEW p \in Products, ResolveLine(r, p) PROVE BaseInv'
  <2>1. UNCHANGED <<rowVars, decider, adjusted, faults, payVars, overlap>>
    BY <1>4 DEF ResolveLine
  <2>2. PICK q \in Request : request' = [request EXCEPT ![r] = q] /\ request[r].pc = "resolving"
    BY <1>0, <1>4, ResolvedLine
  <2>3. RowInv'
    BY <1>0, <2>1, <2>2, RequestKeeps
  <2> QED
    BY <1>0, <1>2, <2>1, <2>3, PayKeeps DEF BaseInv, rowVars
<1>5. ASSUME NEW r \in Returns, InsertReturn(r) PROVE BaseInv'
  <2> DEFINE q == [request[r] EXCEPT !.pc = "done", !.lines = NoLines]
  <2>1. /\ request[r].pc = "resolving" /\ request' = [request EXCEPT ![r] = q]
        /\ UNCHANGED <<decider, adjusted, payVars, overlap>> /\ faults' \in 0..MaxFaults
    BY <1>1, <1>5 DEF InsertReturn
  <2>2. request[r] \in Request /\ request[r].lines \in [Products -> 0..MaxUnits] /\ status[r] = "NONE"
    BY <1>0, <2>1 DEF RowInv, Request
  <2>3. NoLines \in [Products -> 0..MaxUnits]
    BY UnitsBound DEF NoLines
  <2>4. q \in Request /\ q.pc = "done"
    BY <2>2, <2>3 DEF Request
  <2> HIDE DEF q
  <2>5. CASE UNCHANGED rowVars
    <3>1. RowInv'
      BY <1>0, <2>1, <2>4, <2>5, RequestKeeps
    <3> QED
      BY <1>0, <1>2, <2>1, <2>5, <3>1, PayKeeps DEF BaseInv, rowVars
  <2>6. CASE /\ status' = [status EXCEPT ![r] = "REQUESTED"] /\ lines' = [lines EXCEPT ![r] = request[r].lines]
             /\ announced' = [announced EXCEPT ![r] = {"requested"}] /\ UNCHANGED restocked
    <3>1. /\ status \in [Returns -> RStatus] /\ lines \in [Returns -> [Products -> 0..MaxUnits]]
          /\ announced \in [Returns -> SUBSET {"requested", "approved", "rejected"}] /\ request \in [Returns -> Request]
      BY <1>0 DEF RowInv
    <3>2. status' \in [Returns -> RStatus] /\ status'[r] = "REQUESTED" /\ \A x \in Returns : x # r => status'[x] = status[x]
      BY <2>6, <3>1 DEF RStatus
    <3>3. lines' \in [Returns -> [Products -> 0..MaxUnits]] /\ \A x \in Returns : x # r => lines'[x] = lines[x]
      BY <2>2, <2>6, <3>1
    <3>4. announced' \in [Returns -> SUBSET {"requested", "approved", "rejected"}]
      BY <2>6, <3>1
    <3>5. request' \in [Returns -> Request] /\ request'[r].pc = "done" /\ \A x \in Returns : x # r => request'[x] = request[x]
      BY <2>1, <2>4, <3>1
    <3>6. RowInv'
      BY <1>0, <2>6, <3>2, <3>3, <3>4, <3>5 DEF RowInv
    <3>7. ASSUME NEW e \in Deciders PROVE decider[e] = Idle \/ Busy(decider[e], status')
      BY <1>0, <2>2, <3>2 DEF DecInv, Busy
    <3>8. DecInv'
      BY <1>0, <2>1, <3>7 DEF DecInv
    <3> QED
      BY <1>0, <2>1, <3>6, <3>8, PayKeeps DEF BaseInv
  <2> QED
    BY <1>5, <2>5, <2>6 DEF InsertReturn
<1>6. ASSUME NEW d \in Deciders, NEW r \in Returns, NEW approve \in BOOLEAN, DecideReturn(d, r, approve) PROVE BaseInv'
  <2> DEFINE h == [Idle EXCEPT !.pc = "refund", !.ret = {r}]
  <2>1. /\ status[r] \in {"REQUESTED", DecideStatus(approve)} /\ status' = [status EXCEPT ![r] = DecideStatus(approve)]
        /\ announced' = [announced EXCEPT ![r] = @ \cup {DecideEvent(approve)}]
        /\ UNCHANGED <<lines, restocked, request, adjusted, faults, payVars>>
    BY <1>6 DEF DecideReturn
  <2>2. DecideStatus(approve) \in {"APPROVED", "REJECTED"} /\ DecideEvent(approve) \in {"approved", "rejected"}
    BY DEF DecideStatus, DecideEvent
  <2>3. /\ status \in [Returns -> RStatus]
        /\ announced \in [Returns -> SUBSET {"requested", "approved", "rejected"}]
    BY <1>0 DEF RowInv
  <2>4. status' \in [Returns -> RStatus] /\ status'[r] = DecideStatus(approve) /\ \A x \in Returns : x # r => status'[x] = status[x]
    BY <2>1, <2>2, <2>3 DEF RStatus
  <2>5. announced' \in [Returns -> SUBSET {"requested", "approved", "rejected"}]
    BY <2>1, <2>2, <2>3
  <2>6. status[r] # "NONE"
    BY <2>1, <2>2
  <2>7. RowInv'
    BY <1>0, <2>1, <2>2, <2>4, <2>5, <2>6 DEF RowInv
  <2>8. \A x \in Returns : status[x] = "APPROVED" => status'[x] = "APPROVED"
    BY <2>1, <2>2, <2>4
  <2>9. DecInv'
    <3>1. CASE approve
      <4>1. decider' = [decider EXCEPT ![d] = h] /\ status'[r] = "APPROVED"
        BY <1>6, <2>4, <3>1 DEF DecideReturn, DecideStatus
      <4>2. h \in Handler /\ Busy(h, status')
        BY <4>1, HandlerStates DEF Busy, Idle
      <4> HIDE DEF h
      <4> QED
        BY <1>0, <2>8, <4>1, <4>2, HandlersKeep
    <3>2. CASE ~approve
      <4>1. decider' = decider
        BY <1>6, <3>2 DEF DecideReturn
      <4>2. ASSUME NEW e \in Deciders PROVE decider[e] = Idle \/ Busy(decider[e], status')
        BY <1>0, <2>8 DEF DecInv, Busy
      <4> QED
        BY <1>0, <4>1, <4>2 DEF DecInv
    <3> QED
      BY <3>1, <3>2
  <2>10. overlap' \in BOOLEAN
    BY <1>6, Zenon DEF DecideReturn
  <2> QED
    BY <1>0, <2>1, <2>7, <2>9, <2>10, PayKeeps DEF BaseInv
<1>7. ASSUME NEW d \in Deciders, NEW r \in Returns, CallRefund(d, r) PROVE BaseInv'
  <2>1. UNCHANGED <<rowVars, request, adjusted, overlap>> /\ faults' \in 0..MaxFaults /\ PayInv'
    BY <1>7, RefundCalled
  <2>2. PICK h \in Handler : decider' = [decider EXCEPT ![d] = h] /\ (h = Idle \/ h = [decider[d] EXCEPT !.pc = "read"])
    BY <1>7, RefundCalled
  <2>3. r \in decider[d].ret
    BY <1>7 DEF CallRefund, At
  <2>4. decider[d] \in Handler /\ Busy(decider[d], status)
    BY <1>0, <2>3, HandlerWorksOn
  <2>5. Busy([decider[d] EXCEPT !.pc = "read"], status)
    BY <2>4 DEF Busy, Handler
  <2>6. status' = status
    BY <2>1 DEF rowVars
  <2>7. h = Idle \/ Busy(h, status')
    BY <2>2, <2>5, <2>6
  <2>8. DecInv'
    BY <1>0, <2>2, <2>6, <2>7, HandlersKeep
  <2> QED
    BY <1>0, <2>1, <2>8, RowsKeep DEF BaseInv
<1>8. ASSUME NEW d \in Deciders, NEW r \in Returns, NEW p \in Products,
             ReadUnrestocked(d, r) \/ CallAdjustStock(d, r, p) \/ MarkRestocked(d, r, p)
      PROVE  BaseInv'
  <2>1. UNCHANGED <<status, lines, announced, request, overlap, payVars>> /\ faults' \in 0..MaxFaults
    BY <1>8, RestockMoves
  <2>2. PICK h \in Handler : decider' = [decider EXCEPT ![d] = h] /\ (h = Idle \/ Busy(h, status))
    BY <1>8, RestockMoves
  <2>3. DecInv'
    BY <1>0, <2>1, <2>2, HandlersKeep
  <2>4. adjusted' \in [Returns \X Products -> Nat] /\ restocked' \subseteq Returns \X Products
    <3>1. adjusted' = adjusted \/ Adjust(r, p)
      BY <1>8 DEF ReadUnrestocked, CallAdjustStock, MarkRestocked
    <3>2. <<r, p>> \in Returns \X Products
      OBVIOUS
    <3>3. adjusted' \in [Returns \X Products -> Nat]
      BY <1>0, <3>1, <3>2 DEF Adjust
    <3>4. restocked' = restocked \/ restocked' = restocked \cup {<<r, p>>}
      BY <1>8 DEF ReadUnrestocked, CallAdjustStock, MarkRestocked, rowVars
    <3>5. restocked' \subseteq Returns \X Products
      BY <1>0, <3>2, <3>4 DEF RowInv
    <3> QED
      BY <3>3, <3>5
  <2>5. RowInv'
    BY <1>0, <2>1, <2>4 DEF RowInv
  <2> QED
    BY <1>0, <2>1, <2>3, <2>4, <2>5, PayKeeps DEF BaseInv
<1>9. ASSUME NEW d \in Deciders, CrashDecider(d) PROVE BaseInv'
  <2>1. UNCHANGED <<rowVars, request, adjusted, payVars, overlap>> /\ decider' = [decider EXCEPT ![d] = Idle] /\ faults' \in 0..MaxFaults
    BY <1>1, <1>9 DEF CrashDecider, Answer
  <2>2. status' = status /\ Idle \in Handler
    BY <2>1, HandlerStates DEF rowVars
  <2>3. DecInv'
    BY <1>0, <2>1, <2>2, HandlersKeep
  <2> QED
    BY <1>0, <2>1, <2>3, PayKeeps, RowsKeep DEF BaseInv
<1>10. ASSUME NEW cents \in 0..Total, DirectRefund(cents) PROVE BaseInv'
  <2>1. UNCHANGED <<rowVars, request, decider, adjusted, faults, overlap>> /\ Pay!Refund(ThePayment, cents, NoKey)
    BY <1>10 DEF DirectRefund
  <2>2. PayInv'
    <3>1. cents \in Int /\ NoKey \in Returns \cup {NoKey}
      BY ReturnConstants
    <3> QED
      BY <1>0, <2>1, <3>1, RefundAdds
  <2> QED
    BY <1>0, <1>2, <2>1, <2>2, RowsKeep DEF BaseInv, rowVars
<1>11. CASE UNCHANGED vars
  BY <1>0, <1>2, <1>11, PayKeeps, RowsKeep DEF BaseInv, vars, rowVars
<1>12. ASSUME NEW d \in Deciders, NEW r \in Returns, ReadUnrestocked(d, r) PROVE BaseInv'
  <2>1. \E p \in Products : TRUE
    BY ProductsThere
  <2> QED
    BY <1>8, <1>12, <2>1
<1> QED
  BY <1>3, <1>4, <1>5, <1>6, <1>7, <1>8, <1>9, <1>10, <1>11, <1>12 DEF Next

-----------------------------------------------------------------------------
(* A decision is final, and so is what the return is worth.                *)
LEMMA ApprovedStays ==
    ASSUME BaseInv, [Next]_vars, NEW r \in Returns, status[r] = "APPROVED"
    PROVE  status'[r] = "APPROVED" /\ RefundTotal(r)' = RefundTotal(r)
<1>1. status \in [Returns -> RStatus] /\ lines \in [Returns -> [Products -> 0..MaxUnits]]
  BY DEF BaseInv, RowInv
<1>2. status'[r] = "APPROVED" /\ lines'[r] = lines[r]
  <2>1. ASSUME NEW x \in Returns, InsertReturn(x) PROVE status'[r] = "APPROVED" /\ lines'[r] = lines[r]
    <3>1. x # r
      <4>1. status[x] = "NONE"
        BY <2>1 DEF InsertReturn, BaseInv, RowInv
      <4> QED
        BY <4>1
    <3> QED
      BY <1>1, <2>1, <3>1 DEF InsertReturn, rowVars
  <2>2. ASSUME NEW d, NEW x \in Returns, NEW approve \in BOOLEAN, DecideReturn(d, x, approve)
        PROVE  status'[r] = "APPROVED" /\ lines'[r] = lines[r]
    <3>1. status[x] \in {"REQUESTED", DecideStatus(approve)} /\ status' = [status EXCEPT ![x] = DecideStatus(approve)] /\ lines' = lines
      BY <2>2 DEF DecideReturn
    <3>2. x = r => DecideStatus(approve) = "APPROVED"
      BY <3>1
    <3> QED
      BY <1>1, <3>1, <3>2
  <2>3. ASSUME NEW d, NEW x, CallRefund(d, x) \/ ReadUnrestocked(d, x) \/ \E p : CallAdjustStock(d, x, p) \/ MarkRestocked(d, x, p)
        PROVE  status' = status /\ lines' = lines
    BY <2>3 DEF CallRefund, ReadUnrestocked, CallAdjustStock, MarkRestocked, rowVars
  <2>4. ASSUME NEW x, (\E named, asked : StartReturn(x, named, asked)) \/ (\E p : ResolveLine(x, p))
        PROVE  status' = status /\ lines' = lines
    BY <2>4 DEF StartReturn, ResolveLine, rowVars
  <2>5. ASSUME (\E d : CrashDecider(d)) \/ (\E cents : DirectRefund(cents)) \/ UNCHANGED vars
        PROVE  status' = status /\ lines' = lines
    BY <2>5 DEF CrashDecider, DirectRefund, vars, rowVars
  <2> QED
    BY <2>1, <2>2, <2>3, <2>4, <2>5 DEF Next
<1> QED
  BY <1>2 DEF RefundTotal, Value

(* The row of a return's refund, the first of its id.                      *)
RowOf(row, r) ==
    /\ status[r] = "APPROVED" /\ row.key = r /\ row.cents = RefundTotal(r)
    /\ ~Pay!RefundAlreadyApplied(ThePayment, r)

(* The refunds table changes only by a row of the return a handler is at,  *)
(* or by one without a key.                                                *)
LEMMA TableSteps ==
    ASSUME BaseInv, [Next]_vars
    PROVE  \/ Table' = Table
           \/ \E row \in Pay!RefundRow : /\ Table' = Append(Table, row)
                                         /\ row.key = NoKey \/ \E r \in Returns : RowOf(row, r)
<1>1. UNCHANGED payVars => Table' = Table
  BY DEF payVars, Table
<1>2. ASSUME NEW d \in Deciders, NEW r \in Returns, CallRefund(d, r)
      PROVE  \/ Table' = Table
             \/ \E row \in Pay!RefundRow : Table' = Append(Table, row) /\ RowOf(row, r)
  <2>1. r \in decider[d].ret
    BY <1>2 DEF CallRefund, At
  <2>2. status[r] = "APPROVED"
    BY <2>1, HandlerWorksOn DEF BaseInv
  <2>3. \/ Table' = Table
        \/ /\ ~Pay!RefundAlreadyApplied(ThePayment, r)
           /\ \E row \in Pay!RefundRow : row.key = r /\ row.cents = RefundTotal(r) /\ Table' = Append(Table, row)
    BY <1>2, RefundCalled
  <2> QED
    BY <2>2, <2>3 DEF RowOf
<1>3. ASSUME NEW cents \in 0..Total, DirectRefund(cents)
      PROVE  \E row \in Pay!RefundRow : Table' = Append(Table, row) /\ row.key = NoKey
  <2>1. cents \in Int /\ NoKey \in Returns \cup {NoKey} /\ PayInv /\ Pay!Refund(ThePayment, cents, NoKey)
    BY <1>3, ReturnConstants DEF DirectRefund, BaseInv
  <2> QED
    BY <2>1, RefundAdds
<1>4. ASSUME NEW r, (\E named, asked : StartReturn(r, named, asked)) \/ (\E p : ResolveLine(r, p)) \/ InsertReturn(r)
      PROVE  UNCHANGED payVars
  BY <1>4 DEF StartReturn, ResolveLine, InsertReturn
<1>5. ASSUME NEW d, NEW r, \/ \E approve : DecideReturn(d, r, approve)
                           \/ ReadUnrestocked(d, r) \/ \E p : CallAdjustStock(d, r, p) \/ MarkRestocked(d, r, p)
      PROVE  UNCHANGED payVars
  BY <1>5 DEF DecideReturn, ReadUnrestocked, CallAdjustStock, MarkRestocked
<1>6. ASSUME (\E d : CrashDecider(d)) \/ UNCHANGED vars PROVE UNCHANGED payVars
  BY <1>6 DEF CrashDecider, vars
<1> QED
  BY <1>1, <1>2, <1>3, <1>4, <1>5, <1>6 DEF Next

(* Every refund of a return is of its total, once, after its approval.     *)
KeyInv ==
    /\ \A i \in DOMAIN Table : Table[i].key # NoKey =>
         Table[i].key \in Returns /\ status[Table[i].key] = "APPROVED" /\ Table[i].cents = RefundTotal(Table[i].key)
    /\ \A i, j \in DOMAIN Table : Table[i].key = Table[j].key /\ i # j => Table[i].key = NoKey

(* KeyInv, from its parts after a step.                                    *)
LEMMA KeyShape ==
    ASSUME \A i \in DOMAIN Table' : Table'[i].key # NoKey => Table'[i].key \in Returns /\ status'[Table'[i].key] = "APPROVED",
           \A i \in DOMAIN Table', k \in Returns : Table'[i].key = k => Table'[i].cents = RefundTotal(k)',
           \A i, j \in DOMAIN Table' : Table'[i].key = Table'[j].key /\ i # j => Table'[i].key = NoKey
    PROVE  KeyInv'
<1>1. ASSUME NEW i \in DOMAIN Table', Table'[i].key # NoKey PROVE Table'[i].cents = RefundTotal(Table[i].key)'
  <2>1. PICK k \in Returns : Table'[i].key = k
    BY <1>1
  <2>2. Table'[i].cents = RefundTotal(k)'
    BY <2>1
  <2> QED
    BY <2>1, <2>2 DEF RefundTotal, Value
<1> QED
  BY <1>1 DEF KeyInv

(* Every step keeps the refunds right.                                     *)
LEMMA KeyStep == BaseInv /\ KeyInv /\ [Next]_vars => KeyInv'
<1> SUFFICES ASSUME BaseInv, KeyInv, [Next]_vars PROVE KeyInv'
  OBVIOUS
<1>1. ASSUME NEW r \in Returns, status[r] = "APPROVED" PROVE status'[r] = "APPROVED" /\ RefundTotal(r)' = RefundTotal(r)
  BY <1>1, ApprovedStays
<1>2. ASSUME NEW i \in DOMAIN Table, Table[i].key # NoKey
      PROVE  Table[i].key \in Returns /\ status'[Table[i].key] = "APPROVED" /\ \A k \in Returns : k = Table[i].key => Table[i].cents = RefundTotal(k)'
  BY <1>1, <1>2 DEF KeyInv
<1>3. CASE Table' = Table
  <2>1. ASSUME NEW i \in DOMAIN Table', Table'[i].key # NoKey
        PROVE  Table'[i].key \in Returns /\ status'[Table'[i].key] = "APPROVED"
    BY <1>2, <1>3, <2>1
  <2>2. ASSUME NEW i \in DOMAIN Table', NEW k \in Returns, Table'[i].key = k PROVE Table'[i].cents = RefundTotal(k)'
    <3>1. k # NoKey
      BY ReturnConstants
    <3> QED
      BY <1>2, <1>3, <2>2, <3>1
  <2>3. \A i, j \in DOMAIN Table' : Table'[i].key = Table'[j].key /\ i # j => Table'[i].key = NoKey
    BY <1>3 DEF KeyInv
  <2> QED
    BY <2>1, <2>2, <2>3, KeyShape
<1>4. ASSUME NEW row \in Pay!RefundRow, Table' = Append(Table, row), row.key = NoKey \/ \E r \in Returns : RowOf(row, r)
      PROVE  KeyInv'
  <2> DEFINE n == Len(Table) + 1
  <2>1. /\ DOMAIN Table' = DOMAIN Table \cup {n} /\ n \notin DOMAIN Table
        /\ \A i \in DOMAIN Table : Table'[i] = Table[i]
        /\ Table'[n] = row
    BY <1>4, TableGrows DEF BaseInv
  <2>2. row.key # NoKey => row.key \in Returns /\ status'[row.key] = "APPROVED" /\ \A k \in Returns : k = row.key => row.cents = RefundTotal(k)'
    BY <1>1, <1>4 DEF RowOf
  <2>3. row.key # NoKey => \A i \in DOMAIN Table : Table[i].key # row.key
    BY <1>4 DEF RowOf, Pay!RefundAlreadyApplied, Table
  <2> HIDE DEF n
  <2>4. ASSUME NEW i \in DOMAIN Table', Table'[i].key # NoKey
        PROVE  Table'[i].key \in Returns /\ status'[Table'[i].key] = "APPROVED"
    BY <1>2, <2>1, <2>2, <2>4
  <2>5. ASSUME NEW i \in DOMAIN Table', NEW k \in Returns, Table'[i].key = k PROVE Table'[i].cents = RefundTotal(k)'
    <3>1. k # NoKey
      BY ReturnConstants
    <3>2. CASE i = n
      BY <2>1, <2>2, <2>5, <3>1, <3>2
    <3>3. CASE i # n
      BY <1>2, <2>1, <2>5, <3>1, <3>3
    <3> QED
      BY <3>2, <3>3
  <2>6. ASSUME NEW i \in DOMAIN Table', NEW j \in DOMAIN Table', Table'[i].key = Table'[j].key, i # j
        PROVE  Table'[i].key = NoKey
    <3>1. CASE i # n /\ j # n
      BY <2>1, <2>6, <3>1 DEF KeyInv
    <3>2. CASE i = n \/ j = n
      BY <2>1, <2>3, <2>6, <3>2
    <3> QED
      BY <3>1, <3>2
  <2> QED
    BY <2>4, <2>5, <2>6, KeyShape
<1> QED
  BY <1>3, <1>4, TableSteps

-----------------------------------------------------------------------------
(* A handler past the refund, and a restocked line, are of a return whose  *)
(* refund was given.                                                       *)
PaidInv ==
    /\ \A d \in Deciders, r \in Returns : r \in decider[d].ret /\ decider[d].pc # "refund" => RefundedFor(r)
    /\ \A r \in Returns, p \in Products : adjusted[<<r, p>>] > 0 => status[r] = "APPROVED" /\ RefundedFor(r)

(* A refund that was given for an approved return stays.                   *)
LEMMA RefundedStays ==
    ASSUME BaseInv, [Next]_vars, NEW r \in Returns, status[r] = "APPROVED", RefundedFor(r)
    PROVE  RefundedFor(r)'
<1>1. RefundTotal(r)' = RefundTotal(r)
  BY ApprovedStays
<1>2. DOMAIN Table \subseteq DOMAIN Table' /\ \A i \in DOMAIN Table : Table'[i] = Table[i]
  <2>1. CASE Table' = Table
    BY <2>1
  <2>2. ASSUME NEW row \in Pay!RefundRow, Table' = Append(Table, row)
        PROVE  DOMAIN Table \subseteq DOMAIN Table' /\ \A i \in DOMAIN Table : Table'[i] = Table[i]
    BY <2>2, TableGrows DEF BaseInv
  <2> QED
    BY <2>1, <2>2, TableSteps
<1> QED
  BY <1>1, <1>2 DEF RefundedFor

(* A handler gets past the refund only when the refund was given.          *)
LEMMA PastRefund ==
    ASSUME BaseInv, [Next]_vars, NEW e \in Deciders, NEW s \in Returns,
           s \in decider'[e].ret, decider'[e].pc # "refund"
    PROVE  (s \in decider[e].ret /\ decider[e].pc # "refund") \/ RefundedFor(s)'
<1>0. decider \in [Deciders -> Handler] /\ DecInv
  BY DEF BaseInv, DecInv
<1>1. CASE decider'[e] = decider[e]
  BY <1>1
<1>2. ASSUME NEW d \in Deciders, NEW r \in Returns, CallRefund(d, r), decider'[e] # decider[e] PROVE RefundedFor(s)'
  <2>1. PICK h \in Handler :
          /\ decider' = [decider EXCEPT ![d] = h]
          /\ h = Idle \/ (h = [decider[d] EXCEPT !.pc = "read"] /\ (RefundTotal(r) = 0 \/ \E i \in DOMAIN Table' : Table'[i].key = r))
    BY <1>2, RefundCalled
  <2>2. e = d /\ decider'[e] = h
    BY <1>0, <1>2, <2>1
  <2>3. h # Idle
    BY <2>2 DEF Idle
  <2>4. decider[d].ret = {r}
    <3>1. r \in decider[d].ret
      BY <1>2 DEF CallRefund, At
    <3> QED
      BY <1>0, <3>1, HandlerWorksOn
  <2>5. s = r
    BY <1>0, <2>1, <2>2, <2>3, <2>4 DEF Handler
  <2>6. RefundTotal(r)' = RefundTotal(r)
    <3>1. lines' = lines
      BY <1>2 DEF CallRefund, rowVars
    <3> QED
      BY <3>1 DEF RefundTotal, Value
  <2> QED
    BY <2>1, <2>3, <2>5, <2>6 DEF RefundedFor
<1>3. ASSUME NEW d \in Deciders, NEW r \in Returns, NEW approve \in BOOLEAN, DecideReturn(d, r, approve), decider'[e] # decider[e]
      PROVE  FALSE
  <2>1. decider' = [decider EXCEPT ![d] = [Idle EXCEPT !.pc = "refund", !.ret = {r}]]
    BY <1>3 DEF DecideReturn
  <2>2. decider'[e].pc = "refund"
    BY <1>0, <1>3, <2>1 DEF Idle
  <2> QED
    BY <2>2
<1>4. ASSUME NEW d \in Deciders, NEW r \in Returns, NEW pc, At(d, r, pc), pc # "refund",
             NEW h, decider' = [decider EXCEPT ![d] = h], h = Idle \/ h.ret = decider[d].ret, decider'[e] # decider[e]
      PROVE  s \in decider[e].ret /\ decider[e].pc # "refund"
  <2>1. e = d /\ decider'[e] = h
    BY <1>0, <1>4
  <2> QED
    BY <1>4, <2>1 DEF At, Idle
<1>5. ASSUME NEW d \in Deciders, NEW r \in Returns, ReadUnrestocked(d, r), decider'[e] # decider[e]
      PROVE  s \in decider[e].ret /\ decider[e].pc # "refund"
  <2> DEFINE h == [decider[d] EXCEPT !.pc = "restock", !.pending = UnrestockedLines(r)]
  <2>1. decider' = [decider EXCEPT ![d] = Idle] \/ decider' = [decider EXCEPT ![d] = h]
    BY <1>0, <1>5 DEF ReadUnrestocked
  <2>2. h.ret = decider[d].ret
    BY <1>0 DEF Handler
  <2>3. At(d, r, "read")
    BY <1>5 DEF ReadUnrestocked
  <2> HIDE DEF h
  <2> QED
    BY <1>4, <1>5, <2>1, <2>2, <2>3
<1>6. ASSUME NEW d \in Deciders, NEW r \in Returns, NEW p \in Products, CallAdjustStock(d, r, p), decider'[e] # decider[e]
      PROVE  s \in decider[e].ret /\ decider[e].pc # "refund"
  <2> DEFINE h == [decider[d] EXCEPT !.pc = "mark", !.pending = @ \ {p}, !.line = {p}]
  <2>1. decider' = [decider EXCEPT ![d] = Idle] \/ decider' = [decider EXCEPT ![d] = h]
    BY <1>0, <1>6 DEF CallAdjustStock, Answer, ThenMark, Handler
  <2>2. h.ret = decider[d].ret
    BY <1>0 DEF Handler
  <2>3. At(d, r, "restock")
    BY <1>6 DEF CallAdjustStock
  <2> HIDE DEF h
  <2> QED
    BY <1>4, <1>6, <2>1, <2>2, <2>3
<1>7. ASSUME NEW d \in Deciders, NEW r \in Returns, NEW p \in Products, MarkRestocked(d, r, p), decider'[e] # decider[e]
      PROVE  s \in decider[e].ret /\ decider[e].pc # "refund"
  <2> DEFINE h == [decider[d] EXCEPT !.pc = "restock", !.line = {}]
  <2>1. decider' = [decider EXCEPT ![d] = Idle] \/ decider' = [decider EXCEPT ![d] = h]
    BY <1>0, <1>7 DEF MarkRestocked, Answer
  <2>2. h.ret = decider[d].ret
    BY <1>0 DEF Handler
  <2>3. At(d, r, "mark")
    BY <1>7 DEF MarkRestocked
  <2> HIDE DEF h
  <2> QED
    BY <1>4, <1>7, <2>1, <2>2, <2>3
<1>8. ASSUME NEW d \in Deciders, CrashDecider(d) PROVE decider'[e] = decider[e]
  <2>1. decider' = [decider EXCEPT ![d] = Idle]
    BY <1>8 DEF CrashDecider, Answer
  <2>2. e # d
    BY <1>0, <2>1 DEF Idle
  <2> QED
    BY <1>0, <2>1, <2>2
<1>9. ASSUME NEW r, (\E named, asked : StartReturn(r, named, asked)) \/ (\E p : ResolveLine(r, p)) \/ InsertReturn(r)
      PROVE  decider' = decider
  BY <1>9 DEF StartReturn, ResolveLine, InsertReturn
<1>10. ASSUME (\E cents : DirectRefund(cents)) \/ UNCHANGED vars PROVE decider' = decider
  BY <1>10 DEF DirectRefund, vars
<1> QED
  BY <1>1, <1>2, <1>3, <1>5, <1>6, <1>7, <1>8, <1>9, <1>10 DEF Next

(* Only a handler that is past the refund restocks.                        *)
LEMMA RestockedBy ==
    ASSUME BaseInv, [Next]_vars, NEW s \in Returns, NEW q \in Products, adjusted'[<<s, q>>] > 0
    PROVE  adjusted[<<s, q>>] > 0 \/ \E d \in Deciders : s \in decider[d].ret /\ decider[d].pc = "restock"
<1>1. CASE adjusted' = adjusted
  BY <1>1
<1>2. ASSUME NEW d \in Deciders, NEW r \in Returns, NEW p \in Products, CallAdjustStock(d, r, p), adjusted' # adjusted
      PROVE  adjusted[<<s, q>>] > 0 \/ (s \in decider[d].ret /\ decider[d].pc = "restock")
  <2>1. At(d, r, "restock") /\ Adjust(r, p)
    BY <1>2 DEF CallAdjustStock
  <2>2. adjusted \in [Returns \X Products -> Nat] /\ <<s, q>> \in Returns \X Products /\ <<r, p>> \in Returns \X Products
    BY DEF BaseInv
  <2>3. CASE s = r
    BY <2>1, <2>3 DEF At
  <2>4. CASE s # r
    <3>1. <<s, q>> # <<r, p>>
      BY <2>4
    <3>2. adjusted'[<<s, q>>] = adjusted[<<s, q>>]
      BY <2>1, <2>2, <3>1 DEF Adjust
    <3> QED
      BY <3>2
  <2> QED
    BY <2>3, <2>4
<1>3. ASSUME NEW d, NEW r, \/ \E approve : DecideReturn(d, r, approve)
                           \/ CallRefund(d, r) \/ ReadUnrestocked(d, r) \/ \E p : MarkRestocked(d, r, p)
      PROVE  adjusted' = adjusted
  BY <1>3 DEF DecideReturn, CallRefund, ReadUnrestocked, MarkRestocked
<1>4. ASSUME NEW r, (\E named, asked : StartReturn(r, named, asked)) \/ (\E p : ResolveLine(r, p)) \/ InsertReturn(r)
      PROVE  adjusted' = adjusted
  BY <1>4 DEF StartReturn, ResolveLine, InsertReturn
<1>5. ASSUME (\E d : CrashDecider(d)) \/ (\E cents : DirectRefund(cents)) \/ UNCHANGED vars PROVE adjusted' = adjusted
  BY <1>5 DEF CrashDecider, DirectRefund, vars
<1> QED
  BY <1>1, <1>2, <1>3, <1>4, <1>5 DEF Next

(* Every step keeps refunds before restocking.                             *)
LEMMA PaidStep == BaseInv /\ PaidInv /\ [Next]_vars => PaidInv'
<1> SUFFICES ASSUME BaseInv, PaidInv, [Next]_vars PROVE PaidInv'
  OBVIOUS
<1>1. ASSUME NEW d \in Deciders, NEW r \in Returns, r \in decider[d].ret, decider[d].pc # "refund"
      PROVE  status[r] = "APPROVED" /\ RefundedFor(r)
  BY <1>1, HandlerWorksOn DEF BaseInv, PaidInv
<1>2. ASSUME NEW d \in Deciders, NEW r \in Returns, r \in decider'[d].ret, decider'[d].pc # "refund" PROVE RefundedFor(r)'
  BY <1>1, <1>2, PastRefund, RefundedStays
<1>3. ASSUME NEW r \in Returns, NEW p \in Products, adjusted'[<<r, p>>] > 0
      PROVE  status'[r] = "APPROVED" /\ RefundedFor(r)'
  <2>1. status[r] = "APPROVED" /\ RefundedFor(r)
    BY <1>1, <1>3, RestockedBy DEF PaidInv
  <2> QED
    BY <2>1, ApprovedStays, RefundedStays
<1> QED
  BY <1>2, <1>3 DEF PaidInv

-----------------------------------------------------------------------------
(* While calls do not overlap, one request is resolved at a time, and it   *)
(* fits next to what is on file.                                           *)
QtyParts ==
    /\ \A r, s \in Returns : request[r].pc = "resolving" /\ request[s].pc = "resolving" => r = s
    /\ \A p \in Products : ReturnedQty(p) <= Ordered[p]
    /\ \A r \in Returns, p \in Products :
         request[r].pc = "resolving" => request[r].lines[p] + ReturnedQty(p) <= Ordered[p]
QtyInv == ~overlap => QtyParts

(* An overlap is remembered.                                               *)
LEMMA OverlapStays == ASSUME [Next]_vars, ~overlap' PROVE ~overlap
<1>1. ASSUME NEW r, \/ \E named, asked : StartReturn(r, named, asked)
                    \/ (\E p : ResolveLine(r, p)) \/ InsertReturn(r)
      PROVE  ~overlap
  BY <1>1, Zenon DEF StartReturn, ResolveLine, InsertReturn
<1>2. ASSUME NEW d, NEW r, \/ \E approve : DecideReturn(d, r, approve)
                           \/ CallRefund(d, r) \/ ReadUnrestocked(d, r)
                           \/ \E p : CallAdjustStock(d, r, p) \/ MarkRestocked(d, r, p)
      PROVE  ~overlap
  BY <1>2, Zenon DEF DecideReturn, CallRefund, ReadUnrestocked, CallAdjustStock, MarkRestocked
<1>3. ASSUME (\E d : CrashDecider(d)) \/ (\E cents : DirectRefund(cents)) \/ UNCHANGED vars PROVE ~overlap
  BY <1>3, Zenon DEF CrashDecider, DirectRefund, vars
<1> QED
  BY <1>1, <1>2, <1>3, Zenon DEF Next

(* What is on file depends on the rows alone.                              *)
LEMMA QtyKeeps == ASSUME UNCHANGED <<status, lines>>, NEW p PROVE ReturnedQty(p)' = ReturnedQty(p)
BY DEF ReturnedQty

(* A new return adds its lines to what is on file.                         *)
LEMMA QtyInserted ==
    ASSUME RowInv, NEW r \in Returns, status[r] = "NONE", NEW new \in [Products -> 0..MaxUnits],
           status' = [status EXCEPT ![r] = "REQUESTED"], lines' = [lines EXCEPT ![r] = new], NEW p \in Products
    PROVE  ReturnedQty(p)' = ReturnedQty(p) + new[p]
<1> DEFINE f == [x \in Returns |-> lines[x][p]]
           g == [x \in Returns |-> lines'[x][p]]
           S == {x \in Returns : status[x] # "REJECTED"}
<1>1. status \in [Returns -> RStatus] /\ lines \in [Returns -> [Products -> 0..MaxUnits]] /\ lines[r] = NoLines
  BY DEF RowInv
<1>2. IsFiniteSet(S) /\ r \in S
  BY ReturnConstants, FS_Subset
<1>3. {x \in Returns : status'[x] # "REJECTED"} = S
  BY <1>1
<1>4. f[r] = 0 /\ g[r] = new[p] /\ new[p] \in Int
  BY <1>1, UnitsBound DEF NoLines
<1>5. \A y \in S : f[y] \in Int /\ g[y] \in Int
  BY <1>1, UnitsBound
<1>6. \A y \in S \ {r} : g[y] = f[y]
  BY <1>1
<1> HIDE DEF f, g, S
<1>7. SumFunctionOnSet(g, S) = SumFunctionOnSet(f, S) - f[r] + g[r]
  BY <1>2, <1>5, <1>6, SumChange
<1>8. SumFunctionOnSet(f, S) \in Int
  BY <1>2, <1>5, SumType
<1>9. SumFunctionOnSet(g, S) = SumFunctionOnSet(f, S) + new[p]
  BY <1>4, <1>7, <1>8
<1>10. ReturnedQty(p) = SumFunctionOnSet(f, S)
  BY DEF ReturnedQty, f, S
<1>11. ReturnedQty(p)' = SumFunctionOnSet(g, S)
  BY <1>3 DEF ReturnedQty, g
<1> QED
  BY <1>9, <1>10, <1>11

(* A decision adds nothing to what is on file.                             *)
LEMMA QtyDecided ==
    ASSUME RowInv, NEW r \in Returns, NEW st \in {"APPROVED", "REJECTED"}, status[r] \in {"REQUESTED", st},
           status' = [status EXCEPT ![r] = st], lines' = lines, NEW p \in Products
    PROVE  ReturnedQty(p)' <= ReturnedQty(p)
<1> DEFINE f == [x \in Returns |-> lines[x][p]]
           S == {x \in Returns : status[x] # "REJECTED"}
           T == {x \in Returns : status'[x] # "REJECTED"}
<1>1. status \in [Returns -> RStatus] /\ lines \in [Returns -> [Products -> 0..MaxUnits]]
  BY DEF RowInv
<1>2. IsFiniteSet(S) /\ IsFiniteSet(S \ {r})
  BY ReturnConstants, FS_Subset
<1>3. \A y \in S : f[y] \in Nat /\ f[y] \in Int
  BY <1>1, UnitsBound
<1>4. T = S \/ (r \in S /\ T = S \ {r})
  BY <1>1
<1>5. ReturnedQty(p) = SumFunctionOnSet(f, S) /\ ReturnedQty(p)' = SumFunctionOnSet(f, T)
  BY DEF ReturnedQty
<1> HIDE DEF f, S, T
<1>6. SumFunctionOnSet(f, S) \in Nat /\ SumFunctionOnSet(f, S \ {r}) \in Nat
  BY <1>2, <1>3, SumType
<1>7. r \in S => f[r] \in Nat /\ SumFunctionOnSet(f, S) = f[r] + SumFunctionOnSet(f, S \ {r})
  BY <1>2, <1>3, SumRemove
<1>8. CASE T = S
  BY <1>5, <1>6, <1>8
<1>9. CASE r \in S /\ T = S \ {r}
  BY <1>5, <1>6, <1>7, <1>9
<1> QED
  BY <1>4, <1>8, <1>9

(* A step that changes neither rows nor requests keeps QtyParts.           *)
LEMMA QtyPartsKeep == ASSUME QtyParts, UNCHANGED <<status, lines, request>> PROVE QtyParts'
BY QtyKeeps DEF QtyParts

(* Every step keeps what is on file within the order, without overlaps.    *)
LEMMA QtyStep == BaseInv /\ QtyInv /\ [Next]_vars => QtyInv'
<1> SUFFICES ASSUME BaseInv, QtyInv, [Next]_vars, ~overlap' PROVE QtyParts'
  BY DEF QtyInv
<1>0. QtyParts
  BY OverlapStays, Zenon DEF QtyInv
<1>1. RowInv /\ request \in [Returns -> Request] /\ status \in [Returns -> RStatus]
  BY DEF BaseInv, RowInv
<1>2. \A p \in Products : ReturnedQty(p) \in Nat /\ Ordered[p] \in Nat
  BY <1>1, QtyType, UnitsBound DEF RowInv
<1>3. ASSUME NEW r \in Returns, NEW named \in SUBSET Products, NEW asked \in Asked, StartReturn(r, named, asked)
      PROVE  QtyParts'
  <2>1. \A x \in Returns : request[x].pc # "resolving"
    BY <1>3, Zenon DEF StartReturn
  <2>2. PICK q : request' = [request EXCEPT ![r] = q] /\ q.lines = NoLines
    <3> DEFINE q == [pc |-> "resolving", open |-> IF named = {} THEN Products ELSE named,
                     asked |-> [p \in Products |-> IF p \in named THEN asked[p] ELSE 0], lines |-> NoLines]
    <3>1. request' = [request EXCEPT ![r] = q]
      BY <1>3 DEF StartReturn
    <3>2. q.lines = NoLines
      OBVIOUS
    <3> HIDE DEF q
    <3> QED
      BY <3>1, <3>2
  <2>3. UNCHANGED <<status, lines>>
    BY <1>3 DEF StartReturn, rowVars
  <2>4. request'[r] = q /\ \A x \in Returns : x # r => request'[x] = request[x]
    BY <1>1, <2>2
  <2>5. \A p \in Products : ReturnedQty(p)' = ReturnedQty(p)
    BY <2>3, QtyKeeps
  <2>6. ASSUME NEW x \in Returns, NEW p \in Products, request'[x].pc = "resolving"
        PROVE  request'[x].lines[p] + ReturnedQty(p)' <= Ordered[p]
    <3>1. x = r /\ request'[x].lines[p] = 0
      BY <2>1, <2>2, <2>4, <2>6 DEF NoLines
    <3> QED
      BY <1>0, <1>2, <2>5, <3>1 DEF QtyParts
  <2> QED
    BY <1>0, <2>1, <2>4, <2>5, <2>6 DEF QtyParts
<1>4. ASSUME NEW r \in Returns, NEW p \in Products, ResolveLine(r, p) PROVE QtyParts'
  <2>1. UNCHANGED <<status, lines>>
    BY <1>4 DEF ResolveLine, rowVars
  <2>2. PICK q \in Request :
          /\ request' = [request EXCEPT ![r] = q] /\ request[r].pc = "resolving"
          /\ \/ q.pc = "done"
             \/ /\ q.pc = "resolving" /\ \A x \in Products : x # p => q.lines[x] = request[r].lines[x]
                /\ q.lines[p] = 0 \/ q.lines[p] + ReturnedQty(p) <= Ordered[p]
    BY <1>1, <1>4, ResolvedLine
  <2>3. request'[r] = q /\ \A x \in Returns : x # r => request'[x] = request[x]
    BY <1>1, <2>2
  <2>4. \A y \in Products : ReturnedQty(y)' = ReturnedQty(y)
    BY <2>1, QtyKeeps
  <2>5. ASSUME NEW x \in Returns, NEW y \in Products, request'[x].pc = "resolving"
        PROVE  request'[x].lines[y] + ReturnedQty(y)' <= Ordered[y]
    <3>1. x = r
      BY <1>0, <2>2, <2>3, <2>5 DEF QtyParts
    <3>2. q.pc = "resolving"
      BY <2>3, <2>5, <3>1
    <3>3. CASE y = p
      BY <1>0, <1>2, <2>2, <2>3, <2>4, <3>1, <3>2, <3>3 DEF QtyParts
    <3>4. CASE y # p
      BY <1>0, <2>2, <2>3, <2>4, <3>1, <3>2, <3>4 DEF QtyParts
    <3> QED
      BY <3>3, <3>4
  <2>6. \A x, y \in Returns : request'[x].pc = "resolving" /\ request'[y].pc = "resolving" => x = y
    BY <1>0, <2>2, <2>3 DEF QtyParts
  <2> QED
    BY <1>0, <2>4, <2>5, <2>6 DEF QtyParts
<1>5. ASSUME NEW r \in Returns, InsertReturn(r) PROVE QtyParts'
  <2>1. PICK q : request' = [request EXCEPT ![r] = q] /\ q.pc = "done" /\ request[r].pc = "resolving"
    <3>1. request[r] \in Request
      BY <1>1
    <3> QED
      BY <1>5, <3>1 DEF InsertReturn, Request
  <2>2. request'[r].pc = "done" /\ \A x \in Returns : x # r => request'[x] = request[x]
    BY <1>1, <2>1
  <2>3. \A x \in Returns : request'[x].pc # "resolving"
    BY <1>0, <2>1, <2>2 DEF QtyParts
  <2>4. ASSUME NEW p \in Products PROVE ReturnedQty(p)' <= Ordered[p]
    <3>1. CASE UNCHANGED rowVars
      BY <1>0, <3>1, QtyKeeps DEF QtyParts, rowVars
    <3>2. CASE status' = [status EXCEPT ![r] = "REQUESTED"] /\ lines' = [lines EXCEPT ![r] = request[r].lines]
      <4>1. status[r] = "NONE" /\ request[r].lines \in [Products -> 0..MaxUnits]
        BY <1>1, <2>1 DEF RowInv, Request
      <4>2. ReturnedQty(p)' = ReturnedQty(p) + request[r].lines[p]
        BY <1>1, <3>2, <4>1, QtyInserted
      <4>3. request[r].lines[p] + ReturnedQty(p) <= Ordered[p] /\ request[r].lines[p] \in Int
        BY <1>0, <2>1, <4>1, UnitsBound DEF QtyParts
      <4> QED
        BY <1>2, <4>2, <4>3
    <3> QED
      BY <1>5, <3>1, <3>2 DEF InsertReturn
  <2> QED
    BY <2>3, <2>4 DEF QtyParts
<1>6. ASSUME NEW d \in Deciders, NEW r \in Returns, NEW approve \in BOOLEAN, DecideReturn(d, r, approve) PROVE QtyParts'
  <2>1. PICK st \in {"APPROVED", "REJECTED"} : status[r] \in {"REQUESTED", st} /\ status' = [status EXCEPT ![r] = st]
    BY <1>6 DEF DecideReturn, DecideStatus
  <2>2. UNCHANGED <<lines, request>>
    BY <1>6 DEF DecideReturn
  <2>3. lines \in [Returns -> [Products -> 0..MaxUnits]] /\ lines' \in [Returns -> [Products -> 0..MaxUnits]]
    BY <1>1, <2>2 DEF RowInv
  <2>4. ASSUME NEW p \in Products PROVE ReturnedQty(p)' <= ReturnedQty(p)
    BY <1>1, <2>1, <2>2, QtyDecided
  <2>5. ASSUME NEW p \in Products PROVE ReturnedQty(p)' \in Int
    <3>1. BaseInv'
      BY BaseStep
    <3>2. status' \in [Returns -> RStatus]
      BY <3>1 DEF BaseInv, RowInv
    <3> DEFINE f == [x \in Returns |-> lines'[x][p]]
               T == {x \in Returns : status'[x] # "REJECTED"}
    <3>3. IsFiniteSet(T) /\ \A x \in T : f[x] \in Int
      BY <2>3, UnitsBound, ReturnConstants, FS_Subset
    <3>4. ReturnedQty(p)' = SumFunctionOnSet(f, T)
      BY DEF ReturnedQty
    <3> HIDE DEF f, T
    <3> QED
      BY <3>3, <3>4, SumType
  <2>6. ASSUME NEW p \in Products PROVE ReturnedQty(p)' <= Ordered[p]
    BY <1>0, <1>2, <2>4, <2>5 DEF QtyParts
  <2>7. ASSUME NEW x \in Returns, NEW p \in Products, request'[x].pc = "resolving"
        PROVE  request'[x].lines[p] + ReturnedQty(p)' <= Ordered[p]
    <3>1. request'[x] = request[x] /\ request[x].lines[p] \in Int
      BY <1>1, <2>2, UnitsBound DEF Request
    <3>2. request[x].lines[p] + ReturnedQty(p) <= Ordered[p]
      BY <1>0, <2>7, <3>1 DEF QtyParts
    <3> QED
      BY <1>2, <2>4, <2>5, <3>1, <3>2
  <2> QED
    BY <1>0, <2>2, <2>6, <2>7 DEF QtyParts
<1>7. ASSUME NEW d, NEW r, CallRefund(d, r) \/ ReadUnrestocked(d, r) \/ \E p : CallAdjustStock(d, r, p) \/ MarkRestocked(d, r, p)
      PROVE  QtyParts'
  <2>1. UNCHANGED <<status, lines, request>>
    BY <1>7 DEF CallRefund, ReadUnrestocked, CallAdjustStock, MarkRestocked, rowVars
  <2> QED
    BY <1>0, <2>1, QtyPartsKeep
<1>8. ASSUME (\E d : CrashDecider(d)) \/ (\E cents : DirectRefund(cents)) \/ UNCHANGED vars PROVE QtyParts'
  <2>1. UNCHANGED <<status, lines, request>>
    BY <1>8 DEF CrashDecider, DirectRefund, vars, rowVars
  <2> QED
    BY <1>0, <2>1, QtyPartsKeep
<1> QED
  BY <1>3, <1>4, <1>5, <1>6, <1>7, <1>8 DEF Next

-----------------------------------------------------------------------------
(* A handler is about to mark the line as restocked.                       *)
Marking(r, p) == \E d \in Deciders : decider[d].pc = "mark" /\ r \in decider[d].ret /\ p \in decider[d].line

(* While calls neither overlap nor fail, a return has one handler, and a   *)
(* line it is still to restock was not restocked.                          *)
OnceParts ==
    /\ \A d, e \in Deciders, r \in Returns : r \in decider[d].ret /\ r \in decider[e].ret => d = e
    /\ \A r \in Returns, p \in Products :
         adjusted[<<r, p>>] = 0 \/ (adjusted[<<r, p>>] = 1 /\ (<<r, p>> \in restocked \/ Marking(r, p)))
    /\ \A d \in Deciders, r \in Returns, p \in Products :
         r \in decider[d].ret /\ p \in decider[d].pending => adjusted[<<r, p>>] = 0
OnceInv == ~overlap /\ faults = 0 => OnceParts

(* OnceParts after a step of handler d.                                    *)
LEMMA OnceShape ==
    ASSUME BaseInv, OnceParts, NEW d \in Deciders, NEW h, decider' = [decider EXCEPT ![d] = h],
           h.ret \subseteq decider[d].ret,
           \A r \in Returns, p \in Products : r \in h.ret /\ p \in h.pending => adjusted'[<<r, p>>] = 0,
           \A e \in Deciders, r \in Returns, p \in Products :
              e # d /\ r \in decider[e].ret => adjusted'[<<r, p>>] = adjusted[<<r, p>>],
           \A r \in Returns, p \in Products :
              \/ adjusted'[<<r, p>>] = 0
              \/ adjusted'[<<r, p>>] = 1 /\ \/ <<r, p>> \in restocked' \/ (h.pc = "mark" /\ r \in h.ret /\ p \in h.line)
                                            \/ \E e \in Deciders : /\ e # d /\ decider[e].pc = "mark"
                                                                   /\ r \in decider[e].ret /\ p \in decider[e].line
    PROVE  OnceParts'
<1>1. decider'[d] = h /\ \A e \in Deciders : e # d => decider'[e] = decider[e]
  BY DEF BaseInv, DecInv
<1>2. \A c, e \in Deciders, r \in Returns : r \in decider'[c].ret /\ r \in decider'[e].ret => c = e
  BY <1>1 DEF OnceParts
<1>3. ASSUME NEW e \in Deciders, NEW r \in Returns, NEW p \in Products, r \in decider'[e].ret, p \in decider'[e].pending
      PROVE  adjusted'[<<r, p>>] = 0
  BY <1>1, <1>3 DEF OnceParts
<1>4. ASSUME NEW r \in Returns, NEW p \in Products
      PROVE  adjusted'[<<r, p>>] = 0 \/ (adjusted'[<<r, p>>] = 1 /\ (<<r, p>> \in restocked' \/ Marking(r, p)'))
  BY <1>1 DEF Marking
<1> QED
  BY <1>2, <1>3, <1>4 DEF OnceParts

(* Failures are counted.                                                   *)
LEMMA FaultsStay == ASSUME BaseInv, [Next]_vars, faults' = 0 PROVE faults = 0 /\ ~Fault
<1>1. faults \in Nat /\ (NoFault \/ Fault => faults' >= faults) /\ ~Fault
  BY DEF BaseInv, NoFault, Fault
<1>2. ASSUME NEW r, \/ \E named, asked : StartReturn(r, named, asked)
                    \/ (\E p : ResolveLine(r, p)) \/ InsertReturn(r)
      PROVE  faults = 0
  BY <1>1, <1>2 DEF StartReturn, ResolveLine, InsertReturn, NoFault
<1>3. ASSUME NEW d, NEW r, \/ \E approve : DecideReturn(d, r, approve)
                           \/ CallRefund(d, r) \/ ReadUnrestocked(d, r)
                           \/ \E p : CallAdjustStock(d, r, p) \/ MarkRestocked(d, r, p)
      PROVE  faults = 0
  BY <1>1, <1>3 DEF DecideReturn, CallRefund, ReadUnrestocked, CallAdjustStock, MarkRestocked, NoFault
<1>4. ASSUME (\E d : CrashDecider(d)) \/ (\E cents : DirectRefund(cents)) \/ UNCHANGED vars PROVE faults = 0
  BY <1>1, <1>4 DEF CrashDecider, DirectRefund, vars
<1> QED
  BY <1>1, <1>2, <1>3, <1>4 DEF Next

(* A step that moves no handler and restocks nothing keeps OnceParts.      *)
LEMMA OncePartsKeep == ASSUME OnceParts, UNCHANGED <<decider, adjusted, restocked>> PROVE OnceParts'
BY DEF OnceParts, Marking

(* Every step restocks a line once, without overlaps and failures.         *)
LEMMA OnceStep == BaseInv /\ OnceInv /\ [Next]_vars => OnceInv'
<1> SUFFICES ASSUME BaseInv, OnceInv, [Next]_vars, ~overlap', faults' = 0 PROVE OnceParts'
  BY DEF OnceInv
<1>0. OnceParts
  <2>1. ~overlap
    BY OverlapStays
  <2>2. faults = 0
    BY FaultsStay
  <2> QED
    BY <2>1, <2>2, Zenon DEF OnceInv
<1>1. ~Fault
  BY FaultsStay
<1>2. /\ decider \in [Deciders -> Handler] /\ DecInv /\ adjusted \in [Returns \X Products -> Nat]
      /\ \A r \in Returns, p \in Products : <<r, p>> \in Returns \X Products
  BY DEF BaseInv, DecInv
<1>3. ASSUME NEW d \in Deciders, NEW r \in Returns, NEW pc, At(d, r, pc)
      PROVE  decider[d] \in Handler /\ decider[d].ret = {r} /\ decider[d].pc = pc /\ \A p, q \in decider[d].line : p = q
  <2>1. r \in decider[d].ret /\ decider[d].pc = pc
    BY <1>3 DEF At
  <2>2. decider[d] \in Handler /\ decider[d].ret = {r} /\ Busy(decider[d], status)
    BY <1>2, <2>1, HandlerWorksOn
  <2> QED
    BY <2>1, <2>2 DEF Busy
<1>4. ASSUME NEW d \in Deciders, NEW r \in Returns, NEW approve \in BOOLEAN, DecideReturn(d, r, approve) PROVE OnceParts'
  <2>1. UNCHANGED <<adjusted, restocked>> /\ decider[d] = Idle
    BY <1>4 DEF DecideReturn
  <2>2. CASE ~approve
    <3>1. decider' = decider
      BY <1>4, <2>2 DEF DecideReturn
    <3> QED
      BY <1>0, <2>1, <3>1, OncePartsKeep
  <2>3. CASE approve
    <3>1. \A e \in Deciders : r \notin decider[e].ret
      BY <1>4, Zenon DEF DecideReturn
    <3>2. PICK h : decider' = [decider EXCEPT ![d] = h] /\ h.pc = "refund" /\ h.ret = {r} /\ h.pending = {}
      <4> DEFINE h == [Idle EXCEPT !.pc = "refund", !.ret = {r}]
      <4>1. decider' = [decider EXCEPT ![d] = h]
        BY <1>4, <2>3 DEF DecideReturn
      <4>2. h.pc = "refund" /\ h.ret = {r} /\ h.pending = {}
        BY DEF Idle
      <4> HIDE DEF h
      <4> QED
        BY <4>1, <4>2
    <3>3. decider'[d] = h /\ \A e \in Deciders : e # d => decider'[e] = decider[e]
      BY <1>2, <3>2
    <3>4. \A c, e \in Deciders, s \in Returns : s \in decider'[c].ret /\ s \in decider'[e].ret => c = e
      BY <1>0, <3>1, <3>2, <3>3 DEF OnceParts
    <3>5. \A e \in Deciders, s \in Returns, p \in Products :
            s \in decider'[e].ret /\ p \in decider'[e].pending => adjusted'[<<s, p>>] = 0
      BY <1>0, <2>1, <3>2, <3>3 DEF OnceParts
    <3>6. \A s \in Returns, p \in Products : Marking(s, p) => Marking(s, p)'
      BY <2>1, <3>3 DEF Marking, Idle
    <3> QED
      BY <1>0, <2>1, <3>4, <3>5, <3>6 DEF OnceParts
  <2> QED
    BY <2>2, <2>3
<1>5. ASSUME NEW d \in Deciders, NEW r \in Returns, CallRefund(d, r) PROVE OnceParts'
  <2>1. UNCHANGED <<adjusted, restocked>> /\ At(d, r, "refund")
    BY <1>5 DEF CallRefund, rowVars
  <2>2. PICK h \in Handler : decider' = [decider EXCEPT ![d] = h] /\ (h = Idle \/ h = [decider[d] EXCEPT !.pc = "read"])
    BY <1>5, RefundCalled
  <2>3. h.ret \subseteq decider[d].ret /\ h.pending \subseteq decider[d].pending
    BY <1>2, <2>2 DEF Handler, Idle
  <2>4. decider[d].pc # "mark"
    BY <2>1 DEF At
  <2> QED
    BY <1>0, <2>1, <2>2, <2>3, <2>4, OnceShape DEF OnceParts, Marking
<1>6. ASSUME NEW d \in Deciders, NEW r \in Returns, ReadUnrestocked(d, r) PROVE OnceParts'
  <2>1. UNCHANGED <<adjusted, restocked>> /\ At(d, r, "read")
    BY <1>6 DEF ReadUnrestocked, rowVars
  <2>2. decider[d] \in Handler /\ decider[d].ret = {r} /\ decider[d].pc = "read"
    BY <1>3, <2>1
  <2>3. PICK h : /\ decider' = [decider EXCEPT ![d] = h] /\ h.ret \subseteq {r}
                 /\ h.ret # {} => h.pending = UnrestockedLines(r)
    <3> DEFINE g == [decider[d] EXCEPT !.pc = "restock", !.pending = UnrestockedLines(r)]
    <3>1. decider' = [decider EXCEPT ![d] = Idle] \/ decider' = [decider EXCEPT ![d] = g]
      BY <1>2, <1>6 DEF ReadUnrestocked
    <3>2. g.ret = {r} /\ g.pending = UnrestockedLines(r) /\ Idle.ret = {}
      BY <2>2 DEF Handler, Idle
    <3> HIDE DEF g
    <3> QED
      BY <3>1, <3>2
  <2>4. ASSUME NEW p \in UnrestockedLines(r) PROVE adjusted[<<r, p>>] = 0
    <3>1. p \in Products /\ <<r, p>> \notin restocked
      BY DEF UnrestockedLines
    <3>2. ~Marking(r, p)
      BY <1>0, <2>2 DEF Marking, OnceParts
    <3> QED
      BY <1>0, <3>1, <3>2 DEF OnceParts
  <2>5. \A s \in Returns, p \in Products : s \in h.ret /\ p \in h.pending => adjusted'[<<s, p>>] = 0
    BY <2>1, <2>3, <2>4
  <2> QED
    BY <1>0, <2>1, <2>2, <2>3, <2>5, OnceShape DEF OnceParts, Marking
<1>7. ASSUME NEW d \in Deciders, NEW r \in Returns, NEW p \in Products, CallAdjustStock(d, r, p) PROVE OnceParts'
  <2>1. At(d, r, "restock") /\ p \in decider[d].pending /\ Adjust(r, p) /\ ThenMark(d, p) /\ restocked' = restocked
    BY <1>1, <1>7 DEF CallAdjustStock, rowVars
  <2>2. decider[d] \in Handler /\ decider[d].ret = {r} /\ decider[d].pc = "restock"
    BY <1>3, <2>1
  <2>3. PICK h : /\ decider' = [decider EXCEPT ![d] = h] /\ h.ret = {r} /\ h.pc = "mark"
                 /\ h.pending = decider[d].pending \ {p} /\ h.line = {p}
    <3> DEFINE h == [decider[d] EXCEPT !.pc = "mark", !.pending = @ \ {p}, !.line = {p}]
    <3>1. decider' = [decider EXCEPT ![d] = h]
      BY <1>2, <2>1 DEF ThenMark, Handler
    <3>2. h.ret = {r} /\ h.pc = "mark" /\ h.pending = decider[d].pending \ {p} /\ h.line = {p}
      BY <2>2 DEF Handler
    <3> HIDE DEF h
    <3> QED
      BY <3>1, <3>2
  <2>4. adjusted[<<r, p>>] = 0
    BY <1>0, <2>1, <2>2 DEF OnceParts
  <2>5. adjusted'[<<r, p>>] = 1
    BY <1>2, <2>1, <2>4 DEF Adjust
  <2>6. ASSUME NEW s \in Returns, NEW q \in Products, s # r \/ q # p PROVE adjusted'[<<s, q>>] = adjusted[<<s, q>>]
    <3>1. <<s, q>> # <<r, p>>
      BY <2>6
    <3> QED
      BY <1>2, <2>1, <3>1 DEF Adjust
  <2>7. \A s \in Returns, q \in Products : s \in h.ret /\ q \in h.pending => adjusted'[<<s, q>>] = 0
    BY <1>0, <2>2, <2>3, <2>6 DEF OnceParts
  <2>8. \A e \in Deciders, s \in Returns, q \in Products :
          e # d /\ s \in decider[e].ret => adjusted'[<<s, q>>] = adjusted[<<s, q>>]
    BY <1>0, <2>2, <2>6 DEF OnceParts
  <2>9. ASSUME NEW s \in Returns, NEW q \in Products
        PROVE  \/ adjusted'[<<s, q>>] = 0
               \/ adjusted'[<<s, q>>] = 1 /\ \/ <<s, q>> \in restocked' \/ (h.pc = "mark" /\ s \in h.ret /\ q \in h.line)
                                             \/ \E e \in Deciders : /\ e # d /\ decider[e].pc = "mark"
                                                                    /\ s \in decider[e].ret /\ q \in decider[e].line
    <3>1. CASE s = r /\ q = p
      BY <2>3, <2>5, <3>1
    <3>2. CASE s # r \/ q # p
      BY <1>0, <2>1, <2>2, <2>6, <3>2 DEF OnceParts, Marking
    <3> QED
      BY <3>1, <3>2
  <2> QED
    BY <1>0, <2>2, <2>3, <2>7, <2>8, <2>9, OnceShape
<1>8. ASSUME NEW d \in Deciders, NEW r \in Returns, NEW p \in Products, MarkRestocked(d, r, p) PROVE OnceParts'
  <2>1. At(d, r, "mark") /\ p \in decider[d].line /\ restocked' = restocked \cup {<<r, p>>} /\ adjusted' = adjusted
    BY <1>1, <1>8 DEF MarkRestocked
  <2>2. decider[d] \in Handler /\ decider[d].ret = {r} /\ \A x, y \in decider[d].line : x = y
    BY <1>3, <2>1
  <2>3. PICK h : decider' = [decider EXCEPT ![d] = h] /\ h.ret \subseteq {r} /\ h.pending \subseteq decider[d].pending
    <3> DEFINE g == [decider[d] EXCEPT !.pc = "restock", !.line = {}]
    <3>1. decider' = [decider EXCEPT ![d] = Idle] \/ decider' = [decider EXCEPT ![d] = g]
      BY <1>2, <1>8 DEF MarkRestocked, Answer
    <3>2. g.ret = {r} /\ g.pending = decider[d].pending /\ Idle.ret = {} /\ Idle.pending = {}
      BY <2>2 DEF Handler, Idle
    <3> HIDE DEF g
    <3> QED
      BY <3>1, <3>2
  <2>4. \A s \in Returns, q \in Products : s \in h.ret /\ q \in h.pending => adjusted'[<<s, q>>] = 0
    BY <1>0, <2>1, <2>2, <2>3 DEF OnceParts
  <2>5. ASSUME NEW s \in Returns, NEW q \in Products
        PROVE  \/ adjusted'[<<s, q>>] = 0
               \/ adjusted'[<<s, q>>] = 1 /\ \/ <<s, q>> \in restocked'
                                             \/ \E e \in Deciders : /\ e # d /\ decider[e].pc = "mark"
                                                                    /\ s \in decider[e].ret /\ q \in decider[e].line
    BY <1>0, <2>1, <2>2 DEF OnceParts, Marking
  <2>6. \A e \in Deciders, s \in Returns, q \in Products :
          e # d /\ s \in decider[e].ret => adjusted'[<<s, q>>] = adjusted[<<s, q>>]
    BY <2>1
  <2>7. h.ret \subseteq decider[d].ret
    BY <2>2, <2>3
  <2>8. decider'[d] = h /\ \A e \in Deciders : e # d => decider'[e] = decider[e]
    BY <1>2, <2>3
  <2>9. \A c, e \in Deciders, s \in Returns : s \in decider'[c].ret /\ s \in decider'[e].ret => c = e
    BY <1>0, <2>7, <2>8 DEF OnceParts
  <2>10. \A e \in Deciders, s \in Returns, q \in Products :
           s \in decider'[e].ret /\ q \in decider'[e].pending => adjusted'[<<s, q>>] = 0
    BY <1>0, <2>4, <2>6, <2>8 DEF OnceParts
  <2>11. ASSUME NEW s \in Returns, NEW q \in Products
         PROVE  adjusted'[<<s, q>>] = 0 \/ (adjusted'[<<s, q>>] = 1 /\ (<<s, q>> \in restocked' \/ Marking(s, q)'))
    BY <2>5, <2>8 DEF Marking
  <2> QED
    BY <2>9, <2>10, <2>11 DEF OnceParts
<1>9. ASSUME NEW d \in Deciders, CrashDecider(d) PROVE FALSE
  BY <1>1, <1>9 DEF CrashDecider
<1>10. ASSUME NEW r, (\E named, asked : StartReturn(r, named, asked)) \/ (\E p : ResolveLine(r, p)) \/ InsertReturn(r)
       PROVE  OnceParts'
  <2>1. UNCHANGED <<decider, adjusted, restocked>>
    BY <1>10 DEF StartReturn, ResolveLine, InsertReturn, rowVars
  <2> QED
    BY <1>0, <2>1, OncePartsKeep
<1>11. ASSUME (\E cents : DirectRefund(cents)) \/ UNCHANGED vars PROVE OnceParts'
  <2>1. UNCHANGED <<decider, adjusted, restocked>>
    BY <1>11 DEF DirectRefund, vars, rowVars
  <2> QED
    BY <1>0, <2>1, OncePartsKeep
<1> QED
  BY <1>4, <1>5, <1>6, <1>7, <1>8, <1>9, <1>10, <1>11 DEF Next

-----------------------------------------------------------------------------
(* The inductive invariant.                                                *)
ReturnInv == BaseInv /\ KeyInv /\ PaidInv /\ QtyInv /\ OnceInv

(* It holds at the start: no return, no refund, no handler at work.        *)
LEMMA ReturnStarts == Init => ReturnInv
<1> SUFFICES ASSUME Init PROVE ReturnInv
  OBVIOUS
<1>1. Table = <<>> /\ DOMAIN Table = {}
  BY DEF Init, Table
<1>2. PayInv
  <2>1. refunds \in [{ThePayment} -> Seq(Pay!RefundRow)]
    BY DEF Init
  <2>2. refunded \in [{ThePayment} -> 0..Total]
    BY ReturnConstants DEF Init
  <2> QED
    BY <2>1, <2>2 DEF Init, PayInv
<1>3. NoLines \in [Products -> 0..MaxUnits] /\ NoLines \in Asked
  BY UnitsBound, ProductsThere DEF NoLines, Asked
<1>4. RowInv
  BY <1>3 DEF Init, RowInv, RStatus, Request
<1>5. DecInv
  BY HandlerStates DEF Init, DecInv
<1>6. adjusted \in [Returns \X Products -> Nat] /\ faults \in 0..MaxFaults /\ overlap \in BOOLEAN
  <2>1. overlap \in BOOLEAN
    BY Zenon DEF Init
  <2>2. faults \in 0..MaxFaults
    BY ReturnConstants DEF Init
  <2>3. adjusted \in [Returns \X Products -> Nat]
    BY DEF Init
  <2> QED
    BY <2>1, <2>2, <2>3
<1>7. BaseInv
  BY <1>2, <1>4, <1>5, <1>6 DEF BaseInv
<1>8. KeyInv
  BY <1>1 DEF KeyInv
<1>9. \A d \in Deciders : decider[d].ret = {} /\ decider[d].pending = {}
  BY DEF Init, Idle
<1>10. \A r \in Returns, p \in Products : adjusted[<<r, p>>] = 0
  BY DEF Init
<1>11. PaidInv
  BY <1>9, <1>10 DEF PaidInv
<1>12. OnceInv
  BY <1>9, <1>10 DEF OnceInv, OnceParts
<1>13. \A p \in Products : ReturnedQty(p) = 0 /\ Ordered[p] >= 0
  <2>1. ASSUME NEW p \in Products PROVE ReturnedQty(p) = 0
    <3> DEFINE f == [r \in Returns |-> lines[r][p]]
               S == {r \in Returns : status[r] # "REJECTED"}
    <3>1. IsFiniteSet(S) /\ \A r \in S : f[r] = 0
      BY ReturnConstants, FS_Subset DEF Init, NoLines
    <3> HIDE DEF f, S
    <3>2. SumFunctionOnSet(f, S) = 0
      BY <3>1, SumZero
    <3> QED
      BY <3>2 DEF ReturnedQty, f, S
  <2> QED
    BY <2>1, UnitsBound
<1>14. QtyInv
  <2>1. \A r \in Returns : request[r].pc = "start"
    BY DEF Init
  <2> QED
    BY <1>13, <2>1 DEF QtyInv, QtyParts
<1> QED
  BY <1>7, <1>8, <1>11, <1>12, <1>14 DEF ReturnInv

(* Every step of every actor keeps it.                                     *)
LEMMA ReturnStep == ReturnInv /\ [Next]_vars => ReturnInv'
BY BaseStep, KeyStep, PaidStep, QtyStep, OnceStep DEF ReturnInv

(* It implies what RequestReturn and DecideReturn promise of the money.    *)
LEMMA ReturnMoney == ReturnInv => RefundsMatchReturns
<1> SUFFICES ASSUME ReturnInv PROVE RefundsMatchReturns
  OBVIOUS
<1>1. BaseInv /\ KeyInv /\ QtyInv
  BY DEF ReturnInv
<1>2. Pay!PaymentTypeOK
  BY <1>1, ReturnConstants DEF BaseInv, PayInv, Pay!PaymentTypeOK, Pay!PStatus
<1>3. TypeOK
  BY <1>1, <1>2 DEF TypeOK, BaseInv, RowInv, DecInv, RStatus, Request, Handler
<1>4. \A row \in RefundRows : row.key # NoKey => status[row.key] = "APPROVED" /\ row.cents = RefundTotal(row.key)
  BY <1>1 DEF RefundRows, KeyInv, Table
<1>5. \A i, j \in DOMAIN refunds[ThePayment] :
        refunds[ThePayment][i].key = refunds[ThePayment][j].key /\ i # j => refunds[ThePayment][i].key = NoKey
  BY <1>1 DEF KeyInv, Table
<1>6. ~overlap => \A p \in Products : ReturnedQty(p) <= Ordered[p]
  BY <1>1 DEF QtyInv, QtyParts
<1> QED
  BY <1>3, <1>4, <1>5, <1>6 DEF RefundsMatchReturns

(* It implies what DecideReturn promises of the stock.                     *)
LEMMA ReturnStock == ReturnInv => RestockedAfterRefund
<1> SUFFICES ASSUME ReturnInv PROVE RestockedAfterRefund
  OBVIOUS
<1>1. BaseInv /\ PaidInv /\ OnceInv
  BY DEF ReturnInv
<1>2. ASSUME NEW r \in Returns, NEW p \in Products, adjusted[<<r, p>>] > 0
      PROVE  status[r] = "APPROVED" /\ (RefundTotal(r) = 0 \/ \E row \in RefundRows : row.key = r)
  BY <1>1, <1>2 DEF PaidInv, RefundedFor, RefundRows, Table
<1>3. ~overlap /\ faults = 0 => \A x \in Returns \X Products : adjusted[x] <= 1
  BY <1>1 DEF OnceInv, OnceParts
<1> QED
  BY <1>2, <1>3 DEF RestockedAfterRefund

(* For any order, prices, returns and operators: money goes back only for  *)
(* an approved return, exactly its total, once, whatever DecideReturn      *)
(* calls fail or are repeated; and, unless RequestReturn calls overlap, no *)
(* unit is returned twice.                                                 *)
THEOREM RefundsAreReturns == Spec => []RefundsMatchReturns
BY ReturnStarts, ReturnStep, ReturnMoney, PTL DEF Spec

(* Units come back to stock only for a return whose refund was given, and, *)
(* unless calls fail or overlap, once.                                     *)
THEOREM RestockFollowsRefund == Spec => []RestockedAfterRefund
BY ReturnStarts, ReturnStep, ReturnStock, PTL DEF Spec
=============================================================================
