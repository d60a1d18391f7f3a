------------------------------ MODULE Returns ------------------------------
(***************************************************************************)
(* A customer's goods coming back: returns.service.ts.  Each handler locks *)
(* the return, and what it needs of the order, and is one step - but for   *)
(* reject, which reads the order's status without its lock and moves the   *)
(* order later.                                                            *)
(*                                                                         *)
(* The return window and the permissions are left out; QUARANTINE is       *)
(* DAMAGED here (neither goes on the shelf).  A request names a line once: *)
(* orders_returnitem_uniq refuses one that names it twice.                 *)
(***************************************************************************)
EXTENDS SoldOrder

CONSTANTS
  LineTotal,   \* line_total, by line
  Discount,    \* discount_total: a coupon or a discount on the whole order
  TaxOnTop,    \* tax_amount, by line, where VAT is EXCLUSIVE
  Shipping,    \* shipping_total
  Fault,       \* the returns asked for with one of SHOP_FAULT_REASONS
  NoExchange

Subtotal == SumFunction(LineTotal)

ASSUME ReturnsAssumption ==
  /\ LineTotal \in [Line -> Nat] /\ TaxOnTop \in [Line -> Nat]
  /\ Subtotal > 0 /\ Discount \in 0 .. Subtotal /\ Shipping \in Nat
  /\ Fault \subseteq Return
  /\ GrandTotal = Subtotal - Discount + SumFunction(TaxOnTop) + Shipping
  /\ NoExchange \notin Exchange

ASSUME FiniteAssumption == IsFiniteSet(Return)

VARIABLES
  ret,       \* the rows of orders_returnrequest and their lines
  rejecting  \* what a reject in progress has read of the order

returnVars == <<ret, rejecting>>

ReturnStatus == {"REQUESTED", "APPROVED", "RECEIVED", "COMPLETED", "REJECTED"}
Basket == {lines \in [Line -> UNION {0 .. Quantity[l] : l \in Line}] :
             \A l \in Line : lines[l] <= Quantity[l]}
Nothing == [l \in Line |-> 0]
In(lines) == {l \in Line : lines[l] > 0}

(* `typed`: the refund is a figure staff typed.  `by`: the exchange it is  *)
(* half of.                                                                *)
ReturnRow ==
  [status : ReturnStatus \cup {"NONE"}, lines : Basket, refund : Nat,
   typed : BOOLEAN, by : Exchange \cup {NoExchange}]
NoRow == [status |-> "NONE", lines |-> Nothing, refund |-> 0,
          typed |-> FALSE, by |-> NoExchange]

ReturnTypeOK ==
  /\ ret \in [Return -> ReturnRow]
  /\ rejecting \in [Return -> {"NONE", "RETURN_REQUESTED", "OTHER"}]

ReturnInit ==
  /\ ret = [r \in Return |-> NoRow]
  /\ rejecting = [r \in Return |-> "NONE"]

-----------------------------------------------------------------------------
(* `returnShares`, over a common denominator: a line bears the order's     *)
(* discount by its share of the subtotal, a unit its part of the line.     *)
Units == FoldFunction(LAMBDA a, b : a * b, 1, Quantity)
Denominator == Subtotal * Units
UnitShare ==
  [l \in Line |->
    (LineTotal[l] * (Subtotal - Discount) + TaxOnTop[l] * Subtotal)
      * (Units \div Quantity[l])]
Share(lines) == SumFunction([l \in Line |-> UnitShare[l] * lines[l]])

(* `quantize`: half to even.                                               *)
Rounded(n, d) ==
  LET q == n \div d
      twice == 2 * (n % d)
  IN  IF twice > d \/ (twice = d /\ q % 2 = 1) THEN q + 1 ELSE q

(* Rounded once for the request; a slip rounds each line.                  *)
GoodsWorthByLine ==
  [lines \in Basket |->
    SumFunction([l \in Line |-> Rounded(UnitShare[l] * lines[l], Denominator)])]
GoodsWorth == [lines \in Basket |-> Rounded(Share(lines), Denominator)]

(* The shop's fault adds the shipping (`refund_shipping`).                 *)
Worth(r, lines) == GoodsWorth[lines] + (IF r \in Fault THEN Shipping ELSE 0)

Least(a, b) == IF a < b THEN a ELSE b

Plus(f, g) == [l \in Line |-> f[l] + g[l]]
AllBack(b) == \A l \in Line : b[l] >= Quantity[l]
Unlocked(r) == rejecting[r] = "NONE"

(* `requestReturn`: what has left, in quantities not yet received back.    *)
GOODS_HAVE_LEFT == {"SHIPPED", "DELIVERED", "RETURN_REQUESTED", "RETURNED"}

MayReturn(lines) ==
  /\ status \in GOODS_HAVE_LEFT
  /\ committed \/ channel = "POS"
  /\ lines # Nothing
  /\ \A l \in Line : lines[l] <= Quantity[l] - back[l]

Asked(r, lines, at, by) ==
  [status |-> at, lines |-> lines, refund |-> Least(Worth(r, lines), Refundable),
   typed |-> FALSE, by |-> by]

Opened == IF status \in {"DELIVERED", "SHIPPED"} THEN "RETURN_REQUESTED" ELSE status

Request(r, lines) ==
  /\ ret[r].status = "NONE"
  /\ MayReturn(lines)
  /\ ret' = [ret EXCEPT ![r] = Asked(r, lines, "REQUESTED", NoExchange)]
  /\ status' = Opened
  /\ UNCHANGED <<channel, committed, money, goods, rejecting>>

(* `approveLocked`.                                                        *)
Approve(r) ==
  /\ Unlocked(r) /\ ret[r].status = "REQUESTED"
  /\ ret' = [ret EXCEPT ![r].status = "APPROVED"]
  /\ UNCHANGED <<orderVars, rejecting>>

(* The goods of a return arrive, the lines in `restock` go on the shelf.   *)
(* A slip counts on the check of the request.                              *)
ArriveUnchecked(lines, restock) ==
  /\ back' = Plus(back, lines)
  /\ shelf' = [l \in Line |-> shelf[l] + (IF l \in restock THEN lines[l] ELSE 0)]

(* The database holds returned_quantity to the quantity sold and undoes    *)
(* the whole receipt.                                                      *)
Arrive(lines, restock) ==
  /\ \A l \in Line : back[l] + lines[l] <= Quantity[l]
  /\ back' = Plus(back, lines)
  /\ shelf' = [l \in Line |-> shelf[l] + (IF l \in restock THEN lines[l] ELSE 0)]

(* `receiveLocked`.                                                        *)
Receive(r, restock) ==
  /\ Unlocked(r) /\ ret[r].status = "APPROVED"
  /\ Arrive(ret[r].lines, restock)
  /\ ret' = [ret EXCEPT ![r].status = "RECEIVED"]
  /\ UNCHANGED <<channel, status, committed, money, rejecting>>

(* The refund of a return, and its order closed: a key given, or else the  *)
(* return's own.                                                           *)
PayReturn(r, amount, key) ==
  IF amount = 0 THEN UNCHANGED <<refunded, refund>>
  ELSE RefundEntered(IF key = NoKey THEN r ELSE key, amount, r)

(* A slip closes it when some line is back in full.                        *)
ClosedByLine(s, b) ==
  IF s = "RETURN_REQUESTED" /\ \E l \in Line : b[l] >= Quantity[l]
  THEN "REFUNDED" ELSE s
Closed(s, b) == IF s = "RETURN_REQUESTED" /\ AllBack(b) THEN "REFUNDED" ELSE s

(* `completeLocked`, of a return received, for its own refund (typed is 0) *)
(* or a figure typed in.  One completed before is answered as it is, but   *)
(* for a slip.                                                             *)
MayCompleteAgain(r) == ret[r].status \in {"RECEIVED", "COMPLETED"}
MayComplete(r) == ret[r].status = "RECEIVED"

Complete(r, typed, key) ==
  LET amount == IF typed = 0 THEN ret[r].refund ELSE typed IN
  /\ Unlocked(r) /\ MayComplete(r)
  /\ PayReturn(r, amount, key)
  /\ ret' = [ret EXCEPT ![r] = [status |-> "COMPLETED", lines |-> @.lines,
                                refund |-> amount, typed |-> typed # 0,
                                by |-> @.by]]
  /\ status' = Closed(status, back)
  /\ UNCHANGED <<channel, committed, paid, waiting, goods, rejecting>>

(* `reject`: the return locked, the order read ...                         *)
RejectFind(r) ==
  /\ Unlocked(r) /\ ret[r].status \in {"REQUESTED", "APPROVED"}
  /\ rejecting' = [rejecting EXCEPT ![r] =
                   IF status = "RETURN_REQUESTED" THEN status ELSE "OTHER"]
  /\ UNCHANGED <<orderVars, ret>>

(* ... and, if it waited for a return, put back to DELIVERED: where it is  *)
(* already, nothing; from where it cannot be, the rejection is undone.     *)
RejectSave(r) ==
  /\ rejecting[r] # "NONE"
  /\ rejecting' = [rejecting EXCEPT ![r] = "NONE"]
  /\ \/ /\ rejecting[r] = "RETURN_REQUESTED"
        /\ status # "DELIVERED" /\ ~CanMove("DELIVERED")
        /\ UNCHANGED <<status, ret>>
     \/ /\ rejecting[r] = "RETURN_REQUESTED"
        /\ status = "DELIVERED" \/ CanMove("DELIVERED")
        /\ status' = "DELIVERED"
        /\ ret' = [ret EXCEPT ![r].status = "REJECTED"]
     \/ /\ rejecting[r] = "OTHER"
        /\ ret' = [ret EXCEPT ![r].status = "REJECTED"]
        /\ UNCHANGED status
  /\ UNCHANGED <<channel, committed, money, goods>>

ReturnNext ==
  \E r \in Return :
    \/ \E lines \in Basket : Request(r, lines)
    \/ Approve(r)
    \/ \E restock \in SUBSET In(ret[r].lines) : Receive(r, restock)
    \/ \E typed \in Given \cup {0}, key \in Key \cup {NoKey} : Complete(r, typed, key)
    \/ RejectFind(r)
    \/ RejectSave(r)

-----------------------------------------------------------------------------
(* The goods add up however returns of one unit race: what the order calls *)
(* returned is what the received returns hold, at most what was sold, and  *)
(* the shelf got no more of it than that - until a void, which restocks    *)
(* every line whatever came back (docs: D155).                             *)
CameBack == {r \in Return : ret[r].status \in {"RECEIVED", "COMPLETED"}}

BackWithinSold ==
  \A l \in Line :
    /\ back[l] = SumFunctionOnSet([r \in Return |-> ret[r].lines[l]], CameBack)
    /\ back[l] <= Quantity[l]
    /\ status # "CANCELLED" => shelf[l] <= back[l]

(* A return is paid at most once, whatever keys its completion is retried  *)
(* with and whoever else refunds meanwhile: only completed, in one refund, *)
(* of the amount it shows.                                                 *)
Pays(r) == {k \in RefundKey : refund[k].amount > 0 /\ refund[k].of = r}

ReturnPaidOnce ==
  \A r \in Return :
    /\ Cardinality(Pays(r)) <= 1
    /\ \A k \in Pays(r) : ret[r].status = "COMPLETED" /\ refund[k].amount = ret[r].refund

(* However an order is split into returns, what they refund of their own   *)
(* figures is what came back is worth, but for half a paisa a return and   *)
(* the shipping of those that were the shop's fault: a discount on the     *)
(* whole order is not paid back with each part.                            *)
ReturnsAddUp ==
  LET own == {r \in Return : ret[r].status = "COMPLETED" /\ ~ret[r].typed}
      lines == [l \in Line |-> SumFunctionOnSet([r \in Return |-> ret[r].lines[l]], own)]
      sum == SumFunctionOnSet([r \in Return |-> ret[r].refund], own)
      shipped == Shipping * Cardinality(own \cap Fault)
  IN  2 * Denominator * (sum - shipped)
        <= 2 * Share(lines) + Denominator * Cardinality(own)

(* An order goes from waiting for a return to refunded in one step only    *)
(* with every unit back, over all of its returns together.                 *)
RefundedWhole ==
  [][status = "RETURN_REQUESTED" /\ status' = "REFUNDED" => AllBack(back')]_status
=============================================================================
