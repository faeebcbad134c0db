----------------------------- MODULE SerialBiz ------------------------------
(***************************************************************************)
(* What the operations of AbstractBizService promise when nothing gets in  *)
(* between: each takes place at once, on the committed rows, or not at     *)
(* all.  outflow and inflow are the sums of the trades, order items and    *)
(* reload logs it leaves behind.                                           *)
(***************************************************************************)
EXTENDS Tables

VARIABLES committed, outflow, inflow

serialVars == <<committed, outflow, inflow>>

Init ==
  /\ committed = [r \in Rows |-> InitialRow(r)]
  /\ outflow = [r \in Rows |-> 0]
  /\ inflow  = [r \in Rows |-> 0]

(* the accounts of u after a Consume or a CalculationRecharge *)
Booked(rows, u, result) ==
  [rows EXCEPT ![CashRow(u)] = result.cash, ![CreditRow(u)] = result.credit]

(* doUsageBill: a bill of any amount, a debt is possible *)
UsageBill(u, bill) ==
  LET result == Consume(committed[CashRow(u)], committed[CreditRow(u)], bill)
  IN /\ committed' = Booked(committed, u, result)
     /\ outflow' = [outflow EXCEPT ![UserRow(u)] =
                      @ + result.cashConsume + result.creditConsume]
     /\ UNCHANGED inflow

(* doPackageBill: the products in stock are delivered, and paid in full *)
PackageBill(u, cart) ==
  LET sold   == {p \in InBatch(cart) : committed[ProductRow(p)] >= cart[p]}
      price  == [p \in Products |-> IF p \in sold
                   THEN ItemPrice(OriginalPrice[p], Discount[p], cart[p]) ELSE 0]
      result == Consume(committed[CashRow(u)], committed[CreditRow(u)],
                        FoldFunction(+, 0, price))
      item(r) == IF r[1] = "product" /\ r[2] \in sold THEN cart[r[2]] ELSE 0
  IN /\ sold # {} /\ result.debt = 0
     /\ committed' = [r \in Rows |-> Booked(committed, u, result)[r] - item(r)]
     /\ outflow' = [r \in Rows |-> outflow[r] + item(r) +
                      IF r = UserRow(u) THEN result.cashConsume + result.creditConsume ELSE 0]
     /\ UNCHANGED inflow

(* doRecharge: every user of the batch gets an amount of its own *)
RechargeAll(batch, amount) ==
  LET result(u) == CalculationRecharge(amount[u], committed[CashRow(u)],
                                       committed[CreditRow(u)], CreditInit)
  IN /\ committed' = [r \in Rows |->
                        IF r[2] \in batch /\ r[1] = "account_cash"   THEN result(r[2]).cash
                        ELSE IF r[2] \in batch /\ r[1] = "account_credit" THEN result(r[2]).credit
                        ELSE committed[r]]
     /\ inflow' = [r \in Rows |-> inflow[r] +
                     IF r[2] \in batch /\ r[1] = "user_info" THEN amount[r[2]] ELSE 0]
     /\ UNCHANGED outflow

(* doReload: the products are filled up.  Which ones was decided before    *)
(* they were locked, so any choice of them is possible.                    *)
Reload(ids) ==
  LET missing(r) == IF r[1] = "product" /\ r[2] \in ids
                    THEN ProductStockMax - committed[r] ELSE 0
  IN /\ committed' = [r \in Rows |-> committed[r] + missing(r)]
     /\ inflow' = [r \in Rows |-> inflow[r] + missing(r)]
     /\ UNCHANGED outflow

(* RunnerConfig.run: balances and stocks as at the start, no history *)
Reset ==
  /\ committed' = [r \in Rows |-> InitialRow(r)]
  /\ outflow' = [r \in Rows |-> 0]
  /\ inflow'  = [r \in Rows |-> 0]

Next ==
  \/ \E u \in Users, bill \in BillAmounts : UsageBill(u, bill)
  \/ \E u \in Users, cart \in Carts : PackageBill(u, cart)
  \/ \E batch \in RechargeSets : \E amount \in [batch -> RechargeAmounts] :
       RechargeAll(batch, amount)
  \/ \E ids \in SUBSET Products : Reload(ids)
  \/ Reset

Spec == Init /\ [][Next]_serialVars

=============================================================================
