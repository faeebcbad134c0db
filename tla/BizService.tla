----------------------------- MODULE BizService -----------------------------
(***************************************************************************)
(* AbstractBizService: the four operations that change data, one action    *)
(* per SQL statement or lock call.  The transaction belongs to the proxy   *)
(* of the service class (@Transactional on the class), so it begins before *)
(* the lock plan is asked for anything and ends after the plan's locks are *)
(* released.                                                               *)
(*                                                                         *)
(* Hibernate keeps the two account rows a bill or a recharge saves as      *)
(* pending changes and writes them before the next native statement, or,   *)
(* when none follows (doPackageBill), before the commit.                   *)
(***************************************************************************)
EXTENDS PlanService

CONSTANT
  ClockMayGoBack  \* whether Snowflake.nextId may find its host's clock set back

ASSUME BizServiceAssumption == ClockMayGoBack \in BOOLEAN

Kinds == {"package", "usage", "recharge", "reload", "reset"}

VARIABLES
  pc,        \* thread -> the step it is at
  kind,      \* thread -> the operation it runs
  who,       \* thread -> the users the operation is for
  todo,      \* thread -> ids the current loop still has to visit
  batch,     \* thread -> product -> number (a reload's set has number 1)
  due,       \* thread -> amount of the bill, order or recharge
  seen,      \* thread -> cash or stock as last read
  sourced,   \* thread -> whether it has inserted a bill, order or recharge source
  saved,     \* thread -> account rows with a pending change -> new value
  outcome,   \* thread -> how the body of the operation ended
  pout, pin, \* thread -> row -> trade, order_item, reload_log amounts inserted
  outflow,   \* row -> committed sum of trades of type 1, 2 or of order items
  inflow     \* row -> committed sum of trades of type 3 or of reload logs

requestVars == <<kind, who>>
workVars    == <<batch, due, seen, sourced>>
pendingVars == <<saved, pout, pin>>
bookVars    == <<outflow, inflow>>

NothingSaved == [r \in {} |-> 0]
NoEntries    == [r \in Rows |-> 0]

(* the user whose accounts the operation is working on *)
Account(t) == IF kind[t] = "recharge" THEN First(todo[t]) ELSE First(who[t])

-----------------------------------------------------------------------------
(* Leaving the body of the operation, normally or by an exception: the     *)
(* finally blocks release the keys, then the transaction ends.             *)

Ending(o) == IF o = "ok" THEN "commit" ELSE "rollback"

(* seeded fault: a timed-out lock call leaves its keys behind *)
Leave_KeepsKeys(t, o) ==
  /\ outcome' = [outcome EXCEPT ![t] = o]
  /\ pc' = [pc EXCEPT ![t] = IF keys[t] = {} \/ o = "timeout" THEN Ending(o) ELSE "unlock"]

Leave(t, o) ==
  /\ outcome' = [outcome EXCEPT ![t] = o]
  /\ pc' = [pc EXCEPT ![t] = IF keys[t] = {} THEN Ending(o) ELSE "unlock"]

Goto(t, label) ==
  /\ pc' = [pc EXCEPT ![t] = label]
  /\ UNCHANGED outcome

-----------------------------------------------------------------------------
(* Locking. *)

UserForm(t) == IF kind[t] = "recharge" THEN "set" ELSE "one"

LockUser(t) ==
  /\ pc[t] = "lockUser"
  /\ \E u \in NextIds(todo[t]) :
       /\ PlanAcquire(t, "uid", UserForm(t), u)
       /\ IF todo[t] = {u}
          THEN /\ todo' = [todo EXCEPT ![t] = who[t]]
               /\ Goto(t, IF kind[t] = "package" THEN "cart" ELSE "source")
          ELSE /\ todo' = [todo EXCEPT ![t] = @ \ {u}]
               /\ UNCHANGED <<pc, outcome>>
  /\ UNCHANGED <<requestVars, workVars, pendingVars, bookVars>>

(* doPackageBill draws the products of the order *)
FillCart(t) ==
  /\ pc[t] = "cart"
  /\ \E c \in Carts :
       /\ batch' = [batch EXCEPT ![t] = c]
       /\ todo'  = [todo EXCEPT ![t] = InBatch(c)]
  /\ Goto(t, "lockProduct")
  /\ UNCHANGED <<dbVars, planVars, requestVars, due, seen, sourced, pendingVars, bookVars>>

(* ZipfGenerator.next finds no entry while the product Zipf is updated *)
DrawFails(t) ==
  /\ pc[t] = "cart"
  /\ Leave(t, "null")
  /\ UNCHANGED <<dbVars, planVars, requestVars, todo, workVars, pendingVars, bookVars>>

(* doReload: the BatchSize products with the least stock, read before they *)
(* are locked                                                              *)
FindInsufficient(t) ==
  /\ pc[t] = "find"
  /\ Read(t, ProductRows)
  /\ \E ids \in Insufficient([p \in Products |-> Visible(t, ProductRow(p))]) :
       /\ batch' = [batch EXCEPT ![t] = ReloadOf(ids)]
       /\ todo'  = [todo EXCEPT ![t] = ids]
  /\ Goto(t, "lockProduct")
  /\ UNCHANGED <<planVars, requestVars, due, seen, sourced, pendingVars, bookVars>>

LockProduct(t) ==
  /\ pc[t] = "lockProduct"
  /\ \E p \in NextIds(todo[t]) :
       /\ PlanAcquire(t, "pid", "set", p)
       /\ IF todo[t] = {p}
          THEN /\ todo' = [todo EXCEPT ![t] = InBatch(batch[t])]
               /\ Goto(t, IF kind[t] = "reload" THEN "reload" ELSE "source")
          ELSE /\ todo' = [todo EXCEPT ![t] = @ \ {p}]
               /\ UNCHANGED <<pc, outcome>>
  /\ UNCHANGED <<requestVars, workVars, pendingVars, bookVars>>

(* the 2 s of a lock call are over: RuntimeException *)
LockTimeout(t) ==
  /\ \/ pc[t] = "lockUser"    /\ MayTimeOut(t, "uid", UserForm(t), todo[t])
     \/ pc[t] = "lockProduct" /\ MayTimeOut(t, "pid", "set", todo[t])
  /\ Leave(t, "timeout")
  /\ UNCHANGED <<dbVars, planVars, requestVars, todo, workVars, pendingVars, bookVars>>

(* RedisUtil.lock throws: redisTemplate has no answer in time, or no       *)
(* connection.  A command Redis executes later counts as executed now.     *)
LockThrows(t) ==
  /\ conf.plan = "p2"
  /\ \E i \in todo[t] :
       \/ pc[t] = "lockUser"    /\ AcquireThrows(t, LockName("uid", UserForm(t), i))
       \/ pc[t] = "lockProduct" /\ AcquireThrows(t, LockName("pid", "set", i))
  /\ Leave(t, "redis")
  /\ UNCHANGED <<dbVars, requestVars, todo, workVars, pendingVars, bookVars>>

-----------------------------------------------------------------------------
(* Orders. *)

(* createBillSource, createRechargeSource, createOrderSource *)
CreateSource(t) ==
  /\ pc[t] = "source"
  /\ Insert(t)
  /\ \E amount \in CASE kind[t] = "usage"    -> BillAmounts
                     [] kind[t] = "recharge" -> RechargeAmounts
                     [] OTHER                -> {0} :
       due'  = [due EXCEPT ![t] = amount]
  /\ sourced' = [sourced EXCEPT ![t] = TRUE]
  /\ Goto(t, IF kind[t] = "package" THEN "deduct" ELSE "cash")
  /\ UNCHANGED <<planVars, requestVars, todo, batch, seen, pendingVars, bookVars>>

(* After the last product: an order without an item raises BizException.   *)
NextItem(t, p, entries) ==
  /\ todo' = [todo EXCEPT ![t] = @ \ {p}]
  /\ IF todo[t] # {p} THEN UNCHANGED <<pc, outcome>>
     ELSE IF entries = NoEntries THEN Leave(t, "biz")
     ELSE Goto(t, "cash")

(* createOrderItems, deductStock = 1: the order gets an item.  Unless the  *)
(* lock statement of p1 loaded the product, getDiscount reads it now.      *)
DeductStock(t) ==
  LET p == First(todo[t])
      r == ProductRow(p)
      n == batch[t][p]
  IN /\ pc[t] = "deduct"
     /\ latest[r] >= n
     /\ Update(t, r, latest[r] - n, holder[r] # t)
     /\ due'  = [due EXCEPT ![t] = @ + ItemPrice(OriginalPrice[p], Discount[p], n)]
     /\ pout' = [pout EXCEPT ![t][r] = @ + n]
     /\ NextItem(t, p, pout'[t])
     /\ UNCHANGED <<planVars, requestVars, batch, seen, sourced, saved, pin, bookVars>>

(* seeded fault: the item is inserted without looking at success *)
SkipProduct_Item(t) ==
  LET p == First(todo[t])
      r == ProductRow(p)
      n == batch[t][p]
  IN /\ pc[t] = "deduct"
     /\ \/ UpdateBlockers(t, r) = {} /\ ~Conflicts(t, r) /\ latest[r] < n
        \/ conf.profile = "pgsql" /\ Visible(t, r) < n
     /\ Insert(t)
     /\ pout' = [pout EXCEPT ![t][r] = @ + n]
     /\ NextItem(t, p, pout'[t])
     /\ UNCHANGED <<planVars, requestVars, workVars, saved, pin, bookVars>>

(* createOrderItems, deductStock = 0: the stock is too small, in the row   *)
(* as it is or, on PostgreSQL, already in the row the statement sees       *)
SkipProduct(t) ==
  LET p == First(todo[t])
      r == ProductRow(p)
      n == batch[t][p]
  IN /\ pc[t] = "deduct"
     /\ \/ UpdateBlockers(t, r) = {} /\ ~Conflicts(t, r) /\ latest[r] < n
        \/ conf.profile = "pgsql" /\ Visible(t, r) < n
     /\ Insert(t)
     /\ NextItem(t, p, pout[t])
     /\ UNCHANGED <<planVars, requestVars, workVars, pendingVars, bookVars>>

-----------------------------------------------------------------------------
(* Accounts. *)

(* accountCashRepository.findById *)
ReadCash(t) ==
  LET r == CashRow(Account(t))
  IN /\ pc[t] = "cash"
     /\ Read(t, {r})
     /\ seen' = [seen EXCEPT ![t] = Visible(t, r)]
     /\ Goto(t, "credit")
     /\ UNCHANGED <<planVars, requestVars, todo, batch, due, sourced, pendingVars, bookVars>>

(* save of both accounts: Hibernate keeps what differs from what was read  *)
Save(t, a, cash, credit, oldCredit) ==
  saved' = [saved EXCEPT ![t] =
    [r \in (IF cash # seen[t] THEN {CashRow(a)} ELSE {}) \cup
           (IF credit # oldCredit THEN {CreditRow(a)} ELSE {}) |->
       IF r = CashRow(a) THEN cash ELSE credit]]

(* seeded fault: doPackageBill without its test of hasDebt *)
PayBill_Debt(t) ==
  LET a      == Account(t)
      credit == Visible(t, CreditRow(a))
      result == Consume(seen[t], credit, due[t])
  IN /\ pc[t] = "credit" /\ kind[t] \in {"usage", "package"}
     /\ Read(t, {CreditRow(a)})
     /\ pout' = [pout EXCEPT ![t][UserRow(a)] =
                        @ + result.cashConsume + result.creditConsume]
     /\ Save(t, a, result.cash, result.credit, credit)
     /\ IF kind[t] = "package" THEN Leave(t, "ok") ELSE Goto(t, "status")
     /\ UNCHANGED <<planVars, requestVars, todo, workVars, pin, bookVars>>

(* findById of the credit account, consume, and the trade of a bill (which *)
(* may leave a debt) or of an order (which may not)                        *)
PayBill(t) ==
  LET a      == Account(t)
      credit == Visible(t, CreditRow(a))
      result == Consume(seen[t], credit, due[t])
  IN /\ pc[t] = "credit" /\ kind[t] \in {"usage", "package"}
     /\ Read(t, {CreditRow(a)})
     /\ IF kind[t] = "package" /\ result.debt > 0
        THEN /\ Leave(t, "biz")
             /\ UNCHANGED <<pout, saved>>
        ELSE /\ pout' = [pout EXCEPT ![t][UserRow(a)] =
                                @ + result.cashConsume + result.creditConsume]
             /\ Save(t, a, result.cash, result.credit, credit)
             /\ IF kind[t] = "package" THEN Leave(t, "ok") ELSE Goto(t, "status")
     /\ UNCHANGED <<planVars, requestVars, todo, workVars, pin, bookVars>>

(* the same for doRecharge(userId); credit_max of every account is CreditInit *)
Recharge(t) ==
  LET a      == Account(t)
      credit == Visible(t, CreditRow(a))
      result == CalculationRecharge(due[t], seen[t], credit, CreditInit)
  IN /\ pc[t] = "credit" /\ kind[t] = "recharge"
     /\ Read(t, {CreditRow(a)})
     /\ pin' = [pin EXCEPT ![t][UserRow(a)] =
                       @ + result.cashConsume + result.creditConsume]
     /\ Save(t, a, result.cash, result.credit, credit)
     /\ Goto(t, "status")
     /\ UNCHANGED <<planVars, requestVars, todo, workVars, pout, bookVars>>

(* the account row Hibernate writes next: the cash row was loaded first *)
NextWrite(t) == CHOOSE r \in DOMAIN saved[t] :
                  r[1] = "account_cash" \/ \A s \in DOMAIN saved[t] : s[1] # "account_cash"

(* flush of one pending row, before updateStatusCode or before the commit *)
Flush(t) ==
  /\ pc[t] \in {"status", "commit"} /\ saved[t] # NothingSaved
  /\ LET r == NextWrite(t)
     IN /\ Update(t, r, saved[t][r], FALSE)
        /\ saved' = [saved EXCEPT ![t] = Restrict(@, DOMAIN @ \ {r})]
  /\ UNCHANGED <<planVars, pc, requestVars, todo, workVars, outcome, pout, pin, bookVars>>

(* updateStatusCode: the bill is done, or this user of the recharge is *)
UpdateStatusCode(t) ==
  /\ pc[t] = "status" /\ saved[t] = NothingSaved
  /\ todo' = [todo EXCEPT ![t] = @ \ {Account(t)}]
  /\ IF todo[t] = {Account(t)} THEN Leave(t, "ok") ELSE Goto(t, "source")
  /\ UNCHANGED <<dbVars, planVars, requestVars, workVars, pendingVars, bookVars>>

-----------------------------------------------------------------------------
(* Stock. *)

(* seeded fault: the stock is read by a plain SELECT although it is locked *)
ReadStock_Plain(t) ==
  LET r == ProductRow(First(todo[t]))
  IN /\ pc[t] = "reload"
     /\ seen' = [seen EXCEPT ![t] = Visible(t, r)]
     /\ Read(t, {r})
     /\ Goto(t, "restock")
     /\ UNCHANGED <<planVars, requestVars, todo, batch, due, sourced, pendingVars, bookVars>>

(* doReload(pId): getOne.  A row locked by p1 was loaded by the lock       *)
(* statement and is not read again.                                        *)
ReadStock(t) ==
  LET r == ProductRow(First(todo[t]))
  IN /\ pc[t] = "reload"
     /\ IF holder[r] = t
        THEN /\ seen' = [seen EXCEPT ![t] = latest[r]]
             /\ UNCHANGED dbVars
        ELSE /\ seen' = [seen EXCEPT ![t] = Visible(t, r)]
             /\ Read(t, {r})
     /\ Goto(t, "restock")
     /\ UNCHANGED <<planVars, requestVars, todo, batch, due, sourced, pendingVars, bookVars>>

(* doReload(pId): stock = stock + reload, and the log of the reload *)
Restock(t) ==
  LET p      == First(todo[t])
      r      == ProductRow(p)
      reload == ProductStockMax - seen[t]
  IN /\ pc[t] = "restock"
     /\ Update(t, r, latest[r] + reload, FALSE)
     /\ pin'  = [pin EXCEPT ![t][r] = @ + reload]
     /\ todo' = [todo EXCEPT ![t] = @ \ {p}]
     /\ IF todo[t] = {p} THEN Leave(t, "ok") ELSE Goto(t, "reload")
     /\ UNCHANGED <<planVars, requestVars, workVars, saved, pout, bookVars>>

-----------------------------------------------------------------------------
(* Snowflake.nextId throws when the host's clock is behind its last id: in *)
(* front of a source or an item, in createTrade, when the accounts have    *)
(* been read and a debt been refused, and in doReload, when the stock has  *)
(* been changed.                                                           *)
NextIdThrows(t) ==
  /\ ClockMayGoBack
  /\ \/ pc[t] \in {"source", "deduct"} /\ UNCHANGED dbVars
     \/ LET r == CreditRow(Account(t))
        IN /\ pc[t] = "credit"
           /\ kind[t] = "package" => Consume(seen[t], Visible(t, r), due[t]).debt = 0
           /\ Read(t, {r})
     \/ LET r == ProductRow(First(todo[t]))
        IN /\ pc[t] = "restock"
           /\ Update(t, r, latest[r] + (ProductStockMax - seen[t]), FALSE)
  /\ Leave(t, "clock")
  /\ UNCHANGED <<planVars, requestVars, todo, workVars, pendingVars, bookVars>>

-----------------------------------------------------------------------------
(* The end of the operation. *)

(* the finally blocks: the inner call's product keys before the user keys *)
Unlock(t) ==
  /\ pc[t] = "unlock"
  /\ \E k \in keys[t] :
       /\ k[1] = "uid" => \A l \in keys[t] : l[1] = "uid"
       /\ ReleaseKey(t, k)
       /\ IF keys[t] = {k} THEN Goto(t, Ending(outcome[t])) ELSE UNCHANGED <<pc, outcome>>
  /\ UNCHANGED <<dbVars, requestVars, todo, workVars, pendingVars, bookVars>>

(* RedisUtil.unlock throws, which becomes the result of the call; lockUser *)
(* around it releases its own keys                                         *)
UnlockThrows(t) ==
  /\ pc[t] = "unlock" /\ conf.plan = "p2"
  /\ \E k \in keys[t] :
       /\ k[1] = "uid" => \A l \in keys[t] : l[1] = "uid"
       /\ ReleaseThrows(t, k)
  /\ outcome' = [outcome EXCEPT ![t] = "redis"]
  /\ pc' = [pc EXCEPT ![t] = IF keys'[t] = {} THEN "rollback" ELSE "unlock"]
  /\ UNCHANGED <<dbVars, requestVars, todo, workVars, pendingVars, bookVars>>

Clear(t) ==
  /\ batch' = [batch EXCEPT ![t] = NoProducts]
  /\ due'   = [due EXCEPT ![t] = 0]
  /\ seen'  = [seen EXCEPT ![t] = 0]
  /\ sourced' = [sourced EXCEPT ![t] = FALSE]
  /\ saved' = [saved EXCEPT ![t] = NothingSaved]
  /\ pout'  = [pout EXCEPT ![t] = NoEntries]
  /\ pin'   = [pin EXCEPT ![t] = NoEntries]

(* the proxy commits, and the rows the operation inserted count *)
CommitBiz(t) ==
  /\ pc[t] = "commit" /\ saved[t] = NothingSaved
  /\ CommitTransaction(t)
  /\ outflow' = [r \in Rows |-> outflow[r] + pout[t][r]]
  /\ inflow'  = [r \in Rows |-> inflow[r] + pin[t][r]]
  /\ Clear(t)
  /\ UNCHANGED planVars

(* PostgreSQL may refuse to commit a serializable transaction *)
CommitRefused(t) ==
  /\ pc[t] = "commit" /\ saved[t] = NothingSaved
  /\ conf.profile = "pgsql" /\ Level = "SERIALIZABLE"
  /\ outcome' = [outcome EXCEPT ![t] = "db"]
  /\ pc' = [pc EXCEPT ![t] = "rollback"]
  /\ UNCHANGED <<dbVars, planVars, requestVars, todo, workVars, pendingVars, bookVars>>

(* rollbackFor = Exception.class *)
RollbackBiz(t) ==
  /\ pc[t] = "rollback"
  /\ RollbackTransaction(t)
  /\ Clear(t)
  /\ UNCHANGED <<planVars, bookVars>>

-----------------------------------------------------------------------------
BizLabels == {"idle", "lockUser", "cart", "find", "lockProduct", "source", "deduct",
              "cash", "credit", "status", "reload", "restock", "unlock", "commit",
              "rollback"}

(* RunnerConfig.run has steps of its own (module RunnerConfig) *)
ResetLabels == {"resetCash", "resetCredit", "resetProduct", "clearBills", "clearItems",
                "clearOrders", "clearRecharges", "clearTrades", "clearLogs",
                "resetCommit", "resetRollback"}

Labels == BizLabels \cup ResetLabels

Outcomes == {"ok", "biz", "timeout", "null", "db", "redis", "clock"}

(* The locals of an operation; only account rows have pending changes. *)
BizTypeOK ==
  /\ pc \in [Threads -> Labels]
  /\ kind \in [Threads -> Kinds \cup {"none"}]
  /\ who \in [Threads -> SUBSET Users]
  /\ todo \in [Threads -> SUBSET Nat]
  /\ batch \in [Threads -> [Products -> Nat]]
  /\ due \in [Threads -> Int]
  /\ seen \in [Threads -> Int]
  /\ sourced \in [Threads -> BOOLEAN]
  /\ DOMAIN saved = Threads
  /\ \A t \in Threads : /\ DOMAIN saved[t] \subseteq AccountRows
                        /\ saved[t] \in [DOMAIN saved[t] -> Int]
  /\ outcome \in [Threads -> Outcomes]
  /\ pout \in [Threads -> [Rows -> Int]]
  /\ pin \in [Threads -> [Rows -> Int]]
  /\ outflow \in [Rows -> Int]
  /\ inflow \in [Rows -> Int]

=============================================================================
