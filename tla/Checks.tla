------------------------------- MODULE Checks -------------------------------
(***************************************************************************)
(* The correctness properties of the system, first of all the audits the   *)
(* repository ships as sql/*Check.sql: after a run, money and stock must   *)
(* balance with the trades, order items and reload logs on record.  They   *)
(* are stated of the committed rows, so they are to hold at every moment   *)
(* an auditor may look.                                                    *)
(***************************************************************************)
EXTENDS RunController

(* Every variable has its type; in particular no balance, stock or price   *)
(* becomes anything but an integer, and doTask repeats within its deadline.*)
TypeOK ==
  /\ DatabaseTypeOK
  /\ PlanTypeOK
  /\ BizTypeOK
  /\ tries \in [Threads -> 0 .. MaxTries]
  /\ requests \in 0 .. MaxRequests

-----------------------------------------------------------------------------
(* sql/MySQLCheck.sql, first query: the stock of a product, plus what      *)
(* order items took, minus what reload logs brought, is the initial stock. *)
StockBalance ==
  \A p \in Products :
    LET r == ProductRow(p)
    IN committed[r] + outflow[r] - inflow[r] = ProductStockMax

(* sql/MySQLCheck.sql, second query: what a user began with and recharged  *)
(* is what the two accounts hold and the trades of bills and orders took.  *)
AccountsBalance ==
  \A u \in Users :
    CashInit + CreditInit + inflow[UserRow(u)]
      = committed[CashRow(u)] + committed[CreditRow(u)] + outflow[UserRow(u)]

(* sql/SQLServerCheck.sql, first query: the column "equals" is 0.          *)
SQLServerStockCheck ==
  \A p \in Products :
    LET r == ProductRow(p)
    IN committed[r] + outflow[r] + inflow[r] - ProductStockMax = 0

(* doReload fills a product up to product-stock-max and deductStock stops  *)
(* at zero: the stock never leaves that range.                             *)
StockWithinMax ==
  \A p \in Products : 0 <= committed[ProductRow(p)] /\ committed[ProductRow(p)] <= ProductStockMax

(* consume and calculationRecharge never overdraw an account and never     *)
(* lift a credit above its maximum, however their inputs were read.        *)
AccountsWithinLimits ==
  \A u \in Users : /\ committed[CashRow(u)] >= 0
                   /\ committed[CreditRow(u)] \in 0 .. CreditInit

(***************************************************************************)
(* Why the stock balances: the inductive invariant behind StockBalance.    *)
(***************************************************************************)

(* What a thread at a step has to work with: the loops visit users or      *)
(* products that exist, and an operation on accounts has a user.           *)
ThreadOK(t) ==
  /\ kind[t] \in {"package", "usage", "recharge"} => who[t] # {}
  /\ pc[t] \in {"lockUser", "source", "cash", "credit", "status"} =>
       kind[t] \in {"package", "usage", "recharge"}
  /\ pc[t] \in {"cart", "deduct"} => kind[t] = "package"
  /\ pc[t] = "find" => kind[t] = "reload"
  /\ pc[t] = "status" => kind[t] # "package"
  /\ pc[t] = "lockProduct" => kind[t] \in {"package", "reload"} /\ InBatch(batch[t]) # {}
  /\ \/ pc[t] = "lockUser"
     \/ kind[t] = "recharge" /\ pc[t] \in {"source", "cash", "credit", "status"}
     => todo[t] # {} /\ todo[t] \subseteq Users
  /\ \/ pc[t] \in {"lockProduct", "deduct", "reload", "restock"}
     \/ kind[t] = "package" /\ pc[t] = "source"
     => todo[t] # {} /\ todo[t] \subseteq Products
  /\ pc[t] \in {"resetCash", "resetCredit"} => todo[t] \subseteq Users
  /\ pc[t] = "resetProduct" => todo[t] \subseteq Products

WorkOK == \A t \in Threads : ThreadOK(t)

(* it will be rolled back *)
Fails(t) == pc[t] = "rollback" \/ (pc[t] = "unlock" /\ outcome[t] # "ok")

(* An operation that changed a product, or only locked it, holds its row,  *)
(* and unless it is about to be rolled back the newest stock differs from  *)
(* the committed one by exactly the order items and reload logs the        *)
(* transaction has inserted.  A product whose row a transaction does not   *)
(* hold has no entry of it; a thread without a request holds no product.   *)
StockEntries ==
  \A t \in Threads, p \in Products :
    LET r == ProductRow(p)
    IN IF holder[r] = t
       THEN /\ pc[t] # "idle"
            /\ pc[t] \notin ResetLabels /\ ~Fails(t)
               => latest[r] = committed[r] + pin[t][r] - pout[t][r]
       ELSE pin[t][r] = 0 /\ pout[t][r] = 0

(* A reset clears the histories of the products only when it holds the     *)
(* rows of all of them, so that what it clears is what is on record when   *)
(* it commits.                                                             *)
ResetEntries ==
  \A t \in Threads, p \in Products :
    LET r == ProductRow(p)
    IN pc[t] \in ResetLabels \ {"resetRollback"} =>
         /\ holder[r] = t => latest[r] = ProductStockMax
         /\ \/ pc[t] \notin UpdateLabels
            \/ pc[t] = "resetProduct" /\ p \notin todo[t]
            => holder[r] = t
         /\ pout[t][r] = IF pc[t] \in {"clearOrders", "clearRecharges", "clearTrades",
                                       "clearLogs", "resetCommit"}
                         THEN -outflow[r] ELSE 0
         /\ pin[t][r] = IF pc[t] = "resetCommit" THEN -inflow[r] ELSE 0

FreeStockCommitted ==
  \A p \in Products :
    holder[ProductRow(p)] = NoThread => latest[ProductRow(p)] = committed[ProductRow(p)]

StockInv ==
  TypeOK /\ WorkOK /\ StockEntries /\ ResetEntries /\ FreeStockCommitted /\ StockBalance

(* doPackageBill inserts an order's items and its trade in one transaction *)
(* and refuses a debt: what the users paid is the price of what was        *)
(* delivered, whatever was out of stock, refused or repeated.  For runs    *)
(* without usage bills and with prices that need no rounding.              *)
OrdersPaidInFull ==
  FoldFunction(+, 0, [u \in Users |-> outflow[UserRow(u)]])
    = FoldFunction(+, 0, [p \in Products |->
        ItemPrice(OriginalPrice[p], Discount[p], outflow[ProductRow(p)])])

-----------------------------------------------------------------------------
(* Locks. *)

(* The finally blocks and the end of the transaction leave nothing locked: *)
(* a thread without a request owns no row and no shared lock, and no key   *)
(* but one in Redis its call lost track of, because lock or unlock threw.  *)
IdleHoldsNothing ==
  \A t \in Threads : pc[t] = "idle" =>
    /\ keys[t] = {}
    /\ \A k \in LockNames : planLock[k] = t => conf.plan = "p2" /\ k \in lost
    /\ shared[t] = {} /\ \A r \in Rows : holder[r] # t

UsersInUse(t) ==
  IF kind[t] # "reload" /\ pc[t] \in {"cart", "lockProduct", "source", "deduct",
                                     "cash", "credit", "status"}
  THEN who[t] ELSE {}

ProductsInUse(t) ==
  IF \/ kind[t] = "package" /\ pc[t] \in {"source", "deduct", "cash", "credit"}
     \/ pc[t] \in {"reload", "restock"}
  THEN InBatch(batch[t]) ELSE {}

(* JavaLockPlanServiceImpl: the bodies of two lockUser calls, or of two    *)
(* lockProduct calls, for a common id never overlap, whether one of them   *)
(* locks the id alone and the other in a set, or one of them timed out.    *)
BodiesExclusive ==
  conf.plan = "p3" => \A t, u \in Threads : t # u =>
    /\ UsersInUse(t) \cap UsersInUse(u) = {}
    /\ ProductsInUse(t) \cap ProductsInUse(u) = {}

(* the owners of the keys t may be waiting for *)
PlanWaits(t) ==
  CASE pc[t] = "lockUser" ->
         {planLock[LockName("uid", UserForm(t), i)] : i \in NextIds(todo[t])}
    [] pc[t] = "lockProduct" ->
         {planLock[LockName("pid", "set", i)] : i \in NextIds(todo[t])}
    [] OTHER -> {}

(* JavaLockPlanServiceImpl locks ids in ascending order and users before   *)
(* products, so threads never wait for each other's plan locks in a cycle. *)
NoPlanCycle ==
  conf.plan = "p3" => ~\E cycle \in (SUBSET Threads) \ {{}} :
     \A t \in cycle : PlanWaits(t) \cap cycle # {}

(* The locks of p2 and p3 are leases (module Leases): a free key is taken, *)
(* a key is freed by its owner or, in Redis, by its time, and an owner     *)
(* whose time was over gives up without disturbing the next one.           *)
PlanLeases == INSTANCE Leases WITH
                Clients <- Threads, Names <- LockNames, NoClient <- NoThread,
                owner <- planLock, held <- keys
PlanIsLeases == PlanLeases!Spec

-----------------------------------------------------------------------------
(* Every accepted request is answered, with a result or an error: DB       *)
(* deadlocks lose a victim, plan locks are waited for 2 s, doTask repeats  *)
(* for 2 s.                                                                *)
EveryRequestAnswered == \A t \in Threads : pc[t] # "idle" ~> pc[t] = "idle"

(* With row locks taken FOR UPDATE until the commit, every committed       *)
(* operation has the effect of AbstractBizService's operation run alone.   *)
Serial == INSTANCE SerialBiz WITH
            committed <- committed, outflow <- outflow, inflow <- inflow
ActsSerially == Serial!Spec

=============================================================================
