---------------------------- MODULE BooksProofs ----------------------------
(***************************************************************************)
(* What holds of the books in every deployment: any lock plan, any         *)
(* isolation level, any number of threads, users, products, requests and   *)
(* retries, keys that expire, lost updates and dirty reads included.  The  *)
(* stock of every product balances with its order items and reload logs,   *)
(* because deductStock and reload change the stock relatively, in the      *)
(* database, and log the same amount in the same transaction.  Accounts    *)
(* stay within their limits, and orders are paid in full.                  *)
(***************************************************************************)
EXTENDS Checks, AccountsProofs, FiniteSetTheorems, WellFoundedInduction

(* The rows of the tables are different rows. *)
LEMMA RowFacts ==
  /\ \A u \in Users : /\ UserRow(u) \in Rows /\ CashRow(u) \in Rows /\ CreditRow(u) \in Rows
                      /\ CashRow(u) \in AccountRows /\ CreditRow(u) \in AccountRows
  /\ \A p \in Products : ProductRow(p) \in Rows /\ ProductRow(p) \notin AccountRows
  /\ \A p \in Products, u \in Users : ProductRow(p) # UserRow(u)
  /\ \A p, q \in Products : p # q => ProductRow(p) # ProductRow(q)
  /\ AccountRows \subseteq Rows /\ ProductRows \subseteq Rows
BY DEF Rows, UserRows, AccountRows, ProductRows, UserRow, CashRow, CreditRow, ProductRow

(* A loop over a nonempty set of ids starts with one of them. *)
LEMMA FirstIn ==
  ASSUME NEW ids \in SUBSET Nat, ids # {}
  PROVE  First(ids) \in ids /\ Least(ids, First(ids))
<1> DEFINE R == {ss \in Nat \X Nat : ss[1] < ss[2]}
<1>0. IsWellFoundedOn(R, Nat)
  BY NatLessThanWellFounded, Zenon DEF OpToRel
<1>1. PICK i \in ids : \A j \in ids : <<j, i>> \notin R
  <2> HIDE DEF R
  <2> QED BY <1>0, WFMin
<1>2. ASSUME NEW j \in ids, j < i PROVE FALSE
  <2>1. j \in Nat /\ i \in Nat
    OBVIOUS
  <2>2. <<j, i>> \in R
    BY <1>2, <2>1
  <2> QED
    BY <1>1, <2>2
<1>3. \A j \in ids : i <= j
  <2> HIDE DEF R
  <2>1. ids \subseteq Int
    OBVIOUS
  <2> QED BY <1>2, <2>1
<1>4. Least(ids, i)
  BY <1>3 DEF Least
<1>5. Least(ids, First(ids))
  BY <1>4 DEF First
<1> QED
  BY <1>5 DEF Least

LEMMA ItemPriceType ==
  ASSUME NEW p \in Products, NEW n \in Nat
  PROVE  ItemPrice(OriginalPrice[p], Discount[p], n) \in Int
<1> DEFINE a == OriginalPrice[p]
           b == Discount[p]
<1>1. a \in Nat /\ b \in Nat
  BY TablesAssumption
<1> HIDE DEF a, b
<1>2. a * b * n \in Int
  BY <1>1
<1> QED
  BY <1>2 DEF ItemPrice, a, b

-----------------------------------------------------------------------------
(* Statements keep the types of the database. *)

LEMMA VisibleType ==
  ASSUME DatabaseTypeOK, NEW t \in Threads, NEW r \in Rows
  PROVE  Visible(t, r) \in Int
BY DEF DatabaseTypeOK, Visible

LEMMA OpenViewType ==
  ASSUME DatabaseTypeOK, NEW t \in Threads, NEW plainRead, OpenView(t, plainRead)
  PROVE  view' \in [Threads -> [Rows -> Int] \cup {NoView}]
BY DEF DatabaseTypeOK, OpenView

LEMMA InsertTypes ==
  ASSUME DatabaseTypeOK, NEW t \in Threads, Insert(t)
  PROVE  DatabaseTypeOK'
BY OpenViewType DEF DatabaseTypeOK, Insert

LEMMA ReadTypes ==
  ASSUME DatabaseTypeOK, NEW t \in Threads, NEW R \in SUBSET Rows, Read(t, R)
  PROVE  DatabaseTypeOK'
<1>1. view' \in [Threads -> [Rows -> Int] \cup {NoView}]
  BY OpenViewType DEF Read
<1>2. shared' \in [Threads -> SUBSET Rows]
  BY DEF DatabaseTypeOK, Read
<1> QED
  BY <1>1, <1>2 DEF DatabaseTypeOK, Read

LEMMA ForUpdateTypes ==
  ASSUME DatabaseTypeOK, NEW t \in Threads, NEW r \in Rows, ForUpdateLock(t, r)
  PROVE  DatabaseTypeOK'
BY DEF DatabaseTypeOK, ForUpdateLock

LEMMA UpdateTypes ==
  ASSUME DatabaseTypeOK, NEW t \in Threads, NEW r \in Rows, NEW value \in Int, NEW reads,
         Update(t, r, value, reads)
  PROVE  DatabaseTypeOK'
<1>1. view' \in [Threads -> [Rows -> Int] \cup {NoView}]
  BY OpenViewType DEF Update
<1> QED
  BY <1>1 DEF DatabaseTypeOK, Update

LEMMA CommitTypes ==
  ASSUME DatabaseTypeOK, NEW t \in Threads, CommitTransaction(t)
  PROVE  DatabaseTypeOK'
<1>1. missed' \in [Threads -> SUBSET Rows]
  BY DEF DatabaseTypeOK, CommitTransaction
<1>2. /\ holder' \in [Rows -> Threads \cup {NoThread}]
      /\ shared' \in [Threads -> SUBSET Rows]
      /\ view' \in [Threads -> [Rows -> Int] \cup {NoView}]
  BY DEF DatabaseTypeOK, CommitTransaction, Forget
<1>3. committed' \in [Rows -> Int]
  BY DEF DatabaseTypeOK, CommitTransaction
<1> QED
  BY <1>1, <1>2, <1>3 DEF DatabaseTypeOK, CommitTransaction

LEMMA RollbackTypes ==
  ASSUME DatabaseTypeOK, NEW t \in Threads, RollbackTransaction(t)
  PROVE  DatabaseTypeOK'
<1>1. /\ holder' \in [Rows -> Threads \cup {NoThread}]
      /\ shared' \in [Threads -> SUBSET Rows]
      /\ view' \in [Threads -> [Rows -> Int] \cup {NoView}]
  BY DEF DatabaseTypeOK, RollbackTransaction, Forget
<1>2. latest' \in [Rows -> Int] /\ missed' \in [Threads -> SUBSET Rows]
  BY DEF DatabaseTypeOK, RollbackTransaction
<1> QED
  BY <1>1, <1>2 DEF DatabaseTypeOK, RollbackTransaction

LEMMA LockNameType ==
  ASSUME NEW type \in LockTypes, NEW form \in {"one", "set"}, NEW id \in Users \cup Products
  PROVE  LockName(type, form, id) \in LockNames
BY DEF LockName, LockNames, LockForms

LEMMA PlanAcquireTypes ==
  ASSUME DatabaseTypeOK, PlanTypeOK, NEW t \in Threads, NEW type \in LockTypes,
         NEW form \in {"one", "set"}, NEW id \in Users \cup Products,
         LockRow(type, id) \in Rows,
         PlanAcquire(t, type, form, id)
  PROVE  DatabaseTypeOK' /\ PlanTypeOK'
<1>1. CASE ForUpdateLock(t, LockRow(type, id)) /\ UNCHANGED planVars
  BY <1>1, ForUpdateTypes DEF PlanTypeOK, planVars
<1>2. CASE UNCHANGED <<dbVars, planVars>>
  BY <1>2 DEF DatabaseTypeOK, dbVars, PlanTypeOK, planVars, Visible
<1>3. CASE AcquireKey(t, LockName(type, form, id)) /\ UNCHANGED dbVars
  <2>1. DatabaseTypeOK'
    BY <1>3 DEF DatabaseTypeOK, dbVars
  <2>2. PlanTypeOK'
    BY <1>3, LockNameType DEF PlanTypeOK, AcquireKey
  <2> QED
    BY <2>1, <2>2
<1> QED
  BY <1>1, <1>2, <1>3 DEF PlanAcquire

-----------------------------------------------------------------------------
(* The steps of an operation. *)

StockBooks == StockEntries /\ ResetEntries /\ FreeStockCommitted /\ StockBalance

(* The steps at which a thread is not in an operation of AbstractBizService *)
Apart == ResetLabels \cup {"idle"}

(* A step that begins and ends nothing and is not one of a reset. *)
Within ==
  \A u \in Threads :
    /\ pc[u] \in Apart \/ pc'[u] \in Apart => pc'[u] = pc[u] /\ todo'[u] = todo[u]
    /\ Fails(u) => Fails(u)'

LEMMA WithinFacts ==
  ASSUME NEW t \in Threads, pc[t] \notin Apart, pc'[t] \notin Apart,
         \A u \in Threads \ {t} : pc'[u] = pc[u] /\ todo'[u] = todo[u],
         \A u \in Threads : Fails(u) => Fails(u)'
  PROVE  Within
BY DEF Within

(* A step that writes no product row and no entry of a product. *)
LEMMA StockUntouched ==
  ASSUME StockBooks, Within,
         \A p \in Products :
           LET r == ProductRow(p)
           IN /\ committed'[r] = committed[r] /\ latest'[r] = latest[r]
              /\ holder'[r] = holder[r]
              /\ outflow'[r] = outflow[r] /\ inflow'[r] = inflow[r]
              /\ \A t \in Threads : pin'[t][r] = pin[t][r] /\ pout'[t][r] = pout[t][r]
  PROVE  StockBooks'
<1>1. StockEntries'
  BY DEF StockBooks, StockEntries, Within, Apart, Fails
<1>2. ResetEntries'
  BY DEF StockBooks, ResetEntries, Within, Apart
<1>3. FreeStockCommitted' /\ StockBalance'
  BY DEF StockBooks, FreeStockCommitted, StockBalance
<1> QED
  BY <1>1, <1>2, <1>3 DEF StockBooks

(* A lock statement of p1 changes only the holder of a free row. *)
LEMMA StockLocked ==
  ASSUME StockBooks, DatabaseTypeOK, NEW t \in Threads, pc[t] \notin Apart, Within,
         NEW row \in Rows,
         ForUpdateLock(t, row), UNCHANGED <<pin, pout, outflow, inflow>>
  PROVE  StockBooks'
<1>1. /\ holder[row] \in {t, NoThread}
      /\ holder' = [holder EXCEPT ![row] = t]
      /\ UNCHANGED <<committed, latest>>
  BY DEF ForUpdateLock, LockBlockers, DatabaseTypeOK
<1>2. \A r \in Rows : holder'[r] = IF r = row THEN t ELSE holder[r]
  BY <1>1 DEF DatabaseTypeOK
<1>3. \A p \in Products : ProductRow(p) \in Rows
  BY RowFacts
<1>4. NoThread \notin Threads
  BY DatabaseAssumption
<1>5. StockEntries'
  <2> SUFFICES ASSUME NEW u \in Threads, NEW p \in Products
               PROVE  LET r == ProductRow(p)
                      IN IF holder'[r] = u
                         THEN /\ pc'[u] # "idle"
                              /\ pc'[u] \notin ResetLabels /\ ~Fails(u)' =>
                                   latest[r] = committed[r] + pin[u][r] - pout[u][r]
                         ELSE pin[u][r] = 0 /\ pout[u][r] = 0
    BY <1>1 DEF StockEntries
  <2>0. /\ pc'[t] # "idle" /\ pc[t] \notin ResetLabels
        /\ pc'[u] = "idle" => pc[u] = "idle"
        /\ pc'[u] \notin ResetLabels => pc[u] \notin ResetLabels
        /\ ~Fails(u)' => ~Fails(u)
    BY DEF Within, Apart
  <2> DEFINE r == ProductRow(p)
  <2>1. r \in Rows /\ committed[r] \in Int
    BY <1>3 DEF DatabaseTypeOK
  <2>2. CASE r = row /\ holder[r] = NoThread
    BY <2>0, <2>1, <2>2, <1>2, <1>4 DEF StockBooks, StockEntries, FreeStockCommitted
  <2>3. CASE r # row \/ holder[r] = t
    BY <2>0, <2>1, <2>3, <1>2 DEF StockBooks, StockEntries
  <2> QED
    BY <2>2, <2>3, <1>1
<1>6. FreeStockCommitted'
  BY <1>1, <1>2, <1>3, <1>4 DEF StockBooks, FreeStockCommitted
<1>7. StockBalance'
  BY <1>1 DEF StockBooks, StockBalance
<1>8. ResetEntries'
  BY <1>1, <1>2, <1>3, <1>4 DEF StockBooks, ResetEntries, Within, Apart
<1> QED
  BY <1>5, <1>6, <1>7, <1>8 DEF StockBooks

LEMMA PlanAcquireBooks ==
  ASSUME StockBooks, DatabaseTypeOK, NEW t \in Threads, pc[t] \notin Apart, Within,
         NEW type, NEW form, NEW id,
         LockRow(type, id) \in Rows,
         PlanAcquire(t, type, form, id), UNCHANGED <<pin, pout, outflow, inflow>>
  PROVE  StockBooks'
<1>1. CASE UNCHANGED dbVars
  BY <1>1, StockUntouched DEF dbVars
<1>2. CASE ForUpdateLock(t, LockRow(type, id))
  BY <1>2, StockLocked
<1> QED
  BY <1>1, <1>2 DEF PlanAcquire

(* The locals of the other threads stay as they are. *)
LEMMA OtherThreads ==
  ASSUME WorkOK, NEW t \in Threads, ThreadOK(t)',
         \A u \in Threads \ {t} :
           /\ pc'[u] = pc[u] /\ kind'[u] = kind[u] /\ who'[u] = who[u]
           /\ todo'[u] = todo[u] /\ batch'[u] = batch[u]
  PROVE  WorkOK'
BY DEF WorkOK, ThreadOK

LEMMA GotoFacts ==
  ASSUME BizTypeOK, NEW t \in Threads, NEW label \in Labels, Goto(t, label)
  PROVE  /\ pc' \in [Threads -> Labels] /\ outcome' = outcome
         /\ pc'[t] = label /\ \A u \in Threads \ {t} : pc'[u] = pc[u]
BY DEF BizTypeOK, Goto

LEMMA LeaveFacts ==
  ASSUME BizTypeOK, NEW t \in Threads, NEW o \in Outcomes, Leave(t, o)
  PROVE  /\ pc' \in [Threads -> Labels]
         /\ outcome' \in [Threads -> Outcomes]
         /\ pc'[t] \in {"unlock", "commit", "rollback"}
         /\ \A u \in Threads \ {t} : pc'[u] = pc[u]
<1>1. Ending(o) \in {"commit", "rollback"} /\ {"unlock", "commit", "rollback"} \subseteq Labels
  BY DEF Ending, Labels, BizLabels
<1> QED
  BY <1>1 DEF BizTypeOK, Leave

LEMMA GotoWithin ==
  ASSUME BizTypeOK, NEW t \in Threads, pc[t] \notin Apart, NEW label \in Labels \ Apart,
         Goto(t, label), \A u \in Threads \ {t} : todo'[u] = todo[u],
         \A u \in Threads : Fails(u) => Fails(u)'
  PROVE  Within
BY GotoFacts, WithinFacts

LEMMA LeaveWithin ==
  ASSUME BizTypeOK, NEW t \in Threads, pc[t] \notin Apart, NEW o \in Outcomes,
         Leave(t, o), \A u \in Threads \ {t} : todo'[u] = todo[u],
         \A u \in Threads : Fails(u) => Fails(u)'
  PROVE  Within
BY LeaveFacts, WithinFacts DEF Apart, ResetLabels

(* An operation that has failed ends with a rollback. *)
LEMMA LeaveFails ==
  ASSUME BizTypeOK, NEW t \in Threads, NEW o \in Outcomes \ {"ok"}, Leave(t, o)
  PROVE  Fails(t)' /\ \A u \in Threads : Fails(u) => Fails(u)'
<1>1. Fails(t)'
  BY DEF BizTypeOK, Leave, Ending, Fails
<1>2. \A u \in Threads \ {t} : pc'[u] = pc[u] /\ outcome'[u] = outcome[u]
  BY DEF BizTypeOK, Leave
<1> QED
  BY <1>1, <1>2 DEF Fails

LEMMA FailsKept ==
  ASSUME StockInv, NEW t \in Threads,
         \/ LockUser(t) \/ FillCart(t) \/ FindInsufficient(t) \/ LockProduct(t)
         \/ CreateSource(t) \/ DeductStock(t) \/ SkipProduct(t) \/ ReadCash(t) \/ PayBill(t)
         \/ Recharge(t) \/ UpdateStatusCode(t) \/ ReadStock(t) \/ Restock(t) \/ Unlock(t)
  PROVE  \A u \in Threads : Fails(u) => Fails(u)'
<1>0. BizTypeOK
  BY DEF StockInv, TypeOK
<1>1. ASSUME pc[t] \notin {"unlock", "rollback"},
             \/ UNCHANGED <<pc, outcome>>
             \/ \E label : Goto(t, label)
             \/ \E o : Leave(t, o)
      PROVE  \A u \in Threads : Fails(u) => Fails(u)'
  <2>1. \A u \in Threads \ {t} : pc'[u] = pc[u] /\ outcome'[u] = outcome[u]
    BY <1>0, <1>1 DEF BizTypeOK, Goto, Leave
  <2>2. ~Fails(t)
    BY <1>1 DEF Fails
  <2> QED
    BY <2>1, <2>2 DEF Fails
<1>2. CASE LockUser(t) \/ FillCart(t) \/ FindInsufficient(t) \/ LockProduct(t)
  <2>1. /\ pc[t] \notin {"unlock", "rollback"}
        /\ UNCHANGED <<pc, outcome>> \/ \E label : Goto(t, label)
    BY <1>2 DEF LockUser, FillCart, FindInsufficient, LockProduct
  <2> QED
    BY <1>1, <2>1
<1>3. CASE CreateSource(t) \/ ReadCash(t) \/ Recharge(t) \/ ReadStock(t)
  <2>1. pc[t] \notin {"unlock", "rollback"} /\ \E label : Goto(t, label)
    BY <1>3 DEF CreateSource, ReadCash, Recharge, ReadStock
  <2> QED
    BY <1>1, <2>1
<1>4. CASE DeductStock(t) \/ SkipProduct(t)
  <2>1. /\ pc[t] \notin {"unlock", "rollback"}
        /\ \/ UNCHANGED <<pc, outcome>> \/ Goto(t, "cash") \/ Leave(t, "biz")
    BY <1>4 DEF DeductStock, SkipProduct, NextItem
  <2> QED
    BY <1>1, <2>1
<1>5. CASE PayBill(t) \/ UpdateStatusCode(t) \/ Restock(t)
  <2>1. /\ pc[t] \notin {"unlock", "rollback"}
        /\ (\E label : Goto(t, label)) \/ \E o : Leave(t, o)
    BY <1>5 DEF PayBill, UpdateStatusCode, Restock
  <2> QED
    BY <1>1, <2>1
<1>6. CASE Unlock(t)
  <2>1. /\ pc[t] = "unlock" /\ outcome' = outcome
        /\ pc' = pc \/ pc' = [pc EXCEPT ![t] = Ending(outcome[t])]
    BY <1>6 DEF Unlock, Goto
  <2>2. \A u \in Threads : pc'[u] = IF u = t /\ pc' # pc THEN Ending(outcome[t]) ELSE pc[u]
    BY <1>0, <2>1 DEF BizTypeOK
  <2> QED
    BY <2>1, <2>2 DEF Fails, Ending
<1> QED
  BY <1>2, <1>3, <1>4, <1>5, <1>6

(* Once it leaves the body, a thread only has to remember its users. *)
LEMMA LeftOK ==
  ASSUME WorkOK, NEW t \in Threads, pc'[t] \in {"unlock", "commit", "rollback"},
         kind'[t] = kind[t], who'[t] = who[t]
  PROVE  ThreadOK(t)'
BY DEF WorkOK, ThreadOK

LEMMA AccountFacts ==
  ASSUME StockInv, NEW t \in Threads, pc[t] \in {"cash", "credit", "status"}
  PROVE  Account(t) \in Users /\ (kind[t] = "recharge" => Account(t) \in todo[t])
<1>1. Users \subseteq Nat
  BY TablesAssumption
<1>2. CASE kind[t] = "recharge"
  <2>1. todo[t] # {} /\ todo[t] \subseteq Users
    BY <1>2 DEF StockInv, WorkOK, ThreadOK
  <2>2. First(todo[t]) \in todo[t]
    BY <1>1, <2>1, FirstIn
  <2> QED
    BY <1>2, <2>1, <2>2 DEF Account
<1>3. CASE kind[t] # "recharge"
  <2>1. who[t] # {} /\ who[t] \subseteq Users
    BY <1>3 DEF StockInv, WorkOK, ThreadOK, TypeOK, BizTypeOK
  <2>2. First(who[t]) \in who[t]
    BY <1>1, <2>1, FirstIn
  <2> QED
    BY <1>3, <2>1, <2>2 DEF Account
<1> QED
  BY <1>2, <1>3

(* the product the loop of createOrderItems or doReload is at *)
LEMMA ProductFacts ==
  ASSUME StockInv, NEW t \in Threads, pc[t] \in {"deduct", "reload", "restock"}
  PROVE  /\ First(todo[t]) \in Products /\ First(todo[t]) \in todo[t]
         /\ todo[t] \subseteq Products
<1>1. Products \subseteq Nat
  BY TablesAssumption
<1>2. todo[t] # {} /\ todo[t] \subseteq Products
  BY DEF StockInv, WorkOK, ThreadOK
<1> QED
  BY <1>1, <1>2, FirstIn

LEMMA CartFacts ==
  ASSUME NEW c \in Carts
  PROVE  c \in [Products -> Nat] /\ InBatch(c) # {} /\ InBatch(c) \subseteq Products
<1>0. c \in [Products -> 0 .. BatchSize] /\ c # NoProducts
  BY Zenon DEF Carts
<1>1. c \in [Products -> Nat] /\ c # NoProducts
  BY <1>0, TablesAssumption
<1>2. \E p \in Products : c[p] # 0
  BY <1>1 DEF NoProducts
<1> QED
  BY <1>1, <1>2 DEF InBatch

LEMMA ReloadFacts ==
  ASSUME NEW stock, NEW ids \in Insufficient(stock)
  PROVE  /\ ids \subseteq Products /\ ids # {}
         /\ ReloadOf(ids) \in [Products -> Nat] /\ InBatch(ReloadOf(ids)) = ids
<1>1. ids \subseteq Products /\ (Cardinality(ids) = BatchSize \/ ids = Products)
  BY DEF Insufficient
<1>2. Cardinality({}) = 0
  BY FS_EmptySet
<1>3. ids # {}
  BY <1>1, <1>2, TablesAssumption
<1>4. ReloadOf(ids) \in [Products -> Nat]
  BY DEF ReloadOf
<1>5. InBatch(ReloadOf(ids)) = ids
  BY <1>1 DEF ReloadOf, InBatch
<1> QED
  BY <1>1, <1>3, <1>4, <1>5

LEMMA LockUserStep ==
  ASSUME StockInv, NEW t \in Threads, LockUser(t), UNCHANGED <<tries, requests>>
  PROVE  StockInv'
<1>1. PICK u \in NextIds(todo[t]) :
        /\ PlanAcquire(t, "uid", UserForm(t), u)
        /\ IF todo[t] = {u}
           THEN /\ todo' = [todo EXCEPT ![t] = who[t]]
                /\ Goto(t, IF kind[t] = "package" THEN "cart" ELSE "source")
           ELSE /\ todo' = [todo EXCEPT ![t] = @ \ {u}]
                /\ UNCHANGED <<pc, outcome>>
  BY DEF LockUser
<1>2. u \in Users /\ u \in todo[t] /\ todo[t] \subseteq Users
  BY DEF LockUser, NextIds, StockInv, WorkOK, ThreadOK
<1>3. DatabaseTypeOK' /\ PlanTypeOK'
  BY <1>1, <1>2, PlanAcquireTypes, RowFacts
     DEF StockInv, TypeOK, LockRow, LockTypes, UserForm
<1>4. /\ pc[t] = "lockUser"
      /\ UNCHANGED <<kind, who, batch, due, seen, sourced, saved, pout, pin, outflow, inflow>>
  BY DEF LockUser, requestVars, workVars, pendingVars, bookVars
<1>5. BizTypeOK'
  <2>1. pc' \in [Threads -> Labels] /\ outcome' = outcome
    BY <1>1 DEF StockInv, TypeOK, BizTypeOK, Goto, Labels, BizLabels
  <2>2. todo' \in [Threads -> SUBSET Nat]
    <3>1. todo \in [Threads -> SUBSET Nat] /\ who[t] \in SUBSET Nat
      BY TablesAssumption DEF StockInv, TypeOK, BizTypeOK
    <3>2. todo[t] \ {u} \in SUBSET Nat
      BY <3>1
    <3> QED
      BY <1>1, <3>1, <3>2
  <2> QED
    BY <1>4, <2>1, <2>2 DEF StockInv, TypeOK, BizTypeOK
<1>6. WorkOK'
  <2>1. ThreadOK(t)'
    BY <1>1, <1>2, <1>4 DEF StockInv, TypeOK, WorkOK, ThreadOK, BizTypeOK, Goto
  <2>2. \A v \in Threads \ {t} : pc'[v] = pc[v] /\ todo'[v] = todo[v]
    BY <1>1 DEF StockInv, TypeOK, BizTypeOK, Goto
  <2> QED
    BY <1>4, <2>1, <2>2, OtherThreads DEF StockInv
<1>8. Within /\ pc[t] \notin Apart
  <2>1. pc'[t] \in {"lockUser", "cart", "source"}
    BY <1>1, <1>4 DEF StockInv, TypeOK, BizTypeOK, Goto
  <2>2. \A v \in Threads \ {t} : pc'[v] = pc[v] /\ todo'[v] = todo[v]
    BY <1>1 DEF StockInv, TypeOK, BizTypeOK, Goto
  <2> QED
    BY <1>4, <2>1, <2>2, WithinFacts, FailsKept DEF Apart, ResetLabels
<1>7. StockBooks'
  BY <1>1, <1>2, <1>4, <1>8, PlanAcquireBooks, RowFacts
     DEF StockInv, TypeOK, StockBooks, LockRow
<1> QED
  BY <1>3, <1>5, <1>6, <1>7 DEF StockInv, TypeOK, StockBooks

LEMMA FillCartStep ==
  ASSUME StockInv, NEW t \in Threads, FillCart(t), UNCHANGED <<tries, requests>>
  PROVE  StockInv'
<1>1. PICK c \in Carts : /\ batch' = [batch EXCEPT ![t] = c]
                         /\ todo'  = [todo EXCEPT ![t] = InBatch(c)]
  BY DEF FillCart
<1>2. /\ pc[t] = "cart" /\ Goto(t, "lockProduct")
      /\ UNCHANGED <<dbVars, planVars, kind, who, due, seen, sourced, saved, pout, pin,
                     outflow, inflow>>
  BY DEF FillCart, requestVars, pendingVars, bookVars
<1>3. BizTypeOK /\ WorkOK /\ StockBooks
  BY DEF StockInv, TypeOK, StockBooks
<1>4. DatabaseTypeOK' /\ PlanTypeOK'
  BY <1>2 DEF StockInv, TypeOK, DatabaseTypeOK, PlanTypeOK, dbVars, planVars
<1>5. BizTypeOK'
  <2>1. todo' \in [Threads -> SUBSET Nat] /\ batch' \in [Threads -> [Products -> Nat]]
    BY <1>1, <1>3, CartFacts, TablesAssumption DEF BizTypeOK
  <2>2. pc' \in [Threads -> Labels] /\ outcome' = outcome
    BY <1>2, <1>3, GotoFacts DEF Labels, BizLabels
  <2> QED
    BY <1>2, <1>3, <2>1, <2>2 DEF BizTypeOK
<1>6. WorkOK'
  <2>1. pc'[t] = "lockProduct" /\ \A u \in Threads \ {t} : pc'[u] = pc[u]
    BY <1>2, <1>3, GotoFacts DEF Labels, BizLabels
  <2>2. kind[t] = "package" /\ who[t] # {}
    BY <1>2, <1>3 DEF WorkOK, ThreadOK
  <2>3. /\ todo'[t] = InBatch(c) /\ batch'[t] = c
        /\ \A u \in Threads \ {t} : todo'[u] = todo[u] /\ batch'[u] = batch[u]
    BY <1>1, <1>3 DEF BizTypeOK
  <2>4. ThreadOK(t)'
    BY <1>2, <2>1, <2>2, <2>3, CartFacts DEF ThreadOK
  <2> QED
    BY <1>2, <1>3, <2>1, <2>3, <2>4, OtherThreads
<1>8. Within
  <2>1. \A u \in Threads \ {t} : todo'[u] = todo[u]
    BY <1>1, <1>3 DEF BizTypeOK
  <2> QED
    BY <1>2, <1>3, <2>1, GotoWithin, FailsKept DEF Apart, ResetLabels, Labels, BizLabels
<1>7. StockBooks'
  BY <1>2, <1>3, <1>8, StockUntouched DEF dbVars
<1> QED
  BY <1>4, <1>5, <1>6, <1>7 DEF StockInv, TypeOK, StockBooks

LEMMA FindInsufficientStep ==
  ASSUME StockInv, NEW t \in Threads, FindInsufficient(t), UNCHANGED <<tries, requests>>
  PROVE  StockInv'
<1>1. PICK ids \in Insufficient([p \in Products |-> Visible(t, ProductRow(p))]) :
        /\ batch' = [batch EXCEPT ![t] = ReloadOf(ids)]
        /\ todo'  = [todo EXCEPT ![t] = ids]
  BY DEF FindInsufficient
<1>2. /\ pc[t] = "find" /\ Goto(t, "lockProduct") /\ Read(t, ProductRows)
      /\ UNCHANGED <<planVars, kind, who, due, seen, sourced, saved, pout, pin, outflow, inflow>>
  BY DEF FindInsufficient, requestVars, pendingVars, bookVars
<1>3. BizTypeOK /\ WorkOK /\ StockBooks
  BY DEF StockInv, TypeOK, StockBooks
<1>4. DatabaseTypeOK' /\ PlanTypeOK'
  BY <1>2, ReadTypes, RowFacts DEF StockInv, TypeOK, PlanTypeOK, planVars
<1>5. BizTypeOK'
  <2>1. todo' \in [Threads -> SUBSET Nat] /\ batch' \in [Threads -> [Products -> Nat]]
    BY <1>1, <1>3, ReloadFacts, TablesAssumption DEF BizTypeOK
  <2>2. pc' \in [Threads -> Labels] /\ outcome' = outcome
    BY <1>2, <1>3, GotoFacts DEF Labels, BizLabels
  <2> QED
    BY <1>2, <1>3, <2>1, <2>2 DEF BizTypeOK
<1>6. WorkOK'
  <2>1. pc'[t] = "lockProduct" /\ \A u \in Threads \ {t} : pc'[u] = pc[u]
    BY <1>2, <1>3, GotoFacts DEF Labels, BizLabels
  <2>2. kind[t] = "reload"
    BY <1>2, <1>3 DEF WorkOK, ThreadOK
  <2>3. /\ todo'[t] = ids /\ batch'[t] = ReloadOf(ids)
        /\ \A u \in Threads \ {t} : todo'[u] = todo[u] /\ batch'[u] = batch[u]
    BY <1>1, <1>3 DEF BizTypeOK
  <2>4. ThreadOK(t)'
    BY <1>2, <2>1, <2>2, <2>3, ReloadFacts DEF ThreadOK
  <2> QED
    BY <1>2, <1>3, <2>1, <2>3, <2>4, OtherThreads
<1>8. Within
  <2>1. \A u \in Threads \ {t} : todo'[u] = todo[u]
    BY <1>1, <1>3 DEF BizTypeOK
  <2> QED
    BY <1>2, <1>3, <2>1, GotoWithin, FailsKept DEF Apart, ResetLabels, Labels, BizLabels
<1>7. StockBooks'
  BY <1>2, <1>3, <1>8, StockUntouched DEF Read
<1> QED
  BY <1>4, <1>5, <1>6, <1>7 DEF StockInv, TypeOK, StockBooks

LEMMA LockProductStep ==
  ASSUME StockInv, NEW t \in Threads, LockProduct(t), UNCHANGED <<tries, requests>>
  PROVE  StockInv'
<1>1. PICK p \in NextIds(todo[t]) :
        /\ PlanAcquire(t, "pid", "set", p)
        /\ IF todo[t] = {p}
           THEN /\ todo' = [todo EXCEPT ![t] = InBatch(batch[t])]
                /\ Goto(t, IF kind[t] = "reload" THEN "reload" ELSE "source")
           ELSE /\ todo' = [todo EXCEPT ![t] = @ \ {p}]
                /\ UNCHANGED <<pc, outcome>>
  BY DEF LockProduct
<1>2. /\ pc[t] = "lockProduct"
      /\ UNCHANGED <<kind, who, batch, due, seen, sourced, saved, pout, pin, outflow, inflow>>
  BY DEF LockProduct, requestVars, workVars, pendingVars, bookVars
<1>3. BizTypeOK /\ WorkOK /\ StockBooks
  BY DEF StockInv, TypeOK, StockBooks
<1>8. /\ p \in Products /\ p \in todo[t] /\ todo[t] \subseteq Products
      /\ kind[t] \in {"package", "reload"} /\ InBatch(batch[t]) # {}
      /\ InBatch(batch[t]) \subseteq Products
  BY <1>2, <1>3 DEF NextIds, WorkOK, ThreadOK, InBatch
<1>4. DatabaseTypeOK' /\ PlanTypeOK'
  BY <1>1, <1>8, PlanAcquireTypes, RowFacts DEF StockInv, TypeOK, LockRow, LockTypes
<1>5. BizTypeOK'
  <2>1. pc' \in [Threads -> Labels] /\ outcome' = outcome
    BY <1>1, <1>3 DEF BizTypeOK, Goto, Labels, BizLabels
  <2>2. todo' \in [Threads -> SUBSET Nat]
    <3>1. todo \in [Threads -> SUBSET Nat] /\ InBatch(batch[t]) \in SUBSET Nat
      BY <1>3, <1>8, TablesAssumption DEF BizTypeOK
    <3>2. todo[t] \ {p} \in SUBSET Nat
      BY <3>1
    <3> QED
      BY <1>1, <3>1, <3>2
  <2> QED
    BY <1>2, <1>3, <2>1, <2>2 DEF BizTypeOK
<1>6. WorkOK'
  <2>1. ThreadOK(t)'
    BY <1>1, <1>2, <1>3, <1>8 DEF WorkOK, ThreadOK, BizTypeOK, Goto
  <2>2. \A v \in Threads \ {t} : pc'[v] = pc[v] /\ todo'[v] = todo[v]
    BY <1>1, <1>3 DEF BizTypeOK, Goto
  <2> QED
    BY <1>2, <1>3, <2>1, <2>2, OtherThreads
<1>9. Within /\ pc[t] \notin Apart
  <2>1. pc'[t] \in {"lockProduct", "reload", "source"}
    BY <1>1, <1>2, <1>3 DEF BizTypeOK, Goto
  <2>2. \A v \in Threads \ {t} : pc'[v] = pc[v] /\ todo'[v] = todo[v]
    BY <1>1, <1>3 DEF BizTypeOK, Goto
  <2> QED
    BY <1>2, <2>1, <2>2, WithinFacts, FailsKept DEF Apart, ResetLabels
<1>7. StockBooks'
  BY <1>1, <1>2, <1>3, <1>8, <1>9, PlanAcquireBooks, RowFacts DEF StockInv, TypeOK, LockRow
<1> QED
  BY <1>4, <1>5, <1>6, <1>7 DEF StockInv, TypeOK, StockBooks

(* Leaving the body by an exception, without touching anything else but the keys *)
LEMMA LeaveStep ==
  ASSUME StockInv, NEW t \in Threads, pc[t] \notin Apart, NEW o \in Outcomes \ {"ok"},
         Leave(t, o), PlanTypeOK',
         UNCHANGED <<dbVars, kind, who, todo, batch, due, seen, sourced, saved,
                     pout, pin, outflow, inflow, tries, requests>>
  PROVE  StockInv'
<1>3. BizTypeOK /\ WorkOK /\ StockBooks
  BY DEF StockInv, TypeOK, StockBooks
<1>4. DatabaseTypeOK' /\ PlanTypeOK'
  BY DEF StockInv, TypeOK, DatabaseTypeOK, dbVars
<1>5. BizTypeOK'
  BY <1>3, LeaveFacts DEF BizTypeOK
<1>6. WorkOK'
  BY <1>3, LeaveFacts, LeftOK, OtherThreads
<1>8. Within
  BY <1>3, LeaveWithin, LeaveFails
<1>7. StockBooks'
  BY <1>3, <1>8, StockUntouched DEF dbVars
<1> QED
  BY <1>4, <1>5, <1>6, <1>7 DEF StockInv, TypeOK, StockBooks

LEMMA KeysAsTheyWere ==
  ASSUME StockInv, UNCHANGED planVars
  PROVE  PlanTypeOK'
BY DEF StockInv, TypeOK, PlanTypeOK, planVars

LEMMA DrawFailsStep ==
  ASSUME StockInv, NEW t \in Threads, DrawFails(t), UNCHANGED <<tries, requests>>
  PROVE  StockInv'
<1>1. /\ pc[t] = "cart" /\ Leave(t, "null")
      /\ UNCHANGED <<dbVars, planVars, kind, who, todo, batch, due, seen, sourced, saved,
                     pout, pin, outflow, inflow>>
  BY DEF DrawFails, requestVars, workVars, pendingVars, bookVars
<1>2. pc[t] \notin Apart /\ "null" \in Outcomes
  BY <1>1 DEF Apart, ResetLabels, Outcomes
<1> QED
  BY <1>1, <1>2, KeysAsTheyWere, LeaveStep

LEMMA LockTimeoutStep ==
  ASSUME StockInv, NEW t \in Threads, LockTimeout(t), UNCHANGED <<tries, requests>>
  PROVE  StockInv'
<1>1. /\ pc[t] \in {"lockUser", "lockProduct"} /\ Leave(t, "timeout")
      /\ UNCHANGED <<dbVars, planVars, kind, who, todo, batch, due, seen, sourced, saved,
                     pout, pin, outflow, inflow>>
  BY DEF LockTimeout, requestVars, workVars, pendingVars, bookVars
<1>2. pc[t] \notin Apart /\ "timeout" \in Outcomes
  BY <1>1 DEF Apart, ResetLabels, Outcomes
<1> QED
  BY <1>1, <1>2, KeysAsTheyWere, LeaveStep

(* a command of RedisUtil.lock that throws *)
LEMMA LockThrowsStep ==
  ASSUME StockInv, NEW t \in Threads, LockThrows(t), UNCHANGED <<tries, requests>>
  PROVE  StockInv'
<1>1. /\ pc[t] \in {"lockUser", "lockProduct"} /\ Leave(t, "redis")
      /\ UNCHANGED <<dbVars, kind, who, todo, batch, due, seen, sourced, saved,
                     pout, pin, outflow, inflow>>
  BY DEF LockThrows, requestVars, workVars, pendingVars, bookVars
<1>2. pc[t] \notin Apart /\ "redis" \in Outcomes \ {"ok"}
  BY <1>1 DEF Apart, ResetLabels, Outcomes
<1>3. PICK k \in LockNames : AcquireThrows(t, k)
  <2>1. todo[t] \subseteq Users \cup Products
    BY <1>1 DEF StockInv, WorkOK, ThreadOK
  <2>2. \E i \in todo[t] : \/ AcquireThrows(t, LockName("uid", UserForm(t), i))
                           \/ AcquireThrows(t, LockName("pid", "set", i))
    BY DEF LockThrows
  <2>3. UserForm(t) \in {"one", "set"} /\ {"uid", "pid"} \subseteq LockTypes
    BY DEF UserForm, LockTypes
  <2>4. \A i \in todo[t] : /\ LockName("uid", UserForm(t), i) \in LockNames
                           /\ LockName("pid", "set", i) \in LockNames
    BY <2>1, <2>3, LockNameType
  <2> QED
    BY <2>2, <2>4
<1>4. PlanTypeOK'
  BY <1>3 DEF StockInv, TypeOK, PlanTypeOK, AcquireThrows
<1> QED
  BY <1>1, <1>2, <1>4, LeaveStep

(* A thread without a request waits for nobody, so no deadlock is its own. *)
LEMMA WaitsSomewhere ==
  ASSUME NEW t \in Threads, Deadlocked(t)
  PROVE  pc[t] # "idle"
<1>1. WaitsFor(t) # {}
  BY DEF Deadlocked
<1> QED
  BY <1>1 DEF WaitsFor, ResetWaitsFor, UpdateLabels, SourceLabels

LEMMA StatementFailsStep ==
  ASSUME StockInv, NEW t \in Threads, StatementFails(t), UNCHANGED <<tries, requests>>
  PROVE  StockInv'
<1>1. /\ pc[t] \notin ResetLabels /\ (Deadlocked(t) \/ UpdateConflicts(t)) /\ Leave(t, "db")
      /\ UNCHANGED <<dbVars, planVars, kind, who, todo, batch, due, seen, sourced, saved,
                     pout, pin, outflow, inflow>>
  BY DEF StatementFails, requestVars, workVars, pendingVars, bookVars
<1>2. pc[t] # "idle"
  BY <1>1, WaitsSomewhere DEF UpdateConflicts
<1>3. pc[t] \notin Apart /\ "db" \in Outcomes
  BY <1>1, <1>2 DEF Apart, Outcomes
<1> QED
  BY <1>1, <1>3, KeysAsTheyWere, LeaveStep

LEMMA CommitRefusedStep ==
  ASSUME StockInv, NEW t \in Threads, CommitRefused(t), UNCHANGED <<tries, requests>>
  PROVE  StockInv'
<1>2. /\ pc[t] = "commit" /\ outcome' = [outcome EXCEPT ![t] = "db"]
      /\ pc' = [pc EXCEPT ![t] = "rollback"]
      /\ UNCHANGED <<dbVars, planVars, kind, who, todo, batch, due, seen, sourced, saved,
                     pout, pin, outflow, inflow>>
  BY DEF CommitRefused, requestVars, workVars, pendingVars, bookVars
<1>3. BizTypeOK /\ WorkOK /\ StockBooks
  BY DEF StockInv, TypeOK, StockBooks
<1>4. DatabaseTypeOK' /\ PlanTypeOK'
  BY <1>2 DEF StockInv, TypeOK, DatabaseTypeOK, PlanTypeOK, dbVars, planVars
<1>9. pc' \in [Threads -> Labels] /\ outcome' \in [Threads -> Outcomes]
  BY <1>2, <1>3 DEF BizTypeOK, Labels, BizLabels, Outcomes
<1>5. BizTypeOK'
  BY <1>2, <1>3, <1>9 DEF BizTypeOK
<1>8. pc'[t] = "rollback" /\ \A u \in Threads \ {t} : pc'[u] = pc[u]
  BY <1>2, <1>3 DEF BizTypeOK
<1>6. WorkOK'
  BY <1>2, <1>3, <1>8, LeftOK, OtherThreads
<1>10. Within
  <2>1. \A u \in Threads : Fails(u) => Fails(u)'
    BY <1>2, <1>3, <1>8 DEF Fails, BizTypeOK
  <2> QED
    BY <1>2, <1>8, <2>1, WithinFacts DEF Apart, ResetLabels
<1>7. StockBooks'
  BY <1>2, <1>3, <1>10, StockUntouched DEF dbVars
<1> QED
  BY <1>4, <1>5, <1>6, <1>7 DEF StockInv, TypeOK, StockBooks

LEMMA CreateSourceStep ==
  ASSUME StockInv, NEW t \in Threads, CreateSource(t), UNCHANGED <<tries, requests>>
  PROVE  StockInv'
<1>1. PICK amount \in Nat : due' = [due EXCEPT ![t] = amount]
  <2>1. BillAmounts \subseteq Nat /\ RechargeAmounts \subseteq Nat
    BY TablesAssumption
  <2> QED
    BY <2>1 DEF CreateSource
<1>2. /\ pc[t] = "source" /\ Insert(t)
      /\ Goto(t, IF kind[t] = "package" THEN "deduct" ELSE "cash")
      /\ sourced' = [sourced EXCEPT ![t] = TRUE]
      /\ UNCHANGED <<planVars, kind, who, todo, batch, seen, saved, pout, pin, outflow, inflow>>
  BY DEF CreateSource, requestVars, pendingVars, bookVars
<1>3. BizTypeOK /\ WorkOK /\ StockBooks
  BY DEF StockInv, TypeOK, StockBooks
<1>4. DatabaseTypeOK' /\ PlanTypeOK'
  BY <1>2, InsertTypes DEF StockInv, TypeOK, PlanTypeOK, planVars
<1>8. /\ pc' \in [Threads -> Labels] /\ outcome' = outcome
      /\ pc'[t] = IF kind[t] = "package" THEN "deduct" ELSE "cash"
      /\ \A u \in Threads \ {t} : pc'[u] = pc[u]
  BY <1>2, <1>3 DEF BizTypeOK, Goto, Labels, BizLabels
<1>5. BizTypeOK'
  <2>1. due' \in [Threads -> Int] /\ sourced' \in [Threads -> BOOLEAN]
    BY <1>1, <1>2, <1>3 DEF BizTypeOK
  <2> QED
    BY <1>2, <1>3, <1>8, <2>1 DEF BizTypeOK
<1>6. WorkOK'
  <2>1. ThreadOK(t)'
    BY <1>2, <1>3, <1>8 DEF WorkOK, ThreadOK
  <2> QED
    BY <1>2, <1>3, <1>8, <2>1, OtherThreads
<1>9. Within
  BY <1>2, <1>8, WithinFacts, FailsKept DEF Apart, ResetLabels
<1>7. StockBooks'
  BY <1>2, <1>3, <1>9, StockUntouched DEF Insert
<1> QED
  BY <1>4, <1>5, <1>6, <1>7 DEF StockInv, TypeOK, StockBooks

(* The one way a stock changes: a relative update of the row together with *)
(* entries of the same amount.                                             *)
LEMMA StockUpdated ==
  ASSUME StockBooks, DatabaseTypeOK, BizTypeOK, NEW t \in Threads, pc[t] \notin Apart,
         ~Fails(t), Within, NEW p \in Products,
         NEW in \in Int, NEW out \in Int, NEW reads,
         Update(t, ProductRow(p), latest[ProductRow(p)] + in - out, reads),
         pin'  = [pin  EXCEPT ![t][ProductRow(p)] = @ + in],
         pout' = [pout EXCEPT ![t][ProductRow(p)] = @ + out],
         UNCHANGED <<outflow, inflow>>
  PROVE  StockBooks'
<1> DEFINE row == ProductRow(p)
<1>1. row \in Rows /\ \A q \in Products : ProductRow(q) \in Rows
  BY RowFacts
<1>2. \A q \in Products : q # p => ProductRow(q) # row
  BY RowFacts
<1>3. holder[row] \in {t, NoThread}
  BY <1>1 DEF Update, UpdateBlockers, LockBlockers, DatabaseTypeOK
<1>4. /\ holder'[row] = t /\ latest'[row] = latest[row] + in - out
      /\ \A r \in Rows \ {row} : holder'[r] = holder[r] /\ latest'[r] = latest[r]
      /\ committed' = committed
  BY <1>1 DEF Update, DatabaseTypeOK
<1>5. /\ pin'[t][row] = pin[t][row] + in /\ pout'[t][row] = pout[t][row] + out
      /\ \A u \in Threads, r \in Rows : u # t \/ r # row =>
           pin'[u][r] = pin[u][r] /\ pout'[u][r] = pout[u][r]
      /\ pin[t][row] \in Int /\ pout[t][row] \in Int
      /\ latest[row] \in Int /\ committed[row] \in Int
  BY <1>1 DEF BizTypeOK, DatabaseTypeOK
<1>6. NoThread \notin Threads
  BY DatabaseAssumption
<1>0. /\ pc[t] \notin ResetLabels /\ pc'[t] # "idle" /\ pc'[t] \notin ResetLabels
      /\ \A u \in Threads : /\ pc'[u] = "idle" => pc[u] = "idle"
                            /\ pc'[u] \notin ResetLabels => pc[u] \notin ResetLabels
                            /\ ~Fails(u)' => ~Fails(u)
  BY DEF Within, Apart
<1>7. latest[row] = committed[row] + pin[t][row] - pout[t][row]
  <2>1. CASE holder[row] = t
    BY <2>1, <1>0 DEF StockBooks, StockEntries
  <2>2. CASE holder[row] = NoThread
    <3>1. pin[t][row] = 0 /\ pout[t][row] = 0
      BY <2>2, <1>6 DEF StockBooks, StockEntries
    <3>2. latest[row] = committed[row]
      BY <2>2 DEF StockBooks, FreeStockCommitted
    <3> QED
      BY <3>1, <3>2, <1>5
  <2> QED
    BY <1>3, <2>1, <2>2
<1>8. StockEntries'
  <2> SUFFICES ASSUME NEW u \in Threads, NEW q \in Products
               PROVE  LET r == ProductRow(q)
                      IN IF holder'[r] = u
                         THEN /\ pc'[u] # "idle"
                              /\ pc'[u] \notin ResetLabels /\ ~Fails(u)' =>
                                   latest'[r] = committed'[r] + pin'[u][r] - pout'[u][r]
                         ELSE pin'[u][r] = 0 /\ pout'[u][r] = 0
    BY DEF StockEntries
  <2>1. CASE q # p
    BY <2>1, <1>0, <1>1, <1>2, <1>4, <1>5 DEF StockBooks, StockEntries
  <2>2. CASE q = p /\ u = t
    BY <2>2, <1>0, <1>4, <1>5, <1>7
  <2>3. CASE q = p /\ u # t
    <3>1. holder[row] # u
      BY <2>3, <1>3, <1>6
    <3>2. pin[u][row] = 0 /\ pout[u][row] = 0
      BY <3>1 DEF StockBooks, StockEntries
    <3> QED
      BY <3>2, <2>3, <1>1, <1>4, <1>5
  <2> QED
    BY <2>1, <2>2, <2>3
<1>9. FreeStockCommitted'
  BY <1>1, <1>2, <1>4, <1>6 DEF StockBooks, FreeStockCommitted
<1>10. StockBalance'
  BY <1>4 DEF StockBooks, StockBalance
<1>11. ResetEntries'
  <2> SUFFICES ASSUME NEW u \in Threads, NEW q \in Products, pc'[u] \in ResetLabels
               PROVE  LET r == ProductRow(q)
                      IN /\ pc'[u] = pc[u] /\ todo'[u] = todo[u]
                         /\ holder'[r] = u => latest'[r] = latest[r] /\ holder[r] = u
                         /\ holder[r] = u => holder'[r] = u
                         /\ outflow'[r] = outflow[r] /\ inflow'[r] = inflow[r]
                         /\ pin'[u][r] = pin[u][r] /\ pout'[u][r] = pout[u][r]
    BY DEF StockBooks, ResetEntries
  <2>1. u # t /\ pc'[u] = pc[u] /\ todo'[u] = todo[u]
    BY <1>0 DEF Within, Apart
  <2>2. CASE q = p
    BY <2>1, <2>2, <1>1, <1>3, <1>4, <1>5, <1>6
  <2>3. CASE q # p
    BY <2>1, <2>3, <1>1, <1>2, <1>4, <1>5
  <2> QED
    BY <2>2, <2>3
<1> QED
  BY <1>8, <1>9, <1>10, <1>11 DEF StockBooks

(* An update without an entry, by an operation that is about to be rolled  *)
(* back.                                                                   *)
LEMMA StockDoomed ==
  ASSUME StockBooks, DatabaseTypeOK, NEW t \in Threads, pc[t] \notin Apart,
         Fails(t)', Within, NEW row \in Rows, NEW value, NEW reads,
         Update(t, row, value, reads), UNCHANGED <<pin, pout, outflow, inflow>>
  PROVE  StockBooks'
<1>1. holder[row] \in {t, NoThread} /\ NoThread \notin Threads
  BY DatabaseAssumption DEF Update, UpdateBlockers, LockBlockers, DatabaseTypeOK
<1>2. /\ holder'[row] = t
      /\ \A r \in Rows \ {row} : holder'[r] = holder[r] /\ latest'[r] = latest[r]
      /\ committed' = committed
  BY DEF Update, DatabaseTypeOK
<1>3. \A p \in Products : ProductRow(p) \in Rows
  BY RowFacts
<1>4. /\ pc'[t] # "idle" /\ pc'[t] \notin ResetLabels
      /\ \A u \in Threads : /\ pc'[u] = "idle" => pc[u] = "idle"
                            /\ pc'[u] \notin ResetLabels => pc[u] \notin ResetLabels
                            /\ ~Fails(u)' => ~Fails(u)
  BY DEF Within, Apart
<1>5. StockEntries'
  <2> SUFFICES ASSUME NEW u \in Threads, NEW p \in Products
               PROVE  LET r == ProductRow(p)
                      IN IF holder'[r] = u
                         THEN /\ pc'[u] # "idle"
                              /\ pc'[u] \notin ResetLabels /\ ~Fails(u)' =>
                                   latest'[r] = committed'[r] + pin'[u][r] - pout'[u][r]
                         ELSE pin'[u][r] = 0 /\ pout'[u][r] = 0
    BY DEF StockEntries
  <2>1. CASE ProductRow(p) = row
    BY <2>1, <1>1, <1>2, <1>4 DEF StockBooks, StockEntries
  <2>2. CASE ProductRow(p) # row
    BY <2>2, <1>2, <1>3, <1>4 DEF StockBooks, StockEntries
  <2> QED
    BY <2>1, <2>2
<1>6. FreeStockCommitted' /\ StockBalance'
  BY <1>1, <1>2, <1>3 DEF StockBooks, FreeStockCommitted, StockBalance
<1>7. ResetEntries'
  BY <1>1, <1>2, <1>3, <1>4 DEF StockBooks, ResetEntries, Within, Apart
<1> QED
  BY <1>5, <1>6, <1>7 DEF StockBooks

LEMMA NextItemFacts ==
  ASSUME StockInv, NEW t \in Threads, pc[t] = "deduct", NEW entries,
         NextItem(t, First(todo[t]), entries), UNCHANGED <<kind, who, batch>>,
         \A u \in Threads : Fails(u) => Fails(u)'
  PROVE  /\ pc' \in [Threads -> Labels]
         /\ outcome' \in [Threads -> Outcomes]
         /\ todo' \in [Threads -> SUBSET Nat]
         /\ WorkOK' /\ Within /\ pc[t] \notin Apart
<1> DEFINE p == First(todo[t])
<1>1. p \in todo[t] /\ todo[t] \subseteq Products /\ Products \subseteq Nat
  BY ProductFacts, TablesAssumption
<1>2. BizTypeOK /\ WorkOK
  BY DEF StockInv, TypeOK
<1>3. todo' = [todo EXCEPT ![t] = @ \ {p}] /\ todo[t] \ {p} \in SUBSET Nat
  BY <1>1 DEF NextItem
<1>4. todo' \in [Threads -> SUBSET Nat] /\ todo'[t] = todo[t] \ {p}
      /\ \A u \in Threads \ {t} : todo'[u] = todo[u]
  BY <1>2, <1>3 DEF BizTypeOK
<1>8. pc[t] \notin Apart /\ "biz" \in Outcomes
  BY DEF Apart, ResetLabels, Outcomes
<1>5. CASE todo[t] # {p} /\ UNCHANGED <<pc, outcome>>
  <2>1. ThreadOK(t)'
    BY <1>1, <1>2, <1>4, <1>5 DEF WorkOK, ThreadOK
  <2>2. Within
    BY <1>4, <1>5, <1>8, WithinFacts
  <2> QED
    BY <1>2, <1>4, <1>5, <1>8, <2>1, <2>2, OtherThreads DEF BizTypeOK
<1>6. CASE Leave(t, "biz")
  <2>1. Within
    BY <1>2, <1>4, <1>6, <1>8, LeaveWithin
  <2> QED
    BY <1>2, <1>4, <1>6, <1>8, <2>1, LeaveFacts, LeftOK, OtherThreads
<1>7. CASE Goto(t, "cash")
  <2>1. pc' \in [Threads -> Labels] /\ outcome' = outcome /\ pc'[t] = "cash"
        /\ \A u \in Threads \ {t} : pc'[u] = pc[u]
    BY <1>2, <1>7, GotoFacts DEF Labels, BizLabels
  <2>2. ThreadOK(t)'
    BY <1>2, <2>1 DEF WorkOK, ThreadOK
  <2>3. Within
    BY <1>4, <1>8, <2>1, WithinFacts DEF Apart, ResetLabels
  <2> QED
    BY <1>2, <1>4, <1>8, <2>1, <2>2, <2>3, OtherThreads DEF BizTypeOK
<1> QED
  BY <1>4, <1>5, <1>6, <1>7 DEF NextItem

LEMMA DeductStockStep ==
  ASSUME StockInv, NEW t \in Threads, DeductStock(t), UNCHANGED <<tries, requests>>
  PROVE  StockInv'
<1> DEFINE p == First(todo[t])
           r == ProductRow(p)
           n == batch[t][p]
<1>1. /\ pc[t] = "deduct" /\ Update(t, r, latest[r] - n, holder[r] # t)
      /\ due'  = [due EXCEPT ![t] = @ + ItemPrice(OriginalPrice[p], Discount[p], n)]
      /\ pout' = [pout EXCEPT ![t][r] = @ + n]
      /\ NextItem(t, p, pout'[t])
  BY DEF DeductStock
<1>2. UNCHANGED <<planVars, kind, who, batch, seen, sourced, saved, pin, outflow, inflow>>
  BY DEF DeductStock, requestVars, bookVars
<1>3. BizTypeOK /\ WorkOK /\ StockBooks
  BY DEF StockInv, TypeOK, StockBooks
<1>8. p \in Products /\ r \in Rows /\ n \in Nat /\ latest[r] \in Int
  BY <1>1, <1>3, ProductFacts, RowFacts DEF StockInv, TypeOK, DatabaseTypeOK, BizTypeOK
<1>9. DatabaseTypeOK
  BY DEF StockInv, TypeOK
<1>4. DatabaseTypeOK' /\ PlanTypeOK'
  <2>1. latest[r] - n \in Int
    BY <1>8
  <2>2. DatabaseTypeOK'
    BY <1>1, <1>8, <1>9, <2>1, UpdateTypes
  <2> QED
    BY <1>2, <2>2 DEF StockInv, TypeOK, PlanTypeOK, planVars
<1>5. BizTypeOK'
  <2>1. due' \in [Threads -> Int]
    <3>1. ItemPrice(OriginalPrice[p], Discount[p], n) \in Int
      BY <1>8, ItemPriceType
    <3>2. due[t] + ItemPrice(OriginalPrice[p], Discount[p], n) \in Int
      BY <1>3, <3>1 DEF BizTypeOK
    <3> QED
      BY <1>1, <1>3, <3>2 DEF BizTypeOK
  <2>2. pout' \in [Threads -> [Rows -> Int]]
    BY <1>1, <1>3, <1>8 DEF BizTypeOK
  <2>3. /\ pc' \in [Threads -> Labels]
        /\ outcome' \in [Threads -> Outcomes]
        /\ todo' \in [Threads -> SUBSET Nat]
    BY <1>1, <1>2, NextItemFacts, FailsKept
  <2> QED
    BY <1>2, <1>3, <2>1, <2>2, <2>3 DEF BizTypeOK
<1>6. WorkOK'
  BY <1>1, <1>2, NextItemFacts, FailsKept
<1>7. StockBooks'
  <2>1. latest[r] - n = latest[r] + 0 - n
    BY <1>8
  <2>2. pin' = [pin EXCEPT ![t][r] = @ + 0]
    BY <1>2, <1>3, <1>8 DEF BizTypeOK
  <2>3. Update(t, ProductRow(p), latest[ProductRow(p)] + 0 - n, holder[r] # t)
    BY <1>1, <2>1
  <2>4. 0 \in Int /\ n \in Int
    BY <1>8
  <2>5. pout' = [pout EXCEPT ![t][ProductRow(p)] = @ + n]
    BY <1>1, Zenon
  <2>6. UNCHANGED <<outflow, inflow>>
    BY <1>2
  <2>7. pin' = [pin EXCEPT ![t][ProductRow(p)] = @ + 0]
    BY <2>2, Zenon
  <2>8. Within /\ pc[t] \notin Apart /\ ~Fails(t)
    BY <1>1, <1>2, NextItemFacts, FailsKept DEF Fails
  <2> HIDE DEF p, n
  <2> QED
    BY <1>3, <1>8, <1>9, <2>8, <2>3, <2>4, <2>5, <2>6, <2>7, StockUpdated
<1> QED
  BY <1>4, <1>5, <1>6, <1>7 DEF StockInv, TypeOK, StockBooks

LEMMA SkipProductStep ==
  ASSUME StockInv, NEW t \in Threads, SkipProduct(t), UNCHANGED <<tries, requests>>
  PROVE  StockInv'
<1>1. /\ pc[t] = "deduct" /\ Insert(t) /\ NextItem(t, First(todo[t]), pout[t])
      /\ UNCHANGED <<planVars, kind, who, batch, due, seen, sourced, saved, pout, pin,
                     outflow, inflow>>
  BY DEF SkipProduct, requestVars, workVars, pendingVars, bookVars
<1>3. BizTypeOK /\ WorkOK /\ StockBooks
  BY DEF StockInv, TypeOK, StockBooks
<1>4. DatabaseTypeOK' /\ PlanTypeOK'
  BY <1>1, InsertTypes DEF StockInv, TypeOK, PlanTypeOK, planVars
<1>5. BizTypeOK'
  BY <1>1, <1>3, NextItemFacts, FailsKept DEF BizTypeOK
<1>6. WorkOK'
  BY <1>1, NextItemFacts, FailsKept
<1>8. Within
  BY <1>1, NextItemFacts, FailsKept
<1>7. StockBooks'
  BY <1>1, <1>3, <1>8, StockUntouched DEF Insert
<1> QED
  BY <1>4, <1>5, <1>6, <1>7 DEF StockInv, TypeOK, StockBooks

LEMMA ReadCashStep ==
  ASSUME StockInv, NEW t \in Threads, ReadCash(t), UNCHANGED <<tries, requests>>
  PROVE  StockInv'
<1> DEFINE r == CashRow(Account(t))
<1>1. /\ pc[t] = "cash" /\ Read(t, {r}) /\ Goto(t, "credit")
      /\ seen' = [seen EXCEPT ![t] = Visible(t, r)]
      /\ UNCHANGED <<planVars, kind, who, todo, batch, due, sourced, saved, pout, pin,
                     outflow, inflow>>
  BY DEF ReadCash, requestVars, pendingVars, bookVars
<1>3. BizTypeOK /\ WorkOK /\ StockBooks
  BY DEF StockInv, TypeOK, StockBooks
<1>8. r \in Rows /\ Visible(t, r) \in Int
  BY <1>1, AccountFacts, RowFacts, VisibleType DEF StockInv, TypeOK
<1>4. DatabaseTypeOK' /\ PlanTypeOK'
  BY <1>1, <1>8, ReadTypes DEF StockInv, TypeOK, PlanTypeOK, planVars
<1>9. /\ pc' \in [Threads -> Labels] /\ outcome' = outcome /\ pc'[t] = "credit"
      /\ \A u \in Threads \ {t} : pc'[u] = pc[u]
  BY <1>1, <1>3, GotoFacts DEF Labels, BizLabels
<1>5. BizTypeOK'
  <2>1. seen' \in [Threads -> Int]
    BY <1>1, <1>3, <1>8 DEF BizTypeOK
  <2> QED
    BY <1>1, <1>3, <1>9, <2>1 DEF BizTypeOK
<1>6. WorkOK'
  <2>1. ThreadOK(t)'
    BY <1>1, <1>3, <1>9 DEF WorkOK, ThreadOK
  <2> QED
    BY <1>1, <1>3, <1>9, <2>1, OtherThreads
<1>10. Within
  BY <1>1, <1>9, WithinFacts, FailsKept DEF Apart, ResetLabels
<1>7. StockBooks'
  BY <1>1, <1>3, <1>10, StockUntouched DEF Read
<1> QED
  BY <1>4, <1>5, <1>6, <1>7 DEF StockInv, TypeOK, StockBooks

(* What Hibernate keeps for later are integers for account rows. *)
LEMMA SaveFacts ==
  ASSUME BizTypeOK, NEW t \in Threads, NEW a \in Users,
         NEW cash \in Int, NEW credit \in Int, NEW oldCredit,
         Save(t, a, cash, credit, oldCredit)
  PROVE  /\ DOMAIN saved' = Threads
         /\ \A u \in Threads : /\ DOMAIN saved'[u] \subseteq AccountRows
                               /\ saved'[u] \in [DOMAIN saved'[u] -> Int]
<1> DEFINE D == (IF cash # seen[t] THEN {CashRow(a)} ELSE {}) \cup
                (IF credit # oldCredit THEN {CreditRow(a)} ELSE {})
           f == [r \in D |-> IF r = CashRow(a) THEN cash ELSE credit]
<1>1. DOMAIN f = D /\ D \subseteq AccountRows /\ f \in [D -> Int]
  BY RowFacts
<1>2. saved' = [saved EXCEPT ![t] = f]
  BY DEF Save
<1> HIDE DEF f, D
<1> QED
  BY <1>1, <1>2 DEF BizTypeOK

LEMMA PayBillStep ==
  ASSUME StockInv, NEW t \in Threads, PayBill(t), UNCHANGED <<tries, requests>>
  PROVE  StockInv'
<1> DEFINE a      == Account(t)
           credit == Visible(t, CreditRow(a))
           result == Consume(seen[t], credit, due[t])
<1>1. /\ pc[t] = "credit" /\ Read(t, {CreditRow(a)})
      /\ UNCHANGED <<planVars, kind, who, todo, batch, due, seen, sourced, pin, outflow, inflow>>
  BY DEF PayBill, requestVars, workVars, bookVars
<1>2. \/ Leave(t, "biz") /\ UNCHANGED <<pout, saved>>
      \/ /\ pout' = [pout EXCEPT ![t][UserRow(a)] =
                            @ + result.cashConsume + result.creditConsume]
         /\ Save(t, a, result.cash, result.credit, credit)
         /\ Leave(t, "ok") \/ (kind[t] # "package" /\ Goto(t, "status"))
  <2>1. CASE kind[t] = "package" /\ result.debt > 0
    BY <2>1 DEF PayBill
  <2>2. CASE ~(kind[t] = "package" /\ result.debt > 0)
    BY <2>2 DEF PayBill
  <2> QED
    BY <2>1, <2>2
<1>3. BizTypeOK /\ WorkOK /\ StockBooks /\ DatabaseTypeOK
  BY DEF StockInv, TypeOK, StockBooks
<1>8. a \in Users /\ CreditRow(a) \in Rows
  BY <1>1, AccountFacts, RowFacts
<1>9. /\ result.cash \in Int /\ result.credit \in Int
      /\ result.cashConsume \in Int /\ result.creditConsume \in Int
  <2>1. credit \in Int /\ seen[t] \in Int /\ due[t] \in Int
    BY <1>3, <1>8, VisibleType DEF BizTypeOK
  <2> QED
    BY <2>1, ConsumeConserves
<1> HIDE DEF a, credit, result
<1>4. DatabaseTypeOK' /\ PlanTypeOK'
  BY <1>1, <1>3, <1>8, ReadTypes DEF StockInv, TypeOK, PlanTypeOK, planVars
<1>10. /\ pout' \in [Threads -> [Rows -> Int]]
       /\ \A u \in Threads, p \in Products :
            pout'[u][ProductRow(p)] = pout[u][ProductRow(p)]
  <2>1. pout \in [Threads -> [Rows -> Int]]
    BY <1>3 DEF BizTypeOK
  <2> DEFINE x == result.cashConsume
             y == result.creditConsume
             new == [pout EXCEPT ![t][UserRow(a)] = @ + x + y]
  <2>2. /\ new \in [Threads -> [Rows -> Int]]
        /\ \A u \in Threads, p \in Products :
             new[u][ProductRow(p)] = pout[u][ProductRow(p)]
    <3>1. x \in Int /\ y \in Int
      BY <1>9
    <3>2. /\ UserRow(a) \in Rows
          /\ \A p \in Products : ProductRow(p) # UserRow(a) /\ ProductRow(p) \in Rows
      BY <1>8, RowFacts
    <3> HIDE DEF x, y
    <3> QED
      BY <2>1, <3>1, <3>2
  <2> QED
    <3>1. CASE UNCHANGED pout
      BY <2>1, <3>1
    <3>2. CASE pout' = new
      <4> HIDE DEF new
      <4> QED
        BY <3>2, <2>2
    <3> QED
      BY <1>2, <3>1, <3>2
<1>11. /\ DOMAIN saved' = Threads
       /\ \A u \in Threads : /\ DOMAIN saved'[u] \subseteq AccountRows
                             /\ saved'[u] \in [DOMAIN saved'[u] -> Int]
  <2>1. CASE UNCHANGED saved
    BY <2>1, <1>3 DEF BizTypeOK
  <2>2. CASE Save(t, a, result.cash, result.credit, credit)
    BY <2>2, <1>3, <1>8, <1>9, SaveFacts
  <2> QED
    BY <1>2, <2>1, <2>2
<1>12. /\ pc' \in [Threads -> Labels] /\ \A u \in Threads \ {t} : pc'[u] = pc[u]
       /\ outcome' \in [Threads -> Outcomes]
       /\ \/ pc'[t] \in {"unlock", "commit", "rollback"}
          \/ pc'[t] = "status" /\ kind[t] # "package"
  <2>1. CASE Leave(t, "biz") \/ Leave(t, "ok")
    BY <2>1, <1>3, LeaveFacts DEF Outcomes
  <2>2. CASE kind[t] # "package" /\ Goto(t, "status")
    <3>1. "status" \in Labels
      BY DEF Labels, BizLabels
    <3> QED
      BY <2>2, <3>1, <1>3, GotoFacts DEF BizTypeOK
  <2> QED
    BY <1>2, <2>1, <2>2
<1>5. BizTypeOK'
  BY <1>1, <1>3, <1>10, <1>11, <1>12 DEF BizTypeOK
<1>6. WorkOK'
  <2>1. CASE pc'[t] \in {"unlock", "commit", "rollback"}
    BY <2>1, <1>1, <1>3, <1>12, LeftOK, OtherThreads
  <2>2. CASE pc'[t] = "status" /\ kind[t] # "package"
    <3>1. ThreadOK(t)'
      BY <2>2, <1>1, <1>3 DEF WorkOK, ThreadOK
    <3> QED
      BY <3>1, <1>1, <1>3, <1>12, OtherThreads
  <2> QED
    BY <1>12, <2>1, <2>2
<1>13. Within
  BY <1>1, <1>12, WithinFacts, FailsKept DEF Apart, ResetLabels
<1>7. StockBooks'
  BY <1>1, <1>3, <1>10, <1>13, StockUntouched DEF Read
<1> QED
  BY <1>4, <1>5, <1>6, <1>7 DEF StockInv, TypeOK, StockBooks

LEMMA RechargeStep ==
  ASSUME StockInv, NEW t \in Threads, Recharge(t), UNCHANGED <<tries, requests>>
  PROVE  StockInv'
<1> DEFINE a      == Account(t)
           credit == Visible(t, CreditRow(a))
           result == CalculationRecharge(due[t], seen[t], credit, CreditInit)
<1>1. /\ pc[t] = "credit" /\ kind[t] = "recharge" /\ Read(t, {CreditRow(a)})
      /\ pin' = [pin EXCEPT ![t][UserRow(a)] =
                       @ + result.cashConsume + result.creditConsume]
      /\ Save(t, a, result.cash, result.credit, credit)
      /\ Goto(t, "status")
      /\ UNCHANGED <<planVars, kind, who, todo, batch, due, seen, sourced, pout, outflow, inflow>>
  BY DEF Recharge, requestVars, workVars, bookVars
<1>3. BizTypeOK /\ WorkOK /\ StockBooks /\ DatabaseTypeOK
  BY DEF StockInv, TypeOK, StockBooks
<1>8. a \in Users /\ CreditRow(a) \in Rows
  BY <1>1, AccountFacts, RowFacts
<1>9. /\ result.cash \in Int /\ result.credit \in Int
      /\ result.cashConsume \in Int /\ result.creditConsume \in Int
  <2>1. credit \in Int /\ seen[t] \in Int /\ due[t] \in Int /\ CreditInit \in Int
    BY <1>3, <1>8, VisibleType, TablesAssumption DEF BizTypeOK
  <2> QED
    BY <2>1, RechargeConserves
<1> HIDE DEF a, credit, result
<1>4. DatabaseTypeOK' /\ PlanTypeOK'
  BY <1>1, <1>3, <1>8, ReadTypes DEF StockInv, TypeOK, PlanTypeOK, planVars
<1>10. /\ pin' \in [Threads -> [Rows -> Int]]
       /\ \A u \in Threads, p \in Products :
            pin'[u][ProductRow(p)] = pin[u][ProductRow(p)]
  <2>1. pin \in [Threads -> [Rows -> Int]]
    BY <1>3 DEF BizTypeOK
  <2> DEFINE x == result.cashConsume
             y == result.creditConsume
             new == [pin EXCEPT ![t][UserRow(a)] = @ + x + y]
  <2>2. /\ new \in [Threads -> [Rows -> Int]]
        /\ \A u \in Threads, p \in Products :
             new[u][ProductRow(p)] = pin[u][ProductRow(p)]
    <3>1. x \in Int /\ y \in Int
      BY <1>9
    <3>2. /\ UserRow(a) \in Rows
          /\ \A p \in Products : ProductRow(p) # UserRow(a) /\ ProductRow(p) \in Rows
      BY <1>8, RowFacts
    <3> HIDE DEF x, y
    <3> QED
      BY <2>1, <3>1, <3>2
  <2> QED
    BY <1>1, <2>2
<1>11. /\ DOMAIN saved' = Threads
       /\ \A u \in Threads : /\ DOMAIN saved'[u] \subseteq AccountRows
                             /\ saved'[u] \in [DOMAIN saved'[u] -> Int]
  BY <1>1, <1>3, <1>8, <1>9, SaveFacts
<1>12. /\ pc' \in [Threads -> Labels] /\ outcome' = outcome
       /\ pc'[t] = "status" /\ \A u \in Threads \ {t} : pc'[u] = pc[u]
  BY <1>1, <1>3, GotoFacts DEF Labels, BizLabels
<1>5. BizTypeOK'
  BY <1>1, <1>3, <1>10, <1>11, <1>12 DEF BizTypeOK
<1>6. WorkOK'
  <2>1. ThreadOK(t)'
    BY <1>1, <1>3, <1>12 DEF WorkOK, ThreadOK
  <2> QED
    BY <1>1, <1>3, <1>12, <2>1, OtherThreads
<1>13. Within
  BY <1>1, <1>12, WithinFacts, FailsKept DEF Apart, ResetLabels
<1>7. StockBooks'
  BY <1>1, <1>3, <1>10, <1>13, StockUntouched DEF Read
<1> QED
  BY <1>4, <1>5, <1>6, <1>7 DEF StockInv, TypeOK, StockBooks

LEMMA NextWriteFacts ==
  ASSUME BizTypeOK, NEW t \in Threads, saved[t] # NothingSaved
  PROVE  NextWrite(t) \in DOMAIN saved[t]
<1>1. DOMAIN saved[t] # {}
  BY DEF BizTypeOK, NothingSaved
<1>2. \E r \in DOMAIN saved[t] :
        r[1] = "account_cash" \/ \A s \in DOMAIN saved[t] : s[1] # "account_cash"
  BY <1>1
<1> QED
  BY <1>2 DEF NextWrite

LEMMA FlushStep ==
  ASSUME StockInv, NEW t \in Threads, Flush(t), UNCHANGED <<tries, requests>>
  PROVE  StockInv'
<1> DEFINE row == NextWrite(t)
           D   == DOMAIN saved[t] \ {row}
<1>1. /\ saved[t] # NothingSaved /\ Update(t, row, saved[t][row], FALSE)
      /\ saved' = [saved EXCEPT ![t] = Restrict(@, DOMAIN @ \ {row})]
      /\ UNCHANGED <<planVars, pc, kind, who, todo, batch, due, seen, sourced, outcome,
                     pout, pin, outflow, inflow>>
  BY DEF Flush, requestVars, workVars, bookVars
<1>3. BizTypeOK /\ WorkOK /\ StockBooks /\ DatabaseTypeOK
  BY DEF StockInv, TypeOK, StockBooks
<1>8. row \in DOMAIN saved[t] /\ row \in AccountRows /\ saved[t][row] \in Int
  BY <1>1, <1>3, NextWriteFacts DEF BizTypeOK
<1>9. row \in Rows /\ \A p \in Products : ProductRow(p) # row /\ ProductRow(p) \in Rows
  BY <1>8, RowFacts
<1> HIDE DEF row
<1>4. DatabaseTypeOK' /\ PlanTypeOK'
  <2>1. DatabaseTypeOK'
    BY <1>1, <1>3, <1>8, <1>9, UpdateTypes
  <2> QED
    BY <1>1, <2>1 DEF StockInv, TypeOK, PlanTypeOK, planVars
<1>5. BizTypeOK'
  <2>1. /\ DOMAIN saved' = Threads /\ saved'[t] = [r \in D |-> saved[t][r]]
        /\ \A u \in Threads \ {t} : saved'[u] = saved[u]
    BY <1>1, <1>3 DEF BizTypeOK, Restrict
  <2>2. \A u \in Threads : /\ DOMAIN saved'[u] \subseteq AccountRows
                           /\ saved'[u] \in [DOMAIN saved'[u] -> Int]
    <3>1. \A u \in Threads : /\ DOMAIN saved[u] \subseteq AccountRows
                             /\ saved[u] \in [DOMAIN saved[u] -> Int]
      BY <1>3 DEF BizTypeOK
    <3>2. DOMAIN saved'[t] = D /\ D \subseteq AccountRows /\ saved'[t] \in [D -> Int]
      BY <2>1, <3>1
    <3> QED
      BY <2>1, <3>1, <3>2
  <2> QED
    BY <1>1, <1>3, <2>1, <2>2 DEF BizTypeOK
<1>6. WorkOK'
  BY <1>1, <1>3 DEF WorkOK, ThreadOK
<1>7. StockBooks'
  <2>1. \A p \in Products : /\ committed'[ProductRow(p)] = committed[ProductRow(p)]
                            /\ latest'[ProductRow(p)] = latest[ProductRow(p)]
                            /\ holder'[ProductRow(p)] = holder[ProductRow(p)]
    BY <1>1, <1>3, <1>9 DEF Update, DatabaseTypeOK
  <2>2. Within
    BY <1>1 DEF Within, Fails
  <2> QED
    BY <1>1, <1>3, <2>1, <2>2, StockUntouched
<1> QED
  BY <1>4, <1>5, <1>6, <1>7 DEF StockInv, TypeOK, StockBooks

LEMMA UpdateStatusCodeStep ==
  ASSUME StockInv, NEW t \in Threads, UpdateStatusCode(t), UNCHANGED <<tries, requests>>
  PROVE  StockInv'
<1> DEFINE a == Account(t)
<1>1. /\ pc[t] = "status" /\ todo' = [todo EXCEPT ![t] = @ \ {a}]
      /\ IF todo[t] = {a} THEN Leave(t, "ok") ELSE Goto(t, "source")
      /\ UNCHANGED <<dbVars, planVars, kind, who, batch, due, seen, sourced, saved,
                     pout, pin, outflow, inflow>>
  BY DEF UpdateStatusCode, requestVars, workVars, pendingVars, bookVars
<1>3. BizTypeOK /\ WorkOK /\ StockBooks
  BY DEF StockInv, TypeOK, StockBooks
<1>4. DatabaseTypeOK' /\ PlanTypeOK'
  BY <1>1 DEF StockInv, TypeOK, DatabaseTypeOK, PlanTypeOK, dbVars, planVars
<1>8. a \in Users /\ (kind[t] = "recharge" => a \in todo[t])
  BY <1>1, AccountFacts
<1> HIDE DEF a
<1>9. /\ todo' \in [Threads -> SUBSET Nat] /\ todo'[t] = todo[t] \ {a}
      /\ \A u \in Threads \ {t} : todo'[u] = todo[u]
  BY <1>1, <1>3 DEF BizTypeOK
<1>10. /\ pc' \in [Threads -> Labels] /\ \A u \in Threads \ {t} : pc'[u] = pc[u]
       /\ outcome' \in [Threads -> Outcomes]
       /\ IF todo[t] = {a} THEN pc'[t] \in {"unlock", "commit", "rollback"}
          ELSE pc'[t] = "source"
  <2>1. "source" \in Labels
    BY DEF Labels, BizLabels
  <2> QED
    BY <1>1, <1>3, <2>1, LeaveFacts, GotoFacts DEF BizTypeOK, Outcomes
<1>5. BizTypeOK'
  BY <1>1, <1>3, <1>9, <1>10 DEF BizTypeOK
<1>6. WorkOK'
  <2>1. CASE todo[t] = {a}
    BY <2>1, <1>1, <1>3, <1>9, <1>10, LeftOK, OtherThreads
  <2>2. CASE todo[t] # {a}
    <3>1. ThreadOK(t)'
      BY <2>2, <1>1, <1>3, <1>8, <1>9, <1>10 DEF WorkOK, ThreadOK
    <3> QED
      BY <3>1, <1>1, <1>3, <1>9, <1>10, OtherThreads
  <2> QED
    BY <2>1, <2>2
<1>11. Within
  BY <1>1, <1>9, <1>10, WithinFacts, FailsKept DEF Apart, ResetLabels
<1>7. StockBooks'
  BY <1>1, <1>3, <1>11, StockUntouched DEF dbVars
<1> QED
  BY <1>4, <1>5, <1>6, <1>7 DEF StockInv, TypeOK, StockBooks

LEMMA ReadStockStep ==
  ASSUME StockInv, NEW t \in Threads, ReadStock(t), UNCHANGED <<tries, requests>>
  PROVE  StockInv'
<1> DEFINE r == ProductRow(First(todo[t]))
<1>1. /\ pc[t] = "reload" /\ Goto(t, "restock")
      /\ \/ seen' = [seen EXCEPT ![t] = latest[r]] /\ UNCHANGED dbVars
         \/ seen' = [seen EXCEPT ![t] = Visible(t, r)] /\ Read(t, {r})
      /\ UNCHANGED <<planVars, kind, who, todo, batch, due, sourced, saved, pout, pin,
                     outflow, inflow>>
  BY DEF ReadStock, requestVars, pendingVars, bookVars
<1>3. BizTypeOK /\ WorkOK /\ StockBooks /\ DatabaseTypeOK
  BY DEF StockInv, TypeOK, StockBooks
<1>8. r \in Rows
  BY <1>1, ProductFacts, RowFacts
<1>9. Visible(t, r) \in Int /\ latest[r] \in Int
  BY <1>3, <1>8, VisibleType DEF DatabaseTypeOK
<1> HIDE DEF r
<1>4. DatabaseTypeOK' /\ PlanTypeOK'
  <2>1. CASE UNCHANGED dbVars
    BY <2>1, <1>1, <1>3 DEF StockInv, TypeOK, DatabaseTypeOK, dbVars, PlanTypeOK, planVars
  <2>2. CASE Read(t, {r})
    BY <2>2, <1>1, <1>3, <1>8, ReadTypes DEF StockInv, TypeOK, PlanTypeOK, planVars
  <2> QED
    BY <1>1, <2>1, <2>2
<1>10. /\ pc' \in [Threads -> Labels] /\ outcome' = outcome
       /\ pc'[t] = "restock" /\ \A u \in Threads \ {t} : pc'[u] = pc[u]
  BY <1>1, <1>3, GotoFacts DEF Labels, BizLabels
<1>5. BizTypeOK'
  <2>1. seen' \in [Threads -> Int]
    BY <1>1, <1>3, <1>9 DEF BizTypeOK
  <2> QED
    BY <1>1, <1>3, <1>10, <2>1 DEF BizTypeOK
<1>6. WorkOK'
  <2>1. ThreadOK(t)'
    BY <1>1, <1>3, <1>10 DEF WorkOK, ThreadOK
  <2> QED
    BY <1>1, <1>3, <1>10, <2>1, OtherThreads
<1>7. StockBooks'
  <2>1. UNCHANGED <<committed, latest, holder>>
    BY <1>1 DEF dbVars, Read
  <2>2. Within
    BY <1>1, <1>10, WithinFacts, FailsKept DEF Apart, ResetLabels
  <2> QED
    BY <1>1, <1>3, <2>1, <2>2, StockUntouched
<1> QED
  BY <1>4, <1>5, <1>6, <1>7 DEF StockInv, TypeOK, StockBooks

LEMMA RestockStep ==
  ASSUME StockInv, NEW t \in Threads, Restock(t), UNCHANGED <<tries, requests>>
  PROVE  StockInv'
<1> DEFINE p      == First(todo[t])
           r      == ProductRow(p)
           reload == ProductStockMax - seen[t]
<1>1. /\ pc[t] = "restock" /\ Update(t, r, latest[r] + reload, FALSE)
      /\ pin'  = [pin EXCEPT ![t][r] = @ + reload]
      /\ todo' = [todo EXCEPT ![t] = @ \ {p}]
      /\ IF todo[t] = {p} THEN Leave(t, "ok") ELSE Goto(t, "reload")
      /\ UNCHANGED <<planVars, kind, who, batch, due, seen, sourced, saved, pout, outflow, inflow>>
  BY DEF Restock, requestVars, workVars, bookVars
<1>3. BizTypeOK /\ WorkOK /\ StockBooks /\ DatabaseTypeOK
  BY DEF StockInv, TypeOK, StockBooks
<1>8. /\ p \in Products /\ p \in todo[t] /\ todo[t] \subseteq Products /\ r \in Rows
      /\ latest[r] \in Int
  BY <1>1, <1>3, ProductFacts, RowFacts DEF DatabaseTypeOK
<1>9. reload \in Int
  BY <1>3, TablesAssumption DEF BizTypeOK
<1> HIDE DEF p, reload
<1>4. DatabaseTypeOK' /\ PlanTypeOK'
  <2>1. latest[r] + reload \in Int
    BY <1>8, <1>9
  <2>2. DatabaseTypeOK'
    BY <1>1, <1>3, <1>8, <2>1, UpdateTypes
  <2> QED
    BY <1>1, <2>2 DEF StockInv, TypeOK, PlanTypeOK, planVars
<1>11. /\ todo' \in [Threads -> SUBSET Nat] /\ todo'[t] = todo[t] \ {p}
       /\ \A u \in Threads \ {t} : todo'[u] = todo[u]
  BY <1>1, <1>3 DEF BizTypeOK
<1>10. /\ pc' \in [Threads -> Labels] /\ \A u \in Threads \ {t} : pc'[u] = pc[u]
       /\ outcome' \in [Threads -> Outcomes]
       /\ IF todo[t] = {p} THEN pc'[t] \in {"unlock", "commit", "rollback"}
          ELSE pc'[t] = "reload"
  <2>1. "reload" \in Labels
    BY DEF Labels, BizLabels
  <2> QED
    BY <1>1, <1>3, <2>1, LeaveFacts, GotoFacts DEF BizTypeOK, Outcomes
<1>5. BizTypeOK'
  <2>1. pin' \in [Threads -> [Rows -> Int]]
    BY <1>1, <1>3, <1>8, <1>9 DEF BizTypeOK
  <2> QED
    BY <1>1, <1>3, <1>10, <1>11, <2>1 DEF BizTypeOK
<1>6. WorkOK'
  <2>1. CASE todo[t] = {p}
    BY <2>1, <1>1, <1>3, <1>10, <1>11, LeftOK, OtherThreads
  <2>2. CASE todo[t] # {p}
    <3>1. ThreadOK(t)'
      BY <2>2, <1>1, <1>3, <1>8, <1>10, <1>11 DEF WorkOK, ThreadOK
    <3> QED
      BY <3>1, <1>1, <1>3, <1>10, <1>11, OtherThreads
  <2> QED
    BY <2>1, <2>2
<1>7. StockBooks'
  <2>1. latest[r] + reload = latest[r] + reload - 0 /\ 0 \in Int
    BY <1>8, <1>9
  <2>2. Update(t, ProductRow(p), latest[ProductRow(p)] + reload - 0, FALSE)
    BY <1>1, <2>1
  <2>3. pout' = [pout EXCEPT ![t][r] = @ + 0]
    BY <1>1, <1>3, <1>8 DEF BizTypeOK
  <2>4. pout' = [pout EXCEPT ![t][ProductRow(p)] = @ + 0]
    BY <2>3, Zenon
  <2>5. pin' = [pin EXCEPT ![t][ProductRow(p)] = @ + reload]
    BY <1>1, Zenon
  <2>6. UNCHANGED <<outflow, inflow>>
    BY <1>1
  <2>7. Within /\ pc[t] \notin Apart /\ ~Fails(t)
    BY <1>1, <1>10, <1>11, WithinFacts, FailsKept DEF Apart, ResetLabels, Fails
  <2> QED
    BY <1>3, <2>7, <1>8, <1>9, <2>1, <2>2, <2>4, <2>5, <2>6, StockUpdated
<1> QED
  BY <1>4, <1>5, <1>6, <1>7 DEF StockInv, TypeOK, StockBooks

(* Snowflake.nextId throws.  Where doReload has already changed a stock    *)
(* there is no log of it, but then the operation is going to be rolled     *)
(* back.                                                                   *)
LEMMA NextIdThrowsStep ==
  ASSUME StockInv, NEW t \in Threads, NextIdThrows(t), UNCHANGED <<tries, requests>>
  PROVE  StockInv'
<1> DEFINE r == ProductRow(First(todo[t]))
           value == latest[r] + (ProductStockMax - seen[t])
<1>1. /\ pc[t] \in {"source", "deduct", "credit", "restock"} /\ Leave(t, "clock")
      /\ \/ UNCHANGED dbVars
         \/ pc[t] = "credit" /\ Read(t, {CreditRow(Account(t))})
         \/ pc[t] = "restock" /\ Update(t, r, value, FALSE)
      /\ UNCHANGED <<planVars, kind, who, todo, batch, due, seen, sourced, saved,
                     pout, pin, outflow, inflow>>
  BY DEF NextIdThrows, requestVars, workVars, pendingVars, bookVars
<1>2. pc[t] \notin Apart /\ "clock" \in Outcomes \ {"ok"}
  BY <1>1 DEF Apart, ResetLabels, Outcomes
<1>3. BizTypeOK /\ WorkOK /\ StockBooks /\ DatabaseTypeOK
  BY DEF StockInv, TypeOK, StockBooks
<1>4. PlanTypeOK'
  BY <1>1, KeysAsTheyWere
<1>5. BizTypeOK'
  BY <1>1, <1>2, <1>3, LeaveFacts DEF BizTypeOK
<1>6. WorkOK'
  BY <1>1, <1>2, <1>3, LeaveFacts, LeftOK, OtherThreads
<1>7. Fails(t)' /\ Within
  <2>1. Fails(t)' /\ \A u \in Threads : Fails(u) => Fails(u)'
    BY <1>1, <1>2, <1>3, LeaveFails
  <2> QED
    BY <1>1, <1>2, <1>3, <2>1, LeaveWithin
<1>8. CASE UNCHANGED dbVars
  BY <1>1, <1>2, <1>4, <1>8, LeaveStep
<1>9. CASE pc[t] = "credit" /\ Read(t, {CreditRow(Account(t))})
  <2>1. CreditRow(Account(t)) \in Rows
    BY <1>9, AccountFacts, RowFacts
  <2>2. DatabaseTypeOK'
    BY <1>3, <1>9, <2>1, ReadTypes
  <2>3. StockBooks'
    BY <1>1, <1>3, <1>7, <1>9, StockUntouched DEF Read
  <2> QED
    BY <1>1, <1>4, <1>5, <1>6, <2>2, <2>3 DEF StockInv, TypeOK, StockBooks
<1>10. CASE pc[t] = "restock" /\ Update(t, r, value, FALSE)
  <2>1. r \in Rows /\ value \in Int
    <3>1. r \in Rows
      BY <1>10, ProductFacts, RowFacts
    <3> QED
      BY <1>3, <3>1, TablesAssumption DEF BizTypeOK, DatabaseTypeOK
  <2> HIDE DEF r, value
  <2>2. DatabaseTypeOK'
    BY <1>3, <1>10, <2>1, UpdateTypes
  <2>3. StockBooks'
    BY <1>1, <1>2, <1>3, <1>7, <1>10, <2>1, StockDoomed
  <2> QED
    BY <1>1, <1>4, <1>5, <1>6, <2>2, <2>3 DEF StockInv, TypeOK, StockBooks
<1> QED
  BY <1>1, <1>8, <1>9, <1>10

LEMMA UnlockStep ==
  ASSUME StockInv, NEW t \in Threads, Unlock(t), UNCHANGED <<tries, requests>>
  PROVE  StockInv'
<1>1. PICK k \in keys[t] :
        /\ ReleaseKey(t, k)
        /\ IF keys[t] = {k} THEN Goto(t, Ending(outcome[t])) ELSE UNCHANGED <<pc, outcome>>
  BY DEF Unlock
<1>2. /\ pc[t] = "unlock"
      /\ UNCHANGED <<dbVars, kind, who, todo, batch, due, seen, sourced, saved, pout, pin,
                     outflow, inflow>>
  BY DEF Unlock, requestVars, workVars, pendingVars, bookVars
<1>3. BizTypeOK /\ WorkOK /\ StockBooks /\ DatabaseTypeOK /\ PlanTypeOK
  BY DEF StockInv, TypeOK, StockBooks
<1>4. DatabaseTypeOK' /\ PlanTypeOK'
  <2>1. DatabaseTypeOK'
    BY <1>2, <1>3 DEF DatabaseTypeOK, dbVars
  <2>2. PlanTypeOK'
    BY <1>1, <1>3 DEF PlanTypeOK, ReleaseKey
  <2> QED
    BY <2>1, <2>2
<1>8. /\ pc' \in [Threads -> Labels] /\ outcome' = outcome
      /\ pc'[t] \in {"unlock", "commit", "rollback"}
      /\ \A u \in Threads \ {t} : pc'[u] = pc[u]
  <2>1. Ending(outcome[t]) \in {"commit", "rollback"} /\ {"commit", "rollback"} \subseteq Labels
    BY DEF Ending, Labels, BizLabels
  <2> HIDE DEF Ending
  <2> QED
    BY <1>1, <1>2, <1>3, <2>1, GotoFacts DEF BizTypeOK
<1>5. BizTypeOK'
  BY <1>2, <1>3, <1>8 DEF BizTypeOK
<1>6. WorkOK'
  BY <1>2, <1>3, <1>8, LeftOK, OtherThreads
<1>9. Within
  BY <1>2, <1>8, WithinFacts, FailsKept DEF Apart, ResetLabels
<1>7. StockBooks'
  BY <1>2, <1>3, <1>9, StockUntouched DEF dbVars
<1> QED
  BY <1>4, <1>5, <1>6, <1>7 DEF StockInv, TypeOK, StockBooks

LEMMA UnlockThrowsStep ==
  ASSUME StockInv, NEW t \in Threads, UnlockThrows(t), UNCHANGED <<tries, requests>>
  PROVE  StockInv'
<1>1. PICK k \in keys[t] : ReleaseThrows(t, k)
  BY DEF UnlockThrows
<1>2. /\ pc[t] = "unlock" /\ outcome' = [outcome EXCEPT ![t] = "redis"]
      /\ pc' = [pc EXCEPT ![t] = IF keys'[t] = {} THEN "rollback" ELSE "unlock"]
      /\ UNCHANGED <<dbVars, kind, who, todo, batch, due, seen, sourced, saved,
                     pout, pin, outflow, inflow>>
  BY DEF UnlockThrows, requestVars, workVars, pendingVars, bookVars
<1>3. BizTypeOK /\ WorkOK /\ StockBooks /\ DatabaseTypeOK /\ PlanTypeOK
  BY DEF StockInv, TypeOK, StockBooks
<1>4. DatabaseTypeOK' /\ PlanTypeOK'
  <2>1. DatabaseTypeOK'
    BY <1>2, <1>3 DEF DatabaseTypeOK, dbVars
  <2>2. PlanTypeOK'
    BY <1>1, <1>3 DEF PlanTypeOK, ReleaseThrows
  <2> QED
    BY <2>1, <2>2
<1>8. /\ pc' \in [Threads -> Labels] /\ outcome' \in [Threads -> Outcomes]
      /\ pc'[t] \in {"unlock", "rollback"} /\ outcome'[t] = "redis"
      /\ \A u \in Threads \ {t} : pc'[u] = pc[u] /\ outcome'[u] = outcome[u]
  BY <1>2, <1>3 DEF BizTypeOK, Labels, BizLabels, Outcomes
<1>5. BizTypeOK'
  BY <1>2, <1>3, <1>8 DEF BizTypeOK
<1>6. WorkOK'
  BY <1>2, <1>3, <1>8, LeftOK, OtherThreads
<1>9. Within
  <2>1. \A u \in Threads : Fails(u) => Fails(u)'
    BY <1>8 DEF Fails
  <2> QED
    BY <1>2, <1>8, <2>1, WithinFacts DEF Apart, ResetLabels
<1>7. StockBooks'
  BY <1>2, <1>3, <1>9, StockUntouched DEF dbVars
<1> QED
  BY <1>4, <1>5, <1>6, <1>7 DEF StockInv, TypeOK, StockBooks

-----------------------------------------------------------------------------
(* The steps of a reset. *)

LEMMA ResetTableFacts ==
  ASSUME WorkOK, NEW t \in Threads, pc[t] \in UpdateLabels, NEW id \in todo[t]
  PROVE  LET r == ResetTable(pc[t], id)
         IN /\ r \in Rows /\ InitialRow(r) \in Int
            /\ pc[t] = "resetProduct" =>
                 id \in Products /\ r = ProductRow(id) /\ InitialRow(r) = ProductStockMax
            /\ pc[t] # "resetProduct" => \A p \in Products : ProductRow(p) # r
<1>1. /\ pc[t] \in {"resetCash", "resetCredit"} => id \in Users
      /\ pc[t] = "resetProduct" => id \in Products
  BY DEF WorkOK, ThreadOK
<1>2. CashInit \in Int /\ CreditInit \in Int /\ ProductStockMax \in Int
  BY TablesAssumption
<1>3. CASE pc[t] = "resetCash"
  <2>1. ResetTable(pc[t], id) = CashRow(id)
    BY <1>3 DEF ResetTable
  <2>2. InitialRow(CashRow(id)) \in Int
    BY <1>2 DEF InitialRow
  <2> QED
    BY <1>1, <1>3, <2>1, <2>2, RowFacts
<1>4. CASE pc[t] = "resetCredit"
  <2>1. ResetTable(pc[t], id) = CreditRow(id)
    BY <1>4 DEF ResetTable
  <2>2. InitialRow(CreditRow(id)) \in Int
    BY <1>2 DEF InitialRow
  <2> QED
    BY <1>1, <1>4, <2>1, <2>2, RowFacts
<1>5. CASE pc[t] = "resetProduct"
  <2>1. ResetTable(pc[t], id) = ProductRow(id)
    BY <1>5 DEF ResetTable
  <2>2. InitialRow(ProductRow(id)) = ProductStockMax
    BY DEF InitialRow, ProductRow
  <2> QED
    BY <1>1, <1>2, <1>5, <2>1, <2>2, RowFacts
<1> QED
  BY <1>3, <1>4, <1>5 DEF UpdateLabels

LEMMA ResetRowStep ==
  ASSUME StockInv, NEW t \in Threads, ResetRow(t), UNCHANGED <<tries, requests>>
  PROVE  StockInv'
<1>0. /\ pc[t] \in UpdateLabels
      /\ UNCHANGED <<conf, committed, shared, view, missed, planVars, kind, who, batch, due,
                     seen, sourced, saved, pout, pin, outcome, outflow, inflow>>
  BY DEF ResetRow, requestVars, workVars, pendingVars, bookVars
<1>1. PICK id \in todo[t] :
        LET r == ResetTable(pc[t], id)
        IN /\ UpdateBlockers(t, r) = {}
           /\ latest' = [latest EXCEPT ![r] = InitialRow(r)]
           /\ holder' = [holder EXCEPT ![r] = t]
           /\ IF todo[t] = {id}
              THEN /\ pc'   = [pc EXCEPT ![t] = NextUpdate(@)]
                   /\ todo' = [todo EXCEPT ![t] = NextIdsOf(pc[t])]
              ELSE /\ todo' = [todo EXCEPT ![t] = @ \ {id}]
                   /\ UNCHANGED pc
  BY DEF ResetRow
<1> DEFINE row == ResetTable(pc[t], id)
<1>3. BizTypeOK /\ WorkOK /\ StockBooks /\ DatabaseTypeOK /\ PlanTypeOK
  BY DEF StockInv, TypeOK, StockBooks
<1>8. /\ row \in Rows /\ InitialRow(row) \in Int
      /\ pc[t] = "resetProduct" =>
           id \in Products /\ row = ProductRow(id) /\ InitialRow(row) = ProductStockMax
      /\ pc[t] # "resetProduct" => \A p \in Products : ProductRow(p) # row
  BY <1>0, <1>3, ResetTableFacts
<1>2. /\ UpdateBlockers(t, row) = {}
      /\ latest' = [latest EXCEPT ![row] = InitialRow(row)]
      /\ holder' = [holder EXCEPT ![row] = t]
  BY <1>1
<1> HIDE DEF row
<1>4. DatabaseTypeOK' /\ PlanTypeOK'
  BY <1>0, <1>2, <1>3, <1>8 DEF DatabaseTypeOK, PlanTypeOK, planVars
<1>9. /\ \A u \in Threads \ {t} : pc'[u] = pc[u] /\ todo'[u] = todo[u]
      /\ \/ pc'[t] = pc[t] /\ todo'[t] = todo[t] \ {id}
         \/ pc[t] = "resetCash" /\ pc'[t] = "resetCredit" /\ todo'[t] = Users
         \/ pc[t] = "resetCredit" /\ pc'[t] = "resetProduct" /\ todo'[t] = Products
         \/ /\ pc[t] = "resetProduct" /\ pc'[t] = "clearBills" /\ todo'[t] = {}
            /\ todo[t] = {id}
  BY <1>0, <1>1, <1>3 DEF BizTypeOK, UpdateLabels, NextUpdate, NextIdsOf
<1>10. pc' \in [Threads -> Labels] /\ todo' \in [Threads -> SUBSET Nat]
  <2>1. /\ NextUpdate(pc[t]) \in Labels
        /\ NextIdsOf(pc[t]) \in SUBSET Nat /\ todo[t] \ {id} \in SUBSET Nat
    BY <1>0, <1>3, TablesAssumption
       DEF UpdateLabels, NextUpdate, NextIdsOf, Labels, ResetLabels, BizTypeOK
  <2>2. \/ /\ pc' = [pc EXCEPT ![t] = NextUpdate(pc[t])]
           /\ todo' = [todo EXCEPT ![t] = NextIdsOf(pc[t])]
        \/ pc' = pc /\ todo' = [todo EXCEPT ![t] = todo[t] \ {id}]
    BY <1>1
  <2>3. pc \in [Threads -> Labels] /\ todo \in [Threads -> SUBSET Nat]
    BY <1>3 DEF BizTypeOK
  <2>4. pc' \in [Threads -> Labels]
    BY <2>1, <2>2, <2>3
  <2>5. todo' \in [Threads -> SUBSET Nat]
    BY <2>1, <2>2, <2>3
  <2> QED
    BY <2>4, <2>5
<1>5. BizTypeOK'
  BY <1>0, <1>3, <1>10 DEF BizTypeOK
<1>6. WorkOK'
  <2>1. ThreadOK(t)'
    BY <1>0, <1>3, <1>9 DEF WorkOK, ThreadOK, UpdateLabels
  <2> QED
    BY <1>0, <1>3, <1>9, <2>1, OtherThreads
<1>11. \A p \in Products : ProductRow(p) \in Rows
  BY RowFacts
<1>12. /\ holder[row] \in {t, NoThread} /\ NoThread \notin Threads
       /\ \A r \in Rows : /\ holder'[r] = IF r = row THEN t ELSE holder[r]
                          /\ latest'[r] = IF r = row THEN InitialRow(row) ELSE latest[r]
  BY <1>2, <1>3, <1>8, DatabaseAssumption DEF UpdateBlockers, LockBlockers, DatabaseTypeOK
<1>13. pc'[t] \in UpdateLabels \cup {"clearBills"}
  BY <1>0, <1>9 DEF UpdateLabels
<1>14. StockEntries'
  <2> SUFFICES ASSUME NEW u \in Threads, NEW p \in Products
               PROVE  LET r == ProductRow(p)
                      IN IF holder'[r] = u
                         THEN /\ pc'[u] # "idle"
                              /\ pc'[u] \notin ResetLabels /\ ~Fails(u)' =>
                                   latest'[r] = committed'[r] + pin'[u][r] - pout'[u][r]
                         ELSE pin'[u][r] = 0 /\ pout'[u][r] = 0
    BY DEF StockEntries
  <2>1. CASE u = t
    BY <2>1, <1>0, <1>3, <1>11, <1>12, <1>13
       DEF StockBooks, StockEntries, UpdateLabels, ResetLabels
  <2>2. CASE u # t
    BY <2>2, <1>0, <1>3, <1>9, <1>11, <1>12 DEF StockBooks, StockEntries, Fails
  <2> QED
    BY <2>1, <2>2
<1>15. ResetEntries'
  <2> SUFFICES ASSUME NEW u \in Threads, NEW p \in Products,
                      pc'[u] \in ResetLabels \ {"resetRollback"}
               PROVE  LET r == ProductRow(p)
                      IN /\ holder'[r] = u => latest'[r] = ProductStockMax
                         /\ \/ pc'[u] \notin UpdateLabels
                            \/ pc'[u] = "resetProduct" /\ p \notin todo'[u]
                            => holder'[r] = u
                         /\ pout'[u][r] =
                              IF pc'[u] \in {"clearOrders", "clearRecharges", "clearTrades",
                                            "clearLogs", "resetCommit"}
                              THEN -outflow'[r] ELSE 0
                         /\ pin'[u][r] = IF pc'[u] = "resetCommit" THEN -inflow'[r] ELSE 0
    BY DEF ResetEntries
  <2>1. CASE u = t
    <3>1. pc[t] \in ResetLabels \ {"resetRollback"}
      BY <1>0 DEF UpdateLabels, ResetLabels
    <3>2. /\ holder[ProductRow(p)] = t => latest[ProductRow(p)] = ProductStockMax
          /\ pc[t] = "resetProduct" /\ p \notin todo[t] => holder[ProductRow(p)] = t
          /\ pout[t][ProductRow(p)] = 0 /\ pin[t][ProductRow(p)] = 0
      BY <1>0, <1>3, <3>1 DEF StockBooks, ResetEntries, UpdateLabels
    <3>3. holder'[ProductRow(p)] = t => latest'[ProductRow(p)] = ProductStockMax
      BY <3>2, <1>8, <1>11, <1>12
    <3>4. \/ pc'[t] \notin UpdateLabels
          \/ pc'[t] = "resetProduct" /\ p \notin todo'[t]
          => holder'[ProductRow(p)] = t
      BY <3>2, <1>0, <1>8, <1>9, <1>11, <1>12 DEF UpdateLabels
    <3>5. pout'[t][ProductRow(p)] = 0 /\ pin'[t][ProductRow(p)] = 0
      BY <3>2, <1>0
    <3> QED
      BY <2>1, <3>3, <3>4, <3>5, <1>13 DEF UpdateLabels
  <2>2. CASE u # t
    BY <2>2, <1>0, <1>3, <1>9, <1>11, <1>12 DEF StockBooks, ResetEntries
  <2> QED
    BY <2>1, <2>2
<1>16. FreeStockCommitted' /\ StockBalance'
  BY <1>0, <1>3, <1>11, <1>12 DEF StockBooks, FreeStockCommitted, StockBalance
<1> QED
  BY <1>4, <1>5, <1>6, <1>14, <1>15, <1>16 DEF StockInv, TypeOK

DeleteLabels == SourceLabels \cup {"clearItems", "clearTrades", "clearLogs"}

(* A DELETE of a reset: the rows of all products are its own, and it puts  *)
(* what the books hold of them among its entries, with the sign reversed.  *)
LEMMA HistoryCleared ==
  ASSUME StockInv, NEW t \in Threads, pc[t] \in DeleteLabels,
         NEW label \in (DeleteLabels \ {"clearBills"}) \cup {"resetCommit"},
         pc' = [pc EXCEPT ![t] = label],
         UNCHANGED <<dbVars, planVars, kind, who, todo, batch, due, seen, sourced, saved, outcome,
                     outflow, inflow, tries, requests>>,
         pout' \in [Threads -> [Rows -> Int]], pin' \in [Threads -> [Rows -> Int]],
         \A u \in Threads \ {t} : pout'[u] = pout[u] /\ pin'[u] = pin[u],
         \A p \in Products :
           LET r == ProductRow(p)
           IN /\ pout'[t][r] = IF label = "clearItems" THEN 0 ELSE -outflow[r]
              /\ pin'[t][r] = IF label = "resetCommit" THEN -inflow[r] ELSE 0
  PROVE  StockInv'
<1>3. BizTypeOK /\ WorkOK /\ StockBooks /\ DatabaseTypeOK /\ PlanTypeOK
  BY DEF StockInv, TypeOK, StockBooks
<1>4. DatabaseTypeOK' /\ PlanTypeOK'
  BY <1>3 DEF DatabaseTypeOK, PlanTypeOK, dbVars, planVars
<1>8. /\ pc' \in [Threads -> Labels] /\ pc'[t] = label
      /\ \A u \in Threads \ {t} : pc'[u] = pc[u]
  BY <1>3 DEF BizTypeOK, Labels, ResetLabels, DeleteLabels, SourceLabels
<1>5. BizTypeOK'
  BY <1>3, <1>8 DEF BizTypeOK
<1>6. WorkOK'
  <2>1. ThreadOK(t)'
    BY <1>3, <1>8 DEF WorkOK, ThreadOK, DeleteLabels, SourceLabels
  <2> QED
    BY <1>3, <1>8, <2>1, OtherThreads
<1>9. UNCHANGED <<committed, latest, holder>>
  BY DEF dbVars
<1>10. \A p \in Products : /\ holder[ProductRow(p)] = t
                           /\ latest[ProductRow(p)] = ProductStockMax
  BY <1>3 DEF StockBooks, ResetEntries, ResetLabels, UpdateLabels, DeleteLabels, SourceLabels
<1>11. StockEntries'
  <2>1. label \in ResetLabels /\ label # "idle"
    BY DEF ResetLabels, DeleteLabels, SourceLabels
  <2> QED
    BY <1>3, <1>8, <1>9, <1>10, <2>1 DEF StockBooks, StockEntries, Fails
<1>12. ResetEntries'
  <2>1. label \notin UpdateLabels /\ label # "clearBills"
        /\ (label \in {"clearOrders", "clearRecharges", "clearTrades", "clearLogs", "resetCommit"}
            <=> label # "clearItems")
    BY DEF UpdateLabels, DeleteLabels, SourceLabels
  <2> QED
    BY <1>3, <1>8, <1>9, <1>10, <2>1 DEF StockBooks, ResetEntries
<1>13. FreeStockCommitted' /\ StockBalance'
  BY <1>3, <1>9 DEF StockBooks, FreeStockCommitted, StockBalance
<1> QED
  BY <1>4, <1>5, <1>6, <1>11, <1>12, <1>13 DEF StockInv, TypeOK

LEMMA ReversedFacts ==
  ASSUME NEW mine \in [Rows -> Int], NEW book \in [Rows -> Int], NEW R \in SUBSET Rows
  PROVE  /\ Reversed(mine, book, R) \in [Rows -> Int]
         /\ \A r \in Rows : Reversed(mine, book, R)[r] = IF r \in R THEN -book[r] ELSE mine[r]
BY DEF Reversed

(* what a reset has among its entries of products before a DELETE *)
LEMMA ClearingFacts ==
  ASSUME StockInv, NEW t \in Threads, pc[t] \in DeleteLabels, NEW p \in Products
  PROVE  /\ ProductRow(p) \in ProductRows /\ ProductRow(p) \notin UserRows
         /\ ProductRow(p) \in Rows
         /\ pout[t][ProductRow(p)] = IF pc[t] \in {"clearBills", "clearItems"} THEN 0
                                     ELSE -outflow[ProductRow(p)]
         /\ pin[t][ProductRow(p)] = 0
<1>1. ProductRow(p) \in ProductRows /\ ProductRow(p) \in Rows /\ ProductRow(p) \notin UserRows
  BY RowFacts DEF ProductRows, UserRows
<1>2. pc[t] \in ResetLabels \ {"resetRollback"}
  BY DEF ResetLabels, DeleteLabels, SourceLabels
<1>3. pc[t] \in {"clearOrders", "clearRecharges", "clearTrades", "clearLogs"}
      <=> pc[t] \notin {"clearBills", "clearItems"}
  BY DEF DeleteLabels, SourceLabels
<1> QED
  BY <1>1, <1>2, <1>3 DEF StockInv, ResetEntries, DeleteLabels, SourceLabels

LEMMA ClearSourcesStep ==
  ASSUME StockInv, NEW t \in Threads, ClearSources(t), UNCHANGED <<tries, requests>>
  PROVE  StockInv'
<1>1. /\ pc[t] \in SourceLabels /\ pc' = [pc EXCEPT ![t] = NextClear(pc[t])]
      /\ UNCHANGED <<dbVars, planVars, kind, who, todo, batch, due, seen, sourced, saved,
                     pout, pin, outcome, outflow, inflow>>
  BY DEF ClearSources, requestVars, workVars, pendingVars, bookVars
<1>2. BizTypeOK
  BY DEF StockInv, TypeOK
<1>3. /\ pc[t] \in DeleteLabels
      /\ NextClear(pc[t]) \in (DeleteLabels \ {"clearBills"}) \cup {"resetCommit"}
      /\ NextClear(pc[t]) # "resetCommit"
      /\ NextClear(pc[t]) = "clearItems" <=> pc[t] = "clearBills"
      /\ pc[t] # "clearItems"
  BY <1>1 DEF NextClear, DeleteLabels, SourceLabels
<1>4. /\ pout' \in [Threads -> [Rows -> Int]] /\ pin' \in [Threads -> [Rows -> Int]]
      /\ \A u \in Threads \ {t} : pout'[u] = pout[u] /\ pin'[u] = pin[u]
  BY <1>1, <1>2 DEF BizTypeOK
<1>5. \A p \in Products :
        /\ pout'[t][ProductRow(p)] =
             IF NextClear(pc[t]) = "clearItems" THEN 0 ELSE -outflow[ProductRow(p)]
        /\ pin'[t][ProductRow(p)] = 0
  BY <1>1, <1>3, ClearingFacts
<1> HIDE DEF NextClear
<1> QED
  BY <1>1, <1>3, <1>4, <1>5, HistoryCleared

LEMMA ClearItemsStep ==
  ASSUME StockInv, NEW t \in Threads, ClearItems(t), UNCHANGED <<tries, requests>>
  PROVE  StockInv'
<1>1. /\ pc[t] = "clearItems" /\ pc' = [pc EXCEPT ![t] = "clearOrders"]
      /\ pout' = [pout EXCEPT ![t] = Reversed(@, outflow, ProductRows)]
      /\ UNCHANGED <<dbVars, planVars, kind, who, todo, batch, due, seen, sourced, saved, pin,
                     outcome, outflow, inflow>>
  BY DEF ClearItems, requestVars, workVars, bookVars
<1>2. BizTypeOK /\ ProductRows \subseteq Rows
  BY RowFacts DEF StockInv, TypeOK
<1>3. /\ pout' \in [Threads -> [Rows -> Int]] /\ pin' \in [Threads -> [Rows -> Int]]
      /\ \A u \in Threads \ {t} : pout'[u] = pout[u] /\ pin'[u] = pin[u]
      /\ pout'[t] = Reversed(pout[t], outflow, ProductRows) /\ pin'[t] = pin[t]
  <2>1. /\ pout \in [Threads -> [Rows -> Int]] /\ pin \in [Threads -> [Rows -> Int]]
        /\ outflow \in [Rows -> Int]
    BY <1>2 DEF BizTypeOK
  <2>2. Reversed(pout[t], outflow, ProductRows) \in [Rows -> Int]
    BY <1>2, <2>1, ReversedFacts
  <2>3. /\ pout' \in [Threads -> [Rows -> Int]]
        /\ \A u \in Threads \ {t} : pout'[u] = pout[u]
        /\ pout'[t] = Reversed(pout[t], outflow, ProductRows)
    BY <1>1, <2>1, <2>2
  <2> QED
    BY <1>1, <2>1, <2>3
<1>4. \A r \in Rows : pout'[t][r] = IF r \in ProductRows THEN -outflow[r] ELSE pout[t][r]
  BY <1>3 DEF Reversed
<1>5. \A p \in Products : /\ pout'[t][ProductRow(p)] = -outflow[ProductRow(p)]
                          /\ pin'[t][ProductRow(p)] = 0
  BY <1>1, <1>3, <1>4, ClearingFacts DEF DeleteLabels
<1>6. /\ pc[t] \in DeleteLabels
      /\ "clearOrders" \in (DeleteLabels \ {"clearBills"}) \cup {"resetCommit"}
      /\ "clearOrders" # "clearItems" /\ "clearOrders" # "resetCommit"
  BY <1>1 DEF DeleteLabels, SourceLabels
<1>7. /\ pout' \in [Threads -> [Rows -> Int]] /\ pin' \in [Threads -> [Rows -> Int]]
      /\ \A u \in Threads \ {t} : pout'[u] = pout[u] /\ pin'[u] = pin[u]
      /\ \A p \in Products :
           LET r == ProductRow(p)
           IN /\ pout'[t][r] = IF "clearOrders" = "clearItems" THEN 0 ELSE -outflow[r]
              /\ pin'[t][r] = IF "clearOrders" = "resetCommit" THEN -inflow[r] ELSE 0
  BY <1>3, <1>5, <1>6
<1>8. UNCHANGED <<dbVars, planVars, kind, who, todo, batch, due, seen, sourced, saved, outcome,
                  outflow, inflow, tries, requests>>
  BY <1>1
<1> QED
  BY <1>1, <1>6, <1>7, <1>8, HistoryCleared

LEMMA ClearTradesStep ==
  ASSUME StockInv, NEW t \in Threads, ClearTrades(t), UNCHANGED <<tries, requests>>
  PROVE  StockInv'
<1>1. /\ pc[t] = "clearTrades" /\ pc' = [pc EXCEPT ![t] = "clearLogs"]
      /\ pout' = [pout EXCEPT ![t] = Reversed(@, outflow, UserRows)]
      /\ pin' = [pin EXCEPT ![t] = Reversed(@, inflow, UserRows)]
      /\ UNCHANGED <<dbVars, planVars, kind, who, todo, batch, due, seen, sourced, saved, outcome,
                     outflow, inflow>>
  BY DEF ClearTrades, requestVars, workVars, bookVars
<1>2. BizTypeOK /\ UserRows \subseteq Rows
  BY RowFacts DEF StockInv, TypeOK, UserRows
<1>3. /\ pout' \in [Threads -> [Rows -> Int]] /\ pin' \in [Threads -> [Rows -> Int]]
      /\ \A u \in Threads \ {t} : pout'[u] = pout[u] /\ pin'[u] = pin[u]
      /\ pout'[t] = Reversed(pout[t], outflow, UserRows)
      /\ pin'[t] = Reversed(pin[t], inflow, UserRows)
  <2>1. /\ pout \in [Threads -> [Rows -> Int]] /\ pin \in [Threads -> [Rows -> Int]]
        /\ outflow \in [Rows -> Int] /\ inflow \in [Rows -> Int]
    BY <1>2 DEF BizTypeOK
  <2>2. /\ Reversed(pout[t], outflow, UserRows) \in [Rows -> Int]
        /\ Reversed(pin[t], inflow, UserRows) \in [Rows -> Int]
    BY <1>2, <2>1, ReversedFacts
  <2>3. /\ pout' \in [Threads -> [Rows -> Int]]
        /\ \A u \in Threads \ {t} : pout'[u] = pout[u]
        /\ pout'[t] = Reversed(pout[t], outflow, UserRows)
    BY <1>1, <2>1, <2>2
  <2>4. /\ pin' \in [Threads -> [Rows -> Int]]
        /\ \A u \in Threads \ {t} : pin'[u] = pin[u]
        /\ pin'[t] = Reversed(pin[t], inflow, UserRows)
    BY <1>1, <2>1, <2>2
  <2> QED
    BY <2>3, <2>4
<1>4. \A r \in Rows : r \notin UserRows => pout'[t][r] = pout[t][r] /\ pin'[t][r] = pin[t][r]
  BY <1>3 DEF Reversed
<1>5. \A p \in Products : /\ pout'[t][ProductRow(p)] = -outflow[ProductRow(p)]
                          /\ pin'[t][ProductRow(p)] = 0
  BY <1>1, <1>4, ClearingFacts DEF DeleteLabels
<1>6. /\ pc[t] \in DeleteLabels
      /\ "clearLogs" \in (DeleteLabels \ {"clearBills"}) \cup {"resetCommit"}
      /\ "clearLogs" # "clearItems" /\ "clearLogs" # "resetCommit"
  BY <1>1 DEF DeleteLabels, SourceLabels
<1>7. /\ pout' \in [Threads -> [Rows -> Int]] /\ pin' \in [Threads -> [Rows -> Int]]
      /\ \A u \in Threads \ {t} : pout'[u] = pout[u] /\ pin'[u] = pin[u]
      /\ \A p \in Products :
           LET r == ProductRow(p)
           IN /\ pout'[t][r] = IF "clearLogs" = "clearItems" THEN 0 ELSE -outflow[r]
              /\ pin'[t][r] = IF "clearLogs" = "resetCommit" THEN -inflow[r] ELSE 0
  BY <1>3, <1>5, <1>6
<1>8. UNCHANGED <<dbVars, planVars, kind, who, todo, batch, due, seen, sourced, saved, outcome,
                  outflow, inflow, tries, requests>>
  BY <1>1
<1> QED
  BY <1>1, <1>6, <1>7, <1>8, HistoryCleared

LEMMA ClearLogsStep ==
  ASSUME StockInv, NEW t \in Threads, ClearLogs(t), UNCHANGED <<tries, requests>>
  PROVE  StockInv'
<1>1. /\ pc[t] = "clearLogs" /\ pc' = [pc EXCEPT ![t] = "resetCommit"]
      /\ pin' = [pin EXCEPT ![t] = Reversed(@, inflow, ProductRows)]
      /\ UNCHANGED <<dbVars, planVars, kind, who, todo, batch, due, seen, sourced, saved, pout,
                     outcome, outflow, inflow>>
  BY DEF ClearLogs, requestVars, workVars, bookVars
<1>2. BizTypeOK /\ ProductRows \subseteq Rows
  BY RowFacts DEF StockInv, TypeOK
<1>3. /\ pout' \in [Threads -> [Rows -> Int]] /\ pin' \in [Threads -> [Rows -> Int]]
      /\ \A u \in Threads \ {t} : pout'[u] = pout[u] /\ pin'[u] = pin[u]
      /\ pin'[t] = Reversed(pin[t], inflow, ProductRows) /\ pout'[t] = pout[t]
  BY <1>1, <1>2, ReversedFacts DEF BizTypeOK
<1>4. \A r \in Rows : pin'[t][r] = IF r \in ProductRows THEN -inflow[r] ELSE pin[t][r]
  BY <1>3 DEF Reversed
<1>5. \A p \in Products : /\ pout'[t][ProductRow(p)] = -outflow[ProductRow(p)]
                          /\ pin'[t][ProductRow(p)] = -inflow[ProductRow(p)]
  BY <1>1, <1>3, <1>4, ClearingFacts DEF DeleteLabels
<1> QED
  BY <1>1, <1>3, <1>5, HistoryCleared DEF DeleteLabels, SourceLabels

LEMMA ResetFailsStep ==
  ASSUME StockInv, NEW t \in Threads, ResetFails(t), UNCHANGED <<tries, requests>>
  PROVE  StockInv'
<1>1. /\ pc[t] \in ResetLabels /\ pc' = [pc EXCEPT ![t] = "resetRollback"]
      /\ UNCHANGED <<dbVars, planVars, kind, who, todo, batch, due, seen, sourced, saved, pout, pin,
                     outcome, outflow, inflow>>
  BY DEF ResetFails, requestVars, workVars, pendingVars, bookVars
<1>3. BizTypeOK /\ WorkOK /\ StockBooks
  BY DEF StockInv, TypeOK, StockBooks
<1>4. DatabaseTypeOK' /\ PlanTypeOK'
  BY <1>1 DEF StockInv, TypeOK, DatabaseTypeOK, PlanTypeOK, dbVars, planVars
<1>8. /\ pc' \in [Threads -> Labels] /\ pc'[t] = "resetRollback"
      /\ \A u \in Threads \ {t} : pc'[u] = pc[u]
  BY <1>1, <1>3 DEF BizTypeOK, Labels, ResetLabels
<1>5. BizTypeOK'
  BY <1>1, <1>3, <1>8 DEF BizTypeOK
<1>6. WorkOK'
  <2>1. ThreadOK(t)'
    BY <1>1, <1>3, <1>8 DEF WorkOK, ThreadOK
  <2> QED
    BY <1>1, <1>3, <1>8, <2>1, OtherThreads
<1>9. UNCHANGED <<committed, latest, holder>>
  BY <1>1 DEF dbVars
<1>10. StockEntries'
  <2>1. "resetRollback" \in ResetLabels
    BY DEF ResetLabels
  <2> QED
    BY <1>1, <1>3, <1>8, <1>9, <2>1 DEF StockBooks, StockEntries, Fails
<1>11. ResetEntries'
  BY <1>1, <1>3, <1>8, <1>9 DEF StockBooks, ResetEntries
<1>12. FreeStockCommitted' /\ StockBalance'
  BY <1>1, <1>3, <1>9 DEF StockBooks, FreeStockCommitted, StockBalance
<1> QED
  BY <1>1, <1>4, <1>5, <1>6, <1>10, <1>11, <1>12 DEF StockInv, TypeOK

-----------------------------------------------------------------------------
(* The end of a transaction and of a request. *)

LEMMA ClearFacts ==
  ASSUME BizTypeOK, NEW t \in Threads, Clear(t)
  PROVE  /\ batch' \in [Threads -> [Products -> Nat]]
         /\ due' \in [Threads -> Int] /\ seen' \in [Threads -> Int]
         /\ sourced' \in [Threads -> BOOLEAN]
         /\ DOMAIN saved' = Threads
         /\ \A u \in Threads : /\ DOMAIN saved'[u] \subseteq AccountRows
                               /\ saved'[u] \in [DOMAIN saved'[u] -> Int]
         /\ pout' \in [Threads -> [Rows -> Int]] /\ pin' \in [Threads -> [Rows -> Int]]
         /\ \A u \in Threads \ {t} :
              batch'[u] = batch[u] /\ pout'[u] = pout[u] /\ pin'[u] = pin[u]
         /\ \A r \in Rows : pout'[t][r] = 0 /\ pin'[t][r] = 0
<1>1. batch' \in [Threads -> [Products -> Nat]] /\ \A u \in Threads \ {t} : batch'[u] = batch[u]
  BY DEF BizTypeOK, Clear, NoProducts
<1>2. /\ due' \in [Threads -> Int] /\ seen' \in [Threads -> Int]
      /\ sourced' \in [Threads -> BOOLEAN]
  BY DEF BizTypeOK, Clear
<1>3. DOMAIN saved' = Threads /\ saved'[t] = NothingSaved
      /\ \A u \in Threads \ {t} : saved'[u] = saved[u]
  BY DEF BizTypeOK, Clear
<1>4. DOMAIN NothingSaved = {} /\ NothingSaved \in [{} -> Int]
  BY DEF NothingSaved
<1>5. \A u \in Threads : /\ DOMAIN saved'[u] \subseteq AccountRows
                         /\ saved'[u] \in [DOMAIN saved'[u] -> Int]
  BY <1>3, <1>4 DEF BizTypeOK
<1>6. NoEntries \in [Rows -> Int] /\ \A r \in Rows : NoEntries[r] = 0
  BY DEF NoEntries
<1>7. /\ pout' \in [Threads -> [Rows -> Int]] /\ pin' \in [Threads -> [Rows -> Int]]
      /\ \A u \in Threads \ {t} : pout'[u] = pout[u] /\ pin'[u] = pin[u]
      /\ pout'[t] = NoEntries /\ pin'[t] = NoEntries
  BY <1>6 DEF BizTypeOK, Clear
<1> QED
  BY <1>1, <1>2, <1>3, <1>5, <1>6, <1>7

LEMMA AnswerFacts ==
  ASSUME StockInv, NEW t \in Threads, Answer(t)
  PROVE  /\ pc' \in [Threads -> Labels] /\ kind' \in [Threads -> Kinds \cup {"none"}]
         /\ who' \in [Threads -> SUBSET Users] /\ todo' \in [Threads -> SUBSET Nat]
         /\ outcome' \in [Threads -> Outcomes]
         /\ tries' \in [Threads -> 0 .. MaxTries]
         /\ pc'[t] = "idle" /\ kind'[t] = "none"
         /\ \A u \in Threads \ {t} : /\ pc'[u] = pc[u] /\ kind'[u] = kind[u]
                                     /\ who'[u] = who[u] /\ todo'[u] = todo[u]
                                     /\ outcome'[u] = outcome[u]
<1>1. BizTypeOK /\ tries \in [Threads -> 0 .. MaxTries]
  BY DEF StockInv, TypeOK
<1>2. MaxTries \in Nat
  BY RunControllerAssumption
<1>3. pc' \in [Threads -> Labels] /\ kind' \in [Threads -> Kinds \cup {"none"}]
      /\ pc'[t] = "idle" /\ kind'[t] = "none"
      /\ \A u \in Threads \ {t} : pc'[u] = pc[u] /\ kind'[u] = kind[u]
  BY <1>1 DEF BizTypeOK, Answer, Labels, BizLabels
<1>4. who' \in [Threads -> SUBSET Users] /\ todo' \in [Threads -> SUBSET Nat]
      /\ \A u \in Threads \ {t} : who'[u] = who[u] /\ todo'[u] = todo[u]
  BY <1>1 DEF BizTypeOK, Answer
<1>5. /\ outcome' \in [Threads -> Outcomes]
      /\ \A u \in Threads \ {t} : outcome'[u] = outcome[u]
      /\ tries' \in [Threads -> 0 .. MaxTries]
  BY <1>1, <1>2 DEF BizTypeOK, Answer, Outcomes
<1> QED
  BY <1>3, <1>4, <1>5

LEMMA CommitStep ==
  ASSUME StockInv, NEW t \in Threads, Commit(t)
  PROVE  StockInv'
<1>1. /\ CommitTransaction(t) /\ Clear(t) /\ Answer(t)
      /\ outflow' = [r \in Rows |-> outflow[r] + pout[t][r]]
      /\ inflow'  = [r \in Rows |-> inflow[r] + pin[t][r]]
      /\ UNCHANGED <<planVars, requests>>
      /\ pc[t] \in {"commit", "resetCommit"}
  BY DEF Commit, CommitBiz, CommitReset
<1>3. BizTypeOK /\ WorkOK /\ StockBooks /\ DatabaseTypeOK
  BY DEF StockInv, TypeOK, StockBooks
<1>4. DatabaseTypeOK' /\ PlanTypeOK' /\ requests' \in 0 .. MaxRequests
  BY <1>1, <1>3, CommitTypes DEF StockInv, TypeOK, PlanTypeOK, planVars
<1>5. BizTypeOK'
  <2>1. outflow' \in [Rows -> Int] /\ inflow' \in [Rows -> Int]
    BY <1>1, <1>3 DEF BizTypeOK
  <2> QED
    BY <1>1, <1>3, <2>1, ClearFacts, AnswerFacts DEF BizTypeOK
<1>6. WorkOK'
  <2>1. ThreadOK(t)'
    BY <1>1, AnswerFacts DEF ThreadOK
  <2> QED
    BY <1>1, <1>3, <2>1, ClearFacts, AnswerFacts, OtherThreads
<1>8. \A p \in Products : ProductRow(p) \in Rows
  BY RowFacts
<1>9. \A r \in Rows : /\ holder'[r] = IF holder[r] = t THEN NoThread ELSE holder[r]
                      /\ committed'[r] = IF holder[r] = t THEN latest[r] ELSE committed[r]
                      /\ latest'[r] = latest[r]
                      /\ outflow'[r] = outflow[r] + pout[t][r]
                      /\ inflow'[r] = inflow[r] + pin[t][r]
  BY <1>1 DEF CommitTransaction, Forget
<1>10. NoThread \notin Threads
  BY DatabaseAssumption
<1>11. StockEntries'
  <2> SUFFICES ASSUME NEW u \in Threads, NEW p \in Products
               PROVE  LET r == ProductRow(p)
                      IN IF holder'[r] = u
                         THEN /\ pc'[u] # "idle"
                              /\ pc'[u] \notin ResetLabels /\ ~Fails(u)' =>
                                   latest'[r] = committed'[r] + pin'[u][r] - pout'[u][r]
                         ELSE pin'[u][r] = 0 /\ pout'[u][r] = 0
    BY DEF StockEntries
  <2>1. CASE u = t
    BY <2>1, <1>1, <1>3, <1>8, <1>9, <1>10, ClearFacts
  <2>2. CASE u # t
    <3>1. /\ pin'[u] = pin[u] /\ pout'[u] = pout[u]
          /\ pc'[u] = pc[u] /\ outcome'[u] = outcome[u]
      BY <2>2, <1>1, <1>3, ClearFacts, AnswerFacts
    <3> QED
      BY <2>2, <3>1, <1>3, <1>8, <1>9, <1>10 DEF StockBooks, StockEntries, Fails
  <2> QED
    BY <2>1, <2>2
<1>14. ResetEntries'
  <2> SUFFICES ASSUME NEW u \in Threads, NEW p \in Products,
                      pc'[u] \in ResetLabels \ {"resetRollback"}
               PROVE  LET r == ProductRow(p)
                      IN /\ pc'[u] = pc[u] /\ todo'[u] = todo[u]
                         /\ holder'[r] = u <=> holder[r] = u
                         /\ latest'[r] = latest[r]
                         /\ pc[u] \in {"clearOrders", "clearRecharges", "clearTrades",
                                       "clearLogs", "resetCommit"} =>
                              outflow'[r] = outflow[r]
                         /\ pc[u] = "resetCommit" => inflow'[r] = inflow[r]
                         /\ pin'[u][r] = pin[u][r] /\ pout'[u][r] = pout[u][r]
    BY <1>3 DEF StockBooks, ResetEntries
  <2> DEFINE r == ProductRow(p)
  <2>1. u # t
    BY <1>1, AnswerFacts DEF ResetLabels
  <2>2. /\ pc'[u] = pc[u] /\ todo'[u] = todo[u]
        /\ pin'[u][r] = pin[u][r] /\ pout'[u][r] = pout[u][r]
    BY <2>1, <1>1, <1>3, ClearFacts, AnswerFacts
  <2>3. (holder'[r] = u <=> holder[r] = u) /\ latest'[r] = latest[r]
    BY <2>1, <1>8, <1>9, <1>10
  <2>4. ASSUME pc[u] \in {"clearOrders", "clearRecharges", "clearTrades", "clearLogs",
                          "resetCommit"}
        PROVE  outflow'[r] = outflow[r] /\ inflow'[r] = inflow[r]
    <3>1. holder[r] = u
      BY <2>4, <1>3 DEF StockBooks, ResetEntries, UpdateLabels, ResetLabels
    <3>2. pin[t][r] = 0 /\ pout[t][r] = 0
      BY <2>1, <3>1, <1>3 DEF StockBooks, StockEntries
    <3>3. r \in Rows /\ outflow[r] \in Int /\ inflow[r] \in Int
      BY <1>3, <1>8 DEF BizTypeOK
    <3> QED
      BY <3>2, <3>3, <1>9
  <2> QED
    BY <2>2, <2>3, <2>4
<1>12. FreeStockCommitted'
  BY <1>3, <1>8, <1>9 DEF StockBooks, FreeStockCommitted
<1>13. StockBalance'
  <2> SUFFICES ASSUME NEW p \in Products
               PROVE  LET r == ProductRow(p)
                      IN committed'[r] + outflow'[r] - inflow'[r] = ProductStockMax
    BY DEF StockBalance
  <2> DEFINE r == ProductRow(p)
  <2>1. /\ r \in Rows /\ committed[r] \in Int /\ latest[r] \in Int /\ outflow[r] \in Int
        /\ inflow[r] \in Int /\ pout[t][r] \in Int /\ pin[t][r] \in Int
    BY <1>3, <1>8 DEF DatabaseTypeOK, BizTypeOK
  <2>2. committed[r] + outflow[r] - inflow[r] = ProductStockMax
    BY <1>3 DEF StockBooks, StockBalance
  <2>3. CASE pc[t] = "commit"
    <3>1. IF holder[r] = t THEN latest[r] = committed[r] + pin[t][r] - pout[t][r]
          ELSE pin[t][r] = 0 /\ pout[t][r] = 0
      BY <2>3, <1>3 DEF StockBooks, StockEntries, ResetLabels, Fails
    <3> QED
      BY <2>1, <2>2, <3>1, <1>9
  <2>4. CASE pc[t] = "resetCommit"
    <3>1. /\ holder[r] = t /\ latest[r] = ProductStockMax
          /\ pout[t][r] = -outflow[r] /\ pin[t][r] = -inflow[r]
      BY <2>4, <1>3 DEF StockBooks, ResetEntries, UpdateLabels, ResetLabels
    <3>2. committed'[r] = ProductStockMax
      BY <2>1, <3>1, <1>9
    <3>3. outflow'[r] = outflow[r] + pout[t][r] /\ inflow'[r] = inflow[r] + pin[t][r]
      BY <2>1, <1>9
    <3>4. outflow'[r] = 0 /\ inflow'[r] = 0
      BY <2>1, <3>1, <3>3
    <3>5. ProductStockMax \in Int
      BY TablesAssumption
    <3> QED
      BY <3>2, <3>4, <3>5
  <2> QED
    BY <1>1, <2>3, <2>4
<1> QED
  BY <1>1, <1>4, <1>5, <1>6, <1>11, <1>12, <1>13, <1>14, AnswerFacts DEF StockInv, TypeOK

(* After a rollback the rows are as committed and the entries are gone. *)
LEMMA RollbackBooks ==
  ASSUME StockInv, NEW t \in Threads, RollbackTransaction(t), Clear(t),
         UNCHANGED <<planVars, outflow, inflow>>, pc'[t] \notin ResetLabels,
         \A u \in Threads \ {t} : /\ pc'[u] = pc[u] /\ todo'[u] = todo[u]
                                  /\ outcome'[u] = outcome[u]
  PROVE  StockBooks' /\ DatabaseTypeOK' /\ PlanTypeOK'
<1>3. BizTypeOK /\ WorkOK /\ StockBooks /\ DatabaseTypeOK
  BY DEF StockInv, TypeOK, StockBooks
<1>4. DatabaseTypeOK' /\ PlanTypeOK'
  BY <1>3, RollbackTypes DEF StockInv, TypeOK, PlanTypeOK, planVars
<1>8. \A p \in Products : ProductRow(p) \in Rows
  BY RowFacts
<1>9. /\ committed' = committed
      /\ \A r \in Rows : /\ holder'[r] = IF holder[r] = t THEN NoThread ELSE holder[r]
                         /\ latest'[r] = IF holder[r] = t THEN committed[r] ELSE latest[r]
  BY DEF RollbackTransaction, Forget
<1>10. NoThread \notin Threads
  BY DatabaseAssumption
<1>11. StockEntries'
  <2> SUFFICES ASSUME NEW u \in Threads, NEW p \in Products
               PROVE  LET r == ProductRow(p)
                      IN IF holder'[r] = u
                         THEN /\ pc'[u] # "idle"
                              /\ pc'[u] \notin ResetLabels /\ ~Fails(u)' =>
                                   latest'[r] = committed'[r] + pin'[u][r] - pout'[u][r]
                         ELSE pin'[u][r] = 0 /\ pout'[u][r] = 0
    BY DEF StockEntries
  <2>1. CASE u = t
    BY <2>1, <1>3, <1>8, <1>9, <1>10, ClearFacts
  <2>2. CASE u # t
    <3>1. pin'[u] = pin[u] /\ pout'[u] = pout[u]
      BY <2>2, <1>3, ClearFacts
    <3> QED
      BY <2>2, <3>1, <1>3, <1>8, <1>9, <1>10 DEF StockBooks, StockEntries, Fails
  <2> QED
    BY <2>1, <2>2
<1>12. FreeStockCommitted'
  BY <1>3, <1>8, <1>9 DEF StockBooks, FreeStockCommitted
<1>13. StockBalance'
  BY <1>3, <1>9 DEF StockBooks, StockBalance
<1>14. ResetEntries'
  <2> SUFFICES ASSUME NEW u \in Threads, NEW p \in Products,
                      pc'[u] \in ResetLabels \ {"resetRollback"}
               PROVE  LET r == ProductRow(p)
                      IN /\ pc'[u] = pc[u] /\ todo'[u] = todo[u]
                         /\ holder'[r] = u <=> holder[r] = u
                         /\ holder[r] = u => latest'[r] = latest[r]
                         /\ pin'[u][r] = pin[u][r] /\ pout'[u][r] = pout[u][r]
    BY <1>3 DEF StockBooks, ResetEntries
  <2>1. u # t
    OBVIOUS
  <2>2. /\ pc'[u] = pc[u] /\ todo'[u] = todo[u]
        /\ pin'[u][ProductRow(p)] = pin[u][ProductRow(p)]
        /\ pout'[u][ProductRow(p)] = pout[u][ProductRow(p)]
    BY <2>1, <1>3, ClearFacts
  <2> QED
    BY <2>1, <2>2, <1>8, <1>9, <1>10
<1> QED
  BY <1>4, <1>11, <1>12, <1>13, <1>14 DEF StockBooks

LEMMA GiveUpStep ==
  ASSUME StockInv, NEW t \in Threads, GiveUp(t)
  PROVE  StockInv'
<1>1. /\ RollbackTransaction(t) /\ Clear(t) /\ Answer(t)
      /\ UNCHANGED <<planVars, outflow, inflow, requests>>
  BY DEF GiveUp, RollbackBiz, RollbackReset, bookVars
<1>3. BizTypeOK /\ WorkOK
  BY DEF StockInv, TypeOK
<1>5. BizTypeOK'
  BY <1>1, <1>3, ClearFacts, AnswerFacts DEF BizTypeOK
<1>6. WorkOK'
  <2>1. ThreadOK(t)'
    BY <1>1, AnswerFacts DEF ThreadOK
  <2> QED
    BY <1>1, <1>3, <2>1, ClearFacts, AnswerFacts, OtherThreads
<1>7. requests' \in 0 .. MaxRequests
  BY <1>1 DEF StockInv, TypeOK
<1>8. StockBooks' /\ DatabaseTypeOK' /\ PlanTypeOK'
  BY <1>1, RollbackBooks, AnswerFacts DEF ResetLabels
<1> QED
  BY <1>1, <1>5, <1>6, <1>7, <1>8, AnswerFacts DEF StockInv, TypeOK, StockBooks

LEMMA RetryStep ==
  ASSUME StockInv, NEW t \in Threads, Retry(t)
  PROVE  StockInv'
<1>1. /\ kind[t] \in {"usage", "package"} /\ tries[t] < MaxTries
      /\ RollbackTransaction(t) /\ Clear(t)
      /\ pc'      = [pc EXCEPT ![t] = "lockUser"]
      /\ todo'    = [todo EXCEPT ![t] = who[t]]
      /\ outcome' = [outcome EXCEPT ![t] = "ok"]
      /\ tries'   = [tries EXCEPT ![t] = @ + 1]
      /\ UNCHANGED <<planVars, kind, who, outflow, inflow, requests>>
  BY DEF Retry, Retries, FirstStep, RollbackBiz, bookVars, requestVars
<1>3. BizTypeOK /\ WorkOK
  BY DEF StockInv, TypeOK
<1>4. /\ tries' \in [Threads -> 0 .. MaxTries] /\ requests' \in 0 .. MaxRequests
  <2>1. tries \in [Threads -> 0 .. MaxTries] /\ MaxTries \in Nat
    BY RunControllerAssumption DEF StockInv, TypeOK
  <2>2. tries[t] + 1 \in 0 .. MaxTries
    BY <1>1, <2>1
  <2> QED
    BY <1>1, <2>1, <2>2 DEF StockInv, TypeOK
<1>8. who[t] # {} /\ who[t] \subseteq Users /\ Users \subseteq Nat
  BY <1>1, <1>3, TablesAssumption DEF WorkOK, ThreadOK, BizTypeOK
<1>9. /\ pc' \in [Threads -> Labels] /\ pc'[t] = "lockUser"
      /\ outcome' \in [Threads -> Outcomes]
      /\ todo' \in [Threads -> SUBSET Nat] /\ todo'[t] = who[t]
      /\ \A u \in Threads \ {t} : /\ pc'[u] = pc[u] /\ todo'[u] = todo[u]
                                  /\ outcome'[u] = outcome[u]
  BY <1>1, <1>3, <1>8 DEF BizTypeOK, Labels, BizLabels, Outcomes
<1>5. BizTypeOK'
  BY <1>1, <1>3, <1>9, ClearFacts DEF BizTypeOK
<1>6. WorkOK'
  <2>1. ThreadOK(t)'
    BY <1>1, <1>8, <1>9 DEF ThreadOK
  <2> QED
    BY <1>1, <1>3, <1>9, <2>1, ClearFacts, OtherThreads
<1>7. StockBooks' /\ DatabaseTypeOK' /\ PlanTypeOK'
  BY <1>1, <1>9, RollbackBooks DEF ResetLabels
<1> QED
  BY <1>1, <1>4, <1>5, <1>6, <1>7 DEF StockInv, TypeOK, StockBooks

LEMMA ExecuteStep ==
  ASSUME StockInv, NEW t \in Threads, Execute(t)
  PROVE  StockInv'
<1>0. PICK k \in Workload[conf] : \E S \in UserSets(k) :
        /\ kind' = [kind EXCEPT ![t] = k]
        /\ who'  = [who EXCEPT ![t] = S]
        /\ todo' = [todo EXCEPT ![t] = FirstIds(k, S)]
        /\ pc'   = [pc EXCEPT ![t] = FirstStep(k)]
  BY DEF Execute
<1>1. PICK S \in UserSets(k) :
        /\ kind' = [kind EXCEPT ![t] = k]
        /\ who'  = [who EXCEPT ![t] = S]
        /\ todo' = [todo EXCEPT ![t] = FirstIds(k, S)]
        /\ pc'   = [pc EXCEPT ![t] = FirstStep(k)]
  BY <1>0
<1>2. /\ pc[t] = "idle" /\ requests < MaxRequests /\ requests' = requests + 1
      /\ UNCHANGED <<dbVars, planVars, batch, due, seen, sourced, saved, pout, pin, outcome,
                     outflow, inflow, tries>>
  BY DEF Execute, workVars, pendingVars, bookVars
<1>3. BizTypeOK /\ WorkOK /\ StockBooks
  BY DEF StockInv, TypeOK, StockBooks
<1>16. S \subseteq Users /\ (k \in {"package", "usage", "recharge"} => S # {})
  <2>2. CASE k \in {"package", "usage"}
    BY <2>2 DEF UserSets
  <2>3. CASE k = "recharge"
    <3>1. S \subseteq Users /\ Cardinality(S) = BatchSize
      BY <2>3 DEF UserSets, RechargeSets
    <3>2. Cardinality({}) = 0
      BY FS_EmptySet
    <3> QED
      BY <3>1, <3>2, TablesAssumption
  <2>4. CASE k \notin {"package", "usage", "recharge"}
    <3>1. UserSets(k) = {{}}
      BY <2>4 DEF UserSets
    <3> QED
      BY <2>4, <3>1
  <2> QED
    BY <2>2, <2>3, <2>4
<1>8. /\ S \subseteq Users /\ FirstIds(k, S) \subseteq Users /\ Users \subseteq Nat
      /\ k \in {"package", "usage", "recharge"} => S # {}
  BY <1>16, TablesAssumption DEF FirstIds
<1>4. DatabaseTypeOK' /\ PlanTypeOK'
  BY <1>2 DEF StockInv, TypeOK, DatabaseTypeOK, PlanTypeOK, dbVars, planVars
<1>7. k \in Kinds
  <2>1. conf \in Deployments
    BY DEF StockInv, TypeOK, DatabaseTypeOK
  <2> QED
    BY <2>1, RunControllerAssumption
<1>9. /\ pc' \in [Threads -> Labels] /\ pc'[t] = FirstStep(k)
      /\ kind' \in [Threads -> Kinds \cup {"none"}] /\ kind'[t] = k
      /\ \A u \in Threads \ {t} : pc'[u] = pc[u] /\ kind'[u] = kind[u]
  BY <1>1, <1>3, <1>7 DEF BizTypeOK, Labels, BizLabels, ResetLabels, FirstStep
<1>10. /\ who' \in [Threads -> SUBSET Users] /\ who'[t] = S
       /\ todo' \in [Threads -> SUBSET Nat] /\ todo'[t] = FirstIds(k, S)
       /\ \A u \in Threads \ {t} : who'[u] = who[u] /\ todo'[u] = todo[u]
  <2>1. FirstIds(k, S) \in SUBSET Nat
    BY <1>8
  <2> QED
    BY <1>1, <1>3, <1>8, <2>1 DEF BizTypeOK
<1>5. BizTypeOK'
  BY <1>2, <1>3, <1>9, <1>10 DEF BizTypeOK
<1>6. WorkOK'
  <2>1. ThreadOK(t)'
    BY <1>7, <1>8, <1>9, <1>10 DEF ThreadOK, FirstStep, FirstIds, Kinds
  <2> QED
    BY <1>2, <1>3, <1>9, <1>10, <2>1, OtherThreads
<1>12. \A p \in Products : LET r == ProductRow(p)
                           IN holder[r] # t /\ pin[t][r] = 0 /\ pout[t][r] = 0
  BY <1>2, <1>3 DEF StockBooks, StockEntries
<1>13. UNCHANGED <<committed, latest, holder>>
  BY <1>2 DEF dbVars
<1>14. StockEntries' /\ FreeStockCommitted' /\ StockBalance'
  <2>1. StockEntries'
    BY <1>2, <1>3, <1>9, <1>12, <1>13 DEF StockBooks, StockEntries, Fails
  <2> QED
    BY <1>2, <1>3, <1>13, <2>1 DEF StockBooks, FreeStockCommitted, StockBalance
<1>15. ResetEntries'
  <2>1. pc'[t] \in {"find", "resetCash", "lockUser"}
    BY <1>9 DEF FirstStep
  <2> QED
    BY <1>2, <1>3, <1>9, <1>10, <1>12, <1>13, <2>1
       DEF StockBooks, ResetEntries, UpdateLabels, ResetLabels
<1>11. tries' \in [Threads -> 0 .. MaxTries] /\ requests' \in 0 .. MaxRequests
  BY <1>2, RunControllerAssumption DEF StockInv, TypeOK
<1> QED
  BY <1>4, <1>5, <1>6, <1>11, <1>14, <1>15 DEF StockInv, TypeOK

LEMMA ExpireStep ==
  ASSUME StockInv, Expire
  PROVE  StockInv'
<1>1. /\ \E k \in LockNames : ExpireKey(k)
      /\ UNCHANGED <<dbVars, pc, kind, who, todo, batch, due, seen, sourced, saved, pout, pin,
                     outcome, outflow, inflow, tries, requests>>
  BY DEF Expire, requestVars, workVars, pendingVars, bookVars
<1>2. PlanTypeOK'
  BY <1>1 DEF StockInv, TypeOK, PlanTypeOK, ExpireKey
<1>3. DatabaseTypeOK'
  BY <1>1 DEF StockInv, TypeOK, DatabaseTypeOK, dbVars
<1>4. BizTypeOK' /\ WorkOK'
  BY <1>1 DEF StockInv, TypeOK, BizTypeOK, WorkOK, ThreadOK
<1>5. StockBooks'
  <2>1. Within
    BY <1>1 DEF Within, Fails
  <2> QED
    BY <1>1, <2>1, StockUntouched DEF StockInv, StockBooks, dbVars
<1> QED
  BY <1>1, <1>2, <1>3, <1>4, <1>5 DEF StockInv, TypeOK, StockBooks

LEMMA StutterStep ==
  ASSUME StockInv, UNCHANGED vars
  PROVE  StockInv'
<1>1. UNCHANGED <<dbVars, planVars, pc, kind, who, todo, batch, due, seen, sourced, saved, pout,
                  pin, outcome, outflow, inflow, tries, requests>>
  BY DEF vars, requestVars, workVars, pendingVars, bookVars
<1>2. PlanTypeOK'
  BY <1>1 DEF StockInv, TypeOK, PlanTypeOK, planVars
<1>3. DatabaseTypeOK'
  BY <1>1 DEF StockInv, TypeOK, DatabaseTypeOK, dbVars
<1>4. BizTypeOK' /\ WorkOK'
  BY <1>1 DEF StockInv, TypeOK, BizTypeOK, WorkOK, ThreadOK
<1>5. StockBooks'
  <2>1. Within
    BY <1>1 DEF Within, Fails
  <2> QED
    BY <1>1, <2>1, StockUntouched DEF StockInv, StockBooks, dbVars
<1> QED
  BY <1>1, <1>2, <1>3, <1>4, <1>5 DEF StockInv, TypeOK, StockBooks

LEMMA InitStep == Init => StockInv
<1> SUFFICES ASSUME Init PROVE StockInv
  OBVIOUS
<1>1. CashInit \in Int /\ CreditInit \in Int /\ ProductStockMax \in Int
      /\ MaxTries \in Nat /\ MaxRequests \in Nat /\ Workload \in [Deployments -> SUBSET Kinds]
  BY TablesAssumption, RunControllerAssumption
<1>2. NoThread \notin Threads
  BY DatabaseAssumption
<1>3. DatabaseTypeOK
  <2>1. committed \in [Rows -> Int] /\ latest \in [Rows -> Int]
    BY <1>1 DEF Init, InitialRow
  <2>2. /\ holder \in [Rows -> Threads \cup {NoThread}] /\ shared \in [Threads -> SUBSET Rows]
        /\ view \in [Threads -> [Rows -> Int] \cup {NoView}]
        /\ missed \in [Threads -> SUBSET Rows]
    BY DEF Init
  <2> QED
    BY <1>1, <2>1, <2>2 DEF Init, DatabaseTypeOK
<1>4. PlanTypeOK
  BY DEF Init, PlanTypeOK
<1>5. BizTypeOK
  <2>1. /\ pc \in [Threads -> Labels] /\ kind \in [Threads -> Kinds \cup {"none"}]
        /\ who \in [Threads -> SUBSET Users] /\ todo \in [Threads -> SUBSET Nat]
        /\ outcome \in [Threads -> Outcomes]
    BY DEF Init, Labels, BizLabels, Outcomes
  <2>2. /\ batch \in [Threads -> [Products -> Nat]] /\ due \in [Threads -> Int]
        /\ seen \in [Threads -> Int] /\ sourced \in [Threads -> BOOLEAN]
    BY DEF Init, NoProducts
  <2>3. /\ DOMAIN saved = Threads
        /\ \A t \in Threads : /\ DOMAIN saved[t] \subseteq AccountRows
                              /\ saved[t] \in [DOMAIN saved[t] -> Int]
    BY DEF Init, NothingSaved
  <2>4. /\ pout \in [Threads -> [Rows -> Int]] /\ pin \in [Threads -> [Rows -> Int]]
        /\ outflow \in [Rows -> Int] /\ inflow \in [Rows -> Int]
    BY DEF Init, NoEntries
  <2> QED
    BY <2>1, <2>2, <2>3, <2>4 DEF BizTypeOK
<1>6. TypeOK
  BY <1>1, <1>3, <1>4, <1>5 DEF Init, TypeOK
<1>7. WorkOK
  BY DEF Init, WorkOK, ThreadOK
<1>8. \A p \in Products : /\ ProductRow(p) \in Rows
                          /\ InitialRow(ProductRow(p)) = ProductStockMax
  BY RowFacts DEF InitialRow, ProductRow
<1>9. StockEntries /\ FreeStockCommitted
  BY <1>2, <1>8 DEF Init, StockEntries, FreeStockCommitted, NoEntries
<1>10. StockBalance
  BY <1>1, <1>8 DEF Init, StockBalance, NoEntries
<1>11. ResetEntries
  BY DEF Init, ResetEntries, ResetLabels
<1> QED
  BY <1>6, <1>7, <1>9, <1>10, <1>11 DEF StockInv

LEMMA NextStep == StockInv /\ [Next]_vars => StockInv'
<1> SUFFICES ASSUME StockInv, [Next]_vars PROVE StockInv'
  OBVIOUS
<1>1. ASSUME NEW t \in Threads, BizStep(t) PROVE StockInv'
  <2>1. UNCHANGED <<tries, requests>>
    BY <1>1 DEF BizStep
  <2>2. CASE LockUser(t) \/ FillCart(t) \/ DrawFails(t) \/ FindInsufficient(t)
             \/ LockProduct(t) \/ LockTimeout(t) \/ LockThrows(t)
    BY <2>1, <2>2, LockUserStep, FillCartStep, DrawFailsStep, FindInsufficientStep,
       LockProductStep, LockTimeoutStep, LockThrowsStep
  <2>3. CASE CreateSource(t) \/ DeductStock(t) \/ SkipProduct(t)
    BY <2>1, <2>3, CreateSourceStep, DeductStockStep, SkipProductStep
  <2>4. CASE ReadCash(t) \/ PayBill(t) \/ Recharge(t) \/ Flush(t) \/ UpdateStatusCode(t)
    BY <2>1, <2>4, ReadCashStep, PayBillStep, RechargeStep, FlushStep, UpdateStatusCodeStep
  <2>5. CASE ReadStock(t) \/ Restock(t) \/ NextIdThrows(t)
    BY <2>1, <2>5, ReadStockStep, RestockStep, NextIdThrowsStep
  <2>6. CASE Unlock(t) \/ UnlockThrows(t) \/ CommitRefused(t) \/ StatementFails(t)
    BY <2>1, <2>6, UnlockStep, UnlockThrowsStep, CommitRefusedStep, StatementFailsStep
  <2>7. CASE \/ ResetRow(t) \/ ClearSources(t) \/ ClearItems(t)
             \/ ClearTrades(t) \/ ClearLogs(t) \/ ResetFails(t)
    BY <2>1, <2>7, ResetRowStep, ClearSourcesStep, ClearItemsStep, ClearTradesStep,
       ClearLogsStep, ResetFailsStep
  <2> QED
    BY <1>1, <2>2, <2>3, <2>4, <2>5, <2>6, <2>7 DEF BizStep
<1>2. ASSUME NEW t \in Threads, Execute(t) \/ Work(t) PROVE StockInv'
  BY <1>1, <1>2, ExecuteStep, CommitStep, RetryStep, GiveUpStep DEF Work
<1>3. CASE Expire
  BY <1>3, ExpireStep
<1>4. CASE Quiet \/ UNCHANGED vars
  BY <1>4, StutterStep DEF Quiet
<1> QED
  BY <1>2, <1>3, <1>4 DEF Next

-----------------------------------------------------------------------------
(* The uncommitted and the committed stock stay in step with the entries   *)
(* of the running transactions, in every deployment.                       *)
THEOREM StockInvariant == Spec => []StockInv
BY InitStep, NextStep, PTL DEF Spec

(* No step of any operation leaves the type of a variable, and doTask      *)
(* never repeats more often than its deadline allows.                      *)
THEOREM TypeCorrect == Spec => []TypeOK
<1>1. StockInv => TypeOK
  BY DEF StockInv
<1> QED
  BY <1>1, StockInvariant, PTL

(* The stock audit of sql/MySQLCheck.sql and sql/PGSQLCheck.sql finds      *)
(* nothing at any moment, whatever the lock plan and the isolation level:  *)
(* committed stock + order items - reload logs is the initial stock.       *)
THEOREM StockBalances == Spec => []StockBalance
<1>1. StockInv => StockBalance
  BY DEF StockInv
<1> QED
  BY <1>1, StockInvariant, PTL

-----------------------------------------------------------------------------
(***************************************************************************)
(* No account is ever overdrawn and no credit exceeds its maximum, in      *)
(* every deployment, lost updates and dirty reads included: whatever value *)
(* a statement read of an account was within the limits when it was        *)
(* written, and consume and calculationRecharge stay within them.          *)
(***************************************************************************)

(* what the row r of an account may hold *)
Fits(r, value) == value \in Nat /\ (r[1] = "account_credit" => value <= CreditInit)

(* every version of a row: committed, newest, and in a read view *)
RowsFit ==
  \A r \in AccountRows :
    /\ Fits(r, committed[r]) /\ Fits(r, latest[r])
    /\ \A t \in Threads : view[t] # NoView => Fits(r, view[t][r])

(* what an operation has drawn, read, and is to write *)
LocalsFit(t) ==
  /\ due[t] \in Nat
  /\ pc[t] = "credit" => seen[t] \in Nat
  /\ \A r \in DOMAIN saved[t] : Fits(r, saved[t][r])

LimitsInv == RowsFit /\ \A t \in Threads : LocalsFit(t)

-----------------------------------------------------------------------------
LEMMA AccountRowFacts ==
  /\ AccountRows \subseteq Rows
  /\ \A u \in Users : /\ CashRow(u) \in AccountRows /\ CreditRow(u) \in AccountRows
                      /\ CashRow(u)[1] = "account_cash" /\ CreditRow(u)[1] = "account_credit"
                      /\ CashRow(u) # CreditRow(u)
BY RowFacts DEF CashRow, CreditRow

LEMMA VisibleFits ==
  ASSUME RowsFit, NEW t \in Threads, NEW r \in AccountRows
  PROVE  Fits(r, Visible(t, r))
BY DEF RowsFit, Visible

(* What a statement leaves in the rows. *)
LEMMA StatementFits ==
  ASSUME DatabaseTypeOK, RowsFit, NEW t \in Threads,
         \/ UNCHANGED dbVars
         \/ Insert(t)
         \/ \E R : Read(t, R)
         \/ \E r : ForUpdateLock(t, r)
         \/ \E r, value, reads : Update(t, r, value, reads) /\ (r \in AccountRows => Fits(r, value))
         \/ CommitTransaction(t)
         \/ RollbackTransaction(t)
  PROVE  RowsFit'
<1>0. AccountRows \subseteq Rows
  BY AccountRowFacts
<1>1. ASSUME NEW plain, OpenView(t, plain)
      PROVE  \A r \in AccountRows, u \in Threads : view'[u] # NoView => Fits(r, view'[u][r])
  BY <1>1 DEF DatabaseTypeOK, RowsFit, OpenView
<1>2. CASE UNCHANGED dbVars
  BY <1>2 DEF dbVars, RowsFit
<1>3. CASE Insert(t) \/ \E R : Read(t, R)
  BY <1>1, <1>3 DEF Insert, Read, RowsFit
<1>4. CASE \E r : ForUpdateLock(t, r)
  BY <1>4 DEF ForUpdateLock, RowsFit
<1>5. CASE \E r, value, reads : Update(t, r, value, reads) /\ (r \in AccountRows => Fits(r, value))
  <2>1. PICK r, value, reads : Update(t, r, value, reads) /\ (r \in AccountRows => Fits(r, value))
    BY <1>5
  <2>2. committed' = committed /\ latest' = [latest EXCEPT ![r] = value] /\ OpenView(t, reads)
    BY <2>1 DEF Update
  <2>3. \A s \in AccountRows : Fits(s, latest'[s])
    BY <1>0, <2>1, <2>2 DEF DatabaseTypeOK, RowsFit
  <2> QED
    BY <1>1, <2>2, <2>3 DEF RowsFit
<1>6. CASE CommitTransaction(t) \/ RollbackTransaction(t)
  BY <1>0, <1>6 DEF CommitTransaction, RollbackTransaction, Forget, DatabaseTypeOK, RowsFit
<1> QED
  BY <1>2, <1>3, <1>4, <1>5, <1>6

(* The locals of the other threads stay as they are. *)
LEMMA OwnLocals ==
  ASSUME LimitsInv, NEW t \in Threads, RowsFit', LocalsFit(t)',
         \A u \in Threads \ {t} : /\ pc'[u] = pc[u] /\ due'[u] = due[u]
                                  /\ seen'[u] = seen[u] /\ saved'[u] = saved[u]
  PROVE  LimitsInv'
BY DEF LimitsInv, LocalsFit

(* A step that reads no account and plans no change of one. *)
LEMMA OtherSteps ==
  ASSUME StockInv, LimitsInv, NEW t \in Threads, RowsFit', pc'[t] # "credit",
         UNCHANGED <<due, saved>>,
         \A u \in Threads \ {t} : pc'[u] = pc[u] /\ seen'[u] = seen[u]
  PROVE  LimitsInv'
<1>1. LocalsFit(t)'
  BY DEF LimitsInv, LocalsFit
<1> QED
  BY <1>1, OwnLocals

LEMMA LeavePc ==
  ASSUME BizTypeOK, NEW t \in Threads, NEW o, Leave(t, o)
  PROVE  pc'[t] # "credit" /\ \A u \in Threads \ {t} : pc'[u] = pc[u]
BY DEF BizTypeOK, Leave, Ending

LEMMA GotoPc ==
  ASSUME BizTypeOK, NEW t \in Threads, NEW label, Goto(t, label)
  PROVE  pc'[t] = label /\ \A u \in Threads \ {t} : pc'[u] = pc[u]
BY DEF BizTypeOK, Goto

-----------------------------------------------------------------------------
(* The steps that leave the accounts alone. *)

LEMMA LockFits ==
  ASSUME StockInv, LimitsInv, NEW t \in Threads,
         LockUser(t) \/ LockProduct(t) \/ FillCart(t) \/ FindInsufficient(t)
  PROVE  LimitsInv'
<1>1. /\ UNCHANGED <<due, seen, saved>>
      /\ \/ UNCHANGED dbVars
         \/ \E R : Read(t, R)
         \/ \E r : ForUpdateLock(t, r)
  BY DEF LockUser, LockProduct, FillCart, FindInsufficient, PlanAcquire, workVars, pendingVars
<1>2. pc'[t] # "credit" /\ \A u \in Threads \ {t} : pc'[u] = pc[u]
  <2>1. CASE LockUser(t)
    BY <2>1, GotoPc DEF LockUser, StockInv, TypeOK
  <2>2. CASE LockProduct(t)
    BY <2>2, GotoPc DEF LockProduct, StockInv, TypeOK
  <2>3. CASE FillCart(t) \/ FindInsufficient(t)
    BY <2>3, GotoPc DEF FillCart, FindInsufficient, StockInv, TypeOK
  <2> QED
    BY <2>1, <2>2, <2>3
<1> QED
  BY <1>1, <1>2, StatementFits, OtherSteps DEF StockInv, TypeOK, LimitsInv

LEMMA LeaveFits ==
  ASSUME StockInv, LimitsInv, NEW t \in Threads,
         \/ DrawFails(t) \/ LockTimeout(t) \/ LockThrows(t) \/ StatementFails(t)
         \/ Unlock(t) \/ UnlockThrows(t) \/ CommitRefused(t) \/ UpdateStatusCode(t)
  PROVE  LimitsInv'
<1>1. UNCHANGED <<due, seen, saved, dbVars>>
  BY DEF DrawFails, LockTimeout, LockThrows, StatementFails, Unlock, UnlockThrows, CommitRefused,
         UpdateStatusCode, workVars, pendingVars
<1>2. pc'[t] # "credit" /\ \A u \in Threads \ {t} : pc'[u] = pc[u]
  <2>1. CASE DrawFails(t) \/ LockTimeout(t) \/ LockThrows(t) \/ StatementFails(t)
    BY <2>1, LeavePc DEF DrawFails, LockTimeout, LockThrows, StatementFails, StockInv, TypeOK
  <2>2. CASE UpdateStatusCode(t)
    BY <2>2, LeavePc, GotoPc DEF UpdateStatusCode, StockInv, TypeOK
  <2>3. CASE Unlock(t)
    BY <2>3, GotoPc DEF Unlock, Ending, StockInv, TypeOK
  <2>4. CASE CommitRefused(t) \/ UnlockThrows(t)
    BY <2>4 DEF CommitRefused, UnlockThrows, StockInv, TypeOK, BizTypeOK
  <2> QED
    BY <2>1, <2>2, <2>3, <2>4
<1> QED
  BY <1>1, <1>2, StatementFits, OtherSteps DEF StockInv, TypeOK, LimitsInv

LEMMA NextItemPc ==
  ASSUME BizTypeOK, NEW t \in Threads, pc[t] = "deduct", NEW p, NEW entries, NextItem(t, p, entries)
  PROVE  pc'[t] # "credit" /\ \A u \in Threads \ {t} : pc'[u] = pc[u]
BY LeavePc, GotoPc DEF NextItem

LEMMA ProductNoAccount ==
  ASSUME StockInv, NEW t \in Threads, pc[t] \in {"deduct", "reload", "restock"}
  PROVE  ProductRow(First(todo[t])) \notin AccountRows
BY ProductFacts, RowFacts

LEMMA StockFits ==
  ASSUME StockInv, LimitsInv, NEW t \in Threads, SkipProduct(t) \/ ReadStock(t) \/ Restock(t)
  PROVE  LimitsInv'
<1>1. CASE SkipProduct(t)
  <2>1. /\ Insert(t) /\ UNCHANGED <<due, seen, saved>>
        /\ pc'[t] # "credit" /\ \A u \in Threads \ {t} : pc'[u] = pc[u]
    BY <1>1, NextItemPc DEF SkipProduct, workVars, pendingVars, StockInv, TypeOK
  <2> QED
    BY <2>1, StatementFits, OtherSteps DEF StockInv, TypeOK, LimitsInv
<1>2. CASE ReadStock(t)
  <2>1. /\ UNCHANGED dbVars \/ \E R : Read(t, R)
        /\ UNCHANGED <<due, saved>> /\ Goto(t, "restock")
        /\ \E value : seen' = [seen EXCEPT ![t] = value]
    BY <1>2 DEF ReadStock, pendingVars
  <2>2. pc'[t] # "credit" /\ \A u \in Threads \ {t} : pc'[u] = pc[u] /\ seen'[u] = seen[u]
    BY <2>1, GotoPc DEF StockInv, TypeOK, BizTypeOK
  <2> QED
    BY <2>1, <2>2, StatementFits, OtherSteps DEF StockInv, TypeOK, LimitsInv
<1>3. CASE Restock(t)
  <2>1. /\ \E value : Update(t, ProductRow(First(todo[t])), value, FALSE)
        /\ UNCHANGED <<due, seen, saved>> /\ pc[t] = "restock"
        /\ (\E o : Leave(t, o)) \/ Goto(t, "reload")
    BY <1>3 DEF Restock, workVars
  <2>2. pc'[t] # "credit" /\ \A u \in Threads \ {t} : pc'[u] = pc[u]
    BY <2>1, LeavePc, GotoPc DEF StockInv, TypeOK
  <2>3. RowsFit'
    BY <2>1, StatementFits, ProductNoAccount DEF StockInv, TypeOK, LimitsInv
  <2> QED
    BY <2>1, <2>2, <2>3, OtherSteps
<1> QED
  BY <1>1, <1>2, <1>3

LEMMA NextIdFits ==
  ASSUME StockInv, LimitsInv, NEW t \in Threads, NextIdThrows(t)
  PROVE  LimitsInv'
<1>1. /\ UNCHANGED <<due, seen, saved>> /\ \E o : Leave(t, o)
      /\ \/ UNCHANGED dbVars
         \/ \E R : Read(t, R)
         \/ /\ pc[t] = "restock"
            /\ \E value : Update(t, ProductRow(First(todo[t])), value, FALSE)
  BY DEF NextIdThrows, workVars, pendingVars
<1>2. pc'[t] # "credit" /\ \A u \in Threads \ {t} : pc'[u] = pc[u]
  BY <1>1, LeavePc DEF StockInv, TypeOK
<1>3. RowsFit'
  BY <1>1, StatementFits, ProductNoAccount DEF StockInv, TypeOK, LimitsInv
<1> QED
  BY <1>1, <1>2, <1>3, OtherSteps

-----------------------------------------------------------------------------
(* The steps that draw an amount or a price. *)

LEMMA SourceFits ==
  ASSUME StockInv, LimitsInv, NEW t \in Threads, CreateSource(t)
  PROVE  LimitsInv'
<1>1. PICK amount \in Nat : due' = [due EXCEPT ![t] = amount]
  <2>1. BillAmounts \subseteq Nat /\ RechargeAmounts \subseteq Nat
    BY TablesAssumption
  <2> QED
    BY <2>1 DEF CreateSource
<1>2. Insert(t) /\ UNCHANGED <<seen, saved>>
  BY DEF CreateSource, pendingVars
<1>3. pc'[t] # "credit" /\ \A u \in Threads \ {t} : pc'[u] = pc[u]
  BY GotoPc DEF CreateSource, StockInv, TypeOK
<1>4. LocalsFit(t)' /\ \A u \in Threads \ {t} : due'[u] = due[u]
  BY <1>1, <1>2, <1>3 DEF LimitsInv, LocalsFit, StockInv, TypeOK, BizTypeOK
<1>5. RowsFit'
  BY <1>2, StatementFits DEF StockInv, TypeOK, LimitsInv
<1> QED
  BY <1>2, <1>3, <1>4, <1>5, OwnLocals

LEMMA ItemPriceFits ==
  ASSUME NEW p \in Products, NEW n \in Nat
  PROVE  ItemPrice(OriginalPrice[p], Discount[p], n) \in Nat
<1> DEFINE a == OriginalPrice[p]
           b == Discount[p]
<1>1. a \in Nat /\ b \in Nat
  BY TablesAssumption
<1> HIDE DEF a, b
<1>2. a * b \in Nat
  BY <1>1
<1> DEFINE c == a * b
<1>3. c * n \in Nat
  <2> HIDE DEF c
  <2> QED
    BY <1>2 DEF c
<1> DEFINE d == c * n
<1>4. d \div 100 \in Nat
  <2> HIDE DEF d
  <2>1. d \in Nat
    BY <1>3 DEF d
  <2> QED
    BY <2>1
<1> QED
  BY <1>4 DEF ItemPrice, a, b

LEMMA DeductFits ==
  ASSUME StockInv, LimitsInv, NEW t \in Threads, DeductStock(t)
  PROVE  LimitsInv'
<1> DEFINE p == First(todo[t])
           price == ItemPrice(OriginalPrice[p], Discount[p], batch[t][p])
<1>1. /\ \E value, reads : Update(t, ProductRow(p), value, reads)
      /\ due' = [due EXCEPT ![t] = @ + price]
      /\ UNCHANGED <<seen, saved>> /\ pc[t] = "deduct"
      /\ \E entries : NextItem(t, p, entries)
  BY DEF DeductStock
<1>2. price \in Nat
  BY <1>1, ProductFacts, ItemPriceFits DEF StockInv, TypeOK, BizTypeOK
<1>3. pc'[t] # "credit" /\ \A u \in Threads \ {t} : pc'[u] = pc[u]
  BY <1>1, NextItemPc DEF StockInv, TypeOK
<1>4. RowsFit'
  BY <1>1, ProductNoAccount, StatementFits DEF StockInv, TypeOK, LimitsInv
<1> HIDE DEF price
<1>5. LocalsFit(t)' /\ \A u \in Threads \ {t} : due'[u] = due[u]
  BY <1>1, <1>2, <1>3 DEF LimitsInv, LocalsFit, StockInv, TypeOK, BizTypeOK
<1> QED
  BY <1>1, <1>3, <1>4, <1>5, OwnLocals

-----------------------------------------------------------------------------
(* The steps that work on an account. *)

LEMMA ReadCashFits ==
  ASSUME StockInv, LimitsInv, NEW t \in Threads, ReadCash(t)
  PROVE  LimitsInv'
<1> DEFINE r == CashRow(Account(t))
<1>1. /\ pc[t] = "cash" /\ Read(t, {r}) /\ Goto(t, "credit")
      /\ seen' = [seen EXCEPT ![t] = Visible(t, r)] /\ UNCHANGED <<due, saved>>
  BY DEF ReadCash, pendingVars
<1>2. r \in AccountRows
  BY <1>1, AccountFacts, AccountRowFacts
<1>3. Visible(t, r) \in Nat
  BY <1>2, VisibleFits DEF LimitsInv, Fits
<1> HIDE DEF r
<1>4. LocalsFit(t)' /\ \A u \in Threads \ {t} : seen'[u] = seen[u]
  BY <1>1, <1>3 DEF LimitsInv, LocalsFit, StockInv, TypeOK, BizTypeOK
<1>5. RowsFit'
  BY <1>1, StatementFits DEF StockInv, TypeOK, LimitsInv
<1>6. \A u \in Threads \ {t} : pc'[u] = pc[u]
  BY <1>1, GotoPc DEF StockInv, TypeOK
<1> QED
  BY <1>1, <1>4, <1>5, <1>6, OwnLocals

(* The new balances are within the limits, and nothing else is kept. *)
LEMMA SaveFits ==
  ASSUME StockInv, LimitsInv, NEW t \in Threads, NEW a \in Users,
         NEW cash \in Nat, NEW credit \in Nat, credit <= CreditInit, NEW oldCredit,
         Save(t, a, cash, credit, oldCredit), \E R : Read(t, R),
         UNCHANGED due, UNCHANGED seen,
         pc'[t] # "credit", \A u \in Threads \ {t} : pc'[u] = pc[u]
  PROVE  LimitsInv'
<1> DEFINE D == (IF cash # seen[t] THEN {CashRow(a)} ELSE {}) \cup
                (IF credit # oldCredit THEN {CreditRow(a)} ELSE {})
           f == [r \in D |-> IF r = CashRow(a) THEN cash ELSE credit]
<1>1. \A r \in D : Fits(r, f[r])
  BY AccountRowFacts DEF Fits
<1>2. DOMAIN f = D /\ saved' = [saved EXCEPT ![t] = f]
  BY DEF Save
<1> HIDE DEF f, D
<1>3. LocalsFit(t)' /\ \A u \in Threads \ {t} : saved'[u] = saved[u]
  BY <1>1, <1>2 DEF LimitsInv, LocalsFit, StockInv, TypeOK, BizTypeOK
<1>4. RowsFit'
  BY StatementFits DEF StockInv, TypeOK, LimitsInv
<1> QED
  BY <1>3, <1>4, OwnLocals

(* what an operation knows of its user's accounts *)
LEMMA BalanceFacts ==
  ASSUME StockInv, LimitsInv, NEW t \in Threads, pc[t] = "credit"
  PROVE  /\ Account(t) \in Users /\ due[t] \in Nat /\ seen[t] \in Nat
         /\ Visible(t, CreditRow(Account(t))) \in Nat
         /\ Visible(t, CreditRow(Account(t))) <= CreditInit /\ CreditInit \in Nat
<1>1. Account(t) \in Users
  BY AccountFacts
<1>2. Fits(CreditRow(Account(t)), Visible(t, CreditRow(Account(t))))
  BY <1>1, AccountRowFacts, VisibleFits DEF LimitsInv
<1> QED
  BY <1>1, <1>2, AccountRowFacts, TablesAssumption DEF LimitsInv, LocalsFit, Fits

LEMMA PayBillFits ==
  ASSUME StockInv, LimitsInv, NEW t \in Threads, PayBill(t)
  PROVE  LimitsInv'
<1> DEFINE a      == Account(t)
           credit == Visible(t, CreditRow(a))
           result == Consume(seen[t], credit, due[t])
<1>1. pc[t] = "credit" /\ (\E R : Read(t, R)) /\ UNCHANGED <<due, seen>>
  BY DEF PayBill, workVars
<1>2. \/ Leave(t, "biz") /\ UNCHANGED saved
      \/ /\ Save(t, a, result.cash, result.credit, credit)
         /\ Leave(t, "ok") \/ Goto(t, "status")
  <2>1. CASE kind[t] = "package" /\ result.debt > 0
    BY <2>1 DEF PayBill
  <2>2. CASE ~(kind[t] = "package" /\ result.debt > 0)
    BY <2>2 DEF PayBill
  <2> QED
    BY <2>1, <2>2
<1>3. a \in Users /\ result.cash \in Nat /\ result.credit \in Nat /\ result.credit <= CreditInit
  <2>1. result.cash \in 0 .. seen[t] /\ result.credit \in 0 .. credit
    <3>1. seen[t] \in Nat /\ credit \in Nat /\ due[t] \in Nat
      BY <1>1, BalanceFacts
    <3> HIDE DEF credit
    <3> QED
      BY <3>1, ConsumeLimits
  <2> HIDE DEF result
  <2> QED
    BY <1>1, <2>1, BalanceFacts
<1> HIDE DEF a, credit, result
<1>4. pc'[t] # "credit" /\ \A u \in Threads \ {t} : pc'[u] = pc[u]
  BY <1>2, LeavePc, GotoPc DEF StockInv, TypeOK
<1>5. CASE UNCHANGED saved
  BY <1>1, <1>4, <1>5, StatementFits, OtherSteps DEF StockInv, TypeOK, LimitsInv
<1>6. CASE Save(t, a, result.cash, result.credit, credit)
  BY <1>1, <1>3, <1>4, <1>6, SaveFits
<1> QED
  BY <1>2, <1>5, <1>6

LEMMA RechargeFits ==
  ASSUME StockInv, LimitsInv, NEW t \in Threads, Recharge(t)
  PROVE  LimitsInv'
<1> DEFINE a      == Account(t)
           credit == Visible(t, CreditRow(a))
           result == CalculationRecharge(due[t], seen[t], credit, CreditInit)
<1>1. /\ pc[t] = "credit" /\ (\E R : Read(t, R)) /\ UNCHANGED <<due, seen>>
      /\ Save(t, a, result.cash, result.credit, credit) /\ Goto(t, "status")
  BY DEF Recharge, workVars
<1>3. a \in Users /\ result.cash \in Nat /\ result.credit \in Nat /\ result.credit <= CreditInit
  <2>1. result.cash \in Int /\ result.cash >= seen[t] /\ result.credit \in credit .. CreditInit
    <3>1. /\ seen[t] \in Nat /\ due[t] \in Nat /\ CreditInit \in Nat
          /\ credit \in 0 .. CreditInit
      BY <1>1, BalanceFacts
    <3> HIDE DEF credit
    <3>2. result.cash \in Int
      <4>1. seen[t] \in Int /\ due[t] \in Int /\ CreditInit \in Int /\ credit \in Int
        BY <3>1
      <4> QED
        BY <4>1, RechargeConserves
    <3>3. result.cash >= seen[t] /\ result.credit \in credit .. CreditInit
      BY <3>1, RechargeLimits
    <3> QED
      BY <3>2, <3>3
  <2> HIDE DEF result
  <2> QED
    BY <1>1, <2>1, BalanceFacts
<1> HIDE DEF a, credit, result
<1>4. pc'[t] # "credit" /\ \A u \in Threads \ {t} : pc'[u] = pc[u]
  BY <1>1, GotoPc DEF StockInv, TypeOK
<1> QED
  BY <1>1, <1>3, <1>4, SaveFits

LEMMA FlushFits ==
  ASSUME StockInv, LimitsInv, NEW t \in Threads, Flush(t)
  PROVE  LimitsInv'
<1> DEFINE row == NextWrite(t)
<1>1. /\ saved[t] # NothingSaved /\ Update(t, row, saved[t][row], FALSE)
      /\ saved' = [saved EXCEPT ![t] = Restrict(@, DOMAIN @ \ {row})]
      /\ UNCHANGED <<pc, due, seen>>
  BY DEF Flush, workVars
<1>2. row \in DOMAIN saved[t]
  BY <1>1, NextWriteFacts DEF StockInv, TypeOK
<1> HIDE DEF row
<1>3. Fits(row, saved[t][row])
  BY <1>2 DEF LimitsInv, LocalsFit
<1>4. RowsFit'
  BY <1>1, <1>3, StatementFits DEF StockInv, TypeOK, LimitsInv
<1>5. LocalsFit(t)' /\ \A u \in Threads \ {t} : saved'[u] = saved[u]
  BY <1>1 DEF Restrict, LimitsInv, LocalsFit, StockInv, TypeOK, BizTypeOK
<1> QED
  BY <1>1, <1>4, <1>5, OwnLocals

-----------------------------------------------------------------------------
(* The ends of a request, and the reset. *)

LEMMA EndFits ==
  ASSUME StockInv, LimitsInv, NEW t \in Threads, Commit(t) \/ GiveUp(t) \/ Retry(t)
  PROVE  LimitsInv'
<1>1. /\ CommitTransaction(t) \/ RollbackTransaction(t)
      /\ Clear(t) /\ pc' \in {[pc EXCEPT ![t] = "idle"], [pc EXCEPT ![t] = FirstStep(kind[t])]}
  BY DEF Commit, GiveUp, Retry, CommitBiz, CommitReset, RollbackBiz, RollbackReset, Answer
<1>2. RowsFit'
  BY <1>1, StatementFits DEF StockInv, TypeOK, LimitsInv
<1>3. pc'[t] # "credit" /\ \A u \in Threads \ {t} : pc'[u] = pc[u]
  BY <1>1 DEF FirstStep, StockInv, TypeOK, BizTypeOK
<1>4. /\ due'[t] = 0 /\ DOMAIN saved'[t] = {}
      /\ \A u \in Threads \ {t} : due'[u] = due[u] /\ seen'[u] = seen[u] /\ saved'[u] = saved[u]
  BY <1>1 DEF Clear, NothingSaved, StockInv, TypeOK, BizTypeOK
<1>5. LocalsFit(t)'
  BY <1>3, <1>4 DEF LocalsFit
<1> QED
  BY <1>2, <1>3, <1>4, <1>5, OwnLocals

LEMMA ResetRowFits ==
  ASSUME StockInv, LimitsInv, NEW t \in Threads, ResetRow(t)
  PROVE  LimitsInv'
<1>1. PICK id \in todo[t] : latest' = [latest EXCEPT ![ResetTable(pc[t], id)] =
                                          InitialRow(ResetTable(pc[t], id))]
  BY DEF ResetRow
<1> DEFINE r == ResetTable(pc[t], id)
<1>2. /\ pc[t] \in UpdateLabels /\ UNCHANGED <<committed, view, due, seen, saved>>
      /\ pc'[t] # "credit" /\ \A u \in Threads \ {t} : pc'[u] = pc[u]
  BY DEF ResetRow, UpdateLabels, NextUpdate, workVars, pendingVars, StockInv, TypeOK, BizTypeOK
<1>3. r \in AccountRows => Fits(r, InitialRow(r))
  <2>1. CashInit \in Nat /\ CreditInit \in Nat
    BY TablesAssumption
  <2>2. \A s \in AccountRows : Fits(s, InitialRow(s))
    BY <2>1 DEF Fits, InitialRow, AccountRows, CashRow, CreditRow
  <2> QED
    BY <2>2
<1>4. RowsFit'
  BY <1>1, <1>2, <1>3, AccountRowFacts DEF LimitsInv, RowsFit, StockInv, TypeOK, DatabaseTypeOK
<1> QED
  BY <1>2, <1>4, OtherSteps

(* the rest of the reset, and the beginning of a request *)
LEMMA ApartFits ==
  ASSUME StockInv, LimitsInv, NEW t \in Threads,
         \/ ClearSources(t) \/ ClearItems(t) \/ ClearTrades(t) \/ ClearLogs(t)
         \/ ResetFails(t) \/ Execute(t)
  PROVE  LimitsInv'
<1>1. UNCHANGED <<dbVars, due, seen, saved>>
  BY DEF ClearSources, ClearItems, ClearTrades, ClearLogs, ResetFails, Execute, workVars,
         pendingVars
<1>2. pc'[t] # "credit" /\ \A u \in Threads \ {t} : pc'[u] = pc[u]
  <2>1. CASE \/ ClearSources(t) \/ ClearItems(t) \/ ClearTrades(t) \/ ClearLogs(t)
             \/ ResetFails(t)
    BY <2>1 DEF ClearSources, SourceLabels, NextClear, ClearItems, ClearTrades, ClearLogs,
       ResetFails, StockInv, TypeOK, BizTypeOK
  <2>2. CASE Execute(t)
    <3>1. PICK k : pc' = [pc EXCEPT ![t] = FirstStep(k)]
      BY <2>2 DEF Execute
    <3> QED
      BY <3>1 DEF FirstStep, StockInv, TypeOK, BizTypeOK
  <2> QED
    BY <2>1, <2>2
<1> QED
  BY <1>1, <1>2, StatementFits, OtherSteps DEF StockInv, TypeOK, LimitsInv

LEMMA UnchangedFits ==
  ASSUME LimitsInv, Expire \/ Quiet \/ UNCHANGED vars
  PROVE  LimitsInv'
<1>1. UNCHANGED <<dbVars, pc, due, seen, saved>>
  BY DEF Expire, Quiet, vars, workVars, pendingVars
<1> QED
  BY <1>1 DEF LimitsInv, RowsFit, LocalsFit, dbVars

LEMMA LimitsInit == Init => LimitsInv
<1> SUFFICES ASSUME Init PROVE LimitsInv
  OBVIOUS
<1>1. CashInit \in Nat /\ CreditInit \in Nat
  BY TablesAssumption
<1>2. \A r \in AccountRows : r \in Rows /\ Fits(r, InitialRow(r))
  BY <1>1, AccountRowFacts DEF Fits, InitialRow, AccountRows, CashRow, CreditRow
<1>3. RowsFit
  BY <1>2 DEF Init, RowsFit
<1>4. \A t \in Threads : LocalsFit(t)
  BY DEF Init, LocalsFit, NothingSaved
<1> QED
  BY <1>3, <1>4 DEF LimitsInv

LEMMA LimitsNext == StockInv /\ LimitsInv /\ [Next]_vars => LimitsInv'
<1> SUFFICES ASSUME StockInv, LimitsInv, [Next]_vars PROVE LimitsInv'
  OBVIOUS
<1>1. ASSUME NEW t \in Threads, BizStep(t) PROVE LimitsInv'
  <2>1. CASE LockUser(t) \/ LockProduct(t) \/ FillCart(t) \/ FindInsufficient(t)
    BY <2>1, LockFits
  <2>2. CASE \/ DrawFails(t) \/ LockTimeout(t) \/ LockThrows(t) \/ StatementFails(t)
             \/ Unlock(t) \/ UnlockThrows(t) \/ CommitRefused(t) \/ UpdateStatusCode(t)
    BY <2>2, LeaveFits
  <2>3. CASE CreateSource(t) \/ DeductStock(t)
    BY <2>3, SourceFits, DeductFits
  <2>4. CASE SkipProduct(t) \/ ReadStock(t) \/ Restock(t) \/ NextIdThrows(t)
    BY <2>4, StockFits, NextIdFits
  <2>5. CASE ReadCash(t) \/ PayBill(t) \/ Recharge(t) \/ Flush(t)
    BY <2>5, ReadCashFits, PayBillFits, RechargeFits, FlushFits
  <2>6. CASE \/ ResetRow(t) \/ ClearSources(t) \/ ClearItems(t) \/ ClearTrades(t)
             \/ ClearLogs(t) \/ ResetFails(t)
    BY <2>6, ResetRowFits, ApartFits
  <2> QED
    BY <1>1, <2>1, <2>2, <2>3, <2>4, <2>5, <2>6 DEF BizStep
<1>2. ASSUME NEW t \in Threads, Execute(t) \/ Work(t) PROVE LimitsInv'
  BY <1>1, <1>2, ApartFits, EndFits DEF Work
<1>3. CASE Expire \/ Quiet \/ UNCHANGED vars
  BY <1>3, UnchangedFits
<1> QED
  BY <1>2, <1>3 DEF Next

-----------------------------------------------------------------------------
(* consume and calculationRecharge never overdraw an account and never     *)
(* lift a credit above its maximum, whatever the lock plan and the         *)
(* isolation level, and however stale the balances they work with are.     *)
THEOREM AccountsStayWithinLimits == Spec => []AccountsWithinLimits
<1>1. Init => StockInv /\ LimitsInv
  BY InitStep, LimitsInit
<1>2. StockInv /\ LimitsInv /\ [Next]_vars => (StockInv /\ LimitsInv)'
  BY NextStep, LimitsNext
<1>3. LimitsInv => AccountsWithinLimits
  BY AccountRowFacts DEF LimitsInv, RowsFit, Fits, AccountsWithinLimits
<1> QED
  BY <1>1, <1>2, <1>3, PTL DEF Spec

-----------------------------------------------------------------------------
(***************************************************************************)
(* What the users paid is the price of what was delivered to them, in      *)
(* every deployment: doPackageBill adds up the prices of the items it      *)
(* inserts, inserts a trade of that sum in the same transaction, and       *)
(* refuses a debt; a reset clears the items and the trades.  The item      *)
(* prices are to need no rounding, since the audit multiplies sums.        *)
(***************************************************************************)

PricesExact == \A p \in Products : (OriginalPrice[p] * Discount[p]) % 100 = 0

(* prices that need no rounding, and no bills but those of orders *)
OrdersOnly == PricesExact /\ "usage" \notin Workload[conf]

(* the trades, and the prices of the order items, among some entries *)
Paid(book) == SumFunctionOnSet([u \in Users |-> book[UserRow(u)]], Users)

PriceOf(p, n) == ItemPrice(OriginalPrice[p], Discount[p], n)
Delivered(book) ==
  SumFunctionOnSet([p \in Products |-> PriceOf(p, book[ProductRow(p)])], Products)

-----------------------------------------------------------------------------
(* The inductive invariant. *)

(* steps before an operation has anything to sell, or of one that does not *)
SellsNothing == {"idle", "lockUser", "cart", "find", "lockProduct", "source",
                 "status", "reload", "restock"}

(* steps of a reset that has not cleared the trades *)
BeforeTrades == UpdateLabels \cup SourceLabels \cup {"clearItems", "clearTrades"}

PaysItems(t) ==
  /\ kind[t] # "usage"
  /\ \/ pc[t] \in SellsNothing
     \/ (pc[t] \in {"cash", "credit"} /\ kind[t] # "package")
     => pout[t] = NoEntries
  /\ pc[t] \in {"deduct", "cash", "credit"} /\ kind[t] = "package" =>
       Paid(pout[t]) = 0 /\ Delivered(pout[t]) = due[t]
  /\ pc[t] = "commit" \/ (pc[t] = "unlock" /\ outcome[t] = "ok") =>
       Paid(pout[t]) = Delivered(pout[t])
  /\ pc[t] \in BeforeTrades => Paid(pout[t]) = 0
  /\ pc[t] \in {"clearLogs", "resetCommit"} => Paid(pout[t]) = -Paid(outflow)

PaymentInv ==
  OrdersOnly => Paid(outflow) = Delivered(outflow) /\ \A t \in Threads : PaysItems(t)

-----------------------------------------------------------------------------
(* Sums of entries. *)

LEMMA BookRows ==
  /\ IsFiniteSet(Users) /\ IsFiniteSet(Products)
  /\ \A u \in Users : UserRow(u) \in Rows
  /\ \A p \in Products : ProductRow(p) \in Rows
  /\ \A u \in Users, p \in Products : UserRow(u) # ProductRow(p)
  /\ \A u, v \in Users : u # v => UserRow(u) # UserRow(v)
  /\ \A p, q \in Products : p # q => ProductRow(p) # ProductRow(q)
BY TablesAssumption DEF Rows, UserRows, ProductRows, UserRow, ProductRow

(* Without rounding, prices are added like numbers of items. *)
LEMMA PriceFacts ==
  ASSUME PricesExact, NEW p \in Products, NEW m \in Int, NEW n \in Int
  PROVE  /\ PriceOf(p, n) \in Int /\ PriceOf(p, 0) = 0
         /\ PriceOf(p, m + n) = PriceOf(p, m) + PriceOf(p, n)
<1> DEFINE c == OriginalPrice[p] * Discount[p]
           q == c \div 100
<1>1. OriginalPrice[p] \in Nat /\ Discount[p] \in Nat
  BY TablesAssumption
<1>2. c \in Int /\ c % 100 = 0
  BY <1>1 DEF PricesExact
<1>3. q \in Int /\ c = 100 * q
  <2> HIDE DEF c
  <2> QED BY <1>2
<1>4. ASSUME NEW k \in Int PROVE PriceOf(p, k) = q * k
  <2>1. PriceOf(p, k) = (c * k) \div 100
    BY DEF PriceOf, ItemPrice
  <2> HIDE DEF c, q
  <2>2. c * k = 100 * (q * k)
    BY <1>3
  <2>3. q * k \in Int
    BY <1>3
  <2> DEFINE d == q * k
  <2>4. (100 * d) \div 100 = d
    <3> HIDE DEF d
    <3> QED BY <2>3 DEF d
  <2> QED
    BY <2>1, <2>2, <2>4
<1> HIDE DEF c, q
<1>5. q * (m + n) = q * m + q * n /\ q * n \in Int /\ q * 0 = 0
  BY <1>3
<1>6. m + n \in Int
  OBVIOUS
<1> QED
  BY <1>4, <1>5, <1>6

LEMMA BookTypes ==
  ASSUME PricesExact, NEW f \in [Rows -> Int]
  PROVE  Paid(f) \in Int /\ Delivered(f) \in Int
<1>1. \A u \in Users : [v \in Users |-> f[UserRow(v)]][u] \in Int
  BY BookRows
<1>2. \A p \in Products : [q \in Products |-> PriceOf(q, f[ProductRow(q)])][p] \in Int
  BY BookRows, PriceFacts
<1> QED
  BY <1>1, <1>2, BookRows, SumType DEF Paid, Delivered

LEMMA BookAdd ==
  ASSUME PricesExact, NEW f \in [Rows -> Int], NEW g \in [Rows -> Int], NEW h,
         h = [r \in Rows |-> f[r] + g[r]]
  PROVE  Paid(h) = Paid(f) + Paid(g) /\ Delivered(h) = Delivered(f) + Delivered(g)
<1> DEFINE P(b) == [u \in Users |-> b[UserRow(u)]]
           D(b) == [p \in Products |-> PriceOf(p, b[ProductRow(p)])]
<1>1. \A u \in Users : P(f)[u] \in Int /\ P(g)[u] \in Int /\ P(h)[u] = P(f)[u] + P(g)[u]
  BY BookRows
<1>2. \A p \in Products : D(f)[p] \in Int /\ D(g)[p] \in Int /\ D(h)[p] = D(f)[p] + D(g)[p]
  <2>1. SUFFICES ASSUME NEW p \in Products
                 PROVE  D(f)[p] \in Int /\ D(g)[p] \in Int /\ D(h)[p] = D(f)[p] + D(g)[p]
    OBVIOUS
  <2>2. /\ f[ProductRow(p)] \in Int /\ g[ProductRow(p)] \in Int
        /\ h[ProductRow(p)] = f[ProductRow(p)] + g[ProductRow(p)]
    BY BookRows
  <2> QED
    BY <2>2, PriceFacts
<1> HIDE DEF P, D
<1>3. SumFunctionOnSet(P(h), Users) = SumFunctionOnSet(P(f), Users) + SumFunctionOnSet(P(g), Users)
  BY <1>1, BookRows, SumAdd
<1>4. SumFunctionOnSet(D(h), Products)
        = SumFunctionOnSet(D(f), Products) + SumFunctionOnSet(D(g), Products)
  BY <1>2, BookRows, SumAdd
<1> QED
  BY <1>3, <1>4 DEF Paid, Delivered, P, D

LEMMA BookEmpty ==
  ASSUME PricesExact
  PROVE  Paid(NoEntries) = 0 /\ Delivered(NoEntries) = 0
<1>1. \A u \in Users : [v \in Users |-> NoEntries[UserRow(v)]][u] = 0
  BY BookRows DEF NoEntries
<1>2. \A p \in Products : [q \in Products |-> PriceOf(q, NoEntries[ProductRow(q)])][p] = 0
  BY BookRows, PriceFacts DEF NoEntries
<1> QED
  BY <1>1, <1>2, BookRows, SumZero DEF Paid, Delivered

(* Sums look only at their own rows. *)
LEMMA BookSame ==
  ASSUME NEW f, NEW g
  PROVE  /\ (\A u \in Users : f[UserRow(u)] = g[UserRow(u)]) => Paid(f) = Paid(g)
         /\ (\A p \in Products : f[ProductRow(p)] = g[ProductRow(p)]) => Delivered(f) = Delivered(g)
<1>1. ASSUME \A u \in Users : f[UserRow(u)] = g[UserRow(u)] PROVE Paid(f) = Paid(g)
  BY <1>1 DEF Paid
<1>2. ASSUME \A p \in Products : f[ProductRow(p)] = g[ProductRow(p)]
      PROVE  Delivered(f) = Delivered(g)
  BY <1>2 DEF Delivered
<1> QED
  BY <1>1, <1>2

(* one trade more, or one item more *)
LEMMA TradeAdded ==
  ASSUME PricesExact, NEW f \in [Rows -> Int], NEW a \in Users, NEW n \in Int, NEW g,
         g = [f EXCEPT ![UserRow(a)] = @ + n]
  PROVE  Paid(g) = Paid(f) + n /\ Delivered(g) = Delivered(f)
<1> DEFINE P(b) == [u \in Users |-> b[UserRow(u)]]
<1>1. /\ \A u \in Users : P(f)[u] \in Int
      /\ \A u \in Users \ {a} : P(g)[u] = P(f)[u]
      /\ P(g)[a] = P(f)[a] + n
  BY BookRows
<1> HIDE DEF P
<1>2. SumFunctionOnSet(P(g), Users) = SumFunctionOnSet(P(f), Users) + n
  BY <1>1, BookRows, SumPoint
<1>3. \A p \in Products : g[ProductRow(p)] = f[ProductRow(p)]
  BY BookRows
<1> QED
  BY <1>2, <1>3, BookSame DEF Paid, P

LEMMA ItemAdded ==
  ASSUME PricesExact, NEW f \in [Rows -> Int], NEW p \in Products, NEW n \in Int, NEW g,
         g = [f EXCEPT ![ProductRow(p)] = @ + n]
  PROVE  Paid(g) = Paid(f) /\ Delivered(g) = Delivered(f) + PriceOf(p, n)
<1> DEFINE D(b) == [q \in Products |-> PriceOf(q, b[ProductRow(q)])]
<1>1. /\ \A q \in Products : D(f)[q] \in Int
      /\ \A q \in Products \ {p} : D(g)[q] = D(f)[q]
      /\ D(g)[p] = D(f)[p] + PriceOf(p, n) /\ PriceOf(p, n) \in Int
  <2>1. \A q \in Products : f[ProductRow(q)] \in Int
    BY BookRows
  <2>2. \A q \in Products \ {p} : g[ProductRow(q)] = f[ProductRow(q)]
    BY BookRows
  <2>3. g[ProductRow(p)] = f[ProductRow(p)] + n
    BY BookRows
  <2>4. /\ PriceOf(p, f[ProductRow(p)] + n) = PriceOf(p, f[ProductRow(p)]) + PriceOf(p, n)
        /\ PriceOf(p, n) \in Int
    BY <2>1, PriceFacts
  <2>5. \A q \in Products : PriceOf(q, f[ProductRow(q)]) \in Int
    BY <2>1, PriceFacts
  <2> QED
    BY <2>2, <2>3, <2>4, <2>5
<1> HIDE DEF D
<1>2. SumFunctionOnSet(D(g), Products) = SumFunctionOnSet(D(f), Products) + PriceOf(p, n)
  BY <1>1, BookRows, SumPoint
<1>3. \A u \in Users : g[UserRow(u)] = f[UserRow(u)]
  BY BookRows
<1> QED
  BY <1>2, <1>3, BookSame DEF Delivered, D

LEMMA BooksCleared ==
  ASSUME PricesExact, NEW mine \in [Rows -> Int], NEW book \in [Rows -> Int]
  PROVE  /\ Paid(Reversed(mine, book, ProductRows)) = Paid(mine)
         /\ Paid(Reversed(mine, book, UserRows)) = -Paid(book)
<1> DEFINE neg == Reversed(mine, book, UserRows)
<1>1. \A u \in Users : UserRow(u) \in UserRows /\ UserRow(u) \notin ProductRows
  BY DEF UserRows, ProductRows, UserRow, ProductRow
<1>2. Paid(Reversed(mine, book, ProductRows)) = Paid(mine)
  BY <1>1, BookRows, BookSame DEF Reversed
<1>3. neg \in [Rows -> Int] /\ \A u \in Users : neg[UserRow(u)] = -book[UserRow(u)]
  BY <1>1, BookRows DEF Reversed
<1> DEFINE both == [r \in Rows |-> neg[r] + book[r]]
<1>4. Paid(both) = Paid(neg) + Paid(book)
  BY <1>3, BookAdd
<1>5. \A u \in Users : both[UserRow(u)] = NoEntries[UserRow(u)]
  BY <1>3, BookRows DEF NoEntries
<1>6. Paid(both) = 0
  BY <1>5, BookSame, BookEmpty
<1>7. Paid(neg) \in Int /\ Paid(book) \in Int
  BY <1>3, BookTypes
<1> HIDE DEF both
<1> QED
  BY <1>2, <1>4, <1>6, <1>7

LEMMA AuditIsSum == OrdersPaidInFull <=> Paid(outflow) = Delivered(outflow)
BY DEF OrdersPaidInFull, Paid, Delivered, PriceOf, FoldFunction, SumFunctionOnSet

-----------------------------------------------------------------------------
(* The steps. *)

LEMMA ConfKept ==
  ASSUME NEW t \in Threads, BizStep(t) \/ Commit(t) \/ Retry(t) \/ GiveUp(t) \/ Execute(t)
  PROVE  conf' = conf
<1>1. CASE BizStep(t)
  BY <1>1 DEF BizStep, LockUser, FillCart, DrawFails, FindInsufficient, LockProduct, LockTimeout,
       LockThrows, NextIdThrows, UnlockThrows, ClearSources, CreateSource, DeductStock,
       SkipProduct, ReadCash, PayBill, Recharge, Flush,
       UpdateStatusCode, ReadStock, Restock, Unlock, CommitRefused, StatementFails, ResetRow,
       ClearItems, ClearTrades, ClearLogs, ResetFails, PlanAcquire, ForUpdateLock, Read, Insert,
       Update, dbVars
<1>2. CASE Commit(t) \/ Retry(t) \/ GiveUp(t) \/ Execute(t)
  BY <1>2 DEF Commit, Retry, GiveUp, Execute, CommitBiz, CommitReset, RollbackBiz, RollbackReset,
       CommitTransaction, RollbackTransaction, dbVars
<1> QED
  BY <1>1, <1>2

(* A step of one thread that leaves the books alone. *)
LEMMA OwnPayment ==
  ASSUME PaymentInv, OrdersOnly, NEW t \in Threads, conf' = conf, outflow' = outflow,
         PaysItems(t)',
         \A u \in Threads \ {t} : /\ pc'[u] = pc[u] /\ kind'[u] = kind[u] /\ due'[u] = due[u]
                                  /\ outcome'[u] = outcome[u] /\ pout'[u] = pout[u]
  PROVE  PaymentInv'
<1>1. \A u \in Threads \ {t} : PaysItems(u)'
  BY DEF PaymentInv, PaysItems, Paid, Delivered
<1> QED
  BY <1>1 DEF PaymentInv, OrdersOnly, PricesExact, Paid, Delivered

(* The ways a thread goes on without an entry. *)
StepsOn(t) ==
  \/ pc'[t] = pc[t] /\ outcome'[t] = outcome[t]
  \/ pc[t] \in SellsNothing /\ pc'[t] \in SellsNothing
  \/ pc[t] \in SellsNothing /\ pc'[t] \in {"unlock", "commit"}
  \/ pc[t] \in {"deduct", "cash"} /\ pc'[t] \in {"cash", "credit"}
  \/ pc[t] = "unlock" /\ outcome[t] = "ok" /\ pc'[t] = "commit"
  \/ pc'[t] = "unlock" /\ outcome'[t] # "ok"
  \/ pc'[t] \in {"rollback", "resetRollback"}
  \/ pc[t] \in BeforeTrades /\ pc'[t] \in BeforeTrades
  \/ pc[t] = "clearLogs" /\ pc'[t] = "resetCommit"

LEMMA GoesOnPayment ==
  ASSUME StockInv, PaymentInv, OrdersOnly, NEW t \in Threads, conf' = conf, outflow' = outflow,
         UNCHANGED <<kind, due, pout>>, StepsOn(t),
         \A u \in Threads \ {t} : pc'[u] = pc[u] /\ outcome'[u] = outcome[u]
  PROVE  PaymentInv'
<1>1. PaysItems(t) /\ (pc[t] = "deduct" => kind[t] = "package")
  BY DEF PaymentInv, StockInv, WorkOK, ThreadOK
<1>2. pc[t] \in SellsNothing => Paid(pout[t]) = 0 /\ Delivered(pout[t]) = 0
  BY <1>1, BookEmpty DEF PaysItems, OrdersOnly
<1>3. PaysItems(t)'
  BY <1>1, <1>2 DEF PaysItems, StepsOn, SellsNothing, BeforeTrades, UpdateLabels, SourceLabels,
         Paid, Delivered
<1> QED
  BY <1>3, OwnPayment

LEMMA LeaveGoesOn ==
  ASSUME StockInv, NEW t \in Threads, NEW o, Leave(t, o)
  PROVE  /\ o # "ok" => StepsOn(t)
         /\ pc[t] \in SellsNothing => StepsOn(t)
         /\ pc'[t] \in {"unlock", "commit", "rollback"}
         /\ pc'[t] = "unlock" => outcome'[t] = o
         /\ pc'[t] = "commit" => o = "ok"
         /\ \A u \in Threads \ {t} : pc'[u] = pc[u] /\ outcome'[u] = outcome[u]
BY DEF Leave, Ending, StepsOn, StockInv, TypeOK, BizTypeOK

LEMMA GotoGoesOn ==
  ASSUME StockInv, NEW t \in Threads, NEW label, Goto(t, label)
  PROVE  /\ pc'[t] = label /\ outcome' = outcome
         /\ \A u \in Threads \ {t} : pc'[u] = pc[u]
BY DEF Goto, StockInv, TypeOK, BizTypeOK

LEMMA QuietPayment ==
  ASSUME StockInv, PaymentInv, OrdersOnly, NEW t \in Threads, conf' = conf,
         \/ LockUser(t) \/ FillCart(t) \/ DrawFails(t) \/ FindInsufficient(t) \/ LockProduct(t)
         \/ LockTimeout(t) \/ SkipProduct(t) \/ ReadCash(t) \/ Flush(t) \/ UpdateStatusCode(t)
         \/ ReadStock(t) \/ Restock(t) \/ Unlock(t) \/ CommitRefused(t) \/ StatementFails(t)
         \/ LockThrows(t) \/ NextIdThrows(t) \/ UnlockThrows(t)
         \/ ResetRow(t) \/ ResetFails(t) \/ ClearSources(t) \/ ClearLogs(t)
  PROVE  PaymentInv'
<1>1. UNCHANGED <<kind, due, pout, outflow>>
  BY DEF LockUser, FillCart, DrawFails, FindInsufficient, LockProduct, LockTimeout, SkipProduct,
         ReadCash, Flush, UpdateStatusCode, ReadStock, Restock, Unlock, CommitRefused,
         StatementFails, LockThrows, NextIdThrows, UnlockThrows, ResetRow, ResetFails,
         ClearSources, ClearLogs, requestVars, workVars, pendingVars, bookVars
<1>2. CASE LockUser(t) \/ LockProduct(t)
  <2>1. /\ pc[t] \in SellsNothing
        /\ \/ UNCHANGED <<pc, outcome>>
           \/ \E label \in SellsNothing : Goto(t, label)
    BY <1>2 DEF LockUser, LockProduct, SellsNothing
  <2> QED
    BY <1>1, <2>1, GotoGoesOn, GoesOnPayment DEF StepsOn
<1>3. CASE FillCart(t) \/ FindInsufficient(t) \/ ReadStock(t)
  <2>1. pc[t] \in SellsNothing /\ \E label \in SellsNothing : Goto(t, label)
    BY <1>3 DEF FillCart, FindInsufficient, ReadStock, SellsNothing
  <2> QED
    BY <1>1, <2>1, GotoGoesOn, GoesOnPayment DEF StepsOn
<1>4. CASE \/ DrawFails(t) \/ LockTimeout(t) \/ StatementFails(t)
           \/ LockThrows(t) \/ NextIdThrows(t)
  <2>1. \E o \in {"null", "timeout", "db", "redis", "clock"} : Leave(t, o)
    BY <1>4 DEF DrawFails, LockTimeout, StatementFails, LockThrows, NextIdThrows
  <2> QED
    BY <1>1, <2>1, LeaveGoesOn, GoesOnPayment
<1>5. CASE SkipProduct(t)
  <2>1. /\ pc[t] = "deduct"
        /\ UNCHANGED <<pc, outcome>> \/ Leave(t, "biz") \/ Goto(t, "cash")
    BY <1>5 DEF SkipProduct, NextItem
  <2> QED
    BY <1>1, <2>1, GotoGoesOn, LeaveGoesOn, GoesOnPayment DEF StepsOn
<1>6. CASE ReadCash(t)
  <2>1. pc[t] = "cash" /\ Goto(t, "credit")
    BY <1>6 DEF ReadCash
  <2> QED
    BY <1>1, <2>1, GotoGoesOn, GoesOnPayment DEF StepsOn
<1>7. CASE Flush(t)
  BY <1>1, <1>7, GoesOnPayment DEF Flush, StepsOn
<1>8. CASE UpdateStatusCode(t) \/ Restock(t)
  <2>1. /\ pc[t] \in SellsNothing
        /\ Leave(t, "ok") \/ \E label \in SellsNothing : Goto(t, label)
    BY <1>8 DEF UpdateStatusCode, Restock, SellsNothing
  <2> QED
    BY <1>1, <2>1, GotoGoesOn, LeaveGoesOn, GoesOnPayment DEF StepsOn
<1>9. CASE Unlock(t)
  <2>1. /\ pc[t] = "unlock"
        /\ UNCHANGED <<pc, outcome>> \/ Goto(t, Ending(outcome[t]))
    BY <1>9 DEF Unlock
  <2> QED
    BY <1>1, <2>1, GotoGoesOn, GoesOnPayment DEF StepsOn, Ending
<1>10. CASE CommitRefused(t) \/ UnlockThrows(t)
  <2>1. /\ pc'[t] = "rollback" \/ (pc'[t] = "unlock" /\ outcome'[t] # "ok")
        /\ \A u \in Threads \ {t} : pc'[u] = pc[u] /\ outcome'[u] = outcome[u]
    BY <1>10 DEF CommitRefused, UnlockThrows, StockInv, TypeOK, BizTypeOK
  <2> QED
    BY <1>1, <2>1, GoesOnPayment DEF StepsOn
<1>11. CASE ResetRow(t) \/ ResetFails(t) \/ ClearSources(t) \/ ClearLogs(t)
  <2>1. /\ outcome' = outcome /\ \A u \in Threads \ {t} : pc'[u] = pc[u]
        /\ \/ pc'[t] = pc[t]
           \/ ResetRow(t) /\ pc[t] \in UpdateLabels /\ pc'[t] = NextUpdate(pc[t])
           \/ ClearSources(t) /\ pc[t] \in SourceLabels /\ pc'[t] = NextClear(pc[t])
           \/ pc'[t] = "resetRollback"
           \/ pc[t] = "clearLogs" /\ pc'[t] = "resetCommit"
    BY <1>11 DEF ResetRow, ResetFails, ClearSources, ClearLogs, StockInv, TypeOK, BizTypeOK
  <2>2. /\ pc[t] \in UpdateLabels => NextUpdate(pc[t]) \in BeforeTrades
        /\ pc[t] \in SourceLabels => NextClear(pc[t]) \in BeforeTrades
    BY DEF UpdateLabels, SourceLabels, BeforeTrades, NextUpdate, NextClear
  <2>3. UpdateLabels \cup SourceLabels \subseteq BeforeTrades
    BY DEF BeforeTrades
  <2> HIDE DEF NextUpdate, NextClear
  <2>4. StepsOn(t)
    BY <2>1, <2>2, <2>3 DEF StepsOn
  <2> QED
    BY <1>1, <2>1, <2>4, GoesOnPayment
<1> QED
  BY <1>2, <1>3, <1>4, <1>5, <1>6, <1>7, <1>8, <1>9, <1>10, <1>11

LEMMA SourcePayment ==
  ASSUME StockInv, PaymentInv, OrdersOnly, NEW t \in Threads, conf' = conf, CreateSource(t)
  PROVE  PaymentInv'
<1>1. /\ pc[t] = "source" /\ UNCHANGED <<kind, pout, outflow>>
      /\ Goto(t, IF kind[t] = "package" THEN "deduct" ELSE "cash")
      /\ \E amount : due' = [due EXCEPT ![t] = amount]
      /\ kind[t] = "package" => due' = [due EXCEPT ![t] = 0]
  BY DEF CreateSource, requestVars, pendingVars, bookVars
<1>2. /\ PaysItems(t) /\ pout[t] = NoEntries
      /\ Paid(pout[t]) = 0 /\ Delivered(pout[t]) = 0
  BY <1>1, BookEmpty DEF PaymentInv, PaysItems, SellsNothing, OrdersOnly
<1>3. /\ pc'[t] = IF kind[t] = "package" THEN "deduct" ELSE "cash"
      /\ \A u \in Threads \ {t} : /\ pc'[u] = pc[u] /\ outcome'[u] = outcome[u]
                                  /\ due'[u] = due[u]
  BY <1>1, GotoGoesOn DEF StockInv, TypeOK, BizTypeOK
<1>4. kind[t] = "package" => due'[t] = 0
  BY <1>1 DEF StockInv, TypeOK, BizTypeOK
<1>5. PaysItems(t)'
  BY <1>1, <1>2, <1>3, <1>4
     DEF PaysItems, SellsNothing, BeforeTrades, UpdateLabels, SourceLabels, Paid, Delivered
<1> QED
  BY <1>1, <1>3, <1>5, OwnPayment

(* an item for its price *)
LEMMA DeductPayment ==
  ASSUME StockInv, PaymentInv, OrdersOnly, NEW t \in Threads, conf' = conf, DeductStock(t)
  PROVE  PaymentInv'
<1> DEFINE p == First(todo[t])
           n == batch[t][p]
<1>1. /\ pc[t] = "deduct" /\ UNCHANGED <<kind, outflow>>
      /\ due'  = [due EXCEPT ![t] = @ + PriceOf(p, n)]
      /\ pout' = [pout EXCEPT ![t][ProductRow(p)] = @ + n]
      /\ UNCHANGED <<pc, outcome>> \/ Leave(t, "biz") \/ Goto(t, "cash")
  BY DEF DeductStock, PriceOf, NextItem, requestVars, bookVars
<1>2. /\ kind[t] = "package" /\ PaysItems(t) /\ p \in Products /\ n \in Int
      /\ pout[t] \in [Rows -> Int] /\ due[t] \in Int
  BY <1>1, ProductFacts DEF PaymentInv, StockInv, TypeOK, BizTypeOK, WorkOK, ThreadOK
<1> HIDE DEF p, n
<1>3. /\ pout'[t] = [pout[t] EXCEPT ![ProductRow(p)] = @ + n]
      /\ due'[t] = due[t] + PriceOf(p, n)
      /\ \A u \in Threads \ {t} : pout'[u] = pout[u] /\ due'[u] = due[u]
  BY <1>1 DEF StockInv, TypeOK, BizTypeOK
<1>4. Paid(pout'[t]) = 0 /\ Delivered(pout'[t]) = due'[t]
  BY <1>1, <1>2, <1>3, ItemAdded DEF PaysItems, OrdersOnly
<1>5. /\ \/ pc'[t] = pc[t]
         \/ pc'[t] = "unlock" /\ outcome'[t] # "ok"
         \/ pc'[t] \in {"rollback", "cash"}
      /\ \A u \in Threads \ {t} : pc'[u] = pc[u] /\ outcome'[u] = outcome[u]
  BY <1>1, LeaveGoesOn, GotoGoesOn
<1>6. PaysItems(t)'
  BY <1>1, <1>2, <1>4, <1>5
     DEF PaysItems, SellsNothing, BeforeTrades, UpdateLabels, SourceLabels, Paid, Delivered
<1> QED
  BY <1>1, <1>3, <1>5, <1>6, OwnPayment

(* the trade: exactly what the items cost, or nothing *)
LEMMA PayBillPayment ==
  ASSUME StockInv, PaymentInv, OrdersOnly, NEW t \in Threads, conf' = conf, PayBill(t)
  PROVE  PaymentInv'
<1> DEFINE a      == Account(t)
           credit == Visible(t, CreditRow(a))
           result == Consume(seen[t], credit, due[t])
           paid   == result.cashConsume + result.creditConsume
<1>1. /\ pc[t] = "credit" /\ UNCHANGED <<kind, due, outflow>>
      /\ kind[t] \in {"usage", "package"} /\ PaysItems(t)
  BY DEF PayBill, requestVars, workVars, bookVars, PaymentInv
<1>2. kind[t] = "package"
  BY <1>1 DEF PaysItems
<1>t. /\ a \in Users /\ due[t] \in Int /\ seen[t] \in Int /\ credit \in Int
      /\ pout \in [Threads -> [Rows -> Int]] /\ UserRow(a) \in Rows
  BY <1>1, AccountFacts, RowFacts, VisibleType DEF StockInv, TypeOK, BizTypeOK
<1>c. /\ result.cashConsume \in Int /\ result.creditConsume \in Int
      /\ result.debt \in Int /\ result.debt >= 0
      /\ result.cashConsume + result.creditConsume + result.debt = due[t]
  <2> HIDE DEF credit, a
  <2>1. result.debt >= 0
    BY <1>t DEF Consume
  <2> QED
    BY <1>t, <2>1, ConsumeConserves
<1>3. \/ Leave(t, "biz") /\ UNCHANGED pout
      \/ /\ ~(result.debt > 0) /\ Leave(t, "ok")
         /\ pout' = [pout EXCEPT ![t][UserRow(a)] = @ + paid]
  <2>1. \/ Leave(t, "biz") /\ UNCHANGED pout
        \/ /\ ~(result.debt > 0) /\ Leave(t, "ok")
           /\ pout' = [pout EXCEPT ![t][UserRow(a)] =
                         @ + result.cashConsume + result.creditConsume]
    BY <1>2 DEF PayBill
  <2>2. pout[t][UserRow(a)] + result.cashConsume + result.creditConsume
          = pout[t][UserRow(a)] + paid
    <3> HIDE DEF credit, a, result
    <3> QED
      BY <1>t, <1>c
  <2> QED
    BY <2>1, <2>2
<1>4. CASE Leave(t, "biz") /\ UNCHANGED pout
  BY <1>1, <1>4, LeaveGoesOn, GoesOnPayment
<1>5. CASE /\ ~(result.debt > 0) /\ Leave(t, "ok")
           /\ pout' = [pout EXCEPT ![t][UserRow(a)] = @ + paid]
  <2>2. paid = due[t] /\ paid \in Int
    <3> HIDE DEF credit, a, result
    <3> QED
      BY <1>5, <1>t, <1>c
  <2> HIDE DEF paid, result, a
  <2>3. /\ pout'[t] = [pout[t] EXCEPT ![UserRow(a)] = @ + paid]
        /\ \A u \in Threads \ {t} : pout'[u] = pout[u]
    BY <1>5 DEF StockInv, TypeOK, BizTypeOK
  <2>4. Paid(pout'[t]) = Delivered(pout'[t])
    <3>1. Paid(pout[t]) = 0 /\ Delivered(pout[t]) = due[t]
      BY <1>1, <1>2 DEF PaysItems
    <3> QED
      BY <1>t, <2>2, <2>3, <3>1, TradeAdded DEF OrdersOnly
  <2>5. /\ pc'[t] \in {"unlock", "commit", "rollback"}
        /\ \A u \in Threads \ {t} : pc'[u] = pc[u] /\ outcome'[u] = outcome[u]
    BY <1>5, LeaveGoesOn
  <2>6. PaysItems(t)'
    BY <1>1, <1>2, <2>4, <2>5
       DEF PaysItems, SellsNothing, BeforeTrades, UpdateLabels, SourceLabels, Paid, Delivered
  <2> QED
    BY <1>1, <2>3, <2>5, <2>6, OwnPayment
<1> QED
  BY <1>3, <1>4, <1>5

LEMMA RechargePayment ==
  ASSUME StockInv, PaymentInv, OrdersOnly, NEW t \in Threads, conf' = conf, Recharge(t)
  PROVE  PaymentInv'
<1>1. /\ pc[t] = "credit" /\ kind[t] = "recharge" /\ Goto(t, "status")
      /\ UNCHANGED <<kind, due, pout, outflow>> /\ PaysItems(t)
  BY DEF Recharge, requestVars, workVars, bookVars, PaymentInv
<1>2. pc'[t] = "status" /\ \A u \in Threads \ {t} : pc'[u] = pc[u] /\ outcome'[u] = outcome[u]
  BY <1>1, GotoGoesOn
<1>3. PaysItems(t)'
  BY <1>1, <1>2
     DEF PaysItems, SellsNothing, BeforeTrades, UpdateLabels, SourceLabels, Paid, Delivered
<1> QED
  BY <1>1, <1>2, <1>3, OwnPayment

LEMMA ClearPayment ==
  ASSUME StockInv, PaymentInv, OrdersOnly, NEW t \in Threads, conf' = conf,
         ClearItems(t) \/ ClearTrades(t)
  PROVE  PaymentInv'
<1>1. /\ UNCHANGED <<kind, due, outflow, outcome>> /\ PaysItems(t)
      /\ pc[t] \in {"clearItems", "clearTrades"}
  BY DEF ClearItems, ClearTrades, requestVars, workVars, bookVars, PaymentInv
<1>2. /\ pc[t] = "clearItems" => /\ pout'[t] = Reversed(pout[t], outflow, ProductRows)
                                 /\ pc'[t] = "clearOrders"
      /\ pc[t] = "clearTrades" => /\ pout'[t] = Reversed(pout[t], outflow, UserRows)
                                  /\ pc'[t] = "clearLogs"
      /\ \A u \in Threads \ {t} : pc'[u] = pc[u] /\ pout'[u] = pout[u]
  BY DEF ClearItems, ClearTrades, StockInv, TypeOK, BizTypeOK
<1>3. pout[t] \in [Rows -> Int] /\ outflow \in [Rows -> Int]
  BY DEF StockInv, TypeOK, BizTypeOK
<1>4. /\ pc'[t] = "clearOrders" => Paid(pout'[t]) = 0
      /\ pc'[t] = "clearLogs"   => Paid(pout'[t]) = -Paid(outflow)
  BY <1>1, <1>2, <1>3, BooksCleared DEF PaysItems, OrdersOnly, BeforeTrades
<1>5. PaysItems(t)'
  BY <1>1, <1>2, <1>4
     DEF PaysItems, SellsNothing, BeforeTrades, UpdateLabels, SourceLabels, Paid, Delivered
<1> QED
  BY <1>1, <1>2, <1>5, OwnPayment

(* the end of a request leaves its thread without entries *)
LEMMA EndedPays ==
  ASSUME StockInv, PaymentInv, OrdersOnly, NEW t \in Threads,
         Commit(t) \/ GiveUp(t) \/ Retry(t)
  PROVE  /\ PaysItems(t)'
         /\ \A u \in Threads \ {t} : /\ pc'[u] = pc[u] /\ kind'[u] = kind[u] /\ due'[u] = due[u]
                                     /\ outcome'[u] = outcome[u] /\ pout'[u] = pout[u]
<1>1. /\ Clear(t)
      /\ \/ /\ pc' = [pc EXCEPT ![t] = "idle"] /\ kind' = [kind EXCEPT ![t] = "none"]
         \/ /\ pc' = [pc EXCEPT ![t] = "lockUser"] /\ UNCHANGED kind
      /\ outcome' = [outcome EXCEPT ![t] = "ok"]
  BY DEF Commit, GiveUp, Retry, CommitBiz, CommitReset, RollbackBiz, RollbackReset, Answer,
         Retries, FirstStep, requestVars
<1>2. /\ pout'[t] = NoEntries /\ kind'[t] # "usage" /\ pc'[t] \in {"idle", "lockUser"}
      /\ \A u \in Threads \ {t} : /\ pc'[u] = pc[u] /\ kind'[u] = kind[u] /\ due'[u] = due[u]
                                  /\ outcome'[u] = outcome[u] /\ pout'[u] = pout[u]
  BY <1>1 DEF Clear, PaymentInv, PaysItems, StockInv, TypeOK, BizTypeOK
<1> QED
  BY <1>2 DEF PaysItems, SellsNothing, BeforeTrades, UpdateLabels, SourceLabels

LEMMA RollbackPayment ==
  ASSUME StockInv, PaymentInv, OrdersOnly, NEW t \in Threads, conf' = conf, GiveUp(t) \/ Retry(t)
  PROVE  PaymentInv'
<1>1. outflow' = outflow
  BY DEF GiveUp, Retry, RollbackBiz, RollbackReset, bookVars
<1> QED
  BY <1>1, EndedPays, OwnPayment

(* While a reset that has cleared the items is under way, it holds the     *)
(* rows of all products, so nobody else has sold anything.                 *)
LEMMA NobodySells ==
  ASSUME StockInv, OrdersOnly, NEW t \in Threads, NEW u \in Threads, t # u,
         pc[t] \in {"clearTrades", "clearLogs", "resetCommit"}
  PROVE  /\ Delivered(pout[u]) = 0
         /\ pc[u] # "resetCommit"
<1>1. \A p \in Products : holder[ProductRow(p)] = t
  BY DEF StockInv, ResetEntries, ResetLabels, UpdateLabels
<1>2. \A p \in Products : pout[u][ProductRow(p)] = NoEntries[ProductRow(p)]
  BY <1>1, BookRows DEF StockInv, StockEntries, NoEntries
<1>3. Delivered(pout[u]) = 0
  BY <1>2, BookSame, BookEmpty DEF OrdersOnly
<1>4. ASSUME pc[u] = "resetCommit" PROVE FALSE
  <2>1. \A p \in Products : holder[ProductRow(p)] = u
    BY <1>4 DEF StockInv, ResetEntries, ResetLabels, UpdateLabels
  <2> QED
    BY <1>1, <2>1, TablesAssumption
<1> QED
  BY <1>3, <1>4

LEMMA CommitPayment ==
  ASSUME StockInv, PaymentInv, OrdersOnly, NEW t \in Threads, conf' = conf, Commit(t)
  PROVE  PaymentInv'
<1>1. /\ pc[t] \in {"commit", "resetCommit"}
      /\ outflow' = [r \in Rows |-> outflow[r] + pout[t][r]]
  BY DEF Commit, CommitBiz, CommitReset
<1>2. pout[t] \in [Rows -> Int] /\ outflow \in [Rows -> Int]
  BY DEF StockInv, TypeOK, BizTypeOK
<1>3. /\ Paid(outflow') = Paid(outflow) + Paid(pout[t])
      /\ Delivered(outflow') = Delivered(outflow) + Delivered(pout[t])
      /\ Paid(outflow) \in Int /\ Paid(pout[t]) \in Int
      /\ Delivered(outflow) \in Int /\ Delivered(pout[t]) \in Int
  BY <1>1, <1>2, BookAdd, BookTypes DEF OrdersOnly
<1>4. PaysItems(t) /\ Paid(outflow) = Delivered(outflow)
  BY DEF PaymentInv
<1>5. Paid(outflow') = Delivered(outflow')
  <2>1. CASE pc[t] = "commit"
    BY <1>3, <1>4, <2>1 DEF PaysItems
  <2>2. CASE pc[t] = "resetCommit"
    <3>1. Paid(pout[t]) = -Paid(outflow)
      BY <1>4, <2>2 DEF PaysItems
    <3>2. \A p \in Products : outflow'[ProductRow(p)] = NoEntries[ProductRow(p)]
      <4>1. \A p \in Products : pout[t][ProductRow(p)] = -outflow[ProductRow(p)]
        BY <2>2 DEF StockInv, ResetEntries, ResetLabels
      <4> QED
        BY <1>1, <1>2, <4>1, BookRows DEF NoEntries
    <3>3. Delivered(outflow') = 0
      BY <3>2, BookSame, BookEmpty DEF OrdersOnly
    <3> QED
      BY <1>3, <3>1, <3>3
  <2> QED
    BY <1>1, <2>1, <2>2
<1>6. \A u \in Threads \ {t} : PaysItems(u)'
  <2>1. SUFFICES ASSUME NEW u \in Threads \ {t} PROVE PaysItems(u)'
    OBVIOUS
  <2>2. PaysItems(u)
    BY DEF PaymentInv
  <2>3. /\ pc'[u] = pc[u] /\ kind'[u] = kind[u] /\ due'[u] = due[u]
        /\ outcome'[u] = outcome[u] /\ pout'[u] = pout[u]
    BY EndedPays
  <2>4. pc[u] \in {"clearLogs", "resetCommit"} => Paid(outflow') = Paid(outflow)
    <3>1. ASSUME pc[u] \in {"clearLogs", "resetCommit"} PROVE Paid(outflow') = Paid(outflow)
      <4>1. pc[t] = "commit" /\ Delivered(pout[t]) = 0
        BY <1>1, <3>1, NobodySells
      <4>2. Paid(pout[t]) = 0
        BY <1>4, <4>1 DEF PaysItems
      <4> QED
        BY <1>3, <4>2
    <3> QED
      BY <3>1
  <2> QED
    BY <2>2, <2>3, <2>4 DEF PaysItems, Paid, Delivered
<1>7. PaysItems(t)'
  BY EndedPays
<1> QED
  BY <1>5, <1>6, <1>7 DEF PaymentInv, OrdersOnly, Paid, Delivered

LEMMA ExecutePayment ==
  ASSUME StockInv, PaymentInv, OrdersOnly, NEW t \in Threads, conf' = conf, Execute(t)
  PROVE  PaymentInv'
<1>1. PICK k \in Workload[conf] : /\ kind' = [kind EXCEPT ![t] = k]
                                  /\ pc'   = [pc EXCEPT ![t] = FirstStep(k)]
  BY DEF Execute
<1>2. pc[t] = "idle" /\ UNCHANGED <<due, pout, outcome, outflow>> /\ PaysItems(t)
  BY DEF Execute, workVars, pendingVars, bookVars, PaymentInv
<1>3. /\ kind'[t] # "usage" /\ pc'[t] \in {"lockUser", "find", "resetCash"}
      /\ \A u \in Threads \ {t} : pc'[u] = pc[u] /\ kind'[u] = kind[u]
  BY <1>1 DEF FirstStep, OrdersOnly, StockInv, TypeOK, BizTypeOK
<1>4. pout[t] = NoEntries /\ Paid(pout[t]) = 0
  BY <1>2, BookEmpty DEF PaysItems, SellsNothing, OrdersOnly
<1>5. PaysItems(t)'
  BY <1>2, <1>3, <1>4
     DEF PaysItems, SellsNothing, BeforeTrades, UpdateLabels, SourceLabels, Paid, Delivered
<1> QED
  BY <1>2, <1>3, <1>5, OwnPayment

LEMMA PaymentInit == Init => PaymentInv
<1> SUFFICES ASSUME Init, OrdersOnly
             PROVE  Paid(outflow) = Delivered(outflow) /\ \A t \in Threads : PaysItems(t)
  BY DEF PaymentInv
<1>1. outflow = NoEntries
  BY DEF Init
<1>2. \A t \in Threads : pc[t] = "idle" /\ kind[t] = "none" /\ pout[t] = NoEntries
  BY DEF Init
<1> QED
  BY <1>1, <1>2, BookEmpty
     DEF OrdersOnly, PaysItems, SellsNothing, BeforeTrades, UpdateLabels, SourceLabels

LEMMA PaymentNext == StockInv /\ PaymentInv /\ [Next]_vars => PaymentInv'
<1> SUFFICES ASSUME StockInv, PaymentInv, [Next]_vars PROVE PaymentInv'
  OBVIOUS
<1>1. ASSUME NEW t \in Threads, Execute(t) \/ Work(t) PROVE PaymentInv'
  <2>1. conf' = conf
    BY <1>1, ConfKept DEF Work
  <2>2. CASE ~OrdersOnly
    BY <2>1, <2>2 DEF PaymentInv, OrdersOnly, PricesExact
  <2>3. CASE OrdersOnly
    <3>1. CASE BizStep(t)
      BY <2>1, <2>3, <3>1, QuietPayment, SourcePayment, DeductPayment, PayBillPayment,
         RechargePayment, ClearPayment DEF BizStep
    <3> QED
      BY <1>1, <2>1, <2>3, <3>1, CommitPayment, RollbackPayment, ExecutePayment DEF Work
  <2> QED
    BY <2>2, <2>3
<1>2. CASE Expire \/ Quiet \/ UNCHANGED vars
  <2>1. UNCHANGED <<conf, pc, kind, due, outcome, pout, outflow>>
    BY <1>2 DEF Expire, Quiet, vars, dbVars, requestVars, workVars, pendingVars, bookVars
  <2> QED
    BY <2>1 DEF PaymentInv, PaysItems, OrdersOnly, PricesExact, Paid, Delivered
<1> QED
  BY <1>1, <1>2 DEF Next

-----------------------------------------------------------------------------
(* Where nothing but orders is paid, the trades of all users add up to the *)
(* price of all order items, at every moment and in every deployment:      *)
(* whatever was out of stock, refused, repeated, read stale, or reset.     *)
THEOREM OrdersArePaidInFull == Spec => [](OrdersOnly => OrdersPaidInFull)
<1>1. Init => StockInv /\ PaymentInv
  BY InitStep, PaymentInit
<1>2. StockInv /\ PaymentInv /\ [Next]_vars => (StockInv /\ PaymentInv)'
  BY NextStep, PaymentNext
<1>3. PaymentInv => (OrdersOnly => OrdersPaidInFull)
  BY AuditIsSum DEF PaymentInv
<1> QED
  BY <1>1, <1>2, <1>3, PTL DEF Spec
=============================================================================
