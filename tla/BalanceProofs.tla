--------------------------- MODULE BalanceProofs ----------------------------
(***************************************************************************)
(* Why the accounts balance with the trades and the stock stays in range:  *)
(* first by the row locks of DBPlanServiceImpl, then by what an isolation  *)
(* level protects alone, last by the Java locks alone.                     *)
(***************************************************************************)
EXTENDS PlanProofs

(***************************************************************************)
(* Where DBPlanServiceImpl takes row locks, the accounts balance with the  *)
(* trades at every moment.  The row of user_info is locked FOR UPDATE to   *)
(* the end of the transaction, before the accounts of the user are read:   *)
(* the lock on one row protects two others that no statement locks first.  *)
(* A reset takes no such lock, and is left out.                            *)
(***************************************************************************)

RowLocked == conf.plan = "p1" /\ ~SkipsRowLocks /\ "reset" \notin Workload[conf]

AccountsOf(u) == {CashRow(u), CreditRow(u)}

(* what a row will hold when everything t has saved is written *)
After(t, r) == IF r \in DOMAIN saved[t] THEN saved[t][r] ELSE latest[r]

-----------------------------------------------------------------------------
(* The inductive invariant. *)

(* Only the owner of a user's row writes the accounts. *)
RowsOwned ==
  \A u \in Users : \A r \in AccountsOf(u) :
    /\ holder[r] \in {holder[UserRow(u)], NoThread}
    /\ holder[r] = NoThread => latest[r] = committed[r]

(* The owner of a user's row has entered in the trades what it has taken   *)
(* from or is going to write to the accounts, and its read view, if it has *)
(* one, is not out of date; the others have entered and saved nothing.     *)
OwnerBalance(t, u) ==
  LET r == UserRow(u)
  IN IF holder[r] = t
     THEN /\ committed[CashRow(u)] + committed[CreditRow(u)] + pin[t][r] - pout[t][r]
               = After(t, CashRow(u)) + After(t, CreditRow(u))
          /\ view[t] # NoView => \A s \in AccountsOf(u) : view[t][s] = committed[s]
     ELSE /\ pin[t][r] = 0 /\ pout[t][r] = 0
          /\ AccountsOf(u) \cap DOMAIN saved[t] = {}

(* The users are locked before anything is read, nothing is saved before   *)
(* it is computed, and the cash in hand is still the account's.            *)
InTurn(t) ==
  /\ pc[t] \notin ResetLabels
  /\ pc[t] \in {"idle", "lockUser"} => view[t] = NoView
  /\ pc[t] \in {"status", "unlock", "commit", "rollback"} \/ saved[t] = NothingSaved
  /\ \/ pc[t] = "lockUser"
     \/ kind[t] = "recharge" /\ pc[t] \in {"source", "cash", "credit", "status"}
     => todo[t] \subseteq who[t]
  /\ \A u \in UsersLocked(t) : holder[UserRow(u)] = t
  /\ pc[t] = "credit" => seen[t] = latest[CashRow(Account(t))]

AccountsInv ==
  RowLocked => /\ RowsOwned /\ AccountsBalance
               /\ \A t \in Threads : InTurn(t) /\ \A u \in Users : OwnerBalance(t, u)

-----------------------------------------------------------------------------
LEMMA UserFacts ==
  /\ \A u \in Users : /\ AccountsOf(u) \subseteq AccountRows /\ UserRow(u) \in Rows
                      /\ CashRow(u) \in Rows /\ CreditRow(u) \in Rows
                      /\ CashRow(u) # CreditRow(u) /\ UserRow(u) \notin AccountRows
                      /\ UserRow(u) \notin ProductRows /\ AccountsOf(u) \cap ProductRows = {}
  /\ \A u, v \in Users : u # v => UserRow(u) # UserRow(v) /\ AccountsOf(u) \cap AccountsOf(v) = {}
  /\ \A r \in AccountRows : \E u \in Users : r \in AccountsOf(u)
  /\ AccountRows \subseteq Rows
BY DEF AccountsOf, Rows, UserRows, AccountRows, ProductRows, UserRow, CashRow, CreditRow, ProductRow

(* The steps out of the body of an operation, and the finally blocks.      *)
Exits(t) ==
  \/ DrawFails(t) \/ LockTimeout(t) \/ LockThrows(t) \/ StatementFails(t) \/ CommitRefused(t)
  \/ Unlock(t) \/ UnlockThrows(t)

LEMMA ExitFacts ==
  ASSUME StockInv, NEW t \in Threads, Exits(t)
  PROVE  /\ UNCHANGED <<dbVars, seen, saved, kind, who, todo, batch, pin, pout, outflow, inflow>>
         /\ pc'[t] \in {"unlock", "commit", "rollback"} /\ pc[t] \notin ResetLabels
         /\ \A v \in Threads \ {t} : pc'[v] = pc[v]
<1>1. UNCHANGED <<dbVars, seen, saved, kind, who, todo, batch, pin, pout, outflow, inflow>>
  BY DEF Exits, DrawFails, LockTimeout, LockThrows, StatementFails, CommitRefused, Unlock,
         UnlockThrows, requestVars, workVars, pendingVars, bookVars
<1>2. CASE DrawFails(t) \/ LockTimeout(t) \/ LockThrows(t) \/ StatementFails(t)
  <2>1. (\E o : Leave(t, o)) /\ pc[t] \notin ResetLabels
    BY <1>2 DEF DrawFails, LockTimeout, LockThrows, StatementFails, ResetLabels
  <2> QED
    BY <1>1, <2>1, LeaveKeys DEF StockInv, TypeOK
<1>3. CASE CommitRefused(t) \/ Unlock(t) \/ UnlockThrows(t)
  BY <1>1, <1>3 DEF CommitRefused, Unlock, UnlockThrows, Goto, Ending, ResetLabels,
                    StockInv, TypeOK, BizTypeOK
<1> QED
  BY <1>1, <1>2, <1>3 DEF Exits

(* What Snowflake.nextId interrupts ends with the statement before it: the *)
(* UPDATE of a product's row, the read of a credit, or none.               *)
LEMMA NextIdFacts ==
  ASSUME StockInv, NEW t \in Threads, NextIdThrows(t)
  PROVE  /\ UNCHANGED <<seen, saved, kind, who, todo, batch, pin, pout, outflow, inflow>>
         /\ pc'[t] \in {"unlock", "rollback"}
         /\ \A v \in Threads \ {t} : pc'[v] = pc[v] /\ outcome'[v] = outcome[v]
         /\ \/ pc[t] \in {"source", "deduct"} /\ UNCHANGED dbVars
            \/ /\ pc[t] = "credit" /\ CreditRow(Account(t)) \in Rows
               /\ Read(t, {CreditRow(Account(t))})
            \/ /\ pc[t] = "restock" /\ First(todo[t]) \in Products
               /\ Update(t, ProductRow(First(todo[t])),
                         latest[ProductRow(First(todo[t]))] + (ProductStockMax - seen[t]), FALSE)
<1>1. /\ UNCHANGED <<seen, saved, kind, who, todo, batch, pin, pout, outflow, inflow>>
      /\ Leave(t, "clock") /\ BizTypeOK
  BY DEF NextIdThrows, requestVars, workVars, pendingVars, bookVars, StockInv, TypeOK
<1>2. /\ pc'[t] \in {"unlock", "rollback"}
      /\ \A v \in Threads \ {t} : pc'[v] = pc[v] /\ outcome'[v] = outcome[v]
  BY <1>1 DEF Leave, Ending, BizTypeOK
<1>3. /\ pc[t] = "credit" => CreditRow(Account(t)) \in Rows
      /\ pc[t] = "restock" => First(todo[t]) \in Products
  BY AccountFacts, ProductFacts, RowFacts
<1> QED
  BY <1>1, <1>2, <1>3 DEF NextIdThrows

(* The steps of a reset but its UPDATEs; the next one is its step too. *)
Clears(t) ==
  ClearSources(t) \/ ClearItems(t) \/ ClearTrades(t) \/ ClearLogs(t) \/ ResetFails(t)

LEMMA ClearsFacts ==
  ASSUME StockInv, NEW t \in Threads, Clears(t)
  PROVE  /\ UNCHANGED <<dbVars, seen, saved, kind, who, todo, batch, outflow, inflow>>
         /\ pc[t] \in ResetLabels /\ pc'[t] \in ResetLabels
         /\ \A v \in Threads \ {t} : pc'[v] = pc[v] /\ pin'[v] = pin[v] /\ pout'[v] = pout[v]
<1>1. /\ UNCHANGED <<dbVars, seen, saved, kind, who, todo, batch, outflow, inflow>>
      /\ pc[t] \in ResetLabels
      /\ \E l \in ResetLabels : pc' = [pc EXCEPT ![t] = l]
  BY DEF Clears, ClearSources, ClearItems, ClearTrades, ClearLogs, ResetFails, SourceLabels,
         NextClear, UpdateLabels, ResetLabels, requestVars, workVars, pendingVars, bookVars
<1>2. /\ pin' = pin \/ \E x : pin' = [pin EXCEPT ![t] = x]
      /\ pout' = pout \/ \E x : pout' = [pout EXCEPT ![t] = x]
  BY DEF Clears, ClearSources, ClearItems, ClearTrades, ClearLogs, ResetFails, pendingVars
<1> QED
  BY <1>1, <1>2 DEF StockInv, TypeOK, BizTypeOK

LEMMA LockedKept ==
  ASSUME conf' = conf
  PROVE  RowLocked' <=> RowLocked
BY DEF RowLocked, SkipsRowLocks

(* What a statement that concerns no account leaves alone: every version   *)
(* of the accounts' rows, but for a view that is opened.                   *)
Aside(t) ==
  /\ Frame(t)
  /\ \A u \in Users : holder'[UserRow(u)] = holder[UserRow(u)]
  /\ \A r \in AccountRows :
       holder'[r] = holder[r] /\ latest'[r] = latest[r] /\ committed'[r] = committed[r]
  /\ view'[t] \in {view[t], committed}
  /\ \A v \in Threads \ {t} : view'[v] = view[v]

LEMMA StatementAside ==
  ASSUME DatabaseTypeOK, NEW t \in Threads,
         \/ UNCHANGED dbVars
         \/ Insert(t)
         \/ \E R : Read(t, R)
         \/ \E r \in ProductRows : ForUpdateLock(t, r)
         \/ \E r \in ProductRows : \E value, reads : Update(t, r, value, reads),
         \A u \in Threads \ {t} :
           /\ pc'[u] = pc[u] /\ kind'[u] = kind[u] /\ who'[u] = who[u]
           /\ todo'[u] = todo[u] /\ batch'[u] = batch[u]
  PROVE  Aside(t)
<1>1. Frame(t)
  BY StatementOwn DEF Frame
<1>2. ASSUME NEW plain, OpenView(t, plain)
      PROVE  view'[t] \in {view[t], committed} /\ \A v \in Threads \ {t} : view'[v] = view[v]
  BY <1>2 DEF OpenView, DatabaseTypeOK
<1>3. CASE UNCHANGED dbVars
  BY <1>1, <1>3 DEF dbVars, Aside
<1>4. CASE Insert(t) \/ \E R : Read(t, R)
  BY <1>1, <1>2, <1>4 DEF Insert, Read, Aside
<1>5. CASE \E r \in ProductRows : ForUpdateLock(t, r)
  BY <1>1, <1>5, UserFacts, RowFacts DEF ForUpdateLock, Aside, DatabaseTypeOK, AccountsOf
<1>6. CASE \E r \in ProductRows : \E value, reads : Update(t, r, value, reads)
  <2>1. PICK r \in ProductRows : \E value, reads : Update(t, r, value, reads)
    BY <1>6
  <2>2. /\ \E value : latest' = [latest EXCEPT ![r] = value]
        /\ holder' = [holder EXCEPT ![r] = t] /\ committed' = committed
        /\ \E reads : OpenView(t, reads)
    BY <2>1 DEF Update
  <2>3. \A s \in AccountRows : s # r /\ s \in Rows
    BY UserFacts
  <2>4. \A u \in Users : UserRow(u) # r /\ UserRow(u) \in Rows
    BY UserFacts
  <2> QED
    BY <1>1, <1>2, <2>2, <2>3, <2>4 DEF Aside, DatabaseTypeOK
<1> QED
  BY <1>3, <1>4, <1>5, <1>6

(* A step aside, after which the thread still is in turn. *)
LEMMA AsideKeeps ==
  ASSUME StockInv, AccountsInv, NEW t \in Threads, Aside(t), saved' = saved,
         \A v \in Threads \ {t} : seen'[v] = seen[v],
         \A v \in Threads, u \in Users : /\ pin'[v][UserRow(u)] = pin[v][UserRow(u)]
                                         /\ pout'[v][UserRow(u)] = pout[v][UserRow(u)],
         UNCHANGED <<outflow, inflow>>,
         RowLocked => InTurn(t)'
  PROVE  AccountsInv'
<1> SUFFICES ASSUME RowLocked
             PROVE  /\ RowsOwned' /\ AccountsBalance'
                    /\ \A v \in Threads : InTurn(v)' /\ \A u \in Users : OwnerBalance(v, u)'
  BY LockedKept DEF AccountsInv, Aside, Frame, OnlyOwn
<1>1. RowsOwned'
  BY UserFacts DEF AccountsInv, RowsOwned, Aside
<1>2. AccountsBalance'
  BY UserFacts DEF AccountsInv, AccountsBalance, Aside, AccountsOf
<1>3. ASSUME NEW v \in Threads \ {t} PROVE InTurn(v)'
  <2>1. UsersLocked(v)' = UsersLocked(v) /\ UsersLocked(v) \subseteq Users
    BY DEF UsersLocked, UsersInUse, Aside, Frame, StockInv, TypeOK, BizTypeOK
  <2>2. Account(v)' = Account(v)
    BY DEF Account, Aside, Frame
  <2>3. pc[v] = "credit" => CashRow(Account(v)) \in AccountRows
    BY AccountFacts, RowFacts
  <2> QED
    BY <2>1, <2>2, <2>3 DEF AccountsInv, InTurn, Aside, Frame
<1>4. ASSUME NEW v \in Threads, NEW u \in Users PROVE OwnerBalance(v, u)'
  <2>1. OwnerBalance(v, u)
    BY DEF AccountsInv
  <2>2. \A r \in AccountsOf(u) : After(v, r)' = After(v, r)
    BY UserFacts DEF After, Aside
  <2>3. view'[v] # NoView /\ holder[UserRow(u)] = v =>
          \A r \in AccountsOf(u) : view'[v][r] = committed'[r]
    <3>1. \A r \in AccountsOf(u) : committed'[r] = committed[r]
      BY UserFacts DEF Aside
    <3> QED
      BY <2>1, <3>1 DEF OwnerBalance, Aside
  <2> QED
    BY <2>1, <2>2, <2>3, UserFacts DEF OwnerBalance, Aside, AccountsOf
<1> QED
  BY <1>1, <1>2, <1>3, <1>4

-----------------------------------------------------------------------------
(* The steps that concern no account. *)

(* Within an operation, from one step to the next or out of its body. *)
LEMMA StaysInTurn ==
  ASSUME StockInv, NEW t \in Threads, InTurn(t), Aside(t), UNCHANGED <<saved, kind, who>>,
         pc[t] # "lockUser",
         pc'[t] \notin ResetLabels \cup {"idle", "lockUser", "credit"},
         \/ pc'[t] \in {"unlock", "commit", "rollback"}
         \/ /\ UsersInUse(t)' \subseteq UsersInUse(t) /\ saved[t] = NothingSaved
            /\ kind[t] = "recharge" /\ pc'[t] \in AccountSteps => todo'[t] \subseteq who[t]
  PROVE  InTurn(t)'
<1>1. \A u \in UsersLocked(t)' : holder'[UserRow(u)] = t
  <2>1. UsersLocked(t)' \subseteq UsersLocked(t)
    BY DEF UsersLocked, UsersInUse
  <2>2. UsersLocked(t) \subseteq Users
    BY DEF UsersLocked, UsersInUse, StockInv, TypeOK, BizTypeOK
  <2> QED
    BY <2>1, <2>2 DEF InTurn, Aside
<1> QED
  BY <1>1 DEF InTurn, AccountSteps

(* A step aside out of the body of an operation, or a start of its search. *)
LEMMA LeavesInTurn ==
  ASSUME StockInv, AccountsInv, NEW t \in Threads, Aside(t),
         UNCHANGED <<seen, saved, kind, who, pin, pout, outflow, inflow>>,
         pc'[t] \in {"unlock", "commit", "rollback"}
  PROVE  AccountsInv'
<1>1. ASSUME RowLocked PROVE InTurn(t)'
  <2>1. InTurn(t)
    BY <1>1 DEF AccountsInv
  <2>2. \A u \in UsersLocked(t)' : FALSE
    BY DEF UsersLocked, UsersInUse
  <2> QED
    BY <2>1, <2>2 DEF InTurn, ResetLabels
<1> QED
  BY <1>1, AsideKeeps

(* Under p1 there are no keys to release, but the step is one all the same. *)
LEMMA LeaveBalance ==
  ASSUME StockInv, AccountsInv, NEW t \in Threads, Exits(t)
  PROVE  AccountsInv'
<1>1. Aside(t)
  BY ExitFacts, StatementAside DEF StockInv, TypeOK
<1> QED
  BY <1>1, ExitFacts, LeavesInTurn

(* No account has been written where Snowflake.nextId fails, or the        *)
(* rollback will take it back.                                             *)
LEMMA NextIdBalance ==
  ASSUME StockInv, AccountsInv, NEW t \in Threads, NextIdThrows(t)
  PROVE  AccountsInv'
<1>1. \/ UNCHANGED dbVars
      \/ \E R : Read(t, R)
      \/ \E r \in ProductRows : \E value, reads : Update(t, r, value, reads)
  BY NextIdFacts DEF ProductRows
<1>2. Aside(t)
  BY <1>1, NextIdFacts, StatementAside DEF StockInv, TypeOK
<1> QED
  BY <1>2, NextIdFacts, LeavesInTurn

LEMMA LockProductBalance ==
  ASSUME StockInv, AccountsInv, NEW t \in Threads, LockProduct(t)
  PROVE  AccountsInv'
<1> SUFFICES ASSUME RowLocked PROVE AccountsInv'
  BY LockedKept, StatementOwn DEF LockProduct, PlanAcquire, AccountsInv, OnlyOwn, StockInv, TypeOK
<1>1. PICK p \in todo[t] :
        /\ PlanAcquire(t, "pid", "set", p)
        /\ todo' \in {[todo EXCEPT ![t] = InBatch(batch[t])], [todo EXCEPT ![t] = @ \ {p}]}
        /\ Goto(t, IF kind[t] = "reload" THEN "reload" ELSE "source") \/ UNCHANGED <<pc, outcome>>
  BY DEF LockProduct, NextIds
<1>2. /\ pc[t] = "lockProduct" /\ p \in Products /\ kind[t] \in {"package", "reload"}
      /\ UNCHANGED <<seen, saved, kind, who, batch, pin, pout, outflow, inflow>>
  BY DEF LockProduct, requestVars, workVars, pendingVars, bookVars, StockInv, WorkOK, ThreadOK
<1>3. /\ \A u \in Threads \ {t} : pc'[u] = pc[u] /\ todo'[u] = todo[u]
      /\ \/ pc'[t] = "lockProduct"
         \/ pc'[t] = "reload" /\ kind[t] = "reload"
         \/ pc'[t] = "source" /\ kind[t] = "package"
  BY <1>1, <1>2 DEF Goto, StockInv, TypeOK, BizTypeOK
<1>4. Aside(t)
  <2>1. ForUpdateLock(t, ProductRow(p)) /\ ProductRow(p) \in ProductRows
    BY <1>1, <1>2 DEF RowLocked, PlanAcquire, LockRow, ProductRows
  <2> QED
    BY <1>2, <1>3, <2>1, StatementAside DEF StockInv, TypeOK
<1>5. InTurn(t) /\ saved[t] = NothingSaved
  BY <1>2 DEF AccountsInv, InTurn
<1>6. InTurn(t)'
  <2>1. UsersInUse(t)' \subseteq UsersInUse(t)
    BY <1>2, <1>3 DEF UsersInUse
  <2> QED
    BY <1>2, <1>3, <1>4, <1>5, <2>1, StaysInTurn DEF ResetLabels
<1> QED
  BY <1>2, <1>4, <1>6, AsideKeeps

LEMMA ChooseBalance ==
  ASSUME StockInv, AccountsInv, NEW t \in Threads, FillCart(t) \/ FindInsufficient(t)
  PROVE  AccountsInv'
<1>1. /\ UNCHANGED dbVars \/ \E R : Read(t, R)
      /\ pc[t] \in {"cart", "find"} /\ Goto(t, "lockProduct")
      /\ UNCHANGED <<seen, saved, kind, who, pin, pout, outflow, inflow>>
      /\ \E b : batch' = [batch EXCEPT ![t] = b]
      /\ \E ids : todo' = [todo EXCEPT ![t] = ids]
  BY DEF FillCart, FindInsufficient, requestVars, pendingVars, bookVars
<1>2. /\ pc[t] = "cart" => kind[t] = "package"
      /\ pc[t] = "find" => kind[t] = "reload"
      /\ pc'[t] = "lockProduct"
      /\ \A u \in Threads \ {t} : pc'[u] = pc[u] /\ todo'[u] = todo[u] /\ batch'[u] = batch[u]
  BY <1>1 DEF Goto, StockInv, WorkOK, ThreadOK, TypeOK, BizTypeOK
<1>3. Aside(t)
  BY <1>1, <1>2, StatementAside DEF StockInv, TypeOK
<1>4. ASSUME RowLocked PROVE InTurn(t)'
  <2>1. InTurn(t) /\ saved[t] = NothingSaved
    BY <1>1, <1>4 DEF AccountsInv, InTurn
  <2>2. UsersInUse(t)' \subseteq UsersInUse(t) /\ kind[t] # "recharge"
    BY <1>1, <1>2 DEF UsersInUse
  <2> QED
    BY <1>1, <1>2, <1>3, <2>1, <2>2, StaysInTurn DEF ResetLabels
<1> QED
  BY <1>1, <1>3, <1>4, AsideKeeps

(* An operation that goes on to its next statement. *)
LEMMA GoesOn ==
  ASSUME StockInv, AccountsInv, NEW t \in Threads, Aside(t), UNCHANGED <<saved, kind, who>>,
         pc[t] # "lockUser",
         \/ pc'[t] \in {"unlock", "commit", "rollback"}
         \/ /\ pc[t] \in AccountSteps \cup StockSteps
            /\ pc'[t] \in (AccountSteps \ {"credit"}) \cup StockSteps
            /\ pc'[t] \in AccountSteps => pc[t] \in AccountSteps
            /\ pc[t] = "status" => saved[t] = NothingSaved
            /\ kind[t] = "recharge" => todo'[t] \subseteq todo[t],
         RowLocked
  PROVE  InTurn(t)'
<1>1. InTurn(t)
  BY DEF AccountsInv
<1>2. CASE pc'[t] \in {"unlock", "commit", "rollback"}
  BY <1>1, <1>2, StaysInTurn DEF ResetLabels
<1>3. CASE pc'[t] \notin {"unlock", "commit", "rollback"}
  <2>1. saved[t] = NothingSaved
    BY <1>1, <1>3 DEF InTurn, AccountSteps, StockSteps
  <2>2. UsersInUse(t)' \subseteq UsersInUse(t)
    BY <1>3 DEF UsersInUse, AccountSteps, StockSteps
  <2>3. kind[t] = "recharge" /\ pc'[t] \in AccountSteps => todo'[t] \subseteq who[t]
    BY <1>1, <1>3 DEF InTurn, AccountSteps, StockInv, WorkOK, ThreadOK
  <2>4. pc'[t] \notin ResetLabels \cup {"idle", "lockUser", "credit"}
    BY <1>3 DEF ResetLabels, AccountSteps, StockSteps
  <2> QED
    BY <1>1, <2>1, <2>2, <2>3, <2>4, StaysInTurn
<1> QED
  BY <1>2, <1>3

LEMMA SourceBalance ==
  ASSUME StockInv, AccountsInv, NEW t \in Threads, CreateSource(t)
  PROVE  AccountsInv'
<1>1. /\ Insert(t) /\ pc[t] = "source"
      /\ Goto(t, IF kind[t] = "package" THEN "deduct" ELSE "cash")
      /\ UNCHANGED <<seen, saved, kind, who, todo, batch, pin, pout, outflow, inflow>>
  BY DEF CreateSource, requestVars, pendingVars, bookVars
<1>2. pc'[t] \in {"deduct", "cash"} /\ \A u \in Threads \ {t} : pc'[u] = pc[u]
  BY <1>1, GotoPc DEF StockInv, TypeOK
<1>3. Aside(t)
  BY <1>1, <1>2, StatementAside DEF StockInv, TypeOK
<1> QED
  BY <1>1, <1>2, <1>3, GoesOn, AsideKeeps DEF AccountSteps

(* the entries of a product are none of a user *)
LEMMA ProductEntry ==
  ASSUME NEW books \in [Threads -> [Rows -> Int]], NEW t \in Threads, NEW p \in Products, NEW n
  PROVE  LET after == [books EXCEPT ![t][ProductRow(p)] = @ + n]
         IN \A v \in Threads, u \in Users : after[v][UserRow(u)] = books[v][UserRow(u)]
BY UserFacts, RowFacts

LEMMA ItemBalance ==
  ASSUME StockInv, AccountsInv, NEW t \in Threads, DeductStock(t) \/ SkipProduct(t)
  PROVE  AccountsInv'
<1> DEFINE p == First(todo[t])
<1>1. /\ pc[t] = "deduct" /\ UNCHANGED <<seen, saved, kind, who, batch, pin, outflow, inflow>>
      /\ Insert(t) \/ \E value, reads : Update(t, ProductRow(p), value, reads)
      /\ pout' = pout \/ \E n : pout' = [pout EXCEPT ![t][ProductRow(p)] = @ + n]
      /\ \E entries : NextItem(t, p, entries)
  BY DEF DeductStock, SkipProduct, requestVars, workVars, pendingVars, bookVars
<1>2. p \in Products /\ ProductRow(p) \in ProductRows
  BY <1>1, ProductFacts DEF ProductRows
<1>3. /\ pc'[t] \in {"deduct", "cash", "unlock", "commit", "rollback"}
      /\ todo'[t] \subseteq todo[t]
      /\ \A u \in Threads \ {t} : pc'[u] = pc[u] /\ todo'[u] = todo[u]
  BY <1>1, LeaveKeys DEF NextItem, Goto, StockInv, TypeOK, BizTypeOK
<1>4. Aside(t)
  BY <1>1, <1>2, <1>3, StatementAside DEF StockInv, TypeOK
<1> HIDE DEF p
<1>5. \A v \in Threads, u \in Users : pout'[v][UserRow(u)] = pout[v][UserRow(u)]
  <2>1. CASE \E n : pout' = [pout EXCEPT ![t][ProductRow(p)] = @ + n]
    <3>1. PICK n : pout' = [pout EXCEPT ![t][ProductRow(p)] = @ + n]
      BY <2>1
    <3>2. pout \in [Threads -> [Rows -> Int]]
      BY DEF StockInv, TypeOK, BizTypeOK
    <3> QED
      BY <1>2, <3>1, <3>2, ProductEntry
  <2> QED
    BY <1>1, <2>1
<1>6. RowLocked => InTurn(t)'
  BY <1>1, <1>3, <1>4, GoesOn DEF AccountSteps
<1> QED
  BY <1>1, <1>4, <1>5, <1>6, AsideKeeps

LEMMA StockRowBalance ==
  ASSUME StockInv, AccountsInv, NEW t \in Threads, ReadStock(t) \/ Restock(t)
  PROVE  AccountsInv'
<1> DEFINE p == First(todo[t])
<1>1. /\ pc[t] \in StockSteps /\ UNCHANGED <<saved, kind, who, batch, pout, outflow, inflow>>
      /\ \/ UNCHANGED dbVars
         \/ \E R : Read(t, R)
         \/ \E value, reads : Update(t, ProductRow(p), value, reads)
      /\ pin' = pin \/ \E n : pin' = [pin EXCEPT ![t][ProductRow(p)] = @ + n]
      /\ seen' = seen \/ \E value : seen' = [seen EXCEPT ![t] = value]
      /\ todo' \in {todo, [todo EXCEPT ![t] = @ \ {p}]}
      /\ (\E o : Leave(t, o)) \/ Goto(t, "reload") \/ Goto(t, "restock")
  BY DEF ReadStock, Restock, requestVars, workVars, pendingVars, bookVars, StockSteps
<1>2. p \in Products /\ ProductRow(p) \in ProductRows
  BY <1>1, ProductFacts DEF ProductRows, StockSteps
<1>3. /\ pc'[t] \in StockSteps \cup {"unlock", "commit", "rollback"}
      /\ todo'[t] \subseteq todo[t]
      /\ \A u \in Threads \ {t} : pc'[u] = pc[u] /\ todo'[u] = todo[u] /\ seen'[u] = seen[u]
  BY <1>1, LeaveKeys DEF Goto, StockSteps, StockInv, TypeOK, BizTypeOK
<1>4. Aside(t)
  BY <1>1, <1>2, <1>3, StatementAside DEF StockInv, TypeOK
<1> HIDE DEF p
<1>5. \A v \in Threads, u \in Users : pin'[v][UserRow(u)] = pin[v][UserRow(u)]
  <2>1. CASE \E n : pin' = [pin EXCEPT ![t][ProductRow(p)] = @ + n]
    <3>1. PICK n : pin' = [pin EXCEPT ![t][ProductRow(p)] = @ + n]
      BY <2>1
    <3>2. pin \in [Threads -> [Rows -> Int]]
      BY DEF StockInv, TypeOK, BizTypeOK
    <3> QED
      BY <1>2, <3>1, <3>2, ProductEntry
  <2> QED
    BY <1>1, <2>1
<1>6. RowLocked => InTurn(t)'
  BY <1>1, <1>3, <1>4, GoesOn DEF AccountSteps, StockSteps
<1> QED
  BY <1>1, <1>3, <1>4, <1>5, <1>6, AsideKeeps

LEMMA StatusBalance ==
  ASSUME StockInv, AccountsInv, NEW t \in Threads, UpdateStatusCode(t)
  PROVE  AccountsInv'
<1>1. /\ pc[t] = "status" /\ saved[t] = NothingSaved
      /\ todo' = [todo EXCEPT ![t] = @ \ {Account(t)}]
      /\ (\E o : Leave(t, o)) \/ Goto(t, "source")
      /\ UNCHANGED <<dbVars, seen, saved, kind, who, batch, pin, pout, outflow, inflow>>
  BY DEF UpdateStatusCode, requestVars, workVars, pendingVars, bookVars
<1>2. /\ pc'[t] \in {"source", "unlock", "commit", "rollback"} /\ todo'[t] \subseteq todo[t]
      /\ \A u \in Threads \ {t} : pc'[u] = pc[u] /\ todo'[u] = todo[u]
  BY <1>1, LeaveKeys DEF Goto, StockInv, TypeOK, BizTypeOK
<1>3. Aside(t)
  BY <1>1, <1>2, StatementAside DEF StockInv, TypeOK
<1> QED
  BY <1>1, <1>2, <1>3, GoesOn, AsideKeeps DEF AccountSteps

-----------------------------------------------------------------------------
(* The steps of the owner of a user's row with the accounts. *)

LEMMA AccountLocked ==
  ASSUME StockInv, AccountsInv, RowLocked, NEW t \in Threads,
         pc[t] \in {"cash", "credit", "status"}
  PROVE  Account(t) \in Users /\ holder[UserRow(Account(t))] = t
<1>1. Account(t) \in Users /\ (kind[t] = "recharge" => Account(t) \in todo[t])
  BY AccountFacts
<1>2. InTurn(t) /\ ThreadOK(t) /\ who[t] \subseteq Users
  BY DEF AccountsInv, StockInv, WorkOK, TypeOK, BizTypeOK
<1>3. Account(t) \in who[t]
  <2>1. CASE kind[t] = "recharge"
    BY <1>1, <1>2, <2>1 DEF InTurn
  <2>2. CASE kind[t] # "recharge"
    <3>1. who[t] # {} /\ who[t] \in SUBSET Nat
      BY <1>2, <2>2, TablesAssumption DEF ThreadOK
    <3> QED
      BY <2>2, <3>1, FirstIn DEF Account
  <2> QED
    BY <2>1, <2>2
<1>4. UsersLocked(t) = who[t]
  BY <1>2 DEF ThreadOK, UsersLocked, UsersInUse
<1> QED
  BY <1>1, <1>2, <1>3, <1>4 DEF InTurn

(* What the owner reads of an account is its newest value. *)
LEMMA VisibleLatest ==
  ASSUME StockInv, AccountsInv, RowLocked, NEW t \in Threads, NEW u \in Users,
         holder[UserRow(u)] = t, NEW r \in AccountsOf(u)
  PROVE  Visible(t, r) = latest[r]
<1>1. OwnerBalance(t, u) /\ RowsOwned
  BY DEF AccountsInv
<1>2. view[t] # NoView => view[t][r] = committed[r]
  BY <1>1 DEF OwnerBalance
<1>3. holder[r] \in {t, NoThread} /\ (holder[r] = NoThread => latest[r] = committed[r])
  BY <1>1 DEF RowsOwned
<1> QED
  BY <1>2, <1>3 DEF Visible, Dirty

LEMMA ReadCashBalance ==
  ASSUME StockInv, AccountsInv, NEW t \in Threads, ReadCash(t)
  PROVE  AccountsInv'
<1>1. /\ pc[t] = "cash" /\ (\E R : Read(t, R)) /\ Goto(t, "credit")
      /\ seen' = [seen EXCEPT ![t] = Visible(t, CashRow(Account(t)))]
      /\ UNCHANGED <<saved, kind, who, todo, batch, pin, pout, outflow, inflow>>
  BY DEF ReadCash, requestVars, pendingVars, bookVars
<1>2. /\ pc'[t] = "credit" /\ seen'[t] = Visible(t, CashRow(Account(t)))
      /\ \A u \in Threads \ {t} : pc'[u] = pc[u] /\ seen'[u] = seen[u]
  BY <1>1, GotoPc DEF StockInv, TypeOK, BizTypeOK
<1>3. Aside(t)
  BY <1>1, <1>2, StatementAside DEF StockInv, TypeOK
<1>4. ASSUME RowLocked PROVE InTurn(t)'
  <2>1. Account(t) \in Users /\ holder[UserRow(Account(t))] = t
    BY <1>1, <1>4, AccountLocked
  <2>2. seen'[t] = latest[CashRow(Account(t))]
    BY <1>2, <1>4, <2>1, VisibleLatest DEF AccountsOf
  <2>3. CashRow(Account(t)) \in AccountRows /\ Account(t)' = Account(t)
    BY <1>1, <2>1, RowFacts DEF Account
  <2>4. InTurn(t) /\ UsersLocked(t)' = UsersLocked(t) /\ UsersLocked(t) \subseteq Users
    BY <1>1, <1>2, <1>4 DEF AccountsInv, UsersLocked, UsersInUse, StockInv, TypeOK, BizTypeOK
  <2> QED
    BY <1>1, <1>2, <1>3, <2>2, <2>3, <2>4 DEF InTurn, Aside, ResetLabels
<1> QED
  BY <1>1, <1>2, <1>3, <1>4, AsideKeeps

-----------------------------------------------------------------------------
(* The row of a user is free: so are the accounts', and nobody has entered *)
(* or saved anything for them.                                             *)
LEMMA LockUserBalance ==
  ASSUME StockInv, AccountsInv, NEW t \in Threads, LockUser(t)
  PROVE  AccountsInv'
<1>0. conf' = conf
  BY StatementOwn DEF LockUser, PlanAcquire, OnlyOwn, StockInv, TypeOK, ForUpdateLock, dbVars
<1> SUFFICES ASSUME RowLocked
             PROVE  /\ RowsOwned' /\ AccountsBalance'
                    /\ \A v \in Threads : InTurn(v)' /\ \A u \in Users : OwnerBalance(v, u)'
  BY <1>0, LockedKept DEF AccountsInv
<1>1. PICK u \in todo[t] :
        /\ ForUpdateLock(t, UserRow(u))
        /\ IF todo[t] = {u}
           THEN /\ todo' = [todo EXCEPT ![t] = who[t]]
                /\ Goto(t, IF kind[t] = "package" THEN "cart" ELSE "source")
           ELSE /\ todo' = [todo EXCEPT ![t] = @ \ {u}]
                /\ UNCHANGED <<pc, outcome>>
  BY DEF LockUser, NextIds, PlanAcquire, LockRow, RowLocked
<1>2. /\ pc[t] = "lockUser"
      /\ UNCHANGED <<committed, latest, view, seen, saved, kind, who, pin, pout, outflow, inflow>>
  BY <1>1 DEF LockUser, ForUpdateLock, requestVars, workVars, pendingVars, bookVars
<1>3. InTurn(t) /\ todo[t] \subseteq who[t] /\ who[t] \subseteq Users /\ u \in Users
      /\ view[t] = NoView /\ saved[t] = NothingSaved
  BY <1>1, <1>2 DEF AccountsInv, InTurn, StockInv, TypeOK, BizTypeOK
<1>4. /\ holder[UserRow(u)] \in {t, NoThread} /\ holder'[UserRow(u)] = t
      /\ \A r \in Rows : r # UserRow(u) => holder'[r] = holder[r]
  BY <1>1, <1>3, UserFacts DEF ForUpdateLock, LockBlockers, StockInv, TypeOK, DatabaseTypeOK
<1>5. /\ \A w \in Users : \A r \in AccountsOf(w) : holder'[r] = holder[r]
      /\ \A w \in Users \ {u} : holder'[UserRow(w)] = holder[UserRow(w)]
  BY <1>3, <1>4, UserFacts
<1>6. RowsOwned'
  BY <1>2, <1>4, <1>5 DEF AccountsInv, RowsOwned
<1>7. AccountsBalance'
  BY <1>2 DEF AccountsInv, AccountsBalance
<1>8. /\ \A v \in Threads \ {t} : pc'[v] = pc[v] /\ todo'[v] = todo[v]
      /\ \/ pc'[t] = "lockUser" /\ todo'[t] = todo[t] \ {u}
         \/ pc'[t] \in {"cart", "source"} /\ todo'[t] = who[t] /\ todo[t] = {u}
  BY <1>1, <1>2 DEF Goto, StockInv, TypeOK, BizTypeOK
<1>9. InTurn(t)'
  <2>1. UsersLocked(t)' \subseteq UsersLocked(t) \cup {u}
    BY <1>2, <1>8 DEF UsersLocked, UsersInUse
  <2>2. UsersLocked(t) \subseteq Users
    BY <1>2, <1>3 DEF UsersLocked
  <2>3. \A w \in UsersLocked(t)' : holder'[UserRow(w)] = t
    BY <1>3, <1>4, <1>5, <2>1, <2>2 DEF InTurn
  <2> QED
    BY <1>2, <1>3, <1>8, <2>3 DEF InTurn, ResetLabels
<1>10. ASSUME NEW v \in Threads \ {t} PROVE InTurn(v)'
  <2>1. UsersLocked(v)' = UsersLocked(v) /\ UsersLocked(v) \subseteq Users
    BY <1>2, <1>8 DEF UsersLocked, UsersInUse, StockInv, TypeOK, BizTypeOK
  <2>2. InTurn(v) /\ v # NoThread /\ Account(v)' = Account(v)
    BY <1>2, <1>8, DatabaseAssumption DEF AccountsInv, Account
  <2>3. \A w \in UsersLocked(v) : w # u
    BY <1>4, <2>2 DEF InTurn
  <2> QED
    BY <1>2, <1>5, <1>8, <2>1, <2>2, <2>3 DEF InTurn
<1>11. ASSUME NEW v \in Threads, NEW w \in Users PROVE OwnerBalance(v, w)'
  <2>1. OwnerBalance(v, w) /\ \A r \in AccountsOf(w) : After(v, r)' = After(v, r)
    BY <1>2 DEF AccountsInv, After
  <2>2. CASE v # t \/ w # u \/ holder[UserRow(u)] = t
    <3>1. holder'[UserRow(w)] = v <=> holder[UserRow(w)] = v
      BY <1>4, <1>5, <2>2, DatabaseAssumption
    <3> QED
      BY <1>2, <2>1, <3>1 DEF OwnerBalance, AccountsOf
  <2>3. CASE v = t /\ w = u /\ holder[UserRow(u)] = NoThread
    <3>1. /\ pin[t][UserRow(u)] = 0 /\ pout[t][UserRow(u)] = 0
          /\ AccountsOf(u) \cap DOMAIN saved[t] = {}
      BY <2>1, <2>3, DatabaseAssumption DEF OwnerBalance
    <3>2. \A r \in AccountsOf(u) : latest[r] = committed[r] /\ committed[r] \in Int
      BY <1>3, <2>3, UserFacts DEF AccountsInv, RowsOwned, StockInv, TypeOK, DatabaseTypeOK
    <3>3. \A r \in AccountsOf(u) : After(t, r)' = committed'[r] /\ committed'[r] \in Int
      BY <1>2, <3>1, <3>2 DEF After
    <3> QED
      BY <1>2, <1>3, <1>4, <2>3, <3>1, <3>3 DEF OwnerBalance, AccountsOf
  <2> QED
    BY <1>4, <2>2, <2>3
<1> QED
  BY <1>6, <1>7, <1>9, <1>10, <1>11

-----------------------------------------------------------------------------
(* What save plans to write is what the rows will hold. *)
LEMMA SavedFacts ==
  ASSUME BizTypeOK, NEW t \in Threads, NEW a \in Users, NEW cash \in Int, NEW credit \in Int,
         saved[t] = NothingSaved, seen[t] = latest[CashRow(a)],
         Save(t, a, cash, credit, latest[CreditRow(a)]), latest' = latest
  PROVE  /\ After(t, CashRow(a))' = cash /\ After(t, CreditRow(a))' = credit
         /\ DOMAIN saved'[t] \subseteq AccountsOf(a)
         /\ \A v \in Threads \ {t} : saved'[v] = saved[v]
<1> DEFINE D == (IF cash # seen[t] THEN {CashRow(a)} ELSE {}) \cup
                (IF credit # latest[CreditRow(a)] THEN {CreditRow(a)} ELSE {})
           f == [r \in D |-> IF r = CashRow(a) THEN cash ELSE credit]
<1>1. /\ DOMAIN f = D /\ D \subseteq AccountsOf(a)
      /\ IF CashRow(a) \in D THEN f[CashRow(a)] = cash ELSE cash = latest[CashRow(a)]
      /\ IF CreditRow(a) \in D THEN f[CreditRow(a)] = credit
                               ELSE credit = latest[CreditRow(a)]
  BY UserFacts DEF AccountsOf
<1>2. saved' = [saved EXCEPT ![t] = f]
  BY DEF Save
<1> HIDE DEF f, D
<1>3. saved'[t] = f /\ \A v \in Threads \ {t} : saved'[v] = saved[v]
  BY <1>2 DEF BizTypeOK
<1> QED
  BY <1>1, <1>3 DEF After

(* A bill, an order or a recharge plans to write what it enters. *)
Settles(t, a, cash, credit, paid, received) ==
  /\ cash \in Int /\ credit \in Int /\ paid \in Int /\ received \in Int
  /\ cash + credit + paid - received = seen[t] + Visible(t, CreditRow(a))
  /\ Save(t, a, cash, credit, Visible(t, CreditRow(a)))
  /\ pout' = [pout EXCEPT ![t][UserRow(a)] = @ + paid]
  /\ pin' = [pin EXCEPT ![t][UserRow(a)] = @ + received]

LEMMA SettleBalance ==
  ASSUME StockInv, AccountsInv, NEW t \in Threads, pc[t] = "credit", NEW a, a = Account(t),
         NEW cash, NEW credit, NEW paid, NEW received,
         Settles(t, a, cash, credit, paid, received), \E R : Read(t, R),
         pc'[t] \in {"status", "unlock", "commit", "rollback"},
         \A v \in Threads \ {t} : pc'[v] = pc[v],
         UNCHANGED <<seen, kind, who, todo, batch, outflow, inflow>>
  PROVE  AccountsInv'
<1>0. Aside(t)
  BY StatementAside DEF StockInv, TypeOK
<1> USE DEF Settles
<1> SUFFICES ASSUME RowLocked
             PROVE  /\ RowsOwned' /\ AccountsBalance'
                    /\ \A v \in Threads : InTurn(v)' /\ \A u \in Users : OwnerBalance(v, u)'
  BY <1>0, LockedKept DEF AccountsInv, Aside, Frame, OnlyOwn
<1>1. /\ a \in Users /\ holder[UserRow(a)] = t /\ InTurn(t) /\ saved[t] = NothingSaved
      /\ seen[t] = latest[CashRow(a)] /\ OwnerBalance(t, a)
  BY AccountLocked DEF AccountsInv, InTurn
<1>2. Visible(t, CreditRow(a)) = latest[CreditRow(a)]
  BY <1>1, VisibleLatest DEF AccountsOf
<1>3. /\ UNCHANGED <<committed, latest, holder>>
      /\ view'[t] \in {view[t], committed} /\ \A v \in Threads \ {t} : view'[v] = view[v]
  BY <1>0 DEF Read, Aside
<1>4. /\ After(t, CashRow(a))' = cash /\ After(t, CreditRow(a))' = credit
      /\ DOMAIN saved'[t] \subseteq AccountsOf(a)
      /\ \A v \in Threads \ {t} : saved'[v] = saved[v]
  BY <1>1, <1>2, <1>3, SavedFacts DEF StockInv, TypeOK
<1>5. /\ pout'[t][UserRow(a)] = pout[t][UserRow(a)] + paid
      /\ pin'[t][UserRow(a)] = pin[t][UserRow(a)] + received
      /\ \A v \in Threads, u \in Users : v # t \/ u # a =>
           /\ pout'[v][UserRow(u)] = pout[v][UserRow(u)]
           /\ pin'[v][UserRow(u)] = pin[v][UserRow(u)]
  BY <1>1, UserFacts DEF StockInv, TypeOK, BizTypeOK
<1>6. RowsOwned' /\ AccountsBalance'
  BY <1>3 DEF AccountsInv, RowsOwned, AccountsBalance
<1>7. ASSUME NEW v \in Threads PROVE InTurn(v)'
  <2>1. InTurn(v)
    BY DEF AccountsInv
  <2>2. UsersLocked(v)' \subseteq UsersLocked(v) /\ Account(v)' = Account(v)
    BY DEF UsersLocked, UsersInUse, Account
  <2>3. CASE v = t
    BY <1>3, <2>1, <2>2, <2>3 DEF InTurn, ResetLabels
  <2>4. CASE v # t
    BY <1>3, <1>4, <2>1, <2>2, <2>4 DEF InTurn
  <2> QED
    BY <2>3, <2>4
<1>8. OwnerBalance(t, a)'
  <2>1. /\ pin[t][UserRow(a)] \in Int /\ pout[t][UserRow(a)] \in Int
        /\ committed[CashRow(a)] \in Int /\ committed[CreditRow(a)] \in Int
        /\ latest[CashRow(a)] \in Int /\ latest[CreditRow(a)] \in Int
    BY <1>1, UserFacts DEF StockInv, TypeOK, BizTypeOK, DatabaseTypeOK
  <2>2. After(t, CashRow(a)) = latest[CashRow(a)] /\ After(t, CreditRow(a)) = latest[CreditRow(a)]
    BY <1>1 DEF After, NothingSaved
  <2>3. committed[CashRow(a)] + committed[CreditRow(a)] + pin[t][UserRow(a)] - pout[t][UserRow(a)]
          = latest[CashRow(a)] + latest[CreditRow(a)]
    BY <1>1, <2>2 DEF OwnerBalance
  <2>4. cash + credit + paid - received = latest[CashRow(a)] + latest[CreditRow(a)]
    BY <1>1, <1>2
  <2>5. committed[CashRow(a)] + committed[CreditRow(a)] + (pin[t][UserRow(a)] + received)
          - (pout[t][UserRow(a)] + paid) = cash + credit
    BY <2>1, <2>3, <2>4
  <2>6. view'[t] # NoView => \A r \in AccountsOf(a) : view'[t][r] = committed[r]
    BY <1>1, <1>3 DEF OwnerBalance
  <2> QED
    BY <1>1, <1>3, <1>4, <1>5, <2>5, <2>6 DEF OwnerBalance
<1>9. ASSUME NEW v \in Threads, NEW u \in Users, v # t \/ u # a PROVE OwnerBalance(v, u)'
  <2>1. OwnerBalance(v, u)
    BY DEF AccountsInv
  <2>2. /\ \A r \in AccountsOf(u) : After(v, r)' = After(v, r)
        /\ AccountsOf(u) \cap DOMAIN saved[v] = {} => AccountsOf(u) \cap DOMAIN saved'[v] = {}
    <3>1. CASE v = t
      BY <1>1, <1>3, <1>4, <1>9, <3>1, UserFacts DEF After, NothingSaved
    <3>2. CASE v # t
      BY <1>3, <1>4, <3>2 DEF After
    <3> QED
      BY <3>1, <3>2
  <2>3. view'[v] # NoView /\ holder[UserRow(u)] = v =>
          \A r \in AccountsOf(u) : view'[v][r] = committed[r]
    BY <1>3, <2>1 DEF OwnerBalance
  <2> QED
    BY <1>3, <1>5, <1>9, <2>1, <2>2, <2>3 DEF OwnerBalance, AccountsOf
<1> QED
  BY <1>6, <1>7, <1>8, <1>9

(* What a bill or an order does with the two accounts, and a recharge. *)
LEMMA PayBillSettles ==
  ASSUME StockInv, NEW t \in Threads, PayBill(t)
  PROVE  \/ Leave(t, "biz") /\ UNCHANGED <<pout, saved>>
         \/ /\ \E cash, credit, paid : Settles(t, Account(t), cash, credit, paid, 0)
            /\ \/ Leave(t, "ok")
               \/ Goto(t, "status") /\ kind[t] # "recharge"
<1> DEFINE a      == Account(t)
           credit == Visible(t, CreditRow(a))
           result == Consume(seen[t], credit, due[t])
           paid   == result.cashConsume + result.creditConsume
<1>1. pc[t] = "credit" /\ UNCHANGED pin /\ kind[t] # "recharge"
  BY DEF PayBill
<1>2. \/ Leave(t, "biz") /\ UNCHANGED <<pout, saved>>
      \/ /\ pout' = [pout EXCEPT ![t][UserRow(a)] =
                            @ + result.cashConsume + result.creditConsume]
         /\ Save(t, a, result.cash, result.credit, credit)
         /\ Leave(t, "ok") \/ Goto(t, "status")
  <2>1. CASE kind[t] = "package" /\ result.debt > 0
    BY <2>1 DEF PayBill
  <2>2. CASE ~(kind[t] = "package" /\ result.debt > 0)
    BY <2>2 DEF PayBill
  <2> QED
    BY <2>1, <2>2
<1>3. BizTypeOK /\ DatabaseTypeOK
  BY DEF StockInv, TypeOK
<1>4. a \in Users /\ UserRow(a) \in Rows /\ credit \in Int /\ seen[t] \in Int /\ due[t] \in Int
  BY <1>1, <1>3, AccountFacts, RowFacts, VisibleType DEF BizTypeOK
<1> HIDE DEF credit
<1>5. /\ result.cash \in Int /\ result.credit \in Int
      /\ result.cashConsume \in Int /\ result.creditConsume \in Int
      /\ result.cash + result.credit + result.cashConsume + result.creditConsume
           = seen[t] + credit
  <2> DEFINE s == seen[t]
             b == due[t]
  <2>1. s \in Int /\ b \in Int /\ credit \in Int
    BY <1>4
  <2> HIDE DEF a, s, b
  <2>2. LET r == Consume(s, credit, b)
        IN /\ r.cash \in Int /\ r.credit \in Int
           /\ r.cashConsume \in Int /\ r.creditConsume \in Int
           /\ r.debt \in Int
           /\ r.cash + r.credit + r.cashConsume + r.creditConsume = s + credit
           /\ r.cashConsume + r.creditConsume + r.debt = b
    BY <2>1, ConsumeConserves
  <2> QED
    BY <2>2 DEF s, b
<1> HIDE DEF result, a
<1>6. paid \in Int /\ result.cash + result.credit + paid - 0 = seen[t] + credit
  BY <1>4, <1>5
<1>7. CASE /\ pout' = [pout EXCEPT ![t][UserRow(a)] =
                            @ + result.cashConsume + result.creditConsume]
           /\ Save(t, a, result.cash, result.credit, credit)
           /\ Leave(t, "ok") \/ Goto(t, "status")
  <2>1. pout' = [pout EXCEPT ![t][UserRow(a)] = @ + paid]
    <3>1. pout[t][UserRow(a)] \in Int
      BY <1>3, <1>4 DEF BizTypeOK
    <3>2. pout[t][UserRow(a)] + result.cashConsume + result.creditConsume
            = pout[t][UserRow(a)] + paid
      BY <1>5, <3>1
    <3> HIDE DEF paid
    <3> QED
      BY <1>7, <3>2
  <2>2. pin' = [pin EXCEPT ![t][UserRow(a)] = @ + 0]
    BY <1>1, <1>3, <1>4 DEF BizTypeOK
  <2>3. /\ Save(t, a, result.cash, result.credit, Visible(t, CreditRow(a)))
        /\ result.cash + result.credit + paid - 0 = seen[t] + Visible(t, CreditRow(a))
    BY <1>6, <1>7 DEF credit
  <2>4. a = Account(t)
    BY DEF a
  <2> HIDE DEF paid
  <2>5. Settles(t, a, result.cash, result.credit, paid, 0)
    BY <1>5, <1>6, <2>1, <2>2, <2>3 DEF Settles
  <2> QED
    BY <1>1, <1>7, <2>4, <2>5
<1> QED
  BY <1>2, <1>7

LEMMA RechargeSettles ==
  ASSUME StockInv, NEW t \in Threads, Recharge(t)
  PROVE  \E cash, credit, received : Settles(t, Account(t), cash, credit, 0, received)
<1> DEFINE a        == Account(t)
           credit   == Visible(t, CreditRow(a))
           result   == CalculationRecharge(due[t], seen[t], credit, CreditInit)
           received == result.cashConsume + result.creditConsume
<1>1. /\ pc[t] = "credit" /\ pout' = pout
      /\ pin' = [pin EXCEPT ![t][UserRow(a)] =
                            @ + result.cashConsume + result.creditConsume]
      /\ Save(t, a, result.cash, result.credit, credit)
  BY DEF Recharge
<1>3. BizTypeOK /\ DatabaseTypeOK
  BY DEF StockInv, TypeOK
<1>2. a \in Users
  BY <1>1, AccountFacts
<1>4. /\ UserRow(a) \in Rows /\ credit \in Int /\ seen[t] \in Int
      /\ due[t] \in Int /\ CreditInit \in Int
  <2>1. UserRow(a) \in Rows /\ CreditRow(a) \in Rows
    BY <1>2, RowFacts
  <2>2. credit \in Int
    BY <1>3, <2>1, VisibleType
  <2>3. CreditInit \in Int
    BY TablesAssumption
  <2> QED
    BY <1>3, <2>1, <2>2, <2>3 DEF BizTypeOK
<1> HIDE DEF credit
<1>5. /\ result.cash \in Int /\ result.credit \in Int
      /\ result.cashConsume \in Int /\ result.creditConsume \in Int
      /\ result.cash + result.credit = seen[t] + credit + due[t]
      /\ result.cashConsume + result.creditConsume = due[t]
  <2>1. due[t] \in Int /\ seen[t] \in Int /\ credit \in Int /\ CreditInit \in Int
    BY <1>4
  <2>2. /\ result.cash \in Int /\ result.credit \in Int
        /\ result.cashConsume \in Int /\ result.creditConsume \in Int
    BY <2>1, RechargeConserves
  <2>3. result.cash + result.credit = seen[t] + credit + due[t]
    BY <2>1 DEF CalculationRecharge
  <2>4. result.cashConsume + result.creditConsume = due[t]
    BY <2>1 DEF CalculationRecharge
  <2> QED
    BY <2>2, <2>3, <2>4
<1> HIDE DEF result, a
<1>6. received \in Int /\ result.cash + result.credit + 0 - received = seen[t] + credit
  BY <1>4, <1>5
<1>7. pin' = [pin EXCEPT ![t][UserRow(a)] = @ + received]
  <2>1. pin[t][UserRow(a)] \in Int
    BY <1>3, <1>4 DEF BizTypeOK
  <2>2. pin[t][UserRow(a)] + result.cashConsume + result.creditConsume
          = pin[t][UserRow(a)] + received
    BY <1>5, <2>1
  <2> HIDE DEF received
  <2> QED
    BY <1>1, <2>2
<1>8. pout' = [pout EXCEPT ![t][UserRow(a)] = @ + 0]
  BY <1>1, <1>3, <1>4 DEF BizTypeOK
<1>9. /\ Save(t, a, result.cash, result.credit, Visible(t, CreditRow(a)))
       /\ result.cash + result.credit + 0 - received = seen[t] + Visible(t, CreditRow(a))
  BY <1>1, <1>6 DEF credit
<1>10. a = Account(t)
  BY DEF a
<1> HIDE DEF received
<1>11. Settles(t, a, result.cash, result.credit, 0, received)
  BY <1>5, <1>6, <1>7, <1>8, <1>9 DEF Settles
<1> QED
  BY <1>10, <1>11

LEMMA PayBillBalance ==
  ASSUME StockInv, AccountsInv, NEW t \in Threads, PayBill(t)
  PROVE  AccountsInv'
<1>1. /\ pc[t] = "credit" /\ \E R : Read(t, R)
      /\ UNCHANGED <<seen, kind, who, todo, batch, pin, outflow, inflow>>
  BY DEF PayBill, requestVars, workVars, bookVars
<1>2. CASE Leave(t, "biz") /\ UNCHANGED <<pout, saved>>
  <2>1. /\ pc'[t] \in {"unlock", "commit", "rollback"}
        /\ \A v \in Threads \ {t} : pc'[v] = pc[v]
    BY <1>2, LeaveKeys DEF StockInv, TypeOK
  <2>2. Aside(t)
    BY <1>1, <1>2, <2>1, StatementAside DEF StockInv, TypeOK
  <2> QED
    BY <1>1, <1>2, <2>1, <2>2, LeavesInTurn
<1>3. CASE ~(Leave(t, "biz") /\ UNCHANGED <<pout, saved>>)
  <2>1. /\ \E cash, credit, paid : Settles(t, Account(t), cash, credit, paid, 0)
        /\ Leave(t, "ok") \/ Goto(t, "status")
    BY <1>3, PayBillSettles
  <2>2. /\ pc'[t] \in {"status", "unlock", "commit", "rollback"}
        /\ \A v \in Threads \ {t} : pc'[v] = pc[v]
    BY <2>1, LeaveKeys, GotoPc DEF StockInv, TypeOK
  <2> QED
    BY <1>1, <2>1, <2>2, SettleBalance
<1> QED
  BY <1>2, <1>3

LEMMA RechargeBalance ==
  ASSUME StockInv, AccountsInv, NEW t \in Threads, Recharge(t)
  PROVE  AccountsInv'
<1>1. /\ pc[t] = "credit" /\ (\E R : Read(t, R)) /\ Goto(t, "status")
      /\ UNCHANGED <<seen, kind, who, todo, batch, pout, outflow, inflow>>
  BY DEF Recharge, requestVars, workVars, bookVars
<1>2. pc'[t] = "status" /\ \A v \in Threads \ {t} : pc'[v] = pc[v]
  BY <1>1, GotoPc DEF StockInv, TypeOK
<1> QED
  BY <1>1, <1>2, RechargeSettles, SettleBalance

(* A flush moves a value from what is saved to what is newest. *)
LEMMA FlushBalance ==
  ASSUME StockInv, AccountsInv, NEW t \in Threads, Flush(t)
  PROVE  AccountsInv'
<1> DEFINE row == NextWrite(t)
<1>1. /\ pc[t] \in {"status", "commit"} /\ Update(t, row, saved[t][row], FALSE)
      /\ saved' = [saved EXCEPT ![t] = Restrict(@, DOMAIN @ \ {row})]
      /\ UNCHANGED <<pc, seen, kind, who, todo, batch, pin, pout, outflow, inflow>>
  BY DEF Flush, requestVars, workVars, bookVars
<1>2. row \in DOMAIN saved[t] /\ row \in AccountRows
  BY NextWriteFacts DEF Flush, StockInv, TypeOK, BizTypeOK
<1> HIDE DEF row
<1>0. conf' = conf
  BY <1>1 DEF Update
<1> SUFFICES ASSUME RowLocked
             PROVE  /\ RowsOwned' /\ AccountsBalance'
                    /\ \A v \in Threads : InTurn(v)' /\ \A u \in Users : OwnerBalance(v, u)'
  BY <1>0, LockedKept DEF AccountsInv
<1>3. PICK a \in Users : row \in AccountsOf(a)
  BY <1>2, UserFacts
<1>4. holder[UserRow(a)] = t
  BY <1>2, <1>3 DEF AccountsInv, OwnerBalance
<1>5. /\ committed' = committed
      /\ view'[t] \in {view[t], committed} /\ \A v \in Threads \ {t} : view'[v] = view[v]
  BY <1>1 DEF Update, OpenView, StockInv, TypeOK, DatabaseTypeOK
<1>6. /\ latest'[row] = saved[t][row] /\ holder'[row] = t
      /\ \A r \in Rows : r # row => latest'[r] = latest[r] /\ holder'[r] = holder[r]
  BY <1>1, <1>2, UserFacts DEF Update, StockInv, TypeOK, DatabaseTypeOK
<1>7. /\ \A u \in Users : holder'[UserRow(u)] = holder[UserRow(u)]
      /\ \A u \in Users \ {a} : \A r \in AccountsOf(u) :
           latest'[r] = latest[r] /\ holder'[r] = holder[r]
  BY <1>2, <1>3, <1>6, UserFacts
<1>8. /\ DOMAIN saved'[t] = DOMAIN saved[t] \ {row}
      /\ \A r \in DOMAIN saved'[t] : saved'[t][r] = saved[t][r]
      /\ \A v \in Threads \ {t} : saved'[v] = saved[v]
  BY <1>1 DEF Restrict, StockInv, TypeOK, BizTypeOK
<1>9. RowsOwned'
  <2>1. \A r \in AccountsOf(a) :
          /\ holder'[r] \in {t, NoThread}
          /\ holder'[r] = NoThread => latest'[r] = committed[r]
    BY <1>3, <1>4, <1>6, UserFacts, DatabaseAssumption DEF AccountsInv, RowsOwned
  <2> QED
    BY <1>4, <1>5, <1>7, <2>1 DEF AccountsInv, RowsOwned
<1>10. AccountsBalance'
  BY <1>1, <1>5 DEF AccountsInv, AccountsBalance
<1>11. ASSUME NEW v \in Threads PROVE InTurn(v)'
  <2>1. /\ InTurn(v) /\ UsersLocked(v)' = UsersLocked(v) /\ UsersLocked(v) \subseteq Users
        /\ Account(v)' = Account(v)
    BY <1>1 DEF AccountsInv, UsersLocked, UsersInUse, Account, StockInv, TypeOK, BizTypeOK
  <2>2. CASE v = t
    BY <1>1, <1>7, <2>1, <2>2 DEF InTurn
  <2>3. CASE v # t
    <3>1. pc[v] = "credit" => latest'[CashRow(Account(v))] = latest[CashRow(Account(v))]
      BY <1>4, <1>7, <2>3, AccountLocked DEF AccountsOf
    <3> QED
      BY <1>1, <1>5, <1>7, <1>8, <2>1, <2>3, <3>1 DEF InTurn
  <2> QED
    BY <2>2, <2>3
<1>12. ASSUME NEW v \in Threads, NEW u \in Users PROVE OwnerBalance(v, u)'
  <2>1. OwnerBalance(v, u)
    BY DEF AccountsInv
  <2>2. holder[UserRow(u)] = v => \A r \in AccountsOf(u) : After(v, r)' = After(v, r)
    <3>1. CASE v = t
      BY <1>2, <1>6, <1>8, <3>1, UserFacts DEF After
    <3>2. CASE v # t
      BY <1>4, <1>7, <1>8, <3>2 DEF After
    <3> QED
      BY <3>1, <3>2
  <2>3. holder[UserRow(u)] # v /\ AccountsOf(u) \cap DOMAIN saved[v] = {} =>
          AccountsOf(u) \cap DOMAIN saved'[v] = {}
    BY <1>8
  <2>4. view'[v] # NoView /\ holder[UserRow(u)] = v =>
          \A r \in AccountsOf(u) : view'[v][r] = committed[r]
    BY <1>5, <2>1 DEF OwnerBalance
  <2> QED
    BY <1>1, <1>5, <1>7, <2>1, <2>2, <2>3, <2>4 DEF OwnerBalance, AccountsOf
<1> QED
  BY <1>9, <1>10, <1>11, <1>12

-----------------------------------------------------------------------------
(* The end of a transaction, by commit or rollback: t gives up its rows,   *)
(* and in these the newest value is the committed one.                     *)
LEMMA EndsBalance ==
  ASSUME StockInv, AccountsInv, NEW t \in Threads, RowLocked, RowLocked',
         Forget(t), Clear(t), AccountsBalance',
         \A r \in Rows : IF holder[r] = t THEN latest'[r] = committed'[r]
                         ELSE latest'[r] = latest[r] /\ committed'[r] = committed[r],
         \/ pc'[t] = "idle"
         \/ pc'[t] = "lockUser" /\ todo'[t] = who'[t],
         \A v \in Threads \ {t} : /\ pc'[v] = pc[v] /\ kind'[v] = kind[v]
                                 /\ who'[v] = who[v] /\ todo'[v] = todo[v]
  PROVE  AccountsInv'
<1>1. RowsOwned
  BY DEF AccountsInv
<1>2. /\ view'[t] = NoView /\ \A v \in Threads \ {t} : view'[v] = view[v]
      /\ \A r \in Rows : holder'[r] = IF holder[r] = t THEN NoThread ELSE holder[r]
  BY DEF Forget, StockInv, TypeOK, DatabaseTypeOK
<1>3. /\ saved'[t] = NothingSaved
      /\ \A v \in Threads \ {t} : seen'[v] = seen[v] /\ saved'[v] = saved[v]
      /\ \A v \in Threads \ {t} : pin'[v] = pin[v] /\ pout'[v] = pout[v]
      /\ \A r \in Rows : pin'[t][r] = 0 /\ pout'[t][r] = 0
  <2>1. BizTypeOK
    BY DEF StockInv, TypeOK
  <2>2. /\ saved'[t] = NothingSaved
        /\ \A v \in Threads \ {t} : seen'[v] = seen[v] /\ saved'[v] = saved[v]
    BY <2>1 DEF Clear, BizTypeOK
  <2> QED
    BY <2>1, <2>2, ClearFacts
<1>4. ASSUME NEW v \in Threads \ {t}, NEW u \in Users, holder[UserRow(u)] = v
      PROVE  \A r \in AccountsOf(u) : latest'[r] = latest[r] /\ committed'[r] = committed[r]
  BY <1>1, <1>4, UserFacts, DatabaseAssumption DEF RowsOwned, AccountsOf
<1>5. RowsOwned'
  <2> SUFFICES ASSUME NEW u \in Users, NEW r \in AccountsOf(u)
               PROVE  /\ holder'[r] \in {holder'[UserRow(u)], NoThread}
                      /\ holder'[r] = NoThread => latest'[r] = committed'[r]
    BY DEF RowsOwned
  <2>1. r \in Rows /\ UserRow(u) \in Rows
    BY UserFacts DEF AccountsOf
  <2>2. /\ holder[r] \in {holder[UserRow(u)], NoThread}
        /\ holder[r] = NoThread => latest[r] = committed[r]
    BY <1>1 DEF RowsOwned
  <2> QED
    BY <1>2, <2>1, <2>2, DatabaseAssumption
<1>6. InTurn(t)'
  BY <1>2, <1>3 DEF InTurn, UsersLocked, UsersInUse, ResetLabels
<1>7. ASSUME NEW v \in Threads \ {t} PROVE InTurn(v)'
  <2>1. /\ InTurn(v) /\ UsersLocked(v)' = UsersLocked(v) /\ UsersLocked(v) \subseteq Users
        /\ Account(v)' = Account(v)
    BY DEF AccountsInv, UsersLocked, UsersInUse, Account, StockInv, TypeOK, BizTypeOK
  <2>2. \A u \in UsersLocked(v) : holder'[UserRow(u)] = v
    BY <1>2, <2>1, UserFacts DEF InTurn
  <2>3. pc[v] = "credit" => latest'[CashRow(Account(v))] = latest[CashRow(Account(v))]
    BY <1>4, AccountLocked DEF AccountsOf
  <2> QED
    BY <1>2, <1>3, <2>1, <2>2, <2>3 DEF InTurn
<1>8. ASSUME NEW u \in Users PROVE OwnerBalance(t, u)'
  BY <1>2, <1>3, UserFacts, DatabaseAssumption DEF OwnerBalance, NothingSaved
<1>9. ASSUME NEW v \in Threads \ {t}, NEW u \in Users PROVE OwnerBalance(v, u)'
  <2>1. OwnerBalance(v, u) /\ v # NoThread
    BY DatabaseAssumption DEF AccountsInv
  <2>2. holder'[UserRow(u)] = v <=> holder[UserRow(u)] = v
    BY <1>2, <2>1, UserFacts
  <2>3. holder[UserRow(u)] = v => \A r \in AccountsOf(u) : After(v, r)' = After(v, r)
    BY <1>3, <1>4 DEF After
  <2> QED
    BY <1>2, <1>3, <1>4, <2>1, <2>2, <2>3 DEF OwnerBalance, AccountsOf
<1> QED
  BY <1>5, <1>6, <1>7, <1>8, <1>9 DEF AccountsInv

LEMMA CommitBalance ==
  ASSUME StockInv, AccountsInv, NEW t \in Threads, Commit(t)
  PROVE  AccountsInv'
<1>0. CommitTransaction(t) /\ Clear(t) /\ Answer(t) /\ pc[t] \in {"commit", "resetCommit"}
  BY DEF Commit, CommitBiz, CommitReset
<1> SUFFICES ASSUME RowLocked PROVE AccountsInv'
  BY <1>0, LockedKept DEF AccountsInv, CommitTransaction
<1>1. /\ pc[t] = "commit" /\ saved[t] = NothingSaved
      /\ outflow' = [r \in Rows |-> outflow[r] + pout[t][r]]
      /\ inflow'  = [r \in Rows |-> inflow[r] + pin[t][r]]
  BY <1>0 DEF AccountsInv, InTurn, ResetLabels, Commit, CommitBiz, CommitReset
<1>2. /\ latest' = latest /\ Forget(t) /\ RowLocked'
      /\ \A r \in Rows : committed'[r] = IF holder[r] = t THEN latest[r] ELSE committed[r]
  BY <1>0, LockedKept DEF CommitTransaction
<1>3. AccountsBalance'
  <2> SUFFICES ASSUME NEW u \in Users
               PROVE  CashInit + CreditInit + inflow'[UserRow(u)]
                        = committed'[CashRow(u)] + committed'[CreditRow(u)] + outflow'[UserRow(u)]
    BY DEF AccountsBalance
  <2>1. UserRow(u) \in Rows /\ CashRow(u) \in Rows /\ CreditRow(u) \in Rows
    BY UserFacts
  <2>2. /\ inflow'[UserRow(u)] = inflow[UserRow(u)] + pin[t][UserRow(u)]
        /\ outflow'[UserRow(u)] = outflow[UserRow(u)] + pout[t][UserRow(u)]
    BY <1>1, <2>1
  <2>3. CashInit + CreditInit + inflow[UserRow(u)]
          = committed[CashRow(u)] + committed[CreditRow(u)] + outflow[UserRow(u)]
    BY DEF AccountsInv, AccountsBalance
  <2>4. /\ inflow[UserRow(u)] \in Int /\ outflow[UserRow(u)] \in Int
        /\ pin[t][UserRow(u)] \in Int /\ pout[t][UserRow(u)] \in Int
        /\ committed[CashRow(u)] \in Int /\ committed[CreditRow(u)] \in Int
        /\ latest[CashRow(u)] \in Int /\ latest[CreditRow(u)] \in Int
        /\ CashInit \in Int /\ CreditInit \in Int
    BY <2>1, TablesAssumption DEF StockInv, TypeOK, BizTypeOK, DatabaseTypeOK
  <2>5. OwnerBalance(t, u) /\ RowsOwned
    BY DEF AccountsInv
  <2>6. committed'[CashRow(u)] + committed'[CreditRow(u)]
          = committed[CashRow(u)] + committed[CreditRow(u)]
              + pin[t][UserRow(u)] - pout[t][UserRow(u)]
    <3>1. CASE holder[UserRow(u)] = t
      <4>1. \A r \in AccountsOf(u) : After(t, r) = latest[r] /\ committed'[r] = latest[r]
        BY <1>1, <1>2, <2>1, <2>5, <3>1, UserFacts DEF RowsOwned, After, NothingSaved, AccountsOf
      <4>2. committed[CashRow(u)] + committed[CreditRow(u)]
              + pin[t][UserRow(u)] - pout[t][UserRow(u)]
              = After(t, CashRow(u)) + After(t, CreditRow(u))
        BY <2>5, <3>1 DEF OwnerBalance
      <4> QED
        BY <4>1, <4>2 DEF AccountsOf
    <3>2. CASE holder[UserRow(u)] # t
      <4>1. \A r \in AccountsOf(u) : committed'[r] = committed[r]
        BY <1>2, <2>1, <2>5, <3>2, DatabaseAssumption DEF RowsOwned, AccountsOf
      <4>2. pin[t][UserRow(u)] = 0 /\ pout[t][UserRow(u)] = 0
        BY <2>5, <3>2 DEF OwnerBalance
      <4> QED
        BY <2>4, <4>1, <4>2 DEF AccountsOf
    <3> QED
      BY <3>1, <3>2
  <2> QED
    BY <2>2, <2>3, <2>4, <2>6
<1>4. \A r \in Rows : IF holder[r] = t THEN latest'[r] = committed'[r]
                      ELSE latest'[r] = latest[r] /\ committed'[r] = committed[r]
  BY <1>2
<1> QED
  BY <1>0, <1>2, <1>3, <1>4, AnswerFacts, EndsBalance

LEMMA RollbackBalance ==
  ASSUME StockInv, AccountsInv, NEW t \in Threads, GiveUp(t) \/ Retry(t)
  PROVE  AccountsInv'
<1>1. /\ RollbackTransaction(t) /\ Clear(t) /\ UNCHANGED <<outflow, inflow>>
      /\ Answer(t) \/ Retry(t)
  BY DEF GiveUp, Retry, RollbackBiz, RollbackReset, bookVars
<1> SUFFICES ASSUME RowLocked PROVE AccountsInv'
  BY <1>1, LockedKept DEF AccountsInv, RollbackTransaction
<1>2. /\ committed' = committed /\ Forget(t) /\ RowLocked'
      /\ \A r \in Rows : latest'[r] = IF holder[r] = t THEN committed[r] ELSE latest[r]
  BY <1>1, LockedKept DEF RollbackTransaction
<1>3. AccountsBalance'
  BY <1>1, <1>2 DEF AccountsInv, AccountsBalance
<1>4. \A r \in Rows : IF holder[r] = t THEN latest'[r] = committed'[r]
                      ELSE latest'[r] = latest[r] /\ committed'[r] = committed[r]
  BY <1>2
<1>5. /\ \/ pc'[t] = "idle"
         \/ pc'[t] = "lockUser" /\ todo'[t] = who'[t]
      /\ \A v \in Threads \ {t} : /\ pc'[v] = pc[v] /\ kind'[v] = kind[v]
                                  /\ who'[v] = who[v] /\ todo'[v] = todo[v]
  <2>1. CASE Answer(t)
    BY <2>1, AnswerFacts
  <2>2. CASE Retry(t)
    <3>1. /\ pc' = [pc EXCEPT ![t] = "lockUser"] /\ todo' = [todo EXCEPT ![t] = who[t]]
          /\ UNCHANGED <<kind, who>>
      BY <2>2 DEF Retry, Retries, FirstStep, requestVars
    <3> QED
      BY <3>1 DEF StockInv, TypeOK, BizTypeOK
  <2> QED
    BY <1>1, <2>1, <2>2
<1> QED
  BY <1>1, <1>2, <1>3, <1>4, <1>5, EndsBalance

-----------------------------------------------------------------------------
(* The beginning of a request, and the steps of nobody. *)

LEMMA ExecuteBalance ==
  ASSUME StockInv, AccountsInv, NEW t \in Threads, Execute(t)
  PROVE  AccountsInv'
<1>1. PICK k, S :
        /\ k \in Workload[conf]
        /\ kind' = [kind EXCEPT ![t] = k]
        /\ who'  = [who EXCEPT ![t] = S]
        /\ todo' = [todo EXCEPT ![t] = FirstIds(k, S)]
        /\ pc'   = [pc EXCEPT ![t] = FirstStep(k)]
  BY DEF Execute
<1>2. /\ pc[t] = "idle"
      /\ UNCHANGED <<dbVars, seen, saved, batch, pin, pout, outflow, inflow>>
  BY DEF Execute, workVars, pendingVars, bookVars
<1>3. /\ kind'[t] = k /\ who'[t] = S /\ todo'[t] = FirstIds(k, S) /\ pc'[t] = FirstStep(k)
      /\ \A v \in Threads \ {t} : /\ pc'[v] = pc[v] /\ kind'[v] = kind[v]
                                  /\ who'[v] = who[v] /\ todo'[v] = todo[v]
  BY <1>1 DEF StockInv, TypeOK, BizTypeOK
<1>4. Aside(t)
  BY <1>2, <1>3, StatementAside DEF StockInv, TypeOK
<1>5. ASSUME RowLocked PROVE InTurn(t)'
  <2>1. k # "reset"
    BY <1>1, <1>5 DEF RowLocked
  <2>2. pc'[t] \in {"lockUser", "find"} /\ todo'[t] = who'[t]
    BY <1>3, <2>1 DEF FirstStep, FirstIds
  <2>3. view'[t] = NoView /\ saved'[t] = NothingSaved
    BY <1>2, <1>5 DEF AccountsInv, InTurn, dbVars
  <2> QED
    BY <2>2, <2>3 DEF InTurn, UsersLocked, UsersInUse, ResetLabels
<1> QED
  BY <1>2, <1>4, <1>5, AsideKeeps

(* There is no reset. *)
LEMMA ResetBalance ==
  ASSUME StockInv, AccountsInv, NEW t \in Threads, ResetRow(t) \/ Clears(t)
  PROVE  AccountsInv'
<1>1. conf' = conf /\ pc[t] \in ResetLabels
  BY ClearsFacts DEF ResetRow, dbVars, ResetLabels, UpdateLabels
<1>2. ~RowLocked
  BY <1>1 DEF AccountsInv, InTurn
<1> QED
  BY <1>1, <1>2, LockedKept DEF AccountsInv

LEMMA UnchangedBalance ==
  ASSUME AccountsInv, Expire \/ Quiet \/ UNCHANGED vars
  PROVE  AccountsInv'
<1>1. UNCHANGED <<dbVars, pc, kind, who, todo, seen, saved, pin, pout, outflow, inflow>>
  BY DEF Expire, Quiet, vars, requestVars, workVars, pendingVars, bookVars
<1> QED
  BY <1>1 DEF dbVars, AccountsInv, RowLocked, SkipsRowLocks, RowsOwned, AccountsBalance, InTurn,
              OwnerBalance, After, UsersLocked, UsersInUse, Account

LEMMA BalanceInit == Init => AccountsInv
<1> SUFFICES ASSUME Init PROVE AccountsInv
  OBVIOUS
<1>1. CashInit \in Int /\ CreditInit \in Int
  BY TablesAssumption
<1>2. /\ \A r \in Rows : holder[r] = NoThread /\ latest[r] = committed[r]
      /\ \A u \in Users : /\ committed[CashRow(u)] = CashInit
                          /\ committed[CreditRow(u)] = CreditInit
  BY UserFacts DEF Init, InitialRow, CashRow, CreditRow
<1>3. /\ \A r \in Rows : outflow[r] = 0 /\ inflow[r] = 0
      /\ \A t \in Threads, r \in Rows : pin[t][r] = 0 /\ pout[t][r] = 0
      /\ \A t \in Threads : /\ pc[t] = "idle" /\ view[t] = NoView
                            /\ saved[t] = NothingSaved
  BY DEF Init, NoEntries
<1>4. RowsOwned /\ AccountsBalance
  BY <1>1, <1>2, <1>3, UserFacts DEF RowsOwned, AccountsBalance, AccountsOf
<1>5. \A t \in Threads : InTurn(t)
  BY <1>3 DEF InTurn, UsersLocked, UsersInUse, ResetLabels
<1>6. \A t \in Threads, u \in Users : OwnerBalance(t, u)
  BY <1>2, <1>3, UserFacts, DatabaseAssumption DEF OwnerBalance, NothingSaved
<1> QED
  BY <1>4, <1>5, <1>6 DEF AccountsInv

LEMMA BalanceNext == StockInv /\ AccountsInv /\ [Next]_vars => AccountsInv'
<1> SUFFICES ASSUME StockInv, AccountsInv, [Next]_vars PROVE AccountsInv'
  OBVIOUS
<1>1. ASSUME NEW t \in Threads, BizStep(t) PROVE AccountsInv'
  <2>1. CASE LockUser(t) \/ LockProduct(t) \/ FillCart(t) \/ FindInsufficient(t)
    BY <2>1, LockUserBalance, LockProductBalance, ChooseBalance
  <2>2. CASE Exits(t) \/ NextIdThrows(t)
    BY <2>2, LeaveBalance, NextIdBalance
  <2>3. CASE CreateSource(t) \/ DeductStock(t) \/ SkipProduct(t) \/ ReadStock(t) \/ Restock(t)
    BY <2>3, SourceBalance, ItemBalance, StockRowBalance
  <2>4. CASE ReadCash(t) \/ PayBill(t) \/ Recharge(t) \/ Flush(t) \/ UpdateStatusCode(t)
    BY <2>4, ReadCashBalance, PayBillBalance, RechargeBalance, FlushBalance, StatusBalance
  <2>5. CASE ResetRow(t) \/ Clears(t)
    BY <2>5, ResetBalance
  <2> QED
    BY <1>1, <2>1, <2>2, <2>3, <2>4, <2>5 DEF BizStep, Exits, Clears
<1>2. ASSUME NEW t \in Threads, Execute(t) \/ Work(t) PROVE AccountsInv'
  BY <1>1, <1>2, ExecuteBalance, CommitBalance, RollbackBalance DEF Work
<1>3. CASE Expire \/ Quiet \/ UNCHANGED vars
  BY <1>3, UnchangedBalance
<1> QED
  BY <1>2, <1>3 DEF Next

-----------------------------------------------------------------------------
(* In every deployment of DBPlanServiceImpl that takes its row locks, and  *)
(* on every isolation level it takes them on, dirty reads, snapshots that  *)
(* are never refreshed, refused statements and repeated requests included: *)
(* what a user has is what he was given and recharged less what the trades *)
(* of his bills and orders took.  Without a reset among the requests.      *)
THEOREM AccountsBalanceUnderRowLocks == Spec => [](RowLocked => AccountsBalance)
<1>1. Init => StockInv /\ AccountsInv
  BY InitStep, BalanceInit
<1>2. StockInv /\ AccountsInv /\ [Next]_vars => (StockInv /\ AccountsInv)'
  BY NextStep, BalanceNext
<1>3. AccountsInv => (RowLocked => AccountsBalance)
  BY DEF AccountsInv
<1> QED
  BY <1>1, <1>2, <1>3, PTL DEF Spec

-----------------------------------------------------------------------------
(***************************************************************************)
(* Where DBPlanServiceImpl takes row locks, a product's stock never leaves *)
(* the range from 0 to product-stock-max: doReload computes how much to    *)
(* add from a stock it reads two statements earlier, and the lock on the   *)
(* row keeps that stock what it was.  Resets do no harm here.              *)
(***************************************************************************)

LocksRows == conf.plan = "p1" /\ ~SkipsRowLocks

StockRange == 0 .. ProductStockMax

-----------------------------------------------------------------------------
(* The inductive invariant. *)

(* both versions of the stock of each product *)
VersionsInRange ==
  \A p \in Products :
    committed[ProductRow(p)] \in StockRange /\ latest[ProductRow(p)] \in StockRange

(* A thread holds the rows of the products it has locked, works with no    *)
(* others, and what it read of the one it is going to fill is its stock.   *)
ProductsHeld(t) ==
  /\ \A p \in ProductsLocked(t) : holder[ProductRow(p)] = t
  /\ pc[t] \in {"lockProduct", "reload", "restock"} => todo[t] \subseteq InBatch(batch[t])
  /\ pc[t] = "restock" => seen[t] = latest[ProductRow(First(todo[t]))]

RangeInv == LocksRows => VersionsInRange /\ \A t \in Threads : ProductsHeld(t)

-----------------------------------------------------------------------------
(* a statement that leaves in range what it writes *)
StatementInRange(t) ==
  \/ UNCHANGED dbVars
  \/ Insert(t)
  \/ \E R : Read(t, R)
  \/ \E r : ForUpdateLock(t, r)
  \/ \E r, value, reads : Update(t, r, value, reads) /\ (r \in ProductRows => value \in StockRange)
  \/ CommitTransaction(t)
  \/ RollbackTransaction(t)

LEMMA ProductRowFacts ==
  /\ ProductRows \subseteq Rows /\ AccountRows \cap ProductRows = {}
  /\ \A p \in Products : ProductRow(p) \in ProductRows
BY RowFacts DEF ProductRows

LEMMA StatementRange ==
  ASSUME DatabaseTypeOK, VersionsInRange, NEW t \in Threads, StatementInRange(t)
  PROVE  VersionsInRange'
<1>1. CASE UNCHANGED dbVars \/ Insert(t) \/ (\E R : Read(t, R)) \/ (\E r : ForUpdateLock(t, r))
  BY <1>1 DEF dbVars, Insert, Read, ForUpdateLock, VersionsInRange
<1>2. CASE \E r, value, reads :
             Update(t, r, value, reads) /\ (r \in ProductRows => value \in StockRange)
  <2>1. PICK r, value, reads :
          Update(t, r, value, reads) /\ (r \in ProductRows => value \in StockRange)
    BY <1>2
  <2>2. committed' = committed /\ latest' = [latest EXCEPT ![r] = value]
    BY <2>1 DEF Update
  <2> QED
    BY <2>1, <2>2, ProductRowFacts DEF DatabaseTypeOK, VersionsInRange
<1>3. CASE CommitTransaction(t) \/ RollbackTransaction(t)
  BY <1>3, ProductRowFacts DEF CommitTransaction, RollbackTransaction, DatabaseTypeOK,
                               VersionsInRange
<1> QED
  BY <1>1, <1>2, <1>3 DEF StatementInRange

(* Nobody touches a row another transaction holds. *)
LEMMA HeldRows ==
  ASSUME DatabaseTypeOK, NEW t \in Threads, StatementInRange(t)
  PROVE  /\ conf' = conf
         /\ \A r \in Rows : holder[r] \notin {t, NoThread} =>
              holder'[r] = holder[r] /\ latest'[r] = latest[r]
<1>1. CASE UNCHANGED dbVars \/ Insert(t) \/ (\E R : Read(t, R))
  BY <1>1 DEF dbVars, Insert, Read
<1>2. CASE \/ \E r : ForUpdateLock(t, r)
           \/ \E r, value, reads : Update(t, r, value, reads)
  BY <1>2 DEF ForUpdateLock, Update, UpdateBlockers, LockBlockers, DatabaseTypeOK
<1>3. CASE CommitTransaction(t) \/ RollbackTransaction(t)
  BY <1>3 DEF CommitTransaction, RollbackTransaction, Forget, DatabaseTypeOK
<1> QED
  BY <1>1, <1>2, <1>3 DEF StatementInRange

(* Until the end of the transaction t keeps the rows it has. *)
StillHeld(t) == \A r \in Rows : holder[r] = t => holder'[r] = t

LEMMA StatementHolds ==
  ASSUME DatabaseTypeOK, NEW t \in Threads,
         \/ UNCHANGED dbVars
         \/ Insert(t)
         \/ \E R : Read(t, R)
         \/ \E r : ForUpdateLock(t, r)
         \/ \E r, value, reads : Update(t, r, value, reads)
  PROVE  StillHeld(t)
BY DEF DatabaseTypeOK, dbVars, Insert, Read, ForUpdateLock, Update, StillHeld

(* The locals of the others stay, and the rows they hold. *)
OthersStay(t) ==
  \A v \in Threads \ {t} : /\ pc'[v] = pc[v] /\ kind'[v] = kind[v] /\ todo'[v] = todo[v]
                           /\ batch'[v] = batch[v] /\ seen'[v] = seen[v]

LEMMA RangeKept ==
  ASSUME StockInv, RangeInv, NEW t \in Threads, OthersStay(t), conf' = conf,
         LocksRows => /\ VersionsInRange' /\ ProductsHeld(t)'
                      /\ \A r \in ProductRows : holder[r] \notin {t, NoThread} =>
                           holder'[r] = holder[r] /\ latest'[r] = latest[r]
  PROVE  RangeInv'
<1> SUFFICES ASSUME LocksRows, NEW v \in Threads \ {t} PROVE ProductsHeld(v)'
  BY DEF RangeInv, LocksRows, SkipsRowLocks
<1>1. ProductsHeld(v) /\ v # NoThread
  BY DatabaseAssumption DEF RangeInv
<1>2. ProductsLocked(v)' = ProductsLocked(v) /\ ProductsLocked(v) \subseteq Products
  BY DEF OthersStay, ProductsLocked, ProductsInUse, InBatch
<1>3. \A p \in ProductsLocked(v) :
        holder'[ProductRow(p)] = v /\ latest'[ProductRow(p)] = latest[ProductRow(p)]
  BY <1>1, <1>2, ProductRowFacts DEF ProductsHeld
<1>4. pc[v] = "restock" => First(todo[v]) \in ProductsLocked(v)
  BY <1>1, ProductFacts DEF ProductsHeld, ProductsLocked, ProductsInUse
<1> QED
  BY <1>1, <1>2, <1>3, <1>4 DEF OthersStay, ProductsHeld

(* A step after which t works with no other products than before. *)
LEMMA RangeStep ==
  ASSUME StockInv, RangeInv, NEW t \in Threads, OthersStay(t),
         LocksRows => StatementInRange(t), conf' = conf,
         \/ ProductsLocked(t)' = {}
         \/ ProductsLocked(t)' \subseteq ProductsLocked(t) /\ (LocksRows => StillHeld(t)),
         pc'[t] \notin {"reload", "restock"},
         pc'[t] = "lockProduct" => todo'[t] \subseteq InBatch(batch'[t])
  PROVE  RangeInv'
<1> SUFFICES ASSUME LocksRows
             PROVE  /\ VersionsInRange' /\ ProductsHeld(t)'
                    /\ \A r \in ProductRows : holder[r] \notin {t, NoThread} =>
                         holder'[r] = holder[r] /\ latest'[r] = latest[r]
  BY RangeKept
<1>1. DatabaseTypeOK
  BY DEF StockInv, TypeOK
<1>2. VersionsInRange'
  BY <1>1, StatementRange DEF RangeInv
<1>3. ProductsHeld(t)'
  <2>1. ProductsHeld(t) /\ ProductsLocked(t) \subseteq Products
    BY DEF RangeInv, ProductsLocked, ProductsInUse, InBatch
  <2>2. \A p \in ProductsLocked(t)' : holder'[ProductRow(p)] = t
    BY <1>1, <2>1, ProductRowFacts DEF ProductsHeld, StillHeld
  <2> QED
    BY <2>2 DEF ProductsHeld
<1> QED
  BY <1>1, <1>2, <1>3, HeldRows, ProductRowFacts

-----------------------------------------------------------------------------
(* The steps without a product. *)

LEMMA LeaveRange ==
  ASSUME StockInv, RangeInv, NEW t \in Threads, Exits(t)
  PROVE  RangeInv'
<1>1. ProductsLocked(t)' = {} /\ OthersStay(t) /\ StatementInRange(t) /\ conf' = conf
  BY ExitFacts DEF ProductsLocked, ProductsInUse, OthersStay, StatementInRange, dbVars
<1> QED
  BY <1>1, ExitFacts, RangeStep

LEMMA LockUserRange ==
  ASSUME StockInv, RangeInv, NEW t \in Threads, LockUser(t)
  PROVE  RangeInv'
<1>1. PICK u \in todo[t] :
        /\ PlanAcquire(t, "uid", UserForm(t), u)
        /\ todo' = [todo EXCEPT ![t] = who[t]] \/ todo' = [todo EXCEPT ![t] = @ \ {u}]
        /\ Goto(t, IF kind[t] = "package" THEN "cart" ELSE "source") \/ UNCHANGED pc
  BY DEF LockUser, NextIds
<1>2. pc[t] = "lockUser" /\ UNCHANGED <<kind, batch, seen>>
  BY DEF LockUser, requestVars, workVars
<1>3. /\ \A v \in Threads \ {t} : pc'[v] = pc[v] /\ todo'[v] = todo[v]
      /\ \/ pc'[t] \in {"lockUser", "cart"}
         \/ pc'[t] = "source" /\ kind[t] # "package"
  BY <1>1, <1>2 DEF Goto, StockInv, TypeOK, BizTypeOK
<1>4. ProductsLocked(t)' = {} /\ OthersStay(t)
  BY <1>2, <1>3 DEF ProductsLocked, ProductsInUse, OthersStay
<1>5. StatementInRange(t) /\ conf' = conf
  BY <1>1 DEF PlanAcquire, StatementInRange, ForUpdateLock, dbVars
<1> QED
  BY <1>3, <1>4, <1>5, RangeStep

LEMMA ChooseRange ==
  ASSUME StockInv, RangeInv, NEW t \in Threads, FillCart(t) \/ FindInsufficient(t)
  PROVE  RangeInv'
<1>1. /\ UNCHANGED dbVars \/ \E R : Read(t, R)
      /\ Goto(t, "lockProduct") /\ UNCHANGED <<kind, seen>>
      /\ \E b, ids : /\ batch' = [batch EXCEPT ![t] = b] /\ todo' = [todo EXCEPT ![t] = ids]
                     /\ ids = InBatch(b)
  <2>1. CASE FillCart(t)
    BY <2>1 DEF FillCart, requestVars
  <2>2. CASE FindInsufficient(t)
    BY <2>2, ReloadFacts DEF FindInsufficient, requestVars
  <2> QED
    BY <2>1, <2>2
<1>2. /\ pc'[t] = "lockProduct" /\ todo'[t] = InBatch(batch'[t])
      /\ \A v \in Threads \ {t} : pc'[v] = pc[v] /\ todo'[v] = todo[v] /\ batch'[v] = batch[v]
  BY <1>1, GotoPc DEF StockInv, TypeOK, BizTypeOK
<1>3. ProductsLocked(t)' = {} /\ OthersStay(t)
  BY <1>1, <1>2 DEF ProductsLocked, OthersStay, InBatch
<1>4. StatementInRange(t) /\ conf' = conf
  BY <1>1 DEF StatementInRange, Read, dbVars
<1> QED
  BY <1>2, <1>3, <1>4, RangeStep

LEMMA AccountRange ==
  ASSUME StockInv, RangeInv, NEW t \in Threads,
         CreateSource(t) \/ ReadCash(t) \/ PayBill(t) \/ Recharge(t) \/ UpdateStatusCode(t)
  PROVE  RangeInv'
<1>1. /\ UNCHANGED dbVars \/ Insert(t) \/ \E R : Read(t, R)
      /\ UNCHANGED <<kind, batch>> /\ pc[t] \in AccountSteps
      /\ todo' = todo \/ todo' = [todo EXCEPT ![t] = @ \ {Account(t)}]
      /\ seen' = seen \/ \E value : seen' = [seen EXCEPT ![t] = value]
  BY DEF CreateSource, ReadCash, PayBill, Recharge, UpdateStatusCode, requestVars, workVars,
         AccountSteps
<1>2. /\ \/ pc'[t] \in {"unlock", "commit", "rollback", "status"}
         \/ pc'[t] \in {"deduct", "cash", "credit"} /\ pc[t] \in {"source", "cash"}
         \/ pc'[t] = "source" /\ kind[t] # "package"
      /\ \A v \in Threads \ {t} : pc'[v] = pc[v]
  <2>1. CASE CreateSource(t)
    BY <2>1, GotoPc DEF CreateSource, StockInv, TypeOK
  <2>2. CASE ReadCash(t)
    BY <2>2, GotoPc DEF ReadCash, StockInv, TypeOK
  <2>3. CASE PayBill(t)
    <3>1. (\E o : Leave(t, o)) \/ Goto(t, "status")
      BY <2>3 DEF PayBill
    <3> QED
      BY <3>1, LeaveKeys, GotoPc DEF StockInv, TypeOK
  <2>4. CASE Recharge(t)
    BY <2>4, GotoPc DEF Recharge, StockInv, TypeOK
  <2>5. CASE UpdateStatusCode(t)
    <3>1. ((\E o : Leave(t, o)) \/ Goto(t, "source")) /\ kind[t] # "package"
      BY <2>5 DEF UpdateStatusCode, StockInv, WorkOK, ThreadOK
    <3> QED
      BY <3>1, LeaveKeys, GotoPc DEF StockInv, TypeOK
  <2> QED
    BY <2>1, <2>2, <2>3, <2>4, <2>5
<1>3. ProductsLocked(t)' \subseteq ProductsLocked(t) /\ OthersStay(t)
  BY <1>1, <1>2 DEF ProductsLocked, ProductsInUse, OthersStay, StockInv, TypeOK, BizTypeOK
<1>4. StatementInRange(t) /\ StillHeld(t) /\ conf' = conf
  BY <1>1, StatementHolds DEF StatementInRange, Insert, Read, dbVars, StockInv, TypeOK
<1> QED
  BY <1>2, <1>3, <1>4, RangeStep

LEMMA FlushRange ==
  ASSUME StockInv, RangeInv, NEW t \in Threads, Flush(t)
  PROVE  RangeInv'
<1> DEFINE row == NextWrite(t)
<1>1. /\ Update(t, row, saved[t][row], FALSE) /\ pc[t] \in {"status", "commit"}
      /\ UNCHANGED <<pc, kind, todo, batch, seen>>
  BY DEF Flush, requestVars, workVars
<1>2. row \in AccountRows
  BY NextWriteFacts DEF Flush, StockInv, TypeOK, BizTypeOK
<1> HIDE DEF row
<1>3. ProductsLocked(t)' = {} /\ OthersStay(t)
  BY <1>1 DEF ProductsLocked, ProductsInUse, OthersStay
<1>4. StatementInRange(t) /\ conf' = conf
  BY <1>1, <1>2, ProductRowFacts DEF StatementInRange, Update
<1> QED
  BY <1>1, <1>3, <1>4, RangeStep

(* the ends, and the beginning *)
LEMMA RequestRange ==
  ASSUME StockInv, RangeInv, NEW t \in Threads,
         Commit(t) \/ GiveUp(t) \/ Retry(t) \/ Execute(t)
  PROVE  RangeInv'
<1>1. /\ UNCHANGED dbVars \/ CommitTransaction(t) \/ RollbackTransaction(t)
      /\ UNCHANGED <<batch, seen>> \/ Clear(t)
      /\ Answer(t) \/ Retry(t) \/ Execute(t)
  BY DEF Commit, GiveUp, Retry, CommitBiz, CommitReset, RollbackBiz, RollbackReset, Execute,
         workVars
<1>2. /\ pc'[t] \in {"idle", "lockUser", "find", "resetCash"}
      /\ \A v \in Threads \ {t} : pc'[v] = pc[v] /\ kind'[v] = kind[v] /\ todo'[v] = todo[v]
  <2>1. CASE Answer(t)
    BY <2>1, AnswerFacts
  <2>2. CASE Retry(t) \/ Execute(t)
    <3>1. PICK k, ids, o : /\ pc' = [pc EXCEPT ![t] = FirstStep(k)]
                           /\ todo' = [todo EXCEPT ![t] = ids]
                           /\ kind' = kind \/ kind' = [kind EXCEPT ![t] = o]
      BY <2>2 DEF Retry, Execute, requestVars
    <3> QED
      BY <3>1 DEF FirstStep, StockInv, TypeOK, BizTypeOK
  <2> QED
    BY <1>1, <2>1, <2>2
<1>3. \A v \in Threads \ {t} : batch'[v] = batch[v] /\ seen'[v] = seen[v]
  BY <1>1 DEF Clear, StockInv, TypeOK, BizTypeOK
<1>4. ProductsLocked(t)' = {} /\ OthersStay(t)
  BY <1>2, <1>3 DEF ProductsLocked, ProductsInUse, OthersStay
<1>5. StatementInRange(t) /\ conf' = conf
  BY <1>1 DEF StatementInRange, CommitTransaction, RollbackTransaction, dbVars
<1> QED
  BY <1>2, <1>4, <1>5, RangeStep

-----------------------------------------------------------------------------
(* The steps that work on a product. *)

(* deductStock takes no more than there is. *)
LEMMA ItemRange ==
  ASSUME StockInv, RangeInv, NEW t \in Threads, DeductStock(t) \/ SkipProduct(t)
  PROVE  RangeInv'
<1> DEFINE p == First(todo[t])
           r == ProductRow(p)
           n == batch[t][p]
<1>1. /\ pc[t] = "deduct" /\ UNCHANGED <<kind, batch, seen>>
      /\ \/ Insert(t)
         \/ latest[r] >= n /\ \E reads : Update(t, r, latest[r] - n, reads)
      /\ \E entries : NextItem(t, p, entries)
  BY DEF DeductStock, SkipProduct, requestVars, workVars
<1>2. p \in Products /\ r \in ProductRows /\ n \in Nat
  BY <1>1, ProductFacts, ProductRowFacts DEF StockInv, TypeOK, BizTypeOK
<1>3. LocksRows /\ latest[r] >= n => latest[r] - n \in StockRange
  <2>1. LocksRows => latest[r] \in 0 .. ProductStockMax
    BY <1>2 DEF RangeInv, VersionsInRange, StockRange
  <2> HIDE DEF r, n
  <2> QED
    BY <1>2, <2>1, TablesAssumption DEF StockRange
<1> HIDE DEF p, r, n
<1>4. /\ pc'[t] \in {"deduct", "cash", "unlock", "commit", "rollback"}
      /\ \A v \in Threads \ {t} : pc'[v] = pc[v] /\ todo'[v] = todo[v]
  BY <1>1, LeaveKeys DEF NextItem, Goto, StockInv, TypeOK, BizTypeOK
<1>5. ProductsLocked(t)' \subseteq ProductsLocked(t) /\ OthersStay(t)
  BY <1>1, <1>4 DEF ProductsLocked, ProductsInUse, OthersStay
<1>6. (LocksRows => StatementInRange(t)) /\ StillHeld(t) /\ conf' = conf
  BY <1>1, <1>3, StatementHolds DEF StatementInRange, Insert, Update, StockInv, TypeOK
<1> QED
  BY <1>4, <1>5, <1>6, RangeStep

LEMMA LockProductRange ==
  ASSUME StockInv, RangeInv, NEW t \in Threads, LockProduct(t)
  PROVE  RangeInv'
<1>1. PICK p \in todo[t] :
        /\ PlanAcquire(t, "pid", "set", p)
        /\ IF todo[t] = {p}
           THEN /\ todo' = [todo EXCEPT ![t] = InBatch(batch[t])]
                /\ Goto(t, IF kind[t] = "reload" THEN "reload" ELSE "source")
           ELSE /\ todo' = [todo EXCEPT ![t] = @ \ {p}]
                /\ UNCHANGED <<pc, outcome>>
  BY DEF LockProduct, NextIds
<1>2. /\ pc[t] = "lockProduct" /\ p \in Products
      /\ UNCHANGED <<kind, batch, seen>>
  BY DEF LockProduct, requestVars, workVars, StockInv, WorkOK, ThreadOK
<1>3. /\ \/ pc'[t] = "lockProduct" /\ todo'[t] = todo[t] \ {p}
         \/ pc'[t] \in {"reload", "source"} /\ todo'[t] = InBatch(batch[t]) /\ todo[t] = {p}
      /\ \A v \in Threads \ {t} : pc'[v] = pc[v] /\ todo'[v] = todo[v]
  BY <1>1, <1>2 DEF Goto, StockInv, TypeOK, BizTypeOK
<1>4. OthersStay(t)
  BY <1>2, <1>3 DEF OthersStay
<1>5. DatabaseTypeOK /\ conf' = conf
  BY <1>1 DEF PlanAcquire, ForUpdateLock, dbVars, StockInv, TypeOK
<1>6. ASSUME LocksRows
      PROVE  /\ VersionsInRange' /\ ProductsHeld(t)'
             /\ \A r \in ProductRows : holder[r] \notin {t, NoThread} =>
                  holder'[r] = holder[r] /\ latest'[r] = latest[r]
  <2>1. ForUpdateLock(t, ProductRow(p))
    BY <1>1, <1>6 DEF PlanAcquire, LockRow, LocksRows
  <2>2. StatementInRange(t) /\ StillHeld(t)
    BY <1>5, <2>1, StatementHolds DEF StatementInRange
  <2>3. VersionsInRange'
    BY <1>5, <1>6, <2>2, StatementRange DEF RangeInv
  <2>4. holder'[ProductRow(p)] = t
    BY <1>2, <1>5, <2>1, ProductRowFacts DEF ForUpdateLock, DatabaseTypeOK
  <2>5. ProductsLocked(t)' \subseteq ProductsLocked(t) \cup {p}
    BY <1>2, <1>3 DEF ProductsLocked, ProductsInUse, InBatch
  <2>6. ProductsHeld(t) /\ ProductsLocked(t) \subseteq Products
    BY <1>6 DEF RangeInv, ProductsLocked, ProductsInUse, InBatch
  <2>7. \A q \in ProductsLocked(t)' : holder'[ProductRow(q)] = t
    BY <2>2, <2>4, <2>5, <2>6, ProductRowFacts DEF ProductsHeld, StillHeld
  <2>8. ProductsHeld(t)'
    BY <1>2, <1>3, <2>6, <2>7 DEF ProductsHeld
  <2> QED
    BY <1>5, <2>2, <2>3, <2>8, HeldRows, ProductRowFacts
<1> QED
  BY <1>4, <1>5, <1>6, RangeKept

(* the product a reload is at: its row is locked *)
LEMMA ReloadHolds ==
  ASSUME StockInv, RangeInv, LocksRows, NEW t \in Threads, pc[t] \in {"reload", "restock"}
  PROVE  /\ First(todo[t]) \in Products /\ First(todo[t]) \in todo[t]
         /\ todo[t] \subseteq InBatch(batch[t])
         /\ holder[ProductRow(First(todo[t]))] = t
         /\ \A p \in InBatch(batch[t]) : holder[ProductRow(p)] = t
<1>1. ProductsHeld(t) /\ ProductsLocked(t) = InBatch(batch[t])
  BY DEF RangeInv, ProductsLocked, ProductsInUse
<1> QED
  BY <1>1, ProductFacts DEF ProductsHeld

LEMMA ReadStockRange ==
  ASSUME StockInv, RangeInv, NEW t \in Threads, ReadStock(t)
  PROVE  RangeInv'
<1> DEFINE r == ProductRow(First(todo[t]))
<1>1. /\ pc[t] = "reload" /\ Goto(t, "restock") /\ UNCHANGED <<kind, todo, batch>>
      /\ UNCHANGED dbVars \/ \E R : Read(t, R)
      /\ \E value : seen' = [seen EXCEPT ![t] = value]
      /\ holder[r] = t => UNCHANGED dbVars /\ seen' = [seen EXCEPT ![t] = latest[r]]
  BY DEF ReadStock, requestVars
<1>2. /\ pc'[t] = "restock" /\ OthersStay(t)
      /\ conf' = conf
  BY <1>1, GotoPc DEF OthersStay, Read, dbVars, StockInv, TypeOK, BizTypeOK
<1>3. ASSUME LocksRows
      PROVE  /\ VersionsInRange' /\ ProductsHeld(t)'
             /\ \A s \in ProductRows : holder[s] \notin {t, NoThread} =>
                  holder'[s] = holder[s] /\ latest'[s] = latest[s]
  <2>1. /\ holder[r] = t /\ todo[t] \subseteq InBatch(batch[t])
        /\ \A p \in InBatch(batch[t]) : holder[ProductRow(p)] = t
    BY <1>1, <1>3, ReloadHolds
  <2>2. UNCHANGED dbVars /\ seen'[t] = latest[r]
    BY <1>1, <2>1 DEF StockInv, TypeOK, BizTypeOK
  <2>3. ProductsLocked(t)' = InBatch(batch[t])
    BY <1>1, <1>2 DEF ProductsLocked, ProductsInUse, InBatch
  <2>4. ProductsHeld(t)'
    BY <1>1, <1>2, <2>1, <2>2, <2>3 DEF ProductsHeld, dbVars, InBatch
  <2> QED
    BY <1>3, <2>2, <2>4 DEF RangeInv, VersionsInRange, dbVars
<1> QED
  BY <1>2, <1>3, RangeKept

(* doReload fills the product to the maximum, and no further. *)
LEMMA RestockRange ==
  ASSUME StockInv, RangeInv, NEW t \in Threads, Restock(t)
  PROVE  RangeInv'
<1> DEFINE r == ProductRow(First(todo[t]))
           value == latest[r] + (ProductStockMax - seen[t])
<1>1. /\ pc[t] = "restock" /\ Update(t, r, value, FALSE)
      /\ todo' = [todo EXCEPT ![t] = @ \ {First(todo[t])}]
      /\ (\E o : Leave(t, o)) \/ Goto(t, "reload")
      /\ UNCHANGED <<kind, batch, seen>>
  BY DEF Restock, requestVars, workVars
<1>2. r \in ProductRows /\ r \in Rows
  BY <1>1, ProductFacts, ProductRowFacts
<1>3. DatabaseTypeOK
  BY DEF StockInv, TypeOK
<1>4. LocksRows => value \in StockRange
  <2>1. LocksRows => seen[t] = latest[r]
    BY <1>1 DEF RangeInv, ProductsHeld
  <2>2. seen[t] \in Int /\ ProductStockMax \in Nat
    BY TablesAssumption DEF StockInv, TypeOK, BizTypeOK
  <2> HIDE DEF r
  <2>3. LocksRows => value = ProductStockMax
    BY <2>1, <2>2
  <2> HIDE DEF value
  <2> QED
    BY <2>2, <2>3 DEF StockRange
<1> HIDE DEF r, value
<1>5. /\ pc'[t] \in {"reload", "unlock", "commit", "rollback"} /\ todo'[t] \subseteq todo[t]
      /\ \A v \in Threads \ {t} : pc'[v] = pc[v] /\ todo'[v] = todo[v]
  BY <1>1, LeaveKeys, GotoPc DEF StockInv, TypeOK, BizTypeOK
<1>6. OthersStay(t) /\ conf' = conf
  BY <1>1, <1>5 DEF OthersStay, Update
<1>7. ASSUME LocksRows
      PROVE  /\ VersionsInRange' /\ ProductsHeld(t)'
             /\ \A s \in ProductRows : holder[s] \notin {t, NoThread} =>
                  holder'[s] = holder[s] /\ latest'[s] = latest[s]
  <2>1. StatementInRange(t) /\ StillHeld(t)
    BY <1>1, <1>3, <1>4, <1>7, StatementHolds DEF StatementInRange
  <2>2. VersionsInRange'
    BY <1>3, <1>7, <2>1, StatementRange DEF RangeInv
  <2>3. /\ todo[t] \subseteq InBatch(batch[t]) /\ InBatch(batch[t]) \subseteq Products
        /\ \A p \in InBatch(batch[t]) : holder[ProductRow(p)] = t
    BY <1>1, <1>7, ReloadHolds DEF InBatch
  <2>4. ProductsLocked(t)' \subseteq InBatch(batch[t])
    BY <1>1, <1>5 DEF ProductsLocked, ProductsInUse, InBatch
  <2>5. \A p \in InBatch(batch[t]) : holder'[ProductRow(p)] = t
    BY <2>1, <2>3, ProductRowFacts DEF StillHeld
  <2>6. ProductsHeld(t)'
    BY <1>1, <1>5, <2>3, <2>4, <2>5 DEF ProductsHeld, InBatch
  <2> QED
    BY <1>3, <2>1, <2>2, <2>6, HeldRows, ProductRowFacts
<1> QED
  BY <1>6, <1>7, RangeKept

(* It has done so when the id of the log cannot be had. *)
LEMMA NextIdRange ==
  ASSUME StockInv, RangeInv, NEW t \in Threads, NextIdThrows(t)
  PROVE  RangeInv'
<1> DEFINE r == ProductRow(First(todo[t]))
           value == latest[r] + (ProductStockMax - seen[t])
<1>1. \/ UNCHANGED dbVars
      \/ \E R : Read(t, R)
      \/ pc[t] = "restock" /\ r \in ProductRows /\ Update(t, r, value, FALSE)
  BY NextIdFacts DEF ProductRows
<1>2. LocksRows /\ pc[t] = "restock" /\ r \in ProductRows => value \in StockRange
  <2>1. LocksRows /\ pc[t] = "restock" => seen[t] = latest[r]
    BY DEF RangeInv, ProductsHeld
  <2>2. seen[t] \in Int /\ ProductStockMax \in Nat
    BY TablesAssumption DEF StockInv, TypeOK, BizTypeOK
  <2> HIDE DEF r
  <2> QED
    BY <2>1, <2>2 DEF StockRange
<1> HIDE DEF r, value
<1>3. (LocksRows => StatementInRange(t)) /\ conf' = conf
  BY <1>1, <1>2 DEF StatementInRange, dbVars, Read, Update
<1>4. ProductsLocked(t)' = {} /\ OthersStay(t)
  BY NextIdFacts DEF ProductsLocked, ProductsInUse, OthersStay
<1> QED
  BY <1>3, <1>4, NextIdFacts, RangeStep

-----------------------------------------------------------------------------
(* The reset fills the products, and waits for their rows like others. *)

LEMMA ResetRange ==
  ASSUME StockInv, RangeInv, NEW t \in Threads, ResetRow(t) \/ Clears(t)
  PROVE  RangeInv'
<1>1. /\ pc'[t] \in ResetLabels /\ UNCHANGED <<kind, batch, seen>>
      /\ \A v \in Threads \ {t} : pc'[v] = pc[v] /\ todo'[v] = todo[v]
  <2>1. CASE ResetRow(t)
    BY <2>1 DEF ResetRow, UpdateLabels, NextUpdate, ResetLabels, requestVars, workVars,
                StockInv, TypeOK, BizTypeOK
  <2> QED
    BY <2>1, ClearsFacts
<1>2. ProductsLocked(t)' = {} /\ OthersStay(t)
  BY <1>1 DEF ProductsLocked, ProductsInUse, OthersStay, ResetLabels
<1>3. ProductsHeld(t)'
  BY <1>1, <1>2 DEF ProductsHeld, ResetLabels
<1>4. CASE Clears(t)
  <2>1. StatementInRange(t) /\ conf' = conf
    BY <1>4, ClearsFacts DEF StatementInRange, dbVars
  <2> QED
    BY <1>1, <1>2, <2>1, RangeStep DEF ResetLabels
<1>5. CASE ResetRow(t)
  <2>1. PICK id \in todo[t] :
          LET r == ResetTable(pc[t], id)
          IN /\ UpdateBlockers(t, r) = {}
             /\ latest' = [latest EXCEPT ![r] = InitialRow(r)]
             /\ holder' = [holder EXCEPT ![r] = t]
    BY <1>5 DEF ResetRow
  <2> DEFINE r == ResetTable(pc[t], id)
  <2>2. conf' = conf /\ committed' = committed
    BY <1>5 DEF ResetRow
  <2>3. DatabaseTypeOK /\ ProductStockMax \in StockRange
    BY TablesAssumption DEF StockInv, TypeOK, StockRange
  <2>4. \A s \in ProductRows : InitialRow(s) = ProductStockMax
    BY DEF ProductRows, ProductRow, InitialRow
  <2>5. holder[r] \in {t, NoThread} \/ r \notin Rows
    BY <2>1, <2>3 DEF UpdateBlockers, LockBlockers, DatabaseTypeOK
  <2> HIDE DEF r
  <2>6. /\ latest' = [latest EXCEPT ![r] = InitialRow(r)] /\ holder' = [holder EXCEPT ![r] = t]
    BY <2>1 DEF r
  <2>7. ASSUME LocksRows
        PROVE  /\ VersionsInRange'
               /\ \A s \in ProductRows : holder[s] \notin {t, NoThread} =>
                    holder'[s] = holder[s] /\ latest'[s] = latest[s]
    <3>1. VersionsInRange'
      BY <2>2, <2>3, <2>4, <2>6, <2>7, ProductRowFacts DEF RangeInv, VersionsInRange, DatabaseTypeOK
    <3>2. \A s \in ProductRows : holder[s] \notin {t, NoThread} =>
            holder'[s] = holder[s] /\ latest'[s] = latest[s]
      BY <2>3, <2>5, <2>6, ProductRowFacts DEF DatabaseTypeOK
    <3> QED
      BY <3>1, <3>2
  <2> QED
    BY <1>2, <1>3, <2>2, <2>7, RangeKept
<1> QED
  BY <1>4, <1>5

LEMMA UnchangedRange ==
  ASSUME RangeInv, Expire \/ Quiet \/ UNCHANGED vars
  PROVE  RangeInv'
<1>1. UNCHANGED <<dbVars, pc, kind, todo, batch, seen>>
  BY DEF Expire, Quiet, vars, requestVars, workVars
<1> QED
  BY <1>1 DEF dbVars, RangeInv, LocksRows, SkipsRowLocks, VersionsInRange, ProductsHeld,
              ProductsLocked, ProductsInUse

LEMMA RangeInit == Init => RangeInv
<1> SUFFICES ASSUME Init PROVE RangeInv
  OBVIOUS
<1>1. ProductStockMax \in StockRange
  BY TablesAssumption DEF StockRange
<1>2. \A p \in Products : committed[ProductRow(p)] = ProductStockMax
  BY ProductRowFacts DEF Init, InitialRow, ProductRow
<1>3. \A t \in Threads : ProductsHeld(t)
  BY DEF Init, ProductsHeld, ProductsLocked, ProductsInUse
<1> QED
  BY <1>1, <1>2, <1>3 DEF Init, RangeInv, VersionsInRange

LEMMA RangeNext == StockInv /\ RangeInv /\ [Next]_vars => RangeInv'
<1> SUFFICES ASSUME StockInv, RangeInv, [Next]_vars PROVE RangeInv'
  OBVIOUS
<1>1. ASSUME NEW t \in Threads, BizStep(t) PROVE RangeInv'
  <2>1. CASE LockUser(t) \/ LockProduct(t) \/ FillCart(t) \/ FindInsufficient(t)
    BY <2>1, LockUserRange, LockProductRange, ChooseRange
  <2>2. CASE Exits(t) \/ NextIdThrows(t)
    BY <2>2, LeaveRange, NextIdRange
  <2>3. CASE DeductStock(t) \/ SkipProduct(t) \/ ReadStock(t) \/ Restock(t)
    BY <2>3, ItemRange, ReadStockRange, RestockRange
  <2>4. CASE \/ CreateSource(t) \/ ReadCash(t) \/ PayBill(t) \/ Recharge(t) \/ Flush(t)
             \/ UpdateStatusCode(t)
    BY <2>4, AccountRange, FlushRange
  <2>5. CASE ResetRow(t) \/ Clears(t)
    BY <2>5, ResetRange
  <2> QED
    BY <1>1, <2>1, <2>2, <2>3, <2>4, <2>5 DEF BizStep, Exits, Clears
<1>2. ASSUME NEW t \in Threads, Execute(t) \/ Work(t) PROVE RangeInv'
  BY <1>1, <1>2, RequestRange DEF Work
<1>3. CASE Expire \/ Quiet \/ UNCHANGED vars
  BY <1>3, UnchangedRange
<1> QED
  BY <1>2, <1>3 DEF Next

-----------------------------------------------------------------------------
(* Where DBPlanServiceImpl locks rows, doReload never fills a product      *)
(* above product-stock-max, though it computes the amount from a stock it  *)
(* read before, and deductStock never takes it below zero: any isolation   *)
(* level, any number of orders, reloads and resets.                        *)
THEOREM StockInRangeUnderRowLocks == Spec => [](LocksRows => StockWithinMax)
<1>1. Init => StockInv /\ RangeInv
  BY InitStep, RangeInit
<1>2. StockInv /\ RangeInv /\ [Next]_vars => (StockInv /\ RangeInv)'
  BY NextStep, RangeNext
<1>3. RangeInv => (LocksRows => StockWithinMax)
  <2>1. ProductStockMax \in Nat
    BY TablesAssumption
  <2> QED
    BY <2>1 DEF RangeInv, VersionsInRange, StockRange, StockWithinMax
<1> QED
  BY <1>1, <1>2, <1>3, PTL DEF Spec

-----------------------------------------------------------------------------
(***************************************************************************)
(* What the isolation levels protect by themselves, under every lock plan  *)
(* and with resets among the requests: the accounts' balance and the range *)
(* of the stock, where plain reads take shared locks to the end of the     *)
(* transaction (MySQL serializable, SQL Server repeatable read and         *)
(* serializable) and where PostgreSQL refuses to update a row that changed *)
(* after the transaction's view was taken (repeatable read, serializable). *)
(***************************************************************************)

Strict == SharedHeld \/ FirstUpdaterWins

(* What t has read of a row stays what a commit would find there, or t     *)
(* will not be able to write the row.                                      *)
Guarded(t, r) == (SharedHeld => r \in shared[t]) /\ (FirstUpdaterWins => view[t] # NoView)

(* the version of a row t starts from *)
Basis(t, r) == IF view[t] # NoView THEN view[t][r] ELSE committed[r]

-----------------------------------------------------------------------------
(* The inductive invariant. *)

(* Free rows are committed; a row under shared locks is changed at most by *)
(* a transaction that has one; where there are views, a view is out of     *)
(* date only in rows it missed, and never in a row its owner has changed.  *)
RowsGuarded ==
  /\ \A r \in Rows : holder[r] = NoThread => latest[r] = committed[r]
  /\ \A t \in Threads :
       /\ \A r \in shared[t] : holder[r] # t => latest[r] = committed[r]
       /\ view[t] # NoView =>
            /\ FirstUpdaterWins
            /\ \A r \in Rows : r \notin missed[t] \/ holder[r] = t => view[t][r] = committed[r]

(* by how much t has changed an account or is going to, once all it has    *)
(* saved is written                                                        *)
Change(t, r) ==
  IF r \in DOMAIN saved[t] THEN saved[t][r] - Basis(t, r)
  ELSE IF holder[r] = t    THEN latest[r] - committed[r]
  ELSE 0

(* what t has entered in the trades of u *)
Net(t, u) == pin[t][UserRow(u)] - pout[t][UserRow(u)]

Ends == {"unlock", "commit", "rollback"}

(* the users whose accounts t has not touched yet *)
Ahead(t) ==
  CASE pc[t] \in Ends -> {}
    [] pc[t] = "status" -> IF kind[t] = "recharge" THEN todo[t] \ {Account(t)} ELSE {}
    [] pc[t] \in {"source", "cash", "credit"} -> IF kind[t] = "recharge" THEN todo[t] ELSE Users
    [] OTHER -> Users

(* the cash in hand is what the account held when it was read *)
CashRead(t) ==
  pc[t] = "credit" => LET r == CashRow(Account(t))
                      IN Guarded(t, r) /\ seen[t] = Basis(t, r)

(* An operation has entered in the trades what it has changed and is going *)
(* to change, and works on versions that are guarded.                      *)
BooksEven(t) ==
  pc[t] \notin ResetLabels =>
    /\ pc[t] \in Ends \cup {"status"} \/ saved[t] = NothingSaved
    /\ \A r \in DOMAIN saved[t] : Guarded(t, r)
    /\ \A u \in Users : Net(t, u) = Change(t, CashRow(u)) + Change(t, CreditRow(u))
    /\ \A u \in Ahead(t) : \A r \in AccountsOf(u) : holder[r] # t /\ r \notin DOMAIN saved[t]
    /\ CashRead(t)

(* A reset holds the accounts it has set back, all of them before it       *)
(* clears the trades, so that their balance is on record until it commits. *)
UserReset(t, u) ==
  /\ \A r \in AccountsOf(u) : holder[r] = t => latest[r] = InitialRow(r)
  /\ pc[t] # "resetCash" \/ u \notin todo[t] => holder[CashRow(u)] = t
  /\ \/ pc[t] \notin {"resetCash", "resetCredit"}
     \/ pc[t] = "resetCredit" /\ u \notin todo[t]
     => holder[CreditRow(u)] = t
  /\ Net(t, u) = IF pc[t] \in {"clearLogs", "resetCommit"}
                 THEN outflow[UserRow(u)] - inflow[UserRow(u)] ELSE 0

ResetEven(t) ==
  pc[t] \in ResetLabels \ {"resetRollback"} => \A u \in Users : UserReset(t, u)

(* what doReload read of the product it is going to fill *)
StockRead(t) ==
  pc[t] = "restock" => LET r == ProductRow(First(todo[t]))
                       IN IF holder[r] = t THEN seen[t] = latest[r]
                          ELSE Guarded(t, r) /\ seen[t] = Basis(t, r)

ViewTaken(t) == pc[t] \in Apart => view[t] = NoView

ThreadStrict(t) == BooksEven(t) /\ ResetEven(t) /\ StockRead(t) /\ ViewTaken(t)

StrictInv ==
  Strict => /\ RowsGuarded /\ AccountsBalance /\ VersionsInRange
            /\ \A t \in Threads : ThreadStrict(t)

(* A usage bill is for one user: after him it is done. *)
OneUser(t) ==
  kind[t] = "usage" => \E u \in Users :
    /\ who[t] = {u}
    /\ pc[t] \in AccountSteps \cup {"lockUser"} => todo[t] = {u}

OneUsers == \A t \in Threads : OneUser(t)

-----------------------------------------------------------------------------
(* What the isolation levels have in common. *)
LEMMA StrictFacts ==
  ASSUME conf \in Deployments, Strict
  PROVE  /\ ~DirtyReads /\ (Snapshots <=> FirstUpdaterWins)
         /\ FirstUpdaterWins => ~SharedReads /\ ~SharedHeld /\ SkipsRowLocks
         /\ ~FirstUpdaterWins => SharedReads /\ SharedHeld
BY DEF Deployments, Profiles, Isolations, Strict, SharedHeld, SharedReads, FirstUpdaterWins,
       Snapshots, DirtyReads, Level, SkipsRowLocks

LEMMA LevelsKept ==
  ASSUME conf' = conf
  PROVE  /\ Strict' <=> Strict
         /\ SharedHeld' <=> SharedHeld
         /\ FirstUpdaterWins' <=> FirstUpdaterWins
BY DEF Strict, SharedHeld, SharedReads, FirstUpdaterWins, Snapshots, Level

(* A view that is taken is not the view that is not. *)
LEMMA CommittedIsView ==
  ASSUME DatabaseTypeOK
  PROVE  committed # NoView
<1>1. Rows # {}
  BY TablesAssumption DEF Rows, UserRows
<1> QED
  BY <1>1 DEF DatabaseTypeOK, NoView

(* the statements of an operation *)
Operates(t) ==
  \/ UNCHANGED dbVars
  \/ Insert(t)
  \/ \E R \in SUBSET Rows : Read(t, R)
  \/ ~FirstUpdaterWins /\ \E r \in Rows : ForUpdateLock(t, r)
  \/ \E r \in Rows, value \in Int, reads \in BOOLEAN : Update(t, r, value, reads)

(* one row of a reset *)
SetsBack(t, r) ==
  /\ UpdateBlockers(t, r) = {}
  /\ latest' = [latest EXCEPT ![r] = InitialRow(r)]
  /\ holder' = [holder EXCEPT ![r] = t]
  /\ UNCHANGED <<conf, committed, shared, view, missed>>

(* What the others have read, locked and changed is out of reach of t. *)
Elsewhere(t) ==
  /\ conf' = conf
  /\ \A v \in Threads \ {t} :
       /\ view'[v] = view[v] /\ shared'[v] = shared[v]
       /\ \A r \in Rows :
            /\ holder'[r] = v <=> holder[r] = v
            /\ holder[r] = v => latest'[r] = latest[r] /\ committed'[r] = committed[r]
            /\ Guarded(v, r) => Basis(v, r)' = Basis(v, r)

LEMMA OpenViewFacts ==
  ASSUME DatabaseTypeOK, Strict, NEW t \in Threads, NEW plain, OpenView(t, plain)
  PROVE  /\ \A v \in Threads \ {t} : view'[v] = view[v]
         /\ \/ view'[t] = view[t]
            \/ view[t] = NoView /\ view'[t] = committed /\ FirstUpdaterWins
         /\ FirstUpdaterWins => view'[t] # NoView
<1>1. (Snapshots <=> FirstUpdaterWins) /\ committed # NoView
  BY StrictFacts, CommittedIsView DEF DatabaseTypeOK
<1>2. FirstUpdaterWins => conf.profile = "pgsql"
  BY DEF FirstUpdaterWins
<1> QED
  BY <1>1, <1>2 DEF OpenView, DatabaseTypeOK

LEMMA ReadGuarded ==
  ASSUME DatabaseTypeOK, Strict, RowsGuarded, NEW t \in Threads, NEW R \in SUBSET Rows,
         Read(t, R) \/ Insert(t)
  PROVE  RowsGuarded' /\ Elsewhere(t)
<1>1. /\ conf' = conf /\ UNCHANGED <<committed, latest, holder, missed>>
      /\ \A v \in Threads \ {t} : shared'[v] = shared[v]
      /\ shared'[t] \subseteq shared[t] \cup R
      /\ shared'[t] # shared[t] => SharedHeld /\ \A r \in R : ReadBlockers(t, r) = {}
  BY DEF Read, Insert, DatabaseTypeOK
<1>2. /\ \A v \in Threads \ {t} : view'[v] = view[v]
      /\ \/ view'[t] = view[t]
         \/ view[t] = NoView /\ view'[t] = committed /\ FirstUpdaterWins
  BY OpenViewFacts DEF Read, Insert
<1>3. (FirstUpdaterWins' <=> FirstUpdaterWins) /\ (SharedHeld => SharedReads)
  BY <1>1, LevelsKept DEF SharedHeld
<1>4. ASSUME NEW r \in shared'[t], holder[r] # t PROVE latest[r] = committed[r]
  <2>1. CASE r \in shared[t]
    BY <1>4, <2>1 DEF RowsGuarded
  <2>2. CASE r \in R /\ shared'[t] # shared[t]
    <3>1. SharedReads /\ ReadBlockers(t, r) = {}
      BY <1>1, <1>3, <2>2
    <3>2. Dirty(r) => holder[r] = NoThread
      BY <1>4, <3>1 DEF ReadBlockers, LockBlockers, DatabaseTypeOK
    <3> QED
      BY <2>2, <3>2 DEF RowsGuarded, Dirty
  <2> QED
    BY <1>1, <1>4, <2>1, <2>2
<1>5. RowsGuarded'
  BY <1>1, <1>2, <1>3, <1>4 DEF RowsGuarded
<1>6. Elsewhere(t)
  BY <1>1, <1>2 DEF Elsewhere, Basis
<1> QED
  BY <1>5, <1>6

LEMMA LockGuarded ==
  ASSUME DatabaseTypeOK, Strict, RowsGuarded, NEW t \in Threads, NEW r \in Rows,
         ~FirstUpdaterWins, ForUpdateLock(t, r)
  PROVE  RowsGuarded' /\ Elsewhere(t)
<1>1. /\ conf' = conf /\ UNCHANGED <<committed, latest, shared, view, missed>>
      /\ holder[r] \in {t, NoThread}
      /\ holder' = [holder EXCEPT ![r] = t]
  BY DEF ForUpdateLock, LockBlockers, DatabaseTypeOK
<1>2. \A s \in Rows : holder'[s] = IF s = r THEN t ELSE holder[s]
  BY <1>1 DEF DatabaseTypeOK
<1>3. t # NoThread /\ NoThread \notin Threads /\ \A v \in Threads : shared[v] \subseteq Rows
  BY DatabaseAssumption DEF DatabaseTypeOK
<1>4. \A v \in Threads : view[v] = NoView
  BY DEF RowsGuarded
<1>5. RowsGuarded'
  BY <1>1, <1>2, <1>3, <1>4 DEF RowsGuarded
<1>6. Elsewhere(t)
  BY <1>1, <1>2, <1>3 DEF Elsewhere, Basis
<1> QED
  BY <1>5, <1>6

(* an UPDATE, of an operation or of a reset *)
LEMMA WriteGuarded ==
  ASSUME DatabaseTypeOK, Strict, RowsGuarded, NEW t \in Threads, NEW r \in Rows,
         UpdateBlockers(t, r) = {}, view[t] # NoView => ~Conflicts(t, r),
         NEW value, latest' = [latest EXCEPT ![r] = value],
         holder' = [holder EXCEPT ![r] = t],
         UNCHANGED <<conf, committed, shared, missed>>,
         \A v \in Threads \ {t} : view'[v] = view[v],
         \/ view'[t] = view[t]
         \/ view[t] = NoView /\ view'[t] = committed /\ FirstUpdaterWins
  PROVE  RowsGuarded' /\ Elsewhere(t)
<1>1. /\ holder[r] \in {t, NoThread}
      /\ \A v \in Threads \ {t} : r \notin shared[v]
  BY DEF UpdateBlockers, LockBlockers, DatabaseTypeOK
<1>2. \A s \in Rows : /\ holder'[s] = IF s = r THEN t ELSE holder[s]
                      /\ s # r => latest'[s] = latest[s]
  BY DEF DatabaseTypeOK
<1>3. t # NoThread /\ NoThread \notin Threads /\ \A v \in Threads : shared[v] \subseteq Rows
  BY DatabaseAssumption DEF DatabaseTypeOK
<1>4. FirstUpdaterWins' <=> FirstUpdaterWins
  BY LevelsKept
<1>5. \A s \in Rows : holder'[s] = NoThread => latest'[s] = committed'[s]
  BY <1>2, <1>3 DEF RowsGuarded
<1>6. ASSUME NEW v \in Threads, NEW s \in shared'[v], holder'[s] # v
      PROVE  latest'[s] = committed'[s]
  BY <1>1, <1>2, <1>3, <1>6 DEF RowsGuarded
<1>7. ASSUME NEW v \in Threads, view'[v] # NoView
      PROVE  /\ FirstUpdaterWins'
             /\ \A s \in Rows : s \notin missed'[v] \/ holder'[s] = v => view'[v][s] = committed'[s]
  <2>1. CASE v # t
    BY <1>2, <1>4, <1>7, <2>1 DEF RowsGuarded
  <2>2. CASE v = t /\ view'[t] = view[t]
    <3>1. FirstUpdaterWins /\ r \notin missed[t]
      BY <1>7, <2>2 DEF RowsGuarded, Conflicts
    <3> QED
      BY <1>2, <1>4, <1>7, <2>2, <3>1 DEF RowsGuarded
  <2>3. CASE v = t /\ view'[t] # view[t]
    BY <1>4, <2>3
  <2> QED
    BY <2>1, <2>2, <2>3
<1>8. RowsGuarded'
  BY <1>5, <1>6, <1>7 DEF RowsGuarded
<1>9. Elsewhere(t)
  BY <1>1, <1>2, <1>3 DEF Elsewhere, Basis
<1> QED
  BY <1>8, <1>9

(* What a statement of t leaves t with. *)
Ongoing(t) ==
  /\ committed' = committed
  /\ \A r \in Rows : Basis(t, r)' = Basis(t, r) /\ (Guarded(t, r) => Guarded(t, r)')

LEMMA OperatesGuarded ==
  ASSUME DatabaseTypeOK, Strict, RowsGuarded, NEW t \in Threads, Operates(t)
  PROVE  RowsGuarded' /\ Elsewhere(t) /\ Ongoing(t)
<1>1. CASE UNCHANGED dbVars
  <2>1. (FirstUpdaterWins' <=> FirstUpdaterWins) /\ (SharedHeld' <=> SharedHeld)
    BY <1>1, LevelsKept DEF dbVars
  <2> QED
    BY <1>1, <2>1 DEF dbVars, RowsGuarded, Elsewhere, Ongoing, Basis, Guarded
<1>2. CASE ~UNCHANGED dbVars
  <2>1. RowsGuarded' /\ Elsewhere(t)
    <3>1. CASE Insert(t)
      <4>1. {} \in SUBSET Rows
        OBVIOUS
      <4> QED
        BY <3>1, <4>1, ReadGuarded
    <3>4. CASE \E R \in SUBSET Rows : Read(t, R)
      <4>1. PICK R \in SUBSET Rows : Read(t, R)
        BY <3>4
      <4> QED
        BY <4>1, ReadGuarded
    <3>2. CASE ~FirstUpdaterWins /\ \E r \in Rows : ForUpdateLock(t, r)
      BY <3>2, LockGuarded
    <3>3. CASE \E r \in Rows, value \in Int, reads \in BOOLEAN : Update(t, r, value, reads)
      <4>1. PICK r \in Rows, value \in Int, reads \in BOOLEAN : Update(t, r, value, reads)
        BY <3>3
      <4>2. /\ \A v \in Threads \ {t} : view'[v] = view[v]
            /\ \/ view'[t] = view[t]
               \/ view[t] = NoView /\ view'[t] = committed /\ FirstUpdaterWins
        BY <4>1, OpenViewFacts DEF Update
      <4> QED
        BY <4>1, <4>2, WriteGuarded DEF Update
    <3> QED
      BY <1>2, <3>1, <3>2, <3>3, <3>4 DEF Operates
  <2>2. /\ conf' = conf /\ committed' = committed /\ shared[t] \subseteq shared'[t]
        /\ view'[t] = view[t] \/ \E plain : OpenView(t, plain)
    BY <1>2 DEF Operates, Insert, Read, ForUpdateLock, Update, DatabaseTypeOK
  <2>3. \/ view'[t] = view[t]
        \/ view[t] = NoView /\ view'[t] = committed
    BY <2>2, OpenViewFacts
  <2>4. committed # NoView
    BY CommittedIsView
  <2>5. (FirstUpdaterWins' <=> FirstUpdaterWins) /\ (SharedHeld' <=> SharedHeld)
    BY <2>2, LevelsKept
  <2> QED
    BY <2>1, <2>2, <2>3, <2>4, <2>5 DEF Ongoing, Basis, Guarded
<1> QED
  BY <1>1, <1>2

LEMMA EndGuarded ==
  ASSUME DatabaseTypeOK, Strict, RowsGuarded, NEW t \in Threads,
         CommitTransaction(t) \/ RollbackTransaction(t)
  PROVE  /\ RowsGuarded' /\ Elsewhere(t)
         /\ view'[t] = NoView /\ \A r \in Rows : holder'[r] # t
<1>1. /\ conf' = conf
      /\ \A r \in Rows : holder'[r] = IF holder[r] = t THEN NoThread ELSE holder[r]
      /\ shared'[t] = {} /\ view'[t] = NoView
      /\ \A v \in Threads \ {t} : shared'[v] = shared[v] /\ view'[v] = view[v]
  BY DEF CommitTransaction, RollbackTransaction, Forget, DatabaseTypeOK
<1>2. t # NoThread /\ NoThread \notin Threads /\ \A v \in Threads : shared[v] \subseteq Rows
  BY DatabaseAssumption DEF DatabaseTypeOK
<1>3. \A r \in Rows : IF holder[r] = t THEN latest'[r] = committed'[r]
                      ELSE latest'[r] = latest[r] /\ committed'[r] = committed[r]
  BY DEF CommitTransaction, RollbackTransaction
<1>4. FirstUpdaterWins' <=> FirstUpdaterWins
  BY <1>1, LevelsKept
<1>5. ASSUME NEW v \in Threads \ {t}, NEW r \in Rows, holder[r] = t,
             r \in shared[v] \/ (FirstUpdaterWins /\ view[v] # NoView /\ r \notin missed'[v])
      PROVE  committed'[r] = committed[r]
  <2>1. CASE RollbackTransaction(t)
    BY <2>1 DEF RollbackTransaction
  <2>2. CASE CommitTransaction(t)
    <3>1. r \in shared[v] => latest[r] = committed[r]
      BY <1>5 DEF RowsGuarded
    <3>2. r \notin shared[v] => ~Dirty(r)
      BY <1>5, <2>2 DEF CommitTransaction
    <3> QED
      BY <1>5, <2>2, <3>1, <3>2 DEF CommitTransaction, Dirty
  <2> QED
    BY <2>1, <2>2
<1>6. \A v \in Threads \ {t} : missed[v] \subseteq missed'[v]
  BY DEF CommitTransaction, RollbackTransaction, DatabaseTypeOK
<1>7. \A r \in Rows : holder'[r] = NoThread => latest'[r] = committed'[r]
  BY <1>1, <1>3 DEF RowsGuarded
<1>8. ASSUME NEW v \in Threads, NEW r \in shared'[v], holder'[r] # v
      PROVE  latest'[r] = committed'[r]
  <2>1. v # t /\ r \in shared[v] /\ r \in Rows /\ holder[r] # v
    BY <1>1, <1>2, <1>8
  <2> QED
    BY <1>3, <2>1 DEF RowsGuarded
<1>9. ASSUME NEW v \in Threads, view'[v] # NoView
      PROVE  /\ FirstUpdaterWins'
             /\ \A r \in Rows : r \notin missed'[v] \/ holder'[r] = v => view'[v][r] = committed'[r]
  <2>1. v # t /\ view'[v] = view[v] /\ FirstUpdaterWins
    BY <1>1, <1>9 DEF RowsGuarded
  <2>2. ASSUME NEW r \in Rows, r \notin missed'[v] \/ holder'[r] = v
        PROVE  view[v][r] = committed'[r]
    <3>1. r \notin missed[v] \/ holder[r] = v
      BY <1>1, <1>2, <1>6, <2>1, <2>2
    <3>2. committed'[r] = committed[r]
      BY <1>1, <1>2, <1>3, <1>5, <1>9, <2>1, <2>2
    <3> QED
      BY <1>9, <2>1, <3>1, <3>2 DEF RowsGuarded
  <2> QED
    BY <1>4, <2>1, <2>2
<1>10. RowsGuarded'
  BY <1>7, <1>8, <1>9 DEF RowsGuarded
<1>11. ASSUME NEW v \in Threads \ {t}, NEW r \in Rows, Guarded(v, r)
       PROVE  Basis(v, r)' = Basis(v, r)
  <2>1. CASE view[v] # NoView
    BY <1>1, <2>1 DEF Basis
  <2>2. CASE view[v] = NoView
    <3>1. r \in shared[v]
      BY <1>11, <2>2 DEF Guarded, Strict
    <3>2. committed'[r] = committed[r]
      BY <1>3, <1>5, <3>1
    <3> QED
      BY <1>1, <2>2, <3>2 DEF Basis
  <2> QED
    BY <2>1, <2>2
<1>12. Elsewhere(t)
  BY <1>1, <1>2, <1>3, <1>11 DEF Elsewhere
<1> QED
  BY <1>1, <1>2, <1>10, <1>12

-----------------------------------------------------------------------------
(* The locals of the others, and what they entered in the trades. *)
OthersRest(t) ==
  \A v \in Threads \ {t} :
    /\ pc'[v] = pc[v] /\ kind'[v] = kind[v] /\ who'[v] = who[v]
    /\ todo'[v] = todo[v] /\ seen'[v] = seen[v] /\ saved'[v] = saved[v]
    /\ \A u \in Users : Net(v, u)' = Net(v, u)

(* The balance of the trades is what a reset that cleared them found. *)
ClearedStay(t) ==
  \A v \in Threads \ {t}, u \in Users :
    pc[v] \in {"clearLogs", "resetCommit"} =>
      outflow'[UserRow(u)] - inflow'[UserRow(u)] = outflow[UserRow(u)] - inflow[UserRow(u)]

LEMMA AheadUsers ==
  ASSUME StockInv, NEW t \in Threads
  PROVE  Ahead(t) \subseteq Users
BY DEF StockInv, WorkOK, ThreadOK, Ahead, Ends

LEMMA OthersEven ==
  ASSUME StockInv, Strict, NEW t \in Threads, Elsewhere(t), OthersRest(t), ClearedStay(t),
         NEW v \in Threads \ {t}, ThreadStrict(v)
  PROVE  ThreadStrict(v)'
<1>1. /\ SharedHeld' <=> SharedHeld
      /\ FirstUpdaterWins' <=> FirstUpdaterWins
  BY LevelsKept DEF Elsewhere
<1>2. \A r \in Rows : /\ Guarded(v, r)' <=> Guarded(v, r)
                      /\ Guarded(v, r) => Basis(v, r)' = Basis(v, r)
                      /\ holder'[r] = v <=> holder[r] = v
                      /\ holder[r] = v => latest'[r] = latest[r] /\ committed'[r] = committed[r]
  BY <1>1 DEF Elsewhere, Guarded
<1>3. Account(v)' = Account(v)
  BY DEF Account, OthersRest
<1>4. Ahead(v)' = Ahead(v) /\ Ahead(v) \subseteq Users
  BY <1>3, AheadUsers DEF Ahead, OthersRest
<1>5. BooksEven(v)'
  <2> SUFFICES ASSUME pc[v] \notin ResetLabels PROVE BooksEven(v)'
    BY DEF BooksEven, OthersRest
  <2>1. BooksEven(v) /\ DOMAIN saved[v] \subseteq AccountRows
    BY DEF ThreadStrict, StockInv, TypeOK, BizTypeOK
  <2>2. \A r \in DOMAIN saved[v] : Guarded(v, r) /\ r \in Rows
    BY <2>1, UserFacts DEF BooksEven
  <2>3. \A r \in Rows : Change(v, r)' = Change(v, r)
    BY <1>2, <2>2 DEF Change, OthersRest
  <2>4. \A u \in Users : Net(v, u)' = Change(v, CashRow(u))' + Change(v, CreditRow(u))'
    BY <2>1, <2>3, UserFacts DEF BooksEven, OthersRest
  <2>5. \A u \in Ahead(v) : \A r \in AccountsOf(u) : holder'[r] # v /\ r \notin DOMAIN saved[v]
    BY <1>2, <1>4, <2>1, UserFacts DEF BooksEven
  <2>6. pc[v] = "credit" => CashRow(Account(v)) \in Rows
    BY AccountFacts, UserFacts
  <2> QED
    BY <1>2, <1>3, <1>4, <2>1, <2>2, <2>4, <2>5, <2>6 DEF BooksEven, OthersRest, CashRead
<1>6. ResetEven(v)'
  <2> SUFFICES ASSUME pc[v] \in ResetLabels \ {"resetRollback"}, NEW u \in Users
               PROVE  UserReset(v, u)'
    BY DEF ResetEven, OthersRest
  <2> QED
    BY <1>2, UserFacts DEF ThreadStrict, ResetEven, UserReset, OthersRest, ClearedStay, AccountsOf
<1>7. StockRead(v)'
  <2>1. pc[v] = "restock" => ProductRow(First(todo[v])) \in Rows
    BY ProductFacts, RowFacts
  <2> QED
    BY <1>2, <2>1 DEF ThreadStrict, StockRead, OthersRest
<1>8. ViewTaken(v)'
  BY DEF ThreadStrict, ViewTaken, OthersRest, Elsewhere
<1> QED
  BY <1>5, <1>6, <1>7, <1>8 DEF ThreadStrict

LEMMA StrictStep ==
  ASSUME StockInv, StrictInv, NEW t \in Threads, OthersRest(t), conf' = conf,
         Strict => /\ RowsGuarded' /\ Elsewhere(t) /\ ClearedStay(t)
                   /\ AccountsBalance' /\ VersionsInRange' /\ ThreadStrict(t)'
  PROVE  StrictInv'
<1> SUFFICES ASSUME Strict, NEW v \in Threads \ {t} PROVE ThreadStrict(v)'
  BY LevelsKept DEF StrictInv
<1> QED
  BY OthersEven DEF StrictInv

-----------------------------------------------------------------------------
(* The steps that touch no account. *)

AccountsStill ==
  \A r \in AccountRows : holder'[r] = holder[r] /\ latest'[r] = latest[r]

LEMMA SameBooks ==
  ASSUME StockInv, NEW t \in Threads, BooksEven(t), Ongoing(t), AccountsStill,
         pc[t] \notin ResetLabels, saved'[t] = saved[t],
         \A u \in Users : Net(t, u)' = Net(t, u),
         CashRead(t)', Ahead(t)' \subseteq Ahead(t),
         pc'[t] \in Ends \cup {"status"} \/ saved[t] = NothingSaved
  PROVE  BooksEven(t)'
<1>1. DOMAIN saved[t] \subseteq AccountRows
  BY DEF StockInv, TypeOK, BizTypeOK
<1>2. \A r \in AccountRows : Change(t, r)' = Change(t, r)
  BY UserFacts DEF Change, Ongoing, AccountsStill
<1>3. \A u \in Users : Net(t, u)' = Change(t, CashRow(u))' + Change(t, CreditRow(u))'
  BY <1>2, RowFacts DEF BooksEven
<1>4. \A r \in DOMAIN saved'[t] : Guarded(t, r)'
  BY <1>1, UserFacts DEF BooksEven, Ongoing
<1>5. \A u \in Ahead(t)' : \A r \in AccountsOf(u) : holder'[r] # t /\ r \notin DOMAIN saved'[t]
  BY AheadUsers, UserFacts DEF BooksEven, AccountsStill
<1> QED
  BY <1>3, <1>4, <1>5 DEF BooksEven

LEMMA AsideStrict ==
  ASSUME StockInv, StrictInv, NEW t \in Threads, Strict => Operates(t), conf' = conf,
         AccountsStill, OthersRest(t),
         UNCHANGED <<outflow, inflow>>, saved'[t] = saved[t],
         \A u \in Users : Net(t, u)' = Net(t, u),
         pc[t] \notin ResetLabels, pc'[t] \notin Apart,
         pc'[t] # "credit" \/ (Strict => CashRead(t)'),
         Ahead(t)' \subseteq Ahead(t),
         \/ pc'[t] \in Ends \cup {"status"}
         \/ pc[t] \notin Ends \cup {"status"}
         \/ saved[t] = NothingSaved,
         Strict => VersionsInRange' /\ StockRead(t)'
  PROVE  StrictInv'
<1> SUFFICES ASSUME Strict
             PROVE  /\ RowsGuarded' /\ Elsewhere(t) /\ ClearedStay(t)
                    /\ AccountsBalance' /\ VersionsInRange' /\ ThreadStrict(t)'
  BY StrictStep
<1>1. RowsGuarded' /\ Elsewhere(t) /\ Ongoing(t)
  BY OperatesGuarded DEF StrictInv, StockInv, TypeOK
<1>2. BooksEven(t) /\ AccountsBalance
  BY DEF StrictInv, ThreadStrict
<1>3. BooksEven(t)'
  BY <1>1, <1>2, SameBooks DEF BooksEven, CashRead
<1>4. AccountsBalance'
  BY <1>1, <1>2 DEF AccountsBalance, Ongoing
<1> QED
  BY <1>1, <1>3, <1>4 DEF ThreadStrict, ResetEven, UserReset, ViewTaken, Apart, ClearedStay

(* Leaving the body of an operation. *)
LEMMA LeaveStrict ==
  ASSUME StockInv, StrictInv, NEW t \in Threads, Exits(t)
  PROVE  StrictInv'
<1>1. /\ UNCHANGED <<dbVars, seen, saved, kind, who, pin, pout, outflow, inflow, todo>>
      /\ pc'[t] \in Ends /\ pc[t] \notin ResetLabels
      /\ \A v \in Threads \ {t} : pc'[v] = pc[v]
  BY ExitFacts DEF Ends
<1>2. OthersRest(t) /\ AccountsStill /\ Operates(t) /\ conf' = conf
  BY <1>1 DEF OthersRest, AccountsStill, Operates, dbVars, Net
<1>3. Strict => VersionsInRange' /\ StockRead(t)'
  BY <1>1 DEF StrictInv, VersionsInRange, StockRead, dbVars, Ends
<1>4. pc'[t] \notin Apart \cup {"credit"} /\ Ahead(t)' = {}
  BY <1>1 DEF Ends, Apart, ResetLabels, Ahead
<1> QED
  BY <1>1, <1>2, <1>3, <1>4, AsideStrict DEF Net

(* A statement that writes nothing leaves the stock in range. *)
LEMMA ReadRange ==
  ASSUME DatabaseTypeOK, VersionsInRange, NEW t \in Threads,
         UNCHANGED dbVars \/ Insert(t) \/ (\E R : Read(t, R)) \/ (\E r : ForUpdateLock(t, r))
  PROVE  VersionsInRange'
BY DEF dbVars, Insert, Read, ForUpdateLock, VersionsInRange

(* the early steps, before an account is touched *)
Early == {"lockUser", "cart", "find", "lockProduct", "deduct", "reload", "restock"}

(* From one early step to another, or to the accounts. *)
LEMMA EarlyStrict ==
  ASSUME StockInv, StrictInv, NEW t \in Threads, Strict => Operates(t), conf' = conf,
         AccountsStill, OthersRest(t),
         UNCHANGED <<outflow, inflow>>, saved'[t] = saved[t],
         \A u \in Users : Net(t, u)' = Net(t, u),
         pc[t] \in Early, pc'[t] \in Early \cup {"source", "cash"} \cup Ends,
         kind'[t] = "recharge" /\ pc'[t] \in {"source", "cash"} => todo'[t] \subseteq Users,
         Strict => VersionsInRange' /\ StockRead(t)'
  PROVE  StrictInv'
<1>1. Ahead(t) = Users /\ Ahead(t)' \subseteq Users
  BY DEF Ahead, Early, Ends
<1>2. /\ pc[t] \notin ResetLabels /\ pc'[t] \notin Apart \cup {"credit"}
      /\ pc[t] \notin Ends \cup {"status"}
  BY DEF Early, Ends, Apart, ResetLabels
<1> QED
  BY <1>1, <1>2, AsideStrict

LEMMA LockStrict ==
  ASSUME StockInv, StrictInv, NEW t \in Threads, LockUser(t) \/ LockProduct(t)
  PROVE  StrictInv'
<1>1. PICK type \in {"uid", "pid"}, form \in {"one", "set"}, id \in todo[t] :
        /\ PlanAcquire(t, type, form, id)
        /\ pc[t] = IF type = "uid" THEN "lockUser" ELSE "lockProduct"
  <2>1. CASE LockUser(t)
    <3>1. pc[t] = "lockUser" /\ \E u \in todo[t] : PlanAcquire(t, "uid", UserForm(t), u)
      BY <2>1 DEF LockUser, NextIds
    <3> QED
      BY <3>1 DEF UserForm
  <2>2. CASE LockProduct(t)
    <3>1. pc[t] = "lockProduct" /\ \E p \in todo[t] : PlanAcquire(t, "pid", "set", p)
      BY <2>2 DEF LockProduct, NextIds
    <3> QED
      BY <3>1
  <2> QED
    BY <2>1, <2>2
<1>2. /\ UNCHANGED <<kind, who, batch, seen, saved, pin, pout, outflow, inflow>>
      /\ \A v \in Threads \ {t} : pc'[v] = pc[v] /\ todo'[v] = todo[v]
      /\ pc'[t] \in {"lockUser", "cart", "source", "lockProduct", "reload"}
      /\ pc'[t] = "source" /\ kind[t] = "recharge" => todo'[t] = who[t]
  <2>1. CASE LockUser(t)
    BY <2>1 DEF LockUser, Goto, requestVars, workVars, pendingVars, bookVars,
                StockInv, TypeOK, BizTypeOK
  <2>2. CASE LockProduct(t)
    BY <2>2 DEF LockProduct, Goto, requestVars, workVars, pendingVars, bookVars,
                StockInv, WorkOK, ThreadOK, TypeOK, BizTypeOK
  <2> QED
    BY <2>1, <2>2
<1>3. LockRow(type, id) \in Rows \ AccountRows
  <2>1. CASE type = "uid"
    BY <1>1, <2>1, UserFacts DEF LockRow, StockInv, WorkOK, ThreadOK
  <2>2. CASE type = "pid"
    BY <1>1, <2>2, RowFacts DEF LockRow, StockInv, WorkOK, ThreadOK
  <2> QED
    BY <2>1, <2>2
<1>4. /\ conf' = conf /\ AccountsStill
      /\ UNCHANGED dbVars \/ ForUpdateLock(t, LockRow(type, id))
  BY <1>1, <1>3, UserFacts DEF PlanAcquire, ForUpdateLock, dbVars, AccountsStill, StockInv, TypeOK,
                               DatabaseTypeOK
<1>5. Strict => Operates(t)
  <2>1. Strict => (FirstUpdaterWins => SkipsRowLocks)
    BY StrictFacts DEF StockInv, TypeOK, DatabaseTypeOK
  <2> QED
    BY <1>1, <1>3, <2>1 DEF PlanAcquire, Operates
<1>6. Strict => VersionsInRange' /\ StockRead(t)'
  BY <1>2, <1>4, ReadRange DEF StrictInv, StockRead, StockInv, TypeOK
<1>7. /\ OthersRest(t) /\ saved'[t] = saved[t] /\ pc[t] \in Early
      /\ \A u \in Users : Net(t, u)' = Net(t, u)
      /\ pc'[t] \in Early \cup {"source", "cash"}
  BY <1>1, <1>2 DEF OthersRest, Net, Early
<1>8. kind'[t] = "recharge" /\ pc'[t] \in {"source", "cash"} => todo'[t] \subseteq Users
  BY <1>2 DEF StockInv, TypeOK, BizTypeOK
<1> QED
  BY <1>2, <1>4, <1>5, <1>6, <1>7, <1>8, EarlyStrict

LEMMA ChooseStrict ==
  ASSUME StockInv, StrictInv, NEW t \in Threads, FillCart(t) \/ FindInsufficient(t)
  PROVE  StrictInv'
<1>1. /\ UNCHANGED dbVars \/ Read(t, ProductRows)
      /\ pc[t] \in {"cart", "find"} /\ Goto(t, "lockProduct")
      /\ UNCHANGED <<seen, saved, kind, who, pin, pout, outflow, inflow>>
      /\ \E ids : todo' = [todo EXCEPT ![t] = ids]
  BY DEF FillCart, FindInsufficient, requestVars, pendingVars, bookVars
<1>2. pc'[t] = "lockProduct" /\ \A v \in Threads \ {t} : pc'[v] = pc[v] /\ todo'[v] = todo[v]
  BY <1>1 DEF Goto, StockInv, TypeOK, BizTypeOK
<1>3. Operates(t) /\ conf' = conf /\ AccountsStill
  BY <1>1, RowFacts DEF Operates, Read, dbVars, AccountsStill
<1>4. Strict => VersionsInRange' /\ StockRead(t)'
  BY <1>1, <1>2, ReadRange DEF StrictInv, StockRead, StockInv, TypeOK
<1>5. /\ OthersRest(t) /\ saved'[t] = saved[t] /\ pc[t] \in Early
      /\ \A u \in Users : Net(t, u)' = Net(t, u)
      /\ pc'[t] \in Early
  BY <1>1, <1>2 DEF OthersRest, Net, Early
<1> QED
  BY <1>1, <1>2, <1>3, <1>4, <1>5, EarlyStrict

LEMMA SourceStrict ==
  ASSUME StockInv, StrictInv, NEW t \in Threads, CreateSource(t)
  PROVE  StrictInv'
<1>1. /\ Insert(t) /\ pc[t] = "source"
      /\ Goto(t, IF kind[t] = "package" THEN "deduct" ELSE "cash")
      /\ UNCHANGED <<seen, saved, kind, who, todo, pin, pout, outflow, inflow>>
  BY DEF CreateSource, requestVars, pendingVars, bookVars
<1>2. /\ pc'[t] = IF kind[t] = "package" THEN "deduct" ELSE "cash"
      /\ \A v \in Threads \ {t} : pc'[v] = pc[v]
  BY <1>1, GotoPc DEF StockInv, TypeOK
<1>3. Operates(t) /\ conf' = conf /\ AccountsStill
  BY <1>1 DEF Operates, Insert, AccountsStill
<1>4. Strict => VersionsInRange' /\ StockRead(t)'
  BY <1>1, <1>2, ReadRange DEF StrictInv, StockRead, StockInv, TypeOK
<1>5. /\ OthersRest(t) /\ saved'[t] = saved[t]
      /\ \A u \in Users : Net(t, u)' = Net(t, u)
  BY <1>1, <1>2 DEF OthersRest, Net
<1>6. Ahead(t)' = Ahead(t)
  BY <1>1, <1>2 DEF Ahead, Ends
<1>7. /\ pc[t] \notin ResetLabels \cup Ends \cup {"status"}
      /\ pc'[t] \notin Apart \cup {"credit"}
  BY <1>1, <1>2 DEF Apart, ResetLabels, Ends
<1> QED
  BY <1>1, <1>3, <1>4, <1>5, <1>6, <1>7, AsideStrict

(* A bill has one user: the account it is at is the last. *)
LEMMA UsageDone ==
  ASSUME OneUsers, NEW t \in Threads, pc[t] = "status", kind[t] = "usage"
  PROVE  todo[t] = {Account(t)}
<1>1. PICK u \in Users : who[t] = {u} /\ todo[t] = {u}
  BY DEF OneUsers, OneUser, AccountSteps
<1>2. First(who[t]) = u
  BY <1>1, TablesAssumption, FirstIn
<1> QED
  BY <1>1, <1>2 DEF Account

(* updateStatusCode ends a bill; a recharge goes on to its next user. *)
LEMMA StatusStrict ==
  ASSUME StockInv, StrictInv, OneUsers, NEW t \in Threads, UpdateStatusCode(t)
  PROVE  StrictInv'
<1>1. /\ pc[t] = "status" /\ saved[t] = NothingSaved
      /\ todo' = [todo EXCEPT ![t] = @ \ {Account(t)}]
      /\ IF todo[t] = {Account(t)} THEN Leave(t, "ok") ELSE Goto(t, "source")
      /\ UNCHANGED <<dbVars, seen, saved, kind, who, pin, pout, outflow, inflow>>
  BY DEF UpdateStatusCode, requestVars, workVars, pendingVars, bookVars
<1>2. kind[t] # "recharge" => todo[t] = {Account(t)}
  BY <1>1, UsageDone DEF StockInv, WorkOK, ThreadOK
<1>3. /\ \/ pc'[t] \in Ends
         \/ pc'[t] = "source" /\ kind[t] = "recharge"
      /\ \A v \in Threads \ {t} : pc'[v] = pc[v] /\ todo'[v] = todo[v]
      /\ todo'[t] = todo[t] \ {Account(t)}
  BY <1>1, <1>2, LeaveKeys, GotoPc DEF StockInv, TypeOK, BizTypeOK, Ends
<1>4. Ahead(t)' \subseteq Ahead(t)
  BY <1>1, <1>3 DEF Ahead, Ends
<1>5. Operates(t) /\ conf' = conf /\ AccountsStill
  BY <1>1 DEF Operates, dbVars, AccountsStill
<1>6. Strict => VersionsInRange' /\ StockRead(t)'
  BY <1>1, <1>3 DEF StrictInv, VersionsInRange, StockRead, dbVars, Ends
<1>7. /\ OthersRest(t) /\ saved'[t] = saved[t]
      /\ \A u \in Users : Net(t, u)' = Net(t, u)
  BY <1>1, <1>3 DEF OthersRest, Net
<1>8. pc[t] \notin ResetLabels /\ pc'[t] \notin Apart \cup {"credit"}
  BY <1>1, <1>3 DEF Apart, ResetLabels, Ends
<1> QED
  BY <1>1, <1>4, <1>5, <1>6, <1>7, <1>8, AsideStrict

(* Orders take from the stock what there is. *)
LEMMA ItemStrict ==
  ASSUME StockInv, StrictInv, NEW t \in Threads, DeductStock(t) \/ SkipProduct(t)
  PROVE  StrictInv'
<1> DEFINE p == First(todo[t])
           r == ProductRow(p)
           n == batch[t][p]
<1>1. /\ pc[t] = "deduct" /\ UNCHANGED <<kind, who, batch, seen, saved, pin, outflow, inflow>>
      /\ \/ Insert(t)
         \/ latest[r] >= n /\ Update(t, r, latest[r] - n, holder[r] # t)
      /\ pout' = pout \/ pout' = [pout EXCEPT ![t][r] = @ + n]
      /\ \E entries : NextItem(t, p, entries)
  BY DEF DeductStock, SkipProduct, requestVars, workVars, pendingVars, bookVars
<1>2. /\ p \in Products /\ r \in ProductRows /\ r \in Rows /\ r \notin AccountRows /\ n \in Nat
      /\ latest[r] \in Int
  BY <1>1, ProductFacts, ProductRowFacts, RowFacts
     DEF StockInv, TypeOK, BizTypeOK, DatabaseTypeOK
<1>3. Strict /\ latest[r] >= n => latest[r] - n \in StockRange
  <2>1. Strict => latest[r] \in 0 .. ProductStockMax
    BY <1>2 DEF StrictInv, VersionsInRange, StockRange
  <2> HIDE DEF r, n
  <2> QED
    BY <1>2, <2>1, TablesAssumption DEF StockRange
<1>4. \A u \in Users : Net(t, u)' = Net(t, u) /\ \A v \in Threads : Net(v, u)' = Net(v, u)
  <2>1. \A v \in Threads, u \in Users : pout'[v][UserRow(u)] = pout[v][UserRow(u)]
    <3>1. CASE \E m : pout' = [pout EXCEPT ![t][r] = @ + m]
      <4>1. PICK m : pout' = [pout EXCEPT ![t][r] = @ + m]
        BY <3>1
      <4>2. pout \in [Threads -> [Rows -> Int]]
        BY DEF StockInv, TypeOK, BizTypeOK
      <4>3. /\ \A s \in Rows \ {r} : pout'[t][s] = pout[t][s]
            /\ \A v \in Threads \ {t} : pout'[v] = pout[v]
        <5> HIDE DEF r
        <5> QED BY <1>2, <4>1, <4>2
      <4>4. \A u \in Users : UserRow(u) \in Rows /\ UserRow(u) # r
        <5> HIDE DEF p
        <5> QED BY <1>2, RowFacts
      <4> QED
        BY <4>3, <4>4
    <3> QED
      BY <1>1, <3>1
  <2> QED
    BY <1>1, <2>1 DEF Net
<1>5. /\ pc'[t] \in {"deduct", "cash"} \cup Ends
      /\ \A v \in Threads \ {t} : pc'[v] = pc[v] /\ todo'[v] = todo[v]
  BY <1>1, LeaveKeys DEF NextItem, Goto, Ends, StockInv, TypeOK, BizTypeOK
<1>6. kind[t] = "package"
  BY <1>1 DEF StockInv, WorkOK, ThreadOK
<1> HIDE DEF p, r, n
<1>7. conf' = conf /\ AccountsStill /\ Operates(t)
  <2>1. CASE Insert(t)
    BY <2>1 DEF Insert, AccountsStill, Operates
  <2>2. CASE Update(t, r, latest[r] - n, holder[r] # t)
    <3>1. latest[r] - n \in Int
      BY <1>2
    <3> QED
      BY <1>2, <2>2, <3>1, UserFacts DEF Update, AccountsStill, Operates, StockInv, TypeOK,
                                         DatabaseTypeOK
  <2> QED
    BY <1>1, <2>1, <2>2
<1>8. Strict => VersionsInRange' /\ StockRead(t)'
  <2>1. Strict => StatementInRange(t)
    BY <1>1, <1>3 DEF StatementInRange
  <2> QED
    BY <1>5, <2>1, StatementRange DEF StrictInv, StockRead, Ends, StockInv, TypeOK
<1>9. OthersRest(t) /\ saved'[t] = saved[t] /\ pc[t] \in Early
      /\ pc'[t] \in Early \cup {"source", "cash"} \cup Ends
  BY <1>1, <1>4, <1>5 DEF OthersRest, Early
<1> QED
  BY <1>1, <1>4, <1>6, <1>7, <1>8, <1>9, EarlyStrict

(* What t reads of a row it has not changed is what it starts from. *)
LEMMA ReadBasis ==
  ASSUME DatabaseTypeOK, Strict, RowsGuarded, NEW t \in Threads, NEW r \in Rows, Read(t, {r}),
         holder[r] # t
  PROVE  Visible(t, r) = Basis(t, r) /\ Basis(t, r)' = Basis(t, r) /\ Guarded(t, r)'
<1>1. {r} \in SUBSET Rows /\ conf' = conf
  BY DEF Read
<1>2. Visible(t, r) = Basis(t, r)
  BY StrictFacts DEF Visible, Basis, DatabaseTypeOK
<1>3. Basis(t, r)' = Basis(t, r)
  BY <1>1, OperatesGuarded DEF Operates, Ongoing
<1>4. Guarded(t, r)'
  <2>1. (FirstUpdaterWins' <=> FirstUpdaterWins) /\ (SharedHeld' <=> SharedHeld)
    BY <1>1, LevelsKept
  <2>2. FirstUpdaterWins => view'[t] # NoView
    BY OpenViewFacts DEF Read
  <2>3. SharedHeld => r \in shared'[t]
    <3>1. shared' = IF SharedHeld THEN [shared EXCEPT ![t] = @ \cup {r}] ELSE shared
      BY DEF Read
    <3> QED
      BY <3>1 DEF DatabaseTypeOK
  <2> QED
    BY <2>1, <2>2, <2>3 DEF Guarded
<1> QED
  BY <1>2, <1>3, <1>4

(* doReload reads the stock ... *)
LEMMA ReadStockStrict ==
  ASSUME StockInv, StrictInv, NEW t \in Threads, ReadStock(t)
  PROVE  StrictInv'
<1>0. pc[t] = "reload"
  BY DEF ReadStock
<1>2. PICK r \in Rows : r = ProductRow(First(todo[t]))
  BY <1>0, ProductFacts, RowFacts
<1>1. /\ pc[t] = "reload" /\ Goto(t, "restock")
      /\ UNCHANGED <<kind, who, todo, saved, pin, pout, outflow, inflow>>
      /\ \/ holder[r] = t /\ UNCHANGED dbVars /\ seen' = [seen EXCEPT ![t] = latest[r]]
         \/ /\ holder[r] # t /\ Read(t, {r})
            /\ seen' = [seen EXCEPT ![t] = Visible(t, r)]
  BY <1>2 DEF ReadStock, requestVars, pendingVars, bookVars
<1>3. /\ pc'[t] = "restock"
      /\ \A v \in Threads \ {t} : pc'[v] = pc[v] /\ seen'[v] = seen[v]
  BY <1>1, GotoPc DEF StockInv, TypeOK, BizTypeOK
<1>4. conf' = conf /\ AccountsStill /\ Operates(t)
  <2>1. {r} \in SUBSET Rows
    BY <1>2
  <2>2. UNCHANGED dbVars \/ Read(t, {r})
    BY <1>1
  <2> QED
    BY <2>1, <2>2 DEF Read, dbVars, AccountsStill, Operates
<1>5. ASSUME Strict PROVE StockRead(t)'
  <2>1. CASE holder[r] = t
    BY <1>1, <1>2, <1>3, <2>1 DEF StockRead, dbVars, StockInv, TypeOK, BizTypeOK
  <2>2. CASE holder[r] # t
    <3>1. seen'[t] = Visible(t, r) /\ holder' = holder
      BY <1>1, <2>2 DEF Read, StockInv, TypeOK, BizTypeOK
    <3>2. seen'[t] = Basis(t, r)' /\ Guarded(t, r)'
      BY <1>1, <1>5, <2>2, <3>1, ReadBasis DEF StrictInv, StockInv, TypeOK
    <3> QED
      BY <1>1, <1>2, <2>2, <3>1, <3>2 DEF StockRead
  <2> QED
    BY <2>1, <2>2
<1>6. Strict => VersionsInRange'
  BY <1>1, ReadRange DEF StrictInv, StockInv, TypeOK
<1>7. /\ OthersRest(t) /\ saved'[t] = saved[t] /\ pc[t] \in Early /\ pc'[t] \in Early
      /\ \A u \in Users : Net(t, u)' = Net(t, u)
      /\ pc'[t] \notin {"source", "cash"}
  BY <1>1, <1>3 DEF OthersRest, Net, Early
<1> QED
  BY <1>1, <1>4, <1>5, <1>6, <1>7, EarlyStrict

(* ... and what it adds fills the stock as it is: nobody changed the row   *)
(* since, or the update is refused.                                        *)
LEMMA FillsStrict ==
  ASSUME StockInv, StrictInv, NEW t \in Threads, pc[t] = "restock",
         NEW p \in Products, p = First(todo[t]), NEW value \in Int,
         value = latest[ProductRow(p)] + (ProductStockMax - seen[t]),
         Update(t, ProductRow(p), value, FALSE)
  PROVE  /\ conf' = conf /\ AccountsStill /\ Operates(t)
         /\ Strict => VersionsInRange'
<1> DEFINE r == ProductRow(p)
<1>1. /\ r \in ProductRows /\ r \in Rows /\ r \notin AccountRows
      /\ ProductStockMax \in Nat /\ seen[t] \in Int /\ latest[r] \in Int
  BY ProductRowFacts, RowFacts, TablesAssumption
     DEF StockInv, TypeOK, BizTypeOK, DatabaseTypeOK
<1>2. Strict => seen[t] = latest[r]
  <2> SUFFICES ASSUME Strict, holder[r] # t PROVE seen[t] = latest[r]
    BY DEF StrictInv, ThreadStrict, StockRead
  <2>1. Guarded(t, r) /\ seen[t] = Basis(t, r)
    BY DEF StrictInv, ThreadStrict, StockRead
  <2>2. holder[r] = NoThread /\ (FirstUpdaterWins => r \notin missed[t])
    BY <1>1 DEF Update, UpdateBlockers, LockBlockers, Conflicts, StockInv, TypeOK, DatabaseTypeOK
  <2>3. latest[r] = committed[r]
    BY <1>1, <2>2 DEF StrictInv, RowsGuarded
  <2>4. Basis(t, r) = committed[r]
    BY <1>1, <2>2 DEF StrictInv, RowsGuarded, Basis
  <2> QED
    BY <2>1, <2>3, <2>4
<1> HIDE DEF r
<1>3. Strict => value = ProductStockMax
  BY <1>1, <1>2 DEF r
<1>4. Update(t, r, value, FALSE)
  BY DEF r
<1>5. conf' = conf /\ AccountsStill /\ Operates(t)
  BY <1>1, <1>4, UserFacts DEF Update, AccountsStill, Operates, StockInv, TypeOK, DatabaseTypeOK
<1>6. Strict => VersionsInRange'
  <2>1. Strict => value \in StockRange
    BY <1>1, <1>3 DEF StockRange
  <2>2. Strict => StatementInRange(t)
    BY <1>4, <2>1 DEF StatementInRange
  <2> QED
    BY <2>2, StatementRange DEF StrictInv, StockInv, TypeOK
<1> QED
  BY <1>5, <1>6

LEMMA RestockStrict ==
  ASSUME StockInv, StrictInv, NEW t \in Threads, Restock(t)
  PROVE  StrictInv'
<1> DEFINE r == ProductRow(First(todo[t]))
           n == ProductStockMax - seen[t]
<1>1. /\ pc[t] = "restock" /\ Update(t, r, latest[r] + n, FALSE)
      /\ pin' = [pin EXCEPT ![t][r] = @ + n]
      /\ todo' = [todo EXCEPT ![t] = @ \ {First(todo[t])}]
      /\ (\E o : Leave(t, o)) \/ Goto(t, "reload")
      /\ UNCHANGED <<kind, who, seen, saved, pout, outflow, inflow>>
  BY DEF Restock, requestVars, workVars, bookVars
<1>2. /\ First(todo[t]) \in Products /\ r \in ProductRows /\ r \in Rows /\ r \notin AccountRows
      /\ ProductStockMax \in Nat /\ seen[t] \in Int /\ latest[r] \in Int
  BY <1>1, ProductFacts, ProductRowFacts, RowFacts, TablesAssumption
     DEF StockInv, TypeOK, BizTypeOK, DatabaseTypeOK
<1>3. \A u \in Users : Net(t, u)' = Net(t, u) /\ \A v \in Threads : Net(v, u)' = Net(v, u)
  <2>1. \A v \in Threads, u \in Users : pin'[v][UserRow(u)] = pin[v][UserRow(u)]
    <3> DEFINE p == First(todo[t])
    <3>1. p \in Products /\ \E m : pin' = [pin EXCEPT ![t][ProductRow(p)] = @ + m]
      BY <1>1, <1>2
    <3>2. pin \in [Threads -> [Rows -> Int]]
      BY DEF StockInv, TypeOK, BizTypeOK
    <3> HIDE DEF p, r, n
    <3> QED
      BY <3>1, <3>2, ProductEntry
  <2> QED
    BY <1>1, <2>1 DEF Net
<1>4. /\ pc'[t] \in {"reload"} \cup Ends
      /\ \A v \in Threads \ {t} : pc'[v] = pc[v] /\ todo'[v] = todo[v]
  BY <1>1, LeaveKeys, GotoPc DEF Ends, StockInv, TypeOK, BizTypeOK
<1>5. conf' = conf /\ AccountsStill /\ Operates(t) /\ (Strict => VersionsInRange')
  <2>1. PICK value \in Int : value = latest[r] + n
    BY <1>2
  <2>2. Update(t, r, value, FALSE)
    BY <1>1, <2>1
  <2> QED
    BY <1>1, <1>2, <2>1, <2>2, FillsStrict
<1> HIDE DEF r, n
<1>6. Strict => StockRead(t)'
  BY <1>4 DEF StockRead, Ends
<1>7. /\ OthersRest(t) /\ saved'[t] = saved[t] /\ pc[t] \in Early
      /\ pc'[t] \in Early \cup Ends /\ pc'[t] \notin {"source", "cash"}
  BY <1>1, <1>3, <1>4 DEF OthersRest, Early, Ends
<1> QED
  BY <1>1, <1>3, <1>5, <1>6, <1>7, EarlyStrict

(* Where Snowflake.nextId fails, the statement before it is among those    *)
(* that have been looked at.                                               *)
LEMMA NextIdStrict ==
  ASSUME StockInv, StrictInv, NEW t \in Threads, NextIdThrows(t)
  PROVE  StrictInv'
<1>1. conf' = conf /\ AccountsStill /\ (Strict => Operates(t) /\ VersionsInRange')
  <2>1. CASE pc[t] = "restock"
    <3>1. PICK p \in Products :
            /\ p = First(todo[t])
            /\ Update(t, ProductRow(p), latest[ProductRow(p)] + (ProductStockMax - seen[t]), FALSE)
      BY <2>1, NextIdFacts
    <3>2. /\ latest[ProductRow(p)] \in Int /\ ProductStockMax \in Int /\ seen[t] \in Int
      BY RowFacts, TablesAssumption DEF StockInv, TypeOK, BizTypeOK, DatabaseTypeOK
    <3>3. PICK value \in Int : value = latest[ProductRow(p)] + (ProductStockMax - seen[t])
      BY <3>2
    <3>4. Update(t, ProductRow(p), value, FALSE)
      BY <3>1, <3>3
    <3> QED
      BY <2>1, <3>1, <3>3, <3>4, FillsStrict
  <2>2. CASE pc[t] # "restock"
    <3>1. UNCHANGED dbVars \/ \E R \in SUBSET Rows : Read(t, R)
      BY <2>2, NextIdFacts
    <3>2. conf' = conf /\ AccountsStill /\ Operates(t)
      BY <3>1 DEF AccountsStill, Operates, dbVars, Read
    <3> QED
      BY <3>1, <3>2, ReadRange DEF StrictInv, StockInv, TypeOK
  <2> QED
    BY <2>1, <2>2
<1>2. /\ UNCHANGED <<saved, pin, pout, outflow, inflow>> /\ OthersRest(t)
      /\ \A u \in Users : Net(t, u)' = Net(t, u)
  BY NextIdFacts DEF OthersRest, Net
<1>3. /\ pc'[t] \in Ends /\ pc'[t] \notin Apart \cup {"credit"} /\ Ahead(t)' = {}
      /\ pc[t] \notin ResetLabels
  BY NextIdFacts DEF Ends, Apart, ResetLabels, Ahead
<1>4. StockRead(t)'
  BY <1>3 DEF StockRead, Ends
<1> QED
  BY <1>1, <1>2, <1>3, <1>4, AsideStrict

-----------------------------------------------------------------------------
(* The steps with the accounts. *)

(* The accounts of the user t is at have not been touched. *)
LEMMA AccountAhead ==
  ASSUME StockInv, StrictInv, Strict, NEW t \in Threads, pc[t] \in {"cash", "credit"}
  PROVE  /\ Account(t) \in Users /\ Account(t) \in Ahead(t)
         /\ BooksEven(t) /\ saved[t] = NothingSaved
         /\ \A r \in AccountsOf(Account(t)) : r \in Rows /\ holder[r] # t
<1>1. /\ Account(t) \in Users /\ (kind[t] = "recharge" => Account(t) \in todo[t])
      /\ pc[t] \notin ResetLabels
  BY AccountFacts DEF ResetLabels
<1>2. Account(t) \in Ahead(t)
  BY <1>1 DEF Ahead, Ends
<1>3. BooksEven(t)
  BY DEF StrictInv, ThreadStrict
<1> QED
  BY <1>1, <1>2, <1>3, UserFacts DEF BooksEven, Ends

LEMMA ReadCashStrict ==
  ASSUME StockInv, StrictInv, NEW t \in Threads, ReadCash(t)
  PROVE  StrictInv'
<1>0. pc[t] = "cash" /\ CashRow(Account(t)) \in Rows
  BY AccountFacts, UserFacts DEF ReadCash
<1>1. PICK r \in Rows : r = CashRow(Account(t))
  BY <1>0
<1>2. /\ Read(t, {r}) /\ Goto(t, "credit")
      /\ seen' = [seen EXCEPT ![t] = Visible(t, r)]
      /\ UNCHANGED <<saved, kind, who, todo, batch, pin, pout, outflow, inflow>>
  BY <1>1 DEF ReadCash, requestVars, pendingVars, bookVars
<1>3. /\ pc'[t] = "credit" /\ seen'[t] = Visible(t, r)
      /\ \A v \in Threads \ {t} : pc'[v] = pc[v] /\ seen'[v] = seen[v]
      /\ Account(t)' = Account(t)
  BY <1>0, <1>2, GotoPc DEF Account, StockInv, TypeOK, BizTypeOK
<1>4. conf' = conf /\ AccountsStill /\ Operates(t)
  <2>1. {r} \in SUBSET Rows
    OBVIOUS
  <2> QED
    BY <1>2, <2>1 DEF Read, AccountsStill, Operates
<1>5. ASSUME Strict PROVE CashRead(t)'
  <2>1. holder[r] # t
    BY <1>0, <1>1, <1>5, AccountAhead DEF AccountsOf
  <2>2. seen'[t] = Basis(t, r)' /\ Guarded(t, r)'
    BY <1>2, <1>3, <1>5, <2>1, ReadBasis DEF StrictInv, StockInv, TypeOK
  <2> QED
    BY <1>1, <1>3, <2>2 DEF CashRead
<1>6. Strict => VersionsInRange' /\ StockRead(t)'
  BY <1>2, <1>3, ReadRange DEF StrictInv, StockRead, StockInv, TypeOK
<1>7. /\ OthersRest(t) /\ saved'[t] = saved[t]
      /\ \A u \in Users : Net(t, u)' = Net(t, u)
  BY <1>2, <1>3 DEF OthersRest, Net
<1>8. Ahead(t)' = Ahead(t)
  BY <1>0, <1>2, <1>3 DEF Ahead, Ends
<1>9. /\ pc[t] \notin ResetLabels \cup Ends \cup {"status"} /\ pc'[t] \notin Apart
  BY <1>0, <1>3 DEF Apart, ResetLabels, Ends
<1> QED
  BY <1>2, <1>4, <1>5, <1>6, <1>7, <1>8, <1>9, AsideStrict

(* What save plans to write changes the accounts by as much as it says. *)
LEMMA SavedChange ==
  ASSUME BizTypeOK, NEW t \in Threads, NEW a \in Users, NEW cash \in Int, NEW credit \in Int,
         NEW oldCash \in Int, NEW oldCredit \in Int,
         saved[t] = NothingSaved, seen[t] = oldCash, Save(t, a, cash, credit, oldCredit),
         holder'[CashRow(a)] # t, holder'[CreditRow(a)] # t,
         Basis(t, CashRow(a))' = oldCash, Basis(t, CreditRow(a))' = oldCredit
  PROVE  /\ Change(t, CashRow(a))' = cash - oldCash
         /\ Change(t, CreditRow(a))' = credit - oldCredit
         /\ DOMAIN saved'[t] \subseteq AccountsOf(a)
         /\ \A v \in Threads \ {t} : saved'[v] = saved[v]
<1> DEFINE D == (IF cash # seen[t] THEN {CashRow(a)} ELSE {}) \cup
                (IF credit # oldCredit THEN {CreditRow(a)} ELSE {})
           f == [r \in D |-> IF r = CashRow(a) THEN cash ELSE credit]
<1>1. /\ DOMAIN f = D /\ D \subseteq AccountsOf(a)
      /\ IF CashRow(a) \in D THEN f[CashRow(a)] = cash ELSE cash = oldCash
      /\ IF CreditRow(a) \in D THEN f[CreditRow(a)] = credit ELSE credit = oldCredit
  BY UserFacts DEF AccountsOf
<1>2. saved' = [saved EXCEPT ![t] = f]
  BY DEF Save
<1> HIDE DEF f, D
<1>3. saved'[t] = f /\ \A v \in Threads \ {t} : saved'[v] = saved[v]
  BY <1>2 DEF BizTypeOK
<1> QED
  BY <1>1, <1>3 DEF Change

(* A bill, an order or a recharge enters in the trades what it is going to *)
(* change, computed from values that stay.                                 *)
LEMMA SettleStrict ==
  ASSUME StockInv, StrictInv, NEW t \in Threads, pc[t] = "credit", NEW a, a = Account(t),
         NEW cash, NEW credit, NEW paid, NEW received,
         Settles(t, a, cash, credit, paid, received), Read(t, {CreditRow(a)}),
         pc'[t] \in {"status"} \cup Ends,
         \A v \in Threads \ {t} : pc'[v] = pc[v],
         UNCHANGED <<seen, kind, who, todo, outflow, inflow>>
  PROVE  StrictInv'
<1>0. conf' = conf
  BY DEF Read
<1> SUFFICES ASSUME Strict
             PROVE  /\ OthersRest(t) /\ RowsGuarded' /\ Elsewhere(t) /\ ClearedStay(t)
                    /\ AccountsBalance' /\ VersionsInRange' /\ ThreadStrict(t)'
  <2>1. OthersRest(t)
    BY AccountFacts, UserFacts DEF Settles, Save, OthersRest, Net, StockInv, TypeOK, BizTypeOK
  <2> QED
    BY <1>0, <2>1, StrictStep
<1>1. /\ a \in Users /\ saved[t] = NothingSaved /\ BooksEven(t) /\ a \in Ahead(t)
      /\ \A r \in AccountsOf(a) : r \in Rows /\ holder[r] # t
  BY AccountAhead
<1>2. CashRow(a) \in Rows /\ CreditRow(a) \in Rows /\ UserRow(a) \in Rows
  BY <1>1, UserFacts
<1>3. UNCHANGED <<committed, latest, holder>>
  BY DEF Read
<1>4. RowsGuarded' /\ Elsewhere(t) /\ Ongoing(t)
  <2>1. {CreditRow(a)} \in SUBSET Rows
    BY <1>2
  <2> QED
    BY <2>1, OperatesGuarded DEF Operates, StrictInv, StockInv, TypeOK
<1>5. /\ Guarded(t, CashRow(a))' /\ Guarded(t, CreditRow(a))'
      /\ seen[t] = Basis(t, CashRow(a))'
      /\ Visible(t, CreditRow(a)) = Basis(t, CreditRow(a))'
  <2>1. Guarded(t, CashRow(a)) /\ seen[t] = Basis(t, CashRow(a))
    BY <1>1 DEF BooksEven, CashRead, ResetLabels
  <2>2. Guarded(t, CashRow(a))' /\ seen[t] = Basis(t, CashRow(a))'
    BY <1>2, <1>4, <2>1 DEF Ongoing
  <2>3. holder[CreditRow(a)] # t /\ DatabaseTypeOK /\ RowsGuarded
    BY <1>1 DEF AccountsOf, StrictInv, StockInv, TypeOK
  <2>4. /\ Guarded(t, CreditRow(a))'
        /\ Visible(t, CreditRow(a)) = Basis(t, CreditRow(a))'
    BY <1>2, <2>3, ReadBasis
  <2> QED
    BY <2>2, <2>4
<1>6. /\ cash \in Int /\ credit \in Int /\ paid \in Int /\ received \in Int
      /\ seen[t] \in Int /\ Visible(t, CreditRow(a)) \in Int
      /\ cash + credit + paid - received = seen[t] + Visible(t, CreditRow(a))
  BY <1>2, VisibleType DEF Settles, StockInv, TypeOK, BizTypeOK
<1>7. /\ Change(t, CashRow(a))' = cash - seen[t]
      /\ Change(t, CreditRow(a))' = credit - Visible(t, CreditRow(a))
      /\ DOMAIN saved'[t] \subseteq AccountsOf(a)
      /\ \A v \in Threads \ {t} : saved'[v] = saved[v]
  <2>1. holder'[CashRow(a)] # t /\ holder'[CreditRow(a)] # t /\ BizTypeOK
    BY <1>1, <1>3 DEF AccountsOf, StockInv, TypeOK
  <2>2. Save(t, a, cash, credit, Visible(t, CreditRow(a)))
    BY DEF Settles
  <2> QED
    BY <1>1, <1>5, <1>6, <2>1, <2>2, SavedChange
<1>8. /\ pout'[t][UserRow(a)] = pout[t][UserRow(a)] + paid
      /\ pin'[t][UserRow(a)] = pin[t][UserRow(a)] + received
      /\ \A v \in Threads, u \in Users : v # t \/ u # a =>
           /\ pout'[v][UserRow(u)] = pout[v][UserRow(u)]
           /\ pin'[v][UserRow(u)] = pin[v][UserRow(u)]
  BY <1>1, UserFacts DEF Settles, StockInv, TypeOK, BizTypeOK
<1>9. pc[t] \notin ResetLabels /\ pc'[t] \notin Apart \cup {"credit", "restock"}
  BY DEF Ends, Apart, ResetLabels
<1>10. Ahead(t)' \subseteq Ahead(t) \ {a}
  <2>1. Account(t)' = a
    BY DEF Account
  <2> QED
    BY <2>1, AheadUsers DEF Ahead, Ends
<1>11. Net(t, a)' = Change(t, CashRow(a))' + Change(t, CreditRow(a))'
  <2>1. Net(t, a) = 0
    <3>1. Change(t, CashRow(a)) = 0 /\ Change(t, CreditRow(a)) = 0
      BY <1>1 DEF Change, AccountsOf, NothingSaved
    <3> QED
      BY <1>1, <1>9, <3>1 DEF BooksEven
  <2>2. pin[t][UserRow(a)] \in Int /\ pout[t][UserRow(a)] \in Int
    BY <1>2 DEF StockInv, TypeOK, BizTypeOK
  <2>3. Net(t, a)' = received - paid
    BY <1>6, <1>8, <2>1, <2>2 DEF Net
  <2> QED
    BY <1>6, <1>7, <2>3
<1>12. ASSUME NEW u \in Users \ {a}
       PROVE  /\ Net(t, u)' = Change(t, CashRow(u))' + Change(t, CreditRow(u))'
              /\ \A r \in AccountsOf(u) : r \notin DOMAIN saved'[t]
  <2>1. \A r \in AccountsOf(u) : r \in Rows /\ r \notin DOMAIN saved'[t] /\ r \notin DOMAIN saved[t]
    BY <1>1, <1>7, UserFacts DEF NothingSaved
  <2>2. \A r \in AccountsOf(u) : Change(t, r)' = Change(t, r)
    BY <1>3, <2>1 DEF Change
  <2>3. Net(t, u)' = Net(t, u)
    BY <1>8 DEF Net
  <2> QED
    BY <1>1, <1>9, <2>1, <2>2, <2>3 DEF BooksEven, AccountsOf
<1>13. BooksEven(t)'
  <2>1. \A r \in DOMAIN saved'[t] : Guarded(t, r)'
    BY <1>5, <1>7 DEF AccountsOf
  <2>2. \A u \in Users : Net(t, u)' = Change(t, CashRow(u))' + Change(t, CreditRow(u))'
    BY <1>11, <1>12
  <2>3. \A u \in Ahead(t)' : \A r \in AccountsOf(u) : holder'[r] # t /\ r \notin DOMAIN saved'[t]
    BY <1>1, <1>3, <1>9, <1>10, <1>12, AheadUsers DEF BooksEven
  <2> QED
    BY <1>9, <2>1, <2>2, <2>3 DEF BooksEven, CashRead
<1>14. OthersRest(t)
  BY <1>7, <1>8 DEF OthersRest, Net
<1>15. AccountsBalance' /\ VersionsInRange' /\ ClearedStay(t)
  BY <1>3, ReadRange DEF AccountsBalance, StrictInv, ClearedStay, StockInv, TypeOK
<1> QED
  BY <1>4, <1>9, <1>13, <1>14, <1>15
     DEF ThreadStrict, ResetEven, UserReset, StockRead, ViewTaken, Apart

LEMMA PayBillStrict ==
  ASSUME StockInv, StrictInv, NEW t \in Threads, PayBill(t)
  PROVE  StrictInv'
<1>1. /\ pc[t] = "credit" /\ Read(t, {CreditRow(Account(t))})
      /\ UNCHANGED <<seen, kind, who, todo, pin, outflow, inflow>>
  BY DEF PayBill, requestVars, workVars, bookVars
<1>2. CASE Leave(t, "biz") /\ UNCHANGED <<pout, saved>>
  <2>1. pc'[t] \in Ends /\ \A v \in Threads \ {t} : pc'[v] = pc[v]
    BY <1>2, LeaveKeys DEF Ends, StockInv, TypeOK
  <2>2. conf' = conf /\ AccountsStill /\ Operates(t)
    <3>1. {CreditRow(Account(t))} \in SUBSET Rows
      BY <1>1, AccountFacts, UserFacts
    <3> QED
      BY <1>1, <3>1 DEF Read, AccountsStill, Operates
  <2>3. Strict => VersionsInRange' /\ StockRead(t)'
    BY <1>1, <2>1, ReadRange DEF StrictInv, StockRead, StockInv, TypeOK, Ends
  <2>4. /\ OthersRest(t) /\ saved'[t] = saved[t]
        /\ \A u \in Users : Net(t, u)' = Net(t, u)
    BY <1>1, <1>2, <2>1 DEF OthersRest, Net
  <2>5. /\ Ahead(t)' = {} /\ pc[t] \notin ResetLabels \cup Ends \cup {"status"}
        /\ pc'[t] \notin Apart \cup {"credit"}
    BY <1>1, <2>1 DEF Ahead, Ends, Apart, ResetLabels
  <2> QED
    BY <1>1, <2>2, <2>3, <2>4, <2>5, AsideStrict
<1>3. CASE ~(Leave(t, "biz") /\ UNCHANGED <<pout, saved>>)
  <2>1. /\ \E cash, credit, paid : Settles(t, Account(t), cash, credit, paid, 0)
        /\ Leave(t, "ok") \/ Goto(t, "status")
    BY <1>3, PayBillSettles
  <2>2. /\ pc'[t] \in {"status"} \cup Ends
        /\ \A v \in Threads \ {t} : pc'[v] = pc[v]
    BY <2>1, LeaveKeys, GotoPc DEF Ends, StockInv, TypeOK
  <2> QED
    BY <1>1, <2>1, <2>2, SettleStrict
<1> QED
  BY <1>2, <1>3

LEMMA RechargeStrict ==
  ASSUME StockInv, StrictInv, NEW t \in Threads, Recharge(t)
  PROVE  StrictInv'
<1>1. /\ pc[t] = "credit" /\ Read(t, {CreditRow(Account(t))}) /\ Goto(t, "status")
      /\ UNCHANGED <<seen, kind, who, todo, pout, outflow, inflow>>
  BY DEF Recharge, requestVars, workVars, bookVars
<1>2. pc'[t] = "status" /\ \A v \in Threads \ {t} : pc'[v] = pc[v]
  BY <1>1, GotoPc DEF StockInv, TypeOK
<1> QED
  BY <1>1, <1>2, RechargeSettles, SettleStrict

(* The row Hibernate writes is still what was read, or the update is       *)
(* refused.                                                                *)
LEMMA FlushStrict ==
  ASSUME StockInv, StrictInv, NEW t \in Threads, Flush(t)
  PROVE  StrictInv'
<1>0. NextWrite(t) \in DOMAIN saved[t] /\ DOMAIN saved[t] \subseteq AccountRows
  BY NextWriteFacts DEF Flush, StockInv, TypeOK, BizTypeOK
<1>1. PICK row \in DOMAIN saved[t] : row = NextWrite(t)
  BY <1>0
<1>2. /\ pc[t] \in {"status", "commit"} /\ Update(t, row, saved[t][row], FALSE)
      /\ saved' = [saved EXCEPT ![t] = Restrict(@, DOMAIN @ \ {row})]
      /\ UNCHANGED <<pc, seen, kind, who, todo, pin, pout, outflow, inflow>>
  BY <1>1 DEF Flush, requestVars, workVars, bookVars
<1>3. /\ row \in AccountRows /\ row \in Rows /\ row \notin ProductRows
      /\ saved[t][row] \in Int /\ committed[row] \in Int
  BY <1>0, ProductRowFacts, UserFacts DEF StockInv, TypeOK, BizTypeOK, DatabaseTypeOK
<1>4. conf' = conf /\ committed' = committed
  BY <1>2 DEF Update
<1>5. /\ DOMAIN saved'[t] = DOMAIN saved[t] \ {row}
      /\ \A r \in DOMAIN saved'[t] : saved'[t][r] = saved[t][r]
      /\ \A v \in Threads \ {t} : saved'[v] = saved[v]
  BY <1>2 DEF Restrict, StockInv, TypeOK, BizTypeOK
<1>6. OthersRest(t) /\ \A u \in Users : Net(t, u)' = Net(t, u)
  BY <1>2, <1>5 DEF OthersRest, Net
<1> SUFFICES ASSUME Strict
             PROVE  /\ RowsGuarded' /\ Elsewhere(t) /\ ClearedStay(t)
                    /\ AccountsBalance' /\ VersionsInRange' /\ ThreadStrict(t)'
  BY <1>4, <1>6, StrictStep
<1>7. /\ latest'[row] = saved[t][row] /\ holder'[row] = t
      /\ \A r \in Rows : r # row => latest'[r] = latest[r] /\ holder'[r] = holder[r]
  BY <1>2, <1>3 DEF Update, StockInv, TypeOK, DatabaseTypeOK
<1>8. RowsGuarded' /\ Elsewhere(t) /\ Ongoing(t)
  BY <1>2, <1>3, OperatesGuarded DEF Operates, StrictInv, StockInv, TypeOK
<1>9. BooksEven(t) /\ pc[t] \notin ResetLabels \cup {"credit", "restock", "idle"}
  BY <1>2 DEF StrictInv, ThreadStrict, ResetLabels
<1>10. Basis(t, row) = committed[row]
  BY <1>2, <1>3 DEF Update, Conflicts, StrictInv, RowsGuarded, Basis
<1>11. \A r \in AccountRows : Change(t, r)' = Change(t, r)
  <2>1. Change(t, row)' = Change(t, row)
    BY <1>4, <1>5, <1>7, <1>10 DEF Change
  <2>2. ASSUME NEW r \in AccountRows, r # row PROVE Change(t, r)' = Change(t, r)
    <3>1. r \in Rows /\ Basis(t, r)' = Basis(t, r)
      BY <1>8, UserFacts DEF Ongoing
    <3> QED
      BY <1>4, <1>5, <1>7, <2>2, <3>1 DEF Change
  <2> QED
    BY <2>1, <2>2
<1>12. Ahead(t)' = Ahead(t)
  BY <1>2 DEF Ahead, Account
<1>13. BooksEven(t)'
  <2>1. \A r \in DOMAIN saved'[t] : Guarded(t, r)'
    BY <1>0, <1>5, <1>8, <1>9, UserFacts DEF BooksEven, Ongoing
  <2>2. \A u \in Users : Net(t, u)' = Change(t, CashRow(u))' + Change(t, CreditRow(u))'
    BY <1>6, <1>9, <1>11, RowFacts DEF BooksEven
  <2>3. \A u \in Ahead(t)' : \A r \in AccountsOf(u) : holder'[r] # t /\ r \notin DOMAIN saved'[t]
    BY <1>5, <1>7, <1>9, <1>12, AheadUsers, UserFacts DEF BooksEven
  <2>4. pc'[t] \in Ends \cup {"status"} /\ pc'[t] # "credit"
    BY <1>2 DEF Ends
  <2> QED
    BY <2>1, <2>2, <2>3, <2>4 DEF BooksEven, CashRead
<1>14. VersionsInRange'
  BY <1>2, <1>3, StatementRange DEF StatementInRange, StrictInv, StockInv, TypeOK
<1>15. AccountsBalance' /\ ClearedStay(t)
  BY <1>2, <1>4 DEF AccountsBalance, StrictInv, ClearedStay
<1> QED
  BY <1>2, <1>8, <1>9, <1>13, <1>14, <1>15
     DEF ThreadStrict, ResetEven, UserReset, StockRead, ViewTaken, Apart

-----------------------------------------------------------------------------
(* The end of a transaction. *)

LEMMA EndStrict ==
  ASSUME StockInv, StrictInv, NEW t \in Threads,
         CommitTransaction(t) \/ RollbackTransaction(t), Clear(t),
         pc'[t] \in {"idle", "lockUser"},
         \A v \in Threads \ {t} : /\ pc'[v] = pc[v] /\ kind'[v] = kind[v]
                                 /\ who'[v] = who[v] /\ todo'[v] = todo[v],
         Strict => AccountsBalance' /\ ClearedStay(t)
  PROVE  StrictInv'
<1>1. /\ saved'[t] = NothingSaved
      /\ \A v \in Threads \ {t} : seen'[v] = seen[v] /\ saved'[v] = saved[v]
  BY DEF Clear, StockInv, TypeOK, BizTypeOK
<1>2. /\ \A v \in Threads \ {t} : pin'[v] = pin[v] /\ pout'[v] = pout[v]
      /\ \A r \in Rows : pin'[t][r] = 0 /\ pout'[t][r] = 0
  BY ClearFacts DEF StockInv, TypeOK
<1>3. OthersRest(t) /\ conf' = conf
  BY <1>1, <1>2 DEF OthersRest, Net, CommitTransaction, RollbackTransaction
<1> SUFFICES ASSUME Strict
             PROVE  /\ RowsGuarded' /\ Elsewhere(t) /\ VersionsInRange' /\ ThreadStrict(t)'
  BY <1>3, StrictStep
<1>4. /\ RowsGuarded' /\ Elsewhere(t)
      /\ view'[t] = NoView /\ \A r \in Rows : holder'[r] # t
  BY EndGuarded DEF StrictInv, StockInv, TypeOK
<1>5. VersionsInRange'
  BY StatementRange DEF StatementInRange, StrictInv, StockInv, TypeOK
<1>6. BooksEven(t)'
  <2>1. DOMAIN saved'[t] = {}
    BY <1>1 DEF NothingSaved
  <2>2. \A u \in Users : Net(t, u)' = 0
    BY <1>2, UserFacts DEF Net
  <2>3. \A u \in Users : Change(t, CashRow(u))' = 0 /\ Change(t, CreditRow(u))' = 0
    BY <1>4, <2>1, UserFacts DEF Change
  <2>4. Ahead(t)' = Users
    BY DEF Ahead, Ends
  <2> QED
    BY <1>1, <1>4, <2>1, <2>2, <2>3, <2>4, UserFacts DEF BooksEven, CashRead
<1>7. ResetEven(t)' /\ StockRead(t)' /\ ViewTaken(t)'
  BY <1>4 DEF ResetEven, UserReset, StockRead, ViewTaken, ResetLabels
<1> QED
  BY <1>4, <1>5, <1>6, <1>7 DEF ThreadStrict

(* A reset that cleared the trades owns all the accounts. *)
LEMMA ClearedOwnsAll ==
  ASSUME NEW v \in Threads, ResetEven(v), pc[v] \in {"clearLogs", "resetCommit"}, NEW u \in Users
  PROVE  /\ \A r \in AccountsOf(u) : holder[r] = v /\ latest[r] = InitialRow(r)
         /\ Net(v, u) = outflow[UserRow(u)] - inflow[UserRow(u)]
<1>1. pc[v] \in ResetLabels \ {"resetRollback"}
  BY DEF ResetLabels
<1> QED
  BY <1>1 DEF ResetEven, UserReset, AccountsOf

(* The trades of an operation and its accounts are committed together; a   *)
(* reset commits full accounts and no trades.                              *)
LEMMA CommitStrict ==
  ASSUME StockInv, StrictInv, NEW t \in Threads, Commit(t)
  PROVE  StrictInv'
<1>1. /\ CommitTransaction(t) /\ Clear(t) /\ Answer(t)
      /\ outflow' = [r \in Rows |-> outflow[r] + pout[t][r]]
      /\ inflow'  = [r \in Rows |-> inflow[r] + pin[t][r]]
      /\ \/ pc[t] = "commit" /\ saved[t] = NothingSaved
         \/ pc[t] = "resetCommit"
  BY DEF Commit, CommitBiz, CommitReset
<1>2. \A r \in Rows : committed'[r] = IF holder[r] = t THEN latest[r] ELSE committed[r]
  BY <1>1 DEF CommitTransaction
<1>3. \A u \in Users :
        /\ outflow'[UserRow(u)] = outflow[UserRow(u)] + pout[t][UserRow(u)]
        /\ inflow'[UserRow(u)] = inflow[UserRow(u)] + pin[t][UserRow(u)]
        /\ outflow[UserRow(u)] \in Int /\ inflow[UserRow(u)] \in Int
        /\ pout[t][UserRow(u)] \in Int /\ pin[t][UserRow(u)] \in Int
        /\ committed[CashRow(u)] \in Int /\ committed[CreditRow(u)] \in Int
        /\ latest[CashRow(u)] \in Int /\ latest[CreditRow(u)] \in Int
        /\ CashInit \in Int /\ CreditInit \in Int
  BY <1>1, UserFacts, TablesAssumption DEF StockInv, TypeOK, BizTypeOK, DatabaseTypeOK
<1>4. ASSUME Strict, NEW u \in Users, pc[t] = "commit"
      PROVE  Net(t, u) = (committed'[CashRow(u)] - committed[CashRow(u)])
                          + (committed'[CreditRow(u)] - committed[CreditRow(u)])
  <2>1. BooksEven(t) /\ pc[t] \notin ResetLabels /\ saved[t] = NothingSaved
    BY <1>1, <1>4 DEF StrictInv, ThreadStrict, ResetLabels
  <2>2. \A r \in AccountsOf(u) : Change(t, r) = committed'[r] - committed[r]
    BY <1>2, <1>3, <2>1, UserFacts DEF Change, NothingSaved, AccountsOf
  <2> QED
    BY <2>1, <2>2 DEF BooksEven, AccountsOf
<1>5. ASSUME Strict, NEW u \in Users, pc[t] = "resetCommit"
      PROVE  /\ committed'[CashRow(u)] = CashInit /\ committed'[CreditRow(u)] = CreditInit
             /\ Net(t, u) = outflow[UserRow(u)] - inflow[UserRow(u)]
  <2>1. /\ \A r \in AccountsOf(u) : holder[r] = t /\ latest[r] = InitialRow(r)
        /\ Net(t, u) = outflow[UserRow(u)] - inflow[UserRow(u)]
    BY <1>5, ClearedOwnsAll DEF StrictInv, ThreadStrict
  <2>2. InitialRow(CashRow(u)) = CashInit /\ InitialRow(CreditRow(u)) = CreditInit
    BY DEF InitialRow, CashRow, CreditRow
  <2> QED
    BY <1>2, <2>1, <2>2, UserFacts DEF AccountsOf
<1>6. ASSUME Strict PROVE AccountsBalance'
  <2> SUFFICES ASSUME NEW u \in Users
               PROVE  CashInit + CreditInit + inflow'[UserRow(u)]
                        = committed'[CashRow(u)] + committed'[CreditRow(u)] + outflow'[UserRow(u)]
    BY DEF AccountsBalance
  <2>1. CashInit + CreditInit + inflow[UserRow(u)]
          = committed[CashRow(u)] + committed[CreditRow(u)] + outflow[UserRow(u)]
    BY <1>6 DEF StrictInv, AccountsBalance
  <2>2. committed'[CashRow(u)] \in Int /\ committed'[CreditRow(u)] \in Int
    BY <1>2, <1>3, UserFacts
  <2>3. CASE pc[t] = "commit"
    <3>1. pin[t][UserRow(u)] - pout[t][UserRow(u)]
            = (committed'[CashRow(u)] - committed[CashRow(u)])
               + (committed'[CreditRow(u)] - committed[CreditRow(u)])
      BY <1>4, <1>6, <2>3 DEF Net
    <3>2. committed'[CashRow(u)] + committed'[CreditRow(u)]
            = committed[CashRow(u)] + committed[CreditRow(u)]
                + pin[t][UserRow(u)] - pout[t][UserRow(u)]
      BY <1>3, <2>2, <3>1
    <3> QED
      BY <1>3, <2>1, <3>2
  <2>4. CASE pc[t] = "resetCommit"
    BY <1>3, <1>5, <1>6, <2>4 DEF Net
  <2> QED
    BY <1>1, <2>3, <2>4
<1>7. ASSUME Strict PROVE ClearedStay(t)
  <2> SUFFICES ASSUME NEW v \in Threads \ {t}, NEW u \in Users,
                      pc[v] \in {"clearLogs", "resetCommit"}
               PROVE  outflow'[UserRow(u)] - inflow'[UserRow(u)]
                        = outflow[UserRow(u)] - inflow[UserRow(u)]
    BY DEF ClearedStay
  <2>1. \A r \in AccountsOf(u) : holder[r] = v
    BY <1>7, ClearedOwnsAll DEF StrictInv, ThreadStrict
  <2>2. pc[t] # "resetCommit"
    <3>1. pc[t] = "resetCommit" => \A r \in AccountsOf(u) : holder[r] = t
      BY <1>7, ClearedOwnsAll DEF StrictInv, ThreadStrict
    <3> QED
      BY <2>1, <3>1 DEF AccountsOf
  <2>3. /\ committed'[CashRow(u)] = committed[CashRow(u)]
        /\ committed'[CreditRow(u)] = committed[CreditRow(u)]
    BY <1>2, <2>1, UserFacts DEF AccountsOf
  <2>4. Net(t, u) = 0
    <3>1. Net(t, u) = (committed'[CashRow(u)] - committed[CashRow(u)])
                       + (committed'[CreditRow(u)] - committed[CreditRow(u)])
      BY <1>1, <1>4, <1>7, <2>2
    <3> QED
      BY <1>3, <2>3, <3>1
  <2> QED
    BY <1>3, <2>4 DEF Net
<1> QED
  BY <1>1, <1>6, <1>7, AnswerFacts, EndStrict

LEMMA RollbackStrict ==
  ASSUME StockInv, StrictInv, NEW t \in Threads, GiveUp(t) \/ Retry(t)
  PROVE  StrictInv'
<1>1. /\ RollbackTransaction(t) /\ Clear(t) /\ UNCHANGED <<outflow, inflow>>
      /\ Answer(t) \/ Retry(t)
  BY DEF GiveUp, Retry, RollbackBiz, RollbackReset, bookVars
<1>2. /\ pc'[t] \in {"idle", "lockUser"}
      /\ \A v \in Threads \ {t} : /\ pc'[v] = pc[v] /\ kind'[v] = kind[v]
                                  /\ who'[v] = who[v] /\ todo'[v] = todo[v]
  <2>1. CASE Answer(t)
    BY <2>1, AnswerFacts
  <2>2. CASE Retry(t)
    <3>1. /\ pc' = [pc EXCEPT ![t] = "lockUser"] /\ todo' = [todo EXCEPT ![t] = who[t]]
          /\ UNCHANGED <<kind, who>>
      BY <2>2 DEF Retry, Retries, FirstStep, requestVars
    <3> QED
      BY <3>1 DEF StockInv, TypeOK, BizTypeOK
  <2> QED
    BY <1>1, <2>1, <2>2
<1>3. Strict => AccountsBalance' /\ ClearedStay(t)
  BY <1>1 DEF RollbackTransaction, StrictInv, AccountsBalance, ClearedStay
<1> QED
  BY <1>1, <1>2, <1>3, EndStrict

-----------------------------------------------------------------------------
(* A request starts with nothing: what it is at holds no account. *)
LEMMA StartsEven ==
  ASSUME StrictInv, Strict, NEW t \in Threads, pc[t] = "idle"
  PROVE  /\ view[t] = NoView /\ saved[t] = NothingSaved
         /\ \A u \in Users : Net(t, u) = 0 /\ \A r \in AccountsOf(u) : holder[r] # t
<1>1. BooksEven(t) /\ ViewTaken(t) /\ pc[t] \notin ResetLabels
  BY DEF StrictInv, ThreadStrict, ResetLabels
<1>2. Ahead(t) = Users /\ saved[t] = NothingSaved /\ view[t] = NoView
  BY <1>1 DEF Ahead, Ends, BooksEven, ViewTaken, Apart
<1>3. \A u \in Users : Change(t, CashRow(u)) = 0 /\ Change(t, CreditRow(u)) = 0
  BY <1>1, <1>2 DEF BooksEven, Change, AccountsOf
<1> QED
  BY <1>1, <1>2, <1>3 DEF BooksEven

LEMMA ExecuteStrict ==
  ASSUME StockInv, StrictInv, NEW t \in Threads, Execute(t)
  PROVE  StrictInv'
<1>1. PICK k, S :
        /\ kind' = [kind EXCEPT ![t] = k]
        /\ who'  = [who EXCEPT ![t] = S]
        /\ todo' = [todo EXCEPT ![t] = FirstIds(k, S)]
        /\ pc'   = [pc EXCEPT ![t] = FirstStep(k)]
  BY DEF Execute
<1>2. /\ pc[t] = "idle"
      /\ UNCHANGED <<dbVars, seen, saved, batch, pin, pout, outflow, inflow>>
  BY DEF Execute, workVars, pendingVars, bookVars
<1>3. /\ kind'[t] = k /\ todo'[t] = FirstIds(k, S) /\ pc'[t] = FirstStep(k)
      /\ \A v \in Threads \ {t} : /\ pc'[v] = pc[v] /\ kind'[v] = kind[v]
                                  /\ who'[v] = who[v] /\ todo'[v] = todo[v]
  BY <1>1 DEF StockInv, TypeOK, BizTypeOK
<1>4. OthersRest(t) /\ conf' = conf /\ AccountsStill /\ Operates(t)
  BY <1>2, <1>3 DEF OthersRest, Net, dbVars, AccountsStill, Operates
<1>5. \A u \in Users : Net(t, u)' = Net(t, u)
  BY <1>2 DEF Net
<1>6. Strict => VersionsInRange'
  BY <1>2 DEF StrictInv, VersionsInRange, dbVars
<1>7. CASE k # "reset"
  <2>1. pc'[t] \in {"lockUser", "find"}
    BY <1>3, <1>7 DEF FirstStep
  <2>2. Ahead(t) = Users /\ Ahead(t)' = Users /\ pc[t] \notin ResetLabels \cup Ends \cup {"status"}
    BY <1>2, <2>1 DEF Ahead, Ends, ResetLabels
  <2>3. Strict => saved[t] = NothingSaved
    BY <1>2, StartsEven
  <2>4. pc'[t] \notin Apart \cup {"credit", "restock"}
    BY <2>1 DEF Apart, ResetLabels
  <2> QED
    BY <1>2, <1>4, <1>5, <1>6, <2>2, <2>3, <2>4, AsideStrict DEF StockRead
<1>8. CASE k = "reset"
  <2> SUFFICES ASSUME Strict
               PROVE  /\ RowsGuarded' /\ Elsewhere(t) /\ ClearedStay(t)
                      /\ AccountsBalance' /\ VersionsInRange' /\ ThreadStrict(t)'
    BY <1>4, StrictStep
  <2>1. RowsGuarded' /\ Elsewhere(t)
    BY <1>4, OperatesGuarded DEF StrictInv, StockInv, TypeOK
  <2>2. pc'[t] = "resetCash" /\ todo'[t] = Users
    BY <1>3, <1>8 DEF FirstStep, FirstIds
  <2>3. /\ view'[t] = NoView
        /\ \A u \in Users : Net(t, u)' = 0 /\ \A r \in AccountsOf(u) : holder'[r] # t
    BY <1>2, <1>5, StartsEven DEF dbVars
  <2>4. ThreadStrict(t)'
    BY <2>2, <2>3
       DEF ThreadStrict, BooksEven, ResetEven, UserReset, StockRead, ViewTaken, ResetLabels,
           AccountsOf
  <2>5. AccountsBalance' /\ ClearedStay(t)
    BY <1>2 DEF StrictInv, AccountsBalance, ClearedStay, dbVars
  <2> QED
    BY <1>6, <2>1, <2>4, <2>5
<1> QED
  BY <1>7, <1>8

(* A reset waits for every row it sets back, and keeps it. *)
LEMMA ResetRowStrict ==
  ASSUME StockInv, StrictInv, NEW t \in Threads, ResetRow(t)
  PROVE  StrictInv'
<1>1. PICK id \in todo[t] :
        LET r == ResetTable(pc[t], id)
        IN /\ UpdateBlockers(t, r) = {}
           /\ latest' = [latest EXCEPT ![r] = InitialRow(r)]
           /\ holder' = [holder EXCEPT ![r] = t]
           /\ IF todo[t] = {id}
              THEN /\ pc'   = [pc EXCEPT ![t] = NextUpdate(@)]
                   /\ todo' = [todo EXCEPT ![t] = NextIdsOf(pc[t])]
              ELSE /\ todo' = [todo EXCEPT ![t] = @ \ {id}]
                   /\ UNCHANGED pc
  BY DEF ResetRow
<1>2. /\ pc[t] \in UpdateLabels
      /\ UNCHANGED <<conf, committed, shared, view, missed, kind, who, seen, saved,
                     pin, pout, outflow, inflow>>
  BY DEF ResetRow, requestVars, workVars, pendingVars, bookVars
<1>3. /\ ResetTable(pc[t], id) \in Rows
      /\ pc[t] \in {"resetCash", "resetCredit"} => id \in Users /\ todo[t] \subseteq Users
  BY <1>2, ResetTableFacts DEF StockInv, WorkOK, ThreadOK
<1>4. PICK r \in Rows : r = ResetTable(pc[t], id)
  BY <1>3
<1>5. /\ SetsBack(t, r)
      /\ \A v \in Threads \ {t} : pc'[v] = pc[v] /\ todo'[v] = todo[v]
      /\ \/ pc'[t] = pc[t] /\ todo'[t] = todo[t] \ {id}
         \/ pc[t] = "resetCash" /\ pc'[t] = "resetCredit" /\ todo'[t] = Users /\ todo[t] = {id}
         \/ pc[t] = "resetCredit" /\ pc'[t] = "resetProduct" /\ todo[t] = {id}
         \/ pc[t] = "resetProduct" /\ pc'[t] = "clearBills"
  BY <1>1, <1>2, <1>4
     DEF SetsBack, UpdateLabels, NextUpdate, NextIdsOf, StockInv, TypeOK, BizTypeOK
<1>6. OthersRest(t) /\ \A u \in Users : Net(t, u)' = Net(t, u)
  BY <1>2, <1>5 DEF OthersRest, Net
<1> SUFFICES ASSUME Strict
             PROVE  /\ RowsGuarded' /\ Elsewhere(t) /\ ClearedStay(t)
                    /\ AccountsBalance' /\ VersionsInRange' /\ ThreadStrict(t)'
  BY <1>2, <1>6, StrictStep
<1>7. view[t] = NoView /\ pc[t] \in ResetLabels \ {"resetRollback"} /\ ResetEven(t)
  BY <1>2 DEF StrictInv, ThreadStrict, ViewTaken, Apart, ResetLabels, UpdateLabels
<1>8. RowsGuarded' /\ Elsewhere(t)
  BY <1>5, <1>7, WriteGuarded DEF SetsBack, StrictInv, StockInv, TypeOK
<1>9. /\ holder'[r] = t /\ latest'[r] = InitialRow(r)
      /\ \A s \in Rows : s # r => holder'[s] = holder[s] /\ latest'[s] = latest[s]
  BY <1>5 DEF SetsBack, StockInv, TypeOK, DatabaseTypeOK
<1>10. VersionsInRange'
  <2>1. \A s \in ProductRows : InitialRow(s) = ProductStockMax
    BY DEF ProductRows, ProductRow, InitialRow
  <2>2. ProductStockMax \in StockRange
    BY TablesAssumption DEF StockRange
  <2> QED
    BY <1>2, <1>9, <2>1, <2>2, ProductRowFacts DEF StrictInv, VersionsInRange
<1>11. ASSUME NEW u \in Users PROVE
         /\ \A s \in AccountsOf(u) : holder'[s] = t => latest'[s] = InitialRow(s)
         /\ \A s \in AccountsOf(u) : holder[s] = t => holder'[s] = t
         /\ pc[t] = "resetCash" /\ u = id => holder'[CashRow(u)] = t
         /\ pc[t] = "resetCredit" /\ u = id => holder'[CreditRow(u)] = t
  <2>1. /\ pc[t] = "resetCash" /\ u = id => r = CashRow(u)
        /\ pc[t] = "resetCredit" /\ u = id => r = CreditRow(u)
    BY <1>4 DEF ResetTable
  <2> QED
    BY <1>7, <1>9, <2>1, UserFacts DEF ResetEven, UserReset
<1>12. ResetEven(t)'
  <2> SUFFICES ASSUME NEW u \in Users
               PROVE  /\ pc'[t] # "resetCash" \/ u \notin todo'[t] => holder'[CashRow(u)] = t
                      /\ \/ pc'[t] \notin {"resetCash", "resetCredit"}
                         \/ pc'[t] = "resetCredit" /\ u \notin todo'[t]
                         => holder'[CreditRow(u)] = t
                      /\ Net(t, u)' = 0
    BY <1>2, <1>5, <1>11 DEF ResetEven, UserReset, UpdateLabels
  <2>1. Net(t, u)' = 0
    BY <1>2, <1>6, <1>7 DEF ResetEven, UserReset, UpdateLabels
  <2>2. pc[t] # "resetCash" \/ u \notin todo[t] => holder[CashRow(u)] = t
    BY <1>7 DEF ResetEven, UserReset
  <2>3. pc[t] = "resetProduct" \/ (pc[t] = "resetCredit" /\ u \notin todo[t])
        => holder[CreditRow(u)] = t
    BY <1>7 DEF ResetEven, UserReset
  <2> QED
    BY <1>2, <1>5, <1>11, <2>1, <2>2, <2>3 DEF AccountsOf, UpdateLabels
<1>13. ThreadStrict(t)'
  BY <1>2, <1>5, <1>7, <1>12
     DEF ThreadStrict, BooksEven, StockRead, ViewTaken, ResetLabels, UpdateLabels
<1> QED
  BY <1>2, <1>8, <1>10, <1>13 DEF AccountsBalance, StrictInv, ClearedStay

(* It clears the trades when it holds all the accounts. *)
LEMMA ClearStrict ==
  ASSUME StockInv, StrictInv, NEW t \in Threads, Clears(t)
  PROVE  StrictInv'
<1>1. /\ UNCHANGED <<dbVars, kind, who, todo, seen, saved, outflow, inflow>>
      /\ pc[t] \in ResetLabels
      /\ \/ /\ pc[t] \in SourceLabels /\ pc' = [pc EXCEPT ![t] = NextClear(@)]
            /\ pin' = pin /\ pout' = pout
         \/ /\ pc[t] = "clearItems" /\ pc' = [pc EXCEPT ![t] = "clearOrders"]
            /\ pout' = [pout EXCEPT ![t] = Reversed(@, outflow, ProductRows)] /\ pin' = pin
         \/ /\ pc[t] = "clearTrades" /\ pc' = [pc EXCEPT ![t] = "clearLogs"]
            /\ pout' = [pout EXCEPT ![t] = Reversed(@, outflow, UserRows)]
            /\ pin'  = [pin EXCEPT ![t] = Reversed(@, inflow, UserRows)]
         \/ /\ pc[t] = "clearLogs" /\ pc' = [pc EXCEPT ![t] = "resetCommit"]
            /\ pin' = [pin EXCEPT ![t] = Reversed(@, inflow, ProductRows)] /\ pout' = pout
         \/ pc' = [pc EXCEPT ![t] = "resetRollback"] /\ pin' = pin /\ pout' = pout
  BY DEF Clears, ClearSources, ClearItems, ClearTrades, ClearLogs, ResetFails, SourceLabels,
         requestVars, workVars, pendingVars, bookVars, ResetLabels
<1>2. /\ pin \in [Threads -> [Rows -> Int]] /\ pout \in [Threads -> [Rows -> Int]]
      /\ outflow \in [Rows -> Int] /\ inflow \in [Rows -> Int]
      /\ pc \in [Threads -> Labels]
      /\ ProductRows \subseteq Rows /\ UserRows \subseteq Rows
  BY ProductRowFacts DEF StockInv, TypeOK, BizTypeOK, Rows
<1>3. /\ pc'[t] \in ResetLabels
      /\ \A v \in Threads \ {t} : pc'[v] = pc[v] /\ pin'[v] = pin[v] /\ pout'[v] = pout[v]
  BY ClearsFacts
<1>4. OthersRest(t) /\ conf' = conf /\ Operates(t)
  BY <1>1, <1>3 DEF OthersRest, Net, dbVars, Operates
<1> SUFFICES ASSUME Strict
             PROVE  /\ RowsGuarded' /\ Elsewhere(t) /\ ClearedStay(t)
                    /\ AccountsBalance' /\ VersionsInRange' /\ ThreadStrict(t)'
  BY <1>4, StrictStep
<1>5. RowsGuarded' /\ Elsewhere(t)
  BY <1>4, OperatesGuarded DEF StrictInv, StockInv, TypeOK
<1>6. ClearedStay(t) /\ AccountsBalance' /\ VersionsInRange'
  BY <1>1 DEF StrictInv, ClearedStay, AccountsBalance, VersionsInRange, dbVars
<1>7. ResetEven(t) /\ view[t] = NoView
  BY <1>1 DEF StrictInv, ThreadStrict, ViewTaken, Apart
<1>8. ASSUME NEW u \in Users, pc'[t] # "resetRollback"
      PROVE  Net(t, u)' = IF pc'[t] \in {"clearLogs", "resetCommit"}
                          THEN outflow[UserRow(u)] - inflow[UserRow(u)] ELSE 0
  <2>1. UserRow(u) \in UserRows /\ UserRow(u) \in Rows /\ UserRow(u) \notin ProductRows
    BY UserFacts DEF UserRows
  <2>2. pc[t] # "resetRollback"
    BY <1>1, <1>2, <1>8 DEF SourceLabels
  <2>3. Net(t, u) = IF pc[t] \in {"clearLogs", "resetCommit"}
                    THEN outflow[UserRow(u)] - inflow[UserRow(u)] ELSE 0
    BY <1>1, <1>7, <2>2 DEF ResetEven, UserReset
  <2>4. CASE /\ pc[t] \in SourceLabels
             /\ pc'[t] \in {"clearItems", "clearRecharges", "clearTrades"}
             /\ pin' = pin /\ pout' = pout
    BY <2>3, <2>4 DEF Net, SourceLabels
  <2>5. CASE pc[t] = "clearItems" /\ pc'[t] = "clearOrders"
    <3>1. pout'[t][UserRow(u)] = pout[t][UserRow(u)] /\ pin'[t] = pin[t]
      BY <1>1, <1>2, <2>1, <2>5 DEF Reversed
    <3> QED
      BY <2>3, <2>5, <3>1 DEF Net
  <2>6. CASE pc[t] = "clearTrades" /\ pc'[t] = "clearLogs"
    <3>1. pout'[t][UserRow(u)] = -outflow[UserRow(u)] /\ pin'[t][UserRow(u)] = -inflow[UserRow(u)]
      BY <1>1, <1>2, <2>1, <2>6 DEF Reversed, SourceLabels
    <3> QED
      BY <1>2, <2>1, <2>6, <3>1 DEF Net
  <2>7. CASE pc[t] = "clearLogs" /\ pc'[t] = "resetCommit"
    <3>1. pin'[t][UserRow(u)] = pin[t][UserRow(u)] /\ pout'[t] = pout[t]
      BY <1>1, <1>2, <2>1, <2>7 DEF Reversed
    <3> QED
      BY <2>3, <2>7, <3>1 DEF Net
  <2> QED
    BY <1>1, <1>2, <1>8, <2>4, <2>5, <2>6, <2>7 DEF SourceLabels, NextClear
<1>9. ResetEven(t)'
  <2> SUFFICES ASSUME pc'[t] # "resetRollback" PROVE ResetEven(t)'
    BY DEF ResetEven, UserReset
  <2>1. /\ pc[t] \in SourceLabels \cup {"clearItems", "clearTrades", "clearLogs"}
        /\ pc'[t] \in SourceLabels \cup {"clearItems", "clearTrades", "clearLogs", "resetCommit"}
    BY <1>1, <1>2 DEF SourceLabels, NextClear
  <2>2. pc[t] \in ResetLabels \ {"resetRollback"}
    BY <2>1 DEF ResetLabels, SourceLabels
  <2>3. \A u \in Users : /\ \A r \in AccountsOf(u) : holder[r] = t => latest[r] = InitialRow(r)
                         /\ holder[CashRow(u)] = t /\ holder[CreditRow(u)] = t
    BY <1>7, <2>1, <2>2 DEF ResetEven, UserReset, SourceLabels
  <2> QED
    BY <1>1, <1>8, <2>1, <2>3 DEF ResetEven, UserReset, SourceLabels, dbVars
<1>10. ThreadStrict(t)'
  BY <1>1, <1>3, <1>7, <1>9
     DEF ThreadStrict, BooksEven, StockRead, ViewTaken, ResetLabels, dbVars
<1> QED
  BY <1>5, <1>6, <1>10

LEMMA UnchangedStrict ==
  ASSUME StrictInv, Expire \/ Quiet \/ UNCHANGED vars
  PROVE  StrictInv'
<1>1. UNCHANGED <<dbVars, pc, kind, who, todo, seen, saved, pin, pout, outflow, inflow>>
  BY DEF Expire, Quiet, vars, requestVars, workVars, pendingVars, bookVars
<1>2. /\ (Strict' <=> Strict) /\ (SharedHeld' <=> SharedHeld)
      /\ (FirstUpdaterWins' <=> FirstUpdaterWins)
  BY <1>1, LevelsKept DEF dbVars
<1>3. RowsGuarded /\ AccountsBalance /\ VersionsInRange
        => (RowsGuarded /\ AccountsBalance /\ VersionsInRange)'
  BY <1>1, <1>2 DEF dbVars, RowsGuarded, AccountsBalance, VersionsInRange
<1>4. ASSUME NEW t \in Threads, ThreadStrict(t) PROVE ThreadStrict(t)'
  <2>1. /\ \A r : (Guarded(t, r)' <=> Guarded(t, r)) /\ Basis(t, r)' = Basis(t, r)
        /\ \A r : Change(t, r)' = Change(t, r)
        /\ \A u : Net(t, u)' = Net(t, u)
    BY <1>1, <1>2 DEF dbVars, Guarded, Basis, Change, Net
  <2>2. Ahead(t)' = Ahead(t) /\ Account(t)' = Account(t)
    BY <1>1 DEF Ahead, Account
  <2>3. BooksEven(t)'
    BY <1>1, <1>4, <2>1, <2>2 DEF dbVars, ThreadStrict, BooksEven, CashRead
  <2>4. ResetEven(t)'
    BY <1>1, <1>4, <2>1 DEF dbVars, ThreadStrict, ResetEven, UserReset
  <2>5. StockRead(t)' /\ ViewTaken(t)'
    BY <1>1, <1>4, <2>1 DEF dbVars, ThreadStrict, StockRead, ViewTaken
  <2> QED
    BY <2>3, <2>4, <2>5 DEF ThreadStrict
<1> QED
  BY <1>2, <1>3, <1>4 DEF StrictInv

-----------------------------------------------------------------------------
(* A usage bill stays with its user. *)
LEMMA OthersOne ==
  ASSUME OneUsers, NEW t \in Threads, OneUser(t)',
         \A v \in Threads \ {t} : /\ pc'[v] = pc[v] /\ kind'[v] = kind[v]
                                  /\ who'[v] = who[v] /\ todo'[v] = todo[v]
  PROVE  OneUsers'
BY DEF OneUsers, OneUser

(* ... when it goes on with the same users ... *)
LEMMA SameOne ==
  ASSUME OneUsers, NEW t \in Threads, UNCHANGED <<kind, who>>,
         \A v \in Threads \ {t} : pc'[v] = pc[v] /\ todo'[v] = todo[v],
         \/ kind[t] # "usage"
         \/ pc'[t] \notin AccountSteps \cup {"lockUser"}
         \/ pc[t] \in AccountSteps \cup {"lockUser"} /\ todo'[t] = todo[t]
         \/ todo'[t] = who[t]
  PROVE  OneUsers'
<1>1. OneUser(t)'
  BY DEF OneUsers, OneUser
<1> QED
  BY <1>1, OthersOne

(* ... takes the lock of the one user it has ... *)
LEMMA LockUserOne ==
  ASSUME StockInv, OneUsers, NEW t \in Threads, LockUser(t)
  PROVE  OneUsers'
<1>1. PICK u \in todo[t] :
        IF todo[t] = {u}
        THEN /\ todo' = [todo EXCEPT ![t] = who[t]]
             /\ Goto(t, IF kind[t] = "package" THEN "cart" ELSE "source")
        ELSE /\ todo' = [todo EXCEPT ![t] = @ \ {u}]
             /\ UNCHANGED <<pc, outcome>>
  BY DEF LockUser, NextIds
<1>2. pc[t] = "lockUser" /\ UNCHANGED <<kind, who>>
  BY DEF LockUser, requestVars
<1>3. kind[t] = "usage" => todo[t] = {u}
  BY <1>1, <1>2 DEF OneUsers, OneUser
<1>4. /\ \A v \in Threads \ {t} : pc'[v] = pc[v] /\ todo'[v] = todo[v]
      /\ todo[t] = {u} => todo'[t] = who[t]
  BY <1>1 DEF Goto, StockInv, TypeOK, BizTypeOK
<1> QED
  BY <1>2, <1>3, <1>4, SameOne

(* ... and is done after its one bill. *)
LEMMA StatusOne ==
  ASSUME StockInv, OneUsers, NEW t \in Threads, UpdateStatusCode(t)
  PROVE  OneUsers'
<1>1. /\ pc[t] = "status" /\ UNCHANGED <<kind, who>>
      /\ todo' = [todo EXCEPT ![t] = @ \ {Account(t)}]
      /\ IF todo[t] = {Account(t)} THEN Leave(t, "ok") ELSE Goto(t, "source")
  BY DEF UpdateStatusCode, requestVars
<1>2. /\ \A v \in Threads \ {t} : pc'[v] = pc[v] /\ todo'[v] = todo[v]
      /\ todo[t] = {Account(t)} => pc'[t] \in {"unlock", "commit", "rollback"}
  BY <1>1, LeaveKeys, GotoPc DEF StockInv, TypeOK, BizTypeOK
<1> QED
  BY <1>1, <1>2, UsageDone, SameOne DEF AccountSteps

LEMMA ExecuteOne ==
  ASSUME StockInv, OneUsers, NEW t \in Threads, Execute(t)
  PROVE  OneUsers'
<1>0. PICK k \in Workload[conf] : \E S \in UserSets(k) :
        /\ kind' = [kind EXCEPT ![t] = k]
        /\ who'  = [who EXCEPT ![t] = S]
        /\ todo' = [todo EXCEPT ![t] = FirstIds(k, S)]
        /\ pc'   = [pc EXCEPT ![t] = FirstStep(k)]
  BY DEF Execute
<1>1. PICK S \in UserSets(k) :
        /\ kind' = [kind EXCEPT ![t] = k]
        /\ who'  = [who EXCEPT ![t] = S]
        /\ todo' = [todo EXCEPT ![t] = FirstIds(k, S)]
        /\ pc'   = [pc EXCEPT ![t] = FirstStep(k)]
  BY <1>0
<1>2. /\ kind'[t] = k /\ who'[t] = S /\ todo'[t] = FirstIds(k, S)
      /\ \A v \in Threads \ {t} : /\ pc'[v] = pc[v] /\ kind'[v] = kind[v]
                                  /\ who'[v] = who[v] /\ todo'[v] = todo[v]
  BY <1>1 DEF StockInv, TypeOK, BizTypeOK
<1>3. k = "usage" => FirstIds(k, S) = S /\ \E u \in Users : S = {u}
  BY DEF FirstIds, UserSets
<1>4. OneUser(t)'
  BY <1>2, <1>3 DEF OneUser
<1> QED
  BY <1>2, <1>4, OthersOne

LEMMA EndOne ==
  ASSUME StockInv, OneUsers, NEW t \in Threads, Commit(t) \/ GiveUp(t) \/ Retry(t)
  PROVE  OneUsers'
<1>1. CASE Answer(t)
  BY <1>1, AnswerFacts, OthersOne DEF OneUser
<1>2. CASE Retry(t)
  <2>1. /\ \E l : pc' = [pc EXCEPT ![t] = l]
        /\ todo' = [todo EXCEPT ![t] = who[t]] /\ UNCHANGED <<kind, who>>
    BY <1>2 DEF Retry, requestVars
  <2> QED
    BY <2>1, SameOne DEF StockInv, TypeOK, BizTypeOK
<1> QED
  BY <1>1, <1>2 DEF Commit, GiveUp

(* The other steps of a bill keep its user; the steps of other requests    *)
(* concern no bill.                                                        *)
LEMMA StepOne ==
  ASSUME StockInv, OneUsers, NEW t \in Threads, BizStep(t)
  PROVE  OneUsers'
<1>1. CASE LockUser(t) \/ UpdateStatusCode(t)
  BY <1>1, LockUserOne, StatusOne
<1>2. CASE Exits(t)
  <2>1. /\ UNCHANGED <<kind, who>> /\ todo' = todo
        /\ pc'[t] \in {"unlock", "commit", "rollback"}
        /\ \A v \in Threads \ {t} : pc'[v] = pc[v]
    BY <1>2, ExitFacts
  <2> QED
    BY <2>1, SameOne DEF AccountSteps
<1>3. CASE \/ FillCart(t) \/ FindInsufficient(t) \/ LockProduct(t) \/ ReadStock(t) \/ Restock(t)
           \/ DeductStock(t) \/ SkipProduct(t)
  <2>1. /\ UNCHANGED <<kind, who>>
        /\ pc[t] \in {"cart", "find", "lockProduct", "reload", "restock", "deduct"}
        /\ pc[t] \in {"cart", "find", "lockProduct", "deduct"} => kind[t] # "usage"
    BY <1>3 DEF FillCart, FindInsufficient, LockProduct, ReadStock, Restock, DeductStock,
                SkipProduct, requestVars, StockInv, WorkOK, ThreadOK
  <2>2. \A v \in Threads \ {t} : pc'[v] = pc[v] /\ todo'[v] = todo[v]
    <3>1. /\ pc' = pc \/ \E x : pc' = [pc EXCEPT ![t] = x]
          /\ todo' = todo \/ \E x : todo' = [todo EXCEPT ![t] = x]
      <4>1. CASE FillCart(t)
        BY <4>1 DEF FillCart, Goto
      <4>2. CASE FindInsufficient(t)
        BY <4>2 DEF FindInsufficient, Goto, Leave
      <4>3. CASE LockProduct(t)
        BY <4>3 DEF LockProduct, Goto
      <4>4. CASE ReadStock(t)
        BY <4>4 DEF ReadStock, Goto
      <4>5. CASE Restock(t)
        BY <4>5 DEF Restock, Goto, Leave
      <4>6. CASE DeductStock(t)
        BY <4>6 DEF DeductStock, NextItem, Goto, Leave
      <4>7. CASE SkipProduct(t)
        BY <4>7 DEF SkipProduct, NextItem, Goto, Leave
      <4> QED
        BY <1>3, <4>1, <4>2, <4>3, <4>4, <4>5, <4>6, <4>7
    <3>2. pc \in [Threads -> Labels] /\ todo \in [Threads -> SUBSET Nat]
      BY DEF StockInv, TypeOK, BizTypeOK
    <3> QED
      BY <3>1, <3>2
  <2>3. pc[t] \in {"reload", "restock"} => pc'[t] \notin AccountSteps \cup {"lockUser"}
    <3>1. ASSUME pc[t] \in {"reload", "restock"}
          PROVE  Goto(t, "reload") \/ Goto(t, "restock") \/ Leave(t, "ok")
      BY <1>3, <3>1 DEF FillCart, FindInsufficient, LockProduct, ReadStock, Restock, DeductStock,
                        SkipProduct
    <3> QED
      BY <3>1, GotoPc, LeaveKeys DEF AccountSteps, StockInv, TypeOK
  <2> QED
    BY <2>1, <2>2, <2>3, SameOne
<1>4. CASE CreateSource(t) \/ ReadCash(t) \/ PayBill(t) \/ Recharge(t) \/ Flush(t)
  <2>1. /\ UNCHANGED <<kind, who, todo>>
        /\ pc[t] \in AccountSteps \/ (pc[t] = "commit" /\ pc' = pc)
        /\ \A v \in Threads \ {t} : pc'[v] = pc[v]
    BY <1>4 DEF CreateSource, ReadCash, PayBill, Recharge, Flush, requestVars, AccountSteps,
                Goto, Leave, StockInv, TypeOK, BizTypeOK
  <2> QED
    BY <2>1, SameOne DEF AccountSteps
<1>5. CASE ResetRow(t) \/ Clears(t)
  <2>1. /\ pc'[t] \in ResetLabels /\ UNCHANGED <<kind, who>>
        /\ \A v \in Threads \ {t} : pc'[v] = pc[v] /\ todo'[v] = todo[v]
    <3>1. CASE ResetRow(t)
      BY <3>1 DEF ResetRow, UpdateLabels, NextUpdate, ResetLabels, requestVars,
                  StockInv, TypeOK, BizTypeOK
    <3> QED
      BY <1>5, <3>1, ClearsFacts
  <2> QED
    BY <2>1, SameOne DEF ResetLabels, AccountSteps
<1>6. CASE NextIdThrows(t)
  <2>1. /\ UNCHANGED <<kind, who>> /\ todo' = todo
        /\ pc'[t] \in {"unlock", "rollback"}
        /\ \A v \in Threads \ {t} : pc'[v] = pc[v]
    BY <1>6, NextIdFacts
  <2> QED
    BY <2>1, SameOne DEF AccountSteps
<1> QED
  BY <1>1, <1>2, <1>3, <1>4, <1>5, <1>6 DEF BizStep, Exits, Clears

LEMMA OneNext == StockInv /\ OneUsers /\ [Next]_vars => OneUsers'
<1> SUFFICES ASSUME StockInv, OneUsers, [Next]_vars PROVE OneUsers'
  OBVIOUS
<1>1. ASSUME NEW t \in Threads, Execute(t) \/ Work(t) PROVE OneUsers'
  BY <1>1, StepOne, ExecuteOne, EndOne DEF Work
<1>2. CASE Expire \/ Quiet \/ UNCHANGED vars
  BY <1>2 DEF Expire, Quiet, vars, requestVars, OneUsers, OneUser
<1> QED
  BY <1>1, <1>2 DEF Next

-----------------------------------------------------------------------------
LEMMA StrictInit == Init => StrictInv /\ OneUsers
<1> SUFFICES ASSUME Init PROVE StrictInv /\ OneUsers
  OBVIOUS
<1>1. CashInit \in Int /\ CreditInit \in Int /\ ProductStockMax \in StockRange
  BY TablesAssumption DEF StockRange
<1>2. /\ \A r \in Rows : holder[r] = NoThread /\ latest[r] = committed[r]
      /\ \A u \in Users : /\ committed[CashRow(u)] = CashInit
                          /\ committed[CreditRow(u)] = CreditInit
      /\ \A p \in Products : committed[ProductRow(p)] = ProductStockMax
  BY UserFacts, ProductRowFacts DEF Init, InitialRow, CashRow, CreditRow, ProductRow
<1>3. /\ \A r \in Rows : outflow[r] = 0 /\ inflow[r] = 0
      /\ \A t \in Threads, r \in Rows : pin[t][r] = 0 /\ pout[t][r] = 0
      /\ \A t \in Threads : /\ pc[t] = "idle" /\ view[t] = NoView /\ shared[t] = {}
                            /\ saved[t] = NothingSaved /\ kind[t] = "none"
  BY DEF Init, NoEntries
<1>4. RowsGuarded /\ AccountsBalance
  BY <1>1, <1>2, <1>3, UserFacts DEF RowsGuarded, AccountsBalance
<1>5. VersionsInRange
  BY <1>1, <1>2, ProductRowFacts DEF VersionsInRange, ProductRows
<1>6. ASSUME NEW t \in Threads PROVE ThreadStrict(t)
  <2>1. \A u \in Users : Net(t, u) = 0
    BY <1>3, UserFacts DEF Net
  <2>2. \A u \in Users : /\ Change(t, CashRow(u)) = 0 /\ Change(t, CreditRow(u)) = 0
                         /\ \A r \in AccountsOf(u) : holder[r] # t
    BY <1>2, <1>3, UserFacts, DatabaseAssumption DEF Change, NothingSaved
  <2>3. Ahead(t) = Users
    BY <1>3 DEF Ahead, Ends
  <2> QED
    BY <1>3, <2>1, <2>2, <2>3 DEF ThreadStrict, BooksEven, ResetEven, UserReset, StockRead,
                                  ViewTaken, CashRead, NothingSaved, ResetLabels
<1>7. OneUsers
  BY <1>3 DEF OneUsers, OneUser
<1> QED
  BY <1>4, <1>5, <1>6, <1>7 DEF StrictInv

LEMMA StrictNext == StockInv /\ OneUsers /\ StrictInv /\ [Next]_vars => StrictInv'
<1> SUFFICES ASSUME StockInv, OneUsers, StrictInv, [Next]_vars PROVE StrictInv'
  OBVIOUS
<1>1. ASSUME NEW t \in Threads, BizStep(t) PROVE StrictInv'
  <2>1. CASE LockUser(t) \/ LockProduct(t) \/ FillCart(t) \/ FindInsufficient(t)
    BY <2>1, LockStrict, ChooseStrict
  <2>2. CASE Exits(t) \/ NextIdThrows(t)
    BY <2>2, LeaveStrict, NextIdStrict
  <2>3. CASE CreateSource(t) \/ DeductStock(t) \/ SkipProduct(t) \/ ReadStock(t) \/ Restock(t)
    BY <2>3, SourceStrict, ItemStrict, ReadStockStrict, RestockStrict
  <2>4. CASE ReadCash(t) \/ PayBill(t) \/ Recharge(t) \/ Flush(t) \/ UpdateStatusCode(t)
    BY <2>4, ReadCashStrict, PayBillStrict, RechargeStrict, FlushStrict, StatusStrict
  <2>5. CASE ResetRow(t) \/ Clears(t)
    BY <2>5, ResetRowStrict, ClearStrict
  <2> QED
    BY <1>1, <2>1, <2>2, <2>3, <2>4, <2>5 DEF BizStep, Exits, Clears
<1>2. ASSUME NEW t \in Threads, Execute(t) \/ Work(t) PROVE StrictInv'
  BY <1>1, <1>2, ExecuteStrict, CommitStrict, RollbackStrict DEF Work
<1>3. CASE Expire \/ Quiet \/ UNCHANGED vars
  BY <1>3, UnchangedStrict
<1> QED
  BY <1>2, <1>3 DEF Next

LEMMA StrictAlways == Spec => [](StockInv /\ OneUsers /\ StrictInv)
<1>1. Init => StockInv /\ OneUsers /\ StrictInv
  BY InitStep, StrictInit
<1>2. StockInv /\ OneUsers /\ StrictInv /\ [Next]_vars => (StockInv /\ OneUsers /\ StrictInv)'
  BY NextStep, OneNext, StrictNext
<1> QED
  BY <1>1, <1>2, PTL DEF Spec

-----------------------------------------------------------------------------
(* On the isolation levels that keep shared locks or refuse late updates,  *)
(* the accounts balance with the trades in every deployment: under every   *)
(* lock plan, with keys that expire, with bills, orders and recharges at   *)
(* the same users, with refused statements, repeated requests and resets.  *)
THEOREM AccountsBalanceUnderStrictIsolation == Spec => [](Strict => AccountsBalance)
<1>1. StrictInv => (Strict => AccountsBalance)
  BY DEF StrictInv
<1> QED
  BY <1>1, StrictAlways, PTL

(* And there no order takes the stock of a product below zero and no       *)
(* reload, computed from a stock read before, takes it above               *)
(* product-stock-max.                                                      *)
THEOREM StockInRangeUnderStrictIsolation == Spec => [](Strict => StockWithinMax)
<1>1. StrictInv => (Strict => StockWithinMax)
  <2>1. ProductStockMax \in Nat
    BY TablesAssumption
  <2> QED
    BY <2>1 DEF StrictInv, VersionsInRange, StockRange, StockWithinMax
<1> QED
  BY <1>1, StrictAlways, PTL

-----------------------------------------------------------------------------
(***************************************************************************)
(* What the locks of JavaLockPlanServiceImpl protect by themselves, under  *)
(* READ UNCOMMITTED: the accounts' balance, for bills, recharges and       *)
(* reloads.  They are released before the commit, but by then all an       *)
(* operation changes is written, the next one reads what is written, and   *)
(* no account that has been written is rolled back.  (An                   *)
(* order may find after its items that it cannot be paid, and writes the   *)
(* accounts after its locks are released; a reset takes no lock.  And when *)
(* a clock is set back, Snowflake.nextId fails for the second user of a    *)
(* recharge after the accounts of the first have been written: the locks   *)
(* are enough then if a recharge is for one user.)                         *)
(***************************************************************************)

JavaLocked ==
  /\ conf.plan = "p3" /\ DirtyReads /\ Workload[conf] \subseteq {"usage", "recharge", "reload"}
  /\ ClockMayGoBack => BatchSize = 1

DataRows == AccountRows \cup ProductRows

(* the rows the plan's locks of t stand for *)
RowsInUse(t) ==
  {r \in DataRows : \/ \E u \in UsersInUse(t) : r \in AccountsOf(u)
                    \/ \E p \in ProductsInUse(t) : r = ProductRow(p)}

-----------------------------------------------------------------------------
(* The inductive invariant. *)

(* nothing but its commit can happen to the transaction any more *)
WillCommit(t) == pc[t] = "commit" \/ (pc[t] = "unlock" /\ outcome[t] = "ok")

Requested(t) ==
  kind[t] \in {"none", "usage", "recharge", "reload"} /\ pc[t] \notin ResetLabels

(* Whoever has written a row has the lock for it or is going to commit, or *)
(* is going to roll back the stock it has filled, with no id for its log.  *)
RowsKeyed(t) ==
  \A r \in DataRows : holder[r] = t =>
    WillCommit(t) \/ r \in RowsInUse(t) \/ (r \in ProductRows /\ pc[t] \in Ends)

(* What is saved is written before updateStatusCode, hence before the      *)
(* locks are released.                                                     *)
SavesAccount(t) ==
  saved[t] # NothingSaved =>
    pc[t] = "status" /\ \A r \in DOMAIN saved[t] : r \in AccountsOf(Account(t)) /\ holder[r] # t

(* by how much t has changed an account or is going to *)
Owed(t, r) ==
  IF r \in DOMAIN saved[t] THEN saved[t][r] - latest[r]
  ELSE IF holder[r] = t    THEN latest[r] - committed[r]
  ELSE 0

BooksOwed(t) == \A u \in Users : Net(t, u) = Owed(t, CashRow(u)) + Owed(t, CreditRow(u))

(* a recharge comes to each of its users once *)
Untouched(t) == \A u \in Ahead(t) : \A r \in AccountsOf(u) : holder[r] # t

(* the cash in hand is the newest *)
InHand(t) == pc[t] = "credit" => seen[t] = latest[CashRow(Account(t))]

(* the loops visit what is locked *)
VisitsLocked(t) ==
  /\ kind[t] = "recharge" /\ pc[t] \in AccountSteps => todo[t] \subseteq who[t]
  /\ pc[t] \in StockSteps => todo[t] \subseteq InBatch(batch[t])

ThreadJava(t) ==
  /\ Requested(t) /\ shared[t] = {} /\ RowsKeyed(t) /\ SavesAccount(t) /\ BooksOwed(t)
  /\ Untouched(t) /\ InHand(t) /\ VisitsLocked(t)

FreeRowsCommitted == \A r \in DataRows : holder[r] = NoThread => latest[r] = committed[r]

JavaSound ==
  /\ FreeRowsCommitted /\ AccountsBalance
  /\ \A t \in Threads : ThreadJava(t)

JavaInv == JavaLocked => JavaSound

(* a recharge keeps the users it was asked for *)
RechargeSizes == \A t \in Threads : kind[t] = "recharge" => who[t] \in RechargeSets

-----------------------------------------------------------------------------
LEMMA SizesInit == Init => RechargeSizes
BY DEF Init, RechargeSizes

LEMMA SizesNext == StockInv /\ RechargeSizes /\ [Next]_vars => RechargeSizes'
<1> SUFFICES ASSUME StockInv, RechargeSizes, [Next]_vars PROVE RechargeSizes'
  OBVIOUS
<1>1. kind \in [Threads -> Kinds \cup {"none"}] /\ who \in [Threads -> SUBSET Users]
  BY DEF StockInv, TypeOK, BizTypeOK
<1>2. CASE UNCHANGED <<kind, who>>
  BY <1>2 DEF RechargeSizes
<1>3. ASSUME NEW t \in Threads, Execute(t) PROVE RechargeSizes'
  <2>1. PICK k \in Workload[conf] : \E S \in UserSets(k) :
          kind' = [kind EXCEPT ![t] = k] /\ who' = [who EXCEPT ![t] = S]
    BY <1>3 DEF Execute
  <2>2. PICK S \in UserSets(k) : kind' = [kind EXCEPT ![t] = k] /\ who' = [who EXCEPT ![t] = S]
    BY <2>1
  <2>3. k = "recharge" => S \in RechargeSets
    BY DEF UserSets
  <2> QED
    BY <1>1, <2>2, <2>3 DEF RechargeSizes
<1>4. ASSUME NEW t \in Threads, Answer(t) PROVE RechargeSizes'
  BY <1>1, <1>4 DEF Answer, RechargeSizes
<1>5. ASSUME NEW t \in Threads, BizStep(t) \/ Retry(t) PROVE UNCHANGED <<kind, who>>
  BY <1>5
     DEF BizStep, LockUser, FillCart, DrawFails, FindInsufficient, LockProduct, LockTimeout,
         LockThrows, CreateSource, DeductStock, SkipProduct, ReadCash, PayBill, Recharge, Flush,
         UpdateStatusCode, ReadStock, Restock, NextIdThrows, Unlock, UnlockThrows, CommitRefused,
         StatementFails, ResetRow, ClearSources, ClearItems, ClearTrades, ClearLogs, ResetFails,
         Retry, requestVars
<1>6. CASE Expire \/ Quiet \/ UNCHANGED vars
  BY <1>2, <1>6 DEF Expire, Quiet, vars, requestVars
<1> QED
  BY <1>2, <1>3, <1>4, <1>5, <1>6 DEF Next, Work, Commit, GiveUp

-----------------------------------------------------------------------------
(* Under READ UNCOMMITTED a plain read takes no lock and sees what is      *)
(* there.                                                                  *)
LEMMA JavaFacts ==
  ASSUME JavaLocked, DatabaseTypeOK, NEW t \in Threads
  PROVE  /\ conf.plan = "p3" /\ conf.profile # "pgsql" /\ ~SharedReads
         /\ Workload[conf] \subseteq {"usage", "recharge", "reload"}
         /\ \A r : Visible(t, r) = latest[r]
         /\ \A r : ~Conflicts(t, r)
         /\ \A R : Read(t, R) => UNCHANGED dbVars
         /\ Insert(t) => UNCHANGED dbVars
         /\ \A type, form, id : PlanAcquire(t, type, form, id) => UNCHANGED dbVars
         /\ \A r, value, reads : Update(t, r, value, reads) => UNCHANGED <<conf, committed, shared>>
<1>1. /\ ~SharedReads /\ ~SharedHeld /\ ~FirstUpdaterWins /\ ~Snapshots
      /\ conf.profile # "pgsql"
  BY DEF JavaLocked, DirtyReads, Level, SharedReads, SharedHeld, FirstUpdaterWins, Snapshots
<1>2. \A plain : OpenView(t, plain) => view' = view
  BY <1>1 DEF OpenView
<1>3. \A r : Visible(t, r) = latest[r] /\ ~Conflicts(t, r)
  BY <1>1 DEF JavaLocked, Visible, Conflicts
<1> QED
  BY <1>1, <1>2, <1>3 DEF JavaLocked, Read, Insert, Update, PlanAcquire, dbVars

LEMMA DataFacts ==
  /\ DataRows \subseteq Rows
  /\ \A u \in Users : AccountsOf(u) \subseteq DataRows
  /\ \A p \in Products : ProductRow(p) \in DataRows
  /\ DataRows = AccountRows \cup ProductRows /\ AccountRows \cap ProductRows = {}
BY UserFacts, ProductRowFacts DEF DataRows

(* Two threads never use the same row. *)
LEMMA UseApart ==
  ASSUME StockInv, BodiesExclusive, JavaLocked, NEW t \in Threads, NEW v \in Threads \ {t}
  PROVE  RowsInUse(t) \cap RowsInUse(v) = {}
<1>1. /\ UsersInUse(t) \cap UsersInUse(v) = {} /\ ProductsInUse(t) \cap ProductsInUse(v) = {}
  BY DEF BodiesExclusive, JavaLocked
<1>2. \A w \in Threads : UsersInUse(w) \subseteq Users /\ ProductsInUse(w) \subseteq Products
  BY DEF UsersInUse, ProductsInUse, InBatch, StockInv, TypeOK, BizTypeOK
<1>3. \A u, w \in Users : u # w => AccountsOf(u) \cap AccountsOf(w) = {}
  BY UserFacts
<1>4. \A p, q \in Products : p # q => ProductRow(p) # ProductRow(q)
  BY RowFacts
<1>5. \A u \in Users, p \in Products : ProductRow(p) \notin AccountsOf(u)
  BY UserFacts, ProductRowFacts
<1> QED
  BY <1>1, <1>2, <1>3, <1>4, <1>5 DEF RowsInUse

(* The rows an operation is at are among those in use. *)
LEMMA AtLocked ==
  ASSUME StockInv, NEW t \in Threads, ThreadJava(t)
  PROVE  /\ pc[t] \in {"cash", "credit", "status"} =>
              Account(t) \in Users /\ AccountsOf(Account(t)) \subseteq RowsInUse(t)
         /\ pc[t] \in StockSteps =>
              First(todo[t]) \in Products /\ ProductRow(First(todo[t])) \in RowsInUse(t)
<1>1. ASSUME pc[t] \in {"cash", "credit", "status"}
      PROVE  Account(t) \in Users /\ AccountsOf(Account(t)) \subseteq RowsInUse(t)
  <2>1. Account(t) \in Users /\ (kind[t] = "recharge" => Account(t) \in todo[t])
    BY <1>1, AccountFacts
  <2>2. kind[t] \in {"usage", "recharge"} /\ who[t] # {} /\ who[t] \subseteq Nat
    BY <1>1, TablesAssumption
       DEF ThreadJava, Requested, StockInv, WorkOK, ThreadOK, TypeOK, BizTypeOK
  <2>3. Account(t) \in who[t]
    <3>1. CASE kind[t] = "recharge"
      BY <1>1, <2>1, <3>1 DEF ThreadJava, VisitsLocked, AccountSteps
    <3>2. CASE kind[t] # "recharge"
      BY <2>2, <3>2, FirstIn DEF Account
    <3> QED
      BY <3>1, <3>2
  <2>4. UsersInUse(t) = who[t]
    BY <1>1, <2>2 DEF UsersInUse
  <2> QED
    BY <2>1, <2>3, <2>4, DataFacts DEF RowsInUse
<1>2. ASSUME pc[t] \in StockSteps
      PROVE  First(todo[t]) \in Products /\ ProductRow(First(todo[t])) \in RowsInUse(t)
  <2>1. First(todo[t]) \in Products /\ First(todo[t]) \in todo[t]
    BY <1>2, ProductFacts DEF StockSteps
  <2>2. ProductsInUse(t) = InBatch(batch[t])
    BY <1>2 DEF ProductsInUse, StockSteps
  <2> QED
    BY <1>2, <2>1, <2>2, DataFacts DEF ThreadJava, VisitsLocked, RowsInUse
<1> QED
  BY <1>1, <1>2

(* Who waits in the database waits for a transaction that is at its end. *)
LEMMA WaitsForEnd ==
  ASSUME StockInv, BodiesExclusive, JavaLocked, JavaSound,
         NEW t \in Threads, NEW w \in WaitsFor(t)
  PROVE  w \in Threads /\ WaitsFor(w) = {}
<1>1. /\ ThreadJava(t) /\ ~SharedReads /\ conf.plan # "p1"
      /\ \A v \in Threads : ThreadJava(v) /\ shared[v] = {}
      /\ DatabaseTypeOK /\ BizTypeOK
  BY JavaFacts DEF JavaSound, ThreadJava, StockInv, TypeOK
<1>2. PICK r \in RowsInUse(t) : w \in LockBlockers(t, r)
  <2>1. \A r : ReadBlockers(t, r) = {}
    BY <1>1 DEF ReadBlockers
  <2>2. \A r : UpdateBlockers(t, r) = LockBlockers(t, r)
    BY <1>1 DEF UpdateBlockers
  <2>3. pc[t] # "deduct" /\ pc[t] \notin ResetLabels
    BY <1>1 DEF ThreadJava, Requested, StockInv, WorkOK, ThreadOK
  <2>4. CASE pc[t] = "restock"
    <3>1. WaitsFor(t) = UpdateBlockers(t, ProductRow(First(todo[t])))
      BY <2>4 DEF WaitsFor
    <3> QED
      BY <1>1, <2>2, <2>4, <3>1, AtLocked DEF StockSteps
  <2>5. CASE pc[t] \in {"status", "commit"} /\ saved[t] # NothingSaved
    <3>1. WaitsFor(t) = UpdateBlockers(t, NextWrite(t))
      BY <2>5 DEF WaitsFor
    <3>2. NextWrite(t) \in DOMAIN saved[t]
      BY <1>1, <2>5, NextWriteFacts
    <3>3. NextWrite(t) \in AccountsOf(Account(t)) /\ pc[t] = "status"
      BY <1>1, <2>5, <3>2 DEF ThreadJava, SavesAccount
    <3> QED
      BY <1>1, <2>2, <3>1, <3>3, AtLocked
  <2>6. ASSUME pc[t] # "restock", ~(pc[t] \in {"status", "commit"} /\ saved[t] # NothingSaved)
        PROVE  FALSE
    <3>1. pc[t] \notin UpdateLabels \cup SourceLabels
                       \cup {"clearItems", "clearLogs", "clearTrades"}
      BY <2>3 DEF ResetLabels, UpdateLabels, SourceLabels
    <3>2. ResetWaitsFor(t) = {}
      BY <3>1 DEF ResetWaitsFor
    <3>3. WaitsFor(t) = {}
      BY <1>1, <2>1, <2>3, <2>6, <3>2 DEF WaitsFor
    <3> QED
      BY <3>3
  <2> QED
    BY <2>4, <2>5, <2>6
<1>3. r \in DataRows /\ w \in Threads \ {t} /\ holder[r] = w
  BY <1>1, <1>2, DataFacts DEF RowsInUse, LockBlockers, DatabaseTypeOK
<1>4. WillCommit(w) \/ pc[w] \in Ends
  BY <1>1, <1>2, <1>3, UseApart DEF ThreadJava, RowsKeyed
<1>5. pc[w] \in Ends /\ saved[w] = NothingSaved
  BY <1>1, <1>3, <1>4 DEF WillCommit, ThreadJava, SavesAccount, Ends
<1>6. ResetWaitsFor(w) = {}
  BY <1>5 DEF ResetWaitsFor, UpdateLabels, SourceLabels, Ends
<1> QED
  BY <1>3, <1>5, <1>6 DEF WaitsFor, Ends

(* So the database finds no deadlock, and refuses nothing. *)
LEMMA NeverVictim ==
  ASSUME StockInv, BodiesExclusive, JavaLocked, JavaSound, NEW t \in Threads
  PROVE  ~StatementFails(t)
<1>1. ~Deadlocked(t)
  <2> SUFFICES ASSUME NEW cycle \in SUBSET Threads, t \in cycle,
                      \A u \in cycle : WaitsFor(u) \cap cycle # {}
               PROVE  FALSE
    BY DEF Deadlocked
  <2>1. PICK w \in WaitsFor(t) : w \in cycle
    OBVIOUS
  <2>2. WaitsFor(w) = {}
    BY <2>1, WaitsForEnd
  <2> QED
    BY <2>1, <2>2
<1>2. ~UpdateConflicts(t)
  BY JavaFacts DEF UpdateConflicts, StockInv, TypeOK
<1> QED
  BY <1>1, <1>2 DEF StatementFails

-----------------------------------------------------------------------------
(* What the others have locked and changed, and what they work with, is    *)
(* out of reach of t ...                                                   *)
OutOfReach(t) ==
  \A v \in Threads \ {t} :
    /\ shared'[v] = shared[v]
    /\ \A r \in DataRows :
         /\ holder'[r] = v <=> holder[r] = v
         /\ holder[r] = v => latest'[r] = latest[r] /\ committed'[r] = committed[r]
         /\ r \in RowsInUse(v) \cap AccountRows => latest'[r] = latest[r]

(* ... and so are their locals. *)
OthersGoOn(t) ==
  OthersRest(t) /\ \A v \in Threads \ {t} : batch'[v] = batch[v] /\ outcome'[v] = outcome[v]

LEMMA OthersJava ==
  ASSUME StockInv, NEW t \in Threads, OthersGoOn(t), OutOfReach(t),
         NEW v \in Threads \ {t}, ThreadJava(v)
  PROVE  ThreadJava(v)'
<1>1. /\ pc'[v] = pc[v] /\ kind'[v] = kind[v] /\ who'[v] = who[v] /\ todo'[v] = todo[v]
      /\ seen'[v] = seen[v] /\ saved'[v] = saved[v] /\ batch'[v] = batch[v]
      /\ outcome'[v] = outcome[v] /\ shared'[v] = shared[v]
      /\ \A u \in Users : Net(v, u)' = Net(v, u)
  BY DEF OthersGoOn, OthersRest, OutOfReach
<1>2. /\ RowsInUse(v)' = RowsInUse(v) /\ WillCommit(v)' = WillCommit(v)
      /\ Account(v)' = Account(v)
  BY <1>1 DEF RowsInUse, UsersInUse, ProductsInUse, WillCommit, Account
<1>3. Ahead(v)' = Ahead(v) /\ Ahead(v) \subseteq Users
  BY <1>1, <1>2, AheadUsers DEF Ahead
<1>4. \A r \in DataRows :
        /\ holder'[r] = v <=> holder[r] = v
        /\ holder[r] = v => latest'[r] = latest[r] /\ committed'[r] = committed[r]
        /\ r \in RowsInUse(v) \cap AccountRows => latest'[r] = latest[r]
  BY DEF OutOfReach
<1>5. /\ pc[v] \in {"cash", "credit", "status"} =>
           /\ Account(v) \in Users
           /\ AccountsOf(Account(v)) \subseteq RowsInUse(v) \cap AccountRows
      /\ RowsInUse(v) \subseteq DataRows
  BY AtLocked, UserFacts DEF RowsInUse
<1>6. Requested(v)' /\ shared'[v] = {} /\ RowsKeyed(v)' /\ VisitsLocked(v)'
  BY <1>1, <1>2, <1>4 DEF ThreadJava, Requested, RowsKeyed, VisitsLocked
<1>7. /\ saved[v] # NothingSaved =>
           /\ pc[v] = "status"
           /\ \A r \in DOMAIN saved[v] : r \in AccountsOf(Account(v)) /\ holder[r] # v
      /\ saved[v] = NothingSaved => DOMAIN saved[v] = {}
  BY DEF ThreadJava, SavesAccount, NothingSaved
<1>8. SavesAccount(v)'
  BY <1>1, <1>2, <1>4, <1>5, <1>7 DEF SavesAccount
<1>9. \A r \in DataRows : Owed(v, r)' = Owed(v, r)
  BY <1>1, <1>4, <1>5, <1>7 DEF Owed
<1>10. BooksOwed(v)'
  BY <1>1, <1>9, DataFacts DEF ThreadJava, BooksOwed, AccountsOf
<1>11. Untouched(v)'
  BY <1>3, <1>4, DataFacts DEF ThreadJava, Untouched
<1>12. InHand(v)'
  BY <1>1, <1>2, <1>4, <1>5 DEF ThreadJava, InHand, AccountsOf
<1> QED
  BY <1>6, <1>8, <1>10, <1>11, <1>12 DEF ThreadJava

LEMMA JavaStep ==
  ASSUME StockInv, JavaSound, NEW t \in Threads, OthersGoOn(t), OutOfReach(t),
         FreeRowsCommitted', AccountsBalance', ThreadJava(t)'
  PROVE  JavaSound'
<1>1. \A v \in Threads \ {t} : ThreadJava(v)'
  BY OthersJava DEF JavaSound
<1> QED
  BY <1>1 DEF JavaSound

(* A step that writes nothing: the thread goes on with the same rows, or   *)
(* has nothing left to do but its commit.                                  *)
LEMMA QuietJava ==
  ASSUME StockInv, JavaSound, NEW t \in Threads, OthersGoOn(t),
         UNCHANGED <<dbVars, outflow, inflow>>, saved'[t] = saved[t],
         \A u \in Users : Net(t, u)' = Net(t, u),
         pc[t] # "status" \/ saved[t] = NothingSaved,
         WillCommit(t) => WillCommit(t)',
         \/ WillCommit(t)'
         \/ RowsInUse(t) \subseteq RowsInUse(t)'
         \/ \A r \in DataRows : holder[r] # t,
         \/ pc[t] \notin {"unlock", "commit", "rollback"}
         \/ pc'[t] \in {"unlock", "commit", "rollback"},
         Ahead(t)' \subseteq Ahead(t),
         Requested(t)', InHand(t)', VisitsLocked(t)'
  PROVE  JavaSound'
<1>1. UNCHANGED <<committed, latest, holder, shared>>
  BY DEF dbVars
<1>2. ThreadJava(t) /\ saved[t] = NothingSaved
  BY DEF JavaSound, ThreadJava, SavesAccount
<1>3. OutOfReach(t) /\ FreeRowsCommitted' /\ AccountsBalance'
  BY <1>1 DEF OutOfReach, JavaSound, FreeRowsCommitted, AccountsBalance
<1>4. RowsKeyed(t)' /\ shared'[t] = {}
  BY <1>1, <1>2 DEF ThreadJava, RowsKeyed, Ends
<1>5. SavesAccount(t)'
  BY <1>2 DEF SavesAccount
<1>6. BooksOwed(t)'
  BY <1>1, <1>2 DEF ThreadJava, BooksOwed, Owed
<1>7. Untouched(t)'
  BY <1>1, <1>2 DEF ThreadJava, Untouched
<1> QED
  BY <1>3, <1>4, <1>5, <1>6, <1>7, JavaStep DEF ThreadJava

-----------------------------------------------------------------------------
(* The steps that write nothing. *)

LEMMA LockUserJava ==
  ASSUME StockInv, JavaLocked, JavaSound, NEW t \in Threads, LockUser(t)
  PROVE  JavaSound'
<1>1. /\ ThreadJava(t) /\ ThreadOK(t) /\ BizTypeOK /\ DatabaseTypeOK
      /\ pc[t] = "lockUser" /\ kind[t] \in {"usage", "recharge"}
  BY DEF JavaSound, ThreadJava, Requested, StockInv, WorkOK, ThreadOK, TypeOK, LockUser
<1>2. PICK id \in todo[t] :
        /\ PlanAcquire(t, "uid", UserForm(t), id)
        /\ IF todo[t] = {id}
           THEN /\ todo' = [todo EXCEPT ![t] = who[t]]
                /\ Goto(t, "source")
           ELSE /\ todo' = [todo EXCEPT ![t] = @ \ {id}]
                /\ UNCHANGED <<pc, outcome>>
  BY <1>1 DEF LockUser, NextIds
<1>3. UNCHANGED <<dbVars, kind, who, batch, seen, saved, pin, pout, outflow, inflow, outcome>>
  BY <1>1, <1>2, JavaFacts DEF LockUser, requestVars, workVars, pendingVars, bookVars, Goto
<1>4. /\ \A v \in Threads \ {t} : pc'[v] = pc[v] /\ todo'[v] = todo[v]
      /\ \/ pc'[t] = "lockUser"
         \/ pc'[t] = "source" /\ todo'[t] = who[t]
  BY <1>1, <1>2 DEF Goto, BizTypeOK
<1>5. OthersGoOn(t) /\ \A u \in Users : Net(t, u)' = Net(t, u)
  BY <1>3, <1>4 DEF OthersGoOn, OthersRest, Net
<1>6. RowsInUse(t) = {} /\ ~WillCommit(t) /\ Ahead(t) = Users
  BY <1>1 DEF RowsInUse, UsersInUse, ProductsInUse, WillCommit, Ahead, Ends
<1>7. Ahead(t)' \subseteq Users
  BY <1>1, <1>3, <1>4 DEF Ahead, Ends, BizTypeOK
<1>8. Requested(t)' /\ InHand(t)' /\ VisitsLocked(t)'
  BY <1>1, <1>3, <1>4 DEF ThreadJava, Requested, InHand, VisitsLocked, ResetLabels, StockSteps,
                          AccountSteps
<1> QED
  BY <1>1, <1>3, <1>5, <1>6, <1>7, <1>8, QuietJava

LEMMA FindJava ==
  ASSUME StockInv, JavaLocked, JavaSound, NEW t \in Threads, FindInsufficient(t)
  PROVE  JavaSound'
<1>1. /\ ThreadJava(t) /\ BizTypeOK /\ DatabaseTypeOK /\ pc[t] = "find"
  BY DEF JavaSound, StockInv, TypeOK, FindInsufficient
<1>2. /\ UNCHANGED <<dbVars, kind, who, seen, saved, pin, pout, outflow, inflow, outcome>>
      /\ pc' = [pc EXCEPT ![t] = "lockProduct"]
      /\ \E ids : /\ batch' = [batch EXCEPT ![t] = ReloadOf(ids)]
                  /\ todo'  = [todo EXCEPT ![t] = ids]
  BY <1>1, JavaFacts DEF FindInsufficient, requestVars, pendingVars, bookVars, Goto
<1>3. /\ \A v \in Threads \ {t} : pc'[v] = pc[v] /\ todo'[v] = todo[v] /\ batch'[v] = batch[v]
      /\ pc'[t] = "lockProduct"
  BY <1>1, <1>2 DEF BizTypeOK
<1>4. OthersGoOn(t) /\ \A u \in Users : Net(t, u)' = Net(t, u)
  BY <1>2, <1>3 DEF OthersGoOn, OthersRest, Net
<1>5. kind[t] = "reload"
  BY <1>1 DEF StockInv, WorkOK, ThreadOK
<1>6. RowsInUse(t) = {} /\ ~WillCommit(t) /\ Ahead(t) = Users /\ Ahead(t)' = Users
  BY <1>1, <1>3, <1>5 DEF RowsInUse, UsersInUse, ProductsInUse, WillCommit, Ahead, Ends
<1>7. Requested(t)' /\ InHand(t)' /\ VisitsLocked(t)'
  BY <1>1, <1>2, <1>3 DEF ThreadJava, Requested, InHand, VisitsLocked, ResetLabels, StockSteps,
                          AccountSteps
<1> QED
  BY <1>1, <1>2, <1>4, <1>6, <1>7, QuietJava

LEMMA LockProductJava ==
  ASSUME StockInv, JavaLocked, JavaSound, NEW t \in Threads, LockProduct(t)
  PROVE  JavaSound'
<1>1. /\ ThreadJava(t) /\ BizTypeOK /\ DatabaseTypeOK /\ pc[t] = "lockProduct"
      /\ kind[t] = "reload"
  BY DEF JavaSound, ThreadJava, Requested, StockInv, WorkOK, ThreadOK, TypeOK, LockProduct
<1>2. PICK p \in todo[t] :
        /\ PlanAcquire(t, "pid", "set", p)
        /\ IF todo[t] = {p}
           THEN /\ todo' = [todo EXCEPT ![t] = InBatch(batch[t])]
                /\ Goto(t, "reload")
           ELSE /\ todo' = [todo EXCEPT ![t] = @ \ {p}]
                /\ UNCHANGED <<pc, outcome>>
  BY <1>1 DEF LockProduct, NextIds
<1>3. UNCHANGED <<dbVars, kind, who, batch, seen, saved, pin, pout, outflow, inflow, outcome>>
  BY <1>1, <1>2, JavaFacts DEF LockProduct, requestVars, workVars, pendingVars, bookVars, Goto
<1>4. /\ \A v \in Threads \ {t} : pc'[v] = pc[v] /\ todo'[v] = todo[v]
      /\ \/ pc'[t] = "lockProduct"
         \/ pc'[t] = "reload" /\ todo'[t] = InBatch(batch[t])
  <2>1. InBatch(batch[t]) \in SUBSET Nat
    BY TablesAssumption DEF InBatch
  <2> QED
    BY <1>1, <1>2, <2>1 DEF Goto, BizTypeOK
<1>5. OthersGoOn(t) /\ \A u \in Users : Net(t, u)' = Net(t, u)
  BY <1>3, <1>4 DEF OthersGoOn, OthersRest, Net
<1>6. RowsInUse(t) = {} /\ ~WillCommit(t) /\ Ahead(t) = Users /\ Ahead(t)' = Users
  BY <1>1, <1>4 DEF RowsInUse, UsersInUse, ProductsInUse, WillCommit, Ahead, Ends
<1>7. Requested(t)' /\ InHand(t)' /\ VisitsLocked(t)'
  BY <1>1, <1>3, <1>4 DEF ThreadJava, Requested, InHand, VisitsLocked, ResetLabels, StockSteps,
                          AccountSteps
<1> QED
  BY <1>1, <1>3, <1>5, <1>6, <1>7, QuietJava

(* Only a wait for the locks of the plan is given up, when nothing is      *)
(* locked in the database.                                                 *)
LEMMA LockTimeoutJava ==
  ASSUME StockInv, JavaLocked, JavaSound, NEW t \in Threads, LockTimeout(t)
  PROVE  JavaSound'
<1>1. /\ ThreadJava(t) /\ BizTypeOK /\ pc[t] \in {"lockUser", "lockProduct"}
  BY DEF JavaSound, StockInv, TypeOK, LockTimeout
<1>2. /\ UNCHANGED <<dbVars, kind, who, todo, batch, seen, saved, pin, pout, outflow, inflow>>
      /\ Leave(t, "timeout")
  BY DEF LockTimeout, requestVars, workVars, pendingVars, bookVars
<1>3. /\ \A v \in Threads \ {t} : pc'[v] = pc[v] /\ outcome'[v] = outcome[v]
      /\ pc'[t] \in Ends
  BY <1>1, <1>2, LeaveKeys DEF Leave, Ends, BizTypeOK
<1>4. OthersGoOn(t) /\ \A u \in Users : Net(t, u)' = Net(t, u)
  BY <1>2, <1>3 DEF OthersGoOn, OthersRest, Net
<1>5. RowsInUse(t) = {} /\ ~WillCommit(t) /\ Ahead(t)' = {}
  <2>1. pc[t] = "lockProduct" => kind[t] = "reload"
    BY <1>1 DEF ThreadJava, Requested, StockInv, WorkOK, ThreadOK
  <2> QED
    BY <1>1, <1>3, <2>1 DEF RowsInUse, UsersInUse, ProductsInUse, WillCommit, Ahead, Ends
<1>6. Requested(t)' /\ InHand(t)' /\ VisitsLocked(t)'
  BY <1>1, <1>2, <1>3 DEF ThreadJava, Requested, InHand, VisitsLocked, ResetLabels, StockSteps,
                          AccountSteps, Ends
<1> QED
  BY <1>1, <1>2, <1>4, <1>5, <1>6, QuietJava

(* Only what has been written counts when the locks are released. *)
LEMMA UnlockJava ==
  ASSUME StockInv, JavaSound, NEW t \in Threads, Unlock(t)
  PROVE  JavaSound'
<1>1. ThreadJava(t) /\ BizTypeOK /\ pc[t] = "unlock"
  BY DEF JavaSound, StockInv, TypeOK, Unlock
<1>2. /\ UNCHANGED <<dbVars, kind, who, todo, batch, seen, saved, outcome, bookVars>>
      /\ UNCHANGED <<pin, pout, outflow, inflow>>
      /\ UNCHANGED pc \/ Goto(t, Ending(outcome[t]))
  BY DEF Unlock, Goto, requestVars, workVars, pendingVars, bookVars
<1>3. /\ \A v \in Threads \ {t} : pc'[v] = pc[v]
      /\ pc'[t] = "unlock" \/ pc'[t] = Ending(outcome[t])
  BY <1>1, <1>2 DEF Goto, BizTypeOK
<1>4. OthersGoOn(t) /\ \A u \in Users : Net(t, u)' = Net(t, u)
  BY <1>2, <1>3 DEF OthersGoOn, OthersRest, Net
<1>5. /\ RowsInUse(t) = {} /\ Ahead(t)' = {}
      /\ WillCommit(t) => WillCommit(t)'
      /\ pc'[t] \in {"unlock", "commit", "rollback"}
  BY <1>1, <1>2, <1>3 DEF RowsInUse, UsersInUse, ProductsInUse, WillCommit, Ahead, Ends, Ending
<1>6. Requested(t)' /\ InHand(t)' /\ VisitsLocked(t)'
  BY <1>1, <1>2, <1>3 DEF ThreadJava, Requested, InHand, VisitsLocked, ResetLabels, StockSteps,
                          AccountSteps, Ending
<1> QED
  BY <1>1, <1>2, <1>4, <1>5, <1>6, QuietJava

LEMMA SourceJava ==
  ASSUME StockInv, JavaLocked, JavaSound, NEW t \in Threads, CreateSource(t)
  PROVE  JavaSound'
<1>1. /\ ThreadJava(t) /\ BizTypeOK /\ DatabaseTypeOK /\ pc[t] = "source"
      /\ kind[t] \in {"usage", "recharge"}
  BY DEF JavaSound, ThreadJava, Requested, StockInv, WorkOK, ThreadOK, TypeOK, CreateSource
<1>2. /\ UNCHANGED <<dbVars, kind, who, todo, batch, seen, saved, outcome>>
      /\ UNCHANGED <<pin, pout, outflow, inflow>>
      /\ pc' = [pc EXCEPT ![t] = "cash"]
  BY <1>1, JavaFacts DEF CreateSource, requestVars, pendingVars, bookVars, Goto
<1>3. pc'[t] = "cash" /\ \A v \in Threads \ {t} : pc'[v] = pc[v]
  BY <1>1, <1>2 DEF BizTypeOK
<1>4. OthersGoOn(t) /\ \A u \in Users : Net(t, u)' = Net(t, u)
  BY <1>2, <1>3 DEF OthersGoOn, OthersRest, Net
<1>5. RowsInUse(t)' = RowsInUse(t) /\ Ahead(t)' = Ahead(t) /\ ~WillCommit(t)
  BY <1>1, <1>2, <1>3 DEF RowsInUse, UsersInUse, ProductsInUse, WillCommit, Ahead, Ends
<1>6. Requested(t)' /\ InHand(t)' /\ VisitsLocked(t)'
  BY <1>1, <1>2, <1>3 DEF ThreadJava, Requested, InHand, VisitsLocked, ResetLabels, StockSteps,
                          AccountSteps
<1> QED
  BY <1>1, <1>2, <1>4, <1>5, <1>6, QuietJava

(* findById reads the newest cash ... *)
LEMMA ReadCashJava ==
  ASSUME StockInv, JavaLocked, JavaSound, NEW t \in Threads, ReadCash(t)
  PROVE  JavaSound'
<1>1. /\ ThreadJava(t) /\ BizTypeOK /\ DatabaseTypeOK /\ pc[t] = "cash"
      /\ kind[t] \in {"usage", "recharge"}
  BY DEF JavaSound, ThreadJava, Requested, StockInv, WorkOK, ThreadOK, TypeOK, ReadCash
<1>2. /\ UNCHANGED <<dbVars, kind, who, todo, batch, saved, pin, pout, outflow, inflow, outcome>>
      /\ pc' = [pc EXCEPT ![t] = "credit"]
      /\ seen' = [seen EXCEPT ![t] = latest[CashRow(Account(t))]]
  BY <1>1, JavaFacts DEF ReadCash, requestVars, pendingVars, bookVars, Goto
<1>3. /\ pc'[t] = "credit" /\ seen'[t] = latest[CashRow(Account(t))]
      /\ \A v \in Threads \ {t} : pc'[v] = pc[v] /\ seen'[v] = seen[v]
      /\ Account(t)' = Account(t) /\ latest' = latest
  BY <1>1, <1>2 DEF BizTypeOK, Account, dbVars
<1>4. OthersGoOn(t) /\ \A u \in Users : Net(t, u)' = Net(t, u)
  BY <1>2, <1>3 DEF OthersGoOn, OthersRest, Net
<1>5. RowsInUse(t)' = RowsInUse(t) /\ Ahead(t)' = Ahead(t) /\ ~WillCommit(t)
  BY <1>1, <1>2, <1>3 DEF RowsInUse, UsersInUse, ProductsInUse, WillCommit, Ahead, Ends
<1>6. Requested(t)' /\ InHand(t)' /\ VisitsLocked(t)'
  BY <1>1, <1>2, <1>3 DEF ThreadJava, Requested, InHand, VisitsLocked, ResetLabels, StockSteps,
                          AccountSteps
<1> QED
  BY <1>1, <1>2, <1>4, <1>5, <1>6, QuietJava

(* ... and getOne the newest stock. *)
LEMMA ReadStockJava ==
  ASSUME StockInv, JavaLocked, JavaSound, NEW t \in Threads, ReadStock(t)
  PROVE  JavaSound'
<1>1. /\ ThreadJava(t) /\ BizTypeOK /\ DatabaseTypeOK /\ pc[t] = "reload"
  BY DEF JavaSound, StockInv, TypeOK, ReadStock
<1>2. /\ UNCHANGED <<dbVars, kind, who, todo, batch, saved, pin, pout, outflow, inflow, outcome>>
      /\ pc' = [pc EXCEPT ![t] = "restock"]
      /\ seen' = [seen EXCEPT ![t] = latest[ProductRow(First(todo[t]))]]
  BY <1>1, JavaFacts DEF ReadStock, requestVars, pendingVars, bookVars, Goto
<1>3. /\ pc'[t] = "restock" /\ seen'[t] = latest[ProductRow(First(todo[t]))]
      /\ \A v \in Threads \ {t} : pc'[v] = pc[v] /\ seen'[v] = seen[v]
      /\ latest' = latest
  BY <1>1, <1>2 DEF BizTypeOK, dbVars
<1>4. OthersGoOn(t) /\ \A u \in Users : Net(t, u)' = Net(t, u)
  BY <1>2, <1>3 DEF OthersGoOn, OthersRest, Net
<1>5. RowsInUse(t)' = RowsInUse(t) /\ Ahead(t)' = Ahead(t) /\ ~WillCommit(t)
  BY <1>1, <1>2, <1>3 DEF RowsInUse, UsersInUse, ProductsInUse, WillCommit, Ahead, Ends
<1>6. Requested(t)' /\ InHand(t)' /\ VisitsLocked(t)'
  BY <1>1, <1>2, <1>3 DEF ThreadJava, Requested, InHand, VisitsLocked, ResetLabels, StockSteps,
                          AccountSteps
<1> QED
  BY <1>1, <1>2, <1>4, <1>5, <1>6, QuietJava

(* Leaving for the commit, with all it has saved written. *)
LEMMA LeavesForCommit ==
  ASSUME BizTypeOK, NEW t \in Threads, Leave(t, "ok")
  PROVE  /\ WillCommit(t)' /\ pc'[t] \in Ends /\ pc'[t] \notin ResetLabels
         /\ \A v \in Threads \ {t} : pc'[v] = pc[v] /\ outcome'[v] = outcome[v]
BY DEF BizTypeOK, Leave, Ending, WillCommit, Ends, ResetLabels

LEMMA StatusJava ==
  ASSUME StockInv, JavaSound, OneUsers, NEW t \in Threads, UpdateStatusCode(t)
  PROVE  JavaSound'
<1>1. /\ ThreadJava(t) /\ BizTypeOK /\ pc[t] = "status" /\ saved[t] = NothingSaved
      /\ kind[t] \in {"usage", "recharge"}
  BY DEF JavaSound, ThreadJava, Requested, StockInv, WorkOK, ThreadOK, TypeOK, UpdateStatusCode
<1>2. /\ UNCHANGED <<dbVars, kind, who, batch, seen, saved, pin, pout, outflow, inflow>>
      /\ todo' = [todo EXCEPT ![t] = @ \ {Account(t)}]
      /\ IF todo[t] = {Account(t)} THEN Leave(t, "ok") ELSE Goto(t, "source")
  BY DEF UpdateStatusCode, requestVars, workVars, pendingVars, bookVars
<1>3. todo'[t] = todo[t] \ {Account(t)} /\ \A v \in Threads \ {t} : todo'[v] = todo[v]
  BY <1>1, <1>2 DEF BizTypeOK
<1>4. ~WillCommit(t)
  BY <1>1 DEF WillCommit
<1>5. CASE Leave(t, "ok")
  <2>1. /\ WillCommit(t)' /\ pc'[t] \in Ends /\ pc'[t] \notin ResetLabels
        /\ \A v \in Threads \ {t} : pc'[v] = pc[v] /\ outcome'[v] = outcome[v]
    BY <1>1, <1>5, LeavesForCommit
  <2>2. OthersGoOn(t) /\ \A u \in Users : Net(t, u)' = Net(t, u)
    BY <1>2, <1>3, <2>1 DEF OthersGoOn, OthersRest, Net
  <2>3. Requested(t)' /\ InHand(t)' /\ VisitsLocked(t)' /\ Ahead(t)' = {}
    BY <1>1, <1>2, <2>1 DEF ThreadJava, Requested, InHand, VisitsLocked, StockSteps,
                            AccountSteps, Ends, Ahead
  <2> QED
    BY <1>1, <1>2, <1>4, <2>1, <2>2, <2>3, QuietJava
<1>6. CASE Goto(t, "source") /\ kind[t] = "recharge"
  <2>1. /\ pc'[t] = "source" /\ outcome' = outcome
        /\ \A v \in Threads \ {t} : pc'[v] = pc[v]
    BY <1>1, <1>6 DEF Goto, BizTypeOK
  <2>2. OthersGoOn(t) /\ \A u \in Users : Net(t, u)' = Net(t, u)
    BY <1>2, <1>3, <2>1 DEF OthersGoOn, OthersRest, Net
  <2>3. Requested(t)' /\ InHand(t)' /\ VisitsLocked(t)'
    BY <1>1, <1>2, <1>3, <2>1 DEF ThreadJava, Requested, InHand, VisitsLocked, StockSteps,
                                  AccountSteps, ResetLabels
  <2>4. Ahead(t)' = Ahead(t) /\ RowsInUse(t)' = RowsInUse(t)
    BY <1>1, <1>2, <1>3, <1>6, <2>1 DEF Ahead, Ends, RowsInUse, UsersInUse, ProductsInUse
  <2> QED
    BY <1>1, <1>2, <1>4, <2>2, <2>3, <2>4, QuietJava
<1>7. kind[t] = "usage" => todo[t] = {Account(t)}
  BY <1>1, UsageDone
<1> QED
  BY <1>1, <1>2, <1>5, <1>6, <1>7

LEMMA ExecuteJava ==
  ASSUME StockInv, JavaLocked, JavaSound, NEW t \in Threads, Execute(t)
  PROVE  JavaSound'
<1>0. PICK k \in Workload[conf] : \E S \in UserSets(k) :
        /\ kind' = [kind EXCEPT ![t] = k]
        /\ who'  = [who EXCEPT ![t] = S]
        /\ todo' = [todo EXCEPT ![t] = FirstIds(k, S)]
        /\ pc'   = [pc EXCEPT ![t] = FirstStep(k)]
  BY DEF Execute
<1>1. PICK S \in UserSets(k) :
        /\ kind' = [kind EXCEPT ![t] = k]
        /\ who'  = [who EXCEPT ![t] = S]
        /\ todo' = [todo EXCEPT ![t] = FirstIds(k, S)]
        /\ pc'   = [pc EXCEPT ![t] = FirstStep(k)]
  BY <1>0
<1>2. /\ ThreadJava(t) /\ BizTypeOK /\ DatabaseTypeOK /\ pc[t] = "idle"
      /\ UNCHANGED <<dbVars, seen, saved, batch, pin, pout, outflow, inflow, outcome>>
  BY DEF Execute, workVars, pendingVars, bookVars, JavaSound, StockInv, TypeOK
<1>3. k \in {"usage", "recharge", "reload"} /\ FirstStep(k) \in {"lockUser", "find"}
  BY <1>1, <1>2, JavaFacts DEF FirstStep
<1>4. /\ kind'[t] = k /\ pc'[t] \in {"lockUser", "find"}
      /\ \A v \in Threads \ {t} : /\ pc'[v] = pc[v] /\ kind'[v] = kind[v]
                                  /\ who'[v] = who[v] /\ todo'[v] = todo[v]
  BY <1>1, <1>2, <1>3 DEF BizTypeOK
<1>5. OthersGoOn(t) /\ \A u \in Users : Net(t, u)' = Net(t, u)
  BY <1>2, <1>4 DEF OthersGoOn, OthersRest, Net
<1>6. RowsInUse(t) = {} /\ ~WillCommit(t) /\ Ahead(t) = Users /\ Ahead(t)' = Users
  BY <1>2, <1>4 DEF RowsInUse, UsersInUse, ProductsInUse, WillCommit, Ahead, Ends
<1>7. Requested(t)' /\ InHand(t)' /\ VisitsLocked(t)'
  BY <1>3, <1>4 DEF Requested, InHand, VisitsLocked, ResetLabels, StockSteps, AccountSteps
<1> QED
  BY <1>2, <1>5, <1>6, <1>7, QuietJava

-----------------------------------------------------------------------------
(* The steps with the accounts and the stock. *)

(* A bill or a recharge enters in the trades what it is going to change,   *)
(* computed from the newest values.                                        *)
LEMMA SettleJava ==
  ASSUME StockInv, JavaLocked, JavaSound, NEW t \in Threads, pc[t] = "credit",
         NEW a, a = Account(t), NEW cash, NEW credit, NEW paid, NEW received,
         Settles(t, a, cash, credit, paid, received),
         Read(t, {CreditRow(a)}), Goto(t, "status"),
         UNCHANGED <<seen, kind, who, todo, batch, outflow, inflow>>
  PROVE  JavaSound'
<1>1. /\ ThreadJava(t) /\ BizTypeOK /\ DatabaseTypeOK /\ saved[t] = NothingSaved
      /\ kind[t] \in {"usage", "recharge"}
  BY DEF JavaSound, ThreadJava, SavesAccount, Requested, StockInv, WorkOK, ThreadOK, TypeOK
<1>2. /\ a \in Users /\ AccountsOf(a) \subseteq RowsInUse(t) /\ a \in Ahead(t)
      /\ kind[t] = "recharge" => a \in todo[t]
  BY <1>1, AtLocked, AccountFacts DEF Ahead, Ends
<1>3. /\ CashRow(a) \in Rows /\ CreditRow(a) \in Rows /\ UserRow(a) \in Rows
      /\ holder[CashRow(a)] # t /\ holder[CreditRow(a)] # t
  BY <1>1, <1>2, UserFacts DEF ThreadJava, Untouched, AccountsOf
<1>4. UNCHANGED dbVars /\ Visible(t, CreditRow(a)) = latest[CreditRow(a)]
  BY <1>1, JavaFacts
<1>5. UNCHANGED <<committed, latest, holder, shared>>
  BY <1>4 DEF dbVars
<1>6. seen[t] = latest[CashRow(a)]
  BY <1>1 DEF ThreadJava, InHand
<1>7. /\ cash \in Int /\ credit \in Int /\ paid \in Int /\ received \in Int
      /\ latest[CashRow(a)] \in Int /\ latest[CreditRow(a)] \in Int
      /\ cash + credit + paid - received = latest[CashRow(a)] + latest[CreditRow(a)]
  BY <1>1, <1>3, <1>4, <1>6 DEF Settles, DatabaseTypeOK
<1>8. /\ After(t, CashRow(a))' = cash /\ After(t, CreditRow(a))' = credit
      /\ DOMAIN saved'[t] \subseteq AccountsOf(a)
      /\ \A v \in Threads \ {t} : saved'[v] = saved[v]
  <2>1. Save(t, a, cash, credit, latest[CreditRow(a)])
    BY <1>4 DEF Settles
  <2> QED
    BY <1>1, <1>2, <1>5, <1>6, <1>7, <2>1, SavedFacts
<1>9. /\ Owed(t, CashRow(a))' = cash - latest[CashRow(a)]
      /\ Owed(t, CreditRow(a))' = credit - latest[CreditRow(a)]
  BY <1>3, <1>5, <1>7, <1>8 DEF Owed, After
<1>10. /\ pc'[t] = "status" /\ outcome' = outcome
       /\ \A v \in Threads \ {t} : pc'[v] = pc[v]
  BY <1>1 DEF Goto, BizTypeOK
<1>11. /\ pout'[t][UserRow(a)] = pout[t][UserRow(a)] + paid
       /\ pin'[t][UserRow(a)] = pin[t][UserRow(a)] + received
       /\ \A v \in Threads, u \in Users : v # t \/ u # a =>
            /\ pout'[v][UserRow(u)] = pout[v][UserRow(u)]
            /\ pin'[v][UserRow(u)] = pin[v][UserRow(u)]
  BY <1>1, <1>2, UserFacts DEF Settles, BizTypeOK
<1>12. OthersGoOn(t) /\ OutOfReach(t)
  BY <1>5, <1>8, <1>10, <1>11 DEF OthersGoOn, OthersRest, OutOfReach, Net
<1>13. Net(t, a)' = Owed(t, CashRow(a))' + Owed(t, CreditRow(a))'
  <2>1. Net(t, a) = 0
    <3>1. Owed(t, CashRow(a)) = 0 /\ Owed(t, CreditRow(a)) = 0
      BY <1>1, <1>3 DEF Owed, NothingSaved
    <3> QED
      BY <1>1, <1>2, <3>1 DEF ThreadJava, BooksOwed
  <2>2. pin[t][UserRow(a)] \in Int /\ pout[t][UserRow(a)] \in Int
    BY <1>1, <1>3 DEF BizTypeOK
  <2>3. /\ pin'[t][UserRow(a)] = pin[t][UserRow(a)] + received
        /\ pout'[t][UserRow(a)] = pout[t][UserRow(a)] + paid
    BY <1>11
  <2>4. Net(t, a)' = received - paid
    <3>1. pin[t][UserRow(a)] - pout[t][UserRow(a)] = 0
      BY <2>1 DEF Net
    <3>2. Net(t, a)' = (pin[t][UserRow(a)] + received) - (pout[t][UserRow(a)] + paid)
      BY <2>3 DEF Net
    <3>3. received \in Int /\ paid \in Int
      BY <1>7
    <3> QED
      BY <2>2, <3>1, <3>2, <3>3
  <2>5. cash - latest[CashRow(a)] + (credit - latest[CreditRow(a)]) = received - paid
    BY <1>7
  <2> QED
    BY <1>9, <2>4, <2>5
<1>14. ASSUME NEW u \in Users \ {a}
       PROVE  Net(t, u)' = Owed(t, CashRow(u))' + Owed(t, CreditRow(u))'
  <2>1. \A r \in AccountsOf(u) : r \notin DOMAIN saved'[t] /\ r \notin DOMAIN saved[t]
    BY <1>1, <1>2, <1>8, UserFacts DEF NothingSaved
  <2>2. \A r \in AccountsOf(u) : Owed(t, r)' = Owed(t, r)
    BY <1>5, <2>1 DEF Owed
  <2>3. Net(t, u)' = Net(t, u)
    BY <1>11 DEF Net
  <2> QED
    BY <1>1, <2>2, <2>3 DEF ThreadJava, BooksOwed, AccountsOf
<1>15. BooksOwed(t)'
  BY <1>13, <1>14 DEF BooksOwed
<1>16. Account(t)' = a
  BY DEF Account
<1>17. SavesAccount(t)'
  BY <1>3, <1>5, <1>8, <1>10, <1>16 DEF SavesAccount, AccountsOf
<1>18. Untouched(t)' /\ Requested(t)' /\ InHand(t)' /\ VisitsLocked(t)' /\ shared'[t] = {}
  <2>1. Ahead(t)' \subseteq Ahead(t)
    BY <1>1, <1>10, AheadUsers DEF Ahead, Ends
  <2> QED
    BY <1>1, <1>5, <1>10, <2>1 DEF ThreadJava, Untouched, Requested, InHand, VisitsLocked,
                                   ResetLabels, StockSteps, AccountSteps
<1>19. RowsKeyed(t)'
  <2>1. RowsInUse(t)' = RowsInUse(t) /\ ~WillCommit(t)
    BY <1>1, <1>10 DEF RowsInUse, UsersInUse, ProductsInUse, WillCommit
  <2> QED
    BY <1>1, <1>5, <2>1 DEF ThreadJava, RowsKeyed, Ends
<1>20. FreeRowsCommitted' /\ AccountsBalance'
  BY <1>5 DEF JavaSound, FreeRowsCommitted, AccountsBalance
<1> QED
  BY <1>12, <1>15, <1>17, <1>18, <1>19, <1>20, JavaStep DEF ThreadJava

LEMMA PayBillJava ==
  ASSUME StockInv, JavaLocked, JavaSound, NEW t \in Threads, PayBill(t)
  PROVE  JavaSound'
<1>1. /\ pc[t] = "credit" /\ Read(t, {CreditRow(Account(t))})
      /\ UNCHANGED <<seen, kind, who, todo, batch, outflow, inflow>>
      /\ kind[t] = "usage"
  BY DEF PayBill, requestVars, workVars, bookVars, JavaSound, ThreadJava, Requested
<1>2. PICK cash, credit, paid : Settles(t, Account(t), cash, credit, paid, 0)
  <2>1. ~(Leave(t, "biz") /\ UNCHANGED <<pout, saved>>)
    <3>1. Goto(t, "status")
      BY <1>1 DEF PayBill
    <3>2. BizTypeOK
      BY DEF StockInv, TypeOK
    <3> QED
      BY <3>1, <3>2, LeaveKeys, GotoPc
  <2> QED
    BY <2>1, PayBillSettles
<1>3. Goto(t, "status")
  BY <1>1 DEF PayBill
<1> QED
  BY <1>1, <1>2, <1>3, SettleJava

LEMMA RechargeJava ==
  ASSUME StockInv, JavaLocked, JavaSound, NEW t \in Threads, Recharge(t)
  PROVE  JavaSound'
<1>1. /\ pc[t] = "credit" /\ Read(t, {CreditRow(Account(t))}) /\ Goto(t, "status")
      /\ UNCHANGED <<seen, kind, who, todo, batch, outflow, inflow>>
  BY DEF Recharge, requestVars, workVars, bookVars
<1> QED
  BY <1>1, RechargeSettles, SettleJava

(* A row in use is written by nobody else. *)
LEMMA WriteApart ==
  ASSUME StockInv, BodiesExclusive, JavaLocked, JavaSound, NEW t \in Threads,
         NEW r \in RowsInUse(t), NEW value, Update(t, r, value, FALSE)
  PROVE  /\ OutOfReach(t) /\ FreeRowsCommitted' /\ r \in Rows
         /\ UNCHANGED <<conf, committed, shared>>
         /\ holder'[r] = t /\ latest'[r] = value
         /\ \A s \in Rows : s # r => holder'[s] = holder[s] /\ latest'[s] = latest[s]
         /\ holder[r] # t => latest[r] = committed[r]
<1>1. DatabaseTypeOK /\ r \in DataRows /\ r \in Rows
  BY DataFacts DEF StockInv, TypeOK, RowsInUse
<1>2. UNCHANGED <<conf, committed, shared>>
  BY <1>1, JavaFacts
<1>3. /\ holder'[r] = t /\ latest'[r] = value
      /\ \A s \in Rows : s # r => holder'[s] = holder[s] /\ latest'[s] = latest[s]
      /\ holder[r] \in {t, NoThread}
  BY <1>1 DEF Update, UpdateBlockers, LockBlockers, DatabaseTypeOK
<1>4. holder[r] # t => latest[r] = committed[r]
  BY <1>1, <1>3 DEF JavaSound, FreeRowsCommitted
<1>5. OutOfReach(t)
  <2> SUFFICES ASSUME NEW v \in Threads \ {t}
               PROVE  /\ shared'[v] = shared[v]
                      /\ \A s \in DataRows :
                           /\ holder'[s] = v <=> holder[s] = v
                           /\ holder[s] = v =>
                                latest'[s] = latest[s] /\ committed'[s] = committed[s]
                           /\ s \in RowsInUse(v) \cap AccountRows => latest'[s] = latest[s]
    BY DEF OutOfReach
  <2>1. v \notin {t, NoThread} /\ r \notin RowsInUse(v)
    BY UseApart, DatabaseAssumption
  <2> QED
    BY <1>2, <1>3, <2>1, DataFacts
<1>6. FreeRowsCommitted'
  BY <1>2, <1>3, DataFacts, DatabaseAssumption DEF JavaSound, FreeRowsCommitted
<1> QED
  BY <1>1, <1>2, <1>3, <1>4, <1>5, <1>6

(* A pending account row is written while its user is locked. *)
LEMMA FlushJava ==
  ASSUME StockInv, BodiesExclusive, JavaLocked, JavaSound, NEW t \in Threads, Flush(t)
  PROVE  JavaSound'
<1>1. /\ ThreadJava(t) /\ BizTypeOK /\ DatabaseTypeOK
      /\ NextWrite(t) \in DOMAIN saved[t] /\ DOMAIN saved[t] \subseteq AccountRows
  BY NextWriteFacts DEF Flush, JavaSound, StockInv, TypeOK, BizTypeOK
<1>2. PICK row \in DOMAIN saved[t] : row = NextWrite(t)
  BY <1>1
<1>3. /\ Update(t, row, saved[t][row], FALSE)
      /\ saved' = [saved EXCEPT ![t] = Restrict(@, DOMAIN @ \ {row})]
      /\ UNCHANGED <<pc, seen, kind, who, todo, batch, pin, pout, outflow, inflow, outcome>>
  BY <1>2 DEF Flush, requestVars, workVars, bookVars
<1>4. /\ pc[t] = "status" /\ row \in AccountsOf(Account(t)) /\ holder[row] # t
      /\ \A r \in DOMAIN saved[t] : r \in AccountsOf(Account(t)) /\ holder[r] # t
      /\ Account(t) \in Users /\ row \in RowsInUse(t)
  <2>1. saved[t] # NothingSaved
    BY DEF Flush
  <2> QED
    BY <1>1, <2>1, AtLocked DEF ThreadJava, SavesAccount
<1>5. /\ OutOfReach(t) /\ FreeRowsCommitted' /\ row \in Rows
      /\ UNCHANGED <<conf, committed, shared>>
      /\ holder'[row] = t /\ latest'[row] = saved[t][row]
      /\ \A s \in Rows : s # row => holder'[s] = holder[s] /\ latest'[s] = latest[s]
      /\ latest[row] = committed[row]
  <2>1. row \in RowsInUse(t) /\ holder[row] # t
    BY <1>4
  <2> DEFINE value == saved[t][row]
  <2>2. Update(t, row, value, FALSE)
    BY <1>3
  <2> HIDE DEF value
  <2>3. /\ OutOfReach(t) /\ FreeRowsCommitted' /\ row \in Rows
        /\ UNCHANGED <<conf, committed, shared>>
        /\ holder'[row] = t /\ latest'[row] = value
        /\ \A s \in Rows : s # row => holder'[s] = holder[s] /\ latest'[s] = latest[s]
        /\ holder[row] # t => latest[row] = committed[row]
    BY <2>1, <2>2, WriteApart
  <2> QED
    BY <2>1, <2>3 DEF value
<1>6. /\ DOMAIN saved'[t] = DOMAIN saved[t] \ {row}
      /\ \A r \in DOMAIN saved'[t] : saved'[t][r] = saved[t][r]
      /\ \A v \in Threads \ {t} : saved'[v] = saved[v]
  BY <1>1, <1>3 DEF Restrict, BizTypeOK
<1>7. OthersGoOn(t) /\ \A u \in Users : Net(t, u)' = Net(t, u)
  BY <1>3, <1>6 DEF OthersGoOn, OthersRest, Net
<1>8. \A r \in AccountRows : Owed(t, r)' = Owed(t, r)
  <2>1. Owed(t, row)' = Owed(t, row)
    BY <1>5, <1>6 DEF Owed
  <2>2. ASSUME NEW r \in AccountRows, r # row PROVE Owed(t, r)' = Owed(t, r)
    <3>1. r \in Rows
      BY UserFacts
    <3> QED
      BY <1>5, <1>6, <2>2, <3>1 DEF Owed
  <2> QED
    BY <2>1, <2>2
<1>9. BooksOwed(t)'
  BY <1>1, <1>7, <1>8, RowFacts DEF ThreadJava, BooksOwed
<1>10. Account(t)' = Account(t) /\ RowsInUse(t)' = RowsInUse(t) /\ ~WillCommit(t)
  BY <1>3, <1>4 DEF Account, RowsInUse, UsersInUse, ProductsInUse, WillCommit
<1>11. SavesAccount(t)'
  <2>1. \A r \in DOMAIN saved'[t] : r \in AccountsOf(Account(t)) /\ holder'[r] # t
    BY <1>1, <1>4, <1>5, <1>6, UserFacts
  <2> QED
    BY <1>3, <1>4, <1>10, <2>1 DEF SavesAccount
<1>12. RowsKeyed(t)' /\ shared'[t] = {}
  BY <1>1, <1>4, <1>5, <1>10, DataFacts DEF ThreadJava, RowsKeyed, Ends
<1>13. Untouched(t)'
  <2>1. Ahead(t)' = Ahead(t) /\ Ahead(t) \subseteq Users /\ Account(t) \notin Ahead(t)
    BY <1>3, <1>4, <1>10, AheadUsers DEF Ahead, Ends
  <2>2. \A u \in Ahead(t) : row \notin AccountsOf(u) /\ AccountsOf(u) \subseteq Rows
    BY <1>4, <2>1, UserFacts
  <2> QED
    BY <1>1, <1>5, <2>1, <2>2 DEF ThreadJava, Untouched
<1>14. Requested(t)' /\ InHand(t)' /\ VisitsLocked(t)'
  BY <1>1, <1>3, <1>4 DEF ThreadJava, Requested, InHand, VisitsLocked, StockSteps, AccountSteps
<1>15. AccountsBalance'
  BY <1>3, <1>5 DEF JavaSound, AccountsBalance
<1> QED
  BY <1>5, <1>7, <1>9, <1>11, <1>12, <1>13, <1>14, <1>15, JavaStep DEF ThreadJava

(* A reload fills the stock as it is, and goes on, or is done, or gets no  *)
(* id for its log.                                                         *)
LEMMA FillsJava ==
  ASSUME StockInv, BodiesExclusive, JavaLocked, JavaSound, NEW t \in Threads, pc[t] = "restock",
         NEW p \in Products, p = First(todo[t]), NEW stock \in Int,
         Update(t, ProductRow(p), stock, FALSE),
         UNCHANGED <<kind, who, batch, seen, saved, outflow, inflow>>,
         \A v \in Threads, u \in Users : Net(v, u)' = Net(v, u),
         \A v \in Threads \ {t} : todo'[v] = todo[v] /\ pc'[v] = pc[v] /\ outcome'[v] = outcome[v],
         todo'[t] \subseteq todo[t],
         pc'[t] = "reload" \/ pc'[t] \in Ends
  PROVE  JavaSound'
<1>1. /\ ThreadJava(t) /\ BizTypeOK /\ DatabaseTypeOK /\ saved[t] = NothingSaved
  BY DEF JavaSound, ThreadJava, SavesAccount, StockInv, TypeOK
<1>2. PICK row \in DataRows : row = ProductRow(p) /\ row \in RowsInUse(t)
  BY <1>1, AtLocked, DataFacts DEF StockSteps
<1>3. /\ OutOfReach(t) /\ FreeRowsCommitted' /\ row \in Rows
      /\ UNCHANGED <<conf, committed, shared>>
      /\ holder'[row] = t /\ latest'[row] = stock
      /\ \A s \in Rows : s # row => holder'[s] = holder[s] /\ latest'[s] = latest[s]
  <2>1. row \in RowsInUse(t)
    BY <1>2
  <2>2. Update(t, row, stock, FALSE)
    BY <1>2
  <2>3. /\ OutOfReach(t) /\ FreeRowsCommitted' /\ row \in Rows
        /\ UNCHANGED <<conf, committed, shared>>
        /\ holder'[row] = t /\ latest'[row] = stock
        /\ \A s \in Rows : s # row => holder'[s] = holder[s] /\ latest'[s] = latest[s]
        /\ holder[row] # t => latest[row] = committed[row]
    BY <2>1, <2>2, WriteApart
  <2> QED
    BY <2>3
<1>4. OthersGoOn(t)
  BY DEF OthersGoOn, OthersRest
<1>5. \A u \in Users : \A s \in AccountsOf(u) : s # row /\ s \in Rows
  BY <1>2, UserFacts, ProductRowFacts
<1>6. BooksOwed(t)' /\ SavesAccount(t)'
  <2>1. \A u \in Users : \A s \in AccountsOf(u) : Owed(t, s)' = Owed(t, s)
    BY <1>3, <1>5 DEF Owed
  <2> QED
    BY <1>1, <2>1 DEF ThreadJava, BooksOwed, SavesAccount, AccountsOf
<1>7. Untouched(t)'
  <2>1. Ahead(t) = Users /\ Ahead(t)' \subseteq Users
    BY DEF Ahead, Ends
  <2> QED
    BY <1>1, <1>3, <1>5, <2>1 DEF ThreadJava, Untouched
<1>8. RowsKeyed(t)' /\ shared'[t] = {}
  <2>1. \A r \in DataRows : holder'[r] = t => r \in RowsInUse(t)
    BY <1>1, <1>2, <1>3, DataFacts DEF ThreadJava, RowsKeyed, WillCommit, Ends
  <2>2. CASE pc'[t] = "reload"
    BY <1>1, <1>3, <2>1, <2>2 DEF ThreadJava, RowsKeyed, RowsInUse, UsersInUse, ProductsInUse
  <2>3. CASE pc'[t] \in Ends
    <3>1. RowsInUse(t) \subseteq ProductRows
      BY ProductRowFacts DEF RowsInUse, UsersInUse, ProductsInUse, InBatch, ProductRows, ProductRow
    <3> QED
      BY <1>1, <1>3, <2>1, <2>3, <3>1 DEF ThreadJava, RowsKeyed
  <2> QED
    BY <2>2, <2>3
<1>9. Requested(t)' /\ InHand(t)' /\ VisitsLocked(t)'
  BY <1>1 DEF ThreadJava, Requested, InHand, VisitsLocked, ResetLabels, Ends, StockSteps,
              AccountSteps
<1>10. AccountsBalance'
  BY <1>3, <1>5 DEF JavaSound, AccountsBalance, AccountsOf
<1> QED
  BY <1>3, <1>4, <1>6, <1>7, <1>8, <1>9, <1>10, JavaStep DEF ThreadJava

LEMMA RestockJava ==
  ASSUME StockInv, BodiesExclusive, JavaLocked, JavaSound, NEW t \in Threads, Restock(t)
  PROVE  JavaSound'
<1>1. /\ BizTypeOK /\ pc[t] = "restock"
      /\ seen[t] \in Int /\ ProductStockMax \in Int /\ \A r \in Rows : latest[r] \in Int
  BY TablesAssumption DEF Restock, StockInv, TypeOK, BizTypeOK, DatabaseTypeOK
<1>2. PICK p \in Products : p = First(todo[t]) /\ ProductRow(p) \in Rows
  BY <1>1, ProductFacts, RowFacts
<1>3. PICK stock \in Int : stock = latest[ProductRow(p)] + (ProductStockMax - seen[t])
  BY <1>1, <1>2
<1>4. /\ Update(t, ProductRow(p), stock, FALSE)
      /\ \E n : pin' = [pin EXCEPT ![t][ProductRow(p)] = @ + n]
      /\ todo' = [todo EXCEPT ![t] = @ \ {p}]
      /\ Leave(t, "ok") \/ Goto(t, "reload")
      /\ UNCHANGED <<kind, who, batch, seen, saved, pout, outflow, inflow>>
  BY <1>2, <1>3 DEF Restock, requestVars, workVars, bookVars
<1>5. \A v \in Threads, u \in Users : Net(v, u)' = Net(v, u)
  <2>1. pin \in [Threads -> [Rows -> Int]]
    BY <1>1 DEF BizTypeOK
  <2>2. PICK n : pin' = [pin EXCEPT ![t][ProductRow(p)] = @ + n]
    BY <1>4
  <2>3. \A v \in Threads, u \in Users : pin'[v][UserRow(u)] = pin[v][UserRow(u)]
    BY <2>1, <2>2, ProductEntry
  <2> QED
    BY <1>4, <2>3 DEF Net
<1>6. todo'[t] \subseteq todo[t] /\ \A v \in Threads \ {t} : todo'[v] = todo[v]
  BY <1>1, <1>4 DEF BizTypeOK
<1>7. /\ \A v \in Threads \ {t} : pc'[v] = pc[v] /\ outcome'[v] = outcome[v]
      /\ pc'[t] = "reload" \/ pc'[t] \in Ends
  <2>1. CASE Leave(t, "ok")
    BY <1>1, <2>1, LeavesForCommit
  <2>2. CASE Goto(t, "reload")
    BY <1>1, <2>2 DEF Goto, BizTypeOK
  <2> QED
    BY <1>4, <2>1, <2>2
<1> QED
  BY <1>1, <1>2, <1>3, <1>4, <1>5, <1>6, <1>7, FillsJava

(* A recharge for one user holds nothing before its account is written. *)
LEMMA HoldsNothing ==
  ASSUME StockInv, RechargeSizes, JavaLocked, JavaSound, ClockMayGoBack,
         NEW t \in Threads, pc[t] \in {"source", "credit"}
  PROVE  \A r \in DataRows : holder[r] # t
<1>1. ThreadJava(t) /\ kind[t] \in {"usage", "recharge"} /\ who[t] \subseteq Users
  BY DEF JavaSound, ThreadJava, Requested, StockInv, WorkOK, ThreadOK, TypeOK, BizTypeOK
<1>2. who[t] \subseteq Ahead(t)
  <2>1. CASE kind[t] = "usage"
    BY <1>1, <2>1 DEF Ahead, Ends
  <2>2. CASE kind[t] = "recharge"
    <3>1. PICK u : who[t] = {u}
      <4>1. Cardinality(who[t]) = 1 /\ IsFiniteSet(who[t])
        BY <1>1, <2>2, FS_Subset, TablesAssumption DEF RechargeSizes, RechargeSets, JavaLocked
      <4> QED
        BY <4>1, FS_Singleton
    <3>2. todo[t] # {} /\ todo[t] \subseteq who[t]
      BY <1>1, <2>2 DEF ThreadJava, VisitsLocked, AccountSteps, StockInv, WorkOK, ThreadOK
    <3> QED
      BY <2>2, <3>1, <3>2 DEF Ahead, Ends
  <2> QED
    BY <1>1, <2>1, <2>2
<1>3. \A r \in RowsInUse(t) : \E u \in who[t] : r \in AccountsOf(u)
  BY <1>1 DEF RowsInUse, UsersInUse, ProductsInUse
<1> QED
  BY <1>1, <1>2, <1>3 DEF ThreadJava, RowsKeyed, Untouched, WillCommit, Ends

(* Where Snowflake.nextId fails, no account has been written. *)
LEMMA NextIdJava ==
  ASSUME StockInv, RechargeSizes, BodiesExclusive, JavaLocked, JavaSound, NEW t \in Threads,
         NextIdThrows(t)
  PROVE  JavaSound'
<1>1. /\ UNCHANGED <<seen, saved, kind, who, todo, batch, pin, pout, outflow, inflow>>
      /\ pc'[t] \in Ends /\ pc'[t] \in {"unlock", "rollback"} /\ ClockMayGoBack
      /\ \A v \in Threads \ {t} : pc'[v] = pc[v] /\ outcome'[v] = outcome[v]
  BY NextIdFacts DEF Ends, NextIdThrows
<1>2. \A v \in Threads, u \in Users : Net(v, u)' = Net(v, u)
  BY <1>1 DEF Net
<1>3. CASE pc[t] = "restock"
  <2>1. PICK p \in Products :
          /\ p = First(todo[t])
          /\ Update(t, ProductRow(p), latest[ProductRow(p)] + (ProductStockMax - seen[t]), FALSE)
    BY <1>3, NextIdFacts
  <2>2. /\ latest[ProductRow(p)] \in Int /\ ProductStockMax \in Int /\ seen[t] \in Int
    BY RowFacts, TablesAssumption DEF StockInv, TypeOK, BizTypeOK, DatabaseTypeOK
  <2>3. PICK stock \in Int : stock = latest[ProductRow(p)] + (ProductStockMax - seen[t])
    BY <2>2
  <2>4. Update(t, ProductRow(p), stock, FALSE)
    BY <2>1, <2>3
  <2> QED
    BY <1>1, <1>2, <1>3, <2>1, <2>3, <2>4, FillsJava
<1>4. CASE pc[t] \in {"source", "credit"}
  <2>1. /\ ThreadJava(t) /\ BizTypeOK /\ DatabaseTypeOK /\ UNCHANGED dbVars
        /\ \A r \in DataRows : holder[r] # t
    BY <1>1, <1>4, NextIdFacts, HoldsNothing, JavaFacts DEF JavaSound, StockInv, TypeOK
  <2>2. OthersGoOn(t) /\ ~WillCommit(t) /\ Ahead(t)' = {}
    BY <1>1, <1>2, <1>4 DEF OthersGoOn, OthersRest, WillCommit, Ahead
  <2>3. Requested(t)' /\ InHand(t)' /\ VisitsLocked(t)'
    BY <1>1, <2>1 DEF ThreadJava, Requested, InHand, VisitsLocked, ResetLabels, StockSteps,
                      AccountSteps
  <2> QED
    BY <1>1, <1>2, <1>4, <2>1, <2>2, <2>3, QuietJava
<1>5. pc[t] # "deduct"
  BY DEF JavaSound, ThreadJava, Requested, StockInv, WorkOK, ThreadOK
<1> QED
  BY <1>3, <1>4, <1>5, NextIdFacts

-----------------------------------------------------------------------------
(* The end of a transaction: what is held is committed, or nothing is.     *)
LEMMA EndJava ==
  ASSUME StockInv, JavaSound, NEW t \in Threads, Clear(t),
         \/ CommitTransaction(t)
         \/ RollbackTransaction(t) /\ \A r \in AccountRows : holder[r] # t,
         pc'[t] \in {"idle", "lockUser"},
         kind'[t] \in {"none", "usage", "recharge", "reload"},
         \A v \in Threads \ {t} : /\ pc'[v] = pc[v] /\ kind'[v] = kind[v]
                                 /\ who'[v] = who[v] /\ todo'[v] = todo[v]
                                 /\ outcome'[v] = outcome[v],
         AccountsBalance'
  PROVE  JavaSound'
<1>1. DatabaseTypeOK /\ BizTypeOK
  BY DEF StockInv, TypeOK
<1>2. /\ saved'[t] = NothingSaved
      /\ \A v \in Threads \ {t} : seen'[v] = seen[v] /\ saved'[v] = saved[v]
  BY <1>1 DEF Clear, BizTypeOK
<1>3. /\ \A v \in Threads \ {t} : pin'[v] = pin[v] /\ pout'[v] = pout[v] /\ batch'[v] = batch[v]
      /\ \A r \in Rows : pin'[t][r] = 0 /\ pout'[t][r] = 0
  BY <1>1, ClearFacts
<1>4. OthersGoOn(t)
  BY <1>2, <1>3 DEF OthersGoOn, OthersRest, Net
<1>5. /\ \A r \in Rows : holder'[r] = IF holder[r] = t THEN NoThread ELSE holder[r]
      /\ shared'[t] = {} /\ \A v \in Threads \ {t} : shared'[v] = shared[v]
  BY <1>1 DEF CommitTransaction, RollbackTransaction, Forget, DatabaseTypeOK
<1>6. \A r \in Rows : IF holder[r] = t THEN latest'[r] = committed'[r]
                      ELSE latest'[r] = latest[r] /\ committed'[r] = committed[r]
  BY DEF CommitTransaction, RollbackTransaction
<1>7. \A r \in AccountRows : latest'[r] = latest[r]
  <2>1. CASE CommitTransaction(t)
    BY <2>1 DEF CommitTransaction
  <2>2. CASE RollbackTransaction(t) /\ \A r \in AccountRows : holder[r] # t
    BY <1>6, <2>2, DataFacts
  <2> QED
    BY <2>1, <2>2
<1>8. OutOfReach(t)
  BY <1>5, <1>6, <1>7, DataFacts, DatabaseAssumption DEF OutOfReach
<1>9. FreeRowsCommitted'
  BY <1>5, <1>6, DataFacts DEF JavaSound, FreeRowsCommitted
<1>10. \A r \in DataRows : holder'[r] # t
  BY <1>5, DataFacts, DatabaseAssumption
<1>11. BooksOwed(t)'
  <2>1. \A u \in Users : Net(t, u)' = 0
    BY <1>3, UserFacts DEF Net
  <2>2. \A r \in DataRows : Owed(t, r)' = 0
    BY <1>2, <1>10 DEF Owed, NothingSaved
  <2> QED
    BY <2>1, <2>2, DataFacts DEF BooksOwed, AccountsOf
<1>12. Untouched(t)'
  <2>1. Ahead(t)' = Users
    BY DEF Ahead, Ends
  <2> QED
    BY <1>10, <2>1, DataFacts DEF Untouched
<1>13. RowsKeyed(t)' /\ SavesAccount(t)' /\ shared'[t] = {}
  BY <1>2, <1>5, <1>10 DEF RowsKeyed, SavesAccount
<1>14. Requested(t)' /\ InHand(t)' /\ VisitsLocked(t)'
  BY DEF Requested, InHand, VisitsLocked, ResetLabels, StockSteps, AccountSteps
<1> QED
  BY <1>4, <1>8, <1>9, <1>11, <1>12, <1>13, <1>14, JavaStep DEF ThreadJava

LEMMA AnswersJava ==
  ASSUME StockInv, NEW t \in Threads, Answer(t)
  PROVE  /\ pc'[t] = "idle" /\ kind'[t] = "none"
         /\ \A v \in Threads \ {t} : /\ pc'[v] = pc[v] /\ kind'[v] = kind[v]
                                    /\ who'[v] = who[v] /\ todo'[v] = todo[v]
                                    /\ outcome'[v] = outcome[v]
BY AnswerFacts DEF Answer, StockInv, TypeOK, BizTypeOK

(* The trades are committed together with what they say of the accounts.   *)
LEMMA CommitJava ==
  ASSUME StockInv, JavaSound, NEW t \in Threads, Commit(t)
  PROVE  JavaSound'
<1>1. /\ CommitTransaction(t) /\ Clear(t) /\ Answer(t)
      /\ outflow' = [r \in Rows |-> outflow[r] + pout[t][r]]
      /\ inflow'  = [r \in Rows |-> inflow[r] + pin[t][r]]
      /\ saved[t] = NothingSaved /\ ThreadJava(t)
  BY DEF Commit, CommitBiz, CommitReset, JavaSound, ThreadJava, Requested, ResetLabels
<1>2. \A r \in Rows : committed'[r] = IF holder[r] = t THEN latest[r] ELSE committed[r]
  BY <1>1 DEF CommitTransaction
<1>3. ASSUME NEW u \in Users
      PROVE  CashInit + CreditInit + inflow'[UserRow(u)]
               = committed'[CashRow(u)] + committed'[CreditRow(u)] + outflow'[UserRow(u)]
  <2>1. /\ outflow'[UserRow(u)] = outflow[UserRow(u)] + pout[t][UserRow(u)]
        /\ inflow'[UserRow(u)] = inflow[UserRow(u)] + pin[t][UserRow(u)]
        /\ outflow[UserRow(u)] \in Int /\ inflow[UserRow(u)] \in Int
        /\ pout[t][UserRow(u)] \in Int /\ pin[t][UserRow(u)] \in Int
        /\ committed[CashRow(u)] \in Int /\ committed[CreditRow(u)] \in Int
        /\ latest[CashRow(u)] \in Int /\ latest[CreditRow(u)] \in Int
        /\ CashInit \in Int /\ CreditInit \in Int
    BY <1>1, UserFacts, TablesAssumption DEF StockInv, TypeOK, BizTypeOK, DatabaseTypeOK
  <2>2. CashInit + CreditInit + inflow[UserRow(u)]
          = committed[CashRow(u)] + committed[CreditRow(u)] + outflow[UserRow(u)]
    BY DEF JavaSound, AccountsBalance
  <2>3. committed'[CashRow(u)] \in Int /\ committed'[CreditRow(u)] \in Int
    BY <1>2, <2>1, UserFacts
  <2>4. \A r \in AccountsOf(u) : Owed(t, r) = committed'[r] - committed[r]
    BY <1>1, <1>2, <2>1, UserFacts DEF Owed, NothingSaved, AccountsOf
  <2>5. pin[t][UserRow(u)] - pout[t][UserRow(u)]
          = (committed'[CashRow(u)] - committed[CashRow(u)])
             + (committed'[CreditRow(u)] - committed[CreditRow(u)])
    BY <1>1, <2>4 DEF ThreadJava, BooksOwed, Net, AccountsOf
  <2>6. committed'[CashRow(u)] + committed'[CreditRow(u)]
          = committed[CashRow(u)] + committed[CreditRow(u)]
              + pin[t][UserRow(u)] - pout[t][UserRow(u)]
    BY <2>1, <2>3, <2>5
  <2> QED
    BY <2>1, <2>2, <2>6
<1>4. AccountsBalance'
  BY <1>3 DEF AccountsBalance
<1> QED
  BY <1>1, <1>4, AnswersJava, EndJava

(* What is rolled back has written no account. *)
LEMMA RollbackJava ==
  ASSUME StockInv, JavaSound, NEW t \in Threads, GiveUp(t) \/ Retry(t)
  PROVE  JavaSound'
<1>1. /\ RollbackTransaction(t) /\ Clear(t) /\ UNCHANGED <<outflow, inflow>>
      /\ pc[t] = "rollback" /\ ThreadJava(t)
      /\ Answer(t) \/ Retry(t)
  BY DEF GiveUp, Retry, RollbackBiz, RollbackReset, bookVars, JavaSound, ThreadJava, Requested,
         ResetLabels
<1>2. \A r \in AccountRows : holder[r] # t
  BY <1>1, DataFacts DEF ThreadJava, RowsKeyed, WillCommit, RowsInUse, UsersInUse, ProductsInUse
<1>3. /\ pc'[t] \in {"idle", "lockUser"}
      /\ kind'[t] \in {"none", "usage", "recharge", "reload"}
      /\ \A v \in Threads \ {t} : /\ pc'[v] = pc[v] /\ kind'[v] = kind[v]
                                  /\ who'[v] = who[v] /\ todo'[v] = todo[v]
                                  /\ outcome'[v] = outcome[v]
  <2>1. CASE Answer(t)
    BY <2>1, AnswersJava
  <2>2. CASE Retry(t)
    <3>1. /\ pc' = [pc EXCEPT ![t] = "lockUser"] /\ todo' = [todo EXCEPT ![t] = who[t]]
          /\ outcome' = [outcome EXCEPT ![t] = "ok"] /\ UNCHANGED <<kind, who>>
      BY <2>2 DEF Retry, Retries, FirstStep, requestVars
    <3> QED
      BY <1>1, <3>1 DEF StockInv, TypeOK, BizTypeOK, ThreadJava, Requested
  <2> QED
    BY <1>1, <2>1, <2>2
<1>4. AccountsBalance'
  BY <1>1 DEF RollbackTransaction, JavaSound, AccountsBalance
<1> QED
  BY <1>1, <1>2, <1>3, <1>4, EndJava

-----------------------------------------------------------------------------
(* No order, no reset and no refused statement is among the steps. *)
LEMMA NotRequested ==
  ASSUME StockInv, BodiesExclusive, JavaLocked, JavaSound, NEW t \in Threads
  PROVE  /\ ~FillCart(t) /\ ~DrawFails(t) /\ ~DeductStock(t) /\ ~SkipProduct(t)
         /\ ~StatementFails(t) /\ ~CommitRefused(t) /\ ~LockThrows(t) /\ ~UnlockThrows(t)
         /\ ~ResetRow(t) /\ ~Clears(t)
<1>1. /\ kind[t] # "package" /\ pc[t] \notin ResetLabels
      /\ pc[t] \in {"cart", "deduct"} => kind[t] = "package"
  BY DEF JavaSound, ThreadJava, Requested, StockInv, WorkOK, ThreadOK
<1>2. ~StatementFails(t) /\ conf.profile # "pgsql"
  BY NeverVictim, JavaFacts DEF StockInv, TypeOK
<1>3. ~FillCart(t) /\ ~DrawFails(t) /\ ~DeductStock(t) /\ ~SkipProduct(t)
  BY <1>1 DEF FillCart, DrawFails, DeductStock, SkipProduct
<1>4. ~CommitRefused(t) /\ ~LockThrows(t) /\ ~UnlockThrows(t)
  BY <1>2 DEF CommitRefused, LockThrows, UnlockThrows, JavaLocked
<1>5. ~ResetRow(t) /\ ~Clears(t)
  BY <1>1, ClearsFacts DEF ResetRow, ResetLabels, UpdateLabels
<1> QED
  BY <1>2, <1>3, <1>4, <1>5

LEMMA UnchangedJava ==
  ASSUME JavaSound, Expire \/ Quiet \/ UNCHANGED vars
  PROVE  JavaSound'
<1>1. UNCHANGED <<dbVars, pc, kind, who, todo, batch, seen, saved, outcome, pin, pout,
                  outflow, inflow>>
  BY DEF Expire, Quiet, vars, requestVars, workVars, pendingVars, bookVars
<1>2. FreeRowsCommitted' /\ AccountsBalance'
  BY <1>1 DEF dbVars, JavaSound, FreeRowsCommitted, AccountsBalance
<1>3. ASSUME NEW t \in Threads PROVE ThreadJava(t)'
  <2>1. /\ \A r : Owed(t, r)' = Owed(t, r)
        /\ \A u : Net(t, u)' = Net(t, u)
        /\ Ahead(t)' = Ahead(t) /\ Account(t)' = Account(t)
        /\ RowsInUse(t)' = RowsInUse(t) /\ WillCommit(t)' = WillCommit(t)
    BY <1>1 DEF dbVars, Owed, Net, Ahead, Account, RowsInUse, UsersInUse, ProductsInUse, WillCommit
  <2>2. ThreadJava(t)
    BY DEF JavaSound
  <2>3. Requested(t)' /\ shared'[t] = {} /\ RowsKeyed(t)' /\ SavesAccount(t)' /\ VisitsLocked(t)'
    BY <1>1, <2>1, <2>2 DEF dbVars, ThreadJava, Requested, RowsKeyed, SavesAccount, VisitsLocked
  <2>4. BooksOwed(t)' /\ Untouched(t)' /\ InHand(t)'
    BY <1>1, <2>1, <2>2 DEF dbVars, ThreadJava, BooksOwed, Untouched, InHand
  <2> QED
    BY <2>3, <2>4 DEF ThreadJava
<1> QED
  BY <1>2, <1>3 DEF JavaSound

LEMMA JavaInit == Init => JavaInv
<1> SUFFICES ASSUME Init PROVE JavaSound
  BY DEF JavaInv
<1>1. CashInit \in Int /\ CreditInit \in Int
  BY TablesAssumption
<1>2. /\ \A r \in Rows : holder[r] = NoThread /\ latest[r] = committed[r]
      /\ \A u \in Users : /\ committed[CashRow(u)] = CashInit
                          /\ committed[CreditRow(u)] = CreditInit
  BY UserFacts DEF Init, InitialRow, CashRow, CreditRow
<1>3. /\ \A r \in Rows : outflow[r] = 0 /\ inflow[r] = 0
      /\ \A t \in Threads, r \in Rows : pin[t][r] = 0 /\ pout[t][r] = 0
      /\ \A t \in Threads : /\ pc[t] = "idle" /\ shared[t] = {}
                            /\ saved[t] = NothingSaved /\ kind[t] = "none"
  BY DEF Init, NoEntries
<1>4. FreeRowsCommitted /\ AccountsBalance
  BY <1>1, <1>2, <1>3, UserFacts, DataFacts DEF FreeRowsCommitted, AccountsBalance
<1>5. ASSUME NEW t \in Threads PROVE ThreadJava(t)
  <2>1. \A u \in Users : Net(t, u) = 0
    BY <1>3, UserFacts DEF Net
  <2>2. \A r \in DataRows : holder[r] # t
    BY <1>2, DataFacts, DatabaseAssumption
  <2>3. \A r \in DataRows : Owed(t, r) = 0
    BY <1>3, <2>2 DEF Owed, NothingSaved
  <2>4. Ahead(t) = Users
    BY <1>3 DEF Ahead, Ends
  <2>5. BooksOwed(t) /\ Untouched(t)
    BY <2>1, <2>2, <2>3, <2>4, DataFacts DEF BooksOwed, Untouched, AccountsOf
  <2>6. RowsKeyed(t) /\ SavesAccount(t) /\ InHand(t) /\ VisitsLocked(t) /\ Requested(t)
    BY <1>3, <2>2 DEF RowsKeyed, SavesAccount, InHand, VisitsLocked, Requested, ResetLabels,
                      StockSteps, AccountSteps
  <2> QED
    BY <1>3, <2>5, <2>6 DEF ThreadJava
<1> QED
  BY <1>4, <1>5 DEF JavaSound

LEMMA JavaNext ==
  StockInv /\ OneUsers /\ RechargeSizes /\ BodiesExclusive /\ JavaInv /\ [Next]_vars => JavaInv'
<1> SUFFICES ASSUME StockInv, OneUsers, RechargeSizes, BodiesExclusive, JavaInv, [Next]_vars,
                    JavaLocked'
             PROVE  JavaSound'
  BY DEF JavaInv
<1>1. conf' = conf
  <2>1. ASSUME NEW t \in Threads, Execute(t) \/ Work(t) PROVE conf' = conf
    BY <2>1, ConfKept DEF Work
  <2>2. CASE Expire \/ Quiet \/ UNCHANGED vars
    BY <2>2 DEF Expire, Quiet, vars, dbVars
  <2> QED
    BY <2>1, <2>2 DEF Next
<1>2. JavaLocked /\ JavaSound
  BY <1>1 DEF JavaInv, JavaLocked, DirtyReads, Level
<1>3. ASSUME NEW t \in Threads, BizStep(t) PROVE JavaSound'
  <2>1. CASE LockUser(t) \/ LockProduct(t) \/ FindInsufficient(t) \/ LockTimeout(t) \/ Unlock(t)
    BY <1>2, <2>1, LockUserJava, LockProductJava, FindJava, LockTimeoutJava, UnlockJava
  <2>2. CASE CreateSource(t) \/ ReadCash(t) \/ PayBill(t) \/ Recharge(t)
    BY <1>2, <2>2, SourceJava, ReadCashJava, PayBillJava, RechargeJava
  <2>3. CASE Flush(t) \/ UpdateStatusCode(t) \/ ReadStock(t) \/ Restock(t) \/ NextIdThrows(t)
    BY <1>2, <2>3, FlushJava, StatusJava, ReadStockJava, RestockJava, NextIdJava
  <2> QED
    BY <1>2, <1>3, <2>1, <2>2, <2>3, NotRequested DEF BizStep, Clears
<1>4. ASSUME NEW t \in Threads, Execute(t) \/ Work(t) PROVE JavaSound'
  BY <1>2, <1>3, <1>4, ExecuteJava, CommitJava, RollbackJava DEF Work
<1>5. CASE Expire \/ Quiet \/ UNCHANGED vars
  BY <1>2, <1>5, UnchangedJava
<1> QED
  BY <1>4, <1>5 DEF Next

LEMMA JavaAlways == Spec => []JavaInv
<1>1. Init => StockInv /\ OneUsers /\ RechargeSizes /\ JavaInv
  BY InitStep, StrictInit, SizesInit, JavaInit
<1>2. StockInv /\ OneUsers /\ RechargeSizes /\ JavaInv /\ BodiesExclusive /\ [Next]_vars
        => (StockInv /\ OneUsers /\ RechargeSizes /\ JavaInv)'
  BY NextStep, OneNext, SizesNext, JavaNext
<1>3. Spec => []BodiesExclusive
  BY BodiesApartUnderJavaLocks
<1> QED
  BY <1>1, <1>2, <1>3, PTL DEF Spec

(* The locks of JavaLockPlanServiceImpl, given back before the commit, are *)
(* enough for bills, recharges and reloads where the database isolates     *)
(* nothing (READ UNCOMMITTED): the accounts balance with the trades, for   *)
(* every number of threads, users and products, and with a failing         *)
(* Snowflake.nextId if a recharge is for one user.                         *)
THEOREM AccountsBalanceUnderJavaLocks == Spec => [](JavaLocked => AccountsBalance)
<1>1. JavaInv => (JavaLocked => AccountsBalance)
  BY DEF JavaInv, JavaSound
<1> QED
  BY <1>1, JavaAlways, PTL
=============================================================================
