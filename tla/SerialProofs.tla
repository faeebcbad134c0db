---------------------------- MODULE SerialProofs ----------------------------
(***************************************************************************)
(* What the row locks of DBPlanServiceImpl give: without resets every      *)
(* commit is one step of SerialBiz, the effect of AbstractBizService's     *)
(* operation run alone on the committed rows, whatever ran in between.     *)
(* The invariant says of every operation under way what it has made of the *)
(* committed rows so far, and that it has not touched the others.          *)
(***************************************************************************)
EXTENDS BalanceProofs

(* the value of a row as t will leave it *)
Mine(t, r) ==
  IF r \in DOMAIN saved[t] THEN saved[t][r]
  ELSE IF holder[r] = t    THEN latest[r]
  ELSE committed[r]

(* t has not changed the row and has entered nothing for it *)
Still(t, r) == Mine(t, r) = committed[r] /\ pout[t][r] = 0 /\ pin[t][r] = 0

(* the users t has billed or recharged *)
Served(t) ==
  IF kind[t] = "recharge"
  THEN IF pc[t] \in {"source", "cash", "credit"} THEN who[t] \ todo[t]
       ELSE IF pc[t] = "status" THEN who[t] \ (todo[t] \ {Account(t)})
       ELSE IF WillCommit(t) THEN who[t] ELSE {}
  ELSE IF kind[t] \in {"usage", "package"} /\ (pc[t] = "status" \/ WillCommit(t))
       THEN who[t] ELSE {}

(* the products t has sold, found too few of, or filled up *)
Handled(t) ==
  IF pc[t] \in {"deduct", "reload", "restock"} THEN InBatch(batch[t]) \ todo[t]
  ELSE IF \/ kind[t] = "package" /\ (pc[t] \in {"cash", "credit"} \/ WillCommit(t))
          \/ kind[t] = "reload" /\ WillCommit(t)
       THEN InBatch(batch[t]) ELSE {}

Leaves(t, u, result) ==
  Mine(t, CashRow(u)) = result.cash /\ Mine(t, CreditRow(u)) = result.credit

(* what doUsageBill or doPackageBill makes of the committed accounts *)
Billed(t, u) ==
  LET result == Consume(committed[CashRow(u)], committed[CreditRow(u)], due[t])
  IN /\ Leaves(t, u, result)
     /\ pout[t][UserRow(u)] = result.cashConsume + result.creditConsume
     /\ pin[t][UserRow(u)] = 0
     /\ kind[t] = "package" => result.debt = 0

(* what doRecharge makes of them *)
Recharged(t, u) ==
  LET amount == pin[t][UserRow(u)]
  IN /\ amount \in RechargeAmounts /\ pout[t][UserRow(u)] = 0
     /\ Leaves(t, u, CalculationRecharge(amount, committed[CashRow(u)],
                                         committed[CreditRow(u)], CreditInit))

UserSerial(t, u) ==
  /\ \A r \in AccountsOf(u) : pout[t][r] = 0 /\ pin[t][r] = 0
  /\ u \notin Served(t) => \A r \in AccountsOf(u) \cup {UserRow(u)} : Still(t, r)
  /\ u \in Served(t) => /\ holder[UserRow(u)] = t
                        /\ IF kind[t] = "recharge" THEN Recharged(t, u) ELSE Billed(t, u)

InStock(t, p) == committed[ProductRow(p)] >= batch[t][p]

(* the item of an order, if there is enough *)
Sold(t, p) ==
  LET r == ProductRow(p)
  IN /\ pin[t][r] = 0 /\ pout[t][r] = IF InStock(t, p) THEN batch[t][p] ELSE 0
     /\ Mine(t, r) = committed[r] - pout[t][r]

Refilled(t, p) ==
  LET r == ProductRow(p)
  IN /\ pout[t][r] = 0 /\ pin[t][r] = ProductStockMax - committed[r]
     /\ Mine(t, r) = ProductStockMax

ProductSerial(t, p) ==
  /\ p \notin Handled(t) => Still(t, ProductRow(p))
  /\ p \in Handled(t) => /\ holder[ProductRow(p)] = t
                         /\ IF kind[t] = "reload" THEN Refilled(t, p) ELSE Sold(t, p)

(* the price of each item so far *)
Price(t) ==
  [p \in Products |-> IF p \in Handled(t) /\ InStock(t, p) THEN PriceOf(p, batch[t][p]) ELSE 0]

(* the users and the amount of a request are among those SerialBiz knows *)
Asked(t) ==
  /\ pc[t] # "idle" => kind[t] \in {"package", "usage", "recharge", "reload"}
  /\ kind[t] \in {"package", "usage"} => \E u \in Users : who[t] = {u}
  /\ pc[t] \in {"reload", "restock"} => kind[t] = "reload"
  /\ kind[t] = "recharge" => who[t] \in RechargeSets
  /\ kind[t] = "usage" /\ (pc[t] \in {"cash", "credit", "status"} \/ WillCommit(t)) =>
       due[t] \in BillAmounts
  /\ kind[t] = "recharge" /\ pc[t] \in {"cash", "credit"} => due[t] \in RechargeAmounts

(* so is a cart, and the order is due for what it got *)
Ordered(t) ==
  kind[t] = "package" =>
    /\ pc[t] \in {"lockProduct", "source", "deduct", "cash", "credit"} \/ WillCommit(t) =>
         batch[t] \in Carts
    /\ pc[t] = "source" => todo[t] = InBatch(batch[t])
    /\ pc[t] = "deduct" => todo[t] \subseteq InBatch(batch[t])
    /\ pc[t] \in {"deduct", "cash", "credit"} \/ WillCommit(t) =>
         due[t] = SumFunctionOnSet(Price(t), Products)
    /\ pc[t] \in {"cash", "credit"} \/ WillCommit(t) =>
         \E p \in InBatch(batch[t]) : InStock(t, p)

SerialThread(t) ==
  /\ Asked(t) /\ Ordered(t)
  /\ view[t] # NoView => Snapshots
  /\ ~Fails(t) => /\ \A u \in Users : UserSerial(t, u)
                  /\ \A p \in Products : ProductSerial(t, p)

(* Nobody writes the row that serves as the lock of a user. *)
UserRowsStill == \A u \in Users : latest[UserRow(u)] = committed[UserRow(u)]

SerialInv ==
  RowLocked => UserRowsStill /\ \A t \in Threads : SerialThread(t)

-----------------------------------------------------------------------------
(* What t has changed and entered for a user goes on to be what it was     *)
(* when neither it nor the committed rows change, or, before the user is   *)
(* served, when the rows are as committed.                                 *)
LEMMA UserGoesOn ==
  ASSUME NEW t \in Threads, NEW u \in Users, UserSerial(t, u), kind'[t] = kind[t],
         \A r \in AccountsOf(u) \cup {UserRow(u)} :
           /\ pout'[t][r] = pout[t][r] /\ pin'[t][r] = pin[t][r]
           /\ Mine(t, r) = committed[r] => Mine(t, r)' = committed'[r]
           /\ u \in Served(t) => Mine(t, r)' = Mine(t, r) /\ committed'[r] = committed[r],
         u \in Served(t)' <=> u \in Served(t),
         u \in Served(t) => holder'[UserRow(u)] = t /\ (kind[t] = "recharge" \/ due'[t] = due[t])
  PROVE  UserSerial(t, u)'
<1>1. CASE u \notin Served(t)
  BY <1>1 DEF UserSerial, Still
<1>2. CASE u \in Served(t)
  <2>1. /\ Mine(t, CashRow(u))' = Mine(t, CashRow(u))
        /\ Mine(t, CreditRow(u))' = Mine(t, CreditRow(u))
        /\ committed'[CashRow(u)] = committed[CashRow(u)]
        /\ committed'[CreditRow(u)] = committed[CreditRow(u)]
        /\ pout'[t][UserRow(u)] = pout[t][UserRow(u)]
        /\ pin'[t][UserRow(u)] = pin[t][UserRow(u)]
    BY <1>2 DEF AccountsOf
  <2>2. kind[t] = "recharge" => Recharged(t, u)'
    BY <1>2, <2>1 DEF UserSerial, Recharged, Leaves
  <2>3. kind[t] # "recharge" => Billed(t, u)'
    BY <1>2, <2>1 DEF UserSerial, Billed, Leaves
  <2> QED
    BY <1>2, <2>2, <2>3 DEF UserSerial
<1> QED
  BY <1>1, <1>2

(* The same of a product. *)
LEMMA ProductGoesOn ==
  ASSUME NEW t \in Threads, NEW p \in Products, ProductSerial(t, p), kind'[t] = kind[t],
         pout'[t][ProductRow(p)] = pout[t][ProductRow(p)],
         pin'[t][ProductRow(p)] = pin[t][ProductRow(p)],
         Mine(t, ProductRow(p)) = committed[ProductRow(p)] =>
           Mine(t, ProductRow(p))' = committed'[ProductRow(p)],
         p \in Handled(t)' <=> p \in Handled(t),
         p \in Handled(t) => /\ Mine(t, ProductRow(p))' = Mine(t, ProductRow(p))
                             /\ committed'[ProductRow(p)] = committed[ProductRow(p)]
                             /\ holder'[ProductRow(p)] = t /\ batch'[t] = batch[t]
  PROVE  ProductSerial(t, p)'
BY DEF ProductSerial, Still, Sold, Refilled, InStock

(* A step of t that leaves what it has changed and entered as it is. *)
LEMMA OwnGoesOn ==
  ASSUME NEW t \in Threads, SerialThread(t), ~Fails(t), kind'[t] = kind[t],
         committed' = committed, pout'[t] = pout[t], pin'[t] = pin[t],
         \A r \in Rows : Mine(t, r)' = Mine(t, r) /\ (holder[r] = t => holder'[r] = t),
         Served(t)' = Served(t), Handled(t)' = Handled(t),
         Served(t) = {} \/ kind[t] = "recharge" \/ due'[t] = due[t],
         Handled(t) = {} \/ batch'[t] = batch[t],
         Asked(t)', Ordered(t)', view'[t] # NoView => Snapshots'
  PROVE  SerialThread(t)'
<1>1. ASSUME NEW u \in Users PROVE UserSerial(t, u)'
  <2>1. \A r \in AccountsOf(u) \cup {UserRow(u)} : r \in Rows
    BY UserFacts
  <2>2. UserSerial(t, u)
    BY DEF SerialThread
  <2>3. u \in Served(t) => holder'[UserRow(u)] = t
    BY <2>1, <2>2 DEF UserSerial
  <2>4. \A r \in AccountsOf(u) \cup {UserRow(u)} :
          /\ pout'[t][r] = pout[t][r] /\ pin'[t][r] = pin[t][r]
          /\ Mine(t, r) = committed[r] => Mine(t, r)' = committed'[r]
          /\ u \in Served(t) => Mine(t, r)' = Mine(t, r) /\ committed'[r] = committed[r]
    BY <2>1
  <2> QED
    BY <2>2, <2>3, <2>4, UserGoesOn
<1>2. ASSUME NEW p \in Products PROVE ProductSerial(t, p)'
  <2>1. ProductRow(p) \in Rows /\ ProductSerial(t, p)
    BY RowFacts DEF SerialThread
  <2>2. p \in Handled(t) => holder'[ProductRow(p)] = t
    BY <2>1 DEF ProductSerial
  <2> QED
    BY <2>1, <2>2, ProductGoesOn
<1> QED
  BY <1>1, <1>2 DEF SerialThread

-----------------------------------------------------------------------------
(* What a statement of t, a commit or a rollback leaves alone. *)
Statement(t) ==
  \/ UNCHANGED dbVars
  \/ Insert(t)
  \/ \E R : Read(t, R)
  \/ \E r \in Rows : ForUpdateLock(t, r)
  \/ \E r \in DataRows : \E value, reads : Update(t, r, value, reads)
  \/ CommitTransaction(t)
  \/ RollbackTransaction(t)

RowsApart(t) ==
  \A r \in Rows :
    /\ holder[r] \notin {t, NoThread} => holder'[r] = holder[r] /\ latest'[r] = latest[r]
    /\ holder[r] \in {t, NoThread} => holder'[r] \in {t, NoThread}
    /\ holder[r] # t => committed'[r] = committed[r]

(* the locals of the others *)
OthersKeep(t) ==
  \A v \in Threads \ {t} :
    /\ pc'[v] = pc[v] /\ kind'[v] = kind[v] /\ who'[v] = who[v] /\ todo'[v] = todo[v]
    /\ batch'[v] = batch[v] /\ due'[v] = due[v] /\ saved'[v] = saved[v]
    /\ outcome'[v] = outcome[v] /\ pout'[v] = pout[v] /\ pin'[v] = pin[v]

LEMMA StatementApart ==
  ASSUME DatabaseTypeOK, NEW t \in Threads, Statement(t)
  PROVE  conf' = conf /\ RowsApart(t) /\ (UserRowsStill => UserRowsStill')
<1>1. CASE UNCHANGED dbVars \/ Insert(t) \/ \E R : Read(t, R)
  BY <1>1 DEF dbVars, Insert, Read, RowsApart, UserRowsStill
<1>2. CASE \E r \in Rows : ForUpdateLock(t, r)
  BY <1>2 DEF ForUpdateLock, LockBlockers, DatabaseTypeOK, RowsApart, UserRowsStill
<1>3. CASE \E r \in DataRows : \E value, reads : Update(t, r, value, reads)
  <2>1. PICK r \in DataRows : \E value, reads : Update(t, r, value, reads)
    BY <1>3
  <2>2. /\ holder[r] \in {t, NoThread} /\ holder' = [holder EXCEPT ![r] = t]
        /\ \E value : latest' = [latest EXCEPT ![r] = value]
        /\ conf' = conf /\ committed' = committed
    BY <2>1 DEF Update, UpdateBlockers, LockBlockers
  <2>3. \A u \in Users : UserRow(u) # r /\ UserRow(u) \in Rows
    BY UserFacts DEF DataRows
  <2>4. RowsApart(t)
    BY <2>2 DEF DatabaseTypeOK, RowsApart
  <2>5. UserRowsStill => UserRowsStill'
    BY <2>2, <2>3 DEF DatabaseTypeOK, UserRowsStill
  <2> QED
    BY <2>2, <2>4, <2>5
<1>4. CASE CommitTransaction(t) \/ RollbackTransaction(t)
  <2>1. \A u \in Users : UserRow(u) \in Rows
    BY UserFacts
  <2> QED
    BY <1>4, <2>1 DEF CommitTransaction, RollbackTransaction, Forget, DatabaseTypeOK, RowsApart,
                      UserRowsStill
<1> QED
  BY <1>1, <1>2, <1>3, <1>4 DEF Statement

LEMMA StatementView ==
  ASSUME DatabaseTypeOK, NEW t \in Threads, Statement(t)
  PROVE  /\ Snapshots' <=> Snapshots
         /\ \A v \in Threads : v # t => view'[v] = view[v]
         /\ view'[t] # NoView => view[t] # NoView \/ Snapshots
<1>1. Snapshots' <=> Snapshots
  BY StatementApart DEF Snapshots, Level
<1>2. ASSUME NEW plain, OpenView(t, plain)
      PROVE  /\ \A v \in Threads : v # t => view'[v] = view[v]
             /\ view'[t] # NoView => view[t] # NoView \/ Snapshots
  BY <1>2 DEF OpenView, DatabaseTypeOK
<1>3. CASE Insert(t) \/ (\E R : Read(t, R)) \/ \E r, value, reads : Update(t, r, value, reads)
  BY <1>1, <1>2, <1>3 DEF Insert, Read, Update
<1>4. CASE UNCHANGED dbVars \/ \E r : ForUpdateLock(t, r)
  BY <1>1, <1>4 DEF dbVars, ForUpdateLock
<1>5. CASE CommitTransaction(t) \/ RollbackTransaction(t)
  BY <1>1, <1>5 DEF CommitTransaction, RollbackTransaction, Forget, DatabaseTypeOK
<1> QED
  BY <1>3, <1>4, <1>5 DEF Statement

(* What the others leave behind stays what it was. *)
LEMMA OthersMine ==
  ASSUME StockInv, AccountsInv, RowLocked, NEW t \in Threads, RowsApart(t), OthersKeep(t),
         NEW v \in Threads, v # t
  PROVE  /\ \A r \in Rows : holder[r] = v => /\ holder'[r] = v /\ committed'[r] = committed[r]
                                             /\ Mine(v, r)' = Mine(v, r)
         /\ \A r \in Rows : Mine(v, r) = committed[r] => Mine(v, r)' = committed'[r]
         /\ \A u \in Users : holder[UserRow(u)] = v => \A r \in AccountsOf(u) :
              committed'[r] = committed[r] /\ Mine(v, r)' = Mine(v, r)
<1>1. v # NoThread /\ v \in Threads \ {t} /\ t # NoThread
  BY DatabaseAssumption
<1>2. saved'[v] = saved[v]
  BY <1>1 DEF OthersKeep
<1>3. ASSUME NEW r \in Rows, holder[r] = v
      PROVE  /\ holder'[r] = v /\ committed'[r] = committed[r] /\ latest'[r] = latest[r]
             /\ Mine(v, r)' = Mine(v, r)
  BY <1>1, <1>2, <1>3 DEF RowsApart, Mine
<1>4. ASSUME NEW r \in Rows, holder[r] # v
      PROVE  holder'[r] # v /\ (holder[r] # t => committed'[r] = committed[r])
  BY <1>1, <1>4 DEF RowsApart
<1>5. ASSUME NEW u \in Users, holder[UserRow(u)] = v, NEW r \in AccountsOf(u)
      PROVE  r \in Rows /\ committed'[r] = committed[r] /\ Mine(v, r)' = Mine(v, r)
  <2>1. r \in Rows /\ holder[r] \in {v, NoThread}
    BY <1>5, UserFacts DEF AccountsInv, RowsOwned
  <2>2. committed'[r] = committed[r]
    BY <1>1, <2>1 DEF RowsApart
  <2> QED
    BY <1>2, <1>3, <1>4, <2>1, <2>2 DEF Mine
<1>6. ASSUME NEW r \in Rows, Mine(v, r) = committed[r]
      PROVE  Mine(v, r)' = committed'[r]
  <2>1. CASE holder[r] = v
    BY <1>3, <1>6, <2>1
  <2>2. CASE holder[r] # v /\ r \notin DOMAIN saved[v]
    BY <1>2, <1>4, <2>2 DEF Mine
  <2>3. CASE r \in DOMAIN saved[v]
    <3>1. PICK u \in Users : r \in AccountsOf(u)
      BY <2>3, UserFacts DEF StockInv, TypeOK, BizTypeOK
    <3>2. holder[UserRow(u)] = v
      BY <2>3, <3>1 DEF AccountsInv, OwnerBalance
    <3> QED
      BY <1>5, <1>6, <3>1, <3>2
  <2> QED
    BY <2>1, <2>2, <2>3
<1> QED
  BY <1>3, <1>5, <1>6

LEMMA OthersSerial ==
  ASSUME StockInv, AccountsInv, SerialInv, RowLocked, NEW t \in Threads, RowsApart(t),
         OthersKeep(t), Snapshots' <=> Snapshots, NEW v \in Threads, v # t, view'[v] = view[v]
  PROVE  SerialThread(v)'
<1>1. /\ pc'[v] = pc[v] /\ kind'[v] = kind[v] /\ who'[v] = who[v] /\ todo'[v] = todo[v]
      /\ batch'[v] = batch[v] /\ due'[v] = due[v] /\ saved'[v] = saved[v]
      /\ outcome'[v] = outcome[v] /\ pout'[v] = pout[v] /\ pin'[v] = pin[v]
  BY DEF OthersKeep
<1>2. /\ WillCommit(v)' <=> WillCommit(v)
      /\ Fails(v)' <=> Fails(v)
  BY <1>1 DEF WillCommit, Fails
<1>3. Served(v)' = Served(v) /\ Handled(v)' = Handled(v)
  <2>1. Account(v)' = Account(v) /\ InBatch(batch[v])' = InBatch(batch[v])
    BY <1>1 DEF Account, InBatch
  <2> QED
    BY <1>1, <1>2, <2>1 DEF Served, Handled
<1>4. SerialThread(v)
  BY DEF SerialInv
<1>5. Asked(v)'
  BY <1>1, <1>2, <1>4 DEF SerialThread, Asked
<1>6. view'[v] # NoView => Snapshots'
  BY <1>4 DEF SerialThread
<1>7. CASE Fails(v)
  <2>1. ~WillCommit(v) /\ pc[v] \in {"rollback", "unlock"}
    BY <1>7 DEF Fails, WillCommit
  <2>2. Ordered(v)'
    BY <1>1, <1>2, <2>1 DEF Ordered
  <2> QED
    BY <1>2, <1>5, <1>6, <1>7, <2>2 DEF SerialThread
<1>8. CASE ~Fails(v)
  <2>1. ASSUME NEW u \in Users PROVE UserSerial(v, u)'
    <3>1. UserSerial(v, u) /\ AccountsOf(u) \subseteq Rows /\ UserRow(u) \in Rows
      BY <1>4, <1>8, UserFacts DEF SerialThread
    <3>2. u \in Served(v) => holder[UserRow(u)] = v
      BY <3>1 DEF UserSerial
    <3>3. \A r \in AccountsOf(u) \cup {UserRow(u)} :
            /\ Mine(v, r) = committed[r] => Mine(v, r)' = committed'[r]
            /\ u \in Served(v) => Mine(v, r)' = Mine(v, r) /\ committed'[r] = committed[r]
      BY <3>1, <3>2, OthersMine
    <3>4. u \in Served(v) => holder'[UserRow(u)] = v
      BY <3>1, <3>2, OthersMine
    <3> QED
      BY <1>1, <1>3, <3>1, <3>3, <3>4, UserGoesOn
  <2>2. ASSUME NEW p \in Products
        PROVE  /\ ProductSerial(v, p)'
               /\ p \in Handled(v) => committed'[ProductRow(p)] = committed[ProductRow(p)]
    <3>1. ProductSerial(v, p) /\ ProductRow(p) \in Rows
      BY <1>4, <1>8, RowFacts DEF SerialThread
    <3>2. p \in Handled(v) => holder[ProductRow(p)] = v
      BY <3>1 DEF ProductSerial
    <3>3. /\ Mine(v, ProductRow(p)) = committed[ProductRow(p)] =>
               Mine(v, ProductRow(p))' = committed'[ProductRow(p)]
          /\ p \in Handled(v) => /\ Mine(v, ProductRow(p))' = Mine(v, ProductRow(p))
                                 /\ committed'[ProductRow(p)] = committed[ProductRow(p)]
                                 /\ holder'[ProductRow(p)] = v
      BY <3>1, <3>2, OthersMine
    <3> QED
      BY <1>1, <1>3, <3>1, <3>3, ProductGoesOn
  <2>3. \A p \in Handled(v) : p \in Products
    BY DEF Handled, InBatch
  <2>4. \A p \in Handled(v) : InStock(v, p)' <=> InStock(v, p)
    BY <1>1, <2>2, <2>3 DEF InStock
  <2>5. Price(v)' = Price(v)
    BY <1>1, <1>3, <2>2, <2>4 DEF Price
  <2>6. kind[v] = "package" /\ (pc[v] \in {"cash", "credit"} \/ WillCommit(v)) =>
          Handled(v) = InBatch(batch[v])
    BY DEF Handled, WillCommit
  <2>7. Ordered(v)'
    <3>1. InBatch(batch[v])' = InBatch(batch[v])
      BY <1>1 DEF InBatch
    <3> QED
      BY <1>1, <1>2, <1>4, <2>4, <2>5, <2>6, <3>1 DEF SerialThread, Ordered
  <2> QED
    BY <1>5, <1>6, <2>1, <2>2, <2>7 DEF SerialThread
<1> QED
  BY <1>7, <1>8

(* So a step preserves the invariant when it preserves t's part. *)
StepsSerially(t) == Statement(t) /\ OthersKeep(t) /\ SerialThread(t)'

LEMMA SerialStep ==
  ASSUME StockInv, AccountsInv, SerialInv, NEW t \in Threads, conf' = conf,
         RowLocked => StepsSerially(t)
  PROVE  SerialInv'
<1> SUFFICES ASSUME RowLocked PROVE UserRowsStill' /\ \A v \in Threads : SerialThread(v)'
  BY LockedKept DEF SerialInv
<1>1. UserRowsStill' /\ RowsApart(t) /\ OthersKeep(t) /\ SerialThread(t)'
  BY StatementApart DEF StockInv, TypeOK, SerialInv, StepsSerially
<1>2. ASSUME NEW v \in Threads, v # t PROVE SerialThread(v)'
  BY <1>1, <1>2, StatementView, OthersSerial DEF StockInv, TypeOK, StepsSerially
<1> QED
  BY <1>1, <1>2

-----------------------------------------------------------------------------
(* A statement that writes nothing leaves what t has changed as it is. *)
Reads(t) ==
  \/ UNCHANGED dbVars
  \/ Insert(t)
  \/ \E R : Read(t, R)
  \/ \E r \in UserRows \cup ProductRows : ForUpdateLock(t, r)

LEMMA ReadsMine ==
  ASSUME StockInv, SerialInv, RowLocked, NEW t \in Threads, Reads(t), saved'[t] = saved[t]
  PROVE  /\ Statement(t) /\ committed' = committed /\ latest' = latest
         /\ \A r \in Rows : Mine(t, r)' = Mine(t, r) /\ (holder[r] = t => holder'[r] = t)
<1>1. CASE UNCHANGED dbVars \/ Insert(t) \/ \E R : Read(t, R)
  BY <1>1 DEF dbVars, Insert, Read, Statement, Mine
<1>2. CASE \E r \in UserRows \cup ProductRows : ForUpdateLock(t, r)
  <2>1. PICK r \in UserRows \cup ProductRows : ForUpdateLock(t, r)
    BY <1>2
  <2>2. /\ holder[r] \in {t, NoThread} /\ holder' = [holder EXCEPT ![r] = t]
        /\ latest' = latest /\ committed' = committed /\ r \in Rows
    BY <2>1 DEF ForUpdateLock, LockBlockers, Rows
  <2>3. holder[r] = NoThread => latest[r] = committed[r]
    BY <2>1 DEF StockInv, FreeStockCommitted, SerialInv, UserRowsStill, UserRows, ProductRows
  <2>4. \A s \in Rows : Mine(t, s)' = Mine(t, s) /\ (holder[s] = t => holder'[s] = t)
    BY <2>2, <2>3, DatabaseAssumption DEF Mine, StockInv, TypeOK, DatabaseTypeOK
  <2> QED
    BY <2>1, <2>2, <2>4 DEF Statement
<1> QED
  BY <1>1, <1>2 DEF Reads

(* A step that writes nothing, saves nothing and enters nothing. *)
LEMMA ReadsSerial ==
  ASSUME StockInv, SerialInv, RowLocked, NEW t \in Threads, Reads(t), OthersKeep(t),
         ~Fails(t), kind'[t] = kind[t], saved'[t] = saved[t], pout'[t] = pout[t], pin'[t] = pin[t],
         Served(t)' = Served(t), Handled(t)' = Handled(t),
         Served(t) = {} \/ kind[t] = "recharge" \/ due'[t] = due[t],
         Handled(t) = {} \/ batch'[t] = batch[t],
         Asked(t)', Ordered(t)'
  PROVE  StepsSerially(t)
<1>1. /\ Statement(t) /\ committed' = committed
      /\ \A r \in Rows : Mine(t, r)' = Mine(t, r) /\ (holder[r] = t => holder'[r] = t)
  BY ReadsMine
<1>2. SerialThread(t)
  BY DEF SerialInv
<1>3. view'[t] # NoView => Snapshots'
  BY <1>1, <1>2, StatementView DEF SerialThread, StockInv, TypeOK
<1> QED
  BY <1>1, <1>2, <1>3, OwnGoesOn DEF StepsSerially

(* A step to a rollback. *)
LEMMA StatementFailsSerial ==
  ASSUME StockInv, SerialInv, RowLocked, NEW t \in Threads, Statement(t), OthersKeep(t),
         pc[t] # "idle", kind'[t] = kind[t], who'[t] = who[t], Fails(t)'
  PROVE  StepsSerially(t)
<1>1. SerialThread(t)
  BY DEF SerialInv
<1>2. view'[t] # NoView => Snapshots'
  BY <1>1, StatementView DEF SerialThread, StockInv, TypeOK
<1>3. pc'[t] \in {"rollback", "unlock"} /\ ~WillCommit(t)'
  BY DEF Fails, WillCommit
<1>4. Asked(t)' /\ Ordered(t)'
  BY <1>1, <1>3 DEF SerialThread, Asked, Ordered
<1> QED
  BY <1>1, <1>2, <1>4 DEF SerialThread, StepsSerially

LEMMA FailsSerial ==
  ASSUME StockInv, SerialInv, RowLocked, NEW t \in Threads, Reads(t), OthersKeep(t),
         saved'[t] = saved[t], pc[t] # "idle", kind'[t] = kind[t], who'[t] = who[t], Fails(t)'
  PROVE  StepsSerially(t)
BY ReadsMine, StatementFailsSerial

LEMMA LockUserSerial ==
  ASSUME StockInv, AccountsInv, SerialInv, RowLocked, NEW t \in Threads, LockUser(t)
  PROVE  StepsSerially(t)
<1>1. PICK u \in todo[t] :
        /\ ForUpdateLock(t, UserRow(u))
        /\ IF todo[t] = {u}
           THEN /\ todo' = [todo EXCEPT ![t] = who[t]]
                /\ Goto(t, IF kind[t] = "package" THEN "cart" ELSE "source")
           ELSE /\ todo' = [todo EXCEPT ![t] = @ \ {u}]
                /\ UNCHANGED <<pc, outcome>>
  BY DEF LockUser, NextIds, PlanAcquire, LockRow, RowLocked
<1>2. /\ pc[t] = "lockUser" /\ u \in Users
      /\ UNCHANGED <<saved, kind, who, batch, due, pin, pout, outcome>>
  BY <1>1 DEF LockUser, Goto, requestVars, workVars, pendingVars, StockInv, WorkOK, ThreadOK
<1>3. Reads(t)
  BY <1>1, <1>2 DEF Reads, UserRows
<1>4. /\ \A v \in Threads \ {t} : pc'[v] = pc[v] /\ todo'[v] = todo[v]
      /\ \/ pc'[t] = "lockUser"
         \/ pc'[t] = "cart" /\ kind[t] = "package"
         \/ pc'[t] = "source" /\ kind[t] # "package" /\ todo'[t] = who[t]
  BY <1>1, <1>2 DEF Goto, StockInv, TypeOK, BizTypeOK
<1>5. OthersKeep(t)
  BY <1>2, <1>4 DEF OthersKeep
<1>6. ~WillCommit(t) /\ ~WillCommit(t)' /\ ~Fails(t)
  BY <1>2, <1>4 DEF WillCommit, Fails
<1>7. Served(t) = {} /\ Served(t)' = {} /\ Handled(t) = {} /\ Handled(t)' = {}
  BY <1>2, <1>4, <1>6 DEF Served, Handled
<1>8. Asked(t)' /\ Ordered(t)'
  BY <1>2, <1>4, <1>6 DEF SerialInv, SerialThread, Asked, Ordered
<1> QED
  BY <1>2, <1>3, <1>5, <1>6, <1>7, <1>8, ReadsSerial

LEMMA ChooseSerial ==
  ASSUME StockInv, SerialInv, RowLocked, NEW t \in Threads, FillCart(t) \/ FindInsufficient(t)
  PROVE  StepsSerially(t)
<1>1. /\ UNCHANGED <<saved, kind, who, due, pin, pout, outcome>>
      /\ pc[t] \in {"cart", "find"} /\ Goto(t, "lockProduct") /\ Reads(t)
      /\ \E b : batch' = [batch EXCEPT ![t] = b]
      /\ \E ids : todo' = [todo EXCEPT ![t] = ids]
  BY DEF FillCart, FindInsufficient, Goto, Reads, requestVars, pendingVars, bookVars
<1>2. /\ pc[t] = "cart" => kind[t] = "package" /\ batch'[t] \in Carts
      /\ pc[t] = "find" => kind[t] = "reload"
      /\ pc'[t] = "lockProduct"
      /\ \A u \in Threads \ {t} : pc'[u] = pc[u] /\ todo'[u] = todo[u] /\ batch'[u] = batch[u]
  BY <1>1 DEF FillCart, FindInsufficient, Goto, StockInv, WorkOK, ThreadOK, TypeOK, BizTypeOK
<1>3. OthersKeep(t)
  BY <1>1, <1>2 DEF OthersKeep
<1>4. ~WillCommit(t) /\ ~WillCommit(t)' /\ ~Fails(t)
  BY <1>1, <1>2 DEF WillCommit, Fails
<1>5. Served(t) = {} /\ Served(t)' = {} /\ Handled(t) = {} /\ Handled(t)' = {}
  BY <1>1, <1>2, <1>4 DEF Served, Handled
<1>6. Asked(t)' /\ Ordered(t)'
  BY <1>1, <1>2, <1>4 DEF SerialInv, SerialThread, Asked, Ordered
<1> QED
  BY <1>1, <1>3, <1>4, <1>5, <1>6, ReadsSerial

LEMMA LockProductSerial ==
  ASSUME StockInv, SerialInv, RowLocked, NEW t \in Threads, LockProduct(t)
  PROVE  StepsSerially(t)
<1>1. PICK p \in todo[t] :
        /\ ForUpdateLock(t, ProductRow(p))
        /\ IF todo[t] = {p}
           THEN /\ todo' = [todo EXCEPT ![t] = InBatch(batch[t])]
                /\ Goto(t, IF kind[t] = "reload" THEN "reload" ELSE "source")
           ELSE /\ todo' = [todo EXCEPT ![t] = @ \ {p}]
                /\ UNCHANGED <<pc, outcome>>
  BY DEF LockProduct, NextIds, PlanAcquire, LockRow, RowLocked
<1>2. /\ pc[t] = "lockProduct" /\ p \in Products /\ kind[t] \in {"package", "reload"}
      /\ UNCHANGED <<saved, kind, who, batch, due, pin, pout, outcome>>
  BY <1>1 DEF LockProduct, Goto, requestVars, workVars, pendingVars, StockInv, WorkOK, ThreadOK
<1>3. Reads(t)
  BY <1>1, <1>2 DEF Reads, ProductRows
<1>4. /\ \A v \in Threads \ {t} : pc'[v] = pc[v] /\ todo'[v] = todo[v]
      /\ \/ pc'[t] = "lockProduct"
         \/ pc'[t] = "reload" /\ kind[t] = "reload" /\ todo'[t] = InBatch(batch[t])
         \/ pc'[t] = "source" /\ kind[t] = "package" /\ todo'[t] = InBatch(batch[t])
  BY <1>1, <1>2 DEF Goto, StockInv, TypeOK, BizTypeOK
<1>5. OthersKeep(t)
  BY <1>2, <1>4 DEF OthersKeep
<1>6. ~WillCommit(t) /\ ~WillCommit(t)' /\ ~Fails(t)
  BY <1>2, <1>4 DEF WillCommit, Fails
<1>7. InBatch(batch[t])' = InBatch(batch[t])
  BY <1>2 DEF InBatch
<1>8. Served(t) = {} /\ Served(t)' = {} /\ Handled(t) = {} /\ Handled(t)' = {}
  BY <1>2, <1>4, <1>6, <1>7 DEF Served, Handled
<1>9. Asked(t)' /\ Ordered(t)'
  BY <1>2, <1>4, <1>6, <1>7 DEF SerialInv, SerialThread, Asked, Ordered
<1> QED
  BY <1>2, <1>3, <1>5, <1>6, <1>8, <1>9, ReadsSerial

(* An exception. *)
LEMMA LeaveSerial ==
  ASSUME StockInv, SerialInv, RowLocked, NEW t \in Threads,
         \/ DrawFails(t) \/ LockTimeout(t) \/ LockThrows(t) \/ StatementFails(t)
         \/ CommitRefused(t)
  PROVE  StepsSerially(t)
<1>1. UNCHANGED <<dbVars, saved, kind, who, todo, batch, due, pin, pout>>
  BY DEF DrawFails, LockTimeout, LockThrows, StatementFails, CommitRefused,
         requestVars, workVars, pendingVars, bookVars
<1>2. /\ \A u \in Threads \ {t} : pc'[u] = pc[u] /\ outcome'[u] = outcome[u]
      /\ pc[t] # "idle" /\ Fails(t)'
  <2>1. CASE DrawFails(t) \/ LockTimeout(t) \/ LockThrows(t) \/ StatementFails(t)
    <3>1. \E o \in Outcomes \ {"ok"} : Leave(t, o)
      BY <2>1 DEF DrawFails, LockTimeout, LockThrows, StatementFails, Outcomes
    <3>2. pc[t] # "idle"
      BY <2>1, WaitsSomewhere
         DEF DrawFails, LockTimeout, LockThrows, StatementFails, UpdateConflicts
    <3> QED
      BY <3>1, <3>2 DEF Leave, Ending, Fails, StockInv, TypeOK, BizTypeOK
  <2>2. CASE CommitRefused(t)
    BY <2>2 DEF CommitRefused, Fails, StockInv, TypeOK, BizTypeOK
  <2> QED
    BY <2>1, <2>2
<1>3. OthersKeep(t) /\ Reads(t)
  BY <1>1, <1>2 DEF OthersKeep, Reads
<1> QED
  BY <1>1, <1>2, <1>3, FailsSerial

(* Snowflake.nextId fails. *)
LEMMA NextIdSerial ==
  ASSUME StockInv, SerialInv, RowLocked, NEW t \in Threads, NextIdThrows(t)
  PROVE  StepsSerially(t)
<1>1. /\ UNCHANGED <<saved, kind, who, todo, batch, due, pin, pout>>
      /\ Leave(t, "clock") /\ pc[t] # "idle"
  BY DEF NextIdThrows, requestVars, workVars, pendingVars
<1>2. /\ \A u \in Threads \ {t} : pc'[u] = pc[u] /\ outcome'[u] = outcome[u]
      /\ Fails(t)'
  BY <1>1 DEF Leave, Ending, Fails, StockInv, TypeOK, BizTypeOK
<1>3. Statement(t)
  BY NextIdFacts, RowFacts DEF Statement, DataRows, ProductRows
<1>4. OthersKeep(t)
  BY <1>1, <1>2 DEF OthersKeep
<1> QED
  BY <1>1, <1>2, <1>3, <1>4, StatementFailsSerial

LEMMA UnlockSerial ==
  ASSUME StockInv, SerialInv, RowLocked, NEW t \in Threads, Unlock(t)
  PROVE  StepsSerially(t)
<1>1. /\ UNCHANGED <<dbVars, saved, kind, who, todo, batch, due, pin, pout, outcome>>
      /\ pc[t] = "unlock"
      /\ pc' = pc \/ pc' = [pc EXCEPT ![t] = Ending(outcome[t])]
  BY DEF Unlock, Goto, requestVars, workVars, pendingVars, bookVars
<1>2. /\ \A u \in Threads \ {t} : pc'[u] = pc[u]
      /\ pc'[t] \in {"unlock", Ending(outcome[t])}
  BY <1>1 DEF StockInv, TypeOK, BizTypeOK
<1>3. OthersKeep(t) /\ Reads(t)
  BY <1>1, <1>2 DEF OthersKeep, Reads
<1>4. CASE outcome[t] # "ok"
  <2>1. Fails(t)'
    BY <1>1, <1>2, <1>4 DEF Fails, Ending
  <2> QED
    BY <1>1, <1>3, <2>1, FailsSerial
<1>5. CASE outcome[t] = "ok"
  <2>1. WillCommit(t) /\ WillCommit(t)' /\ ~Fails(t) /\ pc'[t] \in {"unlock", "commit"}
    BY <1>1, <1>2, <1>5 DEF WillCommit, Fails, Ending
  <2>2. InBatch(batch[t])' = InBatch(batch[t])
    BY <1>1 DEF InBatch
  <2>3. Served(t)' = Served(t) /\ Handled(t)' = Handled(t)
    BY <1>1, <2>1, <2>2 DEF Served, Handled
  <2>4. Price(t)' = Price(t)
    BY <1>1, <2>3 DEF Price, InStock, dbVars
  <2>5. Asked(t)' /\ Ordered(t)'
    <3>1. \A p \in Products : InStock(t, p)' <=> InStock(t, p)
      BY <1>1 DEF InStock, dbVars
    <3>2. InBatch(batch[t]) \subseteq Products
      BY DEF InBatch
    <3> QED
      BY <1>1, <2>1, <2>2, <2>4, <3>1, <3>2 DEF SerialInv, SerialThread, Asked, Ordered
  <2> QED
    BY <1>1, <1>3, <2>1, <2>3, <2>5, ReadsSerial
<1> QED
  BY <1>4, <1>5

-----------------------------------------------------------------------------
(* Orders. *)

LEMMA SourceSerial ==
  ASSUME StockInv, SerialInv, RowLocked, NEW t \in Threads, CreateSource(t)
  PROVE  StepsSerially(t)
<1>1. /\ UNCHANGED <<saved, kind, who, todo, batch, pin, pout, outcome>>
      /\ pc[t] = "source" /\ Insert(t)
      /\ Goto(t, IF kind[t] = "package" THEN "deduct" ELSE "cash")
      /\ \E amount : due' = [due EXCEPT ![t] = amount]
  BY DEF CreateSource, Goto, requestVars, pendingVars
<1>2. /\ pc'[t] = IF kind[t] = "package" THEN "deduct" ELSE "cash"
      /\ \A v \in Threads \ {t} : pc'[v] = pc[v] /\ due'[v] = due[v]
      /\ kind[t] = "usage" => due'[t] \in BillAmounts
      /\ kind[t] = "recharge" => due'[t] \in RechargeAmounts
      /\ kind[t] = "package" => due'[t] = 0
  BY <1>1 DEF CreateSource, Goto, StockInv, TypeOK, BizTypeOK
<1>3. OthersKeep(t) /\ Reads(t)
  BY <1>1, <1>2 DEF OthersKeep, Reads
<1>4. ~WillCommit(t) /\ ~WillCommit(t)' /\ ~Fails(t)
  BY <1>1, <1>2 DEF WillCommit, Fails
<1>5. kind[t] = "package" => todo[t] = InBatch(batch[t]) /\ batch[t] \in Carts
  BY <1>1 DEF SerialInv, SerialThread, Ordered
<1>6. InBatch(batch[t])' = InBatch(batch[t])
  BY <1>1 DEF InBatch
<1>7. /\ Served(t)' = Served(t) /\ (Served(t) = {} \/ kind[t] = "recharge")
      /\ Handled(t) = {} /\ Handled(t)' = {}
  BY <1>1, <1>2, <1>4, <1>5, <1>6 DEF Served, Handled
<1>8. Asked(t)'
  BY <1>1, <1>2, <1>4 DEF SerialInv, SerialThread, Asked
<1>9. Ordered(t)'
  <2>1. SumFunctionOnSet(Price(t)', Products) = 0
    <3>1. \A p \in Products : (Price(t)')[p] = 0
      BY <1>7 DEF Price
    <3> QED
      BY <3>1, BookRows, SumZero
  <2> QED
    BY <1>1, <1>2, <1>4, <1>5, <1>6, <2>1 DEF Ordered
<1> QED
  BY <1>1, <1>3, <1>4, <1>7, <1>8, <1>9, ReadsSerial

(* The product an order comes to is locked, and nothing has changed it. *)
LEMMA ItemFacts ==
  ASSUME StockInv, RangeInv, SerialInv, RowLocked, NEW t \in Threads, pc[t] = "deduct",
         NEW p, p = First(todo[t])
  PROVE  /\ p \in Products /\ ProductRow(p) \in Rows /\ p \in todo[t] /\ p \in InBatch(batch[t])
         /\ kind[t] = "package" /\ todo[t] \subseteq InBatch(batch[t]) /\ p \notin Handled(t)
         /\ holder[ProductRow(p)] = t /\ ProductRow(p) \notin DOMAIN saved[t]
         /\ latest[ProductRow(p)] = committed[ProductRow(p)]
         /\ committed[ProductRow(p)] \in Int /\ batch[t][p] \in Nat /\ batch[t][p] > 0
         /\ pout[t][ProductRow(p)] = 0 /\ pin[t][ProductRow(p)] = 0
         /\ ~Fails(t) /\ SerialThread(t)
<1>1. p \in Products /\ p \in todo[t] /\ kind[t] = "package"
  BY ProductFacts DEF StockInv, WorkOK, ThreadOK
<1>2. SerialThread(t) /\ ~Fails(t)
  BY DEF SerialInv, Fails
<1>3. todo[t] \subseteq InBatch(batch[t])
  BY <1>1, <1>2 DEF SerialThread, Ordered
<1>4. holder[ProductRow(p)] = t
  <2>1. ProductsLocked(t) = InBatch(batch[t])
    BY <1>1 DEF ProductsLocked, ProductsInUse
  <2>2. LocksRows
    BY DEF RowLocked, LocksRows
  <2> QED
    BY <1>1, <1>3, <2>1, <2>2 DEF RangeInv, ProductsHeld
<1>5. ProductRow(p) \in Rows /\ ProductRow(p) \notin DOMAIN saved[t]
  BY <1>1, RowFacts DEF StockInv, TypeOK, BizTypeOK
<1>6. p \notin Handled(t)
  BY <1>1 DEF Handled
<1>7. Still(t, ProductRow(p))
  BY <1>1, <1>2, <1>6 DEF SerialThread, ProductSerial
<1>8. committed[ProductRow(p)] \in Int /\ batch[t][p] \in Nat /\ batch[t][p] > 0
  BY <1>1, <1>3, <1>5 DEF InBatch, StockInv, TypeOK, DatabaseTypeOK, BizTypeOK
<1> QED
  BY <1>1, <1>2, <1>3, <1>4, <1>5, <1>6, <1>7, <1>8 DEF Still, Mine

(* One item further, sold or not. *)
LEMMA ItemDone ==
  ASSUME StockInv, RangeInv, SerialInv, RowLocked, NEW t \in Threads, pc[t] = "deduct",
         NEW p, p = First(todo[t]), Statement(t), OthersKeep(t),
         committed' = committed, kind'[t] = kind[t], who'[t] = who[t], batch'[t] = batch[t],
         saved'[t] = saved[t], pin'[t] = pin[t], todo'[t] = todo[t] \ {p},
         \A s \in Rows \ {ProductRow(p)} :
           /\ Mine(t, s)' = Mine(t, s) /\ pout'[t][s] = pout[t][s]
           /\ holder[s] = t => holder'[s] = t,
         holder'[ProductRow(p)] = t, Sold(t, p)',
         due'[t] = due[t] + IF InStock(t, p) THEN PriceOf(p, batch[t][p]) ELSE 0,
         pc'[t] = IF todo[t] = {p} THEN "cash" ELSE "deduct",
         pc'[t] = "cash" => \E q \in InBatch(batch[t]) : InStock(t, q)
  PROVE  StepsSerially(t)
<1>1. /\ p \in Products /\ ProductRow(p) \in Rows /\ p \in todo[t] /\ p \in InBatch(batch[t])
      /\ kind[t] = "package" /\ todo[t] \subseteq InBatch(batch[t]) /\ p \notin Handled(t)
      /\ batch[t][p] \in Nat /\ ~Fails(t) /\ SerialThread(t)
  BY ItemFacts
<1>2. /\ ~WillCommit(t) /\ ~WillCommit(t)' /\ InBatch(batch[t])' = InBatch(batch[t])
      /\ InBatch(batch[t]) \subseteq Products
      /\ \A q \in Products : InStock(t, q)' <=> InStock(t, q)
  BY DEF WillCommit, InBatch, InStock
<1>3. Served(t) = {} /\ Served(t)' = {}
  BY <1>1, <1>2 DEF Served
<1>4. Handled(t)' = Handled(t) \cup {p}
  BY <1>1, <1>2 DEF Handled
<1>5. ASSUME NEW u \in Users PROVE UserSerial(t, u)'
  <2>1. /\ UserSerial(t, u)
        /\ \A r \in AccountsOf(u) \cup {UserRow(u)} : r \in Rows /\ r # ProductRow(p)
    BY <1>1, UserFacts, ProductRowFacts DEF SerialThread
  <2> QED
    BY <1>3, <2>1, UserGoesOn
<1>6. ASSUME NEW q \in Products PROVE ProductSerial(t, q)'
  <2>1. CASE q = p
    BY <1>1, <1>4, <2>1 DEF ProductSerial
  <2>2. CASE q # p
    <3>1. /\ ProductSerial(t, q) /\ ProductRow(q) \in Rows \ {ProductRow(p)}
          /\ q \in Handled(t)' <=> q \in Handled(t)
      BY <1>1, <1>4, <2>2, RowFacts DEF SerialThread
    <3>2. q \in Handled(t) => holder[ProductRow(q)] = t
      BY <3>1 DEF ProductSerial
    <3> QED
      BY <3>1, <3>2, ProductGoesOn
  <2> QED
    BY <2>1, <2>2
<1>7. due'[t] = SumFunctionOnSet(Price(t)', Products)
  <2>1. PriceOf(p, batch[t][p]) \in Int
    BY <1>1, ItemPriceType DEF PriceOf
  <2>2. \A q \in Products : Price(t)[q] \in Int
    <3>1. \A q \in Products : batch[t][q] \in Nat
      BY DEF StockInv, TypeOK, BizTypeOK
    <3> QED
      BY <3>1, ItemPriceType DEF Price, PriceOf
  <2>3. \A q \in Products \ {p} : (Price(t)')[q] = Price(t)[q]
    BY <1>2, <1>4 DEF Price
  <2>4. (Price(t)')[p] = Price(t)[p] + IF InStock(t, p) THEN PriceOf(p, batch[t][p]) ELSE 0
    BY <1>1, <1>2, <1>4, <2>1 DEF Price
  <2>5. (IF InStock(t, p) THEN PriceOf(p, batch[t][p]) ELSE 0) \in Int
    BY <2>1
  <2>6. due[t] = SumFunctionOnSet(Price(t), Products)
    BY <1>1 DEF SerialThread, Ordered
  <2>7. ASSUME NEW f, f = Price(t), NEW g, g = Price(t)', NEW m \in Int,
               m = IF InStock(t, p) THEN PriceOf(p, batch[t][p]) ELSE 0
        PROVE  SumFunctionOnSet(g, Products) = SumFunctionOnSet(f, Products) + m
    <3>1. /\ \A q \in Products : f[q] \in Int
          /\ \A q \in Products \ {p} : g[q] = f[q]
          /\ g[p] = f[p] + m
      BY <2>2, <2>3, <2>4, <2>7
    <3>2. IsFiniteSet(Products) /\ p \in Products
      BY <1>1, BookRows
    <3> QED
      BY <2>7, <3>1, <3>2, SumPoint
  <2> QED
    BY <2>5, <2>6, <2>7
<1>8. Ordered(t)'
  <2>1. batch[t] \in Carts
    BY <1>1 DEF SerialThread, Ordered
  <2> QED
    BY <1>1, <1>2, <1>7, <2>1 DEF Ordered
<1>9. Asked(t)'
  BY <1>1, <1>2 DEF SerialThread, Asked
<1>10. view'[t] # NoView => Snapshots'
  BY <1>1, StatementView DEF SerialThread, StockInv, TypeOK
<1> QED
  BY <1>5, <1>6, <1>8, <1>9, <1>10 DEF SerialThread, StepsSerially

LEMMA DeductSerial ==
  ASSUME StockInv, RangeInv, SerialInv, RowLocked, NEW t \in Threads, DeductStock(t)
  PROVE  StepsSerially(t)
<1>0. PICK p : p = First(todo[t])
  OBVIOUS
<1> DEFINE r == ProductRow(p)
           n == batch[t][p]
<1>1. /\ p \in Products /\ r \in Rows /\ p \in todo[t] /\ p \in InBatch(batch[t])
      /\ holder[r] = t /\ r \notin DOMAIN saved[t] /\ latest[r] = committed[r]
      /\ committed[r] \in Int /\ n \in Nat /\ n > 0 /\ pout[t][r] = 0 /\ pin[t][r] = 0
  BY <1>0, ItemFacts DEF DeductStock
<1>2. /\ pc[t] = "deduct" /\ latest[r] >= n
      /\ Update(t, r, latest[r] - n, holder[r] # t)
      /\ due'  = [due EXCEPT ![t] = @ + ItemPrice(OriginalPrice[p], Discount[p], n)]
      /\ pout' = [pout EXCEPT ![t][r] = @ + n]
      /\ NextItem(t, p, pout'[t])
      /\ UNCHANGED <<kind, who, batch, saved, pin>>
  BY <1>0 DEF DeductStock, requestVars
<1>3. /\ committed' = committed /\ latest' = [latest EXCEPT ![r] = latest[r] - n]
      /\ holder' = [holder EXCEPT ![r] = t]
  BY <1>2 DEF Update
<1>4. Statement(t)
  BY <1>1, <1>2, ProductRowFacts DEF Statement, DataRows
<1>5. /\ pout'[t][r] = n /\ \A s \in Rows \ {r} : pout'[t][s] = pout[t][s]
      /\ \A v \in Threads \ {t} : pout'[v] = pout[v]
  BY <1>1, <1>2 DEF StockInv, TypeOK, BizTypeOK
<1>6. pout'[t] # NoEntries
  BY <1>1, <1>5 DEF NoEntries
<1>7. /\ todo'[t] = todo[t] \ {p} /\ pc'[t] = IF todo[t] = {p} THEN "cash" ELSE "deduct"
      /\ outcome' = outcome
      /\ \A v \in Threads \ {t} : pc'[v] = pc[v] /\ todo'[v] = todo[v]
  BY <1>2, <1>6 DEF NextItem, Goto, StockInv, TypeOK, BizTypeOK
<1>8. /\ due'[t] = due[t] + PriceOf(p, n)
      /\ \A v \in Threads \ {t} : due'[v] = due[v]
  BY <1>2 DEF PriceOf, StockInv, TypeOK, BizTypeOK
<1>9. OthersKeep(t)
  BY <1>2, <1>5, <1>7, <1>8 DEF OthersKeep
<1>10. InStock(t, p) /\ InStock(t, p)'
  BY <1>1, <1>2, <1>3 DEF InStock
<1>11. holder'[r] = t /\ latest'[r] = committed[r] - n
  BY <1>1, <1>3 DEF StockInv, TypeOK, DatabaseTypeOK
<1>12. Sold(t, p)'
  BY <1>1, <1>2, <1>3, <1>5, <1>10, <1>11 DEF Sold, Mine
<1>13. \A s \in Rows \ {r} : /\ Mine(t, s)' = Mine(t, s)
                             /\ holder[s] = t => holder'[s] = t
  BY <1>2, <1>3 DEF Mine, StockInv, TypeOK, DatabaseTypeOK
<1> QED
  BY <1>0, <1>1, <1>2, <1>3, <1>4, <1>5, <1>7, <1>8, <1>9, <1>10, <1>11, <1>12, <1>13, ItemDone

(* An order that has an entry has sold a product. *)
LEMMA EntrySold ==
  ASSUME StockInv, NEW t \in Threads, SerialThread(t), ~Fails(t), Served(t) = {},
         kind[t] # "reload", pout[t] # NoEntries
  PROVE  \E q \in Handled(t) : InStock(t, q)
<1>1. PICK r \in Rows : pout[t][r] # 0
  BY DEF NoEntries, StockInv, TypeOK, BizTypeOK
<1>2. ASSUME NEW u \in Users, r \in AccountsOf(u) \cup {UserRow(u)} PROVE FALSE
  BY <1>1, <1>2 DEF SerialThread, UserSerial, Still
<1>3. PICK q \in Products : r = ProductRow(q)
  BY <1>2 DEF Rows, UserRows, AccountRows, ProductRows, AccountsOf
<1> QED
  BY <1>1, <1>3 DEF SerialThread, ProductSerial, Still, Sold

LEMMA SkipSerial ==
  ASSUME StockInv, RangeInv, SerialInv, RowLocked, NEW t \in Threads, SkipProduct(t)
  PROVE  StepsSerially(t)
<1>0. PICK p : p = First(todo[t])
  OBVIOUS
<1> DEFINE r == ProductRow(p)
           n == batch[t][p]
<1>1. /\ p \in Products /\ r \in Rows /\ p \in todo[t] /\ p \in InBatch(batch[t])
      /\ holder[r] = t /\ r \notin DOMAIN saved[t] /\ latest[r] = committed[r]
      /\ committed[r] \in Int /\ n \in Nat /\ pout[t][r] = 0 /\ pin[t][r] = 0
      /\ kind[t] = "package" /\ todo[t] \subseteq InBatch(batch[t])
      /\ ~Fails(t) /\ SerialThread(t)
  BY <1>0, ItemFacts DEF SkipProduct
<1>2. /\ pc[t] = "deduct" /\ Insert(t) /\ NextItem(t, p, pout[t])
      /\ latest[r] < n \/ (conf.profile = "pgsql" /\ Visible(t, r) < n)
      /\ UNCHANGED <<kind, who, batch, due, saved, pout, pin>>
  BY <1>0 DEF SkipProduct, requestVars, workVars, pendingVars
<1>3. ~InStock(t, p)
  <2>1. CASE conf.profile = "pgsql"
    <3>1. ~DirtyReads /\ ~Snapshots
      BY <2>1 DEF DirtyReads, Snapshots, Level, RowLocked, SkipsRowLocks, StockInv, TypeOK,
                  DatabaseTypeOK, Deployments, Isolations
    <3>2. Visible(t, r) = committed[r]
      BY <1>1, <3>1 DEF SerialThread, Visible, Dirty
    <3> QED
      BY <1>1, <1>2, <3>2 DEF InStock
  <2>2. CASE conf.profile # "pgsql"
    BY <1>1, <1>2, <2>2 DEF InStock
  <2> QED
    BY <2>1, <2>2
<1>4. Reads(t)
  BY <1>2 DEF Reads
<1>5. /\ Statement(t) /\ committed' = committed
      /\ \A s \in Rows : Mine(t, s)' = Mine(t, s) /\ (holder[s] = t => holder'[s] = t)
  BY <1>2, <1>4, ReadsMine
<1>6. /\ todo'[t] = todo[t] \ {p}
      /\ \A v \in Threads \ {t} : pc'[v] = pc[v] /\ todo'[v] = todo[v] /\ outcome'[v] = outcome[v]
      /\ \/ pc'[t] = "deduct" /\ todo[t] # {p}
         \/ todo[t] = {p} /\ pout[t] # NoEntries /\ pc'[t] = "cash"
         \/ Fails(t)'
  BY <1>2 DEF NextItem, Goto, Leave, Ending, Fails, StockInv, TypeOK, BizTypeOK
<1>7. OthersKeep(t)
  BY <1>2, <1>6 DEF OthersKeep
<1>8. CASE Fails(t)'
  BY <1>2, <1>4, <1>7, <1>8, FailsSerial
<1>9. CASE ~Fails(t)'
  <2>1. Sold(t, p)'
    <3>1. ~InStock(t, p)'
      BY <1>2, <1>3, <1>5 DEF InStock
    <3>2. Mine(t, r)' = committed[r]
      BY <1>1, <1>5 DEF Mine
    <3> QED
      BY <1>1, <1>2, <1>5, <3>1, <3>2 DEF Sold
  <2>2. pc'[t] = "cash" => \E q \in InBatch(batch[t]) : InStock(t, q)
    <3>1. Served(t) = {} /\ Handled(t) \subseteq InBatch(batch[t])
      BY <1>1, <1>2 DEF Served, Handled, WillCommit
    <3> QED
      BY <1>1, <1>6, <1>9, <3>1, EntrySold
  <2>3. due'[t] = due[t] + 0
    BY <1>2 DEF StockInv, TypeOK, BizTypeOK
  <2> QED
    BY <1>0, <1>1, <1>2, <1>3, <1>5, <1>6, <1>7, <1>9, <2>1, <2>2, <2>3, ItemDone
<1> QED
  BY <1>8, <1>9

-----------------------------------------------------------------------------
(* Accounts. *)

LEMMA ReadCashSerial ==
  ASSUME StockInv, SerialInv, RowLocked, NEW t \in Threads, ReadCash(t)
  PROVE  StepsSerially(t)
<1>1. /\ UNCHANGED <<saved, kind, who, todo, batch, due, pin, pout, outcome>>
      /\ pc[t] = "cash" /\ Goto(t, "credit") /\ \E R : Read(t, R)
  BY DEF ReadCash, Goto, requestVars, pendingVars
<1>2. pc'[t] = "credit" /\ \A v \in Threads \ {t} : pc'[v] = pc[v]
  BY <1>1, GotoPc DEF StockInv, TypeOK
<1>3. OthersKeep(t) /\ Reads(t)
  BY <1>1, <1>2 DEF OthersKeep, Reads
<1>4. ~WillCommit(t) /\ ~WillCommit(t)' /\ ~Fails(t)
  BY <1>1, <1>2 DEF WillCommit, Fails
<1>5. InBatch(batch[t])' = InBatch(batch[t]) /\ InBatch(batch[t]) \subseteq Products
  BY <1>1 DEF InBatch
<1>6. Served(t)' = Served(t) /\ Handled(t)' = Handled(t)
  BY <1>1, <1>2, <1>4, <1>5 DEF Served, Handled
<1>7. \A p \in Products : InStock(t, p)' <=> InStock(t, p)
  BY <1>1, <1>3, ReadsMine DEF InStock
<1>8. Price(t)' = Price(t)
  BY <1>1, <1>6, <1>7 DEF Price
<1>9. Asked(t)' /\ Ordered(t)'
  BY <1>1, <1>2, <1>4, <1>5, <1>7, <1>8 DEF SerialInv, SerialThread, Asked, Ordered
<1> QED
  BY <1>1, <1>3, <1>4, <1>6, <1>9, ReadsSerial

(* The account row of a user whose row t holds. *)
LEMMA OwnAccount ==
  ASSUME AccountsInv, RowLocked, NEW t \in Threads, NEW u \in Users, holder[UserRow(u)] = t,
         NEW r \in AccountsOf(u)
  PROVE  Mine(t, r) = After(t, r)
BY DEF AccountsInv, RowsOwned, Mine, After

(* Before it is billed or recharged the user in turn has the committed     *)
(* accounts, and these are what was read.                                  *)
LEMMA CreditFacts ==
  ASSUME StockInv, AccountsInv, SerialInv, RowLocked, NEW t \in Threads, pc[t] = "credit",
         NEW a, a = Account(t), a \notin Served(t)
  PROVE  /\ a \in Users /\ holder[UserRow(a)] = t /\ saved[t] = NothingSaved
         /\ seen[t] = committed[CashRow(a)] /\ latest[CashRow(a)] = committed[CashRow(a)]
         /\ Visible(t, CreditRow(a)) = committed[CreditRow(a)]
         /\ latest[CreditRow(a)] = committed[CreditRow(a)]
         /\ pout[t][UserRow(a)] = 0 /\ pin[t][UserRow(a)] = 0
         /\ committed[CashRow(a)] \in Int /\ committed[CreditRow(a)] \in Int
<1>1. a \in Users /\ holder[UserRow(a)] = t
  BY AccountLocked
<1>2. saved[t] = NothingSaved /\ seen[t] = latest[CashRow(a)]
  BY DEF AccountsInv, InTurn
<1>3. CashRow(a) \in AccountsOf(a) /\ CreditRow(a) \in AccountsOf(a)
  BY DEF AccountsOf
<1>4. \A r \in AccountsOf(a) : Mine(t, r) = latest[r]
  BY <1>1, <1>2, OwnAccount DEF After, NothingSaved
<1>5. \A r \in AccountsOf(a) \cup {UserRow(a)} : Still(t, r)
  BY <1>1 DEF SerialInv, SerialThread, UserSerial, Fails
<1>6. Visible(t, CreditRow(a)) = latest[CreditRow(a)]
  BY <1>1, <1>3, VisibleLatest
<1>7. committed[CashRow(a)] \in Int /\ committed[CreditRow(a)] \in Int
  BY <1>1, UserFacts DEF StockInv, TypeOK, DatabaseTypeOK
<1> QED
  BY <1>1, <1>2, <1>3, <1>4, <1>5, <1>6, <1>7 DEF Still

(* The accounts of the user in turn are settled, the rest goes on. *)
LEMMA SettleSerial ==
  ASSUME StockInv, AccountsInv, SerialInv, RowLocked, NEW t \in Threads, pc[t] = "credit",
         NEW a, a = Account(t), a \notin Served(t), \E R : Read(t, R),
         NEW cash \in Int, NEW credit \in Int,
         Save(t, a, cash, credit, committed[CreditRow(a)]),
         kind'[t] = kind[t], batch'[t] = batch[t], due'[t] = due[t],
         \A r \in Rows \ {UserRow(a)} : pout'[t][r] = pout[t][r] /\ pin'[t][r] = pin[t][r],
         Served(t)' = Served(t) \cup {a}, Handled(t)' = Handled(t)
  PROVE  /\ Statement(t) /\ committed' = committed /\ (view'[t] # NoView => Snapshots')
         /\ Mine(t, CashRow(a))' = cash /\ Mine(t, CreditRow(a))' = credit
         /\ holder'[UserRow(a)] = t
         /\ \A v \in Threads \ {t} : saved'[v] = saved[v]
         /\ \A u \in Users \ {a} : UserSerial(t, u)'
         /\ \A r \in AccountsOf(a) : pout'[t][r] = 0 /\ pin'[t][r] = 0
         /\ \A p \in Products : ProductSerial(t, p)'
<1>1. /\ a \in Users /\ holder[UserRow(a)] = t /\ saved[t] = NothingSaved
      /\ seen[t] = latest[CashRow(a)] /\ committed[CreditRow(a)] = latest[CreditRow(a)]
  BY CreditFacts
<1>2. /\ Statement(t)
      /\ committed' = committed /\ latest' = latest /\ holder' = holder
  BY DEF Read, Statement
<1>3. view'[t] # NoView => Snapshots'
  BY <1>2, StatementView DEF SerialInv, SerialThread, StockInv, TypeOK
<1>4. /\ After(t, CashRow(a))' = cash /\ After(t, CreditRow(a))' = credit
      /\ DOMAIN saved'[t] \subseteq AccountsOf(a)
      /\ \A v \in Threads \ {t} : saved'[v] = saved[v]
  BY <1>1, <1>2, SavedFacts DEF StockInv, TypeOK
<1>5. \A r \in AccountsOf(a) : Mine(t, r)' = After(t, r)'
  BY <1>1, <1>2 DEF AccountsInv, RowsOwned, Mine, After
<1>6. \A r : r \notin AccountsOf(a) => Mine(t, r)' = Mine(t, r)
  BY <1>1, <1>2, <1>4 DEF Mine, NothingSaved
<1>7. SerialThread(t) /\ ~Fails(t)
  BY DEF SerialInv, Fails
<1>8. ASSUME NEW u \in Users \ {a} PROVE UserSerial(t, u)'
  <2>1. /\ UserSerial(t, u) /\ u \in Users
        /\ \A r \in AccountsOf(u) \cup {UserRow(u)} :
             r \in Rows /\ r # UserRow(a) /\ r \notin AccountsOf(a)
    <3>1. AccountsOf(u) \subseteq AccountRows /\ AccountsOf(a) \subseteq AccountRows
      BY <1>1, UserFacts
    <3> QED
      BY <1>1, <1>7, <3>1, UserFacts DEF SerialThread
  <2>2. u \in Served(t) => holder'[UserRow(u)] = t
    BY <1>2, <2>1 DEF UserSerial
  <2>3. \A r \in AccountsOf(u) \cup {UserRow(u)} :
          /\ pout'[t][r] = pout[t][r] /\ pin'[t][r] = pin[t][r]
          /\ Mine(t, r)' = Mine(t, r) /\ committed'[r] = committed[r]
    BY <1>2, <1>6, <2>1
  <2> QED
    BY <2>1, <2>2, <2>3, UserGoesOn
<1>9. \A r \in AccountsOf(a) : pout'[t][r] = 0 /\ pin'[t][r] = 0
  <2>1. UserSerial(t, a) /\ \A r \in AccountsOf(a) : r \in Rows /\ r # UserRow(a)
    BY <1>1, <1>7, UserFacts DEF SerialThread
  <2> QED
    BY <2>1 DEF UserSerial
<1>10. ASSUME NEW p \in Products PROVE ProductSerial(t, p)'
  <2>1. /\ ProductSerial(t, p) /\ ProductRow(p) \in Rows \ {UserRow(a)}
        /\ ProductRow(p) \notin AccountsOf(a)
    BY <1>1, <1>7, RowFacts, UserFacts DEF SerialThread
  <2>2. p \in Handled(t) => holder'[ProductRow(p)] = t
    BY <1>2, <2>1 DEF ProductSerial
  <2> QED
    BY <1>2, <1>6, <2>1, <2>2, ProductGoesOn
<1> QED
  BY <1>1, <1>2, <1>3, <1>4, <1>5, <1>8, <1>9, <1>10 DEF AccountsOf

LEMMA PayBillSerial ==
  ASSUME StockInv, AccountsInv, SerialInv, RowLocked, NEW t \in Threads, PayBill(t)
  PROVE  StepsSerially(t)
<1>0. PICK a, result : /\ a = Account(t)
                       /\ result = Consume(committed[CashRow(a)], committed[CreditRow(a)], due[t])
  OBVIOUS
<1>1. /\ pc[t] = "credit" /\ kind[t] \in {"usage", "package"} /\ Read(t, {CreditRow(a)})
      /\ UNCHANGED <<kind, who, todo, batch, due, pin>>
  BY <1>0 DEF PayBill, requestVars, workVars
<1>2. Served(t) = {} /\ ~WillCommit(t) /\ ~Fails(t) /\ SerialThread(t)
  BY <1>1 DEF Served, WillCommit, Fails, SerialInv
<1>3. /\ a \in Users /\ seen[t] = committed[CashRow(a)]
      /\ Visible(t, CreditRow(a)) = committed[CreditRow(a)]
      /\ pout[t][UserRow(a)] = 0 /\ pin[t][UserRow(a)] = 0
      /\ committed[CashRow(a)] \in Int /\ committed[CreditRow(a)] \in Int
  BY <1>0, <1>1, <1>2, CreditFacts
<1>4. \/ Leave(t, "biz") /\ UNCHANGED <<pout, saved>>
      \/ /\ kind[t] # "package" \/ ~(result.debt > 0)
         /\ pout' = [pout EXCEPT ![t][UserRow(a)] =
                            @ + result.cashConsume + result.creditConsume]
         /\ Save(t, a, result.cash, result.credit, committed[CreditRow(a)])
         /\ IF kind[t] = "package" THEN Leave(t, "ok") ELSE Goto(t, "status")
  BY <1>0, <1>3 DEF PayBill
<1>5. CASE Leave(t, "biz") /\ UNCHANGED <<pout, saved>>
  <2>1. /\ \A v \in Threads \ {t} : pc'[v] = pc[v] /\ outcome'[v] = outcome[v]
        /\ Fails(t)'
    BY <1>5 DEF Leave, Ending, Fails, StockInv, TypeOK, BizTypeOK
  <2>2. OthersKeep(t) /\ Reads(t)
    BY <1>1, <1>5, <2>1 DEF OthersKeep, Reads
  <2> QED
    BY <1>1, <1>5, <2>1, <2>2, FailsSerial
<1>6. CASE /\ kind[t] # "package" \/ ~(result.debt > 0)
           /\ pout' = [pout EXCEPT ![t][UserRow(a)] =
                              @ + result.cashConsume + result.creditConsume]
           /\ Save(t, a, result.cash, result.credit, committed[CreditRow(a)])
           /\ IF kind[t] = "package" THEN Leave(t, "ok") ELSE Goto(t, "status")
  <2>1. /\ \A v \in Threads \ {t} : pc'[v] = pc[v] /\ outcome'[v] = outcome[v]
        /\ IF kind[t] = "package" THEN WillCommit(t)' ELSE pc'[t] = "status"
    BY <1>6 DEF Leave, Ending, Goto, WillCommit, StockInv, TypeOK, BizTypeOK
  <2>2. pc'[t] \notin {"source", "cash", "credit", "deduct", "lockProduct", "reload", "restock"}
    BY <2>1 DEF WillCommit
  <2>3. /\ result.cash \in Int /\ result.credit \in Int
        /\ result.cashConsume \in Int /\ result.creditConsume \in Int
        /\ ~(result.debt > 0) => result.debt = 0
    <3>1. due[t] \in Int
      BY DEF StockInv, TypeOK, BizTypeOK
    <3> QED
      BY <1>0, <1>3, <3>1 DEF Consume
  <2>4. /\ pout'[t][UserRow(a)] = result.cashConsume + result.creditConsume
        /\ \A r \in Rows \ {UserRow(a)} : pout'[t][r] = pout[t][r]
        /\ \A v \in Threads \ {t} : pout'[v] = pout[v]
    BY <1>3, <1>6, <2>3, UserFacts DEF StockInv, TypeOK, BizTypeOK
  <2>5. who[t] = {a} /\ Served(t)' = {a}
    <3>1. PICK u \in Users : who[t] = {u}
      BY <1>1, <1>2 DEF SerialThread, Asked
    <3>2. a = u
      BY <1>0, <1>1, <3>1, TablesAssumption, FirstIn DEF Account
    <3> QED
      BY <1>1, <2>1, <3>1, <3>2 DEF Served
  <2>6. InBatch(batch[t])' = InBatch(batch[t]) /\ InBatch(batch[t]) \subseteq Products
    BY <1>1 DEF InBatch
  <2>7. Handled(t)' = Handled(t)
    BY <1>1, <1>2, <2>1, <2>2, <2>6 DEF Handled, WillCommit
  <2>8. /\ Statement(t) /\ committed' = committed /\ (view'[t] # NoView => Snapshots')
        /\ Mine(t, CashRow(a))' = result.cash /\ Mine(t, CreditRow(a))' = result.credit
        /\ holder'[UserRow(a)] = t
        /\ \A v \in Threads \ {t} : saved'[v] = saved[v]
        /\ \A u \in Users \ {a} : UserSerial(t, u)'
        /\ \A r \in AccountsOf(a) : pout'[t][r] = 0 /\ pin'[t][r] = 0
        /\ \A p \in Products : ProductSerial(t, p)'
    <3>1. /\ kind'[t] = kind[t] /\ batch'[t] = batch[t] /\ due'[t] = due[t]
          /\ a \notin Served(t) /\ Served(t)' = Served(t) \cup {a}
          /\ \A r \in Rows \ {UserRow(a)} : pout'[t][r] = pout[t][r] /\ pin'[t][r] = pin[t][r]
          /\ \E R : Read(t, R)
      BY <1>1, <1>2, <2>4, <2>5
    <3>2. /\ Save(t, a, result.cash, result.credit, committed[CreditRow(a)])
          /\ result.cash \in Int /\ result.credit \in Int
      BY <1>6, <2>3
    <3> QED
      BY <1>0, <1>1, <2>7, <3>1, <3>2, SettleSerial
  <2>9. OthersKeep(t)
    BY <1>1, <2>1, <2>4, <2>8 DEF OthersKeep
  <2>10. UserSerial(t, a)'
    <3>1. Consume(committed[CashRow(a)], committed[CreditRow(a)], due[t])' = result
      BY <1>0, <1>1, <2>8
    <3>2. Billed(t, a)'
      BY <1>1, <1>3, <1>6, <2>3, <2>4, <2>8, <3>1 DEF Billed, Leaves
    <3> QED
      BY <1>1, <2>5, <2>8, <3>2 DEF UserSerial
  <2>11. Asked(t)'
    BY <1>1, <1>2, <2>2 DEF SerialThread, Asked
  <2>12. Ordered(t)'
    <3>1. \A p \in Products : InStock(t, p)' <=> InStock(t, p)
      BY <1>1, <2>8 DEF InStock
    <3>2. Price(t)' = Price(t)
      BY <1>1, <2>7, <3>1 DEF Price
    <3> QED
      BY <1>1, <1>2, <2>2, <2>6, <3>1, <3>2 DEF SerialThread, Ordered
  <2> QED
    BY <2>8, <2>9, <2>10, <2>11, <2>12 DEF SerialThread, StepsSerially
<1> QED
  BY <1>4, <1>5, <1>6

LEMMA RechargeSerial ==
  ASSUME StockInv, AccountsInv, SerialInv, RowLocked, NEW t \in Threads, Recharge(t)
  PROVE  StepsSerially(t)
<1>0. PICK a, amount, result :
        /\ a = Account(t) /\ amount = due[t]
        /\ result = CalculationRecharge(amount, committed[CashRow(a)], committed[CreditRow(a)],
                                        CreditInit)
  OBVIOUS
<1>1. /\ pc[t] = "credit" /\ kind[t] = "recharge" /\ Read(t, {CreditRow(a)})
      /\ Goto(t, "status")
      /\ UNCHANGED <<kind, who, todo, batch, due, pout>>
  BY <1>0 DEF Recharge, requestVars, workVars
<1>2. /\ pc'[t] = "status" /\ outcome' = outcome
      /\ \A v \in Threads \ {t} : pc'[v] = pc[v]
  BY <1>1 DEF Goto, StockInv, TypeOK, BizTypeOK
<1>3. ~WillCommit(t) /\ ~WillCommit(t)' /\ ~Fails(t) /\ SerialThread(t)
  BY <1>1, <1>2 DEF WillCommit, Fails, SerialInv
<1>4. a \in Users /\ a \in todo[t] /\ a \in who[t]
  BY <1>0, <1>1, AccountFacts DEF AccountsInv, InTurn
<1>5. Served(t) = who[t] \ todo[t] /\ Served(t)' = Served(t) \cup {a} /\ a \notin Served(t)
  <2>1. Account(t)' = a
    BY <1>0, <1>1 DEF Account
  <2> QED
    BY <1>1, <1>2, <1>4, <2>1 DEF Served
<1>6. /\ seen[t] = committed[CashRow(a)]
      /\ Visible(t, CreditRow(a)) = committed[CreditRow(a)]
      /\ pout[t][UserRow(a)] = 0 /\ pin[t][UserRow(a)] = 0
      /\ committed[CashRow(a)] \in Int /\ committed[CreditRow(a)] \in Int
  BY <1>0, <1>1, <1>5, CreditFacts
<1>7. /\ pin' = [pin EXCEPT ![t][UserRow(a)] = @ + result.cashConsume + result.creditConsume]
      /\ Save(t, a, result.cash, result.credit, committed[CreditRow(a)])
  BY <1>0, <1>6 DEF Recharge
<1>8. /\ result.cash \in Int /\ result.credit \in Int
      /\ result.cashConsume \in Int /\ result.creditConsume \in Int
      /\ result.cashConsume + result.creditConsume = amount
      /\ amount \in RechargeAmounts
  <2>1. amount \in Int /\ CreditInit \in Int
    BY <1>0, TablesAssumption DEF StockInv, TypeOK, BizTypeOK
  <2>2. amount \in RechargeAmounts
    BY <1>0, <1>1, <1>3 DEF SerialThread, Asked
  <2> QED
    BY <1>0, <1>6, <2>1, <2>2 DEF CalculationRecharge
<1>9. /\ pin'[t][UserRow(a)] = amount
      /\ \A r \in Rows \ {UserRow(a)} : pin'[t][r] = pin[t][r]
      /\ \A v \in Threads \ {t} : pin'[v] = pin[v]
  BY <1>4, <1>6, <1>7, <1>8, UserFacts DEF StockInv, TypeOK, BizTypeOK
<1>10. Handled(t)' = Handled(t)
  BY <1>1, <1>2, <1>3 DEF Handled
<1>11. /\ Statement(t) /\ committed' = committed /\ (view'[t] # NoView => Snapshots')
       /\ Mine(t, CashRow(a))' = result.cash /\ Mine(t, CreditRow(a))' = result.credit
       /\ holder'[UserRow(a)] = t
       /\ \A v \in Threads \ {t} : saved'[v] = saved[v]
       /\ \A u \in Users \ {a} : UserSerial(t, u)'
       /\ \A r \in AccountsOf(a) : pout'[t][r] = 0 /\ pin'[t][r] = 0
       /\ \A p \in Products : ProductSerial(t, p)'
  <2>1. /\ kind'[t] = kind[t] /\ batch'[t] = batch[t] /\ due'[t] = due[t]
        /\ a \notin Served(t) /\ Served(t)' = Served(t) \cup {a}
        /\ \A r \in Rows \ {UserRow(a)} : pout'[t][r] = pout[t][r] /\ pin'[t][r] = pin[t][r]
        /\ \E R : Read(t, R)
    BY <1>1, <1>5, <1>9
  <2>2. /\ Save(t, a, result.cash, result.credit, committed[CreditRow(a)])
        /\ result.cash \in Int /\ result.credit \in Int
    BY <1>7, <1>8
  <2> QED
    BY <1>0, <1>1, <1>10, <2>1, <2>2, SettleSerial
<1>12. OthersKeep(t)
  BY <1>1, <1>2, <1>9, <1>11 DEF OthersKeep
<1>13. UserSerial(t, a)'
  <2>1. CalculationRecharge(pin[t][UserRow(a)], committed[CashRow(a)], committed[CreditRow(a)],
                            CreditInit)' = result
    BY <1>0, <1>9, <1>11
  <2>2. Recharged(t, a)'
    BY <1>1, <1>6, <1>8, <1>9, <1>11, <2>1 DEF Recharged, Leaves
  <2> QED
    BY <1>1, <1>5, <1>11, <2>2 DEF UserSerial
<1>14. Asked(t)' /\ Ordered(t)'
  BY <1>1, <1>2, <1>3 DEF SerialThread, Asked, Ordered
<1> QED
  BY <1>11, <1>12, <1>13, <1>14 DEF SerialThread, StepsSerially

(* A flush moves what t has saved to the newest rows. *)
LEMMA FlushSerial ==
  ASSUME StockInv, AccountsInv, SerialInv, RowLocked, NEW t \in Threads, Flush(t)
  PROVE  StepsSerially(t)
<1>0. PICK row : row = NextWrite(t)
  OBVIOUS
<1>1. /\ pc[t] \in {"status", "commit"} /\ Update(t, row, saved[t][row], FALSE)
      /\ saved' = [saved EXCEPT ![t] = Restrict(@, DOMAIN @ \ {row})]
      /\ UNCHANGED <<pc, kind, who, todo, batch, due, pin, pout, outcome>>
  BY <1>0 DEF Flush, requestVars, workVars
<1>2. row \in DOMAIN saved[t] /\ row \in AccountRows
  BY <1>0, NextWriteFacts DEF Flush, StockInv, TypeOK, BizTypeOK
<1>3. /\ DOMAIN saved'[t] = DOMAIN saved[t] \ {row}
      /\ \A r \in DOMAIN saved'[t] : saved'[t][r] = saved[t][r]
      /\ \A v \in Threads \ {t} : saved'[v] = saved[v]
  BY <1>1 DEF Restrict, StockInv, TypeOK, BizTypeOK
<1>4. /\ committed' = committed
      /\ latest' = [latest EXCEPT ![row] = saved[t][row]] /\ holder' = [holder EXCEPT ![row] = t]
  BY <1>1 DEF Update
<1>5. row \in Rows /\ Statement(t)
  BY <1>1, <1>2 DEF Statement, DataRows, Rows
<1>6. \A r \in Rows : Mine(t, r)' = Mine(t, r) /\ (holder[r] = t => holder'[r] = t)
  <2>1. Mine(t, row)' = saved[t][row] /\ holder'[row] = t
    BY <1>3, <1>4, <1>5 DEF Mine, StockInv, TypeOK, DatabaseTypeOK
  <2>2. \A r \in Rows \ {row} : Mine(t, r)' = Mine(t, r) /\ holder'[r] = holder[r]
    BY <1>3, <1>4, <1>5 DEF Mine, StockInv, TypeOK, DatabaseTypeOK
  <2> QED
    BY <1>2, <2>1, <2>2 DEF Mine
<1>7. OthersKeep(t)
  BY <1>1, <1>3 DEF OthersKeep
<1>8. SerialThread(t) /\ ~Fails(t) /\ (WillCommit(t)' <=> WillCommit(t))
  BY <1>1 DEF SerialInv, Fails, WillCommit
<1>9. /\ Account(t)' = Account(t) /\ InBatch(batch[t])' = InBatch(batch[t])
      /\ InBatch(batch[t]) \subseteq Products
  BY <1>1 DEF Account, InBatch
<1>10. Served(t)' = Served(t) /\ Handled(t)' = Handled(t)
  BY <1>1, <1>8, <1>9 DEF Served, Handled
<1>11. \A p \in Products : InStock(t, p)' <=> InStock(t, p)
  BY <1>1, <1>4 DEF InStock
<1>12. Price(t)' = Price(t)
  BY <1>1, <1>10, <1>11 DEF Price
<1>13. Asked(t)' /\ Ordered(t)'
  BY <1>1, <1>8, <1>9, <1>11, <1>12 DEF SerialThread, Asked, Ordered
<1>14. view'[t] # NoView => Snapshots'
  BY <1>5, <1>8, StatementView DEF SerialThread, StockInv, TypeOK
<1> QED
  BY <1>1, <1>4, <1>5, <1>6, <1>7, <1>8, <1>10, <1>13, <1>14, OwnGoesOn DEF StepsSerially

LEMMA StatusSerial ==
  ASSUME StockInv, AccountsInv, OneUsers, SerialInv, RowLocked, NEW t \in Threads,
         UpdateStatusCode(t)
  PROVE  StepsSerially(t)
<1>0. PICK a : a = Account(t)
  OBVIOUS
<1>1. /\ pc[t] = "status" /\ todo' = [todo EXCEPT ![t] = @ \ {a}]
      /\ IF todo[t] = {a} THEN Leave(t, "ok") ELSE Goto(t, "source")
      /\ UNCHANGED <<dbVars, saved, kind, who, batch, due, pin, pout>>
  BY <1>0 DEF UpdateStatusCode, requestVars, workVars, pendingVars
<1>2. /\ \A v \in Threads \ {t} : pc'[v] = pc[v] /\ todo'[v] = todo[v] /\ outcome'[v] = outcome[v]
      /\ todo'[t] = todo[t] \ {a}
      /\ IF todo[t] = {a} THEN WillCommit(t)' ELSE pc'[t] = "source"
  BY <1>1 DEF Leave, Ending, Goto, WillCommit, StockInv, TypeOK, BizTypeOK
<1>3. ~WillCommit(t) /\ ~Fails(t) /\ SerialThread(t)
  BY <1>1 DEF WillCommit, Fails, SerialInv
<1>4. kind[t] \in {"usage", "recharge"}
  BY <1>1 DEF StockInv, WorkOK, ThreadOK
<1>5. kind[t] = "usage" => todo[t] = {a} /\ todo[t] = who[t]
  BY <1>0, <1>1, UsageDone DEF OneUsers, OneUser, AccountSteps
<1>6. kind[t] = "recharge" => a \in todo[t] /\ todo[t] \subseteq who[t]
  BY <1>0, <1>1, AccountFacts DEF AccountsInv, InTurn
<1>7. OthersKeep(t) /\ Reads(t)
  BY <1>1, <1>2 DEF OthersKeep, Reads
<1>8. Served(t)' = Served(t)
  <2>1. CASE kind[t] = "usage"
    BY <1>1, <1>2, <1>5, <2>1 DEF Served
  <2>2. CASE kind[t] = "recharge" /\ todo[t] = {a}
    <3>1. Served(t) = who[t] /\ pc'[t] \notin {"source", "cash", "credit", "status"}
      BY <1>0, <1>1, <1>2, <1>6, <2>2 DEF Served, WillCommit
    <3> QED
      BY <1>1, <1>2, <2>2, <3>1 DEF Served
  <2>3. CASE kind[t] = "recharge" /\ todo[t] # {a}
    BY <1>0, <1>1, <1>2, <1>6, <2>3 DEF Served
  <2> QED
    BY <1>4, <2>1, <2>2, <2>3
<1>9. pc'[t] \notin {"idle", "cash", "credit", "deduct", "lockProduct", "reload", "restock"}
  BY <1>2 DEF WillCommit
<1>10. Handled(t) = {} /\ Handled(t)' = {}
  BY <1>1, <1>3, <1>4, <1>9 DEF Handled
<1>11. Asked(t)' /\ Ordered(t)'
  BY <1>1, <1>2, <1>3, <1>4, <1>5, <1>9 DEF SerialThread, Asked, Ordered
<1> QED
  BY <1>1, <1>3, <1>7, <1>8, <1>10, <1>11, ReadsSerial

-----------------------------------------------------------------------------
(* Reloads. *)

LEMMA ReadStockSerial ==
  ASSUME StockInv, SerialInv, RowLocked, NEW t \in Threads, ReadStock(t)
  PROVE  StepsSerially(t)
<1>1. /\ UNCHANGED <<saved, kind, who, todo, batch, due, pin, pout, outcome>>
      /\ pc[t] = "reload" /\ Goto(t, "restock") /\ Reads(t)
  BY DEF ReadStock, Goto, Reads, requestVars, pendingVars
<1>2. pc'[t] = "restock" /\ \A v \in Threads \ {t} : pc'[v] = pc[v]
  BY <1>1, GotoPc DEF StockInv, TypeOK
<1>3. OthersKeep(t)
  BY <1>1, <1>2 DEF OthersKeep
<1>4. ~WillCommit(t) /\ ~WillCommit(t)' /\ ~Fails(t)
  BY <1>1, <1>2 DEF WillCommit, Fails
<1>5. InBatch(batch[t])' = InBatch(batch[t])
  BY <1>1 DEF InBatch
<1>6. kind[t] = "reload"
  BY <1>1 DEF SerialInv, SerialThread, Asked
<1>7. Served(t) = {} /\ Served(t)' = {} /\ Handled(t)' = Handled(t)
  BY <1>1, <1>2, <1>4, <1>5, <1>6 DEF Served, Handled
<1>8. Asked(t)' /\ Ordered(t)'
  BY <1>1, <1>2, <1>4, <1>6 DEF SerialInv, SerialThread, Asked, Ordered
<1> QED
  BY <1>1, <1>3, <1>4, <1>7, <1>8, ReadsSerial

LEMMA RestockSerial ==
  ASSUME StockInv, RangeInv, SerialInv, RowLocked, NEW t \in Threads, Restock(t)
  PROVE  StepsSerially(t)
<1>0. PICK p, r, missing : /\ p = First(todo[t]) /\ r = ProductRow(p)
                           /\ missing = ProductStockMax - committed[r]
  OBVIOUS
<1>1. /\ pc[t] = "restock" /\ todo' = [todo EXCEPT ![t] = @ \ {p}]
      /\ IF todo[t] = {p} THEN Leave(t, "ok") ELSE Goto(t, "reload")
      /\ Update(t, r, latest[r] + (ProductStockMax - seen[t]), FALSE)
      /\ pin' = [pin EXCEPT ![t][r] = @ + (ProductStockMax - seen[t])]
      /\ UNCHANGED <<kind, who, batch, due, saved, pout>>
  BY <1>0 DEF Restock, requestVars, workVars
<1>2. p \in Products /\ p \in todo[t]
  BY <1>0, <1>1, ProductFacts
<1>3. r \in Rows /\ r \in ProductRows /\ r \notin DOMAIN saved[t]
  BY <1>0, <1>2, RowFacts, ProductRowFacts DEF StockInv, TypeOK, BizTypeOK
<1>4. SerialThread(t) /\ ~Fails(t) /\ ~WillCommit(t) /\ kind[t] = "reload"
  BY <1>1 DEF SerialInv, Fails, WillCommit, SerialThread, Asked
<1>5. /\ todo[t] \subseteq InBatch(batch[t]) /\ seen[t] = latest[r] /\ holder[r] = t
      /\ InBatch(batch[t]) \subseteq Products
  <2>1. ProductsLocked(t) = InBatch(batch[t])
    BY <1>1 DEF ProductsLocked, ProductsInUse
  <2>2. LocksRows
    BY DEF RowLocked, LocksRows
  <2>3. ProductsHeld(t)
    BY <2>2 DEF RangeInv
  <2> QED
    BY <1>0, <1>1, <1>2, <2>1, <2>3 DEF ProductsHeld, InBatch
<1>6. Handled(t) = InBatch(batch[t]) \ todo[t] /\ Served(t) = {}
  BY <1>1, <1>4 DEF Handled, Served
<1>7. pout[t][r] = 0 /\ pin[t][r] = 0 /\ latest[r] = committed[r]
  <2>1. Still(t, r)
    BY <1>0, <1>2, <1>4, <1>6 DEF SerialThread, ProductSerial
  <2> QED
    BY <1>3, <1>5, <2>1 DEF Still, Mine
<1>8. /\ ProductStockMax \in Int /\ committed[r] \in Int /\ missing \in Int
      /\ ProductStockMax - seen[t] = missing /\ latest[r] + missing = ProductStockMax
  BY <1>0, <1>3, <1>5, <1>7, TablesAssumption DEF StockInv, TypeOK, DatabaseTypeOK
<1>9. /\ committed' = committed /\ latest' = [latest EXCEPT ![r] = ProductStockMax]
      /\ holder' = [holder EXCEPT ![r] = t] /\ Statement(t)
  BY <1>1, <1>3, <1>8 DEF Update, Statement, DataRows
<1>10. /\ pin'[t][r] = missing /\ \A s \in Rows \ {r} : pin'[t][s] = pin[t][s]
       /\ \A v \in Threads \ {t} : pin'[v] = pin[v]
  BY <1>1, <1>3, <1>7, <1>8 DEF StockInv, TypeOK, BizTypeOK
<1>11. /\ \A v \in Threads \ {t} : pc'[v] = pc[v] /\ todo'[v] = todo[v] /\ outcome'[v] = outcome[v]
       /\ todo'[t] = todo[t] \ {p}
       /\ IF todo[t] = {p} THEN WillCommit(t)' ELSE pc'[t] = "reload"
  BY <1>1 DEF Leave, Ending, Goto, WillCommit, StockInv, TypeOK, BizTypeOK
<1>12. OthersKeep(t)
  BY <1>1, <1>10, <1>11 DEF OthersKeep
<1>13. InBatch(batch[t])' = InBatch(batch[t])
  BY <1>1 DEF InBatch
<1>14. pc'[t] # "idle" /\ pc'[t] # "deduct"
  BY <1>11 DEF WillCommit
<1>15. Served(t)' = {} /\ Handled(t)' = Handled(t) \cup {p}
  BY <1>1, <1>2, <1>4, <1>5, <1>6, <1>11, <1>13 DEF Handled, Served, WillCommit
<1>16. \A s \in Rows \ {r} : Mine(t, s)' = Mine(t, s) /\ (holder[s] = t => holder'[s] = t)
  BY <1>1, <1>3, <1>9 DEF Mine, StockInv, TypeOK, DatabaseTypeOK
<1>17. holder'[r] = t /\ Mine(t, r)' = ProductStockMax
  BY <1>1, <1>3, <1>9 DEF Mine, StockInv, TypeOK, DatabaseTypeOK
<1>18. ASSUME NEW u \in Users PROVE UserSerial(t, u)'
  <2>1. /\ UserSerial(t, u)
        /\ \A s \in AccountsOf(u) \cup {UserRow(u)} : s \in Rows /\ s # r
    BY <1>0, <1>2, <1>4, UserFacts, ProductRowFacts DEF SerialThread
  <2> QED
    BY <1>1, <1>6, <1>9, <1>10, <1>15, <1>16, <2>1, UserGoesOn
<1>19. ASSUME NEW q \in Products PROVE ProductSerial(t, q)'
  <2>1. CASE q = p
    BY <1>0, <1>1, <1>4, <1>7, <1>9, <1>10, <1>15, <1>17, <2>1 DEF ProductSerial, Refilled
  <2>2. CASE q # p
    <3>1. /\ ProductSerial(t, q) /\ ProductRow(q) \in Rows \ {r}
          /\ q \in Handled(t)' <=> q \in Handled(t)
      BY <1>0, <1>2, <1>4, <1>15, <2>2, RowFacts DEF SerialThread
    <3>2. q \in Handled(t) => holder[ProductRow(q)] = t
      BY <3>1 DEF ProductSerial
    <3> QED
      BY <1>1, <1>9, <1>10, <1>16, <3>1, <3>2, ProductGoesOn
  <2> QED
    BY <2>1, <2>2
<1>20. Asked(t)' /\ Ordered(t)'
  BY <1>1, <1>4 DEF SerialThread, Asked, Ordered
<1>21. view'[t] # NoView => Snapshots'
  BY <1>4, <1>9, StatementView DEF SerialThread, StockInv, TypeOK
<1> QED
  BY <1>9, <1>12, <1>18, <1>19, <1>20, <1>21 DEF SerialThread, StepsSerially

-----------------------------------------------------------------------------
(* The beginning and the end of a request. *)

LEMMA FreshSerial ==
  ASSUME NEW t \in Threads, pc'[t] \in {"idle", "lockUser", "find"},
         \A r \in Rows : Still(t, r)', Asked(t)', view'[t] # NoView => Snapshots'
  PROVE  SerialThread(t)'
<1>1. ~WillCommit(t)'
  BY DEF WillCommit
<1>2. Served(t)' = {} /\ Handled(t)' = {}
  BY <1>1 DEF Served, Handled
<1>3. Ordered(t)'
  BY <1>1 DEF Ordered
<1>4. ASSUME NEW u \in Users PROVE UserSerial(t, u)'
  <2>1. \A r \in AccountsOf(u) \cup {UserRow(u)} : r \in Rows
    BY UserFacts
  <2> QED
    BY <1>2, <2>1 DEF UserSerial, Still
<1>5. ASSUME NEW p \in Products PROVE ProductSerial(t, p)'
  BY <1>2, RowFacts DEF ProductSerial
<1> QED
  BY <1>3, <1>4, <1>5 DEF SerialThread

LEMMA ExecuteSerial ==
  ASSUME StockInv, SerialInv, RowLocked, NEW t \in Threads, Execute(t)
  PROVE  StepsSerially(t)
<1>1. PICK k, S : /\ k \in Workload[conf] /\ S \in UserSets(k)
                  /\ kind' = [kind EXCEPT ![t] = k] /\ who' = [who EXCEPT ![t] = S]
                  /\ todo' = [todo EXCEPT ![t] = FirstIds(k, S)]
                  /\ pc' = [pc EXCEPT ![t] = FirstStep(k)]
  BY DEF Execute
<1>2. pc[t] = "idle" /\ UNCHANGED <<dbVars, batch, due, saved, pin, pout, outcome>>
  BY DEF Execute, workVars, pendingVars
<1>3. /\ kind'[t] = k /\ who'[t] = S /\ pc'[t] = FirstStep(k)
      /\ \A v \in Threads \ {t} : /\ pc'[v] = pc[v] /\ kind'[v] = kind[v]
                                  /\ who'[v] = who[v] /\ todo'[v] = todo[v]
  BY <1>1 DEF StockInv, TypeOK, BizTypeOK
<1>4. k \in {"package", "usage", "recharge", "reload"}
  BY <1>1, RunControllerAssumption DEF Kinds, RowLocked, StockInv, TypeOK, DatabaseTypeOK
<1>5. pc'[t] \in {"lockUser", "find"}
  BY <1>3, <1>4 DEF FirstStep
<1>6. SerialThread(t) /\ ~Fails(t) /\ ~WillCommit(t)
  BY <1>2 DEF SerialInv, Fails, WillCommit
<1>7. Served(t) = {} /\ Handled(t) = {}
  BY <1>2, <1>6 DEF Served, Handled
<1>8. \A r \in Rows : Still(t, r)
  <2>1. /\ \A u \in Users : \A r \in AccountsOf(u) \cup {UserRow(u)} : Still(t, r)
        /\ \A p \in Products : Still(t, ProductRow(p))
    BY <1>6, <1>7 DEF SerialThread, UserSerial, ProductSerial
  <2> QED
    BY <2>1 DEF Rows, UserRows, AccountRows, ProductRows, AccountsOf
<1>9. \A r \in Rows : Still(t, r)'
  BY <1>2, <1>8 DEF Still, Mine, dbVars
<1>10. Asked(t)'
  <2>1. ~WillCommit(t)'
    BY <1>5 DEF WillCommit
  <2> QED
    BY <1>1, <1>3, <1>4, <1>5, <2>1 DEF Asked, UserSets
<1>11. view'[t] # NoView => Snapshots'
  BY <1>2, <1>6 DEF SerialThread, Snapshots, Level, dbVars
<1>12. Statement(t) /\ OthersKeep(t)
  BY <1>2, <1>3 DEF Statement, OthersKeep
<1> QED
  BY <1>5, <1>9, <1>10, <1>11, <1>12, FreshSerial DEF StepsSerially

LEMMA EndSerial ==
  ASSUME StockInv, AccountsInv, SerialInv, RowLocked, NEW t \in Threads,
         Commit(t) \/ Retry(t) \/ GiveUp(t)
  PROVE  StepsSerially(t)
<1>1. /\ Clear(t)
      /\ CommitTransaction(t) \/ RollbackTransaction(t)
      /\ Answer(t) \/ Retry(t)
  BY DEF Commit, Retry, GiveUp, CommitBiz, CommitReset, RollbackBiz, RollbackReset
<1>2. Statement(t) /\ Forget(t) /\ conf' = conf
  BY <1>1 DEF Statement, CommitTransaction, RollbackTransaction
<1>3. /\ saved'[t] = NothingSaved
      /\ \A v \in Threads \ {t} : /\ saved'[v] = saved[v] /\ pout'[v] = pout[v]
                                  /\ pin'[v] = pin[v] /\ batch'[v] = batch[v] /\ due'[v] = due[v]
      /\ \A r \in Rows : pout'[t][r] = 0 /\ pin'[t][r] = 0
  <2>1. /\ saved'[t] = NothingSaved
        /\ \A v \in Threads \ {t} : saved'[v] = saved[v] /\ due'[v] = due[v]
    BY <1>1 DEF Clear, StockInv, TypeOK, BizTypeOK
  <2> QED
    BY <1>1, <2>1, ClearFacts DEF StockInv, TypeOK
<1>4. /\ \/ pc'[t] = "idle" /\ kind'[t] = "none"
         \/ Retry(t) /\ pc'[t] = "lockUser" /\ kind' = kind /\ who' = who /\ pc[t] # "idle"
      /\ \A v \in Threads \ {t} : /\ pc'[v] = pc[v] /\ kind'[v] = kind[v]
                                  /\ who'[v] = who[v] /\ todo'[v] = todo[v]
                                  /\ outcome'[v] = outcome[v]
  <2>1. CASE Answer(t)
    BY <2>1 DEF Answer, StockInv, TypeOK, BizTypeOK
  <2>2. CASE Retry(t)
    <3>1. /\ pc[t] = "rollback" /\ pc' = [pc EXCEPT ![t] = "lockUser"]
          /\ todo' = [todo EXCEPT ![t] = who[t]]
          /\ outcome' = [outcome EXCEPT ![t] = "ok"]
          /\ kind' = kind /\ who' = who
      BY <2>2 DEF Retry, Retries, FirstStep, requestVars, RollbackBiz
    <3> QED
      BY <2>2, <3>1 DEF StockInv, TypeOK, BizTypeOK
  <2> QED
    BY <1>1, <2>1, <2>2
<1>5. \A r \in Rows : holder'[r] # t
  BY <1>2, DatabaseAssumption DEF Forget
<1>6. \A r \in Rows : Still(t, r)'
  BY <1>3, <1>5 DEF Still, Mine, NothingSaved
<1>7. Asked(t)'
  <2>1. ~WillCommit(t)'
    BY <1>4 DEF WillCommit
  <2>2. pc'[t] \notin {"cash", "credit", "status", "reload", "restock"}
    BY <1>4
  <2> QED
    BY <1>4, <2>1, <2>2 DEF SerialInv, SerialThread, Asked
<1>8. view'[t] = NoView
  BY <1>2 DEF Forget, StockInv, TypeOK, DatabaseTypeOK
<1>9. OthersKeep(t)
  BY <1>3, <1>4 DEF OthersKeep
<1> QED
  BY <1>2, <1>4, <1>6, <1>7, <1>8, <1>9, FreshSerial DEF StepsSerially

-----------------------------------------------------------------------------
LEMMA SerialInit == Init => SerialInv
<1> SUFFICES ASSUME Init PROVE SerialInv
  OBVIOUS
<1>1. UserRowsStill
  BY DEF Init, UserRowsStill
<1>2. ASSUME NEW t \in Threads PROVE SerialThread(t)
  <2>1. /\ pc[t] = "idle" /\ kind[t] = "none" /\ saved[t] = NothingSaved /\ view[t] = NoView
        /\ \A r \in Rows : pout[t][r] = 0 /\ pin[t][r] = 0 /\ latest[r] = committed[r]
    BY DEF Init, NoEntries
  <2>2. ~WillCommit(t) /\ Served(t) = {} /\ Handled(t) = {}
    BY <2>1 DEF WillCommit, Served, Handled
  <2>3. \A r \in Rows : Still(t, r)
    BY <2>1 DEF Still, Mine, NothingSaved
  <2>4. \A u \in Users : UserSerial(t, u)
    BY <2>2, <2>3, UserFacts DEF UserSerial, Still
  <2>5. \A p \in Products : ProductSerial(t, p)
    BY <2>2, <2>3, RowFacts DEF ProductSerial
  <2> QED
    BY <2>1, <2>2, <2>4, <2>5 DEF SerialThread, Asked, Ordered
<1> QED
  BY <1>1, <1>2 DEF SerialInv

LEMMA UnchangedSerial ==
  ASSUME StockInv, SerialInv, Expire \/ Quiet \/ UNCHANGED vars
  PROVE  SerialInv'
<1>1. UNCHANGED <<dbVars, pc, kind, who, todo, batch, due, saved, outcome, pout, pin>>
  BY DEF Expire, Quiet, vars, requestVars, workVars, pendingVars
<1> SUFFICES ASSUME RowLocked PROVE UserRowsStill' /\ \A t \in Threads : SerialThread(t)'
  BY <1>1, LockedKept DEF SerialInv, dbVars
<1>2. UserRowsStill'
  BY <1>1 DEF SerialInv, UserRowsStill, dbVars
<1>3. ASSUME NEW t \in Threads PROVE SerialThread(t)'
  <2>1. /\ WillCommit(t)' <=> WillCommit(t)
        /\ Fails(t)' <=> Fails(t)
        /\ Account(t)' = Account(t) /\ InBatch(batch[t])' = InBatch(batch[t])
        /\ \A p : InStock(t, p)' <=> InStock(t, p)
    BY <1>1 DEF WillCommit, Fails, Account, InBatch, InStock, dbVars
  <2>2. Served(t)' = Served(t) /\ Handled(t)' = Handled(t)
    BY <1>1, <2>1 DEF Served, Handled
  <2>3. Price(t)' = Price(t)
    BY <1>1, <2>1, <2>2 DEF Price
  <2>4. OthersKeep(t) /\ Reads(t)
    BY <1>1 DEF OthersKeep, Reads
  <2>5. CASE Fails(t)
    <3>1. pc[t] # "idle"
      BY <2>5 DEF Fails
    <3> QED
      BY <1>1, <2>1, <2>4, <2>5, <3>1, FailsSerial DEF StepsSerially
  <2>6. CASE ~Fails(t)
    <3>1. Asked(t)' /\ Ordered(t)'
      BY <1>1, <2>1, <2>3 DEF SerialInv, SerialThread, Asked, Ordered
    <3> QED
      BY <1>1, <2>2, <2>4, <2>6, <3>1, ReadsSerial DEF StepsSerially
  <2> QED
    BY <2>5, <2>6
<1> QED
  BY <1>2, <1>3

LEMMA SerialNext ==
  StockInv /\ AccountsInv /\ RangeInv /\ OneUsers /\ SerialInv /\ [Next]_vars => SerialInv'
<1> SUFFICES ASSUME StockInv, AccountsInv, RangeInv, OneUsers, SerialInv, [Next]_vars
             PROVE  SerialInv'
  OBVIOUS
<1>1. ASSUME NEW t \in Threads, BizStep(t), RowLocked PROVE StepsSerially(t)
  <2>1. CASE LockUser(t) \/ FillCart(t) \/ FindInsufficient(t) \/ LockProduct(t)
    BY <1>1, <2>1, LockUserSerial, ChooseSerial, LockProductSerial
  <2>2. CASE Exits(t) \/ NextIdThrows(t)
    <3>1. ~UnlockThrows(t)
      BY <1>1 DEF UnlockThrows, RowLocked
    <3> QED
      BY <1>1, <2>2, <3>1, LeaveSerial, UnlockSerial, NextIdSerial DEF Exits
  <2>3. CASE CreateSource(t) \/ DeductStock(t) \/ SkipProduct(t) \/ ReadStock(t) \/ Restock(t)
    BY <1>1, <2>3, SourceSerial, DeductSerial, SkipSerial, ReadStockSerial, RestockSerial
  <2>4. CASE ReadCash(t) \/ PayBill(t) \/ Recharge(t) \/ Flush(t) \/ UpdateStatusCode(t)
    BY <1>1, <2>4, ReadCashSerial, PayBillSerial, RechargeSerial, FlushSerial, StatusSerial
  <2>5. CASE ResetRow(t) \/ Clears(t)
    <3>1. pc[t] \in ResetLabels
      BY <2>5, ClearsFacts DEF ResetRow, UpdateLabels, ResetLabels
    <3> QED
      BY <1>1, <3>1 DEF AccountsInv, InTurn
  <2> QED
    BY <1>1, <2>1, <2>2, <2>3, <2>4, <2>5 DEF BizStep, Exits, Clears
<1>2. ASSUME NEW t \in Threads, Execute(t) \/ Work(t) PROVE SerialInv'
  <2>1. conf' = conf
    BY <1>2, ConfKept DEF Work
  <2>2. RowLocked => StepsSerially(t)
    BY <1>1, <1>2, ExecuteSerial, EndSerial DEF Work
  <2> QED
    BY <2>1, <2>2, SerialStep
<1>3. CASE Expire \/ Quiet \/ UNCHANGED vars
  BY <1>3, UnchangedSerial
<1> QED
  BY <1>2, <1>3 DEF Next

LEMMA SerialAlways ==
  Spec => [](StockInv /\ AccountsInv /\ RangeInv /\ OneUsers /\ SerialInv)
<1>1. Init => StockInv /\ AccountsInv /\ RangeInv /\ OneUsers /\ SerialInv
  BY InitStep, BalanceInit, RangeInit, StrictInit, SerialInit
<1>2. StockInv /\ AccountsInv /\ RangeInv /\ OneUsers /\ SerialInv /\ [Next]_vars
        => (StockInv /\ AccountsInv /\ RangeInv /\ OneUsers /\ SerialInv)'
  BY NextStep, BalanceNext, RangeNext, OneNext, SerialNext
<1> QED
  BY <1>1, <1>2, PTL DEF Spec

-----------------------------------------------------------------------------
(* The steps of SerialBiz: only a commit is one. *)

(* SerialBiz has the tables and the arithmetic of the program. *)
LEMMA SameTables ==
  /\ Serial!Rows = Rows /\ Serial!Carts = Carts /\ Serial!RechargeSets = RechargeSets
  /\ \A r : Serial!InitialRow(r) = InitialRow(r)
  /\ \A u : /\ Serial!UserRow(u) = UserRow(u)
           /\ Serial!CashRow(u) = CashRow(u) /\ Serial!CreditRow(u) = CreditRow(u)
           /\ Serial!ProductRow(u) = ProductRow(u)
  /\ \A b : Serial!InBatch(b) = InBatch(b)
  /\ \A cash, credit, bill : Serial!Consume(cash, credit, bill) = Consume(cash, credit, bill)
  /\ \A amount, cash, credit, max : Serial!CalculationRecharge(amount, cash, credit, max) =
                                      CalculationRecharge(amount, cash, credit, max)
  /\ \A price, percent, num : Serial!ItemPrice(price, percent, num) = ItemPrice(price, percent, num)
<1>1. \A u : /\ Serial!UserRow(u) = UserRow(u)
            /\ Serial!CashRow(u) = CashRow(u) /\ Serial!CreditRow(u) = CreditRow(u)
            /\ Serial!ProductRow(u) = ProductRow(u)
  BY DEF Serial!UserRow, UserRow, Serial!CashRow, CashRow, Serial!CreditRow, CreditRow,
         Serial!ProductRow, ProductRow
<1>2. Serial!Rows = Rows
  BY <1>1 DEF Serial!Rows, Rows, Serial!UserRows, UserRows, Serial!AccountRows, AccountRows,
              Serial!ProductRows, ProductRows
<1>3. Serial!Carts = Carts
  BY DEF Serial!Carts, Carts, Serial!NoProducts, NoProducts, Serial!FoldFunction, FoldFunction,
         Serial!FoldFunctionOnSet, FoldFunctionOnSet, Serial!MapThenFoldSet, MapThenFoldSet
<1>4. Serial!RechargeSets = RechargeSets
  BY DEF Serial!RechargeSets, RechargeSets, Serial!Cardinality, Cardinality
<1>5. \A r : Serial!InitialRow(r) = InitialRow(r)
  BY DEF Serial!InitialRow, InitialRow
<1>6. \A b : Serial!InBatch(b) = InBatch(b)
  BY DEF Serial!InBatch, InBatch
<1>7. \A cash, credit, bill : Serial!Consume(cash, credit, bill) = Consume(cash, credit, bill)
  BY DEF Serial!Consume, Consume
<1>8. \A amount, cash, credit, max : Serial!CalculationRecharge(amount, cash, credit, max) =
                                     CalculationRecharge(amount, cash, credit, max)
  BY DEF Serial!CalculationRecharge, CalculationRecharge
<1>9. \A price, percent, num :
        Serial!ItemPrice(price, percent, num) = ItemPrice(price, percent, num)
  BY DEF Serial!ItemPrice, ItemPrice
<1> QED
  BY <1>1, <1>2, <1>3, <1>4, <1>5, <1>6, <1>7, <1>8, <1>9

LEMMA ActsInit == Init => Serial!Init
BY SameTables DEF Init, Serial!Init, NoEntries

LEMMA ActsNotYet ==
  ASSUME AccountsInv, RowLocked, NEW t \in Threads,
         BizStep(t) \/ Execute(t) \/ Retry(t) \/ GiveUp(t)
  PROVE  UNCHANGED <<committed, outflow, inflow>>
<1>1. CASE Execute(t) \/ Retry(t) \/ GiveUp(t)
  BY <1>1 DEF Execute, Retry, GiveUp, RollbackBiz, RollbackReset, RollbackTransaction, dbVars,
              bookVars
<1>2. CASE BizStep(t)
  BY <1>2 DEF BizStep, LockUser, FillCart, DrawFails, FindInsufficient, LockProduct, LockTimeout,
       LockThrows, CreateSource, DeductStock, SkipProduct, ReadCash, PayBill, Recharge, Flush,
       UpdateStatusCode, ReadStock, Restock, NextIdThrows, Unlock, UnlockThrows, CommitRefused,
       StatementFails, ResetRow, ClearSources, ClearItems, ClearTrades, ClearLogs, ResetFails,
       PlanAcquire, ForUpdateLock, Read, Insert, Update, dbVars, bookVars
<1> QED
  BY <1>1, <1>2

(* What a commit does to the rows, in terms of what t has done to them. *)
LEMMA CommitRows ==
  ASSUME StockInv, AccountsInv, SerialInv, RowLocked, NEW t \in Threads, Commit(t)
  PROVE  /\ WillCommit(t) /\ pc[t] = "commit" /\ SerialThread(t) /\ ~Fails(t)
         /\ committed' = [r \in Rows |-> committed'[r]]
         /\ outflow' = [r \in Rows |-> outflow[r] + pout[t][r]]
         /\ inflow'  = [r \in Rows |-> inflow[r] + pin[t][r]]
         /\ \A r \in Rows : /\ committed'[r] = Mine(t, r) /\ committed'[r] \in Int
                            /\ committed[r] \in Int
                            /\ outflow[r] \in Int /\ inflow[r] \in Int
                            /\ pout[t][r] \in Int /\ pin[t][r] \in Int
         /\ \A u \in Users : committed'[UserRow(u)] = committed[UserRow(u)]
<1>1. pc[t] = "commit"
  BY DEF AccountsInv, InTurn, ResetLabels, Commit, CommitBiz, CommitReset
<1>2. /\ saved[t] = NothingSaved
      /\ committed' = [r \in Rows |-> IF holder[r] = t THEN latest[r] ELSE committed[r]]
      /\ outflow' = [r \in Rows |-> outflow[r] + pout[t][r]]
      /\ inflow'  = [r \in Rows |-> inflow[r] + pin[t][r]]
  BY <1>1 DEF Commit, CommitBiz, CommitReset, CommitTransaction
<1>3. WillCommit(t) /\ SerialThread(t) /\ ~Fails(t)
  BY <1>1 DEF WillCommit, Fails, SerialInv
<1>4. \A r \in Rows : /\ committed'[r] = Mine(t, r) /\ committed'[r] \in Int
                      /\ committed[r] \in Int
                      /\ outflow[r] \in Int /\ inflow[r] \in Int
                      /\ pout[t][r] \in Int /\ pin[t][r] \in Int
  BY <1>2 DEF Mine, NothingSaved, StockInv, TypeOK, DatabaseTypeOK, BizTypeOK
<1>5. \A u \in Users : committed'[UserRow(u)] = committed[UserRow(u)]
  BY <1>2, UserFacts DEF SerialInv, UserRowsStill
<1> QED
  BY <1>1, <1>2, <1>3, <1>4, <1>5

(* Rows t has not served or handled are as before. *)
LEMMA CommitStill ==
  ASSUME StockInv, AccountsInv, SerialInv, RowLocked, NEW t \in Threads, Commit(t)
  PROVE  /\ \A u \in Users \ Served(t) : \A r \in AccountsOf(u) \cup {UserRow(u)} :
              committed'[r] = committed[r] /\ pout[t][r] = 0 /\ pin[t][r] = 0
         /\ \A u \in Users : \A r \in AccountsOf(u) : pout[t][r] = 0 /\ pin[t][r] = 0
         /\ \A p \in Products \ Handled(t) : LET r == ProductRow(p) IN
              committed'[r] = committed[r] /\ pout[t][r] = 0 /\ pin[t][r] = 0
<1>1. SerialThread(t) /\ ~Fails(t) /\ \A r \in Rows : committed'[r] = Mine(t, r)
  BY CommitRows
<1>2. ASSUME NEW u \in Users
      PROVE  /\ u \notin Served(t) => \A r \in AccountsOf(u) \cup {UserRow(u)} :
                  committed'[r] = committed[r] /\ pout[t][r] = 0 /\ pin[t][r] = 0
             /\ \A r \in AccountsOf(u) : pout[t][r] = 0 /\ pin[t][r] = 0
  <2>1. \A r \in AccountsOf(u) \cup {UserRow(u)} : r \in Rows
    BY UserFacts
  <2> QED
    BY <1>1, <2>1 DEF SerialThread, UserSerial, Still
<1>3. ASSUME NEW p \in Products \ Handled(t)
      PROVE  LET r == ProductRow(p) IN
               committed'[r] = committed[r] /\ pout[t][r] = 0 /\ pin[t][r] = 0
  BY <1>1, RowFacts DEF SerialThread, ProductSerial, Still
<1> QED
  BY <1>2, <1>3

(* A bill is UsageBill. *)
LEMMA UsageCommits ==
  ASSUME StockInv, AccountsInv, SerialInv, RowLocked, NEW t \in Threads, Commit(t),
         kind[t] = "usage"
  PROVE  \E u \in Users, bill \in BillAmounts : Serial!UsageBill(u, bill)
<1>1. PICK u \in Users : who[t] = {u}
  BY CommitRows DEF SerialThread, Asked
<1>2. PICK result : result = Consume(committed[CashRow(u)], committed[CreditRow(u)], due[t])
  OBVIOUS
<1>3. /\ WillCommit(t) /\ pc[t] = "commit" /\ SerialThread(t) /\ ~Fails(t)
      /\ committed' = [r \in Rows |-> committed'[r]]
      /\ outflow' = [r \in Rows |-> outflow[r] + pout[t][r]]
      /\ inflow'  = [r \in Rows |-> inflow[r] + pin[t][r]]
      /\ \A r \in Rows : /\ committed'[r] = Mine(t, r)
                         /\ outflow[r] \in Int /\ inflow[r] \in Int
      /\ \A v \in Users : committed'[UserRow(v)] = committed[UserRow(v)]
  BY CommitRows
<1>4. Served(t) = {u} /\ Handled(t) = {} /\ due[t] \in BillAmounts
  BY <1>1, <1>3 DEF Served, Handled, SerialThread, Asked
<1>5. Billed(t, u)
  BY <1>3, <1>4 DEF SerialThread, UserSerial
<1>6. /\ CashRow(u) \in Rows /\ CreditRow(u) \in Rows /\ UserRow(u) \in Rows
      /\ CashRow(u) # CreditRow(u) /\ UserRow(u) \notin AccountsOf(u)
  BY UserFacts
<1>7. /\ committed'[CashRow(u)] = result.cash /\ committed'[CreditRow(u)] = result.credit
      /\ pout[t][UserRow(u)] = result.cashConsume + result.creditConsume
      /\ pin[t][UserRow(u)] = 0
      /\ \A r \in AccountsOf(u) : pout[t][r] = 0 /\ pin[t][r] = 0
  BY <1>2, <1>3, <1>5, <1>6, CommitStill DEF Billed, Leaves
<1>8. ASSUME NEW r \in Rows, r \notin AccountsOf(u) \cup {UserRow(u)}
      PROVE  committed'[r] = committed[r] /\ pout[t][r] = 0 /\ pin[t][r] = 0
  <2>1. CASE r \in ProductRows
    BY <1>4, <2>1, CommitStill DEF ProductRows
  <2>2. CASE r \notin ProductRows
    <3>1. PICK v \in Users : r \in AccountsOf(v) \cup {UserRow(v)}
      BY <2>2 DEF Rows, UserRows, AccountRows, AccountsOf
    <3> QED
      BY <1>4, <1>8, <3>1, CommitStill
  <2> QED
    BY <2>1, <2>2
<1>9. committed' = [committed EXCEPT ![CashRow(u)] = result.cash, ![CreditRow(u)] = result.credit]
  <2>1. \A r \in Rows : committed'[r] = IF r = CreditRow(u) THEN result.credit
                                        ELSE IF r = CashRow(u) THEN result.cash ELSE committed[r]
    BY <1>3, <1>6, <1>7, <1>8 DEF AccountsOf
  <2> QED
    BY <1>3, <1>6, <2>1 DEF StockInv, TypeOK, DatabaseTypeOK
<1>10. outflow' = [outflow EXCEPT ![UserRow(u)] = @ + result.cashConsume + result.creditConsume]
  <2>1. result.cashConsume \in Int /\ result.creditConsume \in Int
    BY <1>2, <1>6 DEF Consume, StockInv, TypeOK, DatabaseTypeOK, BizTypeOK
  <2>2. \A r \in Rows : outflow[r] + pout[t][r] =
                          IF r = UserRow(u)
                          THEN outflow[r] + result.cashConsume + result.creditConsume
                          ELSE outflow[r]
    BY <1>3, <1>6, <1>7, <1>8, <2>1
  <2> QED
    BY <1>3, <1>6, <2>2 DEF StockInv, TypeOK, BizTypeOK
<1>11. inflow' = inflow
  <2>1. \A r \in Rows : pin[t][r] = 0
    BY <1>7, <1>8
  <2> QED
    BY <1>3, <2>1 DEF StockInv, TypeOK, BizTypeOK
<1>12. Serial!UsageBill(u, due[t])
  BY <1>2, <1>9, <1>10, <1>11, SameTables DEF Serial!UsageBill, Serial!Booked
<1> QED
  BY <1>4, <1>12

(* An order is PackageBill. *)
LEMMA PriceFolds ==
  ASSUME NEW price, DOMAIN price = Products
  PROVE  Serial!FoldFunction(+, 0, price) = SumFunctionOnSet(price, Products)
BY DEF Serial!FoldFunction, Serial!FoldFunctionOnSet, Serial!MapThenFoldSet,
       SumFunctionOnSet, FoldFunctionOnSet, MapThenFoldSet

LEMMA PackageCommits ==
  ASSUME StockInv, AccountsInv, SerialInv, RowLocked, NEW t \in Threads, Commit(t),
         kind[t] = "package"
  PROVE  \E u \in Users, cart \in Carts : Serial!PackageBill(u, cart)
<1>1. PICK u \in Users : who[t] = {u}
  BY CommitRows DEF SerialThread, Asked
<1>2. PICK result, cart, sold :
        /\ result = Consume(committed[CashRow(u)], committed[CreditRow(u)], due[t])
        /\ cart = batch[t]
        /\ sold = {p \in InBatch(cart) : committed[ProductRow(p)] >= cart[p]}
  OBVIOUS
<1>3. /\ WillCommit(t) /\ pc[t] = "commit" /\ SerialThread(t) /\ ~Fails(t)
      /\ committed' = [r \in Rows |-> committed'[r]]
      /\ outflow' = [r \in Rows |-> outflow[r] + pout[t][r]]
      /\ inflow'  = [r \in Rows |-> inflow[r] + pin[t][r]]
      /\ \A r \in Rows : /\ committed'[r] = Mine(t, r) /\ committed'[r] \in Int
                         /\ committed[r] \in Int
                         /\ outflow[r] \in Int /\ inflow[r] \in Int /\ pout[t][r] \in Int
      /\ \A v \in Users : committed'[UserRow(v)] = committed[UserRow(v)]
  BY CommitRows
<1>4. Served(t) = {u} /\ Handled(t) = InBatch(cart)
  BY <1>1, <1>2, <1>3 DEF Served, Handled
<1>5. /\ cart \in Carts /\ due[t] = SumFunctionOnSet(Price(t), Products) /\ sold # {}
  BY <1>2, <1>3 DEF SerialThread, Ordered, InStock
<1>6. Billed(t, u)
  BY <1>3, <1>4 DEF SerialThread, UserSerial
<1>7. /\ CashRow(u) \in Rows /\ CreditRow(u) \in Rows /\ UserRow(u) \in Rows
      /\ CashRow(u) # CreditRow(u) /\ UserRow(u) \notin AccountsOf(u)
  BY UserFacts
<1>8. /\ committed'[CashRow(u)] = result.cash /\ committed'[CreditRow(u)] = result.credit
      /\ pout[t][UserRow(u)] = result.cashConsume + result.creditConsume
      /\ pin[t][UserRow(u)] = 0 /\ result.debt = 0
      /\ \A r \in AccountsOf(u) : pout[t][r] = 0 /\ pin[t][r] = 0
  BY <1>2, <1>3, <1>6, <1>7, CommitStill DEF Billed, Leaves
<1>9. PICK item :
        item = [r \in Rows |-> IF r[1] = "product" /\ r[2] \in sold THEN cart[r[2]] ELSE 0]
  OBVIOUS
<1>10. ASSUME NEW p \in Products
       PROVE  LET r == ProductRow(p) IN
                committed'[r] = committed[r] - item[r] /\ pout[t][r] = item[r] /\ pin[t][r] = 0
  <2>1. ProductRow(p) \in Rows
    BY RowFacts
  <2>2. item[ProductRow(p)] = IF p \in sold THEN cart[p] ELSE 0
    BY <1>9, <2>1 DEF ProductRow
  <2>3. CASE p \notin InBatch(cart)
    BY <1>2, <1>3, <1>4, <2>1, <2>2, <2>3, CommitStill
  <2>4. CASE p \in InBatch(cart)
    <3>1. Sold(t, p)
      BY <1>3, <1>4, <2>4 DEF SerialThread, ProductSerial
    <3>2. InStock(t, p) <=> p \in sold
      BY <1>2, <2>4 DEF InStock
    <3> QED
      BY <1>2, <1>3, <2>1, <2>2, <3>1, <3>2 DEF Sold
  <2> QED
    BY <2>3, <2>4
<1>11. ASSUME NEW v \in Users, NEW r \in AccountsOf(v) \cup {UserRow(v)}
       PROVE  r \in Rows /\ item[r] = 0
  <2>1. r \in Rows
    BY UserFacts
  <2>2. r[1] # "product"
    BY DEF AccountsOf, UserRow, CashRow, CreditRow
  <2> QED
    BY <1>9, <2>1, <2>2
<1>12. ASSUME NEW v \in Users \ {u}, NEW r \in AccountsOf(v) \cup {UserRow(v)}
       PROVE  /\ committed'[r] = committed[r] /\ pout[t][r] = 0 /\ pin[t][r] = 0
              /\ r \notin AccountsOf(u) \cup {UserRow(u)}
  BY <1>4, CommitStill, UserFacts
<1>13. ASSUME NEW r \in Rows
       PROVE  \/ \E p \in Products : r = ProductRow(p)
              \/ \E v \in Users : r \in AccountsOf(v) \cup {UserRow(v)}
  BY DEF Rows, UserRows, AccountRows, ProductRows, AccountsOf
<1>14. ASSUME NEW r \in Rows
       PROVE  /\ committed'[r] = (IF r = CreditRow(u) THEN result.credit
                                  ELSE IF r = CashRow(u) THEN result.cash
                                  ELSE committed[r]) - item[r]
              /\ pout[t][r] = item[r] + IF r = UserRow(u)
                                        THEN result.cashConsume + result.creditConsume ELSE 0
              /\ pin[t][r] = 0
  <2>1. CASE \E p \in Products : r = ProductRow(p)
    <3>1. r # CreditRow(u) /\ r # CashRow(u) /\ r # UserRow(u)
      BY <2>1, RowFacts
    <3> QED
      BY <1>3, <1>10, <2>1, <3>1
  <2>2. CASE r \in AccountsOf(u) \cup {UserRow(u)}
    BY <1>3, <1>7, <1>8, <1>11, <2>2 DEF AccountsOf
  <2>3. CASE \E v \in Users \ {u} : r \in AccountsOf(v) \cup {UserRow(v)}
    BY <1>3, <1>11, <1>12, <2>3 DEF AccountsOf
  <2> QED
    BY <1>13, <2>1, <2>2, <2>3
<1>15. committed' = [r \in Rows |->
          [committed EXCEPT ![CashRow(u)] = result.cash, ![CreditRow(u)] = result.credit][r] -
            IF r[1] = "product" /\ r[2] \in sold THEN cart[r[2]] ELSE 0]
  BY <1>3, <1>7, <1>9, <1>14 DEF StockInv, TypeOK, DatabaseTypeOK
<1>16. outflow' = [r \in Rows |-> outflow[r] +
          (IF r[1] = "product" /\ r[2] \in sold THEN cart[r[2]] ELSE 0) +
          IF r = UserRow(u) THEN result.cashConsume + result.creditConsume ELSE 0]
  <2>1. result.cashConsume + result.creditConsume \in Int
    BY <1>3, <1>7, <1>8
  <2>2. \A r \in Rows : item[r] \in Int
    <3>1. \A p \in sold : cart[p] \in Nat
      BY <1>2 DEF InBatch, StockInv, TypeOK, BizTypeOK
    <3> QED
      BY <1>9, <3>1
  <2>3. \A r \in Rows : outflow[r] + pout[t][r] =
          outflow[r] + item[r]
            + IF r = UserRow(u) THEN result.cashConsume + result.creditConsume ELSE 0
    BY <1>3, <1>14, <2>1, <2>2
  <2> QED
    BY <1>3, <1>9, <2>3
<1>17. inflow' = inflow
  BY <1>3, <1>14 DEF StockInv, TypeOK, BizTypeOK
<1>18. Price(t) = [p \in Products |-> IF p \in sold
                     THEN ItemPrice(OriginalPrice[p], Discount[p], cart[p]) ELSE 0]
  BY <1>2, <1>4 DEF Price, InStock, PriceOf
<1>19. Serial!PackageBill(u, cart)
  <2>1. sold = {p \in Serial!InBatch(cart) : committed[Serial!ProductRow(p)] >= cart[p]}
    BY <1>2, SameTables
  <2>2. PICK price : price = [p \in Products |-> IF p \in sold
               THEN Serial!ItemPrice(OriginalPrice[p], Discount[p], cart[p]) ELSE 0]
    OBVIOUS
  <2>3. result = Serial!Consume(committed[Serial!CashRow(u)], committed[Serial!CreditRow(u)],
                                SumFunctionOnSet(price, Products))
    BY <1>2, <1>5, <1>18, <2>2, SameTables
  <2>4. Serial!Booked(committed, u, result) =
          [committed EXCEPT ![CashRow(u)] = result.cash, ![CreditRow(u)] = result.credit]
    BY SameTables DEF Serial!Booked
  <2>5. committed' = [r \in Serial!Rows |-> Serial!Booked(committed, u, result)[r] -
                        IF r[1] = "product" /\ r[2] \in sold THEN cart[r[2]] ELSE 0]
    BY <1>15, <2>4, SameTables
  <2>6. outflow' = [r \in Serial!Rows |-> outflow[r] +
          (IF r[1] = "product" /\ r[2] \in sold THEN cart[r[2]] ELSE 0) +
          IF r = Serial!UserRow(u) THEN result.cashConsume + result.creditConsume ELSE 0]
    BY <1>16, SameTables
  <2>7. Serial!FoldFunction(+, 0, price) = SumFunctionOnSet(price, Products)
    BY <2>2, PriceFolds
  <2> QED
    BY <1>5, <1>8, <1>17, <2>1, <2>2, <2>3, <2>5, <2>6, <2>7 DEF Serial!PackageBill
<1> QED
  BY <1>5, <1>19

(* A recharge is RechargeAll. *)
LEMMA RechargeCommits ==
  ASSUME StockInv, AccountsInv, SerialInv, RowLocked, NEW t \in Threads, Commit(t),
         kind[t] = "recharge"
  PROVE  \E users \in RechargeSets : \E amount \in [users -> RechargeAmounts] :
           Serial!RechargeAll(users, amount)
<1>1. PICK users, amount : users = who[t] /\ amount = [u \in users |-> pin[t][UserRow(u)]]
  OBVIOUS
<1>2. /\ WillCommit(t) /\ pc[t] = "commit" /\ SerialThread(t) /\ ~Fails(t)
      /\ committed' = [r \in Rows |-> committed'[r]]
      /\ outflow' = [r \in Rows |-> outflow[r] + pout[t][r]]
      /\ inflow'  = [r \in Rows |-> inflow[r] + pin[t][r]]
      /\ \A r \in Rows : /\ committed'[r] = Mine(t, r)
                         /\ outflow[r] \in Int /\ inflow[r] \in Int
      /\ \A v \in Users : committed'[UserRow(v)] = committed[UserRow(v)]
  BY CommitRows
<1>3. Served(t) = users /\ Handled(t) = {} /\ users \in RechargeSets /\ users \subseteq Users
  BY <1>1, <1>2 DEF Served, Handled, SerialThread, Asked, RechargeSets
<1>4. PICK result : result = [u \in users |-> CalculationRecharge(amount[u], committed[CashRow(u)],
                                                committed[CreditRow(u)], CreditInit)]
  OBVIOUS
<1>5. ASSUME NEW u \in users
      PROVE  /\ amount[u] \in RechargeAmounts
             /\ committed'[CashRow(u)] = result[u].cash
             /\ committed'[CreditRow(u)] = result[u].credit
             /\ pin[t][UserRow(u)] = amount[u] /\ pout[t][UserRow(u)] = 0
  <2>1. u \in Users /\ CashRow(u) \in Rows /\ CreditRow(u) \in Rows
    BY <1>3, UserFacts
  <2>2. Recharged(t, u)
    BY <1>2, <1>3, <2>1 DEF SerialThread, UserSerial
  <2> QED
    BY <1>1, <1>2, <1>4, <2>1, <2>2 DEF Recharged, Leaves
<1>6. \A p \in Products : LET r == ProductRow(p) IN
        committed'[r] = committed[r] /\ pout[t][r] = 0 /\ pin[t][r] = 0
  BY <1>3, CommitStill
<1>7. \A u \in Users \ users : \A r \in AccountsOf(u) \cup {UserRow(u)} :
        committed'[r] = committed[r] /\ pout[t][r] = 0 /\ pin[t][r] = 0
  BY <1>3, CommitStill
<1>8. \A u \in Users : \A r \in AccountsOf(u) : pout[t][r] = 0 /\ pin[t][r] = 0
  BY CommitStill
<1>9. ASSUME NEW r \in Rows
      PROVE  /\ committed'[r] = IF r[2] \in users /\ r[1] = "account_cash" THEN result[r[2]].cash
                                ELSE IF r[2] \in users /\ r[1] = "account_credit"
                                THEN result[r[2]].credit ELSE committed[r]
             /\ pin[t][r] = IF r[2] \in users /\ r[1] = "user_info" THEN amount[r[2]] ELSE 0
             /\ pout[t][r] = 0
  <2>1. CASE r \in ProductRows
    <3>1. r[1] = "product" /\ \E p \in Products : r = ProductRow(p)
      BY <2>1 DEF ProductRows, ProductRow
    <3> QED
      BY <1>6, <3>1
  <2>2. CASE \E u \in Users : r = UserRow(u)
    <3>1. PICK u \in Users : r = UserRow(u)
      BY <2>2
    <3>2. r[1] = "user_info" /\ r[2] = u
      BY <3>1 DEF UserRow
    <3> QED
      BY <1>2, <1>5, <1>7, <3>1, <3>2
  <2>3. CASE \E u \in Users : r = CashRow(u)
    <3>1. PICK u \in Users : r = CashRow(u)
      BY <2>3
    <3>2. r[1] = "account_cash" /\ r[2] = u /\ r \in AccountsOf(u)
      BY <3>1 DEF CashRow, AccountsOf
    <3> QED
      BY <1>5, <1>7, <1>8, <3>1, <3>2
  <2>4. CASE \E u \in Users : r = CreditRow(u)
    <3>1. PICK u \in Users : r = CreditRow(u)
      BY <2>4
    <3>2. r[1] = "account_credit" /\ r[2] = u /\ r \in AccountsOf(u)
      BY <3>1 DEF CreditRow, AccountsOf
    <3> QED
      BY <1>5, <1>7, <1>8, <3>1, <3>2
  <2> QED
    BY <2>1, <2>2, <2>3, <2>4 DEF Rows, UserRows, AccountRows
<1>10. committed' = [r \in Rows |->
          IF r[2] \in users /\ r[1] = "account_cash" THEN result[r[2]].cash
          ELSE IF r[2] \in users /\ r[1] = "account_credit" THEN result[r[2]].credit
          ELSE committed[r]]
  BY <1>2, <1>9
<1>11. inflow' = [r \in Rows |-> inflow[r] +
          IF r[2] \in users /\ r[1] = "user_info" THEN amount[r[2]] ELSE 0]
  BY <1>2, <1>9
<1>12. outflow' = outflow
  BY <1>2, <1>9 DEF StockInv, TypeOK, BizTypeOK
<1>13. amount \in [users -> RechargeAmounts]
  BY <1>1, <1>5
<1>14. Serial!RechargeAll(users, amount)
  <2>1. \A u \in users : Serial!CalculationRecharge(amount[u], committed[Serial!CashRow(u)],
                           committed[Serial!CreditRow(u)], CreditInit) = result[u]
    BY <1>4, SameTables
  <2>2. committed' = [r \in Serial!Rows |->
          IF r[2] \in users /\ r[1] = "account_cash"
          THEN Serial!CalculationRecharge(amount[r[2]], committed[Serial!CashRow(r[2])],
                           committed[Serial!CreditRow(r[2])], CreditInit).cash
          ELSE IF r[2] \in users /\ r[1] = "account_credit"
          THEN Serial!CalculationRecharge(amount[r[2]], committed[Serial!CashRow(r[2])],
                           committed[Serial!CreditRow(r[2])], CreditInit).credit
          ELSE committed[r]]
    BY <1>10, <2>1, SameTables
  <2>3. inflow' = [r \in Serial!Rows |-> inflow[r] +
          IF r[2] \in users /\ r[1] = "user_info" THEN amount[r[2]] ELSE 0]
    BY <1>11, SameTables
  <2> QED
    BY <1>12, <2>2, <2>3 DEF Serial!RechargeAll
<1> QED
  BY <1>3, <1>13, <1>14

(* A reload is Reload. *)
LEMMA ReloadCommits ==
  ASSUME StockInv, AccountsInv, SerialInv, RowLocked, NEW t \in Threads, Commit(t),
         kind[t] = "reload"
  PROVE  \E ids \in SUBSET Products : Serial!Reload(ids)
<1>1. PICK ids : ids = InBatch(batch[t])
  OBVIOUS
<1>2. /\ WillCommit(t) /\ pc[t] = "commit" /\ SerialThread(t) /\ ~Fails(t)
      /\ committed' = [r \in Rows |-> committed'[r]]
      /\ outflow' = [r \in Rows |-> outflow[r] + pout[t][r]]
      /\ inflow'  = [r \in Rows |-> inflow[r] + pin[t][r]]
      /\ \A r \in Rows : /\ committed'[r] = Mine(t, r) /\ committed[r] \in Int
                         /\ outflow[r] \in Int /\ inflow[r] \in Int
  BY CommitRows
<1>3. Served(t) = {} /\ Handled(t) = ids /\ ids \in SUBSET Products
  BY <1>1, <1>2 DEF Served, Handled, InBatch
<1>4. ASSUME NEW r \in Rows
      PROVE  /\ committed'[r] = committed[r] + IF r[1] = "product" /\ r[2] \in ids
                                               THEN ProductStockMax - committed[r] ELSE 0
             /\ pin[t][r] = IF r[1] = "product" /\ r[2] \in ids
                            THEN ProductStockMax - committed[r] ELSE 0
             /\ pout[t][r] = 0
  <2>1. CASE \E p \in Products : r = ProductRow(p)
    <3>1. PICK p \in Products : r = ProductRow(p)
      BY <2>1
    <3>2. r[1] = "product" /\ r[2] = p
      BY <3>1 DEF ProductRow
    <3>3. CASE p \in ids
      <4>1. Refilled(t, p)
        BY <1>2, <1>3, <3>3 DEF SerialThread, ProductSerial
      <4> QED
        BY <1>2, <3>1, <3>2, <3>3, <4>1, TablesAssumption DEF Refilled
    <3>4. CASE p \notin ids
      <4>1. committed'[r] = committed[r] /\ pout[t][r] = 0 /\ pin[t][r] = 0
        BY <1>3, <3>1, <3>4, CommitStill
      <4> QED
        BY <1>2, <3>2, <3>4, <4>1
    <3> QED
      BY <3>3, <3>4
  <2>2. CASE ~ \E p \in Products : r = ProductRow(p)
    <3>1. PICK u \in Users : r \in AccountsOf(u) \cup {UserRow(u)}
      BY <2>2 DEF Rows, UserRows, AccountRows, ProductRows, AccountsOf
    <3>2. r[1] # "product"
      BY <3>1 DEF AccountsOf, UserRow, CashRow, CreditRow
    <3>3. committed'[r] = committed[r] /\ pout[t][r] = 0 /\ pin[t][r] = 0
      BY <1>3, <3>1, CommitStill
    <3> QED
      BY <1>2, <3>2, <3>3
  <2> QED
    BY <2>1, <2>2
<1>5. committed' = [r \in Rows |-> committed[r] +
         IF r[1] = "product" /\ r[2] \in ids THEN ProductStockMax - committed[r] ELSE 0]
  BY <1>2, <1>4
<1>6. inflow' = [r \in Rows |-> inflow[r] +
         IF r[1] = "product" /\ r[2] \in ids THEN ProductStockMax - committed[r] ELSE 0]
  BY <1>2, <1>4
<1>7. outflow' = outflow
  BY <1>2, <1>4 DEF StockInv, TypeOK, BizTypeOK
<1>8. Serial!Reload(ids)
  BY <1>5, <1>6, <1>7, SameTables DEF Serial!Reload
<1> QED
  BY <1>3, <1>8

LEMMA ActsNext ==
  ASSUME StockInv, AccountsInv, SerialInv, RowLocked, [Next]_vars
  PROVE  RowLocked' /\ [Serial!Next]_(Serial!serialVars)
<1>1. ASSUME NEW t \in Threads, Commit(t) PROVE Serial!Next
  <2>1. kind[t] \in {"package", "usage", "recharge", "reload"}
    BY <1>1, CommitRows DEF SerialThread, Asked
  <2>2. CASE kind[t] = "usage"
    BY <1>1, <2>2, UsageCommits DEF Serial!Next
  <2>3. CASE kind[t] = "package"
    BY <1>1, <2>3, PackageCommits, SameTables DEF Serial!Next
  <2>4. CASE kind[t] = "recharge"
    BY <1>1, <2>4, RechargeCommits, SameTables DEF Serial!Next
  <2>5. CASE kind[t] = "reload"
    BY <1>1, <2>5, ReloadCommits DEF Serial!Next
  <2> QED
    BY <2>1, <2>2, <2>3, <2>4, <2>5
<1>2. ASSUME NEW t \in Threads, Execute(t) \/ Work(t)
      PROVE  conf' = conf /\ (Serial!Next \/ UNCHANGED <<committed, outflow, inflow>>)
  BY <1>1, <1>2, ConfKept, ActsNotYet DEF Work
<1>3. CASE Expire \/ Quiet \/ UNCHANGED vars
  BY <1>3, LockedKept DEF Expire, Quiet, vars, dbVars, bookVars, Serial!serialVars
<1> QED
  BY <1>2, <1>3, LockedKept DEF Next, Serial!serialVars

(* Under the row locks of DBPlanServiceImpl, taken FOR UPDATE and kept to  *)
(* the commit, and without resets, each commit of AbstractBizService has   *)
(* the effect of its operation run alone on the committed rows, and        *)
(* nothing else changes them: for every number of threads, users and       *)
(* products, at every isolation level the plan locks rows on, and whatever *)
(* is rolled back, timed out or repeated in between.                       *)
THEOREM OperationsActSeriallyUnderRowLocks == Spec /\ RowLocked => ActsSerially
<1>1. Init => Serial!Init
  BY ActsInit
<1>2. StockInv /\ AccountsInv /\ SerialInv /\ RowLocked /\ [Next]_vars
        => RowLocked' /\ [Serial!Next]_(Serial!serialVars)
  BY ActsNext
<1>3. Spec => [](StockInv /\ AccountsInv /\ RangeInv /\ OneUsers /\ SerialInv)
  BY SerialAlways
<1> QED
  BY <1>1, <1>2, <1>3, PTL DEF Spec, ActsSerially, Serial!Spec
=============================================================================
